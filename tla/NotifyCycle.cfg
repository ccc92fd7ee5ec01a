\* Three starts, four travel times, up to three ticks in a row missed.
SPECIFICATION Spec
CONSTANTS
    NotifyLead = 7
    PrepBuffer = 1
    ReshiftThreshold = 1
    None = None
    Interval = 2
    Starts = {12, 14, 17}
    TravelTimes = {1, 2, 4, 6}
    Horizon = 18
    MaxMissed = 3
INVARIANTS
    CycleTypeOK
    SpamBound
    TierHasItsMessage
    AnnouncedInTime
PROPERTIES
    KeepsPromise
    LateOnlyWhenSurprised
