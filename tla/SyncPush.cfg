\* Polls and pushes, a key in two calendars, one of them deleted.
SPECIFICATION FairSyncSpec
CONSTANTS
    k1 = k1
    k2 = k2
    c1 = c1
    c2 = c2
    name1 = name1
    name2 = name2
    locA = locA
    locB = locB
    Keys = {k1}
    Calendars = {c1, c2}
    CalName <- MCCalName
    Locations = {locA, locB}
    NoLocation = NoLocation
    NoRow = NoRow
    Absent = Absent
    None = None
    NotifyLead = 1
    PrepBuffer = 0
    ReshiftThreshold = 0
    Versions <- FewVersions
    Homes <- SharedHome
    Removable = {c1}
    Selected = {c1, c2}
    PushCalendars = {c2}
    GeocodeWindow = 2
    Lookahead = 4
    Horizon = 5
    MaxEdits = 2
INVARIANTS
    StartsAfterLastSync
    QueuedBeyondWindow
PROPERTIES
    DoneIsFinal
    FollowsLifecycle
    TrackedEventually
