\* Two events of one tick, and a crash at any moment.
SPECIFICATION Spec
CONSTANTS
    k1 = k1
    k2 = k2
    c1 = c1
    c2 = c2
    name1 = name1
    name2 = name2
    locA = locA
    locB = locB
    Keys = {k1, k2}
    Calendars = {c1}
    CalName <- MCCalName
    Locations = {locA, locB}
    NoLocation = NoLocation
    NoRow = NoRow
    Absent = Absent
    None = None
    Versions <- Fixed
    Homes <- OneHome
    Removable = {}
    Selected = {c1}
    PushCalendars = {}
    TravelTimes = {1}
    NoSpeed = FALSE
    MaxAttempts = 1
    NotifyLead = 1
    PrepBuffer = 1
    ReshiftThreshold = 0
    GeocodeWindow = 3
    Lookahead = 10
    Horizon = 4
    MaxEdits = 1
    MaxCrashes = 1
INVARIANTS
    OneShotPerCycle
    ResolvedIsCached
SYMMETRY KeySymmetry
