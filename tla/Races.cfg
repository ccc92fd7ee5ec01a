\* Syncs and ticks interleaved, one event edited or not, no crash.
SPECIFICATION FairTickSpec
CONSTANTS
    k1 = k1
    k2 = k2
    c1 = c1
    c2 = c2
    name1 = name1
    name2 = name2
    locA = locA
    locB = locB
    Keys = {k1}
    Calendars = {c1}
    CalName <- MCCalName
    Locations = {locA, locB}
    NoLocation = NoLocation
    NoRow = NoRow
    Absent = Absent
    None = None
    Versions <- Changing
    Homes <- OneHome
    Removable = {}
    Selected = {c1}
    PushCalendars = {}
    TravelTimes = {1, 2}
    NoSpeed = TRUE
    MaxAttempts = 2
    NotifyLead = 1
    PrepBuffer = 0
    ReshiftThreshold = 0
    GeocodeWindow = 3
    Lookahead = 10
    Horizon = 4
    MaxEdits = 1
    MaxCrashes = 0
INVARIANTS
    TypeOK
    OneShotInv
    OneShotPerCycle
    NeverGeocodesNothing
    ResolvedIsCached
PROPERTIES
    TickKeepsSyncWrites
    AnnouncedEventually
