\* The address of an ACTIVE event is changed.
SPECIFICATION Spec
CONSTANTS
    k1 = k1
    k2 = k2
    c1 = c1
    c2 = c2
    name1 = name1
    name2 = name2
    locA = locA
    locB = locB
    Keys = {k1}
    Calendars = {c1}
    CalName <- MCCalName
    Locations = {locA, locB}
    NoLocation = NoLocation
    NoRow = NoRow
    Absent = Absent
    None = None
    Versions <- Moving
    Homes <- OneHome
    Removable = {}
    Selected = {c1}
    PushCalendars = {}
    TravelTimes = {1}
    NoSpeed = FALSE
    MaxAttempts = 2
    NotifyLead = 1
    PrepBuffer = 0
    ReshiftThreshold = 0
    GeocodeWindow = 3
    Lookahead = 10
    Horizon = 5
    MaxEdits = 1
    MaxCrashes = 0
INVARIANTS
    RoutesToLocation
