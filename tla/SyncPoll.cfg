\* The poll alone: no push, no deleted calendar, every key in one calendar.
SPECIFICATION SyncSpec
CONSTANTS
    k1 = k1
    k2 = k2
    c1 = c1
    c2 = c2
    name1 = name1
    name2 = name2
    locA = locA
    locB = locB
    Keys = {k1, k2}
    Calendars = {c1, c2}
    CalName <- MCCalName
    Locations = {locA, locB}
    NoLocation = NoLocation
    NoRow = NoRow
    Absent = Absent
    None = None
    NotifyLead = 1
    PrepBuffer = 0
    ReshiftThreshold = 0
    Versions <- AllVersions
    Homes <- OwnHomes
    Removable = {}
    Selected = {c1, c2}
    PushCalendars = {}
    GeocodeWindow = 2
    Lookahead = 4
    Horizon = 5
    MaxEdits = 2
INVARIANTS
    SyncTypeOK
    QueuedBeyondWindow
PROPERTIES
    FullSyncMirrorsServer
