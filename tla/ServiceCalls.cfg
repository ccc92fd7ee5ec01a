\* Three events, two at one address, every way the services can fail, and up to
\* two units of time in which a sync has the loop.
SPECIFICATION FairSpec
CONSTANTS
    e1 = e1
    e2 = e2
    e3 = e3
    locA = locA
    locB = locB
    Events = {e1, e2, e3}
    Address <- Places
    Providers = {"haversine", "osrm"}
    Speeds = {0, 40}
    RateLimit = 2
    LongestAttempt = 1
    MaxAttempts = 3
    MaxPause = 10
    MaxHeld = 2
    None = None
INVARIANTS
    CallsTypeOK
    EveryEventServed
    TickBounded
PROPERTIES
    SearchesSpaced
    TickEnds
