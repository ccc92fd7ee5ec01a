\* Subscriptions over a restart with other settings and any number of failures,
\* a server that grants less than is asked for and may not say so.
SPECIFICATION DavSpec
CONSTANTS
    c1 = c1
    c2 = c2
    c3 = c3
    t1 = t1
    t2 = t2
    t3 = t3
    Calendars = {c1, c2, c3}
    Supported = {c1, c2}
    Tokens = {t1, t2, t3}
    Configurations <- AllConfigurations
    Interval = 1
    Margin = 2
    Asked = 3
    Lifetimes = {2, 3}
    LongSyncs = TRUE
    MaxCrashes = 1
    None = None
INVARIANTS
    DavTypeOK
    RowsAreRegistered
    LapsesOnlyAfterTwoMisses
    PushesFindTheirCalendar
    CountIsStored
PROPERTIES
    NoSecondRegistration
    CheckRevives
