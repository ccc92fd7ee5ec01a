\* One calendar, whose renewal checks are due when a long sync runs.
SPECIFICATION FairDavSpec
CONSTANTS
    c1 = c1
    c2 = c2
    c3 = c3
    t1 = t1
    t2 = t2
    t3 = t3
    Calendars = {c1}
    Supported = {c1}
    Tokens = {t1, t2, t3}
    Configurations <- OneConfiguration
    Interval = 1
    Margin = 2
    Asked = 3
    Lifetimes = {3}
    LongSyncs = TRUE
    MaxCrashes = 0
    None = None
PROPERTIES
    RenewedAutomatically
