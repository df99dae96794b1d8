SPECIFICATION FairSpec
CONSTANTS
    Opportunities = {o1}
    Rfqs = {r1, r2}
    Providers = {p1}
    Quotes = {t1}
    Requests = {q1}
    None = None
    MaxTime = 2
    DueDates = {0, 1}
    SweepLimit = 1
    MaxCrashes = 1
PROPERTIES OverdueRfqCloses
CHECK_DEADLOCK FALSE
