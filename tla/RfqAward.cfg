SPECIFICATION Spec
CONSTANTS
    Opportunities = {o1}
    Rfqs = {r1, r2}
    Providers = {p1}
    Quotes = {t1, t2}
    Requests = {q1, q2}
    None = None
    MaxTime = 1
    DueDates = {0}
    SweepLimit = 1
    MaxCrashes = 0
SYMMETRY Symmetry
INVARIANTS DealMatchesAward OneDealPerRfq RowsAreSound
PROPERTIES ImplementsQuoteAward
CHECK_DEADLOCK FALSE
