SPECIFICATION Spec
CONSTANTS
    c1 = c1
    c2 = c2
    org1 = org1
    Schedules = {s1, s2}
    Events = {e1}
    Components = {c1, c2}
    Share <- MCShare
    Recipient <- MCRecipient
    References = {f1, f2}
    Requests = {q1, q2}
    None = None
    MaxAmount = 2
    MaxEntries = 2
    MaxAdjustments = 1
PROPERTIES PaymentWithinBalance
CHECK_DEADLOCK FALSE
