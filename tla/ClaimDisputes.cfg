SPECIFICATION Spec
CONSTANTS
    Claims = {c1, c2}
    Disputes = {d1, d2}
    Decisions = {n1, n2, n3}
    Orgs = {subject, o1, o2}
    Subject = subject
    Requests = {q1, q2}
    None = None
SYMMETRY Symmetry
INVARIANTS DisputedIffOneOpenDispute DecisionsAccountForDisputes
PROPERTIES OutcomesAreFinal
CHECK_DEADLOCK FALSE
