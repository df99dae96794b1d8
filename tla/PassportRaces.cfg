SPECIFICATION Spec
CONSTANTS
    FactKeys = {f1}
    Blocking = {f1}
    Requests = {q1, q2}
    Jobs = {w1}
    Never = Never
    Expiries = {1}
    StaleAfter = 1
    WarnWithin = 0
    MaxTime = 2
    MaxVersion = 2
SYMMETRY Symmetry
INVARIANTS
    StatusReflectsFacts
PROPERTIES
    StaleOnlyWhenOld
    VerificationSurvives
