SPECIFICATION Spec
CONSTANTS
    Nobody = Nobody
    NoKey = NoKey
    Unset = Unset
    Destroyed = Destroyed
    merchantOrg = merchantOrg
    providerOrg = providerOrg
    platformOrg = platformOrg
    Boxes = {b1, b2}
    Requests = {r1, r2}
    Keys = {k1}
    Payloads = {p1, p2}
    Deks = {0, 202}
    DekCoeffs = {83}
    Organizations = {merchantOrg, providerOrg, platformOrg}
    Recipients = {providerOrg, Nobody}
    Actors <- MCActors
INVARIANTS WithdrawalHolds DisclosedOnceAsSealed SealIsIdempotent
SYMMETRY MCSymmetry
