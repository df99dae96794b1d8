SPECIFICATION Spec
CONSTANTS
    Nobody = Nobody
    owner = owner
    member = member
    platformOrg = platformOrg
    merchantOrg = merchantOrg
    Requests = {r1, r2}
    Sessions = {s1, s2}
    Users = {owner, member}
    Memberships <- MCMemberships
    InitialMemberships <- MCInitial
INVARIANTS SessionsAreSound
PROPERTIES ChangesRestOnAuthority DeactivationEndsSessions
SYMMETRY MCSymmetry
