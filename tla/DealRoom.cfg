SPECIFICATION Spec
CONSTANTS
    Nobody = Nobody
    merchantOrgId = merchantOrg
    providerOrgId = providerOrg
    platformOrg = platformOrg
    Requests = {r1, r2, r3}
    Organizations = {merchantOrg, providerOrg, platformOrg}
    Actors <- MCActors
INVARIANTS RoomIsSound
PROPERTIES ConditionResolvedOnce EveryRequestEnds
