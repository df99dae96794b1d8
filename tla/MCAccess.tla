------------------------------ MODULE MCAccess ------------------------------
(* Access with an owner of the platform and a merchant's user who may hold two    *)
(* roles there.                                                             *)
EXTENDS Access, TLC

CONSTANTS owner, member, platformOrg, merchantOrg

Membership(org, u, role) == [organizationId |-> org, userId |-> u, role |-> role]

MCInitial ==
    {Membership(platformOrg, owner, "PLATFORM_OWNER"), Membership(merchantOrg, member, "MERCHANT_PSP_USER")}

MCMemberships == MCInitial \cup {Membership(merchantOrg, member, "CONTRIBUTOR_AGENT")}

MCSymmetry == Permutations(Requests) \cup Permutations(Sessions)
=============================================================================
