------------------------------ MODULE MCLockbox ------------------------------
(* Lockbox with a sealing merchant, an uninvolved provider and an operator.    *)
EXTENDS Lockbox, TLC

CONSTANTS merchantOrg, providerOrg, platformOrg

MCActors ==
    {Actor("MERCHANT_PSP_USER", merchantOrg), Actor("ACQUIRER_PROVIDER_USER", providerOrg),
     Actor("MARKETPLACE_OPERATOR", platformOrg)}

MCSymmetry == Permutations(Requests) \cup Permutations(Boxes) \cup Permutations(Payloads)
=============================================================================
