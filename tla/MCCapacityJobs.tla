--------------------------- MODULE MCCapacityJobs ---------------------------
(* CapacityJobs with a provider and an auditor, who may not create a profile. *)
EXTENDS CapacityJobs

CONSTANTS providerOrg, platformOrg

MCActors ==
    {Actor("ACQUIRER_PROVIDER_USER", providerOrg), Actor("AUDITOR_READONLY", platformOrg)}
=============================================================================
