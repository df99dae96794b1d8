----------------------------- MODULE MCDealRoom -----------------------------
(* DealRoom with both counterparties, an operator, and a stranger who may not act. *)
EXTENDS DealRoom

CONSTANTS platformOrg

MCActors ==
    {Actor("MERCHANT_PSP_USER", merchantOrgId), Actor("ACQUIRER_PROVIDER_USER", providerOrgId),
     Actor("MARKETPLACE_OPERATOR", platformOrg), Actor("AUDITOR_READONLY", platformOrg)}
=============================================================================
