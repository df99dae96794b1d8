------------------------------ MODULE Visibility ------------------------------
(***************************************************************************)
(* What the API's read paths show to whom: the list functions of the        *)
(* services, each with its own hard-coded set of roles that see every row,   *)
(* against the authority matrix those sets must agree with; the organization *)
(* view and the marketplace cards cut down by redactFields.                  *)
(*                                                                         *)
(* A row is what a list is scoped by: the owner organization (claimant,      *)
(* sealer, provider of a capacity, merchant of a deal or an RFQ) and the     *)
(* counterparty (the invited or matched provider, the ledger recipient).     *)
(***************************************************************************)
EXTENDS Authz

Row(owner, party) == [owner |-> owner, party |-> party]

\* can() on a record of the action's type, with this owner and this standing.
Allowed(actor, action, owner, isParticipant) ==
    can(actor, action, Resource(ActionResourceType(action), owner), Context(FALSE, isParticipant))

\* What the list shows of a row, and whether the row can be opened.
Access(shown, readable) == [shown |-> shown, readable |-> readable]

\* The roles whose list query has no organization in its WHERE clause.
CrossOrgRoles == {"PLATFORM_OWNER", "MARKETPLACE_OPERATOR", "COMPLIANCE_REVIEWER", "AUDITOR_READONLY"}
CapacityReadRoles == CrossOrgRoles \cup {"PARTNERSHIP_LEAD"}
OpportunityReadRoles == CrossOrgRoles \cup {"UNDERWRITING_ANALYST"}
PassportReadRoles == CrossOrgRoles \cup {"PARTNERSHIP_LEAD", "UNDERWRITING_ANALYST"}
MatchReadRoles == CrossOrgRoles \cup {"PARTNERSHIP_LEAD", "UNDERWRITING_ANALYST"}
EconomicsRoles == {"PLATFORM_OWNER", "FINANCE_OPERATOR", "AUDITOR_READONLY"}

\* Mutant: the list is not extended when finance is granted to read claims.
ClaimReadRoles_NoFinance == CrossOrgRoles \cup {"PARTNERSHIP_LEAD", "UNDERWRITING_ANALYST"}

ClaimReadRoles == CrossOrgRoles \cup {"PARTNERSHIP_LEAD", "UNDERWRITING_ANALYST", "FINANCE_OPERATOR"}

\* The common shape: list gated on the actor's own organization, then every row
\* or its own; getById gated on the row's owner.
OwnedAccess(actor, entity, roles, row) ==
    Access(/\ Allowed(actor, <<entity, "list">>, actor.organizationId, FALSE)
           /\ actor.role \in roles \/ row.owner = actor.organizationId,
           Allowed(actor, <<entity, "read">>, row.owner, FALSE))

OrganizationAccess(actor, row) == OwnedAccess(actor, "organization", CrossOrgRoles, row)
CapacityAccess(actor, row) == OwnedAccess(actor, "capacity", CapacityReadRoles, row)
OpportunityAccess(actor, row) == OwnedAccess(actor, "opportunity", OpportunityReadRoles, row)
ClaimAccess(actor, row) == OwnedAccess(actor, "claim", ClaimReadRoles, row)
PassportAccess(actor, row) == OwnedAccess(actor, "passport", PassportReadRoles, row)

\* A lockbox is listed, and read, by the right to its receipt.
LockboxAccess(actor, row) ==
    Access(/\ Allowed(actor, <<"lockbox", "read_receipt">>, actor.organizationId, FALSE)
           /\ actor.role \in CrossOrgRoles \/ row.owner = actor.organizationId,
           Allowed(actor, <<"lockbox", "read_receipt">>, row.owner, FALSE))

\* The gate of the list takes standing for granted; the query then follows the
\* role: the invitations of a provider, the opportunities of anybody else.
RfqAccess(actor, row) ==
    Access(/\ Allowed(actor, <<"rfq", "list">>, actor.organizationId, TRUE)
           /\ \/ actor.role \in CrossOrgRoles
              \/ actor.role = "ACQUIRER_PROVIDER_USER" /\ row.party = actor.organizationId
              \/ actor.role # "ACQUIRER_PROVIDER_USER" /\ row.owner = actor.organizationId,
           Allowed(actor, <<"rfq", "read">>, row.owner, row.party = actor.organizationId))

\* listByOrg: merchant or provider; both are participants of the room.
DealAccess(actor, row) ==
    Access(/\ Allowed(actor, <<"deal", "list">>, actor.organizationId, TRUE)
           /\ actor.role \in CrossOrgRoles \/ actor.organizationId \in {row.owner, row.party},
           Allowed(actor, <<"deal", "read">>, row.owner, actor.organizationId \in {row.owner, row.party}))

\* The matches of one opportunity; a match is never read on its own.
MatchAccess(actor, row) ==
    Access(/\ Allowed(actor, <<"match", "list">>, row.owner, TRUE)
           /\ \/ actor.role \in MatchReadRoles
              \/ row.owner = actor.organizationId
              \/ actor.role = "ACQUIRER_PROVIDER_USER" /\ row.party = actor.organizationId,
           Allowed(actor, <<"match", "read">>, row.owner, row.party = actor.organizationId))

\* getLedger: no owner; a party sees the entries it is the recipient of.
LedgerAccess(actor, row) ==
    LET isParticipant == actor.role \notin EconomicsRoles /\ row.party = actor.organizationId
    IN  Access(/\ Allowed(actor, <<"ledger", "list">>, Nobody, isParticipant)
               /\ actor.role \in EconomicsRoles \/ row.party = actor.organizationId,
               Allowed(actor, <<"ledger", "read">>, Nobody, isParticipant))

Listed == {"organization", "capacity", "opportunity", "rfq", "deal", "lockbox", "claim", "passport",
           "match", "ledger"}

AccessTo(actor, entity, row) ==
    CASE entity = "organization" -> OrganizationAccess(actor, row)
      [] entity = "capacity"     -> CapacityAccess(actor, row)
      [] entity = "opportunity"  -> OpportunityAccess(actor, row)
      [] entity = "claim"        -> ClaimAccess(actor, row)
      [] entity = "passport"     -> PassportAccess(actor, row)
      [] entity = "lockbox"      -> LockboxAccess(actor, row)
      [] entity = "rfq"          -> RfqAccess(actor, row)
      [] entity = "deal"         -> DealAccess(actor, row)
      [] entity = "match"        -> MatchAccess(actor, row)
      [] entity = "ledger"       -> LedgerAccess(actor, row)

-----------------------------------------------------------------------------
(* organizations/mapper.ts and marketplace/mapper.ts                        *)

OrganizationFieldClasses ==
    [f \in {"legalName", "displayName", "entityType", "country", "registrationId", "website",
            "verificationStatus"} |->
        CASE f \in {"displayName", "country"} -> "PUBLIC_MARKET"
          [] f = "registrationId"             -> "RESTRICTED"
          [] OTHER                            -> "MEMBER_MARKET"]

\* toOrganizationDTO: the organization is its own owner.
OrganizationView(actor, org) ==
    redactFields(actor, Resource("organization", org), OrganizationFieldClasses)

CapacityCardFields ==
    {"freshnessClass", "acceptingNewVolume", "jurisdictions", "mccsAccepted", "currency",
     "monthlyCapacityBand", "riskTier"}

CapacityFieldClasses ==
    [f \in CapacityCardFields \cup {"providerOrgId", "monthlyCapacityMinor", "minTicketMinor",
            "maxTicketMinor", "maxChargebackBps", "maxFraudBps", "maxRefundBps", "settlementRail",
            "settlementCadenceDays", "commercialTerms"} |->
        CASE f \in CapacityCardFields                            -> "MEMBER_MARKET"
          [] f \in {"monthlyCapacityMinor", "commercialTerms"}   -> "SECRET"
          [] OTHER                                               -> "RESTRICTED"]

OpportunityCardFields ==
    {"opportunityType", "status", "currency", "jurisdictions", "mccs", "offeredVolumeBand"}

OpportunityFieldClasses ==
    [f \in OpportunityCardFields \cup {"ownerOrgId", "totalPaymentVolumeMinor", "totalCardGpvMinor",
            "eligibleCardGpvMinor", "offeredCardGpvMinor", "movableNowMinor", "movable30dMinor",
            "movable90dMinor"} |->
        CASE f \in OpportunityCardFields -> "MEMBER_MARKET"
          [] f \in {"ownerOrgId", "movableNowMinor", "movable30dMinor", "movable90dMinor"} -> "RESTRICTED"
          [] OTHER -> "SECRET"]

\* A card is its fields, or nothing when one of them is hidden from the actor.
Card(visible, fields) == IF fields \subseteq visible THEN fields ELSE {}

\* The resource of a card has no owner: the owner browses as everybody does.
CapacityCard(actor) ==
    Card(redactFields(actor, Resource("capacity_profile", Nobody), CapacityFieldClasses), CapacityCardFields)

OpportunityCard(actor) ==
    Card(redactFields(actor, Resource("opportunity", Nobody), OpportunityFieldClasses), OpportunityCardFields)

\* marketplaceService.listCapacity and listOpportunities: nothing without the grant.
BrowseCapacity(actor) ==
    IF can(actor, <<"capacity", "browse_market">>, Resource("capacity_profile", Nobody), Context(FALSE, FALSE))
    THEN CapacityCard(actor) ELSE {}

BrowseOpportunities(actor) ==
    IF can(actor, <<"opportunity", "browse_market">>, Resource("opportunity", Nobody), Context(FALSE, FALSE))
    THEN OpportunityCard(actor) ELSE {}
=============================================================================
