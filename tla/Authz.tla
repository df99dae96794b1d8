------------------------------- MODULE Authz -------------------------------
(***************************************************************************)
(* packages/authz: the authority matrix, the decision can() takes from it,  *)
(* and the disclosure ceiling fieldPolicy() puts on what a reader sees.      *)
(*                                                                         *)
(* An action "rfq.submit_quote" of the code is the pair                     *)
(* <<"rfq", "submit_quote">>.  A role's grant is a record with the fields of *)
(* RoleGrant.  The module has no state: can() is a function of its inputs.   *)
(***************************************************************************)
EXTENDS Naturals

CONSTANT Nobody     \* the null of actor.role, actor.organizationId and ownerOrgId

On(prefix, verbs) == {prefix} \X verbs

\* actions.ts: ACTIONS
Actions ==
    On("organization", {"read", "list", "update"})
    \cup On("membership", {"read", "list", "create", "update_role", "update_status"})
    \cup On("person", {"read", "update"})
    \cup On("audit", {"read"})
    \cup On("opportunity", {"create", "read", "list", "update", "browse_market"})
    \cup On("capacity", {"create", "read", "list", "browse_market"})
    \cup On("rfq", {"create", "read", "list", "decline", "submit_quote",
                    "withdraw_quote", "select_quote"})
    \cup On("deal", {"read", "list", "post_condition", "resolve_condition", "record_decision"})
    \cup On("lockbox", {"seal", "read_receipt", "withdraw", "release"})
    \cup On("claim", {"create", "read", "list", "dispute", "decide"})
    \cup On("passport", {"create", "read", "list", "update", "verify"})
    \cup On("matching", {"evaluate"})
    \cup On("match", {"read", "list"})
    \cup On("schedule", {"read", "list", "manage"})
    \cup On("economics", {"read", "list", "record"})
    \cup On("ledger", {"read", "list", "record_payment", "adjust"})

\* can.ts: ACTION_RESOURCE_TYPE
ActionResourceType(a) ==
    CASE a[1] = "audit"                  -> "audit_event"
      [] a[1] = "capacity"               -> "capacity_profile"
      [] a[1] = "deal"                   -> "deal_room"
      [] a[1] \in {"matching", "match"}  -> "match_result"
      [] a[1] = "schedule"               -> "commission_schedule"
      [] a[1] = "economics"              -> "revenue_event"
      [] a[1] = "ledger"                 -> "commission_accrual"
      [] OTHER                           -> a[1]

\* roles.ts: PERSONA_ROLES
PersonaRoles ==
    {"PLATFORM_OWNER", "MARKETPLACE_OPERATOR", "PARTNERSHIP_LEAD", "UNDERWRITING_ANALYST",
     "COMPLIANCE_REVIEWER", "FINANCE_OPERATOR", "CONTRIBUTOR_AGENT", "MERCHANT_PSP_USER",
     "ACQUIRER_PROVIDER_USER", "AUDITOR_READONLY"}

-----------------------------------------------------------------------------
(* matrix.ts: AUTHORITY_MATRIX, one definition per role.                    *)

RoleGrant(allowed, crossOrg, participant, manages) ==
    [allowedActions |-> allowed, crossOrgActions |-> crossOrg,
     participantActions |-> participant, managesOtherPeopleInOwnOrg |-> manages]

BrowseMarket == {<<"opportunity", "browse_market">>, <<"capacity", "browse_market">>}

OwnerActions == Actions

\* Every action, across organizations but for the five an organization does for itself.
PlatformOwner ==
    RoleGrant(OwnerActions,
              OwnerActions \ ({<<"lockbox", "withdraw">>} \cup On("claim", {"create", "dispute"})
                              \cup On("passport", {"create", "update"})),
              {}, TRUE)

OperatorActions ==
    On("organization", {"read", "list"})
    \cup On("membership", {"read", "list", "create", "update_status"})
    \cup {<<"person", "read">>, <<"audit", "read">>}
    \cup On("opportunity", {"read", "list"}) \cup On("capacity", {"read", "list"})
    \cup On("rfq", {"create", "read", "list"})
    \cup On("deal", {"read", "list", "post_condition", "resolve_condition", "record_decision"})
    \cup On("lockbox", {"read_receipt", "release"})
    \cup On("claim", {"read", "list", "decide"})
    \cup On("passport", {"read", "list", "verify"})
    \cup {<<"matching", "evaluate">>} \cup On("match", {"read", "list"})
    \cup BrowseMarket

\* Mutant: the operator who releases lockboxes may seal them too.
MarketplaceOperator_Seals ==
    RoleGrant(OperatorActions \cup {<<"lockbox", "seal">>}, OperatorActions, {}, FALSE)

MarketplaceOperator == RoleGrant(OperatorActions, OperatorActions, {}, FALSE)

LeadCrossOrg ==
    On("capacity", {"create", "read", "list"}) \cup On("claim", {"read", "list", "decide"})
    \cup On("passport", {"read", "list"}) \cup On("match", {"read", "list"}) \cup BrowseMarket

PartnershipLead ==
    RoleGrant(LeadCrossOrg \cup {<<"organization", "read">>} \cup On("membership", {"read", "list"})
                           \cup On("person", {"read", "update"}),
              LeadCrossOrg, {}, TRUE)

AnalystCrossOrg ==
    On("opportunity", {"read", "list"}) \cup On("claim", {"read", "list"})
    \cup On("passport", {"read", "list"}) \cup On("match", {"read", "list"}) \cup BrowseMarket

UnderwritingAnalyst ==
    RoleGrant(AnalystCrossOrg \cup {<<"organization", "read">>, <<"person", "read">>},
              AnalystCrossOrg, {}, FALSE)

ReviewerActions ==
    On("organization", {"read", "list"}) \cup On("membership", {"read", "list"})
    \cup {<<"person", "read">>, <<"audit", "read">>, <<"lockbox", "read_receipt">>}
    \cup On("opportunity", {"read", "list"}) \cup On("capacity", {"read", "list"})
    \cup On("rfq", {"read", "list"}) \cup On("deal", {"read", "list"})
    \cup On("claim", {"read", "list", "decide"}) \cup On("passport", {"read", "list", "verify"})
    \cup On("match", {"read", "list"}) \cup BrowseMarket

ComplianceReviewer == RoleGrant(ReviewerActions, ReviewerActions, {}, FALSE)

FinanceCrossOrg ==
    On("claim", {"read", "list"}) \cup On("schedule", {"read", "list"})
    \cup On("economics", {"read", "list", "record"})
    \cup On("ledger", {"read", "list", "record_payment", "adjust"}) \cup BrowseMarket

FinanceOperator ==
    RoleGrant(FinanceCrossOrg \cup {<<"organization", "read">>} \cup On("membership", {"read", "list"}),
              FinanceCrossOrg, {}, FALSE)

\* What a contributor, a merchant and a provider are all granted.
MemberActions ==
    On("person", {"read", "update"}) \cup On("lockbox", {"seal", "read_receipt", "withdraw"})
    \cup On("claim", {"create", "read", "list", "dispute"})
    \cup On("passport", {"create", "read", "update"}) \cup On("ledger", {"read", "list"})
    \cup BrowseMarket

MemberParticipant == {<<"claim", "dispute">>} \cup On("ledger", {"read", "list"})

ContributorAgent ==
    RoleGrant(MemberActions \cup {<<"organization", "read">>}
                            \cup On("opportunity", {"create", "update", "read", "list"}),
              BrowseMarket, MemberParticipant, FALSE)

MerchantPspUser ==
    RoleGrant(MemberActions
              \cup On("organization", {"read", "update"}) \cup On("membership", {"read", "list"})
              \cup On("opportunity", {"create", "update", "read", "list"})
              \cup On("rfq", {"read", "list", "select_quote"})
              \cup On("deal", {"read", "list", "post_condition", "resolve_condition", "record_decision"})
              \cup On("match", {"read", "list"}),
              BrowseMarket, MemberParticipant, FALSE)

ProviderParticipant ==
    MemberParticipant
    \cup On("rfq", {"read", "list", "decline", "submit_quote", "withdraw_quote"})
    \cup On("deal", {"read", "list", "post_condition", "resolve_condition", "record_decision"})
    \cup On("match", {"read", "list"})

AcquirerProviderUser ==
    RoleGrant(MemberActions \cup ProviderParticipant
              \cup On("organization", {"read", "update"}) \cup On("membership", {"read", "list"})
              \cup On("capacity", {"create", "read", "list"}),
              BrowseMarket, ProviderParticipant, FALSE)

AuditorActions ==
    {"organization", "membership", "opportunity", "capacity", "rfq", "deal", "claim", "passport",
     "match", "schedule", "economics", "ledger"} \X {"read", "list"}
    \cup {<<"person", "read">>, <<"audit", "read">>, <<"lockbox", "read_receipt">>} \cup BrowseMarket

AuditorReadonly == RoleGrant(AuditorActions, AuditorActions, {}, FALSE)

AuthorityMatrix(role) ==
    CASE role = "PLATFORM_OWNER"         -> PlatformOwner
      [] role = "MARKETPLACE_OPERATOR"   -> MarketplaceOperator
      [] role = "PARTNERSHIP_LEAD"       -> PartnershipLead
      [] role = "UNDERWRITING_ANALYST"   -> UnderwritingAnalyst
      [] role = "COMPLIANCE_REVIEWER"    -> ComplianceReviewer
      [] role = "FINANCE_OPERATOR"       -> FinanceOperator
      [] role = "CONTRIBUTOR_AGENT"      -> ContributorAgent
      [] role = "MERCHANT_PSP_USER"      -> MerchantPspUser
      [] role = "ACQUIRER_PROVIDER_USER" -> AcquirerProviderUser
      [] role = "AUDITOR_READONLY"       -> AuditorReadonly

\* The checks made when the module is loaded: without them nothing starts.
MatrixIsWellFormed ==
    \A role \in PersonaRoles :
        LET grant == AuthorityMatrix(role)
        IN  /\ grant.crossOrgActions \subseteq grant.allowedActions
            /\ grant.participantActions \subseteq grant.allowedActions
            /\ grant.crossOrgActions \cap grant.participantActions = {}

ASSUME AuthzAssumption == Nobody \notin PersonaRoles /\ MatrixIsWellFormed

-----------------------------------------------------------------------------
(* can.ts: can().  An actor has a role and an organization, or Nobody for    *)
(* both; a resource has a type and an owner; the context says whether the    *)
(* record is the actor's own and whether its organization takes part in it.  *)

Actor(role, org) == [role |-> role, organizationId |-> org]
Resource(type, owner) == [type |-> type, ownerOrgId |-> owner]
Context(isSelf, isParticipant) == [isSelf |-> isSelf, isParticipant |-> isParticipant]

\* Mutant: a named participant is let in whatever its role.
Granted_AnyParticipant(grant, action, context) ==
    context.isParticipant \/ (action \in grant.crossOrgActions)

\* Across organizations: by the role, or by standing on this very resource.
Granted(grant, action, context) ==
    \/ action \in grant.crossOrgActions
    \/ context.isParticipant /\ action \in grant.participantActions

\* Within the organization; a ledger entry has no such owner.
SameOrg(actor, resource) ==
    /\ resource.type # "commission_accrual"
    /\ resource.ownerOrgId # Nobody
    /\ resource.ownerOrgId = actor.organizationId

can(actor, action, resource, context) ==
    /\ resource.type = ActionResourceType(action)
    /\ actor.role # Nobody /\ actor.organizationId # Nobody
    /\ LET grant == AuthorityMatrix(actor.role)
       IN  /\ action \in grant.allowedActions
           /\ action = <<"person", "update">>
                => context.isSelf \/ grant.managesOtherPeopleInOwnOrg
           /\ Granted(grant, action, context) \/ SameOrg(actor, resource)

-----------------------------------------------------------------------------
(* roles.ts and field-policy.ts: the disclosure ladder.                      *)

disclosureRank(class) ==
    CASE class = "PUBLIC_MARKET" -> 0
      [] class = "MEMBER_MARKET" -> 1
      [] class = "MATCH_SUMMARY" -> 2
      [] class = "DEAL_ROOM"     -> 3
      [] class = "RESTRICTED"    -> 4
      [] class = "SECRET"        -> 5

CrossOrgCeiling(role) ==
    IF role \in {"MARKETPLACE_OPERATOR", "COMPLIANCE_REVIEWER", "AUDITOR_READONLY"}
    THEN "RESTRICTED" ELSE "MEMBER_MARKET"

\* fieldPolicy().maxVisibleClass
maxVisibleClass(actor, resource) ==
    IF \/ actor.role = "PLATFORM_OWNER"
       \/ resource.ownerOrgId # Nobody /\ resource.ownerOrgId = actor.organizationId
    THEN "SECRET"
    ELSE IF actor.role = Nobody THEN "PUBLIC_MARKET"
    ELSE CrossOrgCeiling(actor.role)

\* redactFields(): the fields that survive, of a function from field to class.
redactFields(actor, resource, classes) ==
    {f \in DOMAIN classes :
        disclosureRank(classes[f]) <= disclosureRank(maxVisibleClass(actor, resource))}
=============================================================================
