------------------------------ MODULE WebPages ------------------------------
(***************************************************************************)
(* apps/web: what a page offers to whom, and what a form sends, beside what *)
(* the API would accept from the same viewer at that moment.                 *)
(*                                                                         *)
(* The pages keep copies of the matrix: sets of roles and of statuses.  A    *)
(* page is a record with the fields its component reads; a page whose first  *)
(* request is refused shows the refusal and offers nothing.                  *)
(***************************************************************************)
EXTENDS Visibility, DomainStates

When(condition, actions) == IF condition THEN actions ELSE {}

Terminal(status) == status \in {"DECLINED", "ARCHIVED"}

\* rfqs/[rfqId]: status of the RFQ and its opportunity, and of the party its
\* state as a recipient and the statuses of its quotes.
RfqPages ==
    {p \in [page: {"rfq"}, status: {"SENT", "QUOTED", "SELECTED", "EXPIRED", "DECLINED"},
            opportunity: {"INVITED", "QUOTED", "SELECTED"}, recipient: RecipientStates \ {"ACKNOWLEDGED"},
            quotes: {{}} \cup {{q} : q \in QuoteStatuses}] :
        /\ p.quotes # {} => p.recipient \notin {"INVITED"} /\ p.status # "SENT"
        /\ p.recipient = "QUOTED" => p.quotes # {}
        /\ p.status = "EXPIRED" => p.recipient \notin {"INVITED", "QUOTED"}}

SubmitQuoteOffered(viewer, row, p) ==
    row.party = viewer.organizationId /\ p.recipient \notin {"DECLINED", "EXPIRED"}
DeclineOffered(viewer, row, p) == SubmitQuoteOffered(viewer, row, p)
WithdrawQuoteOffered(viewer, row, p) == row.party = viewer.organizationId /\ "SUBMITTED" \in p.quotes

\* isMerchantViewer: the opportunity is fetched for its owner; a refusal is no owner.
SelectQuoteOffered(viewer, row, p) ==
    /\ OpportunityAccess(viewer, row).readable /\ row.owner = viewer.organizationId
    /\ p.status = "QUOTED" /\ "SUBMITTED" \in p.quotes

RfqDetailActions(viewer, row, p) ==
    When(RfqAccess(viewer, row).readable,
         When(SubmitQuoteOffered(viewer, row, p), On("rfq", {"submit_quote"}))
         \cup When(DeclineOffered(viewer, row, p), On("rfq", {"decline"}))
         \cup When(WithdrawQuoteOffered(viewer, row, p), On("rfq", {"withdraw_quote"}))
         \cup When(SelectQuoteOffered(viewer, row, p), On("rfq", {"select_quote"})))

\* deals/[dealId]: no role is asked here; the page is open to whoever may read.
DealPages == [page: {"deal"}, status: DealRoomStatuses, condition: ConditionStates]

ResolveConditionButton(p) == p.condition \in {"PENDING", "REJECTED"}

DealActions(viewer, row, p) ==
    When(DealAccess(viewer, row).readable,
         When(~Terminal(p.status), On("deal", {"post_condition", "record_decision"}))
         \cup When(ResolveConditionButton(p), On("deal", {"resolve_condition"})))

\* lockbox/[lockboxId]
LockboxPages == [page: {"lockbox"}, status: {"SEALED", "COMMITTED", "FROZEN", "OPENED", "WITHDRAWN"}]

CanWithdraw(viewer, row, p) ==
    row.owner = viewer.organizationId /\ p.status \in {"SEALED", "COMMITTED", "MATCH_ELIGIBLE", "DISPUTED"}
CanRelease(viewer, p) ==
    /\ viewer.role \in {"PLATFORM_OWNER", "MARKETPLACE_OPERATOR"}
    /\ p.status \in {"SEALED", "COMMITTED", "FROZEN"}

LockboxActions(viewer, row, p) ==
    When(LockboxAccess(viewer, row).readable /\ p.status \notin {"WITHDRAWN", "OPENED", "DISPUTED"},
         When(CanWithdraw(viewer, row, p), On("lockbox", {"withdraw"}))
         \cup When(CanRelease(viewer, p), On("lockbox", {"release"})))

\* claims/[claimId]: a claim is DISPUTED exactly while a dispute is open; the
\* standing of the viewer's organization is known to the server alone.
ClaimPages ==
    [page: {"claim"}, status: {"SCORED", "VERIFIED", "PARTIAL", "DISPUTED", "REJECTED"}, standing: BOOLEAN]

MaintainerRoles == {"CONTRIBUTOR_AGENT", "MERCHANT_PSP_USER", "ACQUIRER_PROVIDER_USER", "PLATFORM_OWNER"}

DeciderRoles == {"PLATFORM_OWNER", "MARKETPLACE_OPERATOR", "PARTNERSHIP_LEAD", "COMPLIANCE_REVIEWER"}

CanDispute(viewer, row, p) ==
    /\ row.owner # viewer.organizationId /\ viewer.role \in MaintainerRoles
    /\ p.status \in {"SCORED", "VERIFIED", "PARTIAL"}
CanDecide(viewer, row, p) ==
    row.owner # viewer.organizationId /\ viewer.role \in DeciderRoles /\ p.status \in {"SCORED", "DISPUTED"}

ClaimActions(viewer, row, p) ==
    When(ClaimAccess(viewer, row).readable,
         When(CanDispute(viewer, row, p), On("claim", {"dispute"}))
         \cup When(CanDecide(viewer, row, p), On("claim", {"decide"})))

\* passport/[orgId]: without a passport the request fails as not found before the
\* viewer's right to read is asked, and the page shows the way to create one.
PassportPages == [page: {"passport"}, status: (PassportStatuses \ {"SUSPENDED"}) \cup {"NONE"}]

CanMaintain(viewer, row) == row.owner = viewer.organizationId /\ viewer.role \in MaintainerRoles
CanVerify(viewer, p) ==
    viewer.role \in {"PLATFORM_OWNER", "MARKETPLACE_OPERATOR", "COMPLIANCE_REVIEWER"} /\ p.status = "READY"

PassportActions(viewer, row, p) ==
    IF p.status = "NONE" THEN When(CanMaintain(viewer, row), On("passport", {"create"}))
    ELSE When(PassportAccess(viewer, row).readable,
              When(CanMaintain(viewer, row), On("passport", {"update"}))
              \cup When(CanVerify(viewer, p), On("passport", {"verify"})))

\* economics/[dealId]: the deal is fetched first, then the schedules, whose
\* refusal hides both forms.
EconomicsPages == [page: {"economics"}, status: DealRoomStatuses, active: BOOLEAN]

CreateScheduleOffered(viewer, p) == viewer.role = "PLATFORM_OWNER" /\ ~p.active
RecordRevenueOffered(viewer, p) == viewer.role \in {"PLATFORM_OWNER", "FINANCE_OPERATOR"} /\ p.active

EconomicsActions(viewer, row, p) ==
    When(/\ DealAccess(viewer, row).readable
         /\ Allowed(viewer, <<"schedule", "list">>, row.owner, FALSE),
         When(CreateScheduleOffered(viewer, p), On("schedule", {"manage"}))
         \cup When(RecordRevenueOffered(viewer, p), On("economics", {"record"})))

\* matches/[opportunityId]: the opportunity and its matches are fetched together.
MatchPages == [page: {"match"}, status: {"MATCH_READY", "INVITED", "QUOTED", "SELECTED"}]

EvaluateMatchesButton(viewer, row) ==
    When(/\ OpportunityAccess(viewer, row).readable
         /\ Allowed(viewer, <<"match", "list">>, row.owner, TRUE)
         /\ viewer.role \in {"PLATFORM_OWNER", "MARKETPLACE_OPERATOR"},
         On("matching", {"evaluate"}))

Pages == RfqPages \cup DealPages \cup LockboxPages \cup ClaimPages \cup PassportPages
         \cup EconomicsPages \cup MatchPages

Offered(viewer, row, p) ==
    CASE p.page = "rfq"       -> RfqDetailActions(viewer, row, p)
      [] p.page = "deal"      -> DealActions(viewer, row, p)
      [] p.page = "lockbox"   -> LockboxActions(viewer, row, p)
      [] p.page = "claim"     -> ClaimActions(viewer, row, p)
      [] p.page = "passport"  -> PassportActions(viewer, row, p)
      [] p.page = "economics" -> EconomicsActions(viewer, row, p)
      [] p.page = "match"     -> EvaluateMatchesButton(viewer, row)

-----------------------------------------------------------------------------
(* What the services would accept: can(), then the checks of the handler.   *)

RfqAccepts(viewer, row, p, action) ==
    LET invited == row.party = viewer.organizationId
    IN  /\ Allowed(viewer, action, row.owner, invited /\ action[2] # "select_quote")
        /\ CASE action[2] = "decline" -> invited /\ <<p.recipient, "DECLINED">> \in RecipientTransitions
             [] action[2] = "submit_quote" ->
                  /\ invited /\ <<p.recipient, "QUOTED">> \in RecipientTransitions
                  /\ p.status \notin {"SELECTED", "DECLINED", "EXPIRED"}
             [] action[2] = "withdraw_quote" -> invited /\ "SUBMITTED" \in p.quotes
             [] action[2] = "select_quote" ->
                  /\ "SUBMITTED" \in p.quotes /\ <<p.status, "SELECTED">> \in RfqTransitions
                  /\ <<p.opportunity, "SELECTED">> \in OpportunityTransitions

\* An exception is recorded whatever the status, so some decision is always accepted.
DealAccepts(viewer, row, p, action) ==
    /\ Allowed(viewer, action, row.owner, viewer.organizationId \in {row.owner, row.party})
    /\ action[2] = "resolve_condition" => \E to \in {"SATISFIED", "WAIVED", "REJECTED"} :
                                             <<p.condition, to>> \in ConditionTransitions

LockboxAccepts(viewer, row, p, action) ==
    /\ Allowed(viewer, action, row.owner, FALSE)
    /\ IF action[2] = "withdraw" THEN CanWithdrawFrom(p.status) ELSE CanReleaseFrom(p.status)

ClaimAccepts(viewer, row, p, action) ==
    /\ row.owner # viewer.organizationId
    /\ Allowed(viewer, action, row.owner, action[2] = "dispute" /\ p.standing)
    /\ IF action[2] = "dispute" THEN <<p.status, "DISPUTED">> \in ClaimTransitions
                                ELSE p.status \in {"SCORED", "DISPUTED"}

\* create is always for the actor's own organization.
PassportAccepts(viewer, row, p, action) ==
    CASE action[2] = "create" -> /\ p.status = "NONE" /\ row.owner = viewer.organizationId
                                 /\ Allowed(viewer, action, viewer.organizationId, FALSE)
      [] action[2] = "update" -> p.status # "NONE" /\ Allowed(viewer, action, row.owner, FALSE)
      [] action[2] = "verify" -> p.status = "READY" /\ Allowed(viewer, action, row.owner, FALSE)

EconomicsAccepts(viewer, row, p, action) ==
    /\ Allowed(viewer, action, row.owner, FALSE)
    /\ p.status \in {"ACTIVATION", "LIVE", "ARCHIVED"} \/ action[1] = "schedule"
    /\ p.active \/ action[1] = "schedule"

EvaluateAccepts(viewer, row, p, action) ==
    Allowed(viewer, action, row.owner, FALSE) /\ p.status \in {"MATCH_READY", "INVITED"}

Permitted(viewer, row, p) ==
    CASE p.page = "rfq" ->
           {a \in On("rfq", {"decline", "submit_quote", "withdraw_quote", "select_quote"}) :
               RfqAccepts(viewer, row, p, a)}
      [] p.page = "deal" ->
           {a \in On("deal", {"post_condition", "resolve_condition", "record_decision"}) :
               DealAccepts(viewer, row, p, a)}
      [] p.page = "lockbox" -> {a \in On("lockbox", {"withdraw", "release"}) : LockboxAccepts(viewer, row, p, a)}
      [] p.page = "claim" -> {a \in On("claim", {"dispute", "decide"}) : ClaimAccepts(viewer, row, p, a)}
      [] p.page = "passport" ->
           {a \in On("passport", {"create", "update", "verify"}) : PassportAccepts(viewer, row, p, a)}
      [] p.page = "economics" ->
           {a \in On("schedule", {"manage"}) \cup On("economics", {"record"}) : EconomicsAccepts(viewer, row, p, a)}
      [] p.page = "match" -> {a \in On("matching", {"evaluate"}) : EvaluateAccepts(viewer, row, p, a)}
=============================================================================
