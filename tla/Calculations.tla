---------------------------- MODULE Calculations ----------------------------
(***************************************************************************)
(* The pure functions of the platform under all their inputs: the decision   *)
(* of can(), what the list and browse functions show, what the pages of the   *)
(* web application offer and its forms send, the eligibility and the ranking  *)
(* of matches, the score and the ranking of claims, the split of a            *)
(* commission, and secret sharing.  A behaviour is one call and its result.   *)
(***************************************************************************)
EXTENDS WebPages, WebForms, MatchResults, Attribution, CommissionSplit, LedgerPeriod, Shamir

CONSTANTS
    Orgs, Own,          \* organizations, and the one the actor belongs to
    MatchInputs,        \* sets of [opp, cap, ctx]: an opportunity, a capacity, a context
    PassInputs,         \* an opportunity, its candidates, what is asked, and a day
    Histories,          \* passes in the order they committed: rows by capacity, without ids
    IdsPerPass,         \* ids set aside for the rows of one pass
    RankInputs,         \* totals of candidates, by capacity
    ClaimInputs,        \* claims to score
    RankedClaims,       \* totals and times of claims, by claim id
    LedgerInputs,       \* schedules, revenue events, and later entries
    Secrets, Coeffs     \* bytes to share, and the coefficients drawn

ASSUME CalculationsAssumption == Own \in Orgs /\ Nobody \notin Orgs /\ Secrets \subseteq Byte

\* What the rules read of an input is an amount, or missing where it may be.
ASSUME MatchAssumption ==
    /\ Absent \notin Nat \cup {"READY", "VERIFIED"}
    /\ \A inputs \in MatchInputs : \A in \in inputs :
          /\ in.opp.movable30d \in Nat /\ in.cap.monthlyCapacity \in Nat
          /\ in.cap.minTicket \in Nat /\ in.cap.maxTicket \in Nat /\ in.ctx.averageTicket \in Nat \cup {Absent}
          /\ in.cap.acceptingNewVolume \in BOOLEAN /\ in.ctx.hold \in BOOLEAN
          /\ in.cap.freshness \in {"FRESH", "AGING", "STALE", "UNKNOWN"}
          /\ \A r \in Risks : in.ctx.risk[r] \in Nat \cup {Absent} /\ in.cap.ceiling[r] \in Nat
          /\ DOMAIN in.cap = CapacityFields /\ DOMAIN in.cap.ceiling = Risks
          /\ in.cap.settlementCadenceDays \in Nat /\ in.cap.mdrBps \in Nat \cup {Absent}
          /\ IsFiniteSet(in.opp.mccs) /\ IsFiniteSet(in.opp.jurisdictions)
          /\ IsFiniteSet(in.cap.mccsAccepted) /\ IsFiniteSet(in.cap.jurisdictions)

\* What is ranked is finite, its names and what is compared are numbers.
ASSUME RankAssumption ==
    /\ Absent \notin Nat
    /\ \A total \in RankInputs :
          IsFiniteSet(DOMAIN total) /\ DOMAIN total \subseteq Nat /\ \A c \in DOMAIN total : total[c] \in Nat
    /\ \A in \in PassInputs : IsFiniteSet(DOMAIN in.candidates)
    /\ \A claims \in RankedClaims :
          /\ IsFiniteSet(DOMAIN claims) /\ DOMAIN claims \subseteq Nat
          /\ \A c \in DOMAIN claims : claims[c] \in [total: Nat, submittedAt: Nat]

\* The capacities of a pass have an id each, and whoever is eligible has a rank.
ASSUME HistoryAssumption ==
    /\ IdsPerPass \in Nat
    /\ \A passes \in Histories :
          /\ Len(passes) \in Nat /\ DOMAIN passes = 1..Len(passes)
          /\ \A i \in DOMAIN passes : \A c \in DOMAIN passes[i] :
                /\ c \in 0..(IdsPerPass - 1) /\ passes[i][c].evaluatedAt \in Nat
                /\ passes[i][c].eligible \in BOOLEAN
                /\ passes[i][c].eligible => passes[i][c].rank \in Nat

\* A claim has some history, a directness, a delay and finitely much evidence.
ASSUME ClaimAssumption ==
    ClaimInputs \subseteq [historyMonths: Nat, directnessTier: DirectnessTiers, submissionLagDays: Nat,
                          evidenceItems: Seq(EvidenceItems)]

\* A schedule's components are such as the split accepts, an event's amounts are
\* within its bound, and what is entered later is no accrual.
ASSUME LedgerAssumption ==
    /\ Null \notin Int
    /\ \A in \in LedgerInputs :
          /\ DOMAIN in.schedules \subseteq Nat /\ IsFiniteSet(DOMAIN in.events) /\ IsFiniteSet(DOMAIN in.later)
          /\ \A k \in DOMAIN in.schedules :
                LET s == in.schedules[k]
                IN  /\ DOMAIN s.components \subseteq ComponentIds /\ s.components \in [DOMAIN s.components -> Component]
                    /\ s.cap \in Nat \cup {Null} /\ s.floor \in Nat \cup {Null}
          /\ \A i \in DOMAIN in.events :
                in.events[i].gross \in Nat /\ in.events[i].deductions \in Nat /\ Net(in.events[i]) <= MaxNet
          /\ \A j \in DOMAIN in.later :
                /\ in.later[j].entryType \in {"ADJUSTMENT", "PAYMENT", "REVERSAL"}
                /\ in.later[j].direction \in {"CREDIT", "DEBIT"} /\ in.later[j].amount \in Nat

VARIABLES call, result
callVars == <<call, result>>

CanCalls ==
    [kind: {"can"}, role: PersonaRoles \cup {Nobody}, action: Actions, owner: Orgs \cup {Nobody},
     isSelf: BOOLEAN, isParticipant: BOOLEAN]
ListCalls == [kind: {"list"}, role: PersonaRoles, entity: Listed, owner: Orgs, party: Orgs]
BrowseCalls == [kind: {"browse"}, role: PersonaRoles, organization: Orgs]
PageCalls == [kind: {"page"}, role: PersonaRoles, page: Pages, owner: Orgs, party: Orgs]
FormCalls(form) == [kind: {"form"}, form: {form}, in: [InputsOf[form] -> Texts], token: BOOLEAN]
MatchCalls(inputs) == [kind: {"match"}, in: inputs]
PassCalls == [kind: {"pass"}, in: PassInputs]
HistoryCalls == [kind: {"matches"}, passes: Histories]
RankCalls == [kind: {"rank"}, total: RankInputs]
ScoreCalls == [kind: {"score"}, claim: ClaimInputs]
RankClaimsCalls == [kind: {"rankClaims"}, claims: RankedClaims]
SplitCalls == [kind: {"split"}, in: SplitInputs]
LedgerCalls == [kind: {"ledger"}, in: LedgerInputs]
ShareCalls == [kind: {"share"}, secret: Secrets, coeffs: Coeffs]

CallInit ==
    /\ \/ call \in CanCalls
       \/ call \in ListCalls
       \/ call \in BrowseCalls
       \/ call \in PageCalls
       \/ \E form \in DOMAIN InputsOf : call \in FormCalls(form)
       \/ \E inputs \in MatchInputs : call \in MatchCalls(inputs)
       \/ call \in PassCalls
       \/ call \in HistoryCalls
       \/ call \in RankCalls
       \/ call \in ScoreCalls
       \/ call \in RankClaimsCalls
       \/ call \in SplitCalls
       \/ call \in LedgerCalls
       \/ call \in ShareCalls
    /\ result = Absent

Returns(kind) == call.kind = kind /\ result = Absent /\ UNCHANGED call

\* The actor of a call always acts for Own.
Caller(role) == Actor(role, IF role = Nobody THEN Nobody ELSE Own)

CanOn(role, action, c) ==
    can(Caller(role), action, Resource(ActionResourceType(action), c.owner),
        Context(c.isSelf, c.isParticipant))

Can == Returns("can") /\ result' = [allowed |-> CanOn(call.role, call.action, call)]

List ==
    /\ Returns("list")
    /\ result' = AccessTo(Caller(call.role), call.entity, Row(call.owner, call.party))

Browse ==
    /\ Returns("browse")
    /\ result' = [capacity |-> BrowseCapacity(Caller(call.role)),
                  opportunity |-> BrowseOpportunities(Caller(call.role)),
                  organization |-> OrganizationView(Caller(call.role), call.organization)]

OpenPage ==
    LET viewer == Caller(call.role)
        row == Row(call.owner, call.party)
    IN  /\ Returns("page")
        /\ result' = [offered |-> Offered(viewer, row, call.page), permitted |-> Permitted(viewer, row, call.page)]

SubmitForm == Returns("form") /\ result' = [sent |-> Sent(call.form, call.in, call.token)]

Match ==
    /\ Returns("match")
    /\ result' = [eligibility |-> EvaluateEligibility(call.in.opp, call.in.cap, call.in.ctx),
                  total |-> ScoreMatch(call.in.opp, call.in.cap, call.in.ctx)]

RankCandidates == Returns("rank") /\ result' = [ranked |-> RankMatches(call.total)]

Evaluate ==
    /\ Returns("pass")
    /\ result' = [rows |-> EvaluatePass(call.in.opp, call.in.candidates, call.in.asked, call.in.now)]

\* The rows of the first n passes, with ids in the order of their creation.
RowsOf(passes, n) ==
    UNION {{[id |-> IdsPerPass * i + c, capacity |-> c, eligible |-> passes[i][c].eligible,
             rank |-> passes[i][c].rank, evaluatedAt |-> passes[i][c].evaluatedAt] :
               c \in DOMAIN passes[i]} : i \in 1..n}

ListMatches ==
    /\ Returns("matches")
    /\ result' = [shown |-> [n \in 1..Len(call.passes) |-> ListLatest(RowsOf(call.passes, n))]]

ScoreOneClaim == Returns("score") /\ result' = [total |-> ScoreClaim(call.claim)]

RankTheClaims == Returns("rankClaims") /\ result' = [ranked |-> RankClaims(call.claims)]

Split == Returns("split") /\ result' = [split |-> ComputeCommissionSplits(call.in)]

\* The ledger after the events, and what the API reports of it.
ReadLedger ==
    LET in == call.in
        rows == Ledger(in.schedules, in.events, in.later)
    IN  /\ Returns("ledger")
        /\ result' =
             [rows |-> rows,
              periods |-> [i \in {r.event : r \in rows} |->
                             ReconcileRevenueEvent(in.events[i], {r \in rows : r.event = i})],
              limits |-> [k \in DOMAIN in.schedules |->
                             ToCapFloorStatus(in.schedules[k], Distributed({r \in rows : r.schedule = k}))]]

ShareSecret == Returns("share") /\ result' = [shares |-> SplitSecret(call.secret, call.coeffs, 3)]

CallNext ==
    \/ Can \/ List \/ Browse \/ OpenPage \/ SubmitForm
    \/ Match \/ RankCandidates \/ Evaluate \/ ListMatches
    \/ ScoreOneClaim \/ RankTheClaims
    \/ Split \/ ReadLedger \/ ShareSecret
CallSpec == CallInit /\ [][CallNext]_callVars

Returned(kind) == call.kind = kind /\ result # Absent

-----------------------------------------------------------------------------
(* Properties: authorization                                               *)

TenantRoles == {"CONTRIBUTOR_AGENT", "MERCHANT_PSP_USER", "ACQUIRER_PROVIDER_USER"}

\* What two organizations do on one record: answer a request for quotes, work in
\* a deal room, dispute a claim, read a match or a ledger entry.
SharedActions ==
    On("rfq", {"read", "list", "decline", "submit_quote", "withdraw_quote"})
    \cup {a \in Actions : a[1] = "deal"} \cup {<<"claim", "dispute">>}
    \cup On("match", {"read", "list"}) \cup On("ledger", {"read", "list"})

\* can(): a user of a trading organization reaches a record that is not its
\* organization's own only by browsing the market, or by a shared action on a
\* record its organization takes part in; a commission entry it reaches in the
\* second way alone, whoever owns the deal; and nobody acts without a role.
TenantIsolation ==
    Returned("can") /\ result.allowed =>
        /\ call.role # Nobody
        /\ (call.role \in TenantRoles /\ (call.owner # Own \/ call.action[1] = "ledger")) =>
              \/ call.action \in BrowseMarket
              \/ call.isParticipant /\ call.action \in SharedActions

\* The two halves of a decision that needs two parties.
ConflictingDuties ==
    ({<<"claim", "create">>, <<"claim", "dispute">>} \X {<<"claim", "decide">>})
    \cup ({<<"passport", "create">>, <<"passport", "update">>} \X {<<"passport", "verify">>})
    \cup ({<<"rfq", "submit_quote">>} \X {<<"rfq", "create">>, <<"rfq", "select_quote">>})
    \cup ({<<"lockbox", "seal">>, <<"lockbox", "withdraw">>} \X {<<"lockbox", "release">>})
    \cup ({<<"economics", "record">>, <<"ledger", "record_payment">>} \X {<<"schedule", "manage">>})

\* matrix.ts: on one record, under one standing, no role but the platform owner
\* may both make a claim and decide it, fill a passport and verify it, quote and
\* select the quote, seal and release, or pay out and set the schedule; and the
\* auditor changes nothing.
SeparationOfDuties ==
    Returned("can") /\ result.allowed /\ call.role # "PLATFORM_OWNER" =>
        /\ \A pair \in ConflictingDuties :
             pair[1] = call.action => ~CanOn(call.role, pair[2], call)
        /\ call.role = "AUDITOR_READONLY" =>
             call.action[2] \in {"read", "list", "read_receipt", "browse_market"}

\* organizationsService.list: "every returned row still individually satisfies
\* can(...) for whoever's asking", and so for every list: a row shown can be opened.
\* The one exception is a deal listed to a merchant user of the organization that is the deal's provider: listByOrg takes either side, but the
\* merchant's role has no standing as a participant.
ListedIsReadable ==
    Returned("list") /\ result.shown /\ ~result.readable =>
        /\ call.entity = "deal" /\ call.role = "MERCHANT_PSP_USER"
        /\ call.owner # Own /\ call.party = Own

\* CROSS_ORG_..._READ_ROLES: "every role with a cross-org grant (matrix.ts)".  Of a
\* row the actor's organization has no part in, the hand-kept role sets show
\* exactly what the matrix lets the role read.
RoleListsMatchMatrix ==
    Returned("list") /\ call.owner # Own /\ call.party # Own => result.shown = result.readable

\* marketplace and organization mappers: every role browses the same complete
\* cards, the owner's included, and a registration number is shown only to its
\* own organization and to those who oversee the platform.
CardsAreTheSameForAll ==
    Returned("browse") =>
        /\ result.capacity = CapacityCardFields
        /\ result.opportunity = OpportunityCardFields
        /\ "registrationId" \in result.organization =>
              call.organization = Own \/ call.role \in CrossOrgRoles

\* What the pages offer by a copy of the matrix and of a transition table.
Mirrored ==
    On("lockbox", {"release"}) \cup On("claim", {"decide"}) \cup On("passport", {"create", "update", "verify"})

\* What the services accept and no page offers: a dispute, since whoever has the
\* standing to dispute a claim may not open its page; revenue recorded by finance,
\* who may not read the deal the page begins with; the platform owner's selection
\* for another organization, or a new schedule beside an active one; and anything
\* in a deal room that is closed.
OutsideThePages(page) ==
    On("claim", {"dispute"}) \cup On("economics", {"record"}) \cup On("rfq", {"select_quote"})
    \cup On("schedule", {"manage"}) \cup When(page.page = "deal" /\ Terminal(page.status), Actions)

\* RfqDetailActions.tsx: "every branch here is a convenience reflection of what
\* @tol/authz's matrix already decided".  A button kept by a copy of the matrix is
\* there exactly when the service would accept it; of the rest, nothing a trader's
\* or an operator's service accepts is missing but OutsideThePages; and a trader
\* who is one side of a record is refused a button only for what the page does not
\* know: a quote given or an RFQ closed before, a rejected condition, or a quote
\* already selected through another RFQ.
PagesMirrorMatrix ==
    Returned("page") =>
        /\ \A a \in Mirrored : a \in result.offered <=> a \in result.permitted
        /\ \A a \in result.permitted \ result.offered : a \in OutsideThePages(call.page)
        /\ call.role \in TenantRoles /\ call.owner # call.party =>
              \A a \in result.offered \ result.permitted :
                 \/ a = <<"rfq", "submit_quote">> /\ (call.page.recipient = "QUOTED" \/ call.page.status \in {"SELECTED", "DECLINED", "EXPIRED"})
                 \/ a = <<"deal", "resolve_condition">> /\ call.page.condition = "REJECTED"
                 \/ a = <<"rfq", "select_quote">> /\ call.page.opportunity # "QUOTED"

\* SealSubmissionForm.tsx: "matching LockboxPayloadSchema's own .min(1) on each".  A
\* field a form sends is refused by the schema only where it is an identifier typed by
\* hand, a number beyond its bound in the quote form or the matching form, neither of
\* which knows the bound, or the blank source of a revenue event.
FormsFitContracts ==
    Returned("form") => \A body \in result.sent : \A field \in Refused(body) :
        \/ field \in Ids
        \/ field \in BoundedNumbers /\ Number(body[field]) /\ call.form \in {"submit_quote", "evaluate"}
        \/ field = "source" /\ call.form = "revenue"

\* The list and browse functions against the matrix: what is shown can be opened,
\* what can be opened is shown, no card loses or leaks a field, and the pages and
\* forms of the web application follow.
VisibilityFollowsMatrix ==
    /\ ListedIsReadable /\ RoleListsMatchMatrix /\ CardsAreTheSameForAll
    /\ PagesMirrorMatrix /\ FormsFitContracts

-----------------------------------------------------------------------------
(* Properties: matching                                                    *)

\* evaluateEligibility against the rule table: every MCC is accepted and none
\* excluded, a jurisdiction is shared, the currency, the rail and the ticket fit,
\* the provider takes volume and has enough, its passport is ready, its profile
\* neither stale nor of unknown age, no risk ceiling is passed, and nothing is on
\* hold.  An unknown passes only where the table says so.
EligibilityMatchesTable ==
    Returned("match") =>
        LET opp == call.in.opp
            cap == call.in.cap
            ctx == call.in.ctx
        IN  result.eligibility.eligible <=>
                /\ opp.mccs # {} /\ opp.mccs \subseteq cap.mccsAccepted \ cap.mccsExcluded
                /\ opp.jurisdictions \cap cap.jurisdictions # {}
                /\ opp.currency = cap.currency
                /\ ctx.requiredRail \in {Absent, cap.settlementRail}
                /\ ctx.averageTicket = Absent \/ ctx.averageTicket \in
                      cap.minTicket..(IF cap.maxTicket = 0 THEN ctx.averageTicket ELSE cap.maxTicket)
                /\ cap.acceptingNewVolume /\ cap.monthlyCapacity >= opp.movable30d
                /\ ctx.passportStatus \in {"READY", "VERIFIED"}
                /\ cap.freshness \in {"FRESH", "AGING"}
                /\ \A r \in KnownRisks(ctx) : ctx.risk[r] <= cap.ceiling[r]
                /\ ~ctx.hold

\* One change for the better on the provider's side.
Improved(cap) ==
    {[cap EXCEPT !.monthlyCapacity = @ + 1],
     [cap EXCEPT !.settlementCadenceDays = IF @ = 0 THEN 0 ELSE @ - 1],
     [cap EXCEPT !.mdrBps = IF @ \in {Absent, 0} THEN @ ELSE @ - 1],
     [cap EXCEPT !.ceiling["fraud"] = IF @ = 0 THEN 0 ELSE @ + 1],
     [cap EXCEPT !.freshness = IF @ = "UNKNOWN" THEN "STALE" ELSE IF @ = "STALE" THEN "AGING" ELSE "FRESH"]}

\* evaluateEligibility and scoreMatch: a provider that only improves its terms
\* stays eligible and never scores less, for all the rounding of the factors;
\* and a total lies between the two fixed factors and what the best terms earn.
BetterTermsNeverHurt ==
    Returned("match") =>
        /\ \A better \in Improved(call.in.cap) :
             /\ result.eligibility.eligible => EvaluateEligibility(call.in.opp, better, call.in.ctx).eligible
             /\ ScoreMatch(call.in.opp, better, call.in.ctx) >= result.total
        /\ result.total \in 64..964

\* rankMatches: the places are 1..n, each taken once, in the order of the totals,
\* and a candidate left out changes the order of no other two.
RanksAreAPermutation ==
    Returned("rank") =>
        LET ranked == result.ranked
            ids == DOMAIN ranked
        IN  /\ {ranked[a].rank : a \in ids} = 1..Cardinality(ids)
            /\ \A a, b \in ids : ranked[a].rank < ranked[b].rank => ranked[a].total >= ranked[b].total
            /\ \A a, b, out \in ids : out \notin {a, b} =>
                 LET without == RankMatches([c \in ids \ {out} |-> call.total[c]])
                 IN  ranked[a].rank < ranked[b].rank <=> without[a].rank < without[b].rank

\* evaluate, "eligibility runs first": a candidate that is not eligible takes no
\* place and changes nobody else's, and the repository accepts every row.
IneligibleChangesNoRank ==
    Returned("pass") =>
        LET eligible == {c \in DOMAIN call.in.candidates :
                           EligibleAt(call.in.opp, call.in.candidates[c], call.in.asked, call.in.now)}
            alone == EvaluatePass(call.in.opp, Restrict(call.in.candidates, eligible), call.in.asked, call.in.now)
        IN  /\ \A c \in DOMAIN result.rows : Accepted(result.rows[c])
            /\ Restrict(result.rows, eligible) = alone

\* rankMatches and evaluate: ranks are a total order of the eligible, and of
\* nobody else.
RankingIsFair == RanksAreAPermutation /\ IneligibleChangesNoRank

\* listLatestByOpportunity: passes may commit in any order, over any candidates.
\* Each capacity ever evaluated is shown once, what is shown of it is never
\* replaced by an older evaluation, and nobody eligible is shown behind another
\* of the same pass with a worse rank.
ListNeverGoesBack ==
    Returned("matches") =>
        \A n \in DOMAIN result.shown :
            LET shown == result.shown[n]
                rows == RowsOf(call.passes, n)
            IN  /\ {shown[i].capacity : i \in DOMAIN shown} = {r.capacity : r \in rows}
                /\ \A i, j \in DOMAIN shown : i < j =>
                      /\ shown[i].capacity # shown[j].capacity
                      /\ shown[j].eligible => shown[i].eligible
                      /\ shown[j].eligible /\ shown[i].evaluatedAt = shown[j].evaluatedAt
                            => shown[i].rank <= shown[j].rank
                /\ n > 1 =>
                     \A i \in DOMAIN result.shown[n - 1] : \E j \in DOMAIN shown :
                        /\ shown[j].capacity = result.shown[n - 1][i].capacity
                        /\ shown[j].evaluatedAt >= result.shown[n - 1][i].evaluatedAt

-----------------------------------------------------------------------------
(* Properties: commission split                                            *)

SplitMade == Returned("split") /\ result.split.outcome = "ok"

\* The doc comment's "zero leakage": an accepted split hands out exactly the
\* net amount, and none of the checks marked structurally unreachable fires.
NoLeakage ==
    Returned("split") =>
        /\ result.split.outcome # "internalError"
        /\ SplitMade => SumOf(result.split.entries) = call.in.net

\* Sum of the distances |amount * BpsBase - exact share * BpsBase| of a split.
AbsoluteValue(n) == IF n < 0 THEN -n ELSE n
Deviation(in, amounts) ==
    MapThenSumSet(LAMBDA c : AbsoluteValue(amounts[c] * BpsBase - Numerator(in, c)), Bps(in))

\* The reference definition of the apportionment: no way of dividing the same
\* whole number of minor units comes closer to the exact percentages.
ClosestSplit ==
    SplitMade =>
        \A other \in [Bps(call.in) -> 0..RemainingAfterFixed(call.in)] :
            SumOf(other) = RemainingAfterFixed(call.in)
            => Deviation(call.in, result.split.entries) <= Deviation(call.in, other)

\* A recipient with the larger percentage is never paid less, and each amount
\* is its exact share rounded down or up.
SharesAreOrdered ==
    SplitMade =>
        /\ \A c, d \in Bps(call.in) :
             Value(call.in, c) > Value(call.in, d) => result.split.entries[c] >= result.split.entries[d]
        /\ \A c \in Bps(call.in) :
             AbsoluteValue(result.split.entries[c] * BpsBase - Numerator(call.in, c)) < BpsBase

\* computeCommissionSplits: every unit is handed out, nobody could be closer to
\* the agreed percentages, and a larger percentage is never paid less.
SplitIsFair == NoLeakage /\ ClosestSplit /\ SharesAreOrdered

\* recordRevenueEvent, reconcileRevenueEvent and evaluateScheduleCapFloor: a period
\* that was accepted reconciles, and stays reconciled whatever is adjusted, paid
\* or reversed later; only components of the event's own basis are paid; and a
\* cap is reported passed exactly when the revenue accepted under it passed it.
PeriodsReconcile ==
    Returned("ledger") =>
        /\ \A i \in DOMAIN result.periods : result.periods[i].reconciled
        /\ \A r \in result.rows : LET s == call.in.schedules[r.schedule]
                                 IN  s.basisOf[r.component] \in {Null, call.in.events[r.event].basis}
        /\ \A k \in DOMAIN result.limits : result.limits[k] # Null =>
             LET under == {i \in DOMAIN result.periods : \E r \in result.rows : r.event = i /\ r.schedule = k}
                 revenue == MapThenSumSet(LAMBDA i : Net(call.in.events[i]), under)
                 s == call.in.schedules[k]
             IN  /\ result.limits[k].capExceededBy # Null <=> s.cap # Null /\ revenue > s.cap
                 /\ result.limits[k].floorShortfall # Null <=> s.floor # Null /\ revenue < s.floor

\* computeAccrualBalance and reconcileRevenueEvent derive what is owed in two ways.
\* They agree, period by period, if what was reversed is what was left to pay;
\* and an accrual is reported PAID or REVERSED exactly when no payment against it
\* would be accepted.
BalancesAddUp ==
    Returned("ledger") =>
        LET unreversed(chain) == OutstandingOf(chain \ OfType(chain, "REVERSAL"))
        IN  /\ \A chain \in Chains(result.rows) :
                 ComputeAccrualBalance(chain).status \in {"PAID", "REVERSED"} <=> OutstandingOf(chain) <= 0
            /\ \A i \in DOMAIN result.periods :
                 LET chains == Chains({r \in result.rows : r.event = i})
                 IN  (\A chain \in chains : OfType(chain, "REVERSAL") # {} =>
                         Total(OfType(chain, "REVERSAL")) = unreversed(chain))
                     => result.periods[i].outstanding = MapThenSumSet(OutstandingOf, chains)

\* The ledger arithmetic: what is owed per accrual, per period and per schedule
\* are three views of one ledger, and they agree.
BooksBalance == PeriodsReconcile /\ BalancesAddUp

-----------------------------------------------------------------------------
(* Properties: attribution and secret sharing                               *)

\* scoreClaim: a total is within 0..100 points, public knowledge earns nothing,
\* and longer history, one more piece of evidence and an earlier submission never
\* lower it, although evidence stops counting at its ceiling.
ClaimScoreIsFair ==
    Returned("score") =>
        LET claim == call.claim
        IN  /\ result.total \in 0..1000
            /\ claim.directnessTier = "D0" => result.total = 0
            /\ ScoreClaim([claim EXCEPT !.historyMonths = @ + 1]) >= result.total
            /\ ScoreClaim([claim EXCEPT !.evidenceItems =
                   Append(@, [evidenceType |-> "OTHER", verificationState |-> "SELF_REPORTED"])]) >= result.total
            /\ ScoreClaim([claim EXCEPT !.submissionLagDays = IF @ = 0 THEN 0 ELSE @ - 1]) >= result.total

\* rankClaims: the places are 1..n, each taken once; a claim is ranked behind
\* another only if it scores less, or scores the same and was not submitted
\* earlier; and exact ties name each other.
EarlierClaimIsFirst ==
    Returned("rankClaims") =>
        LET claims == call.claims
            ranked == result.ranked
        IN  /\ {ranked[c].rank : c \in DOMAIN ranked} = 1..Cardinality(DOMAIN ranked)
            /\ \A c, d \in DOMAIN ranked : ranked[c].rank < ranked[d].rank =>
                 \/ claims[c].total > claims[d].total
                 \/ claims[c].total = claims[d].total /\ claims[c].submittedAt <= claims[d].submittedAt
            /\ \A c, d \in DOMAIN ranked : c \in ranked[d].tiedWith <=> d \in ranked[c].tiedWith

\* scoreClaim and rankClaims: a stronger claim never scores less, and of equal
\* scores the earlier is ranked first.
ClaimRankingIsFair == ClaimScoreIsFair /\ EarlierClaimIsFirst

\* splitSecret and combineShares: whichever two of the three shares are at hand,
\* and all three, give the secret back.
AnyTwoSharesReconstruct ==
    Returned("share") =>
        \A quorum \in {q \in SUBSET DOMAIN result.shares : Cardinality(q) >= 2} :
            CombineShares([x \in quorum |-> result.shares[x]]) = call.secret

\* splitSecret: one share says nothing of the secret.  Any other secret has a
\* coefficient with which the same holder would have got the same share.
OneShareHidesTheSecret ==
    Returned("share") =>
        \A x \in DOMAIN result.shares, other \in Secrets :
            LET coeff == gfDiv(gfAdd(result.shares[x], other), x)
            IN  SplitSecret(other, <<coeff>>, 3)[x] = result.shares[x]

\* The two-of-three threshold: two shares are enough and one is not.
TwoSharesNoFewer == AnyTwoSharesReconstruct /\ OneShareHidesTheSecret
=============================================================================
