---------------------------- MODULE RfqLifecycle ----------------------------
(***************************************************************************)
(* The RFQ -> quote -> deal-room pipeline of the marketplace:              *)
(* apps/api/src/modules/rfqs/service.ts run by concurrent API requests,     *)
(* and apps/worker/src/jobs/rfq-expiry.job.ts run by the worker.            *)
(*                                                                         *)
(* Every API mutation has the same two phases.  It first reads rows and     *)
(* checks them OUTSIDE any transaction, one statement at a time; then one   *)
(* transaction takes pg_advisory_xact_lock(rfqId), re-reads SOME of those   *)
(* rows and writes.  Each read is an action here, and each transaction is   *)
(* one atomic action: transactions on one RFQ are serialised by the lock,   *)
(* and the only row shared by two RFQs, the opportunity, is never read      *)
(* inside a transaction.  What a request remembers between its reads and    *)
(* its transaction is in target[q] and snapshot[q], and the snapshot may be *)
(* stale when it is used.                                                   *)
(***************************************************************************)
EXTENDS Naturals, FiniteSets, DomainStates

CONSTANTS
    Opportunities, Rfqs, Providers, Quotes,   \* identifiers of rows
    Requests,       \* API requests in flight at the same time
    None,           \* "no such row" in a reference
    MaxTime,        \* bound on the clock
    DueDates,       \* the dueAt values a merchant may ask for
    SweepLimit,     \* rows one sweep reads (500 in the code)
    MaxCrashes      \* bound on worker crashes in the middle of a sweep

ASSUME ConstantsAssumption ==
    /\ None \notin Opportunities \cup Rfqs \cup Providers \cup Quotes
    /\ DueDates \subseteq Nat
    /\ MaxTime \in Nat /\ MaxCrashes \in Nat /\ SweepLimit \in Nat \ {0}

VARIABLES
    now,            \* the clock every process reads
    opportunity,    \* Opportunity.status of each opportunity
    rfq,            \* RFQ rows
    recipient,      \* RFQRecipient.state, per RFQ and provider
    quote,          \* Quote rows
    dealRooms,      \* DealRoom rows
    pc,             \* how far each API request has come
    target,         \* the rows each request is about
    snapshot,       \* the statuses each request read before its transaction
    expiryJobs,     \* RFQs with a delayed rfq-expiry job in the queue
    sweep,          \* RFQs a running sweep has listed and not yet visited
    expiryKey,      \* worker idempotency record of each RFQ's expiry
    crashes         \* worker crashes so far

dbVars == <<opportunity, rfq, recipient, quote, dealRooms>>
requestVars == <<pc, target, snapshot>>
workerVars == <<expiryJobs, sweep, expiryKey, crashes>>
vars == <<now, dbVars, requestVars, workerVars>>

-----------------------------------------------------------------------------
(* Rows and requests                                                       *)

RfqRow == [opp: Opportunities \cup {None},
           status: RfqStatuses \cup {"ABSENT"},
           dueAt: Nat]
AbsentRfq == [opp |-> None, status |-> "ABSENT", dueAt |-> 0]

\* validUntil is left out: no code reads it.
QuoteRow == [rfq: Rfqs \cup {None}, provider: Providers \cup {None},
             version: Nat, status: QuoteStatuses \cup {"ABSENT"}]
AbsentQuote == [rfq |-> None, provider |-> None, version |-> 0,
                status |-> "ABSENT"]

DealRoomRow == [rfq: Rfqs, quote: Quotes, opp: Opportunities, provider: Providers]

\* A request is named by its operation and by what it has read so far; Ready
\* means that every check outside the transaction has passed.
RequestPoints ==
    {"idle", "createReady", "createCommitted", "declineReady",
     "submitOpportunityRead", "submitReady", "withdrawReady",
     "selectRfqRead", "selectOpportunityRead", "selectReady"}
Target == [rfq: Rfqs \cup {None}, opp: Opportunities \cup {None},
           provider: Providers \cup {None}, quote: Quotes \cup {None}]
NoTarget == [rfq |-> None, opp |-> None, provider |-> None, quote |-> None]
Snapshot == [opp: OpportunityStatuses \cup {"ABSENT"},
             recipient: RecipientStates \cup {"ABSENT"}]
NoSnapshot == [opp |-> "ABSENT", recipient |-> "ABSENT"]

Exists(row) == row.status # "ABSENT"
QuotesOf(r) == {t \in Quotes : Exists(quote[t]) /\ quote[t].rfq = r}
QuotesBy(r, p) == {t \in QuotesOf(r) : quote[t].provider = p}

\* EXPIRABLE_STATUSES of rfq-expiry.job.ts
ExpirableStatuses == {"SENT", "ACKNOWLEDGED", "QUESTIONS", "QUOTED"}

\* Mutant: the sweep's query forgets the QUOTED status.
Overdue_NotQuoted == {r \in Rfqs : rfq[r].status = "SENT" /\ rfq[r].dueAt < now}

\* The rows rfqRepository.listOverdue selects.
Overdue == {r \in Rfqs : rfq[r].status \in ExpirableStatuses /\ rfq[r].dueAt < now}

\* The seed creates opportunities at MATCH_READY; everything else starts empty.
Init ==
    /\ now = 0
    /\ opportunity = [o \in Opportunities |-> "MATCH_READY"]
    /\ rfq = [r \in Rfqs |-> AbsentRfq]
    /\ recipient = [r \in Rfqs |-> [p \in Providers |-> "ABSENT"]]
    /\ quote = [t \in Quotes |-> AbsentQuote]
    /\ dealRooms = {}
    /\ pc = [q \in Requests |-> "idle"]
    /\ target = [q \in Requests |-> NoTarget]
    /\ snapshot = [q \in Requests |-> NoSnapshot]
    /\ expiryJobs = {}
    /\ sweep = {}
    /\ expiryKey = [r \in Rfqs |-> "ABSENT"]
    /\ crashes = 0

-----------------------------------------------------------------------------
(* Bookkeeping of a request                                                *)

Begin(q, point, about, seen) ==
    /\ pc[q] = "idle"
    /\ pc' = [pc EXCEPT ![q] = point]
    /\ target' = [target EXCEPT ![q] = about]
    /\ snapshot' = [snapshot EXCEPT ![q] = seen]

Finish(q) ==
    /\ pc' = [pc EXCEPT ![q] = "idle"]
    /\ target' = [target EXCEPT ![q] = NoTarget]
    /\ snapshot' = [snapshot EXCEPT ![q] = NoSnapshot]

\* Any check that throws (4xx), a unique-constraint rollback, or a crash of
\* the API process ends the request and leaves the database as it is.
Fail(q) ==
    /\ pc[q] # "idle"
    /\ Finish(q)
    /\ UNCHANGED <<now, dbVars, workerVars>>

-----------------------------------------------------------------------------
(* rfqsService.create                                                      *)

CreateRead(q, o) ==
    /\ opportunity[o] \in {"MATCH_READY", "INVITED"}
    /\ Begin(q, "createReady",
             [rfq |-> None, opp |-> o, provider |-> None, quote |-> None],
             [opp |-> opportunity[o], recipient |-> "ABSENT"])
    /\ UNCHANGED <<now, dbVars, workerVars>>

\* The new RFQ's row and one INVITED recipient per invited provider.
CreateRows(q, r, invited, d) ==
    /\ ~Exists(rfq[r])
    /\ invited # {}
    /\ rfq' = [rfq EXCEPT ![r] =
                 [opp |-> target[q].opp, status |-> "SENT", dueAt |-> d]]
    /\ recipient' = [recipient EXCEPT ![r] =
                       [p \in Providers |->
                          IF p \in invited THEN "INVITED" ELSE "ABSENT"]]
    /\ target' = [target EXCEPT ![q].rfq = r]

\* The transaction: no lock (the RFQ has no id yet), and the opportunity's
\* status is decided by the value read before the transaction began.
CreateCommit(q) ==
    /\ pc[q] = "createReady"
    /\ \E r \in Rfqs, invited \in SUBSET Providers, d \in DueDates :
        CreateRows(q, r, invited, d)
    /\ pc' = [pc EXCEPT ![q] = "createCommitted"]
    /\ opportunity' = IF snapshot[q].opp = "MATCH_READY"
                      THEN [opportunity EXCEPT ![target[q].opp] = "INVITED"]
                      ELSE opportunity
    /\ UNCHANGED <<now, quote, dealRooms, snapshot, workerVars>>

\* After the commit: enqueueRfqExpiry.  safeEnqueue swallows a Redis failure,
\* and the process may die first: Fail is the other way out of "createCommitted".
CreateEnqueue(q) ==
    /\ pc[q] = "createCommitted"
    /\ expiryJobs' = expiryJobs \cup {target[q].rfq}
    /\ Finish(q)
    /\ UNCHANGED <<now, dbVars, sweep, expiryKey, crashes>>

-----------------------------------------------------------------------------
(* rfqsService.decline                                                     *)

DeclineRead(q, r, p) ==
    /\ Exists(rfq[r])
    /\ <<recipient[r][p], "DECLINED">> \in RecipientTransitions
    /\ Begin(q, "declineReady",
             [rfq |-> r, opp |-> None, provider |-> p, quote |-> None], NoSnapshot)
    /\ UNCHANGED <<now, dbVars, workerVars>>

\* Locked, but nothing is read again: the write is unconditional.
DeclineCommit(q) ==
    /\ pc[q] = "declineReady"
    /\ recipient' = [recipient EXCEPT ![target[q].rfq][target[q].provider] = "DECLINED"]
    /\ Finish(q)
    /\ UNCHANGED <<now, opportunity, rfq, quote, dealRooms, workerVars>>

-----------------------------------------------------------------------------
(* rfqsService.submitQuote                                                 *)

SubmitReadOpportunity(q, r, p) ==
    /\ Exists(rfq[r])
    /\ Begin(q, "submitOpportunityRead",
             [rfq |-> r, opp |-> rfq[r].opp, provider |-> p, quote |-> None],
             [opp |-> opportunity[rfq[r].opp], recipient |-> "ABSENT"])
    /\ UNCHANGED <<now, dbVars, workerVars>>

\* The entry check of submitQuote on the recipient it has just read.
SubmitAdmits(recState) == <<recState, "QUOTED">> \in RecipientTransitions

SubmitReadRecipient(q) ==
    /\ pc[q] = "submitOpportunityRead"
    /\ SubmitAdmits(recipient[target[q].rfq][target[q].provider])
    /\ pc' = [pc EXCEPT ![q] = "submitReady"]
    /\ snapshot' = [snapshot EXCEPT ![q].recipient = recipient[target[q].rfq][target[q].provider]]
    /\ UNCHANGED <<now, dbVars, target, workerVars>>

\* Mutant: withdrawn quotes do not count.
NextQuoteVersion_LiveOnly(r, p) ==
    LET versions == {quote[t].version : t \in {t \in QuotesBy(r, p) : quote[t].status = "SUBMITTED"}}
    IN  {n + 1 : n \in {m \in versions \cup {0} : \A v \in versions : v <= m}}

\* quoteRepository.nextQuoteVersion: one more than the newest version, or 1.
NextQuoteVersion(r, p) ==
    LET versions == {quote[t].version : t \in QuotesBy(r, p)}
    IN  {n + 1 : n \in {m \in versions \cup {0} : \A v \in versions : v <= m}}

\* The RFQ is read again under the lock; the recipient and the opportunity are
\* written from what was read before it.
SubmitCommit(q) ==
    LET r == target[q].rfq
        p == target[q].provider
        o == target[q].opp
    IN  /\ pc[q] = "submitReady"
        /\ rfq[r].status \notin {"SELECTED", "DECLINED", "EXPIRED"}
        /\ \E t \in Quotes, n \in NextQuoteVersion(r, p) :
            /\ ~Exists(quote[t])
            /\ quote' = [quote EXCEPT ![t] =
                           [rfq |-> r, provider |-> p, version |-> n,
                            status |-> "SUBMITTED"]]
        /\ recipient' = IF snapshot[q].recipient # "QUOTED"
                        THEN [recipient EXCEPT ![r][p] = "QUOTED"]
                        ELSE recipient
        /\ \/ /\ rfq[r].status = "QUOTED"
              /\ UNCHANGED rfq
           \/ /\ rfq[r].status # "QUOTED"
              /\ <<rfq[r].status, "QUOTED">> \in RfqTransitions
              /\ rfq' = [rfq EXCEPT ![r].status = "QUOTED"]
        /\ opportunity' = IF snapshot[q].opp = "INVITED"
                          THEN [opportunity EXCEPT ![o] = "QUOTED"]
                          ELSE opportunity
        /\ Finish(q)
        /\ UNCHANGED <<now, dealRooms, workerVars>>

-----------------------------------------------------------------------------
(* rfqsService.withdrawQuote                                               *)

\* Mutant: the transaction trusts the check made before it.
FreshQuoteAllows_NoReread(t, status) == TRUE

\* The check repeated on the quote's row as read under the lock.
FreshQuoteAllows(t, status) == <<quote[t].status, status>> \in QuoteTransitions

WithdrawRead(q, t) ==
    /\ <<quote[t].status, "WITHDRAWN">> \in QuoteTransitions
    /\ Begin(q, "withdrawReady",
             [rfq |-> quote[t].rfq, opp |-> None, provider |-> quote[t].provider, quote |-> t],
             NoSnapshot)
    /\ UNCHANGED <<now, dbVars, workerVars>>

WithdrawCommit(q) ==
    LET t == target[q].quote
    IN  /\ pc[q] = "withdrawReady"
        /\ FreshQuoteAllows(t, "WITHDRAWN")
        /\ quote' = [quote EXCEPT ![t].status = "WITHDRAWN"]
        /\ Finish(q)
        /\ UNCHANGED <<now, opportunity, rfq, recipient, dealRooms, workerVars>>

-----------------------------------------------------------------------------
(* rfqsService.selectQuote                                                 *)

SelectReadRfq(q, r, t) ==
    /\ <<rfq[r].status, "SELECTED">> \in RfqTransitions
    /\ Begin(q, "selectRfqRead",
             [rfq |-> r, opp |-> rfq[r].opp, provider |-> None, quote |-> t], NoSnapshot)
    /\ UNCHANGED <<now, dbVars, workerVars>>

SelectReadOpportunity(q) ==
    /\ pc[q] = "selectRfqRead"
    /\ <<opportunity[target[q].opp], "SELECTED">> \in OpportunityTransitions
    /\ pc' = [pc EXCEPT ![q] = "selectOpportunityRead"]
    /\ UNCHANGED <<now, dbVars, target, snapshot, workerVars>>

SelectReadQuote(q) ==
    LET t == target[q].quote
    IN  /\ pc[q] = "selectOpportunityRead"
        /\ quote[t].rfq = target[q].rfq
        /\ <<quote[t].status, "SELECTED">> \in QuoteTransitions
        /\ pc' = [pc EXCEPT ![q] = "selectReady"]
        /\ UNCHANGED <<now, dbVars, target, snapshot, workerVars>>

\* Mutant: no unique constraint on DealRoom.rfqId.
DealRoomIsUnique_QuoteOnly(r, t) == \A d \in dealRooms : d.quote # t

\* @@unique on DealRoom.rfqId and DealRoom.selectedQuoteId (schema.prisma).
DealRoomIsUnique(r, t) ==
    \A d \in dealRooms : d.rfq # r /\ d.quote # t

\* dealRoomRepository.create, as selectQuote calls it.
NewDealRoom(q) ==
    [rfq |-> target[q].rfq, quote |-> target[q].quote, opp |-> target[q].opp,
     provider |-> quote[target[q].quote].provider]

\* Only the quote is read again under the lock.  A second room for the same
\* RFQ or quote breaks a unique constraint, and the transaction rolls back.
SelectCommit(q) ==
    LET r == target[q].rfq
        t == target[q].quote
        o == target[q].opp
    IN  /\ pc[q] = "selectReady"
        /\ FreshQuoteAllows(t, "SELECTED")
        /\ DealRoomIsUnique(r, t)
        /\ quote' = [quote EXCEPT ![t].status = "SELECTED"]
        /\ rfq' = [rfq EXCEPT ![r].status = "SELECTED"]
        /\ opportunity' = [opportunity EXCEPT ![o] = "SELECTED"]
        /\ dealRooms' = dealRooms \cup {NewDealRoom(q)}
        /\ Finish(q)
        /\ UNCHANGED <<now, recipient, workerVars>>

-----------------------------------------------------------------------------
(* The worker: rfq-expiry.job.ts                                           *)

Tick ==
    /\ now < MaxTime
    /\ now' = now + 1
    /\ UNCHANGED <<dbVars, requestVars, workerVars>>

\* expireOne inside its transaction.  withJobIdempotency replays a completed
\* record with the same payload and throws on one with another payload.
ExpireThrows(r) ==
    /\ rfq[r].status \in ExpirableStatuses
    /\ expiryKey[r] \notin {"ABSENT", rfq[r].status}

ExpireOne(r) ==
    IF rfq[r].status \in ExpirableStatuses /\ expiryKey[r] = "ABSENT"
    THEN /\ rfq' = [rfq EXCEPT ![r].status = "EXPIRED"]
         /\ expiryKey' = [expiryKey EXCEPT ![r] = rfq[r].status]
    ELSE UNCHANGED <<rfq, expiryKey>>

\* A delayed job of one RFQ.  It may be picked up too early (clock skew), lost
\* with the queue's data, or delivered again after it has run.
RunExpiryJob(r) ==
    /\ r \in expiryJobs
    /\ IF rfq[r].dueAt > now THEN UNCHANGED <<rfq, expiryKey>> ELSE ExpireOne(r)
    /\ \/ expiryJobs' = expiryJobs \ {r}
       \/ UNCHANGED expiryJobs
    /\ UNCHANGED <<now, opportunity, recipient, quote, dealRooms, requestVars, sweep, crashes>>

\* rfqRepository.listOverdue: oldest dueAt first, at most SweepLimit rows.
StartSweep ==
    /\ \E batch \in SUBSET Overdue :
        /\ batch # {}
        /\ Cardinality(batch) <= SweepLimit
        /\ Cardinality(batch) < SweepLimit => batch = Overdue
        /\ \A r \in batch, s \in Overdue \ batch : rfq[r].dueAt <= rfq[s].dueAt
        /\ sweep' = sweep \cup batch
    /\ UNCHANGED <<now, dbVars, requestVars, expiryJobs, expiryKey, crashes>>

SweepStep ==
    /\ \E r \in sweep :
        /\ \A s \in sweep : rfq[r].dueAt <= rfq[s].dueAt
        /\ ExpireOne(r)
        /\ sweep' = IF ExpireThrows(r) THEN {} ELSE sweep \ {r}
    /\ UNCHANGED <<now, opportunity, recipient, quote, dealRooms, requestVars, expiryJobs, crashes>>

SweepCrash ==
    /\ sweep # {} /\ crashes < MaxCrashes
    /\ sweep' = {}
    /\ crashes' = crashes + 1
    /\ UNCHANGED <<now, dbVars, requestVars, expiryJobs, expiryKey>>

-----------------------------------------------------------------------------
RequestStep(q) ==
    \/ Fail(q)
    \/ \E o \in Opportunities : CreateRead(q, o)
    \/ CreateCommit(q)
    \/ CreateEnqueue(q)
    \/ \E r \in Rfqs, p \in Providers : DeclineRead(q, r, p)
    \/ DeclineCommit(q)
    \/ \E r \in Rfqs, p \in Providers : SubmitReadOpportunity(q, r, p)
    \/ SubmitReadRecipient(q)
    \/ SubmitCommit(q)
    \/ \E t \in Quotes : WithdrawRead(q, t)
    \/ WithdrawCommit(q)
    \/ \E r \in Rfqs, t \in Quotes : SelectReadRfq(q, r, t)
    \/ SelectReadOpportunity(q)
    \/ SelectReadQuote(q)
    \/ SelectCommit(q)

WorkerStep ==
    \/ \E r \in Rfqs : RunExpiryJob(r)
    \/ StartSweep
    \/ SweepStep
    \/ SweepCrash

Next ==
    \/ \E q \in Requests : RequestStep(q)
    \/ WorkerStep
    \/ Tick

Spec == Init /\ [][Next]_vars

\* The scheduler re-fires the sweep every five minutes and BullMQ runs what is
\* scheduled; nothing obliges a user to act or a delayed job to survive.
Fairness == WF_vars(StartSweep) /\ WF_vars(SweepStep)
FairSpec == Spec /\ Fairness

-----------------------------------------------------------------------------
(* Properties                                                              *)

\* Every variable has its type: rows are rows of schema.prisma.
TypeOK ==
    /\ now \in Nat
    /\ opportunity \in [Opportunities -> OpportunityStatuses]
    /\ rfq \in [Rfqs -> RfqRow]
    /\ recipient \in [Rfqs -> [Providers -> RecipientStates \cup {"ABSENT"}]]
    /\ quote \in [Quotes -> QuoteRow]
    /\ dealRooms \subseteq DealRoomRow
    /\ pc \in [Requests -> RequestPoints]
    /\ target \in [Requests -> Target]
    /\ snapshot \in [Requests -> Snapshot]
    /\ expiryJobs \subseteq Rfqs /\ sweep \subseteq Rfqs
    /\ expiryKey \in [Rfqs -> RfqStatuses \cup {"ABSENT"}]
    /\ crashes \in Nat

\* selectQuote: whatever runs beside it, a deal room and its selected quote
\* never come apart.  A room's quote is SELECTED, was made on the room's RFQ by
\* the room's provider, and that RFQ is SELECTED (withdrawQuote's comment:
\* otherwise "corrupting a live deal"); and a SELECTED quote or RFQ has a room.
DealMatchesAward ==
    /\ \A d \in dealRooms :
        /\ quote[d.quote].status = "SELECTED"
        /\ quote[d.quote].rfq = d.rfq
        /\ quote[d.quote].provider = d.provider
        /\ rfq[d.rfq].status = "SELECTED"
        /\ rfq[d.rfq].opp = d.opp
    /\ \A t \in Quotes : quote[t].status = "SELECTED" => \E d \in dealRooms : d.quote = t
    /\ \A r \in Rfqs : rfq[r].status = "SELECTED" => \E d \in dealRooms : d.rfq = r

\* selectQuote: two selections racing on one RFQ, of one quote or of two, open
\* one deal room.
OneDealPerRfq == \A d, e \in dealRooms : d.rfq = e.rfq => d = e

\* submitQuote: two submissions of one provider that race get different
\* versions, so no amendment ever stands in for another.
QuoteVersionsDistinct ==
    \A s, t \in Quotes :
        /\ Exists(quote[s]) /\ Exists(quote[t])
        /\ quote[s].rfq = quote[t].rfq /\ quote[s].provider = quote[t].provider
        /\ quote[s].version = quote[t].version
        => s = t

\* expireOne: once the worker's idempotency record of an RFQ is complete the
\* RFQ is never expirable again, so the record can neither swallow an expiry
\* that is still due nor make a sweep throw.
ExpiryKeyIsSpent ==
    \A r \in Rfqs : expiryKey[r] # "ABSENT" => rfq[r].status \in {"EXPIRED", "SELECTED"}

\* submitQuote and expireOne: the rows are rows of their tables, no two quotes of
\* a provider on an RFQ share a version, and a spent expiry key hides nothing.
RowsAreSound == TypeOK /\ QuoteVersionsDistinct /\ ExpiryKeyIsSpent

\* The sweep: an RFQ past its due date does not stay open for ever, even if
\* its delayed job was never enqueued or was lost, and sweeps crash.
OverdueRfqCloses ==
    \A r \in Rfqs : r \in Overdue ~> rfq[r].status \notin ExpirableStatuses

\* The pipeline implements the abstract award: see QuoteAward.
Winner == [r \in Rfqs |->
             IF \E d \in dealRooms : d.rfq = r
             THEN (CHOOSE d \in dealRooms : d.rfq = r).quote ELSE None]
OfferState(status) ==
    CASE status = "ABSENT" -> "none"
      [] status = "SELECTED" -> "won"
      [] status = "WITHDRAWN" -> "withdrawn"
      [] OTHER -> "live"
Offer == [t \in Quotes |-> [rfq |-> quote[t].rfq, state |-> OfferState(quote[t].status)]]

Award == INSTANCE QuoteAward WITH offer <- Offer, winner <- Winner

ImplementsQuoteAward == Award!Spec

-----------------------------------------------------------------------------
(* What comments of the repository say, and the code does not do            *)

\* rfq-expiry.job.ts: EXPIRED, DECLINED and SELECTED "are already terminal".
\* selectQuote writes SELECTED over an RFQ that expired after its first read.
RfqTerminalIsFinal ==
    [][\A r \in Rfqs : rfq[r].status \in {"EXPIRED", "DECLINED", "SELECTED"}
                       => rfq'[r].status = rfq[r].status]_vars

\* opportunity-states.ts: each cascade "only fires when the Opportunity is
\* actually at the expected prior status".
CascadeFiresFromExpectedStatus ==
    [][\A o \in Opportunities : opportunity'[o] # opportunity[o] =>
        <<opportunity[o], opportunity'[o]>> \in
            {<<"MATCH_READY", "INVITED">>, <<"INVITED", "QUOTED">>, <<"QUOTED", "SELECTED">>}]_vars
=============================================================================
