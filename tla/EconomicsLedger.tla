--------------------------- MODULE EconomicsLedger ---------------------------
(***************************************************************************)
(* The commission economics of one deal room that is ACTIVATION, LIVE or    *)
(* ARCHIVED: versions of the commission schedule, revenue events, the       *)
(* append-only accrual ledger and the payments against it.                  *)
(* apps/api/src/modules/economics/service.ts runs in concurrent requests;   *)
(* apps/worker/src/jobs/economics-accrual.job.ts reconciles each event.     *)
(*                                                                         *)
(* Payments and adjustments take the deal room's advisory lock and read the *)
(* ledger again under it.  Schedules and revenue events take no lock: what  *)
(* they decided before their transaction may be old when it commits, and    *)
(* only unique constraints protect them.                                    *)
(*                                                                         *)
(* One CommissionBasis; the split of a revenue event over the components is *)
(* the constant Share (CommissionSplit says how it is computed).            *)
(***************************************************************************)
EXTENDS Integers, Sequences, FiniteSets, FiniteSetsExt, DomainStates

CONSTANTS
    Schedules,      \* identifiers of CommissionSchedule rows
    Events,         \* (period, source) pairs of revenue events
    Components,     \* components of every schedule version
    Share,          \* amountMinor of each component's ACCRUAL entry
    Recipient,      \* recipientOrgId of each component
    References,     \* payment references
    Requests,       \* API requests in flight at the same time
    None,           \* no such row
    MaxAmount,      \* bound on one payment entry or adjustment
    MaxEntries,     \* bound on the entries of one payment batch
    MaxAdjustments  \* bound on the adjustments of the ledger

ASSUME EconomicsAssumption ==
    /\ None \notin Schedules \cup Events \cup References /\ None \notin Nat
    /\ IsFiniteSet(Schedules) /\ IsFiniteSet(Events) /\ IsFiniteSet(Components) /\ IsFiniteSet(References)
    /\ Share \in [Components -> Nat] /\ DOMAIN Recipient = Components
    /\ MaxAmount \in Nat \ {0} /\ MaxEntries \in Nat \ {0} /\ MaxAdjustments \in Nat

VARIABLES
    schedule,       \* CommissionSchedule rows
    event,          \* scheduleId of each RevenueEvent row, or None
    accrualRuns,    \* how often ACCRUAL entries were written for each event
    adjusted,       \* net ADJUSTMENT of each accrual root
    paid,           \* sum of the PAYMENT entries of each accrual root
    payment,        \* totalAmountMinor of the CommissionPayment of a reference
    adjustments,    \* number of ADJUSTMENT entries
    pc,             \* how far each request has come
    seen,           \* the rows each request is about, as read before its transaction
    accrualJobs     \* events with an economics-accrual job in the queue

ledgerVars == <<accrualRuns, adjusted, paid, payment, adjustments>>
requestVars == <<pc, seen>>
vars == <<schedule, event, ledgerVars, requestVars, accrualJobs>>

-----------------------------------------------------------------------------
\* An accrual root is the ACCRUAL row of one event and component.
Roots == Events \X Components
AbsentSchedule == [status |-> "ABSENT", previous |-> None, version |-> 0, born |-> 0]
Exists(s) == schedule[s].status # "ABSENT"
Active == {s \in Schedules : schedule[s].status = "ACTIVE"}
Accrued(r) == accrualRuns[r[1]] > 0

\* The payments of one RecordPaymentRequest: one entry or more, in any order.
Entry == [root: Roots, amount: 1..MaxAmount]
Batches == UNION {[1..n -> Entry] : n \in 1..MaxEntries}
NoRequest == [schedule |-> None, event |-> None, batch |-> <<>>, reference |-> None]

Init ==
    /\ schedule = [s \in Schedules |-> AbsentSchedule]
    /\ event = [e \in Events |-> None]
    /\ accrualRuns = [e \in Events |-> 0]
    /\ adjusted = [r \in Roots |-> 0]
    /\ paid = [r \in Roots |-> 0]
    /\ payment = [f \in References |-> None]
    /\ adjustments = 0
    /\ pc = [q \in Requests |-> "idle"]
    /\ seen = [q \in Requests |-> NoRequest]
    /\ accrualJobs = {}

Begin(q, point, what) ==
    /\ pc[q] = "idle"
    /\ pc' = [pc EXCEPT ![q] = point]
    /\ seen' = [seen EXCEPT ![q] = what]

Finish(q) ==
    /\ pc' = [pc EXCEPT ![q] = "idle"]
    /\ seen' = [seen EXCEPT ![q] = NoRequest]

\* A check that throws, a broken unique constraint or a crash of the process.
Fail(q) ==
    /\ pc[q] # "idle"
    /\ Finish(q)
    /\ UNCHANGED <<schedule, event, ledgerVars, accrualJobs>>

-----------------------------------------------------------------------------
(* createSchedule                                                          *)

\* Without supersedesScheduleId (p = None), or superseding an ACTIVE version.
CreateScheduleRead(q, p) ==
    /\ p = None \/ p \in Active
    /\ Begin(q, "scheduleReady", [NoRequest EXCEPT !.schedule = p])
    /\ UNCHANGED <<schedule, event, ledgerVars, accrualJobs>>

\* commissionScheduleRepository.create and the DRAFT -> ACTIVE activation.
NewSchedule(p) ==
    [status |-> "ACTIVE", previous |-> p,
     version |-> IF p = None THEN 1 ELSE schedule[p].version + 1,
     born |-> Cardinality({s \in Schedules : Exists(s)}) + 1]

\* No lock, and the previous version is not read again: SUPERSEDED is written
\* whatever its status has become.
CreateScheduleCommit(q) ==
    LET p == seen[q].schedule
    IN  /\ pc[q] = "scheduleReady"
        /\ \E s \in Schedules :
            /\ ~Exists(s)
            /\ schedule' = [t \in Schedules |->
                              IF t = s THEN NewSchedule(p)
                              ELSE IF t = p THEN [schedule[t] EXCEPT !.status = "SUPERSEDED"]
                              ELSE schedule[t]]
        /\ Finish(q)
        /\ UNCHANGED <<event, ledgerVars, accrualJobs>>

-----------------------------------------------------------------------------
(* recordRevenueEvent                                                      *)

\* No row for this period and source; the newest ACTIVE schedule is taken.
RecordRead(q, e, s) ==
    /\ event[e] = None
    /\ s \in Active
    /\ \A t \in Active : schedule[t].born <= schedule[s].born
    /\ Begin(q, "recordReady", [NoRequest EXCEPT !.event = e, !.schedule = s])
    /\ UNCHANGED <<schedule, event, ledgerVars, accrualJobs>>

\* Mutant: no @@unique([dealRoomId, period, source]).
EventIsUnique_NoIndex(e) == TRUE

\* @@unique([dealRoomId, period, source]) of RevenueEvent
EventIsUnique(e) == event[e] = None

\* The event and its ACCRUAL entries, in one transaction without a lock.
RecordCommit(q) ==
    LET e == seen[q].event
    IN  /\ pc[q] = "recordReady"
        /\ EventIsUnique(e)
        /\ event' = [event EXCEPT ![e] = seen[q].schedule]
        /\ accrualRuns' = [accrualRuns EXCEPT ![e] = @ + 1]
        /\ pc' = [pc EXCEPT ![q] = "recordCommitted"]
        /\ UNCHANGED <<schedule, adjusted, paid, payment, adjustments, seen, accrualJobs>>

\* enqueueEconomicsAccrual after the commit; Fail is the lost enqueue.
RecordEnqueue(q) ==
    /\ pc[q] = "recordCommitted"
    /\ accrualJobs' = accrualJobs \cup {seen[q].event}
    /\ Finish(q)
    /\ UNCHANGED <<schedule, event, ledgerVars>>

-----------------------------------------------------------------------------
(* recordPayment and adjustLedger                                          *)

\* computeAccrualBalance; nothing in the code writes a REVERSAL entry.
NetAmount(r) == Share[r[2]] + adjusted[r]
Outstanding(r) == NetAmount(r) - paid[r]

\* loadAndValidatePayments and validateSingleRecipientAndCurrency: every entry
\* on its own against the balance in the database.
BatchIsValid(batch) ==
    /\ \A i \in DOMAIN batch :
        /\ Accrued(batch[i].root)
        /\ batch[i].amount <= Outstanding(batch[i].root)
    /\ \A i, j \in DOMAIN batch : Recipient[batch[i].root[2]] = Recipient[batch[j].root[2]]

PaymentRead(q, batch, f) ==
    /\ BatchIsValid(batch)
    /\ Begin(q, "paymentReady", [NoRequest EXCEPT !.batch = batch, !.reference = f])
    /\ UNCHANGED <<schedule, event, ledgerVars, accrualJobs>>

\* Mutant: the transaction trusts the check made before the lock.
FreshBatchIsValid_NoReread(batch) == TRUE

\* The same validation on what is read under the lock.
FreshBatchIsValid(batch) == BatchIsValid(batch)

\* CommissionPayment.reference is @unique.
ReferenceIsUnique(f) == payment[f] = None

\* Sum of the batch's entries on some roots.
BatchTotal(batch, roots) ==
    MapThenSumSet(LAMBDA i : batch[i].amount, {i \in DOMAIN batch : batch[i].root \in roots})

PaymentCommit(q) ==
    LET batch == seen[q].batch
        f == seen[q].reference
    IN  /\ pc[q] = "paymentReady"
        /\ FreshBatchIsValid(batch)
        /\ ReferenceIsUnique(f)
        /\ payment' = [payment EXCEPT ![f] = BatchTotal(batch, Roots)]
        /\ paid' = [r \in Roots |-> paid[r] + BatchTotal(batch, {r})]
        /\ Finish(q)
        /\ UNCHANGED <<schedule, event, accrualRuns, adjusted, adjustments, accrualJobs>>

\* adjustLedger: the reads before the lock and under it check the same thing,
\* that the chain exists, and a chain never disappears; so it is one action.
AdjustLedger(r, delta) ==
    /\ Accrued(r)
    /\ adjustments < MaxAdjustments
    /\ adjusted' = [adjusted EXCEPT ![r] = @ + delta]
    /\ adjustments' = adjustments + 1
    /\ UNCHANGED <<schedule, event, accrualRuns, paid, payment, requestVars, accrualJobs>>

-----------------------------------------------------------------------------
(* The worker: economics-accrual.job.ts                                    *)

\* Mutant: the job does not look for existing entries.
NeedsAccrual_NoLookup(e) == schedule[event[e]].status = "ACTIVE"

\* No ledger entry for the event yet, and its schedule is still ACTIVE.
NeedsAccrual(e) == accrualRuns[e] = 0 /\ schedule[event[e]].status = "ACTIVE"

\* A job is delivered at least once, or lost with the queue's data.
RunAccrualJob(e) ==
    /\ e \in accrualJobs
    /\ accrualRuns' = IF NeedsAccrual(e) THEN [accrualRuns EXCEPT ![e] = @ + 1] ELSE accrualRuns
    /\ \/ accrualJobs' = accrualJobs \ {e}
       \/ UNCHANGED accrualJobs
    /\ UNCHANGED <<schedule, event, adjusted, paid, payment, adjustments, requestVars>>

-----------------------------------------------------------------------------
RequestStep(q) ==
    \/ Fail(q)
    \/ \E p \in Schedules \cup {None} : CreateScheduleRead(q, p)
    \/ CreateScheduleCommit(q)
    \/ \E e \in Events, s \in Schedules : RecordRead(q, e, s)
    \/ RecordCommit(q)
    \/ RecordEnqueue(q)
    \/ \E batch \in Batches, f \in References : PaymentRead(q, batch, f)
    \/ PaymentCommit(q)

Next ==
    \/ \E q \in Requests : RequestStep(q)
    \/ \E r \in Roots, a \in 1..MaxAmount : AdjustLedger(r, a) \/ AdjustLedger(r, -a)
    \/ \E e \in Events : RunAccrualJob(e)

Spec == Init /\ [][Next]_vars

-----------------------------------------------------------------------------
(* Properties                                                              *)

\* Rows, balances and requests have their types.
TypeOK ==
    /\ schedule \in [Schedules -> [status: ScheduleStatuses \cup {"ABSENT"},
                                   previous: Schedules \cup {None}, version: Nat, born: Nat]]
    /\ event \in [Events -> Schedules \cup {None}]
    /\ accrualRuns \in [Events -> Nat]
    /\ adjusted \in [Roots -> Int] /\ paid \in [Roots -> Nat]
    /\ payment \in [References -> Nat \cup {None}]
    /\ adjustments \in Nat
    /\ pc \in [Requests -> {"idle", "scheduleReady", "recordReady", "recordCommitted", "paymentReady"}]
    /\ seen \in [Requests -> [schedule: Schedules \cup {None}, event: Events \cup {None},
                              batch: Seq(Entry), reference: References \cup {None}]]
    /\ accrualJobs \subseteq Events

\* recordRevenueEvent and the worker: the period reconciles.  Whatever races,
\* is retried or is delivered twice, a revenue event that exists was accrued
\* exactly once, so its ACCRUAL entries add up to the net distributable amount.
AccruedExactlyOnce == \A e \in Events : accrualRuns[e] = IF event[e] = None THEN 0 ELSE 1

\* Does the batch of some request name r in two entries?
NamedTwice(r) ==
    \E q \in Requests : \E i, j \in DOMAIN seen[q].batch :
        i # j /\ seen[q].batch[i].root = r /\ seen[q].batch[j].root = r

\* recordPayment: a payment never takes an accrual past what is owed on it,
\* although another payment or a DEBIT adjustment may have committed since the
\* check before the lock; only a batch that names the accrual twice can.
NeverOverpaid ==
    [][\A r \in Roots : paid'[r] > paid[r] => paid'[r] <= NetAmount(r) \/ NamedTwice(r)]_vars

\* recordPayment: the payments on file account for every PAYMENT entry of the
\* ledger; a reference that is used again changes neither side.
PaymentsAccountForLedger ==
    MapThenSumSet(LAMBDA f : payment[f], {f \in References : payment[f] # None})
    = MapThenSumSet(LAMBDA r : paid[r], Roots)

\* recordRevenueEvent, the worker and recordPayment: the rows are rows of their
\* tables, every event is accrued once and every payment is accounted for.
LedgerIsSound == TypeOK /\ AccruedExactlyOnce /\ PaymentsAccountForLedger

\* recordPayment and adjustLedger: the ledger is append-only (model
\* CommissionAccrual): no step lowers what was paid, re-dates an event to
\* another schedule version or touches a payment on file.
LedgerIsAppendOnly ==
    [][/\ \A r \in Roots : paid'[r] >= paid[r]
       /\ \A e \in Events : event[e] # None => event'[e] = event[e]
       /\ \A f \in References : payment[f] # None => payment'[f] = payment[f]]_vars

-----------------------------------------------------------------------------
(* What comments of the repository say, and the code does not do            *)

\* RecordPaymentRequestSchema: "the service validates none exceeds it", an
\* accrual's outstanding balance.  A batch that names one accrual twice is
\* validated entry by entry.
PaymentWithinBalance ==
    [][\A r \in Roots : paid'[r] > paid[r] => paid'[r] <= NetAmount(r)]_vars

\* createSchedule: "Cannot supersede a schedule that is not ACTIVE".  Two
\* requests that supersede one version both commit.
SupersedesActiveVersion ==
    [][\A s \in Schedules : ~Exists(s) /\ schedule'[s].previous # None
                            => schedule'[s].previous \in Active]_vars
=============================================================================
