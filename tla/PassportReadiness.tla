-------------------------- MODULE PassportReadiness --------------------------
(***************************************************************************)
(* One organization's Passport: its facts, their evidence, the readiness    *)
(* results computed from them and the status they decide.                   *)
(* apps/api/src/modules/passport/service.ts runs in concurrent requests;    *)
(* apps/worker/src/jobs/passport-readiness.job.ts runs in up to Jobs        *)
(* handlers at a time, each woken by an enqueued job or by the sweep.       *)
(*                                                                         *)
(* Every write runs in a transaction that holds the passport's advisory     *)
(* lock and reads the passport and its facts again, so a transaction is one *)
(* action.  What happens before the lock (reads, and the worker's clock     *)
(* reading) is a separate action, and its results may be old by then.       *)
(***************************************************************************)
EXTENDS Naturals, FiniteSets, DomainStates

CONSTANTS
    FactKeys,       \* field keys of EVIDENCE_CONFIG.requiredFacts
    Blocking,       \* those with blocking: true
    Requests,       \* API requests in flight at the same time
    Jobs,           \* worker handlers running at the same time
    Never,          \* no expiry, no time
    Expiries,       \* the expiresAt values an evidence row may carry
    StaleAfter,     \* READINESS_STALE_AFTER_DAYS, in clock ticks
    WarnWithin,     \* factFreshnessWarnWithinDays, in clock ticks
    MaxTime,        \* bound on the clock
    MaxVersion      \* bound on the edits of one fact

ASSUME PassportAssumption ==
    /\ Blocking \subseteq FactKeys /\ Blocking # {}
    /\ Expiries \subseteq Nat /\ Never \notin Nat
    /\ StaleAfter \in Nat \ {0} /\ WarnWithin \in Nat
    /\ MaxTime \in Nat /\ MaxVersion \in Nat

VARIABLES
    now,            \* the clock
    status,         \* Passport.status
    fact,           \* Fact rows: version (0: no row) and the evidence's expiry
    evidence,       \* expiries of the Evidence rows (rows are immutable)
    readiness,      \* the row findLatestByPassport returns
    pc,             \* how far each request has come
    seenStatus,     \* the status a request read before its transaction
    seenReadiness,  \* the readiness row it read
    seenNow,        \* the clock it read
    jobPc,          \* how far each worker handler has come
    jobStatus,      \* the status its sweep listed
    jobNow,         \* ctx.now: the clock when the handler was called
    queued,         \* is a passport-readiness job in the queue?
    spent           \* keys of the worker's completed idempotency records

dbVars == <<status, fact, evidence, readiness>>
requestVars == <<pc, seenStatus, seenReadiness, seenNow>>
jobVars == <<jobPc, jobStatus, jobNow>>
vars == <<now, dbVars, requestVars, jobVars, queued, spent>>

Statuses == PassportStatuses \cup {"ABSENT"}
FactRow == [version: Nat, expiresAt: Nat \cup {Never}]
NoFact == [version |-> 0, expiresAt |-> Never]
ReadinessRow == [computedAt: Nat \cup {Never}, blocked: BOOLEAN]
NoReadiness == [computedAt |-> Never, blocked |-> TRUE]
RequestPoints == {"idle", "createReady", "enqueue", "verifyReady", "passportRead", "staleReady"}
JobPoints == {"idle", "visit", "recompute"}

-----------------------------------------------------------------------------
(* packages/evidence and packages/domain                                   *)

\* classifyFactFreshness
Freshness(f, t) ==
    CASE f.expiresAt = Never -> "UNKNOWN"
      [] f.expiresAt # Never /\ f.expiresAt < t -> "STALE"
      [] f.expiresAt # Never /\ f.expiresAt >= t /\ f.expiresAt - t <= WarnWithin -> "AGING"
      [] OTHER -> "FRESH"

\* isReadinessBlocked(computeReadiness(facts, t)): a blocking fact is missing
\* or its evidence has expired.  A fact, once written, always has a value.
IsReadinessBlocked(facts, t) ==
    \E k \in Blocking : facts[k].version = 0 \/ Freshness(facts[k], t) = "STALE"

HasFacts(facts) == \E k \in FactKeys : facts[k].version > 0

IsPassportReadinessStale(s, row, t) ==
    /\ s \in {"READY", "VERIFIED"}
    /\ row.computedAt # Never
    /\ t > row.computedAt + StaleAfter

\* Mutant: a recompute never gives an INCOMPLETE passport another look.
TargetStatusAfterRecompute_IncompleteStays(current, hasFacts, blocked) ==
    IF current \in {"SUSPENDED", "INCOMPLETE"} THEN current
    ELSE IF blocked
    THEN IF current = "DRAFT" /\ ~hasFacts THEN "DRAFT" ELSE "INCOMPLETE"
    ELSE IF current = "VERIFIED" THEN "VERIFIED" ELSE "READY"

TargetStatusAfterRecompute(current, hasFacts, blocked) ==
    IF current = "SUSPENDED" THEN current
    ELSE IF blocked
    THEN IF current = "DRAFT" /\ ~hasFacts THEN "DRAFT" ELSE "INCOMPLETE"
    ELSE IF current = "VERIFIED" THEN "VERIFIED" ELSE "READY"

\* readinessResultRepository: the row findLatestByPassport finds once `row` is
\* added (computedAt descending; within one tick the later write is newer).
LatestReadiness(row) ==
    IF readiness.computedAt = Never \/ row.computedAt >= readiness.computedAt
    THEN row ELSE readiness

\* The shared tail of every recompute: a readiness row of time t, then the
\* status it implies for a passport whose status is s.
RecomputeReadinessAndStatus(s, facts, t) ==
    LET blocked == IsReadinessBlocked(facts, t)
        target  == TargetStatusAfterRecompute(s, HasFacts(facts), blocked)
    IN  /\ readiness' = LatestReadiness([computedAt |-> t, blocked |-> blocked])
        /\ target = s \/ <<s, target>> \in PassportTransitions
        /\ status' = target

-----------------------------------------------------------------------------
Init ==
    /\ now = 0
    /\ status = "ABSENT"
    /\ fact = [k \in FactKeys |-> NoFact]
    /\ evidence = {}
    /\ readiness = NoReadiness
    /\ pc = [q \in Requests |-> "idle"]
    /\ seenStatus = [q \in Requests |-> "ABSENT"]
    /\ seenReadiness = [q \in Requests |-> NoReadiness]
    /\ seenNow = [q \in Requests |-> Never]
    /\ jobPc = [w \in Jobs |-> "idle"]
    /\ jobStatus = [w \in Jobs |-> "ABSENT"]
    /\ jobNow = [w \in Jobs |-> Never]
    /\ queued = FALSE
    /\ spent = {}

Goto(q, point) == pc' = [pc EXCEPT ![q] = point]

Finish(q) ==
    /\ Goto(q, "idle")
    /\ seenStatus' = [seenStatus EXCEPT ![q] = "ABSENT"]
    /\ seenReadiness' = [seenReadiness EXCEPT ![q] = NoReadiness]
    /\ seenNow' = [seenNow EXCEPT ![q] = Never]

\* A check that throws, or the API process dying: the transaction rolls back,
\* and after the commit ("enqueue") only the job is lost.
Fail(q) ==
    /\ pc[q] # "idle"
    /\ Finish(q)
    /\ UNCHANGED <<now, dbVars, jobVars, queued, spent>>

-----------------------------------------------------------------------------
(* passportService.create, upsertFact, addEvidence                         *)

CreateRead(q) ==
    /\ pc[q] = "idle" /\ status = "ABSENT"
    /\ Goto(q, "createReady")
    /\ UNCHANGED <<now, dbVars, seenStatus, seenReadiness, seenNow, jobVars, queued, spent>>

\* @unique organizationId: the second of two racing creates rolls back.
CreateCommit(q) ==
    /\ pc[q] = "createReady" /\ status = "ABSENT"
    /\ RecomputeReadinessAndStatus("DRAFT", fact, now)
    /\ Goto(q, "enqueue")
    /\ UNCHANGED <<now, fact, evidence, seenStatus, seenReadiness, seenNow, jobVars, queued, spent>>

\* What is read before the lock (that the passport and the evidence exist) can
\* no longer change, so the whole call is one step.
UpsertFact(q, k, e) ==
    /\ pc[q] = "idle" /\ status # "ABSENT"
    /\ fact[k].version < MaxVersion
    /\ e \in evidence \cup {Never}
    /\ fact' = [fact EXCEPT ![k] = [version |-> fact[k].version + 1, expiresAt |-> e]]
    /\ RecomputeReadinessAndStatus(status, fact', now)
    /\ Goto(q, "enqueue")
    /\ UNCHANGED <<now, evidence, seenStatus, seenReadiness, seenNow, jobVars, queued, spent>>

AddEvidence(q, e) ==
    /\ pc[q] = "idle" /\ status # "ABSENT"
    /\ evidence' = evidence \cup {e}
    /\ Goto(q, "enqueue")
    /\ UNCHANGED <<now, status, fact, readiness, seenStatus, seenReadiness, seenNow, jobVars, queued, spent>>

\* enqueuePassportReadiness after the commit.
Enqueue(q) ==
    /\ pc[q] = "enqueue"
    /\ queued' = TRUE
    /\ Finish(q)
    /\ UNCHANGED <<now, dbVars, jobVars, spent>>

-----------------------------------------------------------------------------
(* passportService.verify                                                  *)

VerifyRead(q) ==
    /\ pc[q] = "idle" /\ status = "READY"
    /\ Goto(q, "verifyReady")
    /\ UNCHANGED <<now, dbVars, seenStatus, seenReadiness, seenNow, jobVars, queued, spent>>

\* Under the lock the status is read and checked again.
VerifyCommit(q) ==
    /\ pc[q] = "verifyReady" /\ status = "READY"
    /\ status' = "VERIFIED"
    /\ Finish(q)
    /\ UNCHANGED <<now, fact, evidence, readiness, jobVars, queued, spent>>

-----------------------------------------------------------------------------
(* getById, getByOrganizationId: loadDetailWithStalenessCheck              *)

GetPassport(q) ==
    /\ pc[q] = "idle" /\ status # "ABSENT"
    /\ Goto(q, "passportRead")
    /\ seenStatus' = [seenStatus EXCEPT ![q] = status]
    /\ UNCHANGED <<now, dbVars, seenReadiness, seenNow, jobVars, queued, spent>>

\* The clock and the latest readiness are read outside the lock; only a
\* passport that looks stale opens a transaction.
GetReadiness(q) ==
    /\ pc[q] = "passportRead"
    /\ \/ /\ IsPassportReadinessStale(seenStatus[q], readiness, now)
          /\ Goto(q, "staleReady")
          /\ seenReadiness' = [seenReadiness EXCEPT ![q] = readiness]
          /\ seenNow' = [seenNow EXCEPT ![q] = now]
          /\ UNCHANGED seenStatus
       \/ /\ ~IsPassportReadinessStale(seenStatus[q], readiness, now)
          /\ Finish(q)
    /\ UNCHANGED <<now, dbVars, jobVars, queued, spent>>

\* Mutant: the decision uses the row read before the lock.
StalenessEvidence_Outer(q) == seenReadiness[q]

\* The readiness row the decision under the lock is based on.
StalenessEvidence(q) == readiness

StaleCommit(q) ==
    /\ pc[q] = "staleReady"
    /\ \/ /\ IsPassportReadinessStale(status, StalenessEvidence(q), seenNow[q])
          /\ status' = "STALE"
       \/ /\ ~IsPassportReadinessStale(status, StalenessEvidence(q), seenNow[q])
          /\ UNCHANGED status
    /\ Finish(q)
    /\ UNCHANGED <<now, fact, evidence, readiness, jobVars, queued, spent>>

-----------------------------------------------------------------------------
(* The worker: passport-readiness.job.ts                                   *)

\* A handler or a read lives far shorter than a tick (days): at most one tick
\* passes between its reading of the clock and its end.
Tick ==
    /\ now < MaxTime
    /\ \A w \in Jobs : jobNow[w] \in {now, Never}
    /\ \A q \in Requests : seenNow[q] \in {now, Never}
    /\ now' = now + 1
    /\ UNCHANGED <<dbVars, requestVars, jobVars, queued, spent>>

\* A handler is called with ctx.now; the job stays queued when BullMQ will
\* deliver it again (retry, stall, a second enqueue).
JobStart(w) ==
    /\ jobPc[w] = "idle" /\ queued /\ status # "ABSENT"
    /\ jobPc' = [jobPc EXCEPT ![w] = "recompute"]
    /\ jobNow' = [jobNow EXCEPT ![w] = now]
    /\ queued' \in BOOLEAN
    /\ UNCHANGED <<now, dbVars, requestVars, jobStatus, spent>>

\* Sweep mode: passportRepository.list ...
SweepList(w) ==
    /\ jobPc[w] = "idle" /\ status # "ABSENT"
    /\ jobPc' = [jobPc EXCEPT ![w] = "visit"]
    /\ jobStatus' = [jobStatus EXCEPT ![w] = status]
    /\ jobNow' = [jobNow EXCEPT ![w] = now]
    /\ UNCHANGED <<now, dbVars, requestVars, queued, spent>>

NeedsSweepRecompute(s, row, t) ==
    \/ row.computedAt = Never
    \/ s = "STALE"
    \/ IsPassportReadinessStale(s, row, t)

JobDone(w) ==
    /\ jobPc' = [jobPc EXCEPT ![w] = "idle"]
    /\ jobStatus' = [jobStatus EXCEPT ![w] = "ABSENT"]
    /\ jobNow' = [jobNow EXCEPT ![w] = Never]

\* ... then the latest readiness, judged with the status listed before.
SweepVisit(w) ==
    /\ jobPc[w] = "visit"
    /\ \/ /\ NeedsSweepRecompute(jobStatus[w], readiness, jobNow[w])
          /\ jobPc' = [jobPc EXCEPT ![w] = "recompute"]
          /\ UNCHANGED <<jobStatus, jobNow>>
       \/ /\ ~NeedsSweepRecompute(jobStatus[w], readiness, jobNow[w])
          /\ JobDone(w)
    /\ UNCHANGED <<now, dbVars, requestVars, queued, spent>>

\* The idempotency key of a recompute: the passport's status, and each fact's
\* version and freshness class.
RecomputeKey(s, facts, t) ==
    [status |-> s,
     inputs |-> [k \in FactKeys |-> [version |-> facts[k].version,
                                     freshness |-> Freshness(facts[k], t)]]]

\* Mutant: the status listed before the lock decides.
RecomputeStatus_Listed(w) == IF jobStatus[w] = "ABSENT" THEN status ELSE jobStatus[w]

\* The status recomputePassport starts from: read under the lock.
RecomputeStatus(w) == status

\* recomputePassport: withJobIdempotency replays a completed key, that is, it
\* does nothing; the record and its effects commit together.
RecomputePassport(w) ==
    LET key == RecomputeKey(RecomputeStatus(w), fact, jobNow[w])
    IN  /\ jobPc[w] = "recompute"
        /\ \/ /\ key \in spent
              /\ UNCHANGED <<status, readiness, spent>>
           \/ /\ key \notin spent
              /\ RecomputeReadinessAndStatus(RecomputeStatus(w), fact, jobNow[w])
              /\ spent' = spent \cup {key}
        /\ JobDone(w)
        /\ UNCHANGED <<now, fact, evidence, requestVars, queued>>

\* The worker process dies, or the handler's job is given up as stalled.
JobDies(w) ==
    /\ jobPc[w] # "idle"
    /\ JobDone(w)
    /\ UNCHANGED <<now, dbVars, requestVars, queued, spent>>

-----------------------------------------------------------------------------
RequestStep(q) ==
    \/ Fail(q)
    \/ CreateRead(q)
    \/ CreateCommit(q)
    \/ \E k \in FactKeys, e \in Expiries \cup {Never} : UpsertFact(q, k, e)
    \/ \E e \in Expiries : AddEvidence(q, e)
    \/ Enqueue(q)
    \/ VerifyRead(q)
    \/ VerifyCommit(q)
    \/ GetPassport(q)
    \/ GetReadiness(q)
    \/ StaleCommit(q)

JobStep(w) ==
    \/ JobStart(w)
    \/ SweepList(w)
    \/ SweepVisit(w)
    \/ RecomputePassport(w)
    \/ JobDies(w)

Next ==
    \/ \E q \in Requests : RequestStep(q)
    \/ \E w \in Jobs : JobStep(w)
    \/ Tick

Spec == Init /\ [][Next]_vars

-----------------------------------------------------------------------------
(* Properties                                                              *)

\* Every variable has its type: rows are rows of schema.prisma.
TypeOK ==
    /\ now \in Nat
    /\ status \in Statuses
    /\ fact \in [FactKeys -> FactRow]
    /\ evidence \subseteq Nat
    /\ readiness \in ReadinessRow
    /\ pc \in [Requests -> RequestPoints]
    /\ seenStatus \in [Requests -> Statuses]
    /\ seenReadiness \in [Requests -> ReadinessRow]
    /\ seenNow \in [Requests -> Nat \cup {Never}]
    /\ jobPc \in [Jobs -> JobPoints]
    /\ jobStatus \in [Jobs -> Statuses]
    /\ jobNow \in [Jobs -> Nat \cup {Never}]
    /\ queued \in BOOLEAN

\* Every recompute, racing or delayed, works on the facts as they are: a DRAFT
\* has no facts, an INCOMPLETE passport really is blocked at this moment (it is
\* never left behind once its last blocker is cured), and a READY or VERIFIED
\* one has every blocking fact on file.
StatusReflectsFacts ==
    /\ status \in {"ABSENT", "DRAFT"} => ~HasFacts(fact)
    /\ status = "INCOMPLETE" => IsReadinessBlocked(fact, now)
    /\ status \in {"READY", "VERIFIED", "STALE"} => \A k \in Blocking : fact[k].version > 0

\* loadDetailWithStalenessCheck: a read demotes a passport to STALE only when
\* the newest readiness result really is too old; a result that was recomputed
\* while the read waited for the lock is never clobbered.
StaleOnlyWhenOld ==
    [][status' = "STALE" /\ status # "STALE" =>
        IsPassportReadinessStale(status, readiness, now)]_vars

\* recomputePassport and upsertFact: a reviewer's VERIFIED is lost only to a
\* blocker that exists or to age, never to a recompute that started before the
\* review.
VerificationSurvives ==
    [][status = "VERIFIED" /\ status' # "VERIFIED" =>
        \/ status' = "STALE" /\ IsPassportReadinessStale(status, readiness, now)
        \/ status' = "INCOMPLETE" /\ IsReadinessBlocked(fact', now)]_vars

-----------------------------------------------------------------------------
(* What comments of the repository say, and the code does not do            *)

\* passport-readiness.job.ts: a completed key is replayed "instead of appending
\* a redundant ReadinessResult row", and the status is part of the key so that a
\* STALE passport is not "silently short-circuited by the cache".  So whenever
\* the key of the passport as it is now is spent, recomputing would change
\* nothing.
ReplayHidesNothing ==
    status # "ABSENT" /\ RecomputeKey(status, fact, now) \in spent =>
        TargetStatusAfterRecompute(status, HasFacts(fact), IsReadinessBlocked(fact, now)) = status

\* readiness.ts: "a Passport cannot be READY on evidence that has expired"; so
\* a reviewer never verifies one either.
NotVerifiedOnExpiredEvidence ==
    [][status' = "VERIFIED" /\ status # "VERIFIED" => ~IsReadinessBlocked(fact, now)]_vars
=============================================================================
