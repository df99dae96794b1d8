---------------------------- MODULE CapacityJobs ----------------------------
(***************************************************************************)
(* apps/worker's runtime, and the capacity-freshness job it runs for the     *)
(* profiles that apps/api/src/modules/capacity creates.                      *)
(*                                                                         *)
(* A profile is created FRESH.  Its stored freshnessClass is a cache that     *)
(* the job refreshes: once when the API enqueues it, and in a sweep every     *)
(* fifteen minutes.  BullMQ hands a job to an execution of its handler; the   *)
(* runtime gives the execution one `now`, abandons it (without stopping it)   *)
(* when it runs too long, and retries it while the job has attempts left.     *)
(* Postgres and Redis may be unreachable for a while, and the worker may      *)
(* crash.  A handler holds its job by a lock that the worker renews in Redis; *)
(* a job whose lock ran out, because the worker died or Redis was away, is    *)
(* given to another attempt, beside the first if that one still runs.         *)
(***************************************************************************)
EXTENDS Authz, SequencesExt

CONSTANTS
    Profiles,       \* the capacity profiles ever created
    Seeded,         \* those the database starts with
    Sweep,          \* the job the scheduler of sweep:capacity-freshness adds
    Unknown,        \* a job left in the queue under a name this worker does not know
    Execs,          \* places for a running handler
    Actors,         \* who may call the API
    Concurrency,    \* workerOptions.concurrency
    Attempts,       \* DEFAULT_JOB_OPTIONS.attempts
    MaxStalled,     \* how often BullMQ hands a stalled job on (maxStalledCount, 1 by default)
    SweepLimit,     \* the sweep's page size
    FreshWindow, AgingWindow,   \* capacityFreshnessWindowDays, in clock ticks
    MaxTime,        \* bound: the clock stops here
    MaxFaults       \* bound: outages, crashes and timeouts

ASSUME CapacityJobsAssumption ==
    /\ Seeded \subseteq Profiles /\ IsFiniteSet(Seeded)
    /\ Sweep \notin Profiles /\ Unknown \notin Profiles \cup {Sweep}
    /\ Concurrency \in Nat \ {0} /\ Attempts \in Nat \ {0} /\ SweepLimit \in Nat \ {0}
    /\ MaxStalled \in Nat
    /\ FreshWindow \in Nat /\ AgingWindow \in Nat /\ FreshWindow < AgingWindow
    /\ MaxTime \in Nat /\ MaxFaults \in Nat

\* The job that refreshes one profile is named for the profile.
Jobs == Profiles \cup {Sweep, Unknown}

VARIABLES
    clock,
    order,      \* the ACTIVE profiles, in the order of createdAt
    asOf,       \* CapacityProfile.asOf
    cached,     \* CapacityProfile.freshnessClass
    keys,       \* completed idempotency keys of scope worker.capacity-freshness
    log,        \* capacity_profile.freshness_recomputed: its <<previous, new>> classes
    job,        \* of each job, its state in the queue
    made,       \*   its attemptsMade
    stalls,     \*   and how often it has stalled
    exec,       \* the running handlers
    up,         \* the worker processes jobs
    reachable,  \* the services that answer: Postgres, Redis
    faults

rows == <<order, asOf, cached, keys, log>>
queue == <<job, made, stalls>>
vars == <<clock, rows, queue, exec, up, reachable, faults>>

Services == {"postgres", "redis"}
Exists(p) == p \in Range(order)
Idle ==
    [job |-> Unknown, stage |-> "idle", now |-> 0, todo |-> <<>>, abandoned |-> FALSE, locked |-> FALSE]

Init ==
    /\ clock = 0
    /\ order = SetToSeq(Seeded)
    /\ asOf = [p \in Profiles |-> 0]
    /\ cached = [p \in Profiles |-> IF p \in Seeded THEN "FRESH" ELSE "UNKNOWN"]
    /\ keys = {}
    /\ log = [p \in Profiles |-> <<>>]
    /\ \E left \in SUBSET {Sweep} :  \* a sweep an earlier worker left, stalled as often as it may
         /\ job = [j \in Jobs |-> IF j \in left \cup {Unknown} THEN "waiting" ELSE "none"]
         /\ stalls = [j \in Jobs |-> IF j \in left THEN MaxStalled ELSE 0]
    /\ made = [j \in Jobs |-> 0]
    /\ exec = [e \in Execs |-> Idle]
    /\ up = FALSE
    /\ reachable = Services
    /\ faults = 0

-----------------------------------------------------------------------------
(* The environment                                                          *)

Tick ==
    /\ clock < MaxTime
    /\ clock' = clock + 1
    /\ UNCHANGED <<rows, queue, exec, up, reachable, faults>>

Fault == faults < MaxFaults /\ faults' = faults + 1

Outage(s) ==
    /\ Fault
    /\ s \in reachable
    /\ reachable' = reachable \ {s}
    /\ UNCHANGED <<clock, rows, queue, exec, up>>

Recover(s) ==
    /\ reachable' = reachable \cup {s}
    /\ UNCHANGED <<clock, rows, queue, exec, up, faults>>

\* The worker dies and takes every handler with it, abandoned ones too.
Crash ==
    /\ Fault
    /\ up
    /\ up' = FALSE
    /\ exec' = [e \in Execs |-> Idle]
    /\ UNCHANGED <<clock, rows, queue, reachable>>

-----------------------------------------------------------------------------
(* apps/api: capacityService.create                                         *)

\* classifyCapacityFreshness, for a profile the platform confirmed
Classify(from, now) ==
    IF now - from <= FreshWindow THEN "FRESH"
    ELSE IF now - from <= AgingWindow THEN "AGING"
    ELSE "STALE"

MayCreate(actor) ==
    /\ actor.organizationId # Nobody
    /\ can(actor, <<"capacity", "create">>, Resource("capacity_profile", actor.organizationId),
           Context(FALSE, FALSE))

\* enqueueCapacityFreshness, after the commit: safeEnqueue reports a failure to
\* nobody, and the process may die before it.
Enqueue(p, delivered) ==
    /\ delivered => "redis" \in reachable
    /\ job' = IF delivered THEN [job EXCEPT ![p] = "waiting"] ELSE job
    /\ UNCHANGED <<made, stalls>>

Create(p, delivered) ==
    /\ ~ Exists(p)
    /\ "postgres" \in reachable
    /\ \E actor \in Actors : MayCreate(actor)
    /\ order' = Append(order, p)
    /\ asOf' = [asOf EXCEPT ![p] = clock]
    /\ cached' = [cached EXCEPT ![p] = Classify(clock, clock)]
    /\ Enqueue(p, delivered)
    /\ UNCHANGED <<clock, keys, log, exec, up, reachable, faults>>

-----------------------------------------------------------------------------
(* The worker's process and its queue                                       *)

\* checkStartupConsistency: both services must answer.
StartupConsistent == reachable = Services

\* main: wait for the services, register the jobs, start the worker, and upsert
\* the sweep's schedule, whose first job is due at once.
Start ==
    /\ ~ up
    /\ StartupConsistent
    /\ up' = TRUE
    /\ job' = [job EXCEPT ![Sweep] = IF @ = "none" THEN "waiting" ELSE @]
    /\ UNCHANGED <<clock, rows, made, stalls, exec, reachable, faults>>

\* The scheduler adds the next sweep when the last one is over.
ScheduleSweep ==
    /\ "redis" \in reachable
    /\ job[Sweep] \in {"completed", "failed"}
    /\ job' = [job EXCEPT ![Sweep] = "waiting"]
    /\ made' = [made EXCEPT ![Sweep] = 0]
    /\ stalls' = [stalls EXCEPT ![Sweep] = 0]
    /\ UNCHANGED <<clock, rows, exec, up, reachable, faults>>

\* What a job was enqueued with: the API's queue has no defaultJobOptions, so its
\* jobs have one attempt; a job of the worker's own queue has DEFAULT_JOB_OPTIONS.
MaxAttempts(j) == IF j \in Profiles THEN 1 ELSE Attempts

attemptsExhausted(j) == made[j] + 1 >= MaxAttempts(j)

Running(e) == exec[e].stage # "idle"
Attended == {e \in Execs : Running(e) /\ ~ exec[e].abandoned}
Holding == {e \in Attended : exec[e].locked}

\* An attempt failed: the job waits for its backoff, or is dead-lettered.
Fail(j, poison) ==
    /\ made' = [made EXCEPT ![j] = @ + 1]
    /\ job' = [job EXCEPT ![j] = IF attemptsExhausted(j) \/ poison THEN "failed" ELSE "waiting"]
    /\ UNCHANGED stalls

\* How an attempt ends that the worker attends to, in the queue: BullMQ refuses
\* the outcome of a handler whose job it no longer holds.
Settle(e, outcome) ==
    IF e \in Attended
    THEN /\ "redis" \in reachable
         /\ IF e \in Holding THEN outcome ELSE UNCHANGED queue
    ELSE UNCHANGED queue

CanTake(j) ==
    /\ up /\ "redis" \in reachable
    /\ job[j] = "waiting"
    /\ Cardinality(Attended) < Concurrency

\* The processor: a name without a handler is poison.
TakeUnknown(j) ==
    /\ CanTake(j)
    /\ j = Unknown
    /\ Fail(j, TRUE)
    /\ UNCHANGED <<clock, rows, exec, up, reachable, faults>>

\* The processor: run the handler, with the time it starts at.
Take(j) ==
    /\ CanTake(j)
    /\ j # Unknown
    /\ \E e \in Execs : ~ Running(e)
    /\ job' = [job EXCEPT ![j] = "active"]
    /\ LET free == CHOOSE e \in Execs : ~ Running(e)
       IN  exec' = [exec EXCEPT ![free] = [Idle EXCEPT !.job = j, !.stage = "read", !.now = clock, !.locked = TRUE]]
    /\ UNCHANGED <<clock, rows, made, stalls, up, reachable, faults>>

\* Mutant: a lock never runs out.
LockExpired_Never(j) == FALSE

\* Nobody renews the job's lock.
LockExpired(j) == \A e \in Holding : exec[e].job # j

\* Redis was away for longer than lockDuration: the handler runs on without its lock.
LoseLock(e) ==
    /\ "redis" \notin reachable
    /\ e \in Holding
    /\ exec' = [exec EXCEPT ![e].locked = FALSE]
    /\ UNCHANGED <<clock, rows, queue, up, reachable, faults>>

\* A job whose lock ran out is given to another attempt, but not for ever.
Stalled(j) ==
    /\ up /\ "redis" \in reachable
    /\ job[j] = "active"
    /\ LockExpired(j)
    /\ \/ /\ stalls[j] < MaxStalled
          /\ job' = [job EXCEPT ![j] = "waiting"]
          /\ stalls' = [stalls EXCEPT ![j] = @ + 1]
       \/ /\ stalls[j] >= MaxStalled
          /\ job' = [job EXCEPT ![j] = "failed"]
          /\ UNCHANGED stalls
    /\ UNCHANGED <<clock, rows, made, exec, up, reachable, faults>>

\* withTimeout: the race is lost, the attempt has failed, and the handler runs on.
Timeout(e) ==
    /\ Fault
    /\ e \in Attended
    /\ exec' = [exec EXCEPT ![e].abandoned = TRUE]
    /\ Settle(e, Fail(exec[e].job, FALSE))
    /\ UNCHANGED <<clock, rows, up, reachable>>

-----------------------------------------------------------------------------
(* The handler, capacityFreshnessJob                                        *)

\* capacityProfileRepository.list: the newest, up to the limit.
Newest(limit) == SubSeq(Reverse(order), 1, IF Len(order) < limit THEN Len(order) ELSE limit)

\* The profile of the job, or the sweep's page.
Read(e) ==
    /\ exec[e].stage = "read"
    /\ "postgres" \in reachable
    /\ exec' = [exec EXCEPT ![e].stage = "write",
                            ![e].todo = IF exec[e].job = Sweep THEN Newest(SweepLimit)
                                        ELSE <<exec[e].job>>]
    /\ UNCHANGED <<clock, rows, queue, up, reachable, faults>>

\* Mutant: the key of a profile and its asOf alone.
Key_NoClass(p, class) == <<p, asOf[p]>>

Key(p, class) == <<p, asOf[p], class>>

\* Mutant: a write without the idempotency key.
RecomputeOne_NoKey(p, now) ==
    LET class == Classify(asOf[p], now)
        same  == class = cached[p]
    IN  /\ cached' = [cached EXCEPT ![p] = class]
        /\ log' = IF same THEN log ELSE [log EXCEPT ![p] = Append(@, <<cached[p], class>>)]
        /\ UNCHANGED <<order, asOf, keys>>

\* recomputeOne: under the profile's lock, in one transaction.  An equal class,
\* and a key that is spent, change nothing.
RecomputeOne(p, now) ==
    LET class == Classify(asOf[p], now)
        skip  == class = cached[p] \/ Key(p, class) \in keys
    IN  /\ cached' = IF skip THEN cached ELSE [cached EXCEPT ![p] = class]
        /\ log' = IF skip THEN log ELSE [log EXCEPT ![p] = Append(@, <<cached[p], class>>)]
        /\ keys' = IF skip THEN keys ELSE keys \cup {Key(p, class)}
        /\ UNCHANGED <<order, asOf>>

Recompute(e) ==
    /\ exec[e].stage = "write" /\ exec[e].todo # <<>>
    /\ "postgres" \in reachable
    /\ RecomputeOne(Head(exec[e].todo), exec[e].now)
    /\ exec' = [exec EXCEPT ![e].todo = Tail(@)]
    /\ UNCHANGED <<clock, queue, up, reachable, faults>>

\* A statement of the handler throws.  Nobody awaits an abandoned one.
Throw(e) ==
    /\ Running(e) /\ (exec[e].stage = "read" \/ exec[e].todo # <<>>)
    /\ "postgres" \notin reachable
    /\ exec' = [exec EXCEPT ![e] = Idle]
    /\ Settle(e, Fail(exec[e].job, FALSE))
    /\ UNCHANGED <<clock, rows, up, reachable, faults>>

\* The handler returns.
Finish(e) ==
    /\ exec[e].stage = "write" /\ exec[e].todo = <<>>
    /\ exec' = [exec EXCEPT ![e] = Idle]
    /\ Settle(e, job' = [job EXCEPT ![exec[e].job] = "completed"] /\ UNCHANGED <<made, stalls>>)
    /\ UNCHANGED <<clock, rows, up, reachable, faults>>

-----------------------------------------------------------------------------
Next ==
    \/ Tick \/ Crash \/ Start \/ ScheduleSweep
    \/ \E s \in Services : Outage(s) \/ Recover(s)
    \/ \E p \in Profiles, delivered \in BOOLEAN : Create(p, delivered)
    \/ \E j \in Jobs : TakeUnknown(j) \/ Take(j) \/ Stalled(j)
    \/ \E e \in Execs : LoseLock(e) \/ Timeout(e) \/ Read(e) \/ Recompute(e) \/ Throw(e) \/ Finish(e)

\* Services come back, the orchestrator starts the worker again, BullMQ hands out
\* what waits and what stalled and fires its schedules, and a handler runs on.
Fairness ==
    /\ \A s \in Services : WF_vars(Recover(s))
    /\ WF_vars(Start) /\ WF_vars(ScheduleSweep)
    /\ \A j \in Jobs : WF_vars(TakeUnknown(j)) /\ WF_vars(Take(j)) /\ WF_vars(Stalled(j))
    /\ \A e \in Execs : WF_vars(Read(e) \/ Recompute(e) \/ Throw(e) \/ Finish(e))

Spec == Init /\ [][Next]_vars /\ Fairness

-----------------------------------------------------------------------------
(* Properties                                                              *)

Classes == {"FRESH", "AGING", "STALE"}
JobStates == {"none", "waiting", "active", "completed", "failed"}

\* Types; a job is held by at most one handler at a time, and only while it is active.
TypeOK ==
    /\ clock \in 0 .. MaxTime
    /\ order \in Seq(Profiles)
    /\ asOf \in [Profiles -> 0 .. MaxTime]
    /\ cached \in [Profiles -> Classes \cup {"UNKNOWN"}]
    /\ log \in [Profiles -> Seq(Classes \X Classes)]
    /\ job \in [Jobs -> JobStates]
    /\ made \in [Jobs -> 0 .. Attempts]
    /\ stalls \in [Jobs -> 0 .. MaxStalled]
    /\ \A d, e \in Holding : exec[d].job = exec[e].job => d = e
    /\ \A e \in Holding : job[exec[e].job] = "active"

\* recomputeOne, withJobIdempotency: however often a job is retried, repeated by
\* the sweep or left running beside its own retry, a profile enters a class at
\* most once, and the stored class is where its events lead.
ReclassifiedOnce ==
    \A p \in Profiles :
        LET news == [i \in DOMAIN log[p] |-> log[p][i][2]]
        IN  /\ IsInjective(news)
            /\ \A i \in DOMAIN log[p] : log[p][i][1] = IF i = 1 THEN "FRESH" ELSE news[i - 1]
            /\ Exists(p) => cached[p] = IF log[p] = <<>> THEN "FRESH" ELSE Last(news)

Rank(class) == CASE class = "FRESH" -> 1 [] class = "AGING" -> 2 [] class = "STALE" -> 3

\* classifyCapacityFreshness with the handler's now: no handler, however late,
\* makes a profile look staler than a reader's own clock says it is.
NeverStalerThanLive ==
    \A p \in Range(order) : Rank(cached[p]) <= Rank(Classify(asOf[p], clock))

\* recomputeOne under the runtime: at most one handler holds a job, a
\* profile enters a class once, and never one staler than its age.
FreshnessIsSound == TypeOK /\ ReclassifiedOnce /\ NeverStalerThanLive

\* worker-runtime, queue.ts: every job that is in the queue is completed or
\* dead-lettered, whatever crashes, outages and timeouts it meets.
EveryJobEnds ==
    \A j \in Jobs : job[j] \in {"waiting", "active"} ~> job[j] \in {"completed", "failed"}

\* registerSweepSchedules, capacity-freshness.job.ts: the sweep catches up with
\* every profile of its page, enqueued or not, unless the class was already
\* entered once: then its key is spent and a late handler has put the row back.
SweepCatchesUp ==
    \A p \in Profiles :
        Exists(p) /\ cached[p] # Classify(asOf[p], clock)
            ~> \/ cached[p] = Classify(asOf[p], clock)
               \/ p \notin Range(Newest(SweepLimit))
               \/ \E i \in DOMAIN log[p] : log[p][i][2] = Classify(asOf[p], clock)

-----------------------------------------------------------------------------
(* What a comment of the repository says, and the code does not do          *)

\* capacity-freshness.job.ts: with the profile's lock no handler of two is left
\* "silently clobbering" the other's write "with a STALE decision".  The time the
\* decision rests on is older than the lock: a late handler writes FRESH over AGING.
ClassOnlyAges ==
    [][\A p \in Profiles : Exists(p) => Rank(cached[p]) <= Rank(cached'[p])]_vars
=============================================================================
