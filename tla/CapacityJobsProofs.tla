------------------------- MODULE CapacityJobsProofs -------------------------
(***************************************************************************)
(* Proofs about CapacityJobs, for any number of profiles, handlers, attempts, *)
(* faults and any clock.                                                    *)
(*                                                                         *)
(* The invariant has two halves.  JobPart is the runtime: which handlers run,  *)
(* for which job, with which list and clock reading, and that a job which is   *)
(* waiting or active has an attempt left.  RowPart is what the handlers leave: *)
(* the log of each profile, whose every class has its key spent (KeysSpent).   *)
(* They meet in Recompute: the handler's list names rows that exist and its    *)
(* clock reading lies in the past, so what it writes is no staler than now.    *)
(***************************************************************************)
EXTENDS CapacityJobs, FiniteSetTheorems, SequenceTheorems, TLAPS

RowTypes ==
    /\ clock \in 0 .. MaxTime
    /\ order \in Seq(Profiles)
    /\ asOf \in [Profiles -> 0 .. MaxTime]
    /\ cached \in [Profiles -> Classes \cup {"UNKNOWN"}]
    /\ log \in [Profiles -> Seq(Classes \X Classes)]

\* A profile without a row has no history; a class once entered has spent its key.
KeysSpent ==
    \A p \in Profiles :
        /\ ~ Exists(p) => log[p] = <<>>
        /\ \A i \in 1 .. Len(log[p]) : <<p, asOf[p], log[p][i][2]>> \in keys

\* What ReclassifiedOnce says, without its function of new classes.
LogChain ==
    \A p \in Profiles :
        /\ \A i, k \in 1 .. Len(log[p]) : log[p][i][2] = log[p][k][2] => i = k
        /\ \A i \in 1 .. Len(log[p]) :
              log[p][i][1] = IF i = 1 THEN "FRESH" ELSE log[p][i - 1][2]
        /\ Exists(p) => cached[p] = IF Len(log[p]) = 0 THEN "FRESH" ELSE log[p][Len(log[p])][2]

RowPart == RowTypes /\ KeysSpent /\ LogChain /\ NeverStalerThanLive

Handlers == [job : Jobs, stage : {"idle", "read", "write"}, now : 0 .. MaxTime,
             todo : Seq(Profiles), abandoned : BOOLEAN, locked : BOOLEAN]

\* A handler works for a job that exists, on rows that exist, with an old clock.
ExecsOK ==
    /\ exec \in [Execs -> Handlers]
    /\ \A e \in Execs :
          /\ exec[e].now <= clock
          /\ Running(e) => exec[e].job # Unknown /\ (exec[e].job \in Profiles => Exists(exec[e].job))
          /\ \A i \in 1 .. Len(exec[e].todo) : Exists(exec[e].todo[i])

\* A job that waits or runs has an attempt left, and a profile's job a profile.
QueueOK ==
    /\ job \in [Jobs -> JobStates]
    /\ made \in [Jobs -> 0 .. Attempts]
    /\ stalls \in [Jobs -> 0 .. MaxStalled]
    /\ \A j \in Jobs : /\ job[j] = "none" => made[j] = 0
                       /\ job[j] \in {"waiting", "active"} => made[j] < MaxAttempts(j)
                       /\ job[j] # "none" /\ j \in Profiles => Exists(j)

\* At most one handler holds a job, and only while the job is active.
Attending ==
    /\ \A d, e \in Holding : exec[d].job = exec[e].job => d = e
    /\ \A e \in Holding : job[exec[e].job] = "active"

JobPart == ExecsOK /\ QueueOK /\ Attending

IInv == RowPart /\ JobPart

-----------------------------------------------------------------------------
(* Sequences and the clock                                                  *)

LEMMA IdleHandler == Idle \in Handlers /\ Idle.stage = "idle" /\ Idle.now = 0 /\ Idle.todo = <<>>
                     /\ Idle.abandoned = FALSE /\ Idle.locked = FALSE
  BY CapacityJobsAssumption DEF Idle, Handlers, Jobs

\* The sequence the rows start as lists exactly the seeded profiles.
LEMMA SeededOrder == SetToSeq(Seeded) \in Seq(Seeded)
  <1>1. Cardinality(Seeded) \in Nat /\ ExistsBijection(1 .. Cardinality(Seeded), Seeded)
    BY CapacityJobsAssumption, FS_CardinalityType
  <1>2. \E f \in [1 .. Cardinality(Seeded) -> Seeded] : IsInjective(f)
    BY <1>1 DEF ExistsBijection, Bijection, Injection, IsInjective
  <1>3. SetToSeq(Seeded) \in [1 .. Cardinality(Seeded) -> Seeded]
    BY <1>2 DEF SetToSeq
  <1> QED BY <1>1, <1>3

\* A profile is listed after an append exactly when it was, or is the new one.
LEMMA AppendExists ==
    ASSUME order \in Seq(Profiles), NEW p \in Profiles, order' = Append(order, p)
    PROVE  /\ order' \in Seq(Profiles)
           /\ \A q : Exists(q)' <=> Exists(q) \/ q = p
  <1>1. /\ order' \in Seq(Profiles) /\ Len(order) \in Nat
        /\ DOMAIN order = 1 .. Len(order) /\ DOMAIN order' = 1 .. Len(order) + 1
        /\ order'[Len(order) + 1] = p
        /\ \A i \in 1 .. Len(order) : order'[i] = order[i]
    BY AppendProperties
  <1> QED BY <1>1 DEF Exists, Range

\* The sweep's page lists profiles that exist.
LEMMA NewestExist ==
    ASSUME order \in Seq(Profiles), NEW limit \in Nat
    PROVE  /\ Newest(limit) \in Seq(Profiles)
           /\ \A i \in 1 .. Len(Newest(limit)) : Exists(Newest(limit)[i])
  <1> DEFINE n == Len(order)
             m == IF n < limit THEN n ELSE limit
             S == Range(order)
  <1>1. n \in Nat /\ m \in Nat /\ m <= n /\ DOMAIN order = 1 .. n
    OBVIOUS
  <1>2. \A i \in 1 .. n : order[i] \in S /\ order[i] \in Profiles
    BY <1>1 DEF Range
  <1>3. \A i \in 1 .. m : Reverse(order)[i] \in S /\ Reverse(order)[i] \in Profiles
    BY <1>1, <1>2 DEF Reverse
  <1>4. Newest(limit) = SubSeq(Reverse(order), 1, m)
    BY DEF Newest
  <1> HIDE DEF n, m, S
  <1>5. SubSeq(Reverse(order), 1, m) \in Seq(S)
    BY <1>1, <1>3, SubSeqProperties
  <1>6. SubSeq(Reverse(order), 1, m) \in Seq(Profiles)
    BY <1>1, <1>3, SubSeqProperties
  <1> QED BY <1>4, <1>5, <1>6 DEF S, Exists

\* Time alone never makes a profile fresher, whatever the age, a negative one too.
LEMMA ClassifyMonotone ==
    ASSUME NEW from \in Nat, NEW now \in Nat, NEW later \in Nat, now <= later
    PROVE  /\ Classify(from, now) \in Classes
           /\ Rank(Classify(from, now)) \in Nat
           /\ Rank(Classify(from, now)) <= Rank(Classify(from, later))
  BY CapacityJobsAssumption DEF Classify, Classes, Rank

-----------------------------------------------------------------------------
(* What a step may leave alone                                             *)

LEMMA RowFrame ==
    ASSUME RowPart, UNCHANGED <<clock, rows>>
    PROVE  RowPart'
  BY DEF rows, RowPart, RowTypes, KeysSpent, LogChain, NeverStalerThanLive, Exists

\* A handler that ends leaves nobody behind that was not there.
LEMMA HandlerEnds ==
    ASSUME RowTypes, ExecsOK, NEW e \in Execs, exec' = [exec EXCEPT ![e] = Idle], UNCHANGED <<clock, order>>
    PROVE  /\ ExecsOK'
           /\ Holding' = Holding \ {e}
           /\ \A d \in Holding' : exec'[d] = exec[d]
  <1>1. /\ exec' \in [Execs -> Handlers] /\ exec'[e] = Idle
        /\ \A d \in Execs : d # e => exec'[d] = exec[d]
    BY IdleHandler DEF ExecsOK
  <1>2. \A d \in Execs : Running(d)' <=> d # e /\ Running(d)
    BY <1>1, IdleHandler DEF Running
  <1>3. ExecsOK'
    <2> SUFFICES ASSUME NEW d \in Execs
                 PROVE  /\ exec'[d].now <= clock
                        /\ Running(d)' => exec'[d].job # Unknown /\ (exec'[d].job \in Profiles => Exists(exec'[d].job))
                        /\ \A i \in 1 .. Len(exec'[d].todo) : Exists(exec'[d].todo[i])
      BY <1>1 DEF ExecsOK, Exists
    <2>1. CASE d = e
      <3>1. clock >= 0
        BY DEF RowTypes
      <3> QED BY <1>1, <1>2, <2>1, <3>1, IdleHandler
    <2>2. CASE d # e
      BY <1>1, <1>2, <2>2 DEF ExecsOK
    <2> QED BY <2>1, <2>2
  <1>4. \A d \in Execs : d \in Holding' <=> d \in Holding /\ d # e
    BY <1>1, <1>2 DEF Holding, Attended
  <1> QED BY <1>1, <1>3, <1>4 DEF Holding, Attended

\* What a job may have been given is within the bound on its counter.
LEMMA AttemptsBounded == \A j \in Jobs : MaxAttempts(j) \in Nat \ {0} /\ MaxAttempts(j) <= Attempts
  BY CapacityJobsAssumption DEF MaxAttempts

\* A failed attempt is counted; what is left to wait has an attempt left.
LEMMA FailKeeps ==
    ASSUME QueueOK, NEW j \in Jobs, NEW poison \in BOOLEAN, Fail(j, poison), UNCHANGED order,
           job[j] \in {"waiting", "active"}
    PROVE  QueueOK' /\ \A k \in Jobs : k # j => job'[k] = job[k]
  <1>1. made[j] \in Nat /\ made[j] < MaxAttempts(j) /\ MaxAttempts(j) \in Nat /\ MaxAttempts(j) <= Attempts
        /\ Attempts \in Nat
    BY AttemptsBounded, CapacityJobsAssumption DEF QueueOK
  <1>2. /\ made' = [made EXCEPT ![j] = made[j] + 1]
        /\ job' = [job EXCEPT ![j] = IF attemptsExhausted(j) \/ poison THEN "failed" ELSE "waiting"]
        /\ UNCHANGED stalls
    BY DEF Fail
  <1>3. /\ made' \in [Jobs -> 0 .. Attempts] /\ made'[j] = made[j] + 1
        /\ \A k \in Jobs : k # j => made'[k] = made[k]
    BY <1>1, <1>2 DEF QueueOK
  <1>4. /\ job' \in [Jobs -> JobStates]
        /\ job'[j] \in {"failed", "waiting"}
        /\ job'[j] = "waiting" => made[j] + 1 < MaxAttempts(j)
        /\ \A k \in Jobs : k # j => job'[k] = job[k]
    <2>1. ~ attemptsExhausted(j) => made[j] + 1 < MaxAttempts(j)
      BY <1>1 DEF attemptsExhausted
    <2> QED BY <1>2, <2>1 DEF QueueOK, JobStates
  <1>5. ASSUME NEW k \in Jobs
        PROVE  /\ job'[k] = "none" => made'[k] = 0
               /\ job'[k] \in {"waiting", "active"} => made'[k] < MaxAttempts(k)
               /\ job'[k] # "none" /\ k \in Profiles => Exists(k)
    <2>1. CASE k = j
      BY <1>3, <1>4, <2>1 DEF QueueOK
    <2>2. CASE k # j
      BY <1>3, <1>4, <2>2 DEF QueueOK
    <2> QED BY <2>1, <2>2
  <1>6. \A k : Exists(k)' <=> Exists(k)
    BY DEF Exists
  <1> QED BY <1>2, <1>3, <1>4, <1>5, <1>6 DEF QueueOK, MaxAttempts

\* A job becomes waiting or active: what has to be so for the queue to stay right.
LEMMA MoveKeeps ==
    ASSUME QueueOK, NEW j \in Jobs, NEW state \in JobStates \ {"none"},
           job' = [job EXCEPT ![j] = state], UNCHANGED made, stalls' \in [Jobs -> 0 .. MaxStalled],
           \A p : Exists(p) => Exists(p)',
           j \in Profiles => Exists(j)',
           state \in {"waiting", "active"} => made[j] < MaxAttempts(j)
    PROVE  QueueOK' /\ job'[j] = state /\ \A k \in Jobs : k # j => job'[k] = job[k]
  <1>1. /\ job' \in [Jobs -> JobStates] /\ job'[j] = state
        /\ \A k \in Jobs : k # j => job'[k] = job[k]
    BY DEF QueueOK
  <1>2. ASSUME NEW k \in Jobs
        PROVE  /\ job'[k] = "none" => made[k] = 0
               /\ job'[k] \in {"waiting", "active"} => made[k] < MaxAttempts(k)
               /\ job'[k] # "none" /\ k \in Profiles => Exists(k)'
    <2>1. CASE k = j
      BY <1>1, <2>1
    <2>2. CASE k # j
      BY <1>1, <2>2 DEF QueueOK
    <2> QED BY <2>1, <2>2
  <1> QED BY <1>1, <1>2 DEF QueueOK, MaxAttempts

\* Handlers that do not change, with rows that are only added.
LEMMA ExecFrame ==
    ASSUME ExecsOK, RowTypes, UNCHANGED exec, clock' \in 0 .. MaxTime, clock <= clock',
           \A p : Exists(p) => Exists(p)'
    PROVE  ExecsOK' /\ Holding' = Holding
  BY DEF ExecsOK, RowTypes, Handlers, Running, Holding, Attended

-----------------------------------------------------------------------------
(* The environment and the API                                              *)

LEMMA TickKeeps == ASSUME IInv, Tick PROVE IInv'
  <1>1. /\ clock \in Nat /\ clock' = clock + 1 /\ clock' \in 0 .. MaxTime /\ clock <= clock'
        /\ UNCHANGED <<rows, queue, exec>>
    BY CapacityJobsAssumption DEF Tick, IInv, RowPart, RowTypes
  <1>2. \A p : Exists(p)' <=> Exists(p)
    BY <1>1 DEF rows, Exists
  <1>3. ASSUME NEW p \in Range(order)
        PROVE  Rank(cached[p]) <= Rank(Classify(asOf[p], clock'))
    <2>1. p \in Profiles /\ asOf[p] \in Nat
      BY DEF IInv, RowPart, RowTypes, Range
    <2>2. /\ Rank(Classify(asOf[p], clock)) \in Nat
          /\ Rank(Classify(asOf[p], clock')) \in Nat
          /\ Rank(Classify(asOf[p], clock)) <= Rank(Classify(asOf[p], clock'))
      <3>1. clock' \in Nat /\ clock' <= clock'
        BY <1>1
      <3> QED BY <1>1, <2>1, <3>1, ClassifyMonotone
    <2>3. Rank(cached[p]) <= Rank(Classify(asOf[p], clock))
      BY DEF IInv, RowPart, NeverStalerThanLive
    <2>4. Rank(cached[p]) \in Nat
      <3>1. cached[p] \in Classes
        BY <2>1 DEF IInv, RowPart, LogChain, RowTypes, Exists, Classes
      <3> QED BY <3>1 DEF Classes, Rank
    <2> QED BY <2>2, <2>3, <2>4
  <1>4. NeverStalerThanLive'
    BY <1>1, <1>3 DEF NeverStalerThanLive, rows, Classify
  <1>5. RowPart'
    BY <1>1, <1>2, <1>4 DEF IInv, RowPart, RowTypes, KeysSpent, LogChain, rows
  <1>6. ExecsOK' /\ Holding' = Holding
    BY <1>1, <1>2, ExecFrame DEF IInv, RowPart, JobPart
  <1>7. QueueOK' /\ Attending'
    BY <1>1, <1>2, <1>6 DEF IInv, JobPart, QueueOK, Attending, queue, MaxAttempts
  <1> QED BY <1>5, <1>6, <1>7 DEF IInv, JobPart

\* A service that goes or comes back changes nothing the invariant speaks of.
LEMMA ServiceKeeps ==
    ASSUME IInv, UNCHANGED <<clock, rows, queue, exec>>
    PROVE  IInv'
  <1>1. \A p : Exists(p)' <=> Exists(p)
    BY DEF rows, Exists
  <1>2. RowPart'
    BY RowFrame DEF IInv
  <1>3. ExecsOK' /\ Holding' = Holding
    BY <1>1, ExecFrame DEF IInv, RowPart, RowTypes, JobPart
  <1>4. QueueOK' /\ Attending'
    BY <1>1, <1>3 DEF IInv, JobPart, QueueOK, Attending, queue, MaxAttempts
  <1> QED BY <1>2, <1>3, <1>4 DEF IInv, JobPart

LEMMA CrashKeeps == ASSUME IInv, Crash PROVE IInv'
  <1>1. exec' = [e \in Execs |-> Idle] /\ UNCHANGED <<clock, rows, queue>>
    BY DEF Crash
  <1>2. \A p : Exists(p)' <=> Exists(p)
    BY <1>1 DEF rows, Exists
  <1>3. ExecsOK'
    <2>1. clock' \in Nat
      BY <1>1 DEF IInv, RowPart, RowTypes
    <2>2. exec' \in [Execs -> Handlers] /\ \A e \in Execs : exec'[e] = Idle
      BY <1>1, IdleHandler
    <2>3. \A e \in Execs : /\ exec'[e].now <= clock'
                           /\ ~ Running(e)'
                           /\ Len(exec'[e].todo) = 0
      BY <2>1, <2>2, IdleHandler DEF Running
    <2> QED BY <2>2, <2>3 DEF ExecsOK
  <1>4. Holding' = {}
    BY <1>1, IdleHandler DEF Holding, Attended, Running
  <1>5. QueueOK' /\ Attending'
    BY <1>1, <1>2, <1>4 DEF IInv, JobPart, QueueOK, Attending, queue, MaxAttempts
  <1> QED BY <1>1, <1>3, <1>5, RowFrame DEF IInv, JobPart

\* A new profile: nothing was logged for it, and no handler has its job.
LEMMA CreateKeeps ==
    ASSUME IInv, NEW p \in Profiles, NEW delivered \in BOOLEAN, Create(p, delivered)
    PROVE  IInv'
  <1>1. /\ ~ Exists(p) /\ order' = Append(order, p)
        /\ asOf' = [asOf EXCEPT ![p] = clock]
        /\ cached' = [cached EXCEPT ![p] = Classify(clock, clock)]
        /\ job' = (IF delivered THEN [job EXCEPT ![p] = "waiting"] ELSE job)
        /\ UNCHANGED <<clock, keys, log, exec, made, stalls>>
    BY DEF Create, Enqueue
  <1>2. clock \in 0 .. MaxTime /\ clock \in Nat /\ MaxTime \in Nat
    BY CapacityJobsAssumption DEF IInv, RowPart, RowTypes
  <1>3. Classify(clock, clock) = "FRESH"
    BY <1>2, CapacityJobsAssumption DEF Classify
  <1>4. /\ order' \in Seq(Profiles)
        /\ \A q : Exists(q)' <=> Exists(q) \/ q = p
    BY <1>1, AppendExists DEF IInv, RowPart, RowTypes
  <1>5. /\ asOf' \in [Profiles -> 0 .. MaxTime] /\ asOf'[p] = clock
        /\ cached' \in [Profiles -> Classes \cup {"UNKNOWN"}] /\ cached'[p] = "FRESH"
        /\ \A q \in Profiles : q # p => asOf'[q] = asOf[q] /\ cached'[q] = cached[q]
    BY <1>1, <1>2, <1>3 DEF IInv, RowPart, RowTypes, Classes
  <1>6. log[p] = <<>> /\ Len(log[p]) = 0
    BY <1>1 DEF IInv, RowPart, KeysSpent
  <1>7. RowTypes'
    BY <1>1, <1>4, <1>5 DEF IInv, RowPart, RowTypes
  <1>8. KeysSpent'
    <2> SUFFICES ASSUME NEW q \in Profiles
                 PROVE  /\ ~ Exists(q)' => log[q] = <<>>
                        /\ \A i \in 1 .. Len(log[q]) : <<q, asOf'[q], log[q][i][2]>> \in keys
      BY <1>1 DEF KeysSpent
    <2>1. CASE q = p
      BY <1>6, <2>1
    <2>2. CASE q # p
      BY <1>4, <1>5, <2>2 DEF IInv, RowPart, KeysSpent
    <2> QED BY <2>1, <2>2
  <1>9. LogChain'
    <2> SUFFICES ASSUME NEW q \in Profiles
                 PROVE  /\ \A i, k \in 1 .. Len(log[q]) : log[q][i][2] = log[q][k][2] => i = k
                        /\ \A i \in 1 .. Len(log[q]) :
                              log[q][i][1] = IF i = 1 THEN "FRESH" ELSE log[q][i - 1][2]
                        /\ Exists(q)' => cached'[q] = IF Len(log[q]) = 0 THEN "FRESH" ELSE log[q][Len(log[q])][2]
      BY <1>1 DEF LogChain
    <2>1. CASE q = p
      BY <1>5, <1>6, <2>1
    <2>2. CASE q # p
      BY <1>4, <1>5, <2>2 DEF IInv, RowPart, LogChain
    <2> QED BY <2>1, <2>2
  <1>10. NeverStalerThanLive'
    <2> SUFFICES ASSUME NEW q, Exists(q)'
                 PROVE  Rank(cached'[q]) <= Rank(Classify(asOf'[q], clock))
      BY <1>1 DEF NeverStalerThanLive, Exists, Classify
    <2>1. CASE q = p
      BY <1>3, <1>5, <2>1 DEF Rank
    <2>2. CASE q # p
      <3>1. Exists(q)
        BY <1>4, <2>2
      <3>2. q \in Profiles
        BY <3>1 DEF Exists, Range, IInv, RowPart, RowTypes
      <3> QED BY <1>5, <2>2, <3>1, <3>2 DEF IInv, RowPart, NeverStalerThanLive, Exists
    <2> QED BY <2>1, <2>2
  <1>11. ExecsOK' /\ Holding' = Holding
    BY <1>1, <1>2, <1>4, ExecFrame DEF IInv, RowPart, JobPart
  <1>12. job[p] = "none" /\ made[p] = 0 /\ p \in Jobs
    BY <1>1 DEF IInv, JobPart, QueueOK, Jobs
  <1>13. QueueOK' /\ \A k \in Jobs : k # p => job'[k] = job[k]
    <2>1. CASE delivered
      <3>1. made[p] < MaxAttempts(p) /\ "waiting" \in JobStates \ {"none"}
        BY <1>12, AttemptsBounded DEF JobStates
      <3>2. job' = [job EXCEPT ![p] = "waiting"] /\ UNCHANGED made /\ stalls' \in [Jobs -> 0 .. MaxStalled]
        BY <1>1, <2>1 DEF IInv, JobPart, QueueOK
      <3> HIDE DEF Exists
      <3> QED BY <1>4, <1>12, <3>1, <3>2, MoveKeeps DEF IInv, JobPart
    <2>2. CASE ~ delivered
      BY <1>1, <1>4, <2>2 DEF IInv, JobPart, QueueOK, MaxAttempts
    <2> QED BY <2>1, <2>2
  <1>14. Attending'
    <2>1. \A e \in Holding : exec[e].job \in Jobs /\ exec[e].job # p
      BY <1>12 DEF IInv, JobPart, Attending, ExecsOK, Handlers, Holding, Attended
    <2> QED BY <1>1, <1>11, <1>13, <2>1 DEF IInv, JobPart, Attending
  <1> QED BY <1>7, <1>8, <1>9, <1>10, <1>11, <1>13, <1>14 DEF IInv, RowPart, JobPart

-----------------------------------------------------------------------------
(* The queue                                                               *)

\* A job that nobody attends to, or that is being taken, may change its state.
LEMMA UnattendedMoves ==
    ASSUME Attending, ExecsOK, NEW j \in Jobs, Holding' = Holding, UNCHANGED exec,
           \A k \in Jobs : k # j => job'[k] = job[k],
           \A e \in Holding : exec[e].job # j
    PROVE  Attending'
  BY DEF Attending, ExecsOK, Handlers, Holding, Attended

LEMMA SweepIsAJob == Sweep \in Jobs /\ Sweep \notin Profiles /\ Unknown \in Jobs /\ Unknown \notin Profiles
                     /\ Sweep # Unknown
  BY CapacityJobsAssumption DEF Jobs

LEMMA StartKeeps == ASSUME IInv, Start PROVE IInv'
  <1>1. /\ job' = [job EXCEPT ![Sweep] = IF @ = "none" THEN "waiting" ELSE @]
        /\ UNCHANGED <<clock, rows, made, stalls, exec>>
    BY DEF Start
  <1>2. \A p : Exists(p)' <=> Exists(p)
    BY <1>1 DEF rows, Exists
  <1>3. ExecsOK' /\ Holding' = Holding
    BY <1>1, <1>2, ExecFrame DEF IInv, RowPart, RowTypes, JobPart
  <1>4. CASE job[Sweep] = "none"
    <2>1. made[Sweep] < MaxAttempts(Sweep) /\ "waiting" \in JobStates \ {"none"}
      BY <1>4, SweepIsAJob, AttemptsBounded DEF IInv, JobPart, QueueOK, JobStates
    <2>2. job' = [job EXCEPT ![Sweep] = "waiting"] /\ UNCHANGED made /\ stalls' \in [Jobs -> 0 .. MaxStalled]
      BY <1>1, <1>4, SweepIsAJob DEF IInv, JobPart, QueueOK
    <2>3. QueueOK' /\ \A k \in Jobs : k # Sweep => job'[k] = job[k]
      BY <1>2, <2>1, <2>2, SweepIsAJob, MoveKeeps DEF IInv, JobPart
    <2>4. \A e \in Holding : exec[e].job # Sweep
      BY <1>4 DEF IInv, JobPart, Attending
    <2> QED BY <1>1, <1>3, <2>3, <2>4, SweepIsAJob, UnattendedMoves, RowFrame DEF IInv, JobPart
  <1>5. CASE job[Sweep] # "none"
    <2>1. job' = job
      BY <1>1, <1>5, SweepIsAJob DEF IInv, JobPart, QueueOK
    <2> QED BY <1>1, <2>1, ServiceKeeps DEF queue
  <1> QED BY <1>4, <1>5

LEMMA ScheduleSweepKeeps == ASSUME IInv, ScheduleSweep PROVE IInv'
  <1>1. /\ job[Sweep] \in {"completed", "failed"}
        /\ job' = [job EXCEPT ![Sweep] = "waiting"]
        /\ made' = [made EXCEPT ![Sweep] = 0]
        /\ stalls' = [stalls EXCEPT ![Sweep] = 0]
        /\ UNCHANGED <<clock, rows, exec>>
    BY DEF ScheduleSweep
  <1>2. \A p : Exists(p)' <=> Exists(p)
    BY <1>1 DEF rows, Exists
  <1>3. ExecsOK' /\ Holding' = Holding
    BY <1>1, <1>2, ExecFrame DEF IInv, RowPart, RowTypes, JobPart
  <1>4. /\ job' \in [Jobs -> JobStates] /\ job'[Sweep] = "waiting"
        /\ made' \in [Jobs -> 0 .. Attempts] /\ made'[Sweep] = 0
        /\ stalls' \in [Jobs -> 0 .. MaxStalled]
        /\ \A k \in Jobs : k # Sweep => job'[k] = job[k] /\ made'[k] = made[k]
    BY <1>1, CapacityJobsAssumption, SweepIsAJob DEF IInv, JobPart, QueueOK, JobStates
  <1>5. QueueOK'
    <2> SUFFICES ASSUME NEW k \in Jobs
                 PROVE  /\ job'[k] = "none" => made'[k] = 0
                        /\ job'[k] \in {"waiting", "active"} => made'[k] < MaxAttempts(k)
                        /\ job'[k] # "none" /\ k \in Profiles => Exists(k)
      BY <1>2, <1>4 DEF QueueOK, MaxAttempts
    <2>1. CASE k = Sweep
      BY <1>4, <2>1, SweepIsAJob, AttemptsBounded
    <2>2. CASE k # Sweep
      BY <1>4, <2>2 DEF IInv, JobPart, QueueOK
    <2> QED BY <2>1, <2>2
  <1>6. \A e \in Holding : exec[e].job # Sweep
    BY <1>1 DEF IInv, JobPart, Attending
  <1> QED BY <1>1, <1>3, <1>4, <1>5, <1>6, SweepIsAJob, UnattendedMoves, RowFrame DEF IInv, JobPart

LEMMA TakeUnknownKeeps == ASSUME IInv, NEW j \in Jobs, TakeUnknown(j) PROVE IInv'
  <1>1. job[j] = "waiting" /\ Fail(j, TRUE) /\ UNCHANGED <<clock, rows, exec>>
    BY DEF TakeUnknown, CanTake
  <1>2. \A p : Exists(p)' <=> Exists(p)
    BY <1>1 DEF rows, Exists
  <1>3. ExecsOK' /\ Holding' = Holding
    BY <1>1, <1>2, ExecFrame DEF IInv, RowPart, RowTypes, JobPart
  <1>4. QueueOK' /\ \A k \in Jobs : k # j => job'[k] = job[k]
    BY <1>1, FailKeeps DEF IInv, JobPart, rows
  <1>5. \A e \in Holding : exec[e].job # j
    BY <1>1 DEF IInv, JobPart, Attending
  <1> QED BY <1>1, <1>3, <1>4, <1>5, UnattendedMoves, RowFrame DEF IInv, JobPart

LEMMA StalledKeeps == ASSUME IInv, NEW j \in Jobs, Stalled(j) PROVE IInv'
  <1>1. /\ job[j] = "active"
        /\ \A e \in Holding : exec[e].job # j
        /\ UNCHANGED <<clock, rows, made, exec>>
    BY DEF Stalled, LockExpired
  <1>2. \A p : Exists(p)' <=> Exists(p)
    BY <1>1 DEF rows, Exists
  <1>3. ExecsOK' /\ Holding' = Holding
    BY <1>1, <1>2, ExecFrame DEF IInv, RowPart, RowTypes, JobPart
  <1>4. made[j] < MaxAttempts(j) /\ (j \in Profiles => Exists(j)) /\ stalls \in [Jobs -> 0 .. MaxStalled]
    BY <1>1 DEF IInv, JobPart, QueueOK
  <1>5. \E state \in {"waiting", "failed"} : job' = [job EXCEPT ![j] = state]
    BY DEF Stalled
  <1>6. stalls' \in [Jobs -> 0 .. MaxStalled]
    <2>1. CASE stalls[j] < MaxStalled /\ stalls' = [stalls EXCEPT ![j] = @ + 1]
      BY <1>4, <2>1, CapacityJobsAssumption
    <2>2. CASE UNCHANGED stalls
      BY <1>4, <2>2
    <2> QED BY <2>1, <2>2 DEF Stalled
  <1>7. QueueOK' /\ \A k \in Jobs : k # j => job'[k] = job[k]
    <2>1. {"waiting", "failed"} \subseteq JobStates \ {"none"}
      BY DEF JobStates
    <2> QED BY <1>1, <1>2, <1>4, <1>5, <1>6, <2>1, MoveKeeps DEF IInv, JobPart
  <1> QED BY <1>1, <1>3, <1>7, UnattendedMoves, RowFrame DEF IInv, JobPart

\* A handler starts: the job was waiting, so nobody attended to it.
LEMMA TakeKeeps == ASSUME IInv, NEW j \in Jobs, Take(j) PROVE IInv'
  <1>1. /\ job[j] = "waiting" /\ j # Unknown /\ job' = [job EXCEPT ![j] = "active"]
        /\ UNCHANGED <<clock, rows, made, stalls>>
    BY DEF Take, CanTake
  <1>2. PICK e \in Execs : /\ ~ Running(e)
                           /\ exec' = [exec EXCEPT ![e] = [Idle EXCEPT !.job = j, !.stage = "read", !.now = clock,
                                                                   !.locked = TRUE]]
    BY DEF Take
  <1>3. \A p : Exists(p)' <=> Exists(p)
    BY <1>1 DEF rows, Exists
  <1> DEFINE h == [Idle EXCEPT !.job = j, !.stage = "read", !.now = clock, !.locked = TRUE]
  <1>4. /\ h \in Handlers /\ h.job = j /\ h.stage = "read" /\ h.now = clock /\ h.todo = <<>>
        /\ h.abandoned = FALSE /\ h.locked = TRUE
    <2> DEFINE h1 == [Idle EXCEPT !.job = j]
               h2 == [h1 EXCEPT !.stage = "read"]
               h3 == [h2 EXCEPT !.now = clock]
    <2>1. h1 \in Handlers /\ h1.job = j /\ h1.todo = <<>> /\ h1.abandoned = FALSE
      BY IdleHandler DEF Handlers
    <2>2. h2 \in Handlers /\ h2.job = j /\ h2.stage = "read" /\ h2.todo = <<>> /\ h2.abandoned = FALSE
      <3> HIDE DEF h1
      <3> QED BY <2>1 DEF Handlers
    <2>3. /\ h3 \in Handlers /\ h3.job = j /\ h3.stage = "read" /\ h3.now = clock
          /\ h3.todo = <<>> /\ h3.abandoned = FALSE
      <3>1. clock \in 0 .. MaxTime
        BY DEF IInv, RowPart, RowTypes
      <3> HIDE DEF h1, h2
      <3> QED BY <2>2, <3>1 DEF Handlers
    <2>4. h = [h3 EXCEPT !.locked = TRUE]
      OBVIOUS
    <2> HIDE DEF h, h1, h2, h3
    <2> QED BY <2>3, <2>4 DEF Handlers
  <1>5. exec' = [exec EXCEPT ![e] = h]
    BY <1>2
  <1> HIDE DEF h
  <1>6. exec' \in [Execs -> Handlers] /\ exec'[e] = h /\ \A d \in Execs : d # e => exec'[d] = exec[d]
    BY <1>4, <1>5 DEF IInv, JobPart, ExecsOK
  <1>7. made[j] < MaxAttempts(j) /\ "active" \in JobStates \ {"none"} /\ (j \in Profiles => Exists(j))
        /\ stalls \in [Jobs -> 0 .. MaxStalled]
    BY <1>1 DEF IInv, JobPart, QueueOK, JobStates
  <1>8. QueueOK' /\ job'[j] = "active" /\ \A k \in Jobs : k # j => job'[k] = job[k]
    BY <1>1, <1>3, <1>7, MoveKeeps DEF IInv, JobPart
  <1>9. ExecsOK'
    <2> SUFFICES ASSUME NEW d \in Execs
                 PROVE  /\ exec'[d].now <= clock
                        /\ exec'[d].stage # "idle" => exec'[d].job # Unknown
                                                     /\ (exec'[d].job \in Profiles => Exists(exec'[d].job))
                        /\ \A i \in 1 .. Len(exec'[d].todo) : Exists(exec'[d].todo[i])
      BY <1>1, <1>3, <1>6 DEF ExecsOK, Running
    <2>1. CASE d = e
      <3>1. clock \in Nat
        BY DEF IInv, RowPart, RowTypes
      <3> QED BY <1>1, <1>4, <1>6, <1>7, <2>1, <3>1
    <2>2. CASE d # e
      BY <1>6, <2>2 DEF IInv, JobPart, ExecsOK, Running
    <2> QED BY <2>1, <2>2
  <1>10. Attending'
    <2>1. \A d \in Execs : d \in Holding' <=> d = e \/ d \in Holding
      BY <1>2, <1>4, <1>6 DEF Holding, Attended, Running
    <2>2. e \notin Holding
      BY <1>2 DEF Holding, Attended
    <2>3. \A d \in Holding : exec[d].job \in Jobs /\ exec[d].job # j
      BY <1>1 DEF IInv, JobPart, Attending, ExecsOK, Handlers, Holding, Attended
    <2>4. Holding \subseteq Execs /\ Holding' \subseteq Execs
      BY DEF Holding, Attended
    <2>5. \A d \in Holding' : job'[exec'[d].job] = "active"
      BY <1>4, <1>6, <1>8, <2>1, <2>2, <2>3, <2>4 DEF IInv, JobPart, Attending
    <2>6. \A c, d \in Holding' : exec'[c].job = exec'[d].job => c = d
      BY <1>4, <1>6, <2>1, <2>2, <2>3, <2>4 DEF IInv, JobPart, Attending
    <2> QED BY <2>5, <2>6 DEF Attending
  <1> QED BY <1>1, <1>8, <1>9, <1>10, RowFrame DEF IInv, JobPart

\* A handler lets go of its job, and runs on with what it was given.
LEMMA LetGoKeeps ==
    ASSUME IInv, NEW e \in Execs, NEW h \in Handlers, exec' = [exec EXCEPT ![e] = h], UNCHANGED <<clock, rows>>,
           h.job = exec[e].job, h.stage = exec[e].stage, h.now = exec[e].now, h.todo = exec[e].todo,
           h.abandoned \/ ~ h.locked,
           QueueOK', \A k \in Jobs : job'[k] = job[k] \/ (e \in Holding /\ k = exec[e].job)
    PROVE  IInv'
  <1>1. \A p : Exists(p)' <=> Exists(p)
    BY DEF rows, Exists
  <1>2. /\ exec' \in [Execs -> Handlers] /\ exec'[e] = h
        /\ \A d \in Execs : d # e => exec'[d] = exec[d]
    BY DEF IInv, JobPart, ExecsOK
  <1>3. \A d \in Execs : /\ exec'[d].job = exec[d].job /\ exec'[d].stage = exec[d].stage
                         /\ exec'[d].now = exec[d].now /\ exec'[d].todo = exec[d].todo
    BY <1>2
  <1>4. ExecsOK'
    BY <1>1, <1>2, <1>3 DEF IInv, JobPart, ExecsOK, Running
  <1>5. \A d \in Execs : d \in Holding' <=> d \in Holding /\ d # e
    <2>1. e \notin Holding'
      BY <1>2 DEF Holding, Attended
    <2>2. \A d \in Execs : d # e => (d \in Holding' <=> d \in Holding)
      BY <1>2 DEF Holding, Attended, Running
    <2> QED BY <2>1, <2>2
  <1>6. \A d \in Holding' : d \in Execs /\ d \in Holding /\ d # e
    BY <1>5 DEF Holding, Attended
  <1>7. \A d \in Holding' : exec[d].job \in Jobs /\ (e \in Holding => exec[d].job # exec[e].job)
    BY <1>6 DEF IInv, JobPart, Attending, ExecsOK, Handlers
  <1>8. Attending'
    BY <1>3, <1>6, <1>7 DEF IInv, JobPart, Attending
  <1> QED BY <1>4, <1>8, RowFrame DEF IInv, JobPart

\* A handler that fails: its job moves if it still held it, and nothing else does.
LEMMA SettleFails ==
    ASSUME IInv, NEW e \in Execs, Settle(e, Fail(exec[e].job, FALSE)), UNCHANGED rows
    PROVE  QueueOK' /\ \A k \in Jobs : job'[k] = job[k] \/ (e \in Holding /\ k = exec[e].job)
  <1>1. \A p : Exists(p)' <=> Exists(p)
    BY DEF rows, Exists
  <1>2. CASE e \in Holding
    <2>1. Fail(exec[e].job, FALSE)
      BY <1>2 DEF Settle, Holding
    <2>2. exec[e].job \in Jobs /\ job[exec[e].job] = "active"
      BY <1>2 DEF IInv, JobPart, ExecsOK, Handlers, Attending
    <2> QED BY <1>2, <2>1, <2>2, FailKeeps DEF IInv, JobPart, rows
  <1>3. CASE e \notin Holding
    <2>1. UNCHANGED <<job, made, stalls>>
      BY <1>3 DEF Settle, queue
    <2> QED BY <1>1, <2>1 DEF IInv, JobPart, QueueOK, MaxAttempts
  <1> QED BY <1>2, <1>3

\* The worker gives the attempt up, and the handler runs on.
LEMMA TimeoutKeeps == ASSUME IInv, NEW e \in Execs, Timeout(e) PROVE IInv'
  <1> DEFINE h == [exec[e] EXCEPT !.abandoned = TRUE]
  <1>1. /\ exec' = [exec EXCEPT ![e] = h] /\ UNCHANGED <<clock, rows>>
        /\ Settle(e, Fail(exec[e].job, FALSE))
    BY DEF Timeout
  <1>2. exec[e] \in Handlers
    BY DEF IInv, JobPart, ExecsOK
  <1>3. /\ h \in Handlers /\ h.abandoned
        /\ h.job = exec[e].job /\ h.stage = exec[e].stage /\ h.now = exec[e].now /\ h.todo = exec[e].todo
    BY <1>2 DEF Handlers
  <1> HIDE DEF h
  <1> QED BY <1>1, <1>3, SettleFails, LetGoKeeps

\* Nobody renews the lock, and the queue stays as it is.
LEMMA LoseLockKeeps == ASSUME IInv, NEW e \in Execs, LoseLock(e) PROVE IInv'
  <1> DEFINE h == [exec[e] EXCEPT !.locked = FALSE]
  <1>1. exec' = [exec EXCEPT ![e] = h] /\ UNCHANGED <<clock, rows, queue>>
    BY DEF LoseLock
  <1>2. exec[e] \in Handlers
    BY DEF IInv, JobPart, ExecsOK
  <1>3. /\ h \in Handlers /\ ~ h.locked
        /\ h.job = exec[e].job /\ h.stage = exec[e].stage /\ h.now = exec[e].now /\ h.todo = exec[e].todo
    BY <1>2 DEF Handlers
  <1> HIDE DEF h
  <1>4. QueueOK' /\ \A k \in Jobs : job'[k] = job[k]
    BY <1>1 DEF IInv, JobPart, QueueOK, queue, rows, Exists, MaxAttempts
  <1> QED BY <1>1, <1>3, <1>4, LetGoKeeps

-----------------------------------------------------------------------------
(* The handler                                                             *)

\* A handler moves on within its job.
LEMMA StageKeeps ==
    ASSUME IInv, NEW e \in Execs, Running(e), NEW stage \in {"read", "write"}, NEW todo \in Seq(Profiles),
           exec' = [exec EXCEPT ![e] = [exec[e] EXCEPT !.stage = stage, !.todo = todo]],
           \A i \in 1 .. Len(todo) : Exists(todo[i]),
           UNCHANGED <<clock, order, queue>>
    PROVE  JobPart'
  <1>1. \A p : Exists(p)' <=> Exists(p)
    BY DEF Exists
  <1>2. /\ exec' \in [Execs -> Handlers]
        /\ exec'[e] = [exec[e] EXCEPT !.stage = stage, !.todo = todo]
        /\ \A d \in Execs : d # e => exec'[d] = exec[d]
    BY DEF IInv, JobPart, ExecsOK, Handlers
  <1>3. /\ exec'[e].stage = stage /\ exec'[e].todo = todo
        /\ \A d \in Execs : /\ exec'[d].job = exec[d].job /\ exec'[d].now = exec[d].now
                            /\ exec'[d].abandoned = exec[d].abandoned /\ exec'[d].locked = exec[d].locked
    BY <1>2 DEF IInv, JobPart, ExecsOK, Handlers
  <1>4. \A d \in Execs : Running(d)' <=> Running(d)
    BY <1>2, <1>3 DEF Running
  <1>5. ExecsOK'
    <2>1. \A d \in Execs : \A i \in 1 .. Len(exec'[d].todo) : Exists(exec'[d].todo[i])
      BY <1>2, <1>3 DEF IInv, JobPart, ExecsOK
    <2> QED BY <1>1, <1>2, <1>3, <1>4, <2>1 DEF IInv, JobPart, ExecsOK
  <1>6. Holding' = Holding
    BY <1>3, <1>4 DEF Holding, Attended
  <1>7. Attending'
    BY <1>3, <1>6 DEF IInv, JobPart, Attending, queue, Holding, Attended
  <1>8. QueueOK'
    BY <1>1 DEF IInv, JobPart, QueueOK, queue, MaxAttempts
  <1> QED BY <1>5, <1>7, <1>8 DEF JobPart

\* What is read exists: the page of the sweep, or the profile of the job.
LEMMA ReadKeeps == ASSUME IInv, NEW e \in Execs, Read(e) PROVE IInv'
  <1> DEFINE todo == IF exec[e].job = Sweep THEN Newest(SweepLimit) ELSE <<exec[e].job>>
  <1>1. /\ exec[e].stage = "read" /\ UNCHANGED <<clock, rows, queue>>
        /\ exec' = [exec EXCEPT ![e].stage = "write", ![e].todo = todo]
    BY DEF Read
  <1>2. Running(e)
    BY <1>1 DEF Running
  <1>3. todo \in Seq(Profiles) /\ \A i \in 1 .. Len(todo) : Exists(todo[i])
    <2>1. CASE exec[e].job = Sweep
      BY <2>1, NewestExist, CapacityJobsAssumption DEF IInv, RowPart, RowTypes
    <2>2. CASE exec[e].job # Sweep
      <3>1. exec[e].job \in Profiles /\ Exists(exec[e].job)
        BY <1>2, <2>2 DEF IInv, JobPart, ExecsOK, Handlers, Jobs
      <3>2. todo = <<exec[e].job>>
        BY <2>2
      <3> HIDE DEF todo
      <3> QED BY <3>1, <3>2
    <2> QED BY <2>1, <2>2
  <1> HIDE DEF todo
  <1>4. exec' = [exec EXCEPT ![e] = [exec[e] EXCEPT !.stage = "write", !.todo = todo]]
    BY <1>1 DEF IInv, JobPart, ExecsOK, Handlers
  <1>5. JobPart'
    BY <1>1, <1>2, <1>3, <1>4, StageKeeps DEF rows
  <1> QED BY <1>1, <1>5, RowFrame DEF IInv

\* recomputeOne: a class that is entered was not entered before, and is no staler
\* than the clock says, because the handler's reading lies in the past.
LEMMA RecomputeOneKeeps ==
    ASSUME RowPart, NEW p \in Profiles, Exists(p), NEW now \in Nat, now <= clock, UNCHANGED clock,
           RecomputeOne(p, now)
    PROVE  RowPart'
  <1> DEFINE class == Classify(asOf[p], now)
             skip == class = cached[p] \/ Key(p, class) \in keys
  <1>1. /\ cached' = IF skip THEN cached ELSE [cached EXCEPT ![p] = class]
        /\ log' = IF skip THEN log ELSE [log EXCEPT ![p] = Append(log[p], <<cached[p], class>>)]
        /\ keys' = IF skip THEN keys ELSE keys \cup {Key(p, class)}
        /\ UNCHANGED <<order, asOf>>
    BY DEF RecomputeOne
  <1>2. clock \in Nat /\ asOf[p] \in Nat
    BY DEF RowPart, RowTypes
  <1>3. class \in Classes /\ Rank(class) <= Rank(Classify(asOf[p], clock))
    BY <1>2, ClassifyMonotone
  <1>4. CASE skip
    BY <1>1, <1>4, RowFrame DEF rows
  <1>5. CASE ~ skip
    <2> DEFINE n == Len(log[p])
    <2>1. log[p] \in Seq(Classes \X Classes) /\ cached[p] \in Classes
      <3>1. log[p] \in Seq(Classes \X Classes)
        BY DEF RowPart, RowTypes
      <3>2. cached[p] = IF n = 0 THEN "FRESH" ELSE log[p][n][2]
        BY DEF RowPart, LogChain
      <3>3. n # 0 => log[p][n] \in Classes \X Classes
        BY <3>1
      <3> QED BY <3>1, <3>2, <3>3 DEF Classes
    <2>2. <<cached[p], class>> \in Classes \X Classes /\ Key(p, class) \notin keys
      BY <1>3, <1>5, <2>1
    <2> HIDE DEF class
    <2>3. /\ log'[p] = Append(log[p], <<cached[p], class>>)
          /\ log' \in [Profiles -> Seq(Classes \X Classes)]
          /\ cached' \in [Profiles -> Classes \cup {"UNKNOWN"}] /\ cached'[p] = class
          /\ keys' = keys \cup {<<p, asOf[p], class>>}
          /\ \A q \in Profiles : q # p => log'[q] = log[q] /\ cached'[q] = cached[q]
      BY <1>1, <1>3, <1>5, <2>1, <2>2 DEF RowPart, RowTypes, Key
    <2>4. /\ n \in Nat /\ Len(log'[p]) = n + 1
          /\ log'[p][n + 1] = <<cached[p], class>>
          /\ \A i \in 1 .. n : log'[p][i] = log[p][i]
      BY <2>1, <2>2, <2>3, AppendProperties
    <2> HIDE DEF n
    <2>5. \A i \in 1 .. n : log[p][i][2] # class
      BY <2>2 DEF n, RowPart, KeysSpent, Key
    <2>6. \A q : Exists(q)' <=> Exists(q)
      BY <1>1 DEF Exists
    <2>7. RowTypes'
      BY <1>1, <2>3 DEF RowPart, RowTypes
    <2>8. KeysSpent'
      <3> SUFFICES ASSUME NEW q \in Profiles
                   PROVE  /\ ~ Exists(q) => log'[q] = <<>>
                          /\ \A i \in 1 .. Len(log'[q]) : <<q, asOf[q], log'[q][i][2]>> \in keys'
        BY <1>1, <2>6 DEF KeysSpent
      <3>1. CASE q = p
        <4>1. \A i \in 1 .. n : <<p, asOf[p], log[p][i][2]>> \in keys
          BY DEF n, RowPart, KeysSpent
        <4>2. log'[p][n + 1][2] = class
          BY <2>4
        <4>3. ASSUME NEW i \in 1 .. n + 1 PROVE <<p, asOf[p], log'[p][i][2]>> \in keys'
          <5>1. CASE i = n + 1
            BY <2>3, <4>2, <5>1
          <5>2. CASE i \in 1 .. n
            BY <2>3, <2>4, <4>1, <5>2
          <5> QED BY <2>4, <5>1, <5>2
        <4> QED BY <2>4, <3>1, <4>3
      <3>2. CASE q # p
        BY <2>3, <3>2 DEF RowPart, KeysSpent
      <3> QED BY <3>1, <3>2
    <2>9. LogChain'
      <3> SUFFICES ASSUME NEW q \in Profiles
                   PROVE  /\ \A i, k \in 1 .. Len(log'[q]) : log'[q][i][2] = log'[q][k][2] => i = k
                          /\ \A i \in 1 .. Len(log'[q]) :
                                log'[q][i][1] = IF i = 1 THEN "FRESH" ELSE log'[q][i - 1][2]
                          /\ Exists(q) => cached'[q] = IF Len(log'[q]) = 0 THEN "FRESH" ELSE log'[q][Len(log'[q])][2]
        BY <2>6 DEF LogChain
      <3>1. CASE q = p
        <4>1. log'[p][n + 1][1] = cached[p] /\ log'[p][n + 1][2] = class
          BY <2>4
        <4>2. /\ \A i, k \in 1 .. n : log[p][i][2] = log[p][k][2] => i = k
              /\ \A i \in 1 .. n : log[p][i][1] = IF i = 1 THEN "FRESH" ELSE log[p][i - 1][2]
              /\ cached[p] = IF n = 0 THEN "FRESH" ELSE log[p][n][2]
          BY DEF n, RowPart, LogChain
        <4>3. \A i, k \in 1 .. n + 1 : log'[p][i][2] = log'[p][k][2] => i = k
          <5>1. \A i \in 1 .. n + 1 : i = n + 1 \/ i \in 1 .. n
            BY <2>4
          <5> SUFFICES ASSUME NEW i \in 1 .. n + 1, NEW k \in 1 .. n + 1, log'[p][i][2] = log'[p][k][2]
                       PROVE  i = k
            OBVIOUS
          <5>2. CASE i \in 1 .. n /\ k \in 1 .. n
            BY <2>4, <4>2, <5>2
          <5>3. CASE i \in 1 .. n /\ k = n + 1
            BY <2>4, <2>5, <4>1, <5>3
          <5>4. CASE i = n + 1 /\ k \in 1 .. n
            BY <2>4, <2>5, <4>1, <5>4
          <5> QED BY <5>1, <5>2, <5>3, <5>4
        <4>4. \A i \in 1 .. n + 1 : log'[p][i][1] = IF i = 1 THEN "FRESH" ELSE log'[p][i - 1][2]
          <5> SUFFICES ASSUME NEW i \in 1 .. n + 1
                       PROVE  log'[p][i][1] = IF i = 1 THEN "FRESH" ELSE log'[p][i - 1][2]
            OBVIOUS
          <5>1. i = n + 1 \/ i \in 1 .. n
            BY <2>4
          <5>2. i # 1 => i - 1 \in 1 .. n
            BY <2>4
          <5>3. i # 1 => log'[p][i - 1] = log[p][i - 1]
            BY <2>4, <5>2
          <5>4. CASE i \in 1 .. n
            BY <2>4, <4>2, <5>3, <5>4
          <5>5. CASE i = n + 1
            <6>1. log'[p][i][1] = cached[p]
              BY <4>1, <5>5
            <6>2. CASE n = 0
              BY <4>2, <5>5, <6>1, <6>2
            <6>3. CASE n # 0
              <7>1. i # 1 /\ i - 1 = n
                BY <2>4, <5>5, <6>3
              <7>2. log'[p][i - 1][2] = log[p][n][2]
                BY <5>3, <7>1
              <7> QED BY <4>2, <6>1, <6>3, <7>1, <7>2
            <6> QED BY <6>2, <6>3
          <5> QED BY <5>1, <5>4, <5>5
        <4>5. cached'[p] = log'[p][n + 1][2]
          BY <2>3, <4>1
        <4>6. n + 1 # 0
          BY <2>4
        <4>7. Len(log'[q]) = n + 1
          BY <2>4, <3>1
        <4>8. cached'[q] = IF Len(log'[q]) = 0 THEN "FRESH" ELSE log'[q][Len(log'[q])][2]
          BY <3>1, <4>5, <4>6, <4>7
        <4>9. /\ \A i, k \in 1 .. Len(log'[q]) : log'[q][i][2] = log'[q][k][2] => i = k
              /\ \A i \in 1 .. Len(log'[q]) :
                    log'[q][i][1] = IF i = 1 THEN "FRESH" ELSE log'[q][i - 1][2]
          BY <3>1, <4>3, <4>4, <4>7, ZenonT(60)
        <4> QED BY <4>8, <4>9
      <3>2. CASE q # p
        <4>1. log'[q] = log[q] /\ cached'[q] = cached[q]
          BY <2>3, <3>2
        <4>2. /\ \A i, k \in 1 .. Len(log[q]) : log[q][i][2] = log[q][k][2] => i = k
              /\ \A i \in 1 .. Len(log[q]) :
                    log[q][i][1] = IF i = 1 THEN "FRESH" ELSE log[q][i - 1][2]
              /\ Exists(q) => cached[q] = IF Len(log[q]) = 0 THEN "FRESH" ELSE log[q][Len(log[q])][2]
          BY DEF RowPart, LogChain
        <4> QED BY <4>1, <4>2, ZenonT(60)
      <3> QED BY <3>1, <3>2
    <2>10. NeverStalerThanLive'
      <3> SUFFICES ASSUME NEW q, Exists(q)
                   PROVE  Rank(cached'[q]) <= Rank(Classify(asOf[q], clock))
        BY <1>1 DEF NeverStalerThanLive, Exists, Classify
      <3>1. q \in Profiles
        BY DEF Exists, Range, RowPart, RowTypes
      <3> QED BY <1>3, <2>3, <3>1 DEF RowPart, NeverStalerThanLive, Exists
    <2> QED BY <2>7, <2>8, <2>9, <2>10 DEF RowPart
  <1> QED BY <1>4, <1>5

LEMMA RecomputeKeeps == ASSUME IInv, NEW e \in Execs, Recompute(e) PROVE IInv'
  <1>1. /\ exec[e].stage = "write" /\ exec[e].todo # <<>>
        /\ RecomputeOne(Head(exec[e].todo), exec[e].now)
        /\ exec' = [exec EXCEPT ![e].todo = Tail(exec[e].todo)]
        /\ UNCHANGED <<clock, queue>>
    BY DEF Recompute
  <1>2. /\ exec[e] \in Handlers /\ exec[e].todo \in Seq(Profiles) /\ exec[e].now \in Nat /\ exec[e].now <= clock
        /\ \A i \in 1 .. Len(exec[e].todo) : Exists(exec[e].todo[i])
    BY DEF IInv, JobPart, ExecsOK, Handlers
  <1> DEFINE todo == exec[e].todo
             rest == Tail(todo)
  <1>3. /\ Head(todo) \in Profiles /\ Head(todo) = todo[1] /\ Len(todo) \in Nat \ {0}
        /\ rest \in Seq(Profiles) /\ Len(rest) = Len(todo) - 1
        /\ \A i \in 1 .. Len(rest) : rest[i] = todo[i + 1]
    BY <1>1, <1>2, HeadTailProperties
  <1>4. Exists(Head(todo)) /\ \A i \in 1 .. Len(rest) : Exists(rest[i])
    BY <1>2, <1>3
  <1>5. RowPart'
    BY <1>1, <1>2, <1>3, <1>4, RecomputeOneKeeps DEF IInv
  <1>6. Running(e) /\ UNCHANGED order
    BY <1>1 DEF Running, RecomputeOne
  <1> HIDE DEF todo, rest
  <1>7. exec' = [exec EXCEPT ![e] = [exec[e] EXCEPT !.stage = "write", !.todo = rest]]
    <2>1. exec' = [exec EXCEPT ![e] = [exec[e] EXCEPT !.todo = rest]]
      BY <1>1 DEF todo, rest
    <2>2. [exec[e] EXCEPT !.stage = "write", !.todo = rest] = [exec[e] EXCEPT !.todo = rest]
      BY <1>1, <1>2 DEF Handlers
    <2> QED BY <2>1, <2>2
  <1>8. JobPart'
    BY <1>1, <1>3, <1>4, <1>6, <1>7, StageKeeps
  <1> QED BY <1>5, <1>8 DEF IInv

\* The handler's end and the queue: a job that is held has one handler, which is gone.
LEMMA EndKeeps ==
    ASSUME IInv, NEW e \in Execs, exec' = [exec EXCEPT ![e] = Idle], UNCHANGED <<clock, rows>>, QueueOK',
           \A k \in Jobs : job'[k] = job[k] \/ (e \in Holding /\ k = exec[e].job)
    PROVE  IInv'
  <1>1. /\ ExecsOK' /\ Holding' = Holding \ {e}
        /\ \A d \in Holding' : exec'[d] = exec[d]
    BY HandlerEnds DEF IInv, RowPart, JobPart, rows
  <1>2. \A d \in Holding' : d \in Holding /\ d # e /\ exec[d].job \in Jobs
    BY <1>1 DEF IInv, JobPart, ExecsOK, Handlers, Holding, Attended
  <1>3. e \in Holding => \A d \in Holding' : exec[d].job # exec[e].job
    BY <1>2 DEF IInv, JobPart, Attending
  <1>4. \A d \in Holding' : job'[exec'[d].job] = "active"
    BY <1>1, <1>2, <1>3 DEF IInv, JobPart, Attending
  <1>5. Attending'
    BY <1>1, <1>2, <1>4 DEF IInv, JobPart, Attending
  <1> QED BY <1>1, <1>5, RowFrame DEF IInv, JobPart

LEMMA ThrowKeeps == ASSUME IInv, NEW e \in Execs, Throw(e) PROVE IInv'
  <1>1. /\ exec' = [exec EXCEPT ![e] = Idle] /\ UNCHANGED <<clock, rows>>
        /\ Settle(e, Fail(exec[e].job, FALSE))
    BY DEF Throw
  <1> QED BY <1>1, SettleFails, EndKeeps

LEMMA FinishKeeps == ASSUME IInv, NEW e \in Execs, Finish(e) PROVE IInv'
  <1>1. /\ exec[e].stage = "write" /\ exec' = [exec EXCEPT ![e] = Idle] /\ UNCHANGED <<clock, rows>>
        /\ Settle(e, job' = [job EXCEPT ![exec[e].job] = "completed"] /\ UNCHANGED <<made, stalls>>)
    BY DEF Finish
  <1>2. \A p : Exists(p)' <=> Exists(p)
    BY <1>1 DEF rows, Exists
  <1>3. CASE e \in Holding
    <2>1. job' = [job EXCEPT ![exec[e].job] = "completed"] /\ UNCHANGED <<made, stalls>>
      BY <1>1, <1>3 DEF Settle, Holding
    <2>2. exec[e].job \in Jobs /\ job[exec[e].job] = "active"
      BY <1>3 DEF IInv, JobPart, ExecsOK, Handlers, Attending
    <2>3. (exec[e].job \in Profiles => Exists(exec[e].job)) /\ stalls \in [Jobs -> 0 .. MaxStalled]
      BY <2>2 DEF IInv, JobPart, QueueOK
    <2>4. "completed" \in JobStates \ {"none"}
      BY DEF JobStates
    <2>5. QueueOK' /\ \A k \in Jobs : k # exec[e].job => job'[k] = job[k]
      BY <1>2, <2>1, <2>2, <2>3, <2>4, MoveKeeps DEF IInv, JobPart
    <2> QED BY <1>1, <1>3, <2>5, EndKeeps
  <1>4. CASE e \notin Holding
    <2>1. UNCHANGED <<job, made, stalls>>
      BY <1>1, <1>4 DEF Settle, queue
    <2>2. QueueOK'
      BY <1>2, <2>1 DEF IInv, JobPart, QueueOK, MaxAttempts
    <2> QED BY <1>1, <2>1, <2>2, EndKeeps
  <1> QED BY <1>3, <1>4

-----------------------------------------------------------------------------
(* The invariant                                                           *)

LEMMA InitIInv == Init => IInv
  <1> SUFFICES ASSUME Init PROVE IInv
    OBVIOUS
  <1>1. order \in Seq(Seeded) /\ Seeded \subseteq Profiles
    BY SeededOrder, CapacityJobsAssumption DEF Init
  <1>2. order \in Seq(Profiles)
    BY <1>1
  <1>3. \A p : Exists(p) => p \in Seeded /\ p \in Profiles
    BY <1>1 DEF Exists, Range
  <1>4. RowTypes
    BY <1>2, CapacityJobsAssumption DEF Init, RowTypes, Classes
  <1>5. KeysSpent /\ LogChain
    BY <1>3 DEF Init, KeysSpent, LogChain
  <1>6. NeverStalerThanLive
    <2>1. Classify(0, 0) = "FRESH"
      BY CapacityJobsAssumption DEF Classify
    <2>2. \A p : Exists(p) => cached[p] = "FRESH" /\ asOf[p] = 0
      BY <1>3 DEF Init
    <2> QED BY <2>1, <2>2 DEF Init, NeverStalerThanLive, Exists, Rank
  <1>7. ExecsOK /\ Holding = {}
    <2>1. \A e \in Execs : exec[e] = Idle
      BY DEF Init
    <2>2. \A e \in Execs : ~ Running(e) /\ exec[e].now = 0 /\ Len(exec[e].todo) = 0
      BY <2>1, IdleHandler DEF Running
    <2>3. exec \in [Execs -> Handlers] /\ clock = 0
      BY IdleHandler DEF Init
    <2> QED BY <2>2, <2>3 DEF ExecsOK, Holding, Attended
  <1>8. QueueOK
    <2>1. PICK left \in SUBSET {Sweep} :
            /\ job = [j \in Jobs |-> IF j \in left \cup {Unknown} THEN "waiting" ELSE "none"]
            /\ stalls = [j \in Jobs |-> IF j \in left THEN MaxStalled ELSE 0]
      BY DEF Init
    <2>2. \A j \in Jobs : /\ made[j] = 0 /\ made[j] < MaxAttempts(j)
                          /\ job[j] = IF j \in left \cup {Unknown} THEN "waiting" ELSE "none"
      BY <2>1, AttemptsBounded DEF Init
    <2>3. job \in [Jobs -> JobStates] /\ made \in [Jobs -> 0 .. Attempts] /\ stalls \in [Jobs -> 0 .. MaxStalled]
      BY <2>1, CapacityJobsAssumption DEF Init, JobStates
    <2> QED BY <2>2, <2>3, SweepIsAJob DEF QueueOK
  <1>9. Attending
    BY <1>7 DEF Attending
  <1> QED BY <1>4, <1>5, <1>6, <1>7, <1>8, <1>9 DEF IInv, RowPart, JobPart

LEMMA NextIInv == IInv /\ [Next]_vars => IInv'
  <1> SUFFICES ASSUME IInv, [Next]_vars PROVE IInv'
    OBVIOUS
  <1>1. CASE UNCHANGED vars
    BY <1>1, ServiceKeeps DEF vars
  <1>2. ASSUME NEW s \in Services, Outage(s) \/ Recover(s) PROVE IInv'
    BY <1>2, ServiceKeeps DEF Outage, Recover
  <1> QED BY <1>1, <1>2, TickKeeps, CrashKeeps, StartKeeps, ScheduleSweepKeeps, CreateKeeps, TakeUnknownKeeps,
          TakeKeeps, StalledKeeps, LoseLockKeeps, TimeoutKeeps, ReadKeeps, RecomputeKeeps, ThrowKeeps, FinishKeeps DEF Next

LEMMA IInvImplies == IInv => FreshnessIsSound
  <1> SUFFICES ASSUME IInv PROVE FreshnessIsSound
    OBVIOUS
  <1>1. TypeOK
    BY DEF IInv, RowPart, RowTypes, JobPart, QueueOK, Attending, TypeOK
  <1>2. ASSUME NEW p \in Profiles
        PROVE  LET news == [i \in DOMAIN log[p] |-> log[p][i][2]]
               IN  /\ IsInjective(news)
                   /\ \A i \in DOMAIN log[p] : log[p][i][1] = IF i = 1 THEN "FRESH" ELSE news[i - 1]
                   /\ Exists(p) => cached[p] = IF log[p] = <<>> THEN "FRESH" ELSE Last(news)
    <2> DEFINE n == Len(log[p])
               news == [i \in 1 .. n |-> log[p][i][2]]
    <2>1. log[p] \in Seq(Classes \X Classes) /\ n \in Nat /\ DOMAIN log[p] = 1 .. n /\ (log[p] = <<>> <=> n = 0)
      BY DEF IInv, RowPart, RowTypes
    <2>2. /\ \A i, k \in 1 .. n : log[p][i][2] = log[p][k][2] => i = k
          /\ \A i \in 1 .. n : log[p][i][1] = IF i = 1 THEN "FRESH" ELSE log[p][i - 1][2]
          /\ Exists(p) => cached[p] = IF n = 0 THEN "FRESH" ELSE log[p][n][2]
      BY DEF IInv, RowPart, LogChain
    <2> HIDE DEF n
    <2>3. news \in Seq(Classes) /\ Len(news) = n
      BY <2>1
    <2>4. IsInjective(news)
      BY <2>2 DEF IsInjective
    <2>5. \A i \in 1 .. n : log[p][i][1] = IF i = 1 THEN "FRESH" ELSE news[i - 1]
      BY <2>1, <2>2
    <2>6. n # 0 => Last(news) = log[p][n][2]
      BY <2>1, <2>3 DEF Last
    <2> QED BY <2>1, <2>2, <2>4, <2>5, <2>6
  <1> QED BY <1>1, <1>2 DEF IInv, RowPart, ReclassifiedOnce, FreshnessIsSound

-----------------------------------------------------------------------------
(* The theorem                                                             *)

\* capacity-freshness.job.ts under worker-runtime.ts: through any number of retries,
\* sweeps, crashes, outages and handlers that outlive their timeout, at most one
\* handler holds a job, no profile enters a class twice, and none is
\* stored as staler than a reader's own clock says.
THEOREM Freshness_Sound == Spec => []FreshnessIsSound
  BY InitIInv, NextIInv, IInvImplies, PTL DEF Spec
=============================================================================
