----------------------- MODULE PassportReadinessProofs -----------------------
(***************************************************************************)
(* Proofs about PassportReadiness, for any set of facts, requests and       *)
(* worker handlers, and any clock.                                          *)
(***************************************************************************)
EXTENDS PassportReadiness, TLAPS

\* What StatusReflectsFacts says of a status s, facts and a time t.
Reflects(s, facts, t) ==
    /\ s \in {"ABSENT", "DRAFT"} => ~HasFacts(facts)
    /\ s = "INCOMPLETE" => IsReadinessBlocked(facts, t)
    /\ s \in {"READY", "VERIFIED", "STALE"} => \A k \in Blocking : facts[k].version > 0

\* A clock reading that a handler or a read still holds lies in the past.
ClockOrder ==
    /\ \A w \in Jobs : jobPc[w] # "idle" => jobNow[w] \in Nat /\ jobNow[w] <= now
    /\ \A q \in Requests : pc[q] = "staleReady" => seenNow[q] \in Nat /\ seenNow[q] <= now

IInv == TypeOK /\ ClockOrder /\ StatusReflectsFacts

-----------------------------------------------------------------------------
(* The operators of packages/evidence and packages/domain                  *)

\* A fact is STALE exactly when its evidence has an expiry and that has passed.
LEMMA StaleFact ==
    ASSUME NEW f \in FactRow, NEW t \in Nat
    PROVE  Freshness(f, t) = "STALE" <=> f.expiresAt # Never /\ f.expiresAt < t
BY PassportAssumption DEF Freshness, FactRow

\* Time alone never unblocks a passport.
LEMMA BlockedMonotone ==
    ASSUME NEW facts \in [FactKeys -> FactRow], NEW s \in Nat, NEW t \in Nat, s <= t,
           IsReadinessBlocked(facts, s)
    PROVE  IsReadinessBlocked(facts, t)
<1>1. PICK k \in Blocking : facts[k].version = 0 \/ Freshness(facts[k], s) = "STALE"
  BY DEF IsReadinessBlocked
<1>2. facts[k] \in FactRow
  BY PassportAssumption
<1>3. Freshness(facts[k], s) = "STALE" => Freshness(facts[k], t) = "STALE"
  <2>1. facts[k].expiresAt \in Nat \cup {Never}
    BY <1>2 DEF FactRow
  <2> QED BY <1>2, <2>1, StaleFact, PassportAssumption
<1> QED BY <1>1, <1>3 DEF IsReadinessBlocked

\* An unblocked passport has every blocking fact.
LEMMA UnblockedHasFacts ==
    ASSUME NEW facts \in [FactKeys -> FactRow], NEW t \in Nat,
           ~IsReadinessBlocked(facts, t), NEW k \in Blocking
    PROVE  facts[k].version > 0
<1>1. facts[k].version \in Nat /\ facts[k].version # 0
  BY PassportAssumption DEF IsReadinessBlocked, FactRow
<1> QED BY <1>1

\* targetStatusAfterRecompute never returns STALE, and loses VERIFIED only to a
\* blocker.
LEMMA TargetStatus ==
    ASSUME NEW s \in PassportStatuses, NEW h, NEW b
    PROVE  /\ TargetStatusAfterRecompute(s, h, b) \in PassportStatuses \ {"STALE"}
           /\ TargetStatusAfterRecompute(s, h, b) = "DRAFT" => ~h
           /\ TargetStatusAfterRecompute(s, h, b) = "INCOMPLETE" => b
           /\ TargetStatusAfterRecompute(s, h, b) \in {"READY", "VERIFIED"} => ~b
           /\ s = "VERIFIED" /\ ~b => TargetStatusAfterRecompute(s, h, b) = "VERIFIED"
           /\ s = "VERIFIED" /\ b => TargetStatusAfterRecompute(s, h, b) = "INCOMPLETE"
BY DEF TargetStatusAfterRecompute, PassportStatuses

\* No transition starts from a passport that does not exist.
LEMMA NoRowNoTransition == \A t \in {"INCOMPLETE", "READY"} : <<"ABSENT", t>> \notin PassportTransitions
BY DEF PassportTransitions

\* A recompute of the facts as of a past time t leaves a status that reflects
\* them now.
LEMMA RecomputeSound ==
    ASSUME TypeOK, NEW s \in PassportStatuses, NEW facts \in [FactKeys -> FactRow],
           NEW t \in Nat, t <= now, RecomputeReadinessAndStatus(s, facts, t)
    PROVE  /\ status' \in PassportStatuses \ {"STALE"}
           /\ readiness' \in ReadinessRow
           /\ Reflects(status', facts, now)
           /\ s = "VERIFIED" /\ status' # "VERIFIED" =>
                status' = "INCOMPLETE" /\ IsReadinessBlocked(facts, now)
<1> DEFINE b == IsReadinessBlocked(facts, t)
           h == HasFacts(facts)
<1>1. status' = TargetStatusAfterRecompute(s, h, b)
  BY DEF RecomputeReadinessAndStatus
<1>2. readiness' \in ReadinessRow
  <2>1. b \in BOOLEAN
    BY DEF IsReadinessBlocked
  <2>2. [computedAt |-> t, blocked |-> b] \in ReadinessRow
    BY <2>1 DEF ReadinessRow
  <2>3. readiness' \in {[computedAt |-> t, blocked |-> b], readiness}
    BY DEF RecomputeReadinessAndStatus, LatestReadiness
  <2> QED BY <2>2, <2>3 DEF TypeOK
<1>3. now \in Nat
  BY DEF TypeOK
<1>4. b => IsReadinessBlocked(facts, now)
  BY <1>3, BlockedMonotone
<1>5. ~b => \A k \in Blocking : facts[k].version > 0
  BY UnblockedHasFacts
<1> HIDE DEF b, h
<1>6. /\ status' \in PassportStatuses \ {"STALE"}
      /\ status' = "DRAFT" => ~h
      /\ status' = "INCOMPLETE" => b
      /\ status' \in {"READY", "VERIFIED"} => ~b
      /\ s = "VERIFIED" /\ ~b => status' = "VERIFIED"
      /\ s = "VERIFIED" /\ b => status' = "INCOMPLETE"
  BY <1>1, TargetStatus
<1>7. status' # "ABSENT"
  BY <1>6 DEF PassportStatuses
<1>8. Reflects(status', facts, now)
  BY <1>4, <1>5, <1>6, <1>7 DEF Reflects, h
<1> QED BY <1>2, <1>4, <1>6, <1>8

-----------------------------------------------------------------------------
(* The inductive invariant                                                 *)

LEMMA InitIInv == Init => IInv
<1> SUFFICES ASSUME Init PROVE IInv
  OBVIOUS
<1>1. TypeOK
  BY PassportAssumption DEF Init, TypeOK, Statuses, FactRow, NoFact, ReadinessRow, NoReadiness,
     RequestPoints, JobPoints
<1>2. ClockOrder
  BY DEF Init, ClockOrder
<1>3. StatusReflectsFacts
  BY DEF Init, StatusReflectsFacts, HasFacts, NoFact
<1> QED BY <1>1, <1>2, <1>3 DEF IInv

\* The part of the state a step leaves alone: the passport, its facts and
\* the clock decide StatusReflectsFacts.
LEMMA ReflectsUnchanged ==
    ASSUME StatusReflectsFacts, UNCHANGED <<now, status, fact>>
    PROVE  StatusReflectsFacts'
BY DEF StatusReflectsFacts, HasFacts, IsReadinessBlocked, Freshness

LEMMA ReflectsPrime ==
    ASSUME Reflects(status', fact', now), now' = now
    PROVE  StatusReflectsFacts'
BY DEF Reflects, StatusReflectsFacts, HasFacts, IsReadinessBlocked, Freshness

\* Bookkeeping of a request keeps the types and the clock order.
LEMMA GotoSafe ==
    ASSUME TypeOK, ClockOrder, NEW q \in Requests, NEW p \in RequestPoints \ {"staleReady"},
           Goto(q, p), UNCHANGED <<now, seenNow, jobVars>>
    PROVE  pc' \in [Requests -> RequestPoints] /\ ClockOrder'
BY DEF TypeOK, ClockOrder, Goto, jobVars

LEMMA FinishSafe ==
    ASSUME TypeOK, ClockOrder, NEW q \in Requests, Finish(q), UNCHANGED <<now, jobVars>>
    PROVE  /\ pc' \in [Requests -> RequestPoints]
           /\ seenStatus' \in [Requests -> Statuses]
           /\ seenReadiness' \in [Requests -> ReadinessRow]
           /\ seenNow' \in [Requests -> Nat \cup {Never}]
           /\ ClockOrder'
<1>1. pc' = [pc EXCEPT ![q] = "idle"] /\ seenNow' = [seenNow EXCEPT ![q] = Never]
  BY DEF Finish, Goto
<1>2. /\ pc' \in [Requests -> RequestPoints]
      /\ seenStatus' \in [Requests -> Statuses]
      /\ seenReadiness' \in [Requests -> ReadinessRow]
      /\ seenNow' \in [Requests -> Nat \cup {Never}]
  BY <1>1 DEF TypeOK, Finish, RequestPoints, Statuses, ReadinessRow, NoReadiness
<1>3. ClockOrder'
  BY <1>1 DEF TypeOK, ClockOrder, jobVars
<1> QED BY <1>2, <1>3

LEMMA JobDoneSafe ==
    ASSUME TypeOK, ClockOrder, NEW w \in Jobs, JobDone(w), UNCHANGED <<now, pc, seenNow>>
    PROVE  /\ jobPc' \in [Jobs -> JobPoints]
           /\ jobStatus' \in [Jobs -> Statuses]
           /\ jobNow' \in [Jobs -> Nat \cup {Never}]
           /\ ClockOrder'
<1>1. /\ jobPc' = [jobPc EXCEPT ![w] = "idle"]
      /\ jobNow' = [jobNow EXCEPT ![w] = Never]
  BY DEF JobDone
<1>2. /\ jobPc' \in [Jobs -> JobPoints]
      /\ jobStatus' \in [Jobs -> Statuses]
      /\ jobNow' \in [Jobs -> Nat \cup {Never}]
  BY <1>1 DEF TypeOK, JobDone, JobPoints, Statuses
<1>3. ClockOrder'
  BY <1>1 DEF TypeOK, ClockOrder
<1> QED BY <1>2, <1>3

LEMMA RequestKeepsIInv ==
    ASSUME IInv, NEW q \in Requests, RequestStep(q)
    PROVE  IInv'
<1> USE DEF IInv
<1>1. CASE Fail(q)
  BY <1>1, FinishSafe, ReflectsUnchanged DEF Fail, TypeOK, dbVars, jobVars
<1>2. CASE CreateRead(q)
  <2>1. "createReady" \in RequestPoints \ {"staleReady"}
    BY DEF RequestPoints
  <2> QED BY <1>2, <2>1, GotoSafe, ReflectsUnchanged DEF CreateRead, TypeOK, dbVars, jobVars
<1>3. CASE CreateCommit(q)
  <2>1. "enqueue" \in RequestPoints \ {"staleReady"} /\ "DRAFT" \in PassportStatuses
    BY DEF RequestPoints, PassportStatuses
  <2>2. /\ status' \in PassportStatuses /\ readiness' \in ReadinessRow
        /\ Reflects(status', fact, now)
    BY <1>3, <2>1, RecomputeSound DEF CreateCommit, TypeOK
  <2>3. fact' = fact /\ now' = now
    BY <1>3 DEF CreateCommit
  <2>4. StatusReflectsFacts'
    BY <2>2, <2>3, ReflectsPrime
  <2>5. pc' \in [Requests -> RequestPoints] /\ ClockOrder'
    BY <1>3, <2>1, GotoSafe DEF CreateCommit
  <2> QED BY <1>3, <2>2, <2>4, <2>5 DEF CreateCommit, TypeOK, Statuses, jobVars
<1>4. CASE \E k \in FactKeys, e \in Expiries \cup {Never} : UpsertFact(q, k, e)
  <2>1. PICK k \in FactKeys, e \in Expiries \cup {Never} : UpsertFact(q, k, e)
    BY <1>4
  <2>2. "enqueue" \in RequestPoints \ {"staleReady"} /\ status \in PassportStatuses
    BY <2>1 DEF RequestPoints, UpsertFact, TypeOK, Statuses
  <2>3. fact' \in [FactKeys -> FactRow]
    <3>1. [version |-> fact[k].version + 1, expiresAt |-> e] \in FactRow
      BY PassportAssumption DEF FactRow, TypeOK
    <3>2. fact' = [fact EXCEPT ![k] = [version |-> fact[k].version + 1, expiresAt |-> e]]
      BY <2>1 DEF UpsertFact
    <3> QED BY <3>1, <3>2 DEF TypeOK
  <2>4. /\ status' \in PassportStatuses /\ readiness' \in ReadinessRow
        /\ Reflects(status', fact', now)
    <3>1. RecomputeReadinessAndStatus(status, fact', now) /\ now \in Nat /\ now <= now
      BY <2>1 DEF UpsertFact, TypeOK
    <3> QED BY <2>2, <2>3, <3>1, RecomputeSound
  <2>5. now' = now
    BY <2>1 DEF UpsertFact
  <2>6. StatusReflectsFacts'
    BY <2>4, <2>5, ReflectsPrime
  <2>7. pc' \in [Requests -> RequestPoints] /\ ClockOrder'
    BY <2>1, <2>2, GotoSafe DEF UpsertFact
  <2> QED BY <2>1, <2>3, <2>4, <2>6, <2>7 DEF UpsertFact, TypeOK, Statuses, jobVars
<1>5. CASE \E e \in Expiries : AddEvidence(q, e)
  <2>1. PICK e \in Expiries : AddEvidence(q, e)
    BY <1>5
  <2>2. "enqueue" \in RequestPoints \ {"staleReady"}
    BY DEF RequestPoints
  <2>3. evidence' \subseteq Nat
    BY <2>1, PassportAssumption DEF AddEvidence, TypeOK
  <2> QED BY <2>1, <2>2, <2>3, GotoSafe, ReflectsUnchanged DEF AddEvidence, TypeOK, jobVars
<1>6. CASE Enqueue(q)
  BY <1>6, FinishSafe, ReflectsUnchanged DEF Enqueue, TypeOK, dbVars, jobVars
<1>7. CASE VerifyRead(q)
  <2>1. "verifyReady" \in RequestPoints \ {"staleReady"}
    BY DEF RequestPoints
  <2> QED BY <1>7, <2>1, GotoSafe, ReflectsUnchanged DEF VerifyRead, TypeOK, dbVars, jobVars
<1>8. CASE VerifyCommit(q)
  <2>1. Reflects(status', fact', now) /\ now' = now
    BY <1>8 DEF VerifyCommit, Reflects, StatusReflectsFacts
  <2>2. StatusReflectsFacts'
    BY <2>1, ReflectsPrime
  <2>3. status' \in Statuses
    BY <1>8 DEF VerifyCommit, Statuses, PassportStatuses
  <2> QED BY <1>8, <2>2, <2>3, FinishSafe DEF VerifyCommit, TypeOK, jobVars
<1>9. CASE GetPassport(q)
  <2>1. "passportRead" \in RequestPoints \ {"staleReady"}
    BY DEF RequestPoints
  <2> QED BY <1>9, <2>1, GotoSafe, ReflectsUnchanged DEF GetPassport, TypeOK, dbVars, jobVars
<1>10. CASE GetReadiness(q)
  <2>1. CASE Finish(q)
    BY <1>10, <2>1, FinishSafe, ReflectsUnchanged DEF GetReadiness, TypeOK, dbVars, jobVars
  <2>2. CASE ~Finish(q)
    <3>1. /\ pc' = [pc EXCEPT ![q] = "staleReady"]
          /\ seenReadiness' = [seenReadiness EXCEPT ![q] = readiness]
          /\ seenNow' = [seenNow EXCEPT ![q] = now]
          /\ UNCHANGED <<seenStatus, now, dbVars, jobVars, queued, spent>>
      BY <1>10, <2>2 DEF GetReadiness, Goto
    <3>2. ClockOrder'
      BY <3>1 DEF ClockOrder, TypeOK, jobVars
    <3>3. TypeOK'
      BY <3>1 DEF TypeOK, jobVars, dbVars, RequestPoints
    <3>4. StatusReflectsFacts'
      BY <3>1, ReflectsUnchanged DEF dbVars
    <3> QED BY <3>2, <3>3, <3>4
  <2> QED BY <2>1, <2>2
<1>11. CASE StaleCommit(q)
  <2>1. Reflects(status', fact', now) /\ now' = now
    BY <1>11 DEF StaleCommit, Reflects, StatusReflectsFacts, IsPassportReadinessStale
  <2>2. StatusReflectsFacts'
    BY <2>1, ReflectsPrime
  <2>3. status' \in Statuses
    BY <1>11 DEF StaleCommit, Statuses, PassportStatuses, TypeOK
  <2> QED BY <1>11, <2>2, <2>3, FinishSafe DEF StaleCommit, TypeOK, jobVars
<1> QED BY <1>1, <1>2, <1>3, <1>4, <1>5, <1>6, <1>7, <1>8, <1>9, <1>10, <1>11 DEF RequestStep

LEMMA JobKeepsIInv ==
    ASSUME IInv, NEW w \in Jobs, JobStep(w)
    PROVE  IInv'
<1> USE DEF IInv
<1>1. CASE JobStart(w)
  <2>1. ClockOrder'
    BY <1>1 DEF JobStart, ClockOrder, TypeOK, requestVars
  <2> QED BY <1>1, <2>1, ReflectsUnchanged DEF JobStart, TypeOK, dbVars, requestVars, JobPoints
<1>2. CASE SweepList(w)
  <2>1. ClockOrder'
    BY <1>2 DEF SweepList, ClockOrder, TypeOK, requestVars
  <2> QED BY <1>2, <2>1, ReflectsUnchanged DEF SweepList, TypeOK, dbVars, requestVars, JobPoints
<1>3. CASE SweepVisit(w)
  <2>1. CASE JobDone(w)
    BY <1>3, <2>1, JobDoneSafe, ReflectsUnchanged DEF SweepVisit, TypeOK, dbVars, requestVars
  <2>2. CASE ~JobDone(w)
    <3>1. /\ jobPc' = [jobPc EXCEPT ![w] = "recompute"] /\ jobPc[w] # "idle"
          /\ UNCHANGED <<jobStatus, jobNow, now, dbVars, requestVars, queued, spent>>
      BY <1>3, <2>2 DEF SweepVisit
    <3>2. ClockOrder'
      BY <3>1 DEF ClockOrder, TypeOK, requestVars
    <3> QED BY <3>1, <3>2, ReflectsUnchanged DEF TypeOK, dbVars, requestVars, JobPoints
  <2> QED BY <2>1, <2>2
<1>4. CASE RecomputePassport(w)
  <2>1. /\ JobDone(w) /\ UNCHANGED <<now, fact, evidence, requestVars, queued>>
        /\ jobNow[w] \in Nat /\ jobNow[w] <= now
    BY <1>4 DEF RecomputePassport, ClockOrder
  <2>2. CASE UNCHANGED <<status, readiness, spent>>
    BY <2>1, <2>2, JobDoneSafe, ReflectsUnchanged DEF TypeOK, requestVars
  <2>3. CASE RecomputeReadinessAndStatus(status, fact, jobNow[w])
    <3>1. CASE status \in PassportStatuses
      <4>1. /\ status' \in PassportStatuses /\ readiness' \in ReadinessRow
            /\ Reflects(status', fact, now)
        BY <2>1, <2>3, <3>1, RecomputeSound DEF TypeOK
      <4>2. StatusReflectsFacts'
        BY <2>1, <4>1, ReflectsPrime
      <4> QED BY <2>1, <4>1, <4>2, JobDoneSafe DEF TypeOK, Statuses, requestVars
    <3>2. CASE status = "ABSENT"
      <4>1. TargetStatusAfterRecompute("ABSENT", HasFacts(fact), IsReadinessBlocked(fact, jobNow[w]))
               \in {"INCOMPLETE", "READY"}
        BY DEF TargetStatusAfterRecompute
      <4> QED BY <2>3, <3>2, <4>1, NoRowNoTransition DEF RecomputeReadinessAndStatus
    <3> QED BY <3>1, <3>2 DEF TypeOK, Statuses
  <2> QED BY <1>4, <2>2, <2>3 DEF RecomputePassport, RecomputeStatus
<1>5. CASE JobDies(w)
  BY <1>5, JobDoneSafe, ReflectsUnchanged DEF JobDies, TypeOK, dbVars, requestVars
<1> QED BY <1>1, <1>2, <1>3, <1>4, <1>5 DEF JobStep

LEMMA TickKeepsIInv == IInv /\ Tick => IInv'
<1> SUFFICES ASSUME IInv, Tick PROVE IInv'
  OBVIOUS
<1> USE DEF IInv
<1>1. /\ now' = now + 1 /\ now \in Nat
      /\ UNCHANGED <<dbVars, requestVars, jobVars, queued, spent>>
  BY DEF Tick, TypeOK
<1>2. TypeOK'
  BY <1>1 DEF TypeOK, dbVars, requestVars, jobVars
<1>3. ClockOrder'
  BY <1>1 DEF ClockOrder, requestVars, jobVars
<1>4. IsReadinessBlocked(fact, now) => IsReadinessBlocked(fact, now')
  BY <1>1, BlockedMonotone DEF TypeOK
<1>5. Reflects(status, fact, now')
  BY <1>4 DEF Reflects, StatusReflectsFacts
<1>6. StatusReflectsFacts'
  BY <1>1, <1>5 DEF Reflects, StatusReflectsFacts, HasFacts, IsReadinessBlocked, Freshness, dbVars
<1> QED BY <1>2, <1>3, <1>6

LEMMA StutterKeepsIInv == IInv /\ UNCHANGED vars => IInv'
<1> SUFFICES ASSUME IInv, UNCHANGED vars PROVE IInv'
  OBVIOUS
<1>1. TypeOK' /\ ClockOrder'
  BY DEF IInv, vars, dbVars, requestVars, jobVars, TypeOK, ClockOrder
<1>2. StatusReflectsFacts'
  BY ReflectsUnchanged DEF IInv, vars, dbVars
<1> QED BY <1>1, <1>2 DEF IInv

LEMMA Invariance == Spec => []IInv
<1>1. IInv /\ [Next]_vars => IInv'
  BY RequestKeepsIInv, JobKeepsIInv, TickKeepsIInv, StutterKeepsIInv DEF Next
<1> QED BY <1>1, InitIInv, PTL DEF Spec

-----------------------------------------------------------------------------
(* Theorems                                                                *)

\* Every row of the passport keeps its type, whatever races.
THEOREM TypeCorrect == Spec => []TypeOK
BY Invariance, PTL DEF IInv

\* upsertFact, the read-time demotion and the worker's recompute: for any
\* interleaving the passport's status reflects the facts on file.
THEOREM StatusIsSound == Spec => []StatusReflectsFacts
BY Invariance, PTL DEF IInv

\* Only loadDetailWithStalenessCheck writes STALE, and the row that decides it
\* is old at that moment.
LEMMA StaleStep ==
    ASSUME IInv, Next, status' = "STALE", status # "STALE"
    PROVE  IsPassportReadinessStale(status, readiness, now)
<1> USE DEF IInv
<1>1. ASSUME NEW s \in PassportStatuses, NEW facts, NEW t,
             RecomputeReadinessAndStatus(s, facts, t)
      PROVE  FALSE
  BY <1>1, TargetStatus DEF RecomputeReadinessAndStatus
<1>2. CASE \E q \in Requests : RequestStep(q)
  <2>1. PICK q \in Requests : RequestStep(q)
    BY <1>2
  <2>2. "DRAFT" \in PassportStatuses
    BY DEF PassportStatuses
  <2>3. ~CreateCommit(q)
    BY <1>1, <2>2 DEF CreateCommit
  <2>4. ASSUME NEW k \in FactKeys, NEW e \in Expiries \cup {Never}, UpsertFact(q, k, e)
        PROVE  FALSE
    <3>1. status \in PassportStatuses /\ RecomputeReadinessAndStatus(status, fact', now)
      BY <2>4 DEF UpsertFact, TypeOK, Statuses
    <3> QED BY <1>1, <3>1
  <2>5. StaleCommit(q)
    BY <2>1, <2>3, <2>4 DEF RequestStep, Fail, CreateRead, AddEvidence, Enqueue, VerifyRead,
       VerifyCommit, GetPassport, GetReadiness, dbVars
  <2>6. IsPassportReadinessStale(status, readiness, seenNow[q]) /\ pc[q] = "staleReady"
    BY <2>5 DEF StaleCommit, StalenessEvidence
  <2>7. seenNow[q] \in Nat /\ seenNow[q] <= now /\ now \in Nat
    BY <2>6 DEF ClockOrder, TypeOK
  <2>8. readiness.computedAt \in Nat \cup {Never}
    BY DEF TypeOK, ReadinessRow
  <2> QED BY <2>6, <2>7, <2>8, PassportAssumption DEF IsPassportReadinessStale
<1>3. CASE \E w \in Jobs : JobStep(w)
  <2>1. PICK w \in Jobs : JobStep(w)
    BY <1>3
  <2>2. RecomputePassport(w)
    BY <2>1 DEF JobStep, JobStart, SweepList, SweepVisit, JobDies, dbVars
  <2>3. RecomputeReadinessAndStatus(status, fact, jobNow[w])
    BY <2>2 DEF RecomputePassport, RecomputeStatus
  <2>4. status \in PassportStatuses
    <3>1. CASE status = "ABSENT"
      BY <2>3, <3>1 DEF RecomputeReadinessAndStatus, TargetStatusAfterRecompute
    <3> QED BY <3>1 DEF TypeOK, Statuses
  <2> QED BY <1>1, <2>3, <2>4
<1>4. CASE Tick
  BY <1>4 DEF Tick, dbVars
<1> QED BY <1>2, <1>3, <1>4 DEF Next

\* loadDetailWithStalenessCheck: a read never demotes a passport whose newest
\* readiness result is current, however many recomputes race with it.
THEOREM DemotionIsSound == Spec => StaleOnlyWhenOld
<1>1. IInv /\ [Next]_vars =>
        (status' = "STALE" /\ status # "STALE" => IsPassportReadinessStale(status, readiness, now))
  <2>1. CASE Next
    BY <2>1, StaleStep
  <2>2. CASE UNCHANGED vars
    BY <2>2 DEF vars, dbVars
  <2> QED BY <2>1, <2>2
<1> QED BY <1>1, Invariance, PTL DEF Spec, StaleOnlyWhenOld

\* A step that takes VERIFIED away finds a blocker or an old readiness result.
LEMMA ReviewStep ==
    ASSUME IInv, Next, status = "VERIFIED", status' # "VERIFIED"
    PROVE  \/ status' = "STALE" /\ IsPassportReadinessStale(status, readiness, now)
           \/ status' = "INCOMPLETE" /\ IsReadinessBlocked(fact', now)
<1> USE DEF IInv
<1>0. status \in PassportStatuses /\ now \in Nat /\ now <= now
  BY DEF PassportStatuses, TypeOK
<1>1. CASE status' = "STALE"
  BY <1>1, StaleStep
<1>2. CASE status' # "STALE"
  <2>1. CASE \E q \in Requests : RequestStep(q)
    <3>1. PICK q \in Requests : RequestStep(q)
      BY <2>1
    <3>2. \E k \in FactKeys, e \in Expiries \cup {Never} : UpsertFact(q, k, e)
      BY <1>2, <3>1 DEF RequestStep, Fail, CreateRead, CreateCommit, AddEvidence, Enqueue, VerifyRead,
         VerifyCommit, GetPassport, GetReadiness, StaleCommit, dbVars
    <3>3. PICK k \in FactKeys, e \in Expiries \cup {Never} : UpsertFact(q, k, e)
      BY <3>2
    <3>4. fact' \in [FactKeys -> FactRow] /\ RecomputeReadinessAndStatus(status, fact', now)
      <4>1. TypeOK'
        BY <3>1, RequestKeepsIInv
      <4> QED BY <3>3, <4>1 DEF UpsertFact, TypeOK
    <3> QED BY <1>0, <3>4, RecomputeSound
  <2>2. CASE \E w \in Jobs : JobStep(w)
    <3>1. PICK w \in Jobs : JobStep(w)
      BY <2>2
    <3>2. RecomputePassport(w)
      BY <3>1 DEF JobStep, JobStart, SweepList, SweepVisit, JobDies, dbVars
    <3>3. /\ RecomputeReadinessAndStatus(status, fact, jobNow[w]) /\ fact' = fact
          /\ jobNow[w] \in Nat /\ jobNow[w] <= now /\ fact \in [FactKeys -> FactRow]
      BY <3>2 DEF RecomputePassport, RecomputeStatus, ClockOrder, TypeOK
    <3>4. status' = "INCOMPLETE" /\ IsReadinessBlocked(fact, now)
      BY <1>0, <3>3, RecomputeSound
    <3> QED BY <3>3, <3>4
  <2>3. CASE Tick
    BY <2>3 DEF Tick, dbVars
  <2> QED BY <2>1, <2>2, <2>3 DEF Next
<1> QED BY <1>1, <1>2

\* upsertFact and recomputePassport: no recompute that started before a review
\* takes the review away; only a blocker on file or age does.
THEOREM ReviewIsKept == Spec => VerificationSurvives
<1>1. IInv /\ [Next]_vars =>
        (status = "VERIFIED" /\ status' # "VERIFIED" =>
            \/ status' = "STALE" /\ IsPassportReadinessStale(status, readiness, now)
            \/ status' = "INCOMPLETE" /\ IsReadinessBlocked(fact', now))
  <2>1. CASE Next
    BY <2>1, ReviewStep
  <2>2. CASE UNCHANGED vars
    BY <2>2 DEF vars, dbVars
  <2> QED BY <2>1, <2>2
<1> QED BY <1>1, Invariance, PTL DEF Spec, VerificationSurvives
=============================================================================
