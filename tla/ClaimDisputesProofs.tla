------------------------- MODULE ClaimDisputesProofs -------------------------
(***************************************************************************)
(* Proofs about ClaimDisputes, for any number of claims, disputes,          *)
(* decisions, organizations and requests.                                   *)
(*                                                                         *)
(* The accounts are not inductive alone: a request in flight must be about  *)
(* a claim (RequestRefs), and a claim that does not exist yet must have no   *)
(* decision, or its creation would break "SCORED means undecided"           *)
(* (Undecided).                                                             *)
(***************************************************************************)
EXTENDS ClaimDisputes, TLAPS

RequestRefs ==
    \A q \in Requests :
        /\ pc[q] # "idle" => seenClaim[q] \in Claims
        /\ pc[q] = "decideReady" => outcome[q] \in ClaimDecisionOutcomes

Undecided == \A c \in Claims : status[c] \in {"ABSENT", "SCORED"} => DecisionsOn(c) = {}

IInv ==
    /\ TypeOK
    /\ RequestRefs
    /\ Undecided
    /\ DisputedIffOneOpenDispute
    /\ DecisionsAccountForDisputes

-----------------------------------------------------------------------------
(* The tables                                                              *)

\* The outcomes are statuses of a claim, and none of them is one it is decided
\* from.
LEMMA Outcomes ==
    /\ ClaimDecisionOutcomes \subseteq ClaimStatuses
    /\ {"SCORED", "DISPUTED"} \subseteq ClaimStatuses
    /\ \A x \in ClaimDecisionOutcomes : x \notin {"ABSENT", "SCORED", "DISPUTED"}
  BY DEF ClaimDecisionOutcomes, ClaimStatuses

\* Nothing leads from a REJECTED, a DISPUTED or a missing claim to DISPUTED.
LEMMA NotDisputable ==
    \A s \in {"ABSENT", "REJECTED", "DISPUTED"} : <<s, "DISPUTED">> \notin ClaimTransitions
  BY DEF ClaimTransitions

\* disputeResolutionFor always answers with a resolution.
LEMMA ResolutionType == \A x \in ClaimDecisionOutcomes : DisputeResolutionFor(x) \in Resolutions
  BY DEF DisputeResolutionFor, Resolutions, ClaimDecisionOutcomes

-----------------------------------------------------------------------------
(* The inductive invariant                                                 *)

LEMMA InitIInv == Init => IInv
  BY ClaimsAssumption DEF Init, IInv, TypeOK, RequestRefs, Undecided, DisputedIffOneOpenDispute,
     DecisionsAccountForDisputes, DecisionsOn, DecisionsOf, OpenDisputes, RequestPoints,
     ClaimDecisionOutcomes

\* The accounts read only rows, so steps that write no row keep them.
LEMMA RowsUnchanged ==
    ASSUME IInv, UNCHANGED <<claimVars, disputeVars, decision>>
    PROVE  Undecided' /\ DisputedIffOneOpenDispute' /\ DecisionsAccountForDisputes'
  BY DEF IInv, claimVars, disputeVars, Undecided, DisputedIffOneOpenDispute,
     DecisionsAccountForDisputes, DecisionsOn, DecisionsOf, OpenDisputes

\* Ending a request keeps what is required of requests.
LEMMA FinishKeeps ==
    ASSUME IInv, NEW q \in Requests, Finish(q)
    PROVE  /\ RequestRefs'
           /\ pc' \in [Requests -> RequestPoints]
           /\ seenClaim' \in [Requests -> Claims \cup {None}]
           /\ outcome' \in [Requests -> ClaimDecisionOutcomes \cup {None}]
  BY DEF IInv, TypeOK, RequestRefs, Finish, RequestPoints

LEMMA CreateKeeps ==
    ASSUME IInv, NEW c \in Claims, NEW o \in Orgs, Create(c, o)
    PROVE  IInv'
  <1>1. TypeOK'
    BY Outcomes DEF IInv, TypeOK, Create, disputeVars, requestVars
  <1>2. RequestRefs'
    BY DEF IInv, RequestRefs, Create, requestVars
  <1>3. Undecided' /\ DisputedIffOneOpenDispute' /\ DecisionsAccountForDisputes'
    BY Outcomes DEF IInv, TypeOK, Create, disputeVars, Undecided, DisputedIffOneOpenDispute,
       DecisionsAccountForDisputes, DecisionsOn, DecisionsOf, OpenDisputes
  <1> QED BY <1>1, <1>2, <1>3 DEF IInv

LEMMA DisputeCommitKeeps ==
    ASSUME IInv, NEW q \in Requests, DisputeCommit(q)
    PROVE  IInv'
  <1>0. PICK c \in Claims : c = seenClaim[q]
    BY DEF IInv, RequestRefs, DisputeCommit
  <1>1. DisputeAllowed(c)
    BY <1>0 DEF DisputeCommit, FreshDisputeAllowed
  <1>2. PICK d \in Disputes :
          /\ disputeState[d] = "ABSENT"
          /\ disputeState' = [disputeState EXCEPT ![d] = "OPEN"]
          /\ disputeClaim' = [disputeClaim EXCEPT ![d] = c]
    BY <1>0 DEF DisputeCommit
  <1>3. status' = [status EXCEPT ![c] = "DISPUTED"] /\ UNCHANGED <<claimant, resolution, decision>>
    BY <1>0 DEF DisputeCommit
  <1>4. Finish(q)
    BY DEF DisputeCommit
  <1>5. TypeOK' /\ RequestRefs'
    BY <1>1, <1>2, <1>3, <1>4, FinishKeeps, Outcomes DEF IInv, TypeOK
  <1>6. Undecided'
    BY <1>1, <1>3 DEF IInv, TypeOK, Undecided, DecisionsOn
  <1>7. DisputedIffOneOpenDispute'
    <2>1. \A e \in Claims : e # c => OpenDisputes(e)' = OpenDisputes(e)
      BY <1>1, <1>2 DEF IInv, TypeOK, OpenDisputes
    <2>2. OpenDisputes(c)' = {d}
      BY <1>1, <1>2 DEF IInv, TypeOK, OpenDisputes, DisputeAllowed
    <2>3. \A e \in Claims : status'[e] = "DISPUTED" <=> OpenDisputes(e)' # {}
      BY <1>1, <1>3, <2>1, <2>2 DEF IInv, TypeOK, DisputedIffOneOpenDispute
    <2>4. \A e \in Claims : \A f, g \in OpenDisputes(e)' : f = g
      BY <2>1, <2>2 DEF IInv, DisputedIffOneOpenDispute
    <2> QED BY <2>3, <2>4 DEF DisputedIffOneOpenDispute, OpenDisputes
  <1>8. DecisionsAccountForDisputes'
    <2>1. DecisionsOf(d) = {}
      BY <1>2 DEF IInv, DecisionsAccountForDisputes
    <2>2. \A e \in Claims : DecisionsOn(e)' = DecisionsOn(e)
      BY <1>3 DEF DecisionsOn
    <2>3. \A e \in Disputes : DecisionsOf(e)' = DecisionsOf(e)
      BY <1>3 DEF DecisionsOf
    <2>4. \A e \in Disputes : disputeState'[e] = "DECIDED" <=> disputeState[e] = "DECIDED"
      BY <1>2 DEF IInv, TypeOK
    <2>5. \A e \in Disputes : e # d => disputeClaim'[e] = disputeClaim[e]
      BY <1>2 DEF IInv, TypeOK
    <2>6. \A e \in Claims : status'[e] = status[e] \/ status'[e] = "DISPUTED"
      BY <1>1, <1>3 DEF IInv, TypeOK
    <2> QED BY <1>3, <2>1, <2>2, <2>3, <2>4, <2>5, <2>6, Outcomes
            DEF IInv, DecisionsAccountForDisputes
  <1> QED BY <1>5, <1>6, <1>7, <1>8 DEF IInv

\* What a decision that commits has in hand: its claim, the dispute it
\* resolves if there is one, and the new row.
DecisionStep(c, x, d, n) ==
    /\ status' = [status EXCEPT ![c] = x]
    /\ decision' = [decision EXCEPT ![n] = [claim |-> c, dispute |-> d, outcome |-> x]]
    /\ MarkDecided(d, x)
    /\ UNCHANGED <<claimant, disputeClaim>>

LEMMA DecideCommitKeeps ==
    ASSUME IInv, NEW q \in Requests, DecideCommit(q)
    PROVE  IInv'
  <1>0. PICK c \in Claims, x \in ClaimDecisionOutcomes : c = seenClaim[q] /\ x = outcome[q]
    BY DEF IInv, RequestRefs, DecideCommit
  <1>1. DecisionAllowed(c, x)
    BY <1>0 DEF DecideCommit, FreshDecisionAllowed
  <1>2. PICK d \in ResolvedDispute(c), n \in Decisions : decision[n] = None /\ DecisionStep(c, x, d, n)
    BY <1>0 DEF DecideCommit, DecisionStep
  <1>3. Finish(q)
    BY DEF DecideCommit
  <1> DEFINE row == [claim |-> c, dispute |-> d, outcome |-> x]
  <1>4. d \in Disputes \cup {None} /\ row \in DecisionRow /\ row # None
    BY <1>1, <1>2, ClaimsAssumption DEF ResolvedDispute, OpenDisputes, DecisionRow
  <1>5. /\ status[c] = "SCORED" => d = None
        /\ status[c] = "DISPUTED" => OpenDisputes(c) = {d} /\ d \in Disputes
        /\ status[c] \in {"SCORED", "DISPUTED"}
    BY <1>1, <1>2 DEF IInv, ResolvedDispute, OpenDisputes, DecisionAllowed, DisputedIffOneOpenDispute
  <1>6. TypeOK' /\ RequestRefs'
    <2>1. disputeState' \in [Disputes -> {"ABSENT", "OPEN", "DECIDED"}]
      BY <1>2 DEF IInv, TypeOK, DecisionStep, MarkDecided
    <2>2. resolution' \in [Disputes -> Resolutions \cup {None}]
      BY <1>1, <1>2, ResolutionType DEF IInv, TypeOK, DecisionStep, MarkDecided
    <2>3. decision' \in [Decisions -> DecisionRow \cup {None}]
      BY <1>2, <1>4 DEF IInv, TypeOK, DecisionStep
    <2> QED BY <1>1, <1>2, <1>3, <2>1, <2>2, <2>3, FinishKeeps, Outcomes
            DEF IInv, TypeOK, DecisionStep
  <1>7. /\ \A e \in Claims : status'[e] = IF e = c THEN x ELSE status[e]
        /\ \A m \in Decisions : decision'[m] = IF m = n THEN row ELSE decision[m]
        /\ \A e \in Disputes : disputeState'[e] = IF e = d THEN "DECIDED" ELSE disputeState[e]
        /\ \A e \in Disputes : resolution'[e] = IF e = d THEN DisputeResolutionFor(x) ELSE resolution[e]
        /\ disputeClaim' = disputeClaim
    BY <1>1, <1>2 DEF IInv, TypeOK, DecisionStep, MarkDecided
  <1>8. /\ DecisionsOn(c)' = DecisionsOn(c) \cup {n}
        /\ \A e \in Claims : e # c => DecisionsOn(e)' = DecisionsOn(e)
        /\ \A e \in Disputes : DecisionsOf(e)' = IF e = d THEN DecisionsOf(e) \cup {n} ELSE DecisionsOf(e)
        /\ \A e \in Claims : n \notin DecisionsOn(e)
        /\ \A e \in Disputes : n \notin DecisionsOf(e)
    BY <1>2, <1>4, <1>7 DEF DecisionsOn, DecisionsOf
  <1>9. Undecided'
    BY <1>1, <1>7, <1>8, Outcomes DEF IInv, Undecided
  <1>10. /\ \A e \in Claims : e # c => OpenDisputes(e)' = OpenDisputes(e)
         /\ OpenDisputes(c)' = {}
    <2>1. \A e \in Disputes : disputeState[e] = "OPEN" /\ disputeClaim[e] = c => e = d
      BY <1>5, <1>1 DEF IInv, DisputedIffOneOpenDispute, OpenDisputes
    <2>2. d \in Disputes => disputeClaim[d] = c
      BY <1>5, ClaimsAssumption DEF OpenDisputes
    <2> QED BY <1>7, <2>1, <2>2 DEF OpenDisputes
  <1>11. DisputedIffOneOpenDispute'
    BY <1>1, <1>7, <1>10, Outcomes DEF IInv, DisputedIffOneOpenDispute
  <1>12. DecisionsAccountForDisputes'
    <2>1. \A e \in Claims : \A m, k \in DecisionsOn(e)' :
             decision'[m].dispute = None /\ decision'[k].dispute = None => m = k
      BY <1>5, <1>7, <1>8, ClaimsAssumption
         DEF IInv, Undecided, DecisionsAccountForDisputes, DecisionsOn
    <2>2. \A e \in Claims : status'[e] = "SCORED" => DecisionsOn(e)' = {}
      BY <1>9 DEF Undecided
    <2>3. \A e \in Claims : status'[e] \in ClaimDecisionOutcomes =>
             \E m \in DecisionsOn(e)' : decision'[m].outcome = status'[e]
      BY <1>7, <1>8 DEF IInv, DecisionsAccountForDisputes, DecisionsOn
    <2>4. d \in Disputes => DecisionsOf(d) = {} /\ disputeClaim[d] = c
      BY <1>5, ClaimsAssumption DEF IInv, DecisionsAccountForDisputes, OpenDisputes
    <2>5. \A e \in Disputes : disputeState'[e] = "DECIDED" <=> DecisionsOf(e)' # {}
      BY <1>7, <1>8 DEF IInv, DecisionsAccountForDisputes
    <2>6. \A e \in Disputes : \A m, k \in DecisionsOf(e)' :
             /\ m = k
             /\ decision'[k].claim = disputeClaim'[e]
             /\ resolution'[e] = DisputeResolutionFor(decision'[k].outcome)
      BY <1>7, <1>8, <2>4 DEF IInv, DecisionsAccountForDisputes, DecisionsOf
    <2> QED BY <2>1, <2>2, <2>3, <2>5, <2>6 DEF DecisionsAccountForDisputes, DecisionsOn, DecisionsOf,
               DisputeResolutionFor
  <1> QED BY <1>6, <1>9, <1>11, <1>12 DEF IInv

\* A request that begins or fails writes no row.
LEMMA ReadKeeps ==
    ASSUME IInv, NEW q \in Requests,
           \/ Fail(q)
           \/ \E c \in Claims, o \in Orgs : DisputeRead(q, c, o)
           \/ \E c \in Claims, o \in Orgs, x \in ClaimDecisionOutcomes : DecideRead(q, c, o, x)
    PROVE  IInv'
  <1>1. UNCHANGED <<claimVars, disputeVars, decision>>
    BY DEF Fail, DisputeRead, DecideRead, Begin
  <1>2. TypeOK' /\ RequestRefs'
    <2>1. CASE Fail(q)
      BY <2>1, FinishKeeps DEF Fail, IInv, TypeOK, claimVars, disputeVars
    <2>2. CASE \E c \in Claims, o \in Orgs : DisputeRead(q, c, o)
      BY <2>2 DEF DisputeRead, Begin, IInv, TypeOK, RequestRefs, RequestPoints, claimVars, disputeVars
    <2>3. CASE \E c \in Claims, o \in Orgs, x \in ClaimDecisionOutcomes : DecideRead(q, c, o, x)
      BY <2>3 DEF DecideRead, Begin, IInv, TypeOK, RequestRefs, RequestPoints, claimVars, disputeVars
    <2> QED BY <2>1, <2>2, <2>3
  <1> QED BY <1>1, <1>2, RowsUnchanged DEF IInv

LEMMA StutterKeeps == IInv /\ UNCHANGED vars => IInv'
  <1> SUFFICES ASSUME IInv, UNCHANGED vars PROVE IInv'
    OBVIOUS
  <1>1. TypeOK' /\ RequestRefs'
    BY DEF vars, claimVars, disputeVars, requestVars, IInv, TypeOK, RequestRefs
  <1> QED BY <1>1, RowsUnchanged DEF IInv, vars

LEMMA Invariance == Spec => []IInv
  <1>1. IInv /\ [Next]_vars => IInv'
    BY CreateKeeps, DisputeCommitKeeps, DecideCommitKeeps, ReadKeeps, StutterKeeps DEF Next, RequestStep
  <1> QED BY <1>1, InitIInv, PTL DEF Spec

-----------------------------------------------------------------------------
(* Theorems                                                                *)

\* Every row and every request of the claims service keeps its type.
THEOREM TypeCorrect == Spec => []TypeOK
  BY Invariance, PTL DEF IInv

\* Whatever filings and decisions race, a claim is DISPUTED exactly while it has
\* an open dispute, and it never has two.
THEOREM DisputeSafety == Spec => []DisputedIffOneOpenDispute
  BY Invariance, PTL DEF IInv

\* Every dispute is decided by one decision, and every decision but a claim's
\* first resolves a dispute.
THEOREM DecisionAccounts == Spec => []DecisionsAccountForDisputes
  BY Invariance, PTL DEF IInv

\* A rejected claim is never reopened and a resolution never changes.
THEOREM OutcomesKept == Spec => OutcomesAreFinal
  <1> DEFINE Final ==
        /\ \A c \in Claims : status[c] = "REJECTED" => status'[c] = "REJECTED"
        /\ \A d \in Disputes : disputeState[d] = "DECIDED" =>
             disputeState'[d] = "DECIDED" /\ resolution'[d] = resolution[d]
  <1>1. ASSUME IInv, Next PROVE Final
    <2>1. CASE UNCHANGED <<status, disputeState, resolution>>
      BY <2>1
    <2>2. ASSUME NEW c \in Claims, NEW o \in Orgs, Create(c, o) PROVE Final
      BY <1>1, <2>2 DEF Create, disputeVars, IInv, TypeOK
    <2>3. ASSUME NEW q \in Requests, DisputeCommit(q) PROVE Final
      <3>1. seenClaim[q] \in Claims /\ status[seenClaim[q]] # "REJECTED"
        BY <1>1, <2>3, NotDisputable DEF DisputeCommit, FreshDisputeAllowed, DisputeAllowed, IInv, RequestRefs
      <3> QED BY <1>1, <2>3, <3>1 DEF DisputeCommit, IInv, TypeOK
    <2>4. ASSUME NEW q \in Requests, DecideCommit(q) PROVE Final
      <3>1. seenClaim[q] \in Claims /\ status[seenClaim[q]] # "REJECTED"
        BY <1>1, <2>4 DEF DecideCommit, FreshDecisionAllowed, DecisionAllowed, IInv, RequestRefs
      <3>2. PICK d \in ResolvedDispute(seenClaim[q]) : MarkDecided(d, outcome[q])
        BY <2>4 DEF DecideCommit
      <3>3. \A e \in Disputes : disputeState[e] = "DECIDED" => e # d
        BY <3>2, ClaimsAssumption DEF ResolvedDispute, OpenDisputes
      <3> QED BY <1>1, <2>4, <3>1, <3>2, <3>3 DEF DecideCommit, MarkDecided, IInv, TypeOK
    <2> QED BY <1>1, <2>1, <2>2, <2>3, <2>4
            DEF Next, RequestStep, Fail, DisputeRead, DecideRead, Begin, claimVars, disputeVars
  <1>2. IInv /\ [Next]_vars => [Final]_vars
    BY <1>1
  <1> HIDE DEF Final
  <1>3. Spec => [][Final]_vars
    BY <1>2, Invariance, PTL DEF Spec
  <1> QED BY <1>3 DEF Final, OutcomesAreFinal
=============================================================================
