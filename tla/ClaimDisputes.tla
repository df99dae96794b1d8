---------------------------- MODULE ClaimDisputes ----------------------------
(***************************************************************************)
(* Attribution claims on one relationship, their disputes and the           *)
(* reviewers' decisions: apps/api/src/modules/claims/service.ts run by      *)
(* concurrent requests.                                                     *)
(*                                                                         *)
(* fileDispute and decide check the claim before their transaction and      *)
(* again inside it, under the claim's advisory lock.  Every row a check     *)
(* reads is read again under the lock, except what never changes (the       *)
(* claimant, the challenger's standing); so the reads before the lock are   *)
(* one action and the transaction is one action.                            *)
(***************************************************************************)
EXTENDS Naturals, FiniteSets, DomainStates

CONSTANTS
    Claims, Disputes, Decisions,    \* identifiers of rows
    Orgs,                           \* organizations
    Subject,                        \* the organization the claims are about
    Requests,                       \* API requests in flight at the same time
    None                            \* no such row

VARIABLES
    status,         \* Claim.status
    claimant,       \* Claim.claimantOrgId
    disputeClaim,   \* ClaimDispute.claimId
    disputeState,   \* ClaimDispute.status
    resolution,     \* ClaimDispute.resolution
    decision,       \* ClaimDecision rows
    pc,             \* how far each request has come
    seenClaim,      \* the claim it is about
    outcome         \* the decision it asks for

claimVars == <<status, claimant>>
disputeVars == <<disputeClaim, disputeState, resolution>>
requestVars == <<pc, seenClaim, outcome>>
vars == <<claimVars, disputeVars, decision, requestVars>>

DecisionRow == [claim: Claims, dispute: Disputes \cup {None}, outcome: ClaimDecisionOutcomes]

ASSUME ClaimsAssumption ==
    /\ Subject \in Orgs
    /\ None \notin Claims \cup Disputes \cup Decisions \cup Orgs \cup DecisionRow

Resolutions == {"UPHELD_ORIGINAL", "PARTIAL_ATTRIBUTION", "REJECTED_ORIGINAL"}
RequestPoints == {"idle", "disputeReady", "decideReady"}

Init ==
    /\ status = [c \in Claims |-> "ABSENT"]
    /\ claimant = [c \in Claims |-> None]
    /\ disputeClaim = [d \in Disputes |-> None]
    /\ disputeState = [d \in Disputes |-> "ABSENT"]
    /\ resolution = [d \in Disputes |-> None]
    /\ decision = [x \in Decisions |-> None]
    /\ pc = [q \in Requests |-> "idle"]
    /\ seenClaim = [q \in Requests |-> None]
    /\ outcome = [q \in Requests |-> None]

-----------------------------------------------------------------------------
\* claimDisputeRepository.findOpenByClaim
OpenDisputes(c) == {d \in Disputes : disputeClaim[d] = c /\ disputeState[d] = "OPEN"}

\* computeDisputeStanding: the subject, or the holder of a competing claim.
HasStanding(o, c) ==
    \/ o = Subject
    \/ \E e \in Claims : e # c /\ status[e] # "ABSENT" /\ claimant[e] = o

Begin(q, point, c, x) ==
    /\ pc[q] = "idle"
    /\ pc' = [pc EXCEPT ![q] = point]
    /\ seenClaim' = [seenClaim EXCEPT ![q] = c]
    /\ outcome' = [outcome EXCEPT ![q] = x]
    /\ UNCHANGED <<claimVars, disputeVars, decision>>

Finish(q) ==
    /\ pc' = [pc EXCEPT ![q] = "idle"]
    /\ seenClaim' = [seenClaim EXCEPT ![q] = None]
    /\ outcome' = [outcome EXCEPT ![q] = None]

\* A check that throws, or a crash of the API process.
Fail(q) ==
    /\ pc[q] # "idle"
    /\ Finish(q)
    /\ UNCHANGED <<claimVars, disputeVars, decision>>

\* claimsService.create: FILED, then SCORED, in one transaction.
Create(c, o) ==
    /\ status[c] = "ABSENT"
    /\ status' = [status EXCEPT ![c] = "SCORED"]
    /\ claimant' = [claimant EXCEPT ![c] = o]
    /\ UNCHANGED <<disputeVars, decision, requestVars>>

-----------------------------------------------------------------------------
(* claimsService.fileDispute                                               *)

DisputeAllowed(c) == OpenDisputes(c) = {} /\ <<status[c], "DISPUTED">> \in ClaimTransitions

DisputeRead(q, c, o) ==
    /\ status[c] # "ABSENT" /\ claimant[c] # o
    /\ HasStanding(o, c)
    /\ DisputeAllowed(c)
    /\ Begin(q, "disputeReady", c, None)

\* Mutant: the transaction trusts the check made before the lock.
FreshDisputeAllowed_NoReread(c) == TRUE

\* Mutant: the transaction looks for an open dispute only.
FreshDisputeAllowed_NoTransition(c) == OpenDisputes(c) = {}

\* The same check on what is read under the lock.
FreshDisputeAllowed(c) == DisputeAllowed(c)

DisputeCommit(q) ==
    LET c == seenClaim[q]
    IN  /\ pc[q] = "disputeReady"
        /\ FreshDisputeAllowed(c)
        /\ \E d \in Disputes :
            /\ disputeState[d] = "ABSENT"
            /\ disputeState' = [disputeState EXCEPT ![d] = "OPEN"]
            /\ disputeClaim' = [disputeClaim EXCEPT ![d] = c]
        /\ status' = [status EXCEPT ![c] = "DISPUTED"]
        /\ Finish(q)
        /\ UNCHANGED <<claimant, resolution, decision>>

-----------------------------------------------------------------------------
(* claimsService.decide                                                    *)

DecisionAllowed(c, x) ==
    status[c] \in {"SCORED", "DISPUTED"} /\ <<status[c], x>> \in ClaimTransitions

DecideRead(q, c, o, x) ==
    /\ claimant[c] # o      \* self-certification
    /\ DecisionAllowed(c, x)
    /\ Begin(q, "decideReady", c, x)

\* Mutant: the transaction trusts the check made before the lock.
FreshDecisionAllowed_NoReread(c, x) == TRUE

\* The same check on what is read under the lock.
FreshDecisionAllowed(c, x) == DecisionAllowed(c, x)

\* The dispute a decision resolves, by the claim's status under the lock.
ResolvedDispute(c) == IF status[c] = "DISPUTED" THEN OpenDisputes(c) ELSE {None}

DisputeResolutionFor(x) ==
    CASE x = "VERIFIED" -> "UPHELD_ORIGINAL"
      [] x = "PARTIAL"  -> "PARTIAL_ATTRIBUTION"
      [] OTHER          -> "REJECTED_ORIGINAL"

\* claimDisputeRepository.markDecided, when there is a dispute to resolve.
MarkDecided(d, x) ==
    /\ disputeState' = [e \in Disputes |-> IF e = d THEN "DECIDED" ELSE disputeState[e]]
    /\ resolution' = [e \in Disputes |-> IF e = d THEN DisputeResolutionFor(x) ELSE resolution[e]]

DecideCommit(q) ==
    LET c == seenClaim[q]
        x == outcome[q]
    IN  /\ pc[q] = "decideReady"
        /\ FreshDecisionAllowed(c, x)
        /\ \E d \in ResolvedDispute(c), n \in Decisions :
            /\ decision[n] = None
            /\ decision' = [decision EXCEPT ![n] = [claim |-> c, dispute |-> d, outcome |-> x]]
            /\ MarkDecided(d, x)
        /\ status' = [status EXCEPT ![c] = x]
        /\ Finish(q)
        /\ UNCHANGED <<claimant, disputeClaim>>

-----------------------------------------------------------------------------
RequestStep(q) ==
    \/ Fail(q)
    \/ \E c \in Claims, o \in Orgs : DisputeRead(q, c, o)
    \/ DisputeCommit(q)
    \/ \E c \in Claims, o \in Orgs, x \in ClaimDecisionOutcomes : DecideRead(q, c, o, x)
    \/ DecideCommit(q)

Next ==
    \/ \E c \in Claims, o \in Orgs : Create(c, o)
    \/ \E q \in Requests : RequestStep(q)

Spec == Init /\ [][Next]_vars

-----------------------------------------------------------------------------
(* Properties                                                              *)

\* Rows and requests have their types.
TypeOK ==
    /\ status \in [Claims -> ClaimStatuses \cup {"ABSENT"}]
    /\ claimant \in [Claims -> Orgs \cup {None}]
    /\ disputeClaim \in [Disputes -> Claims \cup {None}]
    /\ disputeState \in [Disputes -> {"ABSENT", "OPEN", "DECIDED"}]
    /\ resolution \in [Disputes -> Resolutions \cup {None}]
    /\ decision \in [Decisions -> DecisionRow \cup {None}]
    /\ pc \in [Requests -> RequestPoints]
    /\ seenClaim \in [Requests -> Claims \cup {None}]
    /\ outcome \in [Requests -> ClaimDecisionOutcomes \cup {None}]

\* fileDispute: "a claim's status is ALWAYS DISPUTED if and only if it has an
\* open dispute", and never two of them, whatever filings and decisions race.
DisputedIffOneOpenDispute ==
    /\ \A c \in Claims : status[c] = "DISPUTED" <=> OpenDisputes(c) # {}
    /\ \A c \in Claims : \A d, e \in OpenDisputes(c) : d = e

\* The decisions on a claim, and those that resolved a dispute.
DecisionsOn(c) == {n \in Decisions : decision[n] # None /\ decision[n].claim = c}
DecisionsOf(d) == {n \in Decisions : decision[n] # None /\ decision[n].dispute = d}

\* decide: decisions and disputes account for one another.  A claim has at most
\* one decision of its own, and none while it is SCORED; a dispute is decided by
\* exactly one decision, on its own claim, and its resolution is that outcome;
\* a claim's settled status is the outcome of one of its decisions.
DecisionsAccountForDisputes ==
    /\ \A c \in Claims : \A m, n \in DecisionsOn(c) :
         decision[m].dispute = None /\ decision[n].dispute = None => m = n
    /\ \A c \in Claims : status[c] = "SCORED" => DecisionsOn(c) = {}
    /\ \A c \in Claims : status[c] \in ClaimDecisionOutcomes =>
         \E n \in DecisionsOn(c) : decision[n].outcome = status[c]
    /\ \A d \in Disputes : disputeState[d] = "DECIDED" <=> DecisionsOf(d) # {}
    /\ \A d \in Disputes : \A m, n \in DecisionsOf(d) :
         /\ m = n
         /\ decision[n].claim = disputeClaim[d]
         /\ resolution[d] = DisputeResolutionFor(decision[n].outcome)

\* fileDispute and decide: a REJECTED claim is never reopened, and a decided
\* dispute keeps its resolution, although both requests may have passed their
\* first check while the claim was still open.
OutcomesAreFinal ==
    [][/\ \A c \in Claims : status[c] = "REJECTED" => status'[c] = "REJECTED"
       /\ \A d \in Disputes : disputeState[d] = "DECIDED" =>
            disputeState'[d] = "DECIDED" /\ resolution'[d] = resolution[d]]_vars
=============================================================================
