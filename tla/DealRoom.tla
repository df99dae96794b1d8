------------------------------ MODULE DealRoom ------------------------------
(***************************************************************************)
(* apps/api/src/modules/deals: the deal room that selectQuote opens, its      *)
(* conditions and its decisions.                                            *)
(*                                                                         *)
(* A request posts a condition, resolves one or records a decision.  It       *)
(* reads and checks, opens a transaction, waits for the advisory lock of the  *)
(* room, reads again and writes.  Requests interleave at every statement and  *)
(* may fail at any of them; what a failed transaction wrote is rolled back    *)
(* and its lock is released.                                                *)
(***************************************************************************)
EXTENDS Authz, DomainStates

CONSTANTS
    Requests,           \* the requests the room ever receives
    Actors,             \* who may call: role and organization
    Organizations,
    merchantOrgId, providerOrgId

ASSUME DealRoomAssumption == Nobody \notin Requests \cup DealRoomStatuses

VARIABLES
    status,     \* DealRoom.status
    condition,  \* DealCondition.state, by the request that posted it, or "ABSENT"
    decisions,  \* DealDecision.decisionType, in the order of decidedAt
    events,     \* deal.stage_changed events of the timeline: their <<from, to>>
    lock,       \* holder of pg_advisory_xact_lock(dealRoomId)
    pc,         \* the next statement of each request
    input,      \* its inputs
    seen        \* the status or the condition's state its last read returned

rows == <<status, condition, decisions, events>>
vars == <<rows, lock, pc, input, seen>>

\* A condition's owner, the decision types and the states of a request's body.
RequestedStates == {"SATISFIED", "WAIVED", "REJECTED"}
RequestedDecisions == {"APPROVAL", "DECLINE", "EXCEPTION"}

Participants == {merchantOrgId, providerOrgId}

NoInput == [op |-> "none"]

\* The room as selectQuote leaves it.
Init ==
    /\ status = "OPEN"
    /\ condition = [c \in Requests |-> "ABSENT"]
    /\ decisions = <<"QUOTE_SELECTED">>
    /\ events = <<>>
    /\ lock = Nobody
    /\ pc = [r \in Requests |-> "new"]
    /\ input = [r \in Requests |-> NoInput]
    /\ seen = [r \in Requests |-> Nobody]

-----------------------------------------------------------------------------
\* loadDealRoomAndAuthContext and can(): the room is its merchant's, and a named
\* participant's.
Authorized(actor, verb) ==
    can(actor, <<"deal", verb>>, Resource("deal_room", merchantOrgId),
        Context(FALSE, actor.organizationId \in Participants))

\* The request passed its first checks: it remembers what it asks for and what it read.
Begin(r, in, read) ==
    /\ pc[r] = "new"
    /\ pc' = [pc EXCEPT ![r] = "lock"]
    /\ input' = [input EXCEPT ![r] = in]
    /\ seen' = [seen EXCEPT ![r] = read]
    /\ UNCHANGED <<rows, lock>>

PostRead(r) ==
    \E actor \in Actors, owner \in Organizations :
        /\ Authorized(actor, "post_condition")
        /\ owner \in {merchantOrgId, providerOrgId}
        /\ Begin(r, [op |-> "post"], status)

ResolveRead(r) ==
    \E actor \in Actors, c \in Requests, state \in RequestedStates :
        /\ Authorized(actor, "resolve_condition")
        /\ <<condition[c], state>> \in ConditionTransitions
        /\ Begin(r, [op |-> "resolve", condition |-> c, state |-> state], condition[c])

\* computeNextStatus, or Nobody when the decision does not move the room.
NextStatus(type, current) ==
    IF current \notin {"OPEN", "CONDITIONS"} THEN Nobody
    ELSE CASE type = "APPROVAL" -> "APPROVED"
           [] type = "DECLINE"  -> "DECLINED"
           [] OTHER             -> Nobody

DecideRead(r) ==
    \E actor \in Actors, type \in RequestedDecisions :
        /\ Authorized(actor, "record_decision")
        /\ NextStatus(type, status) # Nobody => <<status, NextStatus(type, status)>> \in DealRoomTransitions
        /\ Begin(r, [op |-> "decide", type |-> type], status)

-----------------------------------------------------------------------------
\* Mutant: no advisory lock.
LockIsFree_NoLock == TRUE

LockIsFree == lock = Nobody

Acquire(r) ==
    /\ pc[r] = "lock"
    /\ LockIsFree
    /\ lock' = r
    /\ pc' = [pc EXCEPT ![r] = "fresh"]
    /\ UNCHANGED <<rows, input, seen>>

\* Mutant: the transaction trusts the row read before it.
Fresh_NoReread(r) == seen[r]

\* freshDealRoom, or freshCondition, inside the lock.
Fresh(r) == IF input[r].op = "resolve" THEN condition[input[r].condition] ELSE status

FreshRead(r) ==
    /\ pc[r] = "fresh"
    /\ seen' = [seen EXCEPT ![r] = Fresh(r)]
    /\ pc' = [pc EXCEPT ![r] = "write"]
    /\ UNCHANGED <<rows, lock, input>>

\* Mutant: a rollback leaves the session's lock.
Unlocked_OnSuccess(r, committed) == IF committed /\ lock = r THEN Nobody ELSE lock

\* The lock after r's transaction ends, with a commit or a rollback.
Unlocked(r, committed) == IF lock = r THEN Nobody ELSE lock

\* The transaction commits or is rolled back, and the answer is sent.
End(r, committed) ==
    /\ pc' = [pc EXCEPT ![r] = "done"]
    /\ lock' = Unlocked(r, committed)
    /\ input' = [input EXCEPT ![r] = NoInput]
    /\ seen' = [seen EXCEPT ![r] = Nobody]

\* The payload of deal.stage_changed.
StageChanged(from, to) == <<from, to>>

\* updateStatus with its stage_changed event, or neither.
MoveTo(from, to) ==
    IF to = Nobody THEN UNCHANGED <<status, events>>
    ELSE /\ <<from, to>> \in DealRoomTransitions
         /\ status' = to
         /\ events' = Append(events, StageChanged(from, to))

\* postCondition: the condition is created whatever the status; an OPEN room moves on.
PostWrite(r) ==
    /\ pc[r] = "write" /\ input[r].op = "post"
    /\ condition' = [condition EXCEPT ![r] = "PENDING"]
    /\ MoveTo(seen[r], IF seen[r] = "OPEN" THEN "CONDITIONS" ELSE Nobody)
    /\ End(r, TRUE)
    /\ UNCHANGED decisions

\* resolveCondition
ResolveWrite(r) ==
    /\ pc[r] = "write" /\ input[r].op = "resolve"
    /\ <<seen[r], input[r].state>> \in ConditionTransitions
    /\ condition' = [condition EXCEPT ![input[r].condition] = input[r].state]
    /\ End(r, TRUE)
    /\ UNCHANGED <<status, decisions, events>>

\* recordDecision: the row is appended whether or not the room moves.
DecideWrite(r) ==
    /\ pc[r] = "write" /\ input[r].op = "decide"
    /\ decisions' = Append(decisions, input[r].type)
    /\ MoveTo(seen[r], NextStatus(input[r].type, seen[r]))
    /\ End(r, TRUE)
    /\ UNCHANGED condition

\* An error answer (a failed check included) or a crash, with a rollback.
Stop(r) ==
    /\ pc[r] \notin {"new", "done"}
    /\ End(r, FALSE)
    /\ UNCHANGED rows

Arrive(r) == PostRead(r) \/ ResolveRead(r) \/ DecideRead(r)
Write(r) == PostWrite(r) \/ ResolveWrite(r) \/ DecideWrite(r)

\* A room all of whose requests have ended rests.
Rest == (\A r \in Requests : pc[r] = "done") /\ UNCHANGED vars

Next == Rest \/ \E r \in Requests : Arrive(r) \/ Acquire(r) \/ FreshRead(r) \/ Write(r) \/ Stop(r)

\* A statement that can run is run or fails, and Postgres grants the lock in the
\* order of the queue.  Nothing makes a request arrive.
Fairness ==
    \A r \in Requests :
        /\ WF_vars(FreshRead(r) \/ Write(r) \/ (Stop(r) /\ pc[r] = "write"))
        /\ SF_vars(Acquire(r))

Spec == Init /\ [][Next]_vars /\ Fairness

-----------------------------------------------------------------------------
(* Properties                                                              *)

Statements == {"new", "lock", "fresh", "write", "done"}

\* Types; and the lock is held by exactly the request inside its transaction.
TypeOK ==
    /\ status \in DealRoomStatuses
    /\ condition \in [Requests -> ConditionStates \cup {"ABSENT"}]
    /\ decisions \in Seq(RequestedDecisions \cup {"QUOTE_SELECTED"})
    /\ pc \in [Requests -> Statements]
    /\ lock \in Requests \cup {Nobody}
    /\ \A r \in Requests : pc[r] \in {"fresh", "write"} <=> lock = r

Decisive == {i \in DOMAIN decisions : decisions[i] \in {"APPROVAL", "DECLINE"}}

\* recordDecision's "whichever commits last silently overwriting the other's
\* outcome" never happens: the first approval or decline decides the room for
\* good, and before it the room is in CONDITIONS exactly when one was posted.
StatusIsExplained ==
    IF Decisive = {}
    THEN status = (IF \E c \in Requests : condition[c] # "ABSENT" THEN "CONDITIONS" ELSE "OPEN")
    ELSE \E first \in Decisive :
            /\ \A i \in Decisive : first <= i
            /\ status = (IF decisions[first] = "APPROVAL" THEN "APPROVED" ELSE "DECLINED")

\* getTimeline: the stage_changed events, replayed from OPEN, are a chain of legal
\* moves that ends in the room's status.
TimelineReplaysStatus ==
    LET stage == <<"OPEN">> \o [i \in DOMAIN events |-> events[i][2]]
    IN  /\ \A i \in DOMAIN events : events[i] = <<stage[i], stage[i + 1]>> /\ events[i] \in DealRoomTransitions
        /\ stage[Len(stage)] = status

\* recordDecision and postCondition: the lock is held by the request inside its
\* transaction, and the room's status is what its first decision, its conditions
\* and its timeline each say it is.
RoomIsSound == TypeOK /\ StatusIsExplained /\ TimelineReplaysStatus

\* resolveCondition's "the second write would silently overwrite the first's
\* result": of two requests that found a condition PENDING one resolves it.
ConditionResolvedOnce ==
    [][\A c \in Requests : condition[c] \notin {"ABSENT", "PENDING"} => condition'[c] = condition[c]]_vars

\* A request that started is answered: no holder keeps the others waiting for
\* the lock, not even one that failed.
EveryRequestEnds == \A r \in Requests : pc[r] = "lock" ~> pc[r] = "done"
=============================================================================
