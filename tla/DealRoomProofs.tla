--------------------------- MODULE DealRoomProofs ---------------------------
(***************************************************************************)
(* Proofs about DealRoom, for any number of requests, actors and             *)
(* organizations.                                                           *)
(*                                                                         *)
(* What the room says of itself is kept because of three facts about a        *)
(* request in flight: its inputs are those its first checks let through       *)
(* (InputsOK), under the lock what it read last is still so (ReadIsCurrent),  *)
(* and the condition it is going to post does not exist yet                  *)
(* (PostedAtTheEnd).  The timeline is carried as a chain (EventChain), which  *)
(* says the same as TimelineReplaysStatus without concatenating sequences.    *)
(***************************************************************************)
EXTENDS DealRoom, TLAPS

Running == {"lock", "fresh", "write"}

IsInput(in) ==
    \/ in = [op |-> "post"]
    \/ \E c \in Requests, s \in RequestedStates :
          in = [op |-> "resolve", condition |-> c, state |-> s]
    \/ \E t \in RequestedDecisions : in = [op |-> "decide", type |-> t]

InputsOK == \A r \in Requests : pc[r] \in Running => IsInput(input[r])

ReadIsCurrent == \A r \in Requests : pc[r] = "write" => seen[r] = Fresh(r)

PostedAtTheEnd == \A r \in Requests : pc[r] # "done" => condition[r] = "ABSENT"

EventChain ==
    /\ events \in Seq(DealRoomStatuses \X DealRoomStatuses)
    /\ \A i \in 1..Len(events) :
          /\ events[i] \in DealRoomTransitions
          /\ events[i][1] = IF i = 1 THEN "OPEN" ELSE events[i - 1][2]
    /\ status = IF Len(events) = 0 THEN "OPEN" ELSE events[Len(events)][2]

\* The functions the requests live in, which TypeOK leaves untyped.
Frame ==
    /\ input = [r \in Requests |-> input[r]]
    /\ seen = [r \in Requests |-> seen[r]]

IInv ==
    /\ TypeOK
    /\ Frame
    /\ InputsOK
    /\ ReadIsCurrent
    /\ PostedAtTheEnd
    /\ EventChain
    /\ StatusIsExplained

-----------------------------------------------------------------------------
(* The tables                                                              *)

\* A room only ever moves between its statuses.
LEMMA RoomMoves == \A m \in DealRoomTransitions : m \in DealRoomStatuses \X DealRoomStatuses
  BY DEF DealRoomTransitions, DealRoomStatuses

\* Only a PENDING condition takes a state that a request may ask for.
LEMMA OnlyPendingResolves ==
    \A x, s : s \in RequestedStates /\ <<x, s>> \in ConditionTransitions => x = "PENDING"
  BY DEF RequestedStates, ConditionTransitions

LEMMA StateTypes ==
    /\ RequestedStates \subseteq ConditionStates
    /\ "PENDING" \in ConditionStates
    /\ "ABSENT" \notin RequestedStates \cup {"PENDING"}
  BY DEF RequestedStates, ConditionStates

\* computeNextStatus moves an undecided room on an approval or a decline, and
\* nothing else.
LEMMA NextStatusIs ==
    ASSUME NEW t \in RequestedDecisions, NEW s \in DealRoomStatuses
    PROVE  /\ s \in {"OPEN", "CONDITIONS"} /\ t = "APPROVAL" => NextStatus(t, s) = "APPROVED"
           /\ s \in {"OPEN", "CONDITIONS"} /\ t = "DECLINE" => NextStatus(t, s) = "DECLINED"
           /\ s \notin {"OPEN", "CONDITIONS"} \/ t = "EXCEPTION" => NextStatus(t, s) = Nobody
  BY DEF RequestedDecisions, NextStatus

-----------------------------------------------------------------------------
(* What the invariant says of the sequences                                *)

\* The status is one of four while the invariant holds: nothing in the service
\* activates or archives a room.
LEMMA FourStatuses ==
    ASSUME IInv
    PROVE  /\ Decisive = {} => status \in {"OPEN", "CONDITIONS"}
           /\ Decisive # {} => status \in {"APPROVED", "DECLINED"}
  BY DEF IInv, StatusIsExplained

\* The chain is the timeline that getTimeline replays.
LEMMA ChainReplays == EventChain => TimelineReplaysStatus
  <1> SUFFICES ASSUME EventChain PROVE TimelineReplaysStatus
    OBVIOUS
  <1> DEFINE to == [i \in DOMAIN events |-> events[i][2]]
             stage == <<"OPEN">> \o to
  <1>1. DOMAIN events = 1..Len(events) /\ Len(events) \in Nat
    BY DEF EventChain
  <1>2. to \in Seq(DealRoomStatuses) /\ Len(to) = Len(events)
    BY <1>1 DEF EventChain
  <1>3. \A i \in 1..Len(events) : to[i] = events[i][2]
    BY <1>1
  <1> HIDE DEF to
  <1>4. <<"OPEN">> \in Seq(DealRoomStatuses) /\ Len(<<"OPEN">>) = 1
    BY DEF DealRoomStatuses
  <1>5. stage[1] = "OPEN" /\ Len(stage) = Len(events) + 1
    BY <1>1, <1>2, <1>4
  <1>6. \A i \in 1..Len(events) : stage[i + 1] = events[i][2]
    BY <1>1, <1>2, <1>3, <1>4
  <1> HIDE DEF stage
  <1>7. \A i \in 1..Len(events) : events[i] = <<events[i][1], events[i][2]>>
    BY DEF EventChain
  <1>8. \A i \in 1..Len(events) : events[i][1] = stage[i]
    <2> SUFFICES ASSUME NEW i \in 1..Len(events) PROVE events[i][1] = stage[i]
      OBVIOUS
    <2>1. CASE i = 1
      BY <2>1, <1>5 DEF EventChain
    <2>2. CASE i # 1
      <3>1. i - 1 \in 1..Len(events) /\ (i - 1) + 1 = i
        BY <2>2, <1>1
      <3>2. events[i][1] = events[i - 1][2]
        BY <2>2 DEF EventChain
      <3> QED BY <3>1, <3>2, <1>6
    <2> QED BY <2>1, <2>2
  <1>9. \A i \in DOMAIN events : events[i] = <<stage[i], stage[i + 1]>> /\ events[i] \in DealRoomTransitions
    BY <1>1, <1>6, <1>7, <1>8 DEF EventChain
  <1>10. stage[Len(stage)] = status
    <2>1. CASE Len(events) = 0
      BY <2>1, <1>5 DEF EventChain
    <2>2. CASE Len(events) # 0
      <3>1. Len(events) \in 1..Len(events)
        BY <2>2, <1>1
      <3> QED BY <2>2, <3>1, <1>5, <1>6 DEF EventChain
    <2> QED BY <2>1, <2>2
  <1> QED BY <1>9, <1>10 DEF TimelineReplaysStatus, stage, to

\* A move that is recorded extends the chain.
LEMMA MoveExtendsChain ==
    ASSUME EventChain, NEW to, MoveTo(status, to)
    PROVE  EventChain'
  <1>1. CASE to = Nobody
    BY <1>1 DEF MoveTo, EventChain
  <1>2. CASE to # Nobody
    <2> DEFINE n == Len(events)
               e == <<status, to>>
    <2>1. e \in DealRoomTransitions /\ status' = to /\ events' = Append(events, e)
      BY <1>2 DEF MoveTo, StageChanged
    <2>2. e \in DealRoomStatuses \X DealRoomStatuses /\ e[1] = status /\ e[2] = to
      BY <2>1, RoomMoves
    <2>3. n \in Nat /\ events \in Seq(DealRoomStatuses \X DealRoomStatuses)
      BY DEF EventChain
    <2> HIDE DEF e
    <2>4. /\ events' \in Seq(DealRoomStatuses \X DealRoomStatuses)
          /\ Len(events') = n + 1
          /\ events'[n + 1] = e
          /\ \A i \in 1..n : events'[i] = events[i]
      BY <2>1, <2>2, <2>3
    <2>5. \A i \in 1..n : /\ events'[i] \in DealRoomTransitions
                          /\ events'[i][1] = IF i = 1 THEN "OPEN" ELSE events'[i - 1][2]
      <3> SUFFICES ASSUME NEW i \in 1..n
                   PROVE  /\ events'[i] \in DealRoomTransitions
                          /\ events'[i][1] = IF i = 1 THEN "OPEN" ELSE events'[i - 1][2]
        OBVIOUS
      <3>1. i # 1 => i - 1 \in 1..n
        BY <2>3
      <3> QED BY <3>1, <2>4 DEF EventChain
    <2>6. /\ events'[n + 1] \in DealRoomTransitions
          /\ events'[n + 1][1] = IF n + 1 = 1 THEN "OPEN" ELSE events'[(n + 1) - 1][2]
      <3>1. n # 0 => (n + 1) - 1 \in 1..n /\ (n + 1) - 1 = n
        BY <2>3
      <3> QED BY <3>1, <2>1, <2>2, <2>3, <2>4 DEF EventChain
    <2>7. \A i \in 1..(n + 1) : i \in 1..n \/ i = n + 1
      BY <2>3
    <2>8. status' = events'[n + 1][2] /\ n + 1 # 0
      BY <2>1, <2>2, <2>3, <2>4
    <2> HIDE DEF n
    <2> QED BY <2>4, <2>5, <2>6, <2>7, <2>8 DEF EventChain
  <1> QED BY <1>1, <1>2

-----------------------------------------------------------------------------
(* The inductive invariant                                                 *)

LEMMA InitIInv == Init => IInv
  <1> SUFFICES ASSUME Init PROVE IInv
    OBVIOUS
  <1>1. TypeOK
    BY DealRoomAssumption DEF Init, TypeOK, DealRoomStatuses, Statements
  <1>2. Frame /\ InputsOK /\ ReadIsCurrent /\ PostedAtTheEnd
    BY DEF Init, Frame, InputsOK, ReadIsCurrent, PostedAtTheEnd, Running
  <1>3. EventChain
    BY DEF Init, EventChain
  <1>4. StatusIsExplained
    <2>1. decisions = <<"QUOTE_SELECTED">> /\ DOMAIN decisions = {1} /\ decisions[1] = "QUOTE_SELECTED"
      BY DEF Init
    <2>2. Decisive = {}
      BY <2>1 DEF Decisive
    <2> QED BY <2>2 DEF Init, StatusIsExplained
  <1> QED BY <1>1, <1>2, <1>3, <1>4 DEF IInv

\* The rows' facts read only rows.
LEMMA RowsUnchanged ==
    ASSUME IInv, UNCHANGED rows
    PROVE  EventChain' /\ StatusIsExplained'
  BY DEF IInv, rows, EventChain, StatusIsExplained, Decisive

LEMMA BeginKeeps ==
    ASSUME IInv, NEW r \in Requests, NEW in, NEW read, Begin(r, in, read), IsInput(in)
    PROVE  IInv'
  <1>1. EventChain' /\ StatusIsExplained'
    BY RowsUnchanged DEF Begin
  <1>2. TypeOK' /\ Frame'
    BY DEF IInv, TypeOK, Frame, Begin, rows, Statements
  <1>3. InputsOK'
    <2>1. input'[r] = in /\ \A q \in Requests : q # r => pc'[q] = pc[q] /\ input'[q] = input[q]
      BY DEF IInv, TypeOK, Frame, Begin
    <2> QED BY <2>1 DEF IInv, InputsOK
  <1>4. ReadIsCurrent' /\ PostedAtTheEnd'
    BY DEF IInv, TypeOK, Frame, ReadIsCurrent, PostedAtTheEnd, Begin, Fresh, rows
  <1> QED BY <1>1, <1>2, <1>3, <1>4 DEF IInv

LEMMA AcquireKeeps ==
    ASSUME IInv, NEW r \in Requests, Acquire(r)
    PROVE  IInv'
  <1>1. EventChain' /\ StatusIsExplained'
    BY RowsUnchanged DEF Acquire
  <1>2. TypeOK' /\ Frame'
    BY DealRoomAssumption DEF IInv, TypeOK, Frame, Acquire, LockIsFree, rows, Statements
  <1>3. InputsOK'
    <2>1. pc[r] \in Running /\ \A q \in Requests : q # r => pc'[q] = pc[q]
      BY DEF IInv, TypeOK, Acquire, Running
    <2>2. input' = input
      BY DEF Acquire
    <2> QED BY <2>1, <2>2 DEF IInv, InputsOK
  <1>4. ReadIsCurrent' /\ PostedAtTheEnd'
    BY DEF IInv, TypeOK, ReadIsCurrent, PostedAtTheEnd, Acquire, Fresh, rows
  <1> QED BY <1>1, <1>2, <1>3, <1>4 DEF IInv

LEMMA FreshReadKeeps ==
    ASSUME IInv, NEW r \in Requests, FreshRead(r)
    PROVE  IInv'
  <1>1. EventChain' /\ StatusIsExplained'
    BY RowsUnchanged DEF FreshRead
  <1>2. TypeOK' /\ Frame'
    BY DEF IInv, TypeOK, Frame, FreshRead, rows, Statements
  <1>3. InputsOK'
    <2>1. pc[r] \in Running /\ \A q \in Requests : q # r => pc'[q] = pc[q]
      BY DEF IInv, TypeOK, FreshRead, Running
    <2>2. input' = input
      BY DEF FreshRead
    <2> QED BY <2>1, <2>2 DEF IInv, InputsOK
  <1>4. ReadIsCurrent' /\ PostedAtTheEnd'
    BY DEF IInv, TypeOK, Frame, ReadIsCurrent, PostedAtTheEnd, FreshRead, Fresh, rows
  <1> QED BY <1>1, <1>2, <1>3, <1>4 DEF IInv

\* The end of a request's transaction frees the lock and forgets its inputs.
LEMMA EndKeeps ==
    ASSUME IInv, NEW r \in Requests, NEW ok, End(r, ok)
    PROVE  /\ pc' \in [Requests -> Statements]
           /\ lock' \in Requests \cup {Nobody}
           /\ \A q \in Requests : pc'[q] \in {"fresh", "write"} <=> lock' = q
           /\ Frame'
           /\ InputsOK'
           /\ pc'[r] = "done"
           /\ \A q \in Requests : q # r => pc'[q] = pc[q] /\ input'[q] = input[q] /\ seen'[q] = seen[q]
  <1>1. pc' \in [Requests -> Statements] /\ pc'[r] = "done"
    BY DEF IInv, TypeOK, End, Statements
  <1>2. Frame'
    BY DEF IInv, Frame, End
  <1>3. \A q \in Requests : q # r => pc'[q] = pc[q] /\ input'[q] = input[q] /\ seen'[q] = seen[q]
    BY DEF IInv, TypeOK, Frame, End
  <1>4. lock' \in Requests \cup {Nobody}
    BY DEF IInv, TypeOK, End, Unlocked
  <1>5. \A q \in Requests : pc'[q] \in {"fresh", "write"} <=> lock' = q
    BY <1>1, <1>3, DealRoomAssumption DEF IInv, TypeOK, End, Unlocked
  <1>6. InputsOK'
    <2>1. \A q \in Requests : pc'[q] \in Running => q # r
      BY <1>1 DEF Running
    <2>2. \A q \in Requests : pc'[q] \in Running => pc[q] \in Running /\ input'[q] = input[q]
      BY <1>3, <2>1
    <2>3. InputsOK
      BY DEF IInv
    <2> QED BY <2>2, <2>3 DEF InputsOK
  <1> QED BY <1>1, <1>2, <1>3, <1>4, <1>5, <1>6

\* The request that writes is the only one inside its transaction, so it makes no
\* other request's last read stale.
LEMMA WriterIsAlone ==
    ASSUME IInv, NEW r \in Requests, pc[r] = "write", NEW ok, End(r, ok)
    PROVE  ReadIsCurrent'
  <1>1. \A q \in Requests : q # r => pc[q] # "write"
    BY DEF IInv, TypeOK
  <1> QED BY <1>1, EndKeeps DEF ReadIsCurrent

LEMMA StopKeeps ==
    ASSUME IInv, NEW r \in Requests, Stop(r)
    PROVE  IInv'
  <1>1. EventChain' /\ StatusIsExplained'
    BY RowsUnchanged DEF Stop
  <1>2. End(r, FALSE) /\ UNCHANGED rows
    BY DEF Stop
  <1>3. TypeOK' /\ Frame' /\ InputsOK'
    BY <1>2, EndKeeps DEF IInv, TypeOK, rows
  <1>4. ReadIsCurrent'
    <2> SUFFICES ASSUME NEW q \in Requests, pc'[q] = "write" PROVE seen'[q] = Fresh(q)'
      BY DEF ReadIsCurrent
    <2>1. q # r /\ pc[q] = "write" /\ input'[q] = input[q] /\ seen'[q] = seen[q]
      BY <1>2, EndKeeps
    <2>2. Fresh(q)' = Fresh(q)
      BY <1>2, <2>1 DEF Fresh, rows
    <2> QED BY <2>1, <2>2 DEF IInv, ReadIsCurrent
  <1>5. PostedAtTheEnd'
    BY <1>2, EndKeeps DEF IInv, PostedAtTheEnd, rows
  <1> QED BY <1>1, <1>3, <1>4, <1>5 DEF IInv

\* A request that runs is of one of the three kinds, which op tells apart.
LEMMA InputKinds ==
    ASSUME IInv, NEW r \in Requests, pc[r] \in Running
    PROVE  /\ input[r].op = "resolve" => \E c \in Requests, s \in RequestedStates :
                 input[r].condition = c /\ input[r].state = s
           /\ input[r].op = "decide" => \E t \in RequestedDecisions : input[r].type = t
  <1>1. CASE input[r] = [op |-> "post"]
    <2>1. input[r].op = "post"
      BY <1>1
    <2> QED BY <2>1
  <1>2. ASSUME NEW c \in Requests, NEW s \in RequestedStates,
               input[r] = [op |-> "resolve", condition |-> c, state |-> s]
        PROVE  input[r].op = "resolve" /\ input[r].condition = c /\ input[r].state = s
    BY <1>2
  <1>3. ASSUME NEW t \in RequestedDecisions, input[r] = [op |-> "decide", type |-> t]
        PROVE  input[r].op = "decide" /\ input[r].type = t
    BY <1>3
  <1>4. IsInput(input[r])
    BY DEF IInv, InputsOK
  <1> QED BY <1>1, <1>2, <1>3, <1>4 DEF IsInput

LEMMA PostWriteKeeps ==
    ASSUME IInv, NEW r \in Requests, PostWrite(r)
    PROVE  IInv'
  <1>1. End(r, TRUE) /\ pc[r] = "write" /\ decisions' = decisions
    BY DEF PostWrite
  <1>2. seen[r] = status
    BY DEF PostWrite, IInv, ReadIsCurrent, Fresh
  <1> DEFINE to == IF status = "OPEN" THEN "CONDITIONS" ELSE Nobody
  <1>3. MoveTo(status, to)
    BY <1>2 DEF PostWrite
  <1>4. status' = IF status = "OPEN" THEN "CONDITIONS" ELSE status
    BY <1>3, DealRoomAssumption DEF MoveTo, DealRoomStatuses
  <1>5. /\ condition' \in [Requests -> ConditionStates \cup {"ABSENT"}]
        /\ condition'[r] = "PENDING"
        /\ \A c \in Requests : c # r => condition'[c] = condition[c]
    BY StateTypes DEF PostWrite, IInv, TypeOK
  <1>6. EventChain'
    BY <1>3, MoveExtendsChain DEF IInv
  <1>7. TypeOK' /\ Frame' /\ InputsOK'
    <2>1. status' \in DealRoomStatuses
      BY <1>4 DEF IInv, TypeOK, DealRoomStatuses
    <2>2. decisions' \in Seq(RequestedDecisions \cup {"QUOTE_SELECTED"})
      BY <1>1 DEF IInv, TypeOK
    <2> QED BY <1>1, <1>5, <2>1, <2>2, EndKeeps DEF TypeOK
  <1>8. ReadIsCurrent' /\ PostedAtTheEnd'
    <2>1. pc'[r] = "done" /\ \A q \in Requests : q # r => pc'[q] = pc[q]
      BY <1>1, EndKeeps
    <2>2. PostedAtTheEnd'
      BY <1>5, <2>1 DEF IInv, PostedAtTheEnd
    <2> QED BY <1>1, <2>2, WriterIsAlone
  <1>9. StatusIsExplained'
    <2>1. Decisive' = Decisive
      BY <1>1 DEF Decisive
    <2>2. CASE Decisive = {}
      <3>1. status' = "CONDITIONS"
        BY <1>4, <2>2, FourStatuses
      <3>2. \E c \in Requests : condition'[c] # "ABSENT"
        BY <1>5
      <3> QED BY <2>1, <2>2, <3>1, <3>2 DEF StatusIsExplained
    <2>3. CASE Decisive # {}
      <3>1. status' = status
        BY <1>4, <2>3, FourStatuses
      <3> QED BY <1>1, <2>1, <2>3, <3>1 DEF IInv, StatusIsExplained
    <2> QED BY <2>2, <2>3
  <1> QED BY <1>6, <1>7, <1>8, <1>9 DEF IInv

\* What a resolution that commits does to its condition.
LEMMA ResolveStep ==
    ASSUME IInv, NEW r \in Requests, ResolveWrite(r)
    PROVE  \E c \in Requests, s \in RequestedStates :
              /\ condition[c] = "PENDING"
              /\ condition' = [condition EXCEPT ![c] = s]
  <1>1. PICK c \in Requests, s \in RequestedStates : input[r].condition = c /\ input[r].state = s
    BY InputKinds DEF ResolveWrite, Running
  <1>2. seen[r] = condition[c]
    BY <1>1 DEF ResolveWrite, IInv, ReadIsCurrent, Fresh
  <1>3. condition[c] = "PENDING" /\ condition' = [condition EXCEPT ![c] = s]
    BY <1>1, <1>2, OnlyPendingResolves DEF ResolveWrite
  <1> QED BY <1>3

LEMMA ResolveWriteKeeps ==
    ASSUME IInv, NEW r \in Requests, ResolveWrite(r)
    PROVE  IInv'
  <1>1. End(r, TRUE) /\ pc[r] = "write" /\ UNCHANGED <<status, decisions, events>>
    BY DEF ResolveWrite
  <1>2. PICK c \in Requests, s \in RequestedStates :
           condition[c] = "PENDING" /\ condition' = [condition EXCEPT ![c] = s]
    BY ResolveStep
  <1>3. /\ condition' \in [Requests -> ConditionStates \cup {"ABSENT"}]
        /\ \A d \in Requests : condition'[d] = "ABSENT" <=> condition[d] = "ABSENT"
    BY <1>2, StateTypes DEF IInv, TypeOK
  <1>4. EventChain'
    BY <1>1 DEF IInv, EventChain
  <1>5. TypeOK' /\ Frame' /\ InputsOK'
    BY <1>1, <1>3, EndKeeps DEF IInv, TypeOK
  <1>6. ReadIsCurrent' /\ PostedAtTheEnd'
    BY <1>1, <1>3, EndKeeps, WriterIsAlone DEF IInv, PostedAtTheEnd
  <1>7. StatusIsExplained'
    BY <1>1, <1>3 DEF IInv, StatusIsExplained, Decisive
  <1> QED BY <1>4, <1>5, <1>6, <1>7 DEF IInv

LEMMA DecideWriteKeeps ==
    ASSUME IInv, NEW r \in Requests, DecideWrite(r)
    PROVE  IInv'
  <1>1. End(r, TRUE) /\ pc[r] = "write" /\ condition' = condition
    BY DEF DecideWrite
  <1>2. PICK t \in RequestedDecisions : input[r].type = t
    BY InputKinds DEF DecideWrite, Running
  <1>3. seen[r] = status
    BY <1>2 DEF DecideWrite, IInv, ReadIsCurrent, Fresh
  <1>4. MoveTo(status, NextStatus(t, status)) /\ decisions' = Append(decisions, t)
    BY <1>2, <1>3 DEF DecideWrite
  <1>5. status \in DealRoomStatuses /\ decisions \in Seq(RequestedDecisions \cup {"QUOTE_SELECTED"})
    BY DEF IInv, TypeOK
  <1> DEFINE n == Len(decisions)
  <1>6. /\ decisions' \in Seq(RequestedDecisions \cup {"QUOTE_SELECTED"})
        /\ n \in Nat
        /\ DOMAIN decisions = 1..n
        /\ DOMAIN decisions' = 1..(n + 1)
        /\ decisions'[n + 1] = t
        /\ \A i \in 1..n : decisions'[i] = decisions[i]
    BY <1>4, <1>5
  <1>7. /\ NextStatus(t, status) = Nobody => status' = status
        /\ NextStatus(t, status) # Nobody => status' = NextStatus(t, status)
    BY <1>4 DEF MoveTo
  <1>8. status' \in DealRoomStatuses
    BY <1>5, <1>7, NextStatusIs DEF DealRoomStatuses, RequestedDecisions
  <1> HIDE DEF n
  <1>9. TypeOK' /\ Frame' /\ InputsOK'
    BY <1>1, <1>6, <1>8, EndKeeps DEF IInv, TypeOK
  <1>10. EventChain'
    BY <1>4, MoveExtendsChain DEF IInv
  <1>11. ReadIsCurrent' /\ PostedAtTheEnd'
    BY <1>1, EndKeeps, WriterIsAlone DEF IInv, PostedAtTheEnd
  <1>12. StatusIsExplained'
    <2>1. Decisive \subseteq 1..n
      BY <1>6 DEF Decisive
    <2>2. Decisive' = Decisive \cup (IF t = "EXCEPTION" THEN {} ELSE {n + 1})
      BY <1>6 DEF Decisive, RequestedDecisions
    <2>3. CASE Decisive = {} /\ t = "EXCEPTION"
      <3>1. Decisive' = {} /\ status' = status
        BY <1>5, <1>7, <2>2, <2>3, NextStatusIs
      <3> QED BY <1>1, <2>3, <3>1 DEF IInv, StatusIsExplained
    <2>4. CASE Decisive = {} /\ t # "EXCEPTION"
      <3>1. Decisive' = {n + 1}
        BY <2>2, <2>4
      <3>2. status' = IF t = "APPROVAL" THEN "APPROVED" ELSE "DECLINED"
        BY <1>5, <1>7, <2>4, NextStatusIs, FourStatuses, DealRoomAssumption
           DEF RequestedDecisions, DealRoomStatuses
      <3> QED BY <1>6, <3>1, <3>2 DEF StatusIsExplained
    <2>5. CASE Decisive # {}
      <3>1. status' = status
        BY <1>5, <1>7, <2>5, NextStatusIs, FourStatuses
      <3>2. PICK first \in Decisive :
               /\ \A i \in Decisive : first <= i
               /\ status = (IF decisions[first] = "APPROVAL" THEN "APPROVED" ELSE "DECLINED")
        BY <2>5 DEF IInv, StatusIsExplained
      <3>3. first \in Decisive' /\ \A i \in Decisive' : first <= i
        BY <1>6, <2>1, <2>2, <3>2
      <3>4. decisions'[first] = decisions[first]
        BY <1>6, <2>1
      <3> QED BY <3>1, <3>2, <3>3, <3>4 DEF StatusIsExplained
    <2> QED BY <2>3, <2>4, <2>5
  <1> QED BY <1>9, <1>10, <1>11, <1>12 DEF IInv

LEMMA NextIInv == IInv /\ [Next]_vars => IInv'
  <1> SUFFICES ASSUME IInv, [Next]_vars PROVE IInv'
    OBVIOUS
  <1>1. CASE UNCHANGED vars
    BY <1>1 DEF vars, rows, IInv, TypeOK, Frame, InputsOK, ReadIsCurrent, PostedAtTheEnd, EventChain,
       StatusIsExplained, Decisive, Fresh
  <1>2. ASSUME NEW r \in Requests, PostRead(r) PROVE IInv'
    BY <1>2, BeginKeeps DEF PostRead, IsInput
  <1>3. ASSUME NEW r \in Requests, ResolveRead(r) PROVE IInv'
    <2>1. PICK c \in Requests, state \in RequestedStates :
             Begin(r, [op |-> "resolve", condition |-> c, state |-> state], condition[c])
      BY <1>3 DEF ResolveRead
    <2> QED BY <2>1, BeginKeeps DEF IsInput
  <1>4. ASSUME NEW r \in Requests, DecideRead(r) PROVE IInv'
    <2>1. PICK type \in RequestedDecisions : Begin(r, [op |-> "decide", type |-> type], status)
      BY <1>4 DEF DecideRead
    <2> QED BY <2>1, BeginKeeps DEF IsInput
  <1> QED BY <1>1, <1>2, <1>3, <1>4, AcquireKeeps, FreshReadKeeps, PostWriteKeeps, ResolveWriteKeeps,
          DecideWriteKeeps, StopKeeps DEF Next, Rest, Arrive, Write

-----------------------------------------------------------------------------
(* The theorems                                                            *)

\* Every row of the room and every request keeps its type, and the advisory lock is
\* held by exactly the request inside its transaction.
THEOREM TypeCorrect == Spec => []TypeOK
  <1>1. IInv => TypeOK
    BY DEF IInv
  <1> QED BY <1>1, InitIInv, NextIInv, PTL DEF Spec

\* postCondition, resolveCondition and recordDecision: whatever the interleaving and
\* the failures, the room's status is what its first approval or decline, its
\* conditions and its timeline each say it is.
THEOREM Room_Sound == Spec => []RoomIsSound
  <1>1. IInv => RoomIsSound
    BY ChainReplays DEF IInv, RoomIsSound
  <1> QED BY <1>1, InitIInv, NextIInv, PTL DEF Spec

\* resolveCondition: of any number of requests that found a condition PENDING, one
\* resolves it, and its state is never written again.
THEOREM Resolved_Once == Spec => ConditionResolvedOnce
  <1> DEFINE Kept == \A c \in Requests : condition[c] \notin {"ABSENT", "PENDING"} => condition'[c] = condition[c]
  <1>1. IInv /\ [Next]_vars => [Kept]_vars
    <2> SUFFICES ASSUME IInv, Next PROVE Kept
      OBVIOUS
    <2>1. CASE UNCHANGED condition
      BY <2>1
    <2>2. ASSUME NEW r \in Requests, PostWrite(r) PROVE Kept
      <3>1. condition[r] = "ABSENT"
        BY <2>2 DEF PostWrite, IInv, PostedAtTheEnd
      <3> QED BY <2>2, <3>1 DEF PostWrite, IInv, TypeOK
    <2>3. ASSUME NEW r \in Requests, ResolveWrite(r) PROVE Kept
      <3>1. PICK c \in Requests, s \in RequestedStates :
               condition[c] = "PENDING" /\ condition' = [condition EXCEPT ![c] = s]
        BY <2>3, ResolveStep
      <3> QED BY <3>1 DEF IInv, TypeOK
    <2> QED BY <2>1, <2>2, <2>3 DEF Next, Rest, vars, rows, Arrive, PostRead, ResolveRead, DecideRead, Begin,
            Acquire, FreshRead, Write, DecideWrite, Stop
  <1>2. Init /\ [][Next]_vars => [][Kept]_vars
    BY <1>1, InitIInv, NextIInv, PTL
  <1> QED BY <1>2, PTL DEF Spec, ConditionResolvedOnce
=============================================================================
