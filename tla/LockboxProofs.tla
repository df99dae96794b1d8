--------------------------- MODULE LockboxProofs ---------------------------
(***************************************************************************)
(* Proofs about Lockbox, for any number of lockboxes, requests, keys and    *)
(* payloads.                                                                *)
(*                                                                         *)
(* The status that a transaction has checked is still the status when it     *)
(* writes, because it holds the lockbox's lock (Checked); a lockbox that was  *)
(* not opened was disclosed to nobody (Undisclosed).  For the keys: a key     *)
(* without a row is used by nobody, the request that reserved it is alone     *)
(* with it, and has sealed nothing before its handler runs (KeyInUse).        *)
(***************************************************************************)
EXTENDS Lockbox, TLAPS

Sealing == {"reserve", "seal", "complete"}
Withdrawing == {"withdrawLock", "withdrawCheck", "withdrawCommit"}
Releasing == {"releaseLock", "releaseCheck", "releaseShares", "releaseCommit"}
CheckedPoints == {"withdrawCommit", "releaseShares", "releaseCommit"}

SealInputs == [box: Boxes \cup {Nobody}, actor: Actors, key: Keys \cup {NoKey}, payload: Payloads]

\* What a request carries is of the kind its next statement needs.
InputOK(r) ==
    /\ pc[r] \in Sealing => input[r] \in SealInputs
    /\ pc[r] = "reserve" => input[r].key \in Keys
    /\ pc[r] \in Withdrawing => input[r] \in [box: Boxes]
    /\ pc[r] \in Releasing => input[r] \in [box: Boxes, recipient: Recipients]
    /\ pc[r] \in Withdrawing \cup Releasing => status[input[r].box] # "ABSENT"

\* The lock keeps what the transaction has checked.
Checked(r) == pc[r] \in CheckedPoints => status[input[r].box] = "SEALED"

Undisclosed(b) ==
    status[b] # "OPENED" => evidence[b] = <<>> /\ \A d \in disclosed : d.box # b

RowOK(b) ==
    /\ status[b] # "ABSENT" => envelope[b].text = origin[b].payload
    /\ status[b] = "WITHDRAWN" => ActiveShares(b) = {}
    /\ origin[b] # Nobody => status[b] # "ABSENT"

Frame ==
    /\ TypeOK
    /\ evidence \in [Boxes -> Seq(Recipients)]
    /\ input = [r \in Requests |-> input[r]]
    /\ shares = [b \in Boxes |-> shares[b]]
    /\ envelope = [b \in Boxes |-> envelope[b]]
    /\ origin = [b \in Boxes |-> origin[b]]
    /\ \A d \in disclosed : d.box \in Boxes

BoxInv ==
    /\ Frame
    /\ \A r \in Requests : InputOK(r) /\ Checked(r)
    /\ \A b \in Boxes : Undisclosed(b) /\ RowOK(b)
    /\ DisclosedOnceAsSealed

MadeWith(b, k) == status[b] # "ABSENT" /\ origin[b].key = k
Handling(r, k) == pc[r] \in {"seal", "complete"} /\ input[r].key = k

\* A key: free, or reserved for one request and its payload, or answered.
KeyInUse(k) ==
    /\ keyRow[k] = NoRow => /\ \A b \in Boxes : ~MadeWith(b, k)
                            /\ \A r \in Requests : ~Handling(r, k)
    /\ keyRow[k].response # Unset =>
         /\ status[keyRow[k].response] # "ABSENT"
         /\ origin[keyRow[k].response] = [key |-> k, payload |-> keyRow[k].requestHash]
    /\ \A r \in Requests : Handling(r, k) =>
         /\ keyRow[k].requestHash = input[r].payload
         /\ \A q \in Requests : Handling(q, k) => q = r
         /\ pc[r] = "seal" => \A b \in Boxes : ~MadeWith(b, k)

\* A handler that has committed knows its own lockbox.
SealedOwn(r) ==
    pc[r] = "complete" =>
        /\ input[r].box \in Boxes /\ status[input[r].box] # "ABSENT"
        /\ origin[input[r].box] = [key |-> input[r].key, payload |-> input[r].payload]

KeyInv ==
    /\ keyRow \in [Keys -> [requestHash: Payloads \cup {Unset}, response: Boxes \cup {Unset}]]
    /\ \A k \in Keys : KeyInUse(k)
    /\ \A r \in Requests : SealedOwn(r)
    /\ \A a \in answers : a.box \in Boxes /\ status[a.box] # "ABSENT"
    /\ SealIsIdempotent

-----------------------------------------------------------------------------
(* The lockboxes                                                           *)

\* Of the statuses that are written, a withdrawal and a release both start at SEALED.
LEMMA BothFromSealed ==
    \A s \in {"ABSENT", "SEALED", "WITHDRAWN", "OPENED"} : CanWithdrawFrom(s) \/ CanReleaseFrom(s) => s = "SEALED"
  <1>1. \A s \in {"ABSENT", "SEALED", "WITHDRAWN", "OPENED"} : CanWithdrawFrom(s) => s = "SEALED"
    BY DEF CanWithdrawFrom, LockboxTransitions
  <1>2. \A i \in 1..3 : LockboxReleaseCascade[i] \in {"SEALED", "COMMITTED", "FROZEN"}
    BY DEF LockboxReleaseCascade
  <1> QED BY <1>1, <1>2 DEF CanReleaseFrom

LEMMA InitBoxInv == Init => BoxInv
  BY LockboxAssumption
    DEF Init, BoxInv, Frame, TypeOK, InputOK, Checked, Undisclosed, RowOK, DisclosedOnceAsSealed,
     Sealing, Withdrawing, Releasing, CheckedPoints, InTransaction, Statements, NoInput

\* One request moves: the others stay where they are.
Moves(r) ==
    /\ pc' \in [Requests -> Statements]
    /\ input' = [q \in Requests |-> input'[q]]
    /\ \A q \in Requests : q # r => pc'[q] = pc[q] /\ input'[q] = input[q]

LocksOK ==
    /\ lock' \in [Boxes -> Requests \cup {Nobody}]
    /\ \A b \in Boxes, q \in Requests : lock'[b] = q <=> pc'[q] \in InTransaction /\ input'[q].box = b

\* TypeOK's part about the locks.
LockIsOwned ==
    \A b \in Boxes, r \in Requests : lock[b] = r <=> pc[r] \in InTransaction /\ input[r].box = b

\* A request outside transactions keeps the locks as they are.
LEMMA LocksKept ==
    ASSUME Frame, NEW r \in Requests, Moves(r), UNCHANGED lock, pc[r] \notin InTransaction, pc'[r] \notin InTransaction
    PROVE  LocksOK
  <1>1. LockIsOwned /\ lock' \in [Boxes -> Requests \cup {Nobody}]
    BY DEF Frame, TypeOK, LockIsOwned
  <1>2. ASSUME NEW b \in Boxes, NEW q \in Requests
        PROVE  lock'[b] = q <=> pc'[q] \in InTransaction /\ input'[q].box = b
    <2>1. CASE q = r
      BY <1>1, <2>1 DEF LockIsOwned
    <2>2. CASE q # r
      BY <1>1, <2>2 DEF LockIsOwned, Moves
    <2> QED BY <2>1, <2>2
  <1> QED BY <1>1, <1>2 DEF LocksOK

\* So does one that stays inside its transaction.
LEMMA LocksHeld ==
    ASSUME Frame, NEW r \in Requests, Moves(r), UNCHANGED <<lock, input>>, pc[r] \in InTransaction, pc'[r] \in InTransaction
    PROVE  LocksOK
  <1>1. LockIsOwned /\ lock' \in [Boxes -> Requests \cup {Nobody}]
    BY DEF Frame, TypeOK, LockIsOwned
  <1>2. ASSUME NEW b \in Boxes, NEW q \in Requests
        PROVE  lock'[b] = q <=> pc'[q] \in InTransaction /\ input'[q].box = b
    <2>1. CASE q = r
      BY <1>1, <2>1 DEF LockIsOwned
    <2>2. CASE q # r
      BY <1>1, <2>2 DEF LockIsOwned, Moves
    <2> QED BY <2>1, <2>2
  <1> QED BY <1>1, <1>2 DEF LocksOK

\* A request that goes to a statement, with its own input or a new one.
LEMMA GoToMoves ==
    ASSUME Frame, NEW r \in Requests, NEW to \in Statements, GoTo(r, to),
           input' = [q \in Requests |-> input'[q]], \A q \in Requests : q # r => input'[q] = input[q]
    PROVE  Moves(r) /\ pc'[r] = to
  <1>1. pc \in [Requests -> Statements]
    BY DEF Frame, TypeOK
  <1>2. pc' \in [Requests -> Statements] /\ pc'[r] = to /\ \A q \in Requests : q # r => pc'[q] = pc[q]
    BY <1>1 DEF GoTo
  <1> QED BY <1>2 DEF Moves

\* The end of a request gives its locks back.
LEMMA EndMoves ==
    ASSUME Frame, NEW r \in Requests, End(r)
    PROVE  Moves(r) /\ pc'[r] = "idle"
  <1>1. GoTo(r, "idle") /\ "idle" \in Statements
    BY DEF End, Statements
  <1>2. input' = [q \in Requests |-> input'[q]] /\ \A q \in Requests : q # r => input'[q] = input[q]
    BY DEF End, Frame
  <1> QED BY <1>1, <1>2, GoToMoves

LEMMA LocksReleased ==
    ASSUME Frame, NEW r \in Requests, End(r), lock' = Unlocked(r)
    PROVE  LocksOK
  <1>1. Moves(r) /\ pc'[r] = "idle"
    BY EndMoves
  <1>2. \A b \in Boxes : lock'[b] = IF lock[b] = r THEN Nobody ELSE lock[b]
    BY DEF Unlocked
  <1>3. lock' \in [Boxes -> Requests \cup {Nobody}]
    BY DEF Unlocked, Frame, TypeOK
  <1>4. LockIsOwned /\ "idle" \notin InTransaction /\ Nobody \notin Requests
    BY LockboxAssumption DEF Frame, TypeOK, LockIsOwned, InTransaction
  <1>5. ASSUME NEW b \in Boxes, NEW q \in Requests
        PROVE  lock'[b] = q <=> pc'[q] \in InTransaction /\ input'[q].box = b
    <2>1. CASE q = r
      BY <1>1, <1>2, <1>4, <2>1
    <2>2. CASE q # r
      BY <1>1, <1>2, <1>4, <2>2 DEF LockIsOwned, Moves
    <2> QED BY <2>1, <2>2
  <1> QED BY <1>3, <1>5 DEF LocksOK

\* A step of one request that writes no row.
LEMMA QuietBoxes ==
    ASSUME BoxInv, NEW r \in Requests, Moves(r), LocksOK, InputOK(r)', Checked(r)',
           UNCHANGED <<rows, origin, disclosed>>
    PROVE  BoxInv'
  <1>1. Frame'
    BY DEF BoxInv, Frame, TypeOK, Moves, LocksOK, rows
  <1>2. \A q \in Requests : InputOK(q)' /\ Checked(q)'
    BY DEF BoxInv, InputOK, Checked, Moves, rows
  <1>3. \A b \in Boxes : Undisclosed(b)' /\ RowOK(b)'
    BY DEF BoxInv, Undisclosed, RowOK, ActiveShares, rows
  <1>4. DisclosedOnceAsSealed'
    BY DEF BoxInv, DisclosedOnceAsSealed, rows
  <1> QED BY <1>1, <1>2, <1>3, <1>4 DEF BoxInv

LEMMA IdleBoxes ==
    ASSUME BoxInv, NEW r \in Requests, End(r), LocksOK, UNCHANGED <<rows, origin, disclosed>>
    PROVE  BoxInv'
  <1>1. Moves(r) /\ pc'[r] = "idle"
    BY EndMoves DEF BoxInv
  <1>2. "idle" \notin Sealing \cup Withdrawing \cup Releasing \cup CheckedPoints
    BY DEF Sealing, Withdrawing, Releasing, CheckedPoints
  <1>3. "idle" # "reserve"
    OBVIOUS
  <1>4. InputOK(r)'
    BY <1>1, <1>2, <1>3 DEF InputOK
  <1>5. Checked(r)'
    BY <1>1, <1>2 DEF Checked
  <1> QED BY <1>1, <1>4, <1>5, QuietBoxes

LEMMA SealFindBoxes == ASSUME BoxInv, NEW r \in Requests, SealFind(r) PROVE BoxInv'
  <1>1. PICK actor \in Actors, key \in Keys \cup {NoKey}, payload \in Payloads :
          /\ Lookup(key, payload) \in {"noKey", "absent"}
          /\ GoTo(r, IF Lookup(key, payload) = "noKey" THEN "seal" ELSE "reserve")
          /\ input' = [input EXCEPT ![r] = [box |-> Nobody, actor |-> actor, key |-> key, payload |-> payload]]
    BY DEF SealFind
  <1>2. pc[r] = "idle" /\ UNCHANGED <<rows, lock, origin, disclosed>>
    BY DEF SealFind, At, history
  <1>3. Lookup(key, payload) = "absent" => key \in Keys
    BY DEF Lookup
  <1>4. Moves(r) /\ pc'[r] = IF Lookup(key, payload) = "noKey" THEN "seal" ELSE "reserve"
    <2> DEFINE to == IF Lookup(key, payload) = "noKey" THEN "seal" ELSE "reserve"
    <2>1. to \in Statements
      BY DEF Statements
    <2>2. input' = [q \in Requests |-> input'[q]] /\ \A q \in Requests : q # r => input'[q] = input[q]
      BY <1>1 DEF BoxInv, Frame
    <2>3. Frame /\ GoTo(r, to)
      BY <1>1 DEF BoxInv
    <2> HIDE DEF to
    <2>4. Moves(r) /\ pc'[r] = to
      BY <2>1, <2>2, <2>3, GoToMoves
    <2> QED BY <2>4 DEF to
  <1>5. InputOK(r)' /\ Checked(r)'
    <2>1. input'[r] = [box |-> Nobody, actor |-> actor, key |-> key, payload |-> payload]
      BY <1>1 DEF BoxInv, Frame
    <2> QED BY <2>1, <1>1, <1>3, <1>4
      DEF InputOK, Checked, Sealing, Withdrawing, Releasing, CheckedPoints, SealInputs
  <1>6. LocksOK
    BY <1>2, <1>4, LocksKept DEF BoxInv, InTransaction
  <1> QED BY <1>2, <1>4, <1>5, <1>6, QuietBoxes

LEMMA SealReserveBoxes == ASSUME BoxInv, NEW r \in Requests, SealReserve(r) PROVE BoxInv'
  <1>1. pc[r] = "reserve" /\ GoTo(r, "seal") /\ UNCHANGED <<rows, lock, input, origin, disclosed>>
    BY DEF SealReserve, At, history
  <1>2. Moves(r) /\ pc'[r] = "seal"
    BY <1>1 DEF BoxInv, Frame, TypeOK, GoTo, Moves, Statements
  <1>3. InputOK(r)' /\ Checked(r)'
    BY <1>1, <1>2 DEF BoxInv, InputOK, Checked, Sealing, Withdrawing, Releasing, CheckedPoints, SealInputs
  <1>4. LocksOK
    BY <1>1, <1>2, LocksKept DEF BoxInv, InTransaction
  <1> QED BY <1>1, <1>2, <1>3, <1>4, QuietBoxes

LEMMA SealCompleteBoxes == ASSUME BoxInv, NEW r \in Requests, SealComplete(r) PROVE BoxInv'
  <1>1. pc[r] = "complete" /\ End(r) /\ UNCHANGED <<rows, lock, origin, disclosed>>
    BY DEF SealComplete, At
  <1>2. Moves(r) /\ pc'[r] = "idle"
    BY <1>1, EndMoves DEF BoxInv
  <1>3. LocksOK
    BY <1>1, <1>2, LocksKept DEF BoxInv, InTransaction
  <1> QED BY <1>1, <1>3, IdleBoxes

LEMMA StopBoxes == ASSUME BoxInv, NEW r \in Requests, Stop(r) PROVE BoxInv'
  BY IdleBoxes, LocksReleased DEF Stop, history, BoxInv

LEMMA WithdrawReadBoxes == ASSUME BoxInv, NEW r \in Requests, WithdrawRead(r) PROVE BoxInv'
  <1>1. PICK b \in Boxes : status[b] # "ABSENT" /\ input' = [input EXCEPT ![r] = [box |-> b]]
    BY DEF WithdrawRead
  <1>2. pc[r] = "idle" /\ GoTo(r, "withdrawLock") /\ UNCHANGED <<rows, lock, origin, disclosed>>
    BY DEF WithdrawRead, At, history
  <1>3. Moves(r) /\ pc'[r] = "withdrawLock" /\ input'[r] = [box |-> b]
    <2>1. "withdrawLock" \in Statements
      BY DEF Statements
    <2>2. pc' \in [Requests -> Statements] /\ pc'[r] = "withdrawLock" /\ \A q \in Requests : q # r => pc'[q] = pc[q]
      BY <1>2, <2>1 DEF BoxInv, Frame, TypeOK, GoTo
    <2>3. /\ input' = [q \in Requests |-> input'[q]] /\ input'[r] = [box |-> b]
          /\ \A q \in Requests : q # r => input'[q] = input[q]
      BY <1>1 DEF BoxInv, Frame
    <2> QED BY <2>2, <2>3 DEF Moves
  <1>4. InputOK(r)' /\ Checked(r)'
    BY <1>1, <1>2, <1>3 DEF InputOK, Checked, Sealing, Withdrawing, Releasing, CheckedPoints, rows
  <1>5. LocksOK
    BY <1>2, <1>3, LocksKept DEF BoxInv, InTransaction
  <1> QED BY <1>2, <1>3, <1>4, <1>5, QuietBoxes

LEMMA ReleaseReadBoxes == ASSUME BoxInv, NEW r \in Requests, ReleaseRead(r) PROVE BoxInv'
  <1>1. PICK b \in Boxes, recipient \in Recipients :
          status[b] # "ABSENT" /\ input' = [input EXCEPT ![r] = [box |-> b, recipient |-> recipient]]
    BY DEF ReleaseRead
  <1>2. pc[r] = "idle" /\ GoTo(r, "releaseLock") /\ UNCHANGED <<rows, lock, origin, disclosed>>
    BY DEF ReleaseRead, At, history
  <1>3. Moves(r) /\ pc'[r] = "releaseLock" /\ input'[r] = [box |-> b, recipient |-> recipient]
    <2>1. "releaseLock" \in Statements
      BY DEF Statements
    <2>2. pc' \in [Requests -> Statements] /\ pc'[r] = "releaseLock" /\ \A q \in Requests : q # r => pc'[q] = pc[q]
      BY <1>2, <2>1 DEF BoxInv, Frame, TypeOK, GoTo
    <2>3. /\ input' = [q \in Requests |-> input'[q]] /\ input'[r] = [box |-> b, recipient |-> recipient]
          /\ \A q \in Requests : q # r => input'[q] = input[q]
      BY <1>1 DEF BoxInv, Frame
    <2> QED BY <2>2, <2>3 DEF Moves
  <1>4. InputOK(r)' /\ Checked(r)'
    BY <1>1, <1>2, <1>3 DEF InputOK, Checked, Sealing, Withdrawing, Releasing, CheckedPoints, rows
  <1>5. LocksOK
    BY <1>2, <1>3, LocksKept DEF BoxInv, InTransaction
  <1> QED BY <1>2, <1>3, <1>4, <1>5, QuietBoxes

LEMMA AcquireBoxes == ASSUME BoxInv, NEW r \in Requests, Acquire(r) PROVE BoxInv'
  <1> DEFINE b == input[r].box
             to == IF pc[r] = "withdrawLock" THEN "withdrawCheck" ELSE "releaseCheck"
  <1>1. /\ pc[r] \in {"withdrawLock", "releaseLock"} /\ lock[b] = Nobody /\ lock' = [lock EXCEPT ![b] = r]
        /\ GoTo(r, to) /\ UNCHANGED <<rows, input, origin, disclosed>>
    BY DEF Acquire, LockIsFree, At, history
  <1>2. b \in Boxes
    BY <1>1 DEF BoxInv, InputOK, Withdrawing, Releasing
  <1>3. Moves(r) /\ pc'[r] = to
    BY <1>1 DEF BoxInv, Frame, TypeOK, GoTo, Moves, Statements, InTransaction
  <1>4. InputOK(r)' /\ Checked(r)'
    BY <1>1, <1>3 DEF BoxInv, InputOK, Checked, Sealing, Withdrawing, Releasing, CheckedPoints, rows
  <1>5. LocksOK
    <2>1. lock' \in [Boxes -> Requests \cup {Nobody}]
      BY <1>1, <1>2 DEF BoxInv, Frame, TypeOK
    <2>2. \A c \in Boxes : lock'[c] = IF c = b THEN r ELSE lock[c]
      BY <1>1, <1>2 DEF BoxInv, Frame, TypeOK
    <2>3. to \in InTransaction /\ pc[r] \notin InTransaction
      BY <1>1 DEF InTransaction
    <2> HIDE DEF to
    <2>4. \A c \in Boxes, q \in Requests : lock'[c] = q <=> pc'[q] \in InTransaction /\ input'[q].box = c
      <3> SUFFICES ASSUME NEW c \in Boxes, NEW q \in Requests
                   PROVE  lock'[c] = q <=> pc'[q] \in InTransaction /\ input'[q].box = c
        OBVIOUS
      <3>1. lock[c] = q <=> pc[q] \in InTransaction /\ input[q].box = c
        BY DEF BoxInv, Frame, TypeOK
      <3>2. CASE q = r
        BY <3>1, <3>2, <1>1, <1>3, <2>2, <2>3
      <3>3. CASE q # r
        BY <3>1, <3>3, <1>1, <1>3, <2>2, LockboxAssumption DEF Moves
      <3> QED BY <3>2, <3>3
    <2> QED BY <2>1, <2>4 DEF LocksOK
  <1> QED BY <1>1, <1>3, <1>4, <1>5, QuietBoxes

LEMMA CheckBoxes ==
    ASSUME BoxInv, NEW r \in Requests, WithdrawCheck(r) \/ ReleaseCheck(r) \/ ReleaseShares(r)
    PROVE  BoxInv'
  <1>1. /\ UNCHANGED <<rows, lock, input, origin, disclosed>>
        /\ \/ pc[r] = "withdrawCheck" /\ GoTo(r, "withdrawCommit") /\ CanWithdrawFrom(status[input[r].box])
           \/ pc[r] = "releaseCheck" /\ GoTo(r, "releaseShares") /\ CanReleaseFrom(status[input[r].box])
           \/ pc[r] = "releaseShares" /\ GoTo(r, "releaseCommit")
    BY DEF WithdrawCheck, ReleaseCheck, ReleaseShares, FreshWithdrawAllowed, FreshReleaseAllowed, At, history
  <1>2. /\ Moves(r)
        /\ \/ pc[r] = "withdrawCheck" /\ pc'[r] = "withdrawCommit"
           \/ pc[r] = "releaseCheck" /\ pc'[r] = "releaseShares"
           \/ pc[r] = "releaseShares" /\ pc'[r] = "releaseCommit"
    <2>1. /\ pc \in [Requests -> Statements] /\ input = [q \in Requests |-> input[q]]
          /\ {"withdrawCommit", "releaseShares", "releaseCommit"} \subseteq Statements
      BY DEF BoxInv, Frame, TypeOK, Statements, InTransaction
    <2> QED BY <1>1, <2>1 DEF GoTo, Moves
  <1>3. input[r].box \in Boxes
    BY <1>2 DEF BoxInv, InputOK, Withdrawing, Releasing
  <1>4. status[input[r].box] = "SEALED"
    <2>1. status[input[r].box] \in {"ABSENT", "SEALED", "WITHDRAWN", "OPENED"}
      BY <1>3 DEF BoxInv, Frame, TypeOK
    <2>2. pc[r] = "releaseShares" => status[input[r].box] = "SEALED"
      BY DEF BoxInv, Checked, CheckedPoints
    <2> QED BY <1>1, <2>1, <2>2, BothFromSealed
  <1>5. InputOK(r)' /\ Checked(r)'
    BY <1>1, <1>2, <1>4 DEF BoxInv, InputOK, Checked, Sealing, Withdrawing, Releasing, CheckedPoints, rows
  <1>6. LocksOK
    BY <1>1, <1>2, LocksHeld DEF BoxInv, InTransaction
  <1> QED BY <1>1, <1>2, <1>5, <1>6, QuietBoxes

\* Other requests are in order when the rows of no other lockbox change.
LEMMA OtherRequests ==
    ASSUME BoxInv, NEW b \in Boxes, NEW q \in Requests, pc'[q] = pc[q], input'[q] = input[q],
           \A c \in Boxes : c # b => status'[c] = status[c],
           status'[b] # "ABSENT",
           ~(pc[q] \in CheckedPoints /\ input[q].box = b)
    PROVE  InputOK(q)' /\ Checked(q)'
  <1>1. pc[q] \in CheckedPoints => pc[q] \in Withdrawing \cup Releasing
    BY DEF CheckedPoints, Withdrawing, Releasing
  <1>2. pc[q] \in Withdrawing \cup Releasing => input[q].box \in Boxes
    BY DEF BoxInv, InputOK
  <1>3. InputOK(q)'
    BY <1>2 DEF BoxInv, InputOK
  <1>4. Checked(q)'
    BY <1>1, <1>2 DEF BoxInv, Checked
  <1> QED BY <1>3, <1>4

LEMMA SealCommitBoxes == ASSUME BoxInv, NEW r \in Requests, SealCommit(r) PROVE BoxInv'
  <1> DEFINE in == input[r]
  <1>1. PICK b \in Boxes, dek \in Deks, coeff \in DekCoeffs :
          /\ status[b] = "ABSENT"
          /\ CreateSealed(b, in.actor.organizationId, in.payload, dek, coeff)
          /\ origin' = [origin EXCEPT ![b] = [key |-> in.key, payload |-> in.payload]]
          /\ input' = [input EXCEPT ![r].box = b]
    BY DEF SealCommit
  <1>2. pc[r] = "seal" /\ GoTo(r, "complete") /\ UNCHANGED <<lock, disclosed>>
    BY DEF SealCommit, At
  <1>3. in \in SealInputs
    BY <1>2 DEF BoxInv, InputOK, Sealing
  <1>4. /\ input' = [q \in Requests |-> input'[q]] /\ input'[r] \in SealInputs
        /\ \A q \in Requests : q # r => input'[q] = input[q]
    BY <1>1, <1>3 DEF BoxInv, Frame, SealInputs
  <1>5. pc' \in [Requests -> Statements] /\ pc'[r] = "complete" /\ \A q \in Requests : q # r => pc'[q] = pc[q]
    BY <1>2 DEF BoxInv, Frame, TypeOK, GoTo, Statements
  <1>6. LocksOK
    BY <1>2, <1>4, <1>5, LocksKept DEF BoxInv, InTransaction, Moves
  <1>7. /\ status' = [status EXCEPT ![b] = "SEALED"]
        /\ envelope' = [envelope EXCEPT ![b] = Encrypt(in.payload, dek, b)]
        /\ shares' = [shares EXCEPT ![b] = WrappedShares(dek, coeff)]
        /\ UNCHANGED evidence
    BY <1>1 DEF CreateSealed
  <1>8. Frame'
    <2>1. status' \in [Boxes -> {"ABSENT", "SEALED", "WITHDRAWN", "OPENED"}]
      BY <1>7 DEF BoxInv, Frame, TypeOK
    <2>2. TypeOK' /\ evidence' \in [Boxes -> Seq(Recipients)]
      BY <1>5, <1>6, <1>7, <2>1 DEF BoxInv, Frame, TypeOK, LocksOK
    <2>3. shares' = [c \in Boxes |-> shares'[c]] /\ envelope' = [c \in Boxes |-> envelope'[c]]
      BY <1>7 DEF BoxInv, Frame
    <2>4. origin' = [c \in Boxes |-> origin'[c]]
      BY <1>1 DEF BoxInv, Frame
    <2> QED BY <1>2, <1>4, <2>2, <2>3, <2>4 DEF BoxInv, Frame
  <1>9. \A q \in Requests : InputOK(q)' /\ Checked(q)'
    <2> SUFFICES ASSUME NEW q \in Requests PROVE InputOK(q)' /\ Checked(q)'
      OBVIOUS
    <2>1. CASE q = r
      BY <2>1, <1>4, <1>5 DEF InputOK, Checked, Sealing, Withdrawing, Releasing, CheckedPoints
    <2>2. CASE q # r
      <3>1. ~(pc[q] \in CheckedPoints /\ input[q].box = b)
        BY <1>1 DEF BoxInv, Checked
      <3>2. status'[b] = "SEALED" /\ \A c \in Boxes : c # b => status'[c] = status[c]
        BY <1>7 DEF BoxInv, Frame, TypeOK
      <3> QED BY <2>2, <3>1, <3>2, <1>4, <1>5, OtherRequests
    <2> QED BY <2>1, <2>2
  <1>10. \A c \in Boxes : Undisclosed(c)'
    BY <1>1, <1>2, <1>7 DEF BoxInv, Frame, TypeOK, Undisclosed
  <1>11. \A c \in Boxes : RowOK(c)'
    <2> SUFFICES ASSUME NEW c \in Boxes PROVE RowOK(c)'
      OBVIOUS
    <2>1. CASE c = b
      <3>1. status'[b] = "SEALED" /\ envelope'[b] = Encrypt(in.payload, dek, b)
            /\ origin'[b] = [key |-> in.key, payload |-> in.payload]
        BY <1>1, <1>7 DEF BoxInv, Frame, TypeOK
      <3> QED BY <2>1, <3>1 DEF RowOK, Encrypt
    <2>2. CASE c # b
      <3>1. status'[c] = status[c] /\ envelope'[c] = envelope[c] /\ origin'[c] = origin[c] /\ shares'[c] = shares[c]
        BY <2>2, <1>1, <1>7, ZenonT(60) DEF BoxInv, Frame, TypeOK
      <3>2. ActiveShares(c)' = ActiveShares(c)
        BY <3>1 DEF ActiveShares
      <3>3. RowOK(c)
        BY DEF BoxInv
      <3> QED BY <3>1, <3>2, <3>3 DEF RowOK
    <2> QED BY <2>1, <2>2
  <1>12. DisclosedOnceAsSealed'
    <2>1. \A d \in disclosed : d.box \in Boxes /\ d.box # b
      BY <1>1 DEF BoxInv, Frame, Undisclosed
    <2>2. \A d \in disclosed : status'[d.box] = status[d.box] /\ origin'[d.box] = origin[d.box]
      BY <2>1, <1>1, <1>7 DEF BoxInv, Frame, TypeOK
    <2> QED BY <2>2, <1>2, <1>7 DEF BoxInv, DisclosedOnceAsSealed
  <1> QED BY <1>8, <1>9, <1>10, <1>11, <1>12 DEF BoxInv

\* Nobody else is past its check while a request holds the lock.
LEMMA AloneInside ==
    ASSUME BoxInv, NEW r \in Requests, NEW q \in Requests, pc[r] \in CheckedPoints, pc[q] \in CheckedPoints,
           input[q].box = input[r].box
    PROVE  q = r
  <1>1. pc[r] \in InTransaction /\ pc[q] \in InTransaction
    BY DEF CheckedPoints, InTransaction
  <1>2. input[r].box \in Boxes
    BY DEF BoxInv, InputOK, Withdrawing, Releasing, CheckedPoints
  <1> QED BY <1>1, <1>2 DEF BoxInv, Frame, TypeOK

LEMMA WithdrawCommitBoxes == ASSUME BoxInv, NEW r \in Requests, WithdrawCommit(r) PROVE BoxInv'
  <1>0. PICK b \in Boxes : b = input[r].box
    BY DEF WithdrawCommit, At, BoxInv, InputOK, Withdrawing
  <1>1. /\ pc[r] = "withdrawCommit" /\ status' = [status EXCEPT ![b] = "WITHDRAWN"]
        /\ shares' = [shares EXCEPT ![b] = [i \in Shares |-> Destroyed]]
        /\ lock' = Unlocked(r) /\ End(r) /\ UNCHANGED <<envelope, evidence, origin, disclosed>>
    BY <1>0 DEF WithdrawCommit, DestroyAll, At, history
  <1>2. b \in Boxes /\ status[b] = "SEALED" /\ pc[r] \in CheckedPoints
    BY <1>0, <1>1 DEF BoxInv, InputOK, Checked, Withdrawing, CheckedPoints
  <1>3. Moves(r) /\ pc'[r] = "idle" /\ LocksOK
    BY <1>1, EndMoves, LocksReleased DEF BoxInv
  <1>4. status'[b] = "WITHDRAWN" /\ \A c \in Boxes : c # b => status'[c] = status[c] /\ shares'[c] = shares[c]
    BY <1>1, <1>2 DEF BoxInv, Frame, TypeOK
  <1>5. Frame'
    <2>1. status' \in [Boxes -> {"ABSENT", "SEALED", "WITHDRAWN", "OPENED"}]
      BY <1>1 DEF BoxInv, Frame, TypeOK
    <2>2. TypeOK' /\ evidence' \in [Boxes -> Seq(Recipients)]
      BY <1>1, <1>3, <2>1 DEF BoxInv, Frame, TypeOK, LocksOK, Moves
    <2>3. shares' = [c \in Boxes |-> shares'[c]]
      BY <1>1 DEF BoxInv, Frame
    <2> QED BY <1>1, <1>3, <2>2, <2>3 DEF BoxInv, Frame, Moves
  <1>6. \A q \in Requests : InputOK(q)' /\ Checked(q)'
    <2> SUFFICES ASSUME NEW q \in Requests PROVE InputOK(q)' /\ Checked(q)'
      OBVIOUS
    <2>1. CASE q = r
      BY <2>1, <1>3 DEF InputOK, Checked, Sealing, Withdrawing, Releasing, CheckedPoints
    <2>2. CASE q # r
      <3>1. ~(pc[q] \in CheckedPoints /\ input[q].box = b)
        BY <2>2, <1>0, <1>2, AloneInside
      <3> QED BY <2>2, <3>1, <1>2, <1>3, <1>4, OtherRequests DEF Moves
    <2> QED BY <2>1, <2>2
  <1>7. \A c \in Boxes : Undisclosed(c)'
    BY <1>1, <1>2, <1>4 DEF BoxInv, Undisclosed
  <1>8. \A c \in Boxes : RowOK(c)'
    <2>1. ActiveShares(b)' = {}
      BY <1>1, <1>2 DEF BoxInv, Frame, ActiveShares
    <2>2. \A c \in Boxes : c # b => ActiveShares(c)' = ActiveShares(c)
      BY <1>4 DEF ActiveShares
    <2> QED BY <1>1, <1>2, <1>4, <2>1, <2>2 DEF BoxInv, RowOK
  <1>9. DisclosedOnceAsSealed'
    <2>1. \A d \in disclosed : d.box \in Boxes /\ d.box # b
      BY <1>2 DEF BoxInv, Frame, Undisclosed
    <2> QED BY <2>1, <1>1, <1>4 DEF BoxInv, DisclosedOnceAsSealed
  <1> QED BY <1>5, <1>6, <1>7, <1>8, <1>9 DEF BoxInv

LEMMA ReleaseCommitBoxes == ASSUME BoxInv, NEW r \in Requests, ReleaseCommit(r) PROVE BoxInv'
  <1> DEFINE b == input[r].box
             recipient == input[r].recipient
             disclosure == [box |-> b, payload |-> envelope[b].text, recipient |-> recipient]
  <1>1. /\ pc[r] = "releaseCommit" /\ status' = [status EXCEPT ![b] = "OPENED"]
        /\ evidence' = [evidence EXCEPT ![b] = Append(@, recipient)]
        /\ disclosed' = disclosed \cup {disclosure}
        /\ lock' = Unlocked(r) /\ End(r) /\ UNCHANGED <<envelope, shares, origin>>
    BY DEF ReleaseCommit, AppendEvidence, At
  <1>2. b \in Boxes /\ recipient \in Recipients /\ status[b] = "SEALED" /\ pc[r] \in CheckedPoints
    BY <1>1 DEF BoxInv, InputOK, Checked, Releasing, CheckedPoints
  <1>3. evidence[b] = <<>> /\ \A d \in disclosed : d.box \in Boxes /\ d.box # b
    BY <1>2 DEF BoxInv, Frame, Undisclosed
  <1>4. Moves(r) /\ pc'[r] = "idle" /\ LocksOK
    BY <1>1, EndMoves, LocksReleased DEF BoxInv
  <1>5. status'[b] = "OPENED" /\ \A c \in Boxes : c # b => status'[c] = status[c] /\ evidence'[c] = evidence[c]
    BY <1>1, <1>2 DEF BoxInv, Frame, TypeOK
  <1>6. evidence' \in [Boxes -> Seq(Recipients)] /\ evidence'[b] = <<recipient>>
    <2>1. Append(evidence[b], recipient) = <<recipient>>
      BY <1>3
    <2>2. <<recipient>> \in Seq(Recipients)
      BY <1>2
    <2> HIDE DEF b, recipient
    <2> QED BY <1>1, <1>2, <2>1, <2>2 DEF BoxInv, Frame
  <1>7. Frame'
    <2> HIDE DEF recipient
    <2> QED BY <1>1, <1>2, <1>4, <1>6 DEF BoxInv, Frame, TypeOK, LocksOK, Moves
  <1>8. \A q \in Requests : InputOK(q)' /\ Checked(q)'
    <2> SUFFICES ASSUME NEW q \in Requests PROVE InputOK(q)' /\ Checked(q)'
      OBVIOUS
    <2>1. CASE q = r
      BY <2>1, <1>4 DEF InputOK, Checked, Sealing, Withdrawing, Releasing, CheckedPoints
    <2>2. CASE q # r
      <3>1. ~(pc[q] \in CheckedPoints /\ input[q].box = b)
        BY <2>2, <1>2, AloneInside
      <3> QED BY <2>2, <3>1, <1>2, <1>4, <1>5, OtherRequests DEF Moves
    <2> QED BY <2>1, <2>2
  <1>9. \A c \in Boxes : Undisclosed(c)'
    BY <1>1, <1>2, <1>5 DEF BoxInv, Undisclosed
  <1>10. \A c \in Boxes : RowOK(c)'
    BY <1>1, <1>2, <1>5 DEF BoxInv, RowOK, ActiveShares
  <1>11. DisclosedOnceAsSealed'
    <2>1. /\ status'[disclosure.box] = "OPENED" /\ evidence'[disclosure.box] = <<disclosure.recipient>>
          /\ disclosure.payload = origin'[disclosure.box].payload
      BY <1>1, <1>2, <1>5, <1>6 DEF BoxInv, RowOK
    <2>2. disclosure.box = b
      OBVIOUS
    <2>3. \A d \in disclosed : status'[d.box] = status[d.box] /\ evidence'[d.box] = evidence[d.box]
      BY <1>3, <1>5
    <2> HIDE DEF disclosure, b, recipient
    <2>4. DisclosedOnceAsSealed
      BY DEF BoxInv
    <2> QED BY <2>1, <2>2, <2>3, <2>4, <1>1, <1>3, SMTT(30) DEF DisclosedOnceAsSealed
  <1> QED BY <1>7, <1>8, <1>9, <1>10, <1>11 DEF BoxInv

LEMMA SealReplayBoxes == ASSUME BoxInv, NEW r \in Requests, SealReplay(r) PROVE BoxInv'
  <1>1. UNCHANGED <<rows, lock, pc, input, origin, disclosed>>
    BY DEF SealReplay
  <1>2. Moves(r) /\ InputOK(r)' /\ Checked(r)' /\ LocksOK
    BY <1>1 DEF BoxInv, Frame, TypeOK, Moves, InputOK, Checked, LocksOK, rows
  <1> QED BY <1>1, <1>2, QuietBoxes

LEMMA NextBoxInv == BoxInv /\ [Next]_vars => BoxInv'
  <1> SUFFICES ASSUME BoxInv, [Next]_vars PROVE BoxInv'
    OBVIOUS
  <1>1. ASSUME NEW r \in Requests, Request(r) PROVE BoxInv'
    BY <1>1, SealFindBoxes, SealReplayBoxes, SealReserveBoxes, SealCommitBoxes, SealCompleteBoxes, WithdrawReadBoxes,
       ReleaseReadBoxes, AcquireBoxes, CheckBoxes, WithdrawCommitBoxes, ReleaseCommitBoxes, StopBoxes DEF Request
  <1>2. CASE UNCHANGED vars
    BY <1>2 DEF vars, rows, history, BoxInv, Frame, TypeOK, InputOK, Checked, Undisclosed, RowOK, ActiveShares,
       DisclosedOnceAsSealed
  <1> QED BY <1>1, <1>2 DEF Next

LEMMA BoxInvariance == Spec => []BoxInv
  BY InitBoxInv, NextBoxInv, PTL DEF Spec

\* withdraw against release: whatever requests interleave and stop, one at a time
\* is inside a transaction on a lockbox, and a withdrawn lockbox has no share, no
\* evidence and no disclosure, and no release is about to make one.
THEOREM Withdrawal_Holds == Spec => []WithdrawalHolds
  <1>1. BoxInv => WithdrawnIsUnreadable
    BY DEF BoxInv, WithdrawnIsUnreadable, Undisclosed, RowOK, Checked, CheckedPoints
  <1>2. BoxInv => WithdrawalHolds
    BY <1>1 DEF BoxInv, Frame, WithdrawalHolds
  <1> QED BY <1>2, BoxInvariance, PTL

\* release: a payload leaves the system once, to the recipient of the one evidence
\* row, and is the payload that was sealed.
THEOREM Disclosed_Once == Spec => []DisclosedOnceAsSealed
  <1>1. BoxInv => DisclosedOnceAsSealed
    BY DEF BoxInv
  <1> QED BY <1>1, BoxInvariance, PTL

-----------------------------------------------------------------------------
(* The idempotency keys                                                    *)

LEMMA InitKeyInv == Init => KeyInv
  BY DEF Init, IdempotencyInit, NoRow, KeyInv, KeyInUse, Handling, MadeWith, SealedOwn, SealIsIdempotent,
     SealedOncePerKey, AnswerIsOwnLockbox

\* A step that seals nothing, answers nothing and brings no key into a handler.
LEMMA QuietKeys ==
    ASSUME KeyInv, NEW r \in Requests, Moves(r),
           pc'[r] # "complete", pc'[r] = "seal" => input'[r].key \notin Keys,
           \A b \in Boxes : status'[b] = "ABSENT" <=> status[b] = "ABSENT",
           UNCHANGED <<origin, answers, keyRow>>
    PROVE  KeyInv'
  <1>1. \A k \in Keys, q \in Requests : Handling(q, k)' => q # r /\ Handling(q, k)
    BY DEF Moves, Handling
  <1>2. \A k \in Keys, b \in Boxes : MadeWith(b, k)' <=> MadeWith(b, k)
    BY DEF MadeWith
  <1>3. \A k \in Keys : KeyInUse(k)'
    <2> SUFFICES ASSUME NEW k \in Keys PROVE KeyInUse(k)'
      OBVIOUS
    <2>1. (keyRow[k] = NoRow => (\A b \in Boxes : ~MadeWith(b, k)) /\ (\A q \in Requests : ~Handling(q, k)))'
      BY <1>1, <1>2 DEF KeyInv, KeyInUse, NoRow
    <2>2. keyRow[k].response # Unset => keyRow[k].response \in Boxes
      BY DEF KeyInv
    <2>3. (keyRow[k].response # Unset =>
             /\ status[keyRow[k].response] # "ABSENT"
             /\ origin[keyRow[k].response] = [key |-> k, payload |-> keyRow[k].requestHash])'
      BY <2>2 DEF KeyInv, KeyInUse
    <2>4. (\A q \in Requests : Handling(q, k) =>
             /\ keyRow[k].requestHash = input[q].payload
             /\ \A p \in Requests : Handling(p, k) => p = q
             /\ pc[q] = "seal" => \A b \in Boxes : ~MadeWith(b, k))'
      <3> SUFFICES ASSUME NEW q \in Requests, Handling(q, k)'
                   PROVE  (/\ keyRow[k].requestHash = input[q].payload
                           /\ \A p \in Requests : Handling(p, k) => p = q
                           /\ pc[q] = "seal" => \A b \in Boxes : ~MadeWith(b, k))'
        OBVIOUS
      <3>1. q # r /\ Handling(q, k)
        BY <1>1
      <3>2. input'[q] = input[q] /\ pc'[q] = pc[q]
        BY <3>1 DEF Moves
      <3>3. /\ keyRow[k].requestHash = input[q].payload
            /\ \A p \in Requests : Handling(p, k) => p = q
            /\ pc[q] = "seal" => \A b \in Boxes : ~MadeWith(b, k)
        BY <3>1 DEF KeyInv, KeyInUse
      <3> QED BY <3>2, <3>3, <1>1, <1>2
    <2> QED BY <2>1, <2>3, <2>4 DEF KeyInUse
  <1>4. \A q \in Requests : SealedOwn(q)'
    <2> SUFFICES ASSUME NEW q \in Requests, pc'[q] = "complete"
                 PROVE  (/\ input[q].box \in Boxes /\ status[input[q].box] # "ABSENT"
                         /\ origin[input[q].box] = [key |-> input[q].key, payload |-> input[q].payload])'
      BY DEF SealedOwn
    <2>1. pc'[q] = pc[q] /\ input'[q] = input[q]
      BY DEF Moves
    <2>2. SealedOwn(q)
      BY DEF KeyInv
    <2> QED BY <2>1, <2>2 DEF SealedOwn
  <1>5. SealIsIdempotent'
    BY DEF KeyInv, SealIsIdempotent, SealedOncePerKey, AnswerIsOwnLockbox
  <1> QED BY <1>3, <1>4, <1>5 DEF KeyInv

\* The steps of withdraw and release, and the end of a request.
LEMMA OtherStepsKeys ==
    ASSUME BoxInv, KeyInv, NEW r \in Requests,
           \/ WithdrawRead(r) \/ ReleaseRead(r) \/ Acquire(r) \/ WithdrawCheck(r) \/ WithdrawCommit(r)
           \/ ReleaseCheck(r) \/ ReleaseShares(r) \/ ReleaseCommit(r) \/ Stop(r)
    PROVE  KeyInv'
  <1>1. UNCHANGED <<origin, answers, keyRow>>
    BY DEF WithdrawRead, ReleaseRead, Acquire, WithdrawCheck, WithdrawCommit, ReleaseCheck, ReleaseShares,
       ReleaseCommit, Stop, history
  <1>2. Moves(r) /\ pc'[r] \notin {"seal", "complete"}
    <2>1. CASE WithdrawCommit(r) \/ ReleaseCommit(r) \/ Stop(r)
      <3>1. End(r)
        BY <2>1 DEF WithdrawCommit, ReleaseCommit, Stop
      <3> QED BY <3>1, EndMoves DEF BoxInv
    <2>2. ASSUME NEW to \in Statements \ {"seal", "complete"}, GoTo(r, to),
                 input' = [q \in Requests |-> input'[q]], \A q \in Requests : q # r => input'[q] = input[q]
          PROVE  Moves(r) /\ pc'[r] \notin {"seal", "complete"}
      BY <2>2, GoToMoves DEF BoxInv
    <2>3. CASE WithdrawRead(r)
      <3>1. "withdrawLock" \in Statements \ {"seal", "complete"} /\ GoTo(r, "withdrawLock")
        BY <2>3 DEF WithdrawRead, Statements
      <3>2. input' = [q \in Requests |-> input'[q]] /\ \A q \in Requests : q # r => input'[q] = input[q]
        BY <2>3 DEF WithdrawRead, BoxInv, Frame
      <3> QED BY <3>1, <3>2, <2>2
    <2>4. CASE ReleaseRead(r)
      <3>1. "releaseLock" \in Statements \ {"seal", "complete"} /\ GoTo(r, "releaseLock")
        BY <2>4 DEF ReleaseRead, Statements
      <3>2. input' = [q \in Requests |-> input'[q]] /\ \A q \in Requests : q # r => input'[q] = input[q]
        BY <2>4 DEF ReleaseRead, BoxInv, Frame
      <3> QED BY <3>1, <3>2, <2>2
    <2>5. CASE Acquire(r) \/ WithdrawCheck(r) \/ ReleaseCheck(r) \/ ReleaseShares(r)
      <3>1. PICK to \in InTransaction : GoTo(r, to)
        BY <2>5 DEF Acquire, WithdrawCheck, ReleaseCheck, ReleaseShares, InTransaction
      <3>2. to \in Statements \ {"seal", "complete"}
        BY DEF InTransaction, Statements
      <3>3. input' = [q \in Requests |-> input'[q]] /\ \A q \in Requests : q # r => input'[q] = input[q]
        BY <2>5 DEF Acquire, WithdrawCheck, ReleaseCheck, ReleaseShares, BoxInv, Frame
      <3> QED BY <3>1, <3>2, <3>3, <2>2
    <2> QED BY <2>1, <2>3, <2>4, <2>5
  <1>3. \A b \in Boxes : status'[b] = "ABSENT" <=> status[b] = "ABSENT"
    <2>1. CASE UNCHANGED status
      BY <2>1
    <2>2. CASE WithdrawCommit(r)
      <3>1. input[r].box \in Boxes /\ status[input[r].box] # "ABSENT" /\ status' = [status EXCEPT ![input[r].box] = "WITHDRAWN"]
        BY <2>2 DEF WithdrawCommit, At, BoxInv, InputOK, Withdrawing
      <3> QED BY <3>1 DEF BoxInv, Frame, TypeOK
    <2>3. CASE ReleaseCommit(r)
      <3>1. input[r].box \in Boxes /\ status[input[r].box] # "ABSENT" /\ status' = [status EXCEPT ![input[r].box] = "OPENED"]
        BY <2>3 DEF ReleaseCommit, At, BoxInv, InputOK, Releasing
      <3> QED BY <3>1 DEF BoxInv, Frame, TypeOK
    <2> QED BY <2>1, <2>2, <2>3
      DEF WithdrawRead, ReleaseRead, Acquire, WithdrawCheck, ReleaseCheck, ReleaseShares, Stop, rows
  <1> QED BY <1>1, <1>2, <1>3, QuietKeys

LEMMA SealFindKeys == ASSUME BoxInv, KeyInv, NEW r \in Requests, SealFind(r) PROVE KeyInv'
  <1>1. PICK actor \in Actors, key \in Keys \cup {NoKey}, payload \in Payloads :
          /\ GoTo(r, IF Lookup(key, payload) = "noKey" THEN "seal" ELSE "reserve")
          /\ input' = [input EXCEPT ![r] = [box |-> Nobody, actor |-> actor, key |-> key, payload |-> payload]]
    BY DEF SealFind
  <1>2. UNCHANGED <<status, origin, answers, keyRow>>
    BY DEF SealFind, rows, history
  <1>3. /\ input' = [q \in Requests |-> input'[q]] /\ input'[r].key = key
        /\ \A q \in Requests : q # r => input'[q] = input[q]
    BY <1>1 DEF BoxInv, Frame
  <1>4. Moves(r) /\ pc'[r] = IF Lookup(key, payload) = "noKey" THEN "seal" ELSE "reserve"
    BY <1>1, <1>3 DEF BoxInv, Frame, TypeOK, GoTo, Moves, Statements
  <1>5. Lookup(key, payload) = "noKey" => key \notin Keys
    BY IdempotencyAssumption DEF Lookup
  <1> QED BY <1>2, <1>3, <1>4, <1>5, QuietKeys

LEMMA SealReplayKeys == ASSUME BoxInv, KeyInv, NEW r \in Requests, SealReplay(r) PROVE KeyInv'
  <1>1. PICK key \in Keys, payload \in Payloads :
          /\ Lookup(key, payload) = "replay"
          /\ answers' = answers \cup {[key |-> key, payload |-> payload, box |-> keyRow[key].response]}
    BY DEF SealReplay
  <1>2. UNCHANGED <<status, pc, input, origin, keyRow>>
    BY DEF SealReplay, rows
  <1>3. keyRow[key].response # Unset /\ keyRow[key].requestHash = payload
    BY <1>1 DEF Lookup
  <1>4. /\ keyRow[key].response \in Boxes /\ status[keyRow[key].response] # "ABSENT"
        /\ origin[keyRow[key].response] = [key |-> key, payload |-> payload]
    BY <1>3 DEF KeyInv, KeyInUse
  <1>5. \A k \in Keys : KeyInUse(k)'
    BY <1>2 DEF KeyInv, KeyInUse, Handling, MadeWith, NoRow
  <1>6. \A q \in Requests : SealedOwn(q)'
    BY <1>2 DEF KeyInv, SealedOwn
  <1>7. SealIsIdempotent' /\ \A a \in answers' : a.box \in Boxes /\ status'[a.box] # "ABSENT"
    BY <1>1, <1>2, <1>4 DEF KeyInv, SealIsIdempotent, SealedOncePerKey, AnswerIsOwnLockbox
  <1> QED BY <1>2, <1>5, <1>6, <1>7 DEF KeyInv

LEMMA SealReserveKeys == ASSUME BoxInv, KeyInv, NEW r \in Requests, SealReserve(r) PROVE KeyInv'
  <1> DEFINE new == [requestHash |-> input[r].payload, response |-> Unset]
  <1>1. /\ pc[r] = "reserve" /\ GoTo(r, "seal") /\ UNCHANGED <<status, input, origin, answers>>
        /\ keyRow[input[r].key] = NoRow /\ keyRow' = [keyRow EXCEPT ![input[r].key] = new]
    BY DEF SealReserve, Reserve, ReserveIsUnique, At, rows, history
  <1>2. PICK key \in Keys : key = input[r].key
    BY <1>1 DEF BoxInv, InputOK
  <1>3. input[r].payload \in Payloads
    BY <1>1 DEF BoxInv, InputOK, Sealing, SealInputs
  <1>4. pc'[r] = "seal" /\ \A q \in Requests : q # r => pc'[q] = pc[q]
    BY <1>1 DEF BoxInv, Frame, TypeOK, GoTo
  <1>5. /\ (\A b \in Boxes : ~MadeWith(b, key)) /\ (\A q \in Requests : ~Handling(q, key))
    BY <1>1, <1>2 DEF KeyInv, KeyInUse
  <1>6. /\ keyRow' \in [Keys -> [requestHash: Payloads \cup {Unset}, response: Boxes \cup {Unset}]]
        /\ keyRow'[key] = new /\ \A k \in Keys : k # key => keyRow'[k] = keyRow[k]
    BY <1>1, <1>2, <1>3 DEF KeyInv
  <1>7. \A k \in Keys, q \in Requests : Handling(q, k)' <=> (Handling(q, k) \/ (q = r /\ k = key))
    BY <1>1, <1>2, <1>4 DEF Handling
  <1>8. \A k \in Keys, b \in Boxes : MadeWith(b, k)' <=> MadeWith(b, k)
    BY <1>1 DEF MadeWith
  <1>9. KeyInUse(key)'
    <2>1. new # NoRow /\ new.response = Unset /\ new.requestHash = input[r].payload
      BY <1>3, LockboxAssumption DEF NoRow
    <2> QED BY <2>1, <1>1, <1>5, <1>6, <1>7, <1>8 DEF KeyInUse, NoRow
  <1>10. \A k \in Keys : k # key => KeyInUse(k)'
    BY <1>1, <1>4, <1>6, <1>7, <1>8 DEF KeyInv, KeyInUse, NoRow, Handling
  <1>11. \A q \in Requests : SealedOwn(q)'
    BY <1>1, <1>4 DEF KeyInv, SealedOwn
  <1>12. SealIsIdempotent' /\ \A a \in answers' : a.box \in Boxes /\ status'[a.box] # "ABSENT"
    BY <1>1 DEF KeyInv, SealIsIdempotent, SealedOncePerKey, AnswerIsOwnLockbox
  <1> QED BY <1>6, <1>9, <1>10, <1>11, <1>12 DEF KeyInv

LEMMA SealCommitKeys == ASSUME BoxInv, KeyInv, NEW r \in Requests, SealCommit(r) PROVE KeyInv'
  <1> DEFINE in == input[r]
             made == [key |-> in.key, payload |-> in.payload]
  <1>1. PICK b \in Boxes :
          /\ status[b] = "ABSENT" /\ status' = [status EXCEPT ![b] = "SEALED"]
          /\ origin' = [origin EXCEPT ![b] = made]
          /\ input' = [input EXCEPT ![r].box = b]
    BY DEF SealCommit, CreateSealed
  <1>2. pc[r] = "seal" /\ GoTo(r, "complete") /\ UNCHANGED <<answers, keyRow>>
    BY DEF SealCommit, At
  <1>3. in \in SealInputs
    BY <1>2 DEF BoxInv, InputOK, Sealing
  <1>4. /\ input'[r].key = in.key /\ input'[r].payload = in.payload /\ input'[r].box = b
        /\ \A q \in Requests : q # r => input'[q] = input[q]
    BY <1>1, <1>3 DEF BoxInv, Frame, SealInputs
  <1>5. pc'[r] = "complete" /\ \A q \in Requests : q # r => pc'[q] = pc[q]
    BY <1>2 DEF BoxInv, Frame, TypeOK, GoTo
  <1>6. /\ status'[b] = "SEALED" /\ origin'[b] = made
        /\ \A c \in Boxes : c # b => status'[c] = status[c] /\ origin'[c] = origin[c]
    BY <1>1 DEF BoxInv, Frame, TypeOK
  <1>7. \A k \in Keys, q \in Requests : Handling(q, k)' <=> Handling(q, k)
    BY <1>2, <1>4, <1>5 DEF Handling
  <1>8. made.key = in.key /\ made.payload = in.payload
    OBVIOUS
  <1>9. \A k \in Keys, c \in Boxes : MadeWith(c, k)' <=> (MadeWith(c, k) \/ (c = b /\ k = in.key))
    <2> HIDE DEF made
    <2> QED BY <1>1, <1>6, <1>8 DEF MadeWith
  <1>10. in.key \in Keys => Handling(r, in.key) /\ keyRow[in.key] # NoRow /\ (\A c \in Boxes : ~MadeWith(c, in.key))
    BY <1>2 DEF KeyInv, KeyInUse, Handling
  <1>11. \A k \in Keys : KeyInUse(k)'
    <2> SUFFICES ASSUME NEW k \in Keys PROVE KeyInUse(k)'
      OBVIOUS
    <2> HIDE DEF made, in
    <2>1. (keyRow[k] = NoRow => (\A c \in Boxes : ~MadeWith(c, k)) /\ (\A q \in Requests : ~Handling(q, k)))'
      BY <1>2, <1>7, <1>9, <1>10 DEF KeyInv, KeyInUse, NoRow
    <2>2. keyRow[k].response # Unset => keyRow[k].response \in Boxes /\ keyRow[k].response # b
      BY <1>1 DEF KeyInv, KeyInUse
    <2>3. (keyRow[k].response # Unset =>
             /\ status[keyRow[k].response] # "ABSENT"
             /\ origin[keyRow[k].response] = [key |-> k, payload |-> keyRow[k].requestHash])'
      BY <2>2, <1>2, <1>6 DEF KeyInv, KeyInUse
    <2>4. ASSUME NEW q \in Requests, Handling(q, k)
          PROVE  /\ keyRow[k].requestHash = input'[q].payload
                 /\ \A p \in Requests : Handling(p, k) => p = q
                 /\ pc'[q] = "seal" => \A c \in Boxes : ~MadeWith(c, k)'
      <3>1. /\ keyRow[k].requestHash = input[q].payload
            /\ \A p \in Requests : Handling(p, k) => p = q
            /\ pc[q] = "seal" => \A c \in Boxes : ~MadeWith(c, k)
        BY <2>4 DEF KeyInv, KeyInUse
      <3>2. CASE q = r
        BY <3>1, <3>2, <1>4, <1>5 DEF in
      <3>3. CASE q # r
        <4>1. k # in.key
          BY <3>3, <2>4, <1>10, ZenonT(60) DEF KeyInv, KeyInUse
        <4> QED BY <3>1, <3>3, <4>1, <1>4, <1>5, <1>9
      <3> QED BY <3>2, <3>3
    <2>5. (\A q \in Requests : Handling(q, k) =>
             /\ keyRow[k].requestHash = input[q].payload
             /\ \A p \in Requests : Handling(p, k) => p = q
             /\ pc[q] = "seal" => \A c \in Boxes : ~MadeWith(c, k))'
      BY <2>4, <1>2, <1>7
    <2> QED BY <2>1, <2>3, <2>5 DEF KeyInUse
  <1>12. \A q \in Requests : SealedOwn(q)'
    <2> HIDE DEF made
    <2>1. SealedOwn(r)'
      BY <1>4, <1>6 DEF SealedOwn, made
    <2>2. \A q \in Requests : q # r => SealedOwn(q)'
      <3> SUFFICES ASSUME NEW q \in Requests, q # r, pc'[q] = "complete"
                   PROVE  /\ input'[q].box \in Boxes /\ status'[input'[q].box] # "ABSENT"
                          /\ origin'[input'[q].box] = [key |-> input'[q].key, payload |-> input'[q].payload]
        BY DEF SealedOwn
      <3>1. input'[q] = input[q] /\ pc[q] = "complete"
        BY <1>4, <1>5
      <3>2. /\ input[q].box \in Boxes /\ status[input[q].box] # "ABSENT"
            /\ origin[input[q].box] = [key |-> input[q].key, payload |-> input[q].payload]
        BY <3>1 DEF KeyInv, SealedOwn
      <3>3. input[q].box # b
        BY <3>2, <1>1
      <3> QED BY <3>1, <3>2, <3>3, <1>6
    <2> QED BY <2>1, <2>2
  <1>13. \A a \in answers' : a.box \in Boxes /\ a.box # b /\ status'[a.box] # "ABSENT"
    BY <1>1, <1>2, <1>6 DEF KeyInv
  <1>14. AnswerIsOwnLockbox'
    BY <1>2, <1>6, <1>13, ZenonT(60) DEF KeyInv, SealIsIdempotent, AnswerIsOwnLockbox
  <1>15. SealedOncePerKey'
    <2> SUFFICES ASSUME NEW c \in Boxes, NEW d \in Boxes, origin'[c] # Nobody, origin'[d] # Nobody,
                        origin'[c].key = origin'[d].key, origin'[c].key # NoKey
                 PROVE  c = d
      BY DEF SealedOncePerKey
    <2> HIDE DEF made, in
    <2>1. \A e \in Boxes : e # b /\ origin[e] # Nobody => status[e] # "ABSENT"
      BY DEF BoxInv, RowOK
    <2>2. in.key \in Keys \cup {NoKey}
      BY <1>3 DEF SealInputs
    <2>3. \A e \in Boxes : e # b /\ origin[e] # Nobody /\ in.key # NoKey => origin[e].key # in.key
      BY <2>1, <2>2, <1>10 DEF MadeWith
    <2> QED BY <2>3, <1>6, <1>8 DEF KeyInv, SealIsIdempotent, SealedOncePerKey
  <1> QED BY <1>2, <1>11, <1>12, <1>13, <1>14, <1>15 DEF KeyInv, SealIsIdempotent

LEMMA SealCompleteKeys == ASSUME BoxInv, KeyInv, NEW r \in Requests, SealComplete(r) PROVE KeyInv'
  <1> DEFINE in == input[r]
             answer == [key |-> in.key, payload |-> in.payload, box |-> in.box]
  <1>1. /\ pc[r] = "complete" /\ End(r) /\ UNCHANGED <<status, origin>>
        /\ IF in.key = NoKey THEN UNCHANGED keyRow ELSE Complete(in.key, in.box)
        /\ answers' = answers \cup {answer}
    BY DEF SealComplete, At, rows
  <1>2. /\ in.box \in Boxes /\ status[in.box] # "ABSENT"
        /\ origin[in.box] = [key |-> in.key, payload |-> in.payload]
    BY <1>1 DEF KeyInv, SealedOwn
  <1>3. in.key \in Keys \cup {NoKey}
    BY <1>1 DEF BoxInv, InputOK, Sealing, SealInputs
  <1>4. Moves(r) /\ pc'[r] = "idle"
    BY <1>1, EndMoves DEF BoxInv
  <1>5. in.key \in Keys => keyRow[in.key] # NoRow /\ keyRow[in.key].requestHash = in.payload
    BY <1>1, ZenonT(60) DEF KeyInv, KeyInUse, Handling
  <1>6. /\ keyRow' \in [Keys -> [requestHash: Payloads \cup {Unset}, response: Boxes \cup {Unset}]]
        /\ \A k \in Keys : keyRow'[k].requestHash = keyRow[k].requestHash
        /\ \A k \in Keys : k # in.key => keyRow'[k] = keyRow[k]
        /\ in.key \in Keys => keyRow'[in.key].response = in.box
    <2>1. CASE in.key = NoKey
      BY <2>1, <1>1, IdempotencyAssumption DEF KeyInv
    <2>2. CASE in.key \in Keys
      <3>1. keyRow' = [keyRow EXCEPT ![in.key].response = in.box]
        BY <2>2, <1>1, IdempotencyAssumption DEF Complete
      <3> HIDE DEF in
      <3> QED BY <2>2, <3>1, <1>2 DEF KeyInv
    <2> QED BY <2>1, <2>2, <1>3
  <1>7. \A k \in Keys : keyRow'[k] = NoRow => keyRow[k] = NoRow
    <2>1. \A k \in Keys : keyRow'[k] = NoRow => k # in.key
      BY <1>2, <1>6, LockboxAssumption DEF NoRow
    <2> QED BY <2>1, <1>6
  <1>8. \A k \in Keys, q \in Requests : Handling(q, k)' => q # r /\ Handling(q, k) /\ input'[q] = input[q] /\ pc'[q] = pc[q]
    BY <1>4 DEF Moves, Handling
  <1>9. \A k \in Keys, b \in Boxes : MadeWith(b, k)' <=> MadeWith(b, k)
    BY <1>1 DEF MadeWith
  <1> HIDE DEF in, answer
  <1>10. \A k \in Keys : KeyInUse(k)'
    <2> SUFFICES ASSUME NEW k \in Keys PROVE KeyInUse(k)'
      OBVIOUS
    <2>1. (keyRow[k] = NoRow => (\A b \in Boxes : ~MadeWith(b, k)) /\ (\A q \in Requests : ~Handling(q, k)))'
      BY <1>7, <1>8, <1>9 DEF KeyInv, KeyInUse, NoRow
    <2>2. (keyRow[k].response # Unset =>
             /\ status[keyRow[k].response] # "ABSENT"
             /\ origin[keyRow[k].response] = [key |-> k, payload |-> keyRow[k].requestHash])'
      <3>1. CASE k = in.key
        BY <3>1, <1>1, <1>2, <1>5, <1>6
      <3>2. CASE k # in.key
        BY <3>2, <1>1, <1>6 DEF KeyInv, KeyInUse
      <3> QED BY <3>1, <3>2
    <2>3. (\A q \in Requests : Handling(q, k) =>
             /\ keyRow[k].requestHash = input[q].payload
             /\ \A p \in Requests : Handling(p, k) => p = q
             /\ pc[q] = "seal" => \A b \in Boxes : ~MadeWith(b, k))'
      <3> SUFFICES ASSUME NEW q \in Requests, Handling(q, k)'
                   PROVE  (/\ keyRow[k].requestHash = input[q].payload
                           /\ \A p \in Requests : Handling(p, k) => p = q
                           /\ pc[q] = "seal" => \A b \in Boxes : ~MadeWith(b, k))'
        OBVIOUS
      <3>1. Handling(q, k) /\ input'[q] = input[q] /\ pc'[q] = pc[q]
        BY <1>8
      <3>2. /\ keyRow[k].requestHash = input[q].payload
            /\ \A p \in Requests : Handling(p, k) => p = q
            /\ pc[q] = "seal" => \A b \in Boxes : ~MadeWith(b, k)
        BY <3>1 DEF KeyInv, KeyInUse
      <3> QED BY <3>1, <3>2, <1>6, <1>8, <1>9
    <2> QED BY <2>1, <2>2, <2>3 DEF KeyInUse
  <1>11. \A q \in Requests : SealedOwn(q)'
    BY <1>1, <1>4, SMTT(30) DEF KeyInv, SealedOwn, Moves
  <1>12. answer.box = in.box /\ answer.key = in.key /\ answer.payload = in.payload
    BY DEF answer
  <1>13. SealIsIdempotent' /\ \A a \in answers' : a.box \in Boxes /\ status'[a.box] # "ABSENT"
    BY <1>1, <1>2, <1>12 DEF KeyInv, SealIsIdempotent, SealedOncePerKey, AnswerIsOwnLockbox
  <1> QED BY <1>6, <1>10, <1>11, <1>13 DEF KeyInv

LEMMA NextKeyInv == BoxInv /\ KeyInv /\ [Next]_vars => KeyInv'
  <1> SUFFICES ASSUME BoxInv, KeyInv, [Next]_vars PROVE KeyInv'
    OBVIOUS
  <1>1. ASSUME NEW r \in Requests, Request(r) PROVE KeyInv'
    BY <1>1, SealFindKeys, SealReplayKeys, SealReserveKeys, SealCommitKeys, SealCompleteKeys, OtherStepsKeys
      DEF Request
  <1>2. CASE UNCHANGED vars
    BY <1>2 DEF vars, rows, history, KeyInv, KeyInUse, Handling, MadeWith, NoRow, SealedOwn, SealIsIdempotent,
       SealedOncePerKey, AnswerIsOwnLockbox
  <1> QED BY <1>1, <1>2 DEF Next

\* seal with withIdempotency: through retries, duplicates, two bodies under one key
\* and crashes between any two statements, one key makes at most one lockbox, and
\* every answer under it names that lockbox and its payload.
THEOREM Seal_Idempotent == Spec => []SealIsIdempotent
  <1>1. KeyInv => SealIsIdempotent
    BY DEF KeyInv
  <1>2. Init => KeyInv
    BY InitKeyInv
  <1>3. Spec => []KeyInv
    BY <1>2, NextKeyInv, BoxInvariance, PTL DEF Spec
  <1> QED BY <1>1, <1>3, PTL
=============================================================================
