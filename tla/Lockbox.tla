------------------------------ MODULE Lockbox ------------------------------
(***************************************************************************)
(* apps/api/src/modules/lockbox: seal, withdraw and release, each the         *)
(* statements of one request, interleaved with those of the others.          *)
(*                                                                         *)
(* The payload is encrypted under a fresh key bound to the lockbox's id; the  *)
(* key is split two-of-three and each share encrypted under a role's key.     *)
(* Withdrawing destroys the three shares; releasing combines two of them,     *)
(* decrypts and answers with the payload.  Both take the advisory lock of the *)
(* lockbox first.  Encryption is ideal: it opens with its key and its bound   *)
(* data and with nothing else.  A request may stop after any statement (an    *)
(* error or a crash): its transaction is rolled back and its lock released.   *)
(***************************************************************************)
EXTENDS Authz, Shamir, DomainStates, Idempotency

CONSTANTS
    Boxes, Requests,    \* lockbox ids, and requests the API serves at a time
    Actors,             \* who may call: role and organization
    Organizations,      \* existing organizations
    Recipients,         \* what a release may name as recipient
    Payloads,
    Deks, DekCoeffs,    \* keys and coefficients the random generator may draw
    Destroyed           \* the null of a destroyed share

ASSUME LockboxAssumption ==
    /\ Deks \subseteq Byte /\ DekCoeffs \subseteq Byte
    /\ Nobody \notin Boxes \cup Requests
    /\ Unset \notin Boxes \cup Payloads

VARIABLES
    status,     \* Lockbox.status, or "ABSENT" while there is no row
    sealer,     \* Lockbox.sealerOrgId
    envelope,   \* Lockbox.ciphertext
    shares,     \* LockboxKeyShare rows, by share index
    evidence,   \* LockboxReleaseEvidence rows: their recipients
    lock,       \* holder of the lockbox's advisory lock
    pc,         \* the next statement of each request
    input,      \* its inputs, with the lockbox it is about
    seen,       \* the shares a release has read
    origin,     \* history: the key and the payload a lockbox was sealed with
    answers,    \* history: answers to seal requests
    disclosed   \* history: payloads in the answers to releases

rows == <<status, sealer, envelope, shares, evidence>>
history == <<origin, answers, disclosed>>
vars == <<rows, lock, pc, input, seen, history, keyRow>>

-----------------------------------------------------------------------------
(* crypto: aes-gcm.ts and envelope.ts                                       *)

Encrypt(plaintext, key, aad) == [text |-> plaintext, key |-> key, aad |-> aad]
Decrypts(cipher, key, aad) == cipher.key = key /\ cipher.aad = aad

LockboxShareRoles == <<"SEALER", "OPERATOR", "ESCROW">>
Shares == DOMAIN LockboxShareRoles
ReleaseAuthorizingRoles == {"OPERATOR", "ESCROW"}

\* sealPayload: the share of index i is wrapped under the key of the i-th role.
WrappedShares(dek, coeff) ==
    LET raw == SplitSecret(dek, <<coeff>>, 3)
    IN  [i \in Shares |-> Encrypt(raw[i], LockboxShareRoles[i], Nobody)]

\* releasePayload: shares of two roles that unwrap, and a key that decrypts.
Opens(cipher, wrapped, aad) ==
    /\ Cardinality(DOMAIN wrapped) >= 2
    /\ \A i \in DOMAIN wrapped : Decrypts(wrapped[i], LockboxShareRoles[i], Nobody)
    /\ Decrypts(cipher, CombineShares([i \in DOMAIN wrapped |-> wrapped[i].text]), aad)

-----------------------------------------------------------------------------
NoInput == [box |-> Nobody]

Init ==
    /\ status = [b \in Boxes |-> "ABSENT"]
    /\ sealer = [b \in Boxes |-> Nobody]
    /\ envelope = [b \in Boxes |-> Nobody]
    /\ shares = [b \in Boxes |-> [i \in Shares |-> Destroyed]]
    /\ evidence = [b \in Boxes |-> <<>>]
    /\ lock = [b \in Boxes |-> Nobody]
    /\ pc = [r \in Requests |-> "idle"]
    /\ input = [r \in Requests |-> NoInput]
    /\ seen = [r \in Requests |-> Nobody]
    /\ origin = [b \in Boxes |-> Nobody]
    /\ answers = {} /\ disclosed = {}
    /\ IdempotencyInit

At(r, statement) == pc[r] = statement
GoTo(r, statement) == pc' = [pc EXCEPT ![r] = statement]

\* Mutant: the rollback of a failed transaction leaves its session's lock.
Unlocked_OnSuccess(r) == lock

\* The locks after r's transaction ends: pg_advisory_xact_lock is released with it.
Unlocked(r) == [b \in Boxes |-> IF lock[b] = r THEN Nobody ELSE lock[b]]

\* The request is over, whatever the reason.
End(r) ==
    /\ GoTo(r, "idle")
    /\ input' = [input EXCEPT ![r] = NoInput]
    /\ seen' = [seen EXCEPT ![r] = Nobody]

\* An error before or in the transaction, or a crash of the API.
Stop(r) ==
    /\ pc[r] # "idle"
    /\ End(r)
    /\ lock' = Unlocked(r)
    /\ UNCHANGED <<rows, history, keyRow>>

\* seal: the route looks the key up before anything else.  Another request's key,
\* or one still in progress, is answered with a conflict.
SealFind(r) ==
    \E actor \in Actors, key \in Keys \cup {NoKey}, payload \in Payloads :
        LET found == Lookup(key, payload)
        IN  /\ At(r, "idle")
            /\ found \in {"noKey", "absent"}
            /\ GoTo(r, IF found = "noKey" THEN "seal" ELSE "reserve")
            /\ input' = [input EXCEPT ![r] = [box |-> Nobody, actor |-> actor, key |-> key, payload |-> payload]]
            /\ UNCHANGED <<rows, lock, seen, history, keyRow>>

\* A key already completed: its recorded response is the answer.
SealReplay(r) ==
    \E key \in Keys, payload \in Payloads :
        /\ At(r, "idle")
        /\ Lookup(key, payload) = "replay"
        /\ answers' = answers \cup {[key |-> key, payload |-> payload, box |-> keyRow[key].response]}
        /\ UNCHANGED <<rows, lock, pc, input, seen, origin, disclosed, keyRow>>

SealReserve(r) ==
    /\ At(r, "reserve")
    /\ Reserve(input[r].key, input[r].payload)
    /\ GoTo(r, "seal")
    /\ UNCHANGED <<rows, lock, input, seen, history>>

\* lockboxRepository.createSealed and lockboxKeyShareRepository.createMany.
CreateSealed(b, org, payload, dek, coeff) ==
    /\ status' = [status EXCEPT ![b] = "SEALED"]
    /\ sealer' = [sealer EXCEPT ![b] = org]
    /\ envelope' = [envelope EXCEPT ![b] = Encrypt(payload, dek, b)]
    /\ shares' = [shares EXCEPT ![b] = WrappedShares(dek, coeff)]
    /\ UNCHANGED evidence

\* The handler: row, shares and receipt in one transaction.  The id is fresh.
SealCommit(r) ==
    \E b \in Boxes, dek \in Deks, coeff \in DekCoeffs :
        LET in == input[r]
        IN  /\ At(r, "seal")
            /\ can(in.actor, <<"lockbox", "seal">>, Resource("lockbox", in.actor.organizationId), Context(FALSE, FALSE))
            /\ status[b] = "ABSENT"
            /\ CreateSealed(b, in.actor.organizationId, in.payload, dek, coeff)
            /\ origin' = [origin EXCEPT ![b] = [key |-> in.key, payload |-> in.payload]]
            /\ input' = [input EXCEPT ![r].box = b]
            /\ GoTo(r, "complete")
            /\ UNCHANGED <<lock, seen, answers, disclosed, keyRow>>

\* The response is recorded under the key, and sent.
SealComplete(r) ==
    LET in == input[r]
    IN  /\ At(r, "complete")
        /\ IF in.key = NoKey THEN UNCHANGED keyRow ELSE Complete(in.key, in.box)
        /\ answers' = answers \cup {[key |-> in.key, payload |-> in.payload, box |-> in.box]}
        /\ End(r)
        /\ UNCHANGED <<rows, lock, origin, disclosed>>

\* withdraw, before its transaction: row, authorization and a first look at the status.
WithdrawRead(r) ==
    \E actor \in Actors, b \in Boxes :
        /\ At(r, "idle") /\ status[b] # "ABSENT"
        /\ can(actor, <<"lockbox", "withdraw">>, Resource("lockbox", sealer[b]), Context(FALSE, FALSE))
        /\ CanWithdrawFrom(status[b])
        /\ input' = [input EXCEPT ![r] = [box |-> b]]
        /\ GoTo(r, "withdrawLock")
        /\ UNCHANGED <<rows, lock, seen, history, keyRow>>

\* release, before its transaction.
ReleaseRead(r) ==
    \E actor \in Actors, b \in Boxes, recipient \in Recipients :
        /\ At(r, "idle") /\ status[b] # "ABSENT"
        /\ can(actor, <<"lockbox", "release">>, Resource("lockbox", sealer[b]), Context(FALSE, FALSE))
        /\ recipient \in Organizations
        /\ CanReleaseFrom(status[b])
        /\ input' = [input EXCEPT ![r] = [box |-> b, recipient |-> recipient]]
        /\ GoTo(r, "releaseLock")
        /\ UNCHANGED <<rows, lock, seen, history, keyRow>>

\* Mutant: no advisory lock.
LockIsFree_NoLock(b) == TRUE

LockIsFree(b) == lock[b] = Nobody

\* Both transactions: pg_advisory_xact_lock(hashtext(lockboxId)) waits for the holder.
Acquire(r) ==
    LET b == input[r].box
    IN  /\ pc[r] \in {"withdrawLock", "releaseLock"}
        /\ LockIsFree(b)
        /\ lock' = [lock EXCEPT ![b] = r]
        /\ GoTo(r, IF At(r, "withdrawLock") THEN "withdrawCheck" ELSE "releaseCheck")
        /\ UNCHANGED <<rows, input, seen, history, keyRow>>

\* freshLockbox, inside the lock.
FreshWithdrawAllowed(b) == CanWithdrawFrom(status[b])

WithdrawCheck(r) ==
    /\ At(r, "withdrawCheck")
    /\ FreshWithdrawAllowed(input[r].box)
    /\ GoTo(r, "withdrawCommit")
    /\ UNCHANGED <<rows, lock, input, seen, history, keyRow>>

\* The shares whose wrapped bytes are not null.
ActiveShares(b) == {i \in Shares : shares[b][i] # Destroyed}

\* lockboxKeyShareRepository.destroyAllByLockbox
DestroyAll(b) == shares' = [shares EXCEPT ![b] = [i \in Shares |-> Destroyed]]

\* The update of the row and of its shares; three must have been destroyed.
WithdrawCommit(r) ==
    LET b == input[r].box
    IN  /\ At(r, "withdrawCommit")
        /\ Cardinality(ActiveShares(b)) = 3
        /\ status' = [status EXCEPT ![b] = "WITHDRAWN"]
        /\ DestroyAll(b)
        /\ lock' = Unlocked(r)
        /\ End(r)
        /\ UNCHANGED <<sealer, envelope, evidence, history, keyRow>>

\* Mutant: the transaction trusts the status read before it.
FreshReleaseAllowed_NoReread(b) == TRUE

FreshReleaseAllowed(b) == CanReleaseFrom(status[b])

ReleaseCheck(r) ==
    /\ At(r, "releaseCheck")
    /\ FreshReleaseAllowed(input[r].box)
    /\ GoTo(r, "releaseShares")
    /\ UNCHANGED <<rows, lock, input, seen, history, keyRow>>

\* findActiveByLockboxAndRoles
AuthorizingShares(b) == {i \in ActiveShares(b) : LockboxShareRoles[i] \in ReleaseAuthorizingRoles}

\* The shares are read by their own statement.
ReleaseShares(r) ==
    LET b == input[r].box
        found == AuthorizingShares(b)
    IN  /\ At(r, "releaseShares")
        /\ Cardinality(found) >= 2
        /\ seen' = [seen EXCEPT ![r] = [i \in found |-> shares[b][i]]]
        /\ GoTo(r, "releaseCommit")
        /\ UNCHANGED <<rows, lock, input, history, keyRow>>

\* lockboxReleaseEvidenceRepository.create
AppendEvidence(b, recipient) == evidence' = [evidence EXCEPT ![b] = Append(@, recipient)]

\* Combine, decrypt, the cascade to OPENED, the evidence row, and the answer.
ReleaseCommit(r) ==
    LET b == input[r].box
        recipient == input[r].recipient
    IN  /\ At(r, "releaseCommit")
        /\ Opens(envelope[b], seen[r], b)
        /\ status' = [status EXCEPT ![b] = "OPENED"]
        /\ AppendEvidence(b, recipient)
        /\ disclosed' = disclosed \cup {[box |-> b, payload |-> envelope[b].text, recipient |-> recipient]}
        /\ lock' = Unlocked(r)
        /\ End(r)
        /\ UNCHANGED <<sealer, envelope, shares, origin, answers, keyRow>>

Request(r) ==
    \/ SealFind(r) \/ SealReplay(r) \/ SealReserve(r) \/ SealCommit(r) \/ SealComplete(r)
    \/ WithdrawRead(r) \/ ReleaseRead(r) \/ Acquire(r)
    \/ WithdrawCheck(r) \/ WithdrawCommit(r)
    \/ ReleaseCheck(r) \/ ReleaseShares(r) \/ ReleaseCommit(r)
    \/ Stop(r)

Next == \E r \in Requests : Request(r)
Spec == Init /\ [][Next]_vars

-----------------------------------------------------------------------------
(* Properties                                                              *)

InTransaction == {"withdrawCheck", "withdrawCommit", "releaseCheck", "releaseShares", "releaseCommit"}
Statements == {"idle", "reserve", "seal", "complete", "withdrawLock", "releaseLock"} \cup InTransaction

\* Types; and a lock is held by a request that is inside a transaction on that
\* lockbox, and by no request that has ended.
TypeOK ==
    /\ status \in [Boxes -> {"ABSENT", "SEALED", "WITHDRAWN", "OPENED"}]
    /\ pc \in [Requests -> Statements]
    /\ lock \in [Boxes -> Requests \cup {Nobody}]
    /\ \A b \in Boxes : evidence[b] \in Seq(Recipients)
    /\ \A b \in Boxes, r \in Requests :
         lock[b] = r <=> pc[r] \in InTransaction /\ input[r].box = b

\* withdraw's "the payload can NEVER be released afterward": a withdrawn lockbox
\* has no share left, no release evidence, and its payload is in no answer, not
\* even of a release that read the shares before they were destroyed.
WithdrawnIsUnreadable ==
    \A b \in Boxes : status[b] = "WITHDRAWN" =>
        /\ ActiveShares(b) = {} /\ evidence[b] = <<>>
        /\ \A d \in disclosed : d.box # b
        /\ \A r \in Requests : ~(pc[r] = "releaseCommit" /\ input[r].box = b)

\* withdraw against release: one request at a time is inside a transaction on a
\* lockbox, and what was withdrawn is unreadable for good.
WithdrawalHolds == TypeOK /\ WithdrawnIsUnreadable

\* release: a payload is disclosed once, to the recipient its one evidence row
\* names, and is the payload that was sealed.
DisclosedOnceAsSealed ==
    \A d \in disclosed :
        /\ status[d.box] = "OPENED" /\ evidence[d.box] = <<d.recipient>>
        /\ d.payload = origin[d.box].payload
        /\ \A e \in disclosed : e.box = d.box => e = d

\* "A retried seal must not encrypt and persist the same payload twice": one key
\* makes at most one lockbox, through retries, duplicates and crashes.
SealedOncePerKey ==
    \A b, c \in Boxes :
        origin[b] # Nobody /\ origin[c] # Nobody /\ origin[b].key = origin[c].key /\ origin[b].key # NoKey
        => b = c

\* withIdempotency: the answer to a seal request is a lockbox sealed with that
\* request's key and payload, also when it is a replay.
AnswerIsOwnLockbox ==
    \A a \in answers : origin[a.box] = [key |-> a.key, payload |-> a.payload]

\* seal with withIdempotency: through retries, duplicates, two bodies under one
\* key and crashes between any two statements, one key makes one lockbox and is
\* answered with it.
SealIsIdempotent == SealedOncePerKey /\ AnswerIsOwnLockbox

-----------------------------------------------------------------------------
(* What a comment of the repository says, and the code does not do          *)

\* idempotency.ts: a key without a response is that of a "concurrent duplicate
\* request" which "is still in flight".  A handler that threw, or died, leaves one too.
InProgressIsInFlight ==
    \A k \in Keys :
        keyRow[k] # NoRow /\ keyRow[k].response = Unset
        => \E r \in Requests : pc[r] \in {"seal", "complete"} /\ input[r].key = k
=============================================================================
