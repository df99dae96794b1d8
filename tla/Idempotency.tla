---------------------------- MODULE Idempotency ----------------------------
(***************************************************************************)
(* apps/api/src/shared/idempotency.ts and the table behind it: what          *)
(* withIdempotency reads and writes around a handler.  The steps are          *)
(* separate statements, with the handler's own transaction between Reserve    *)
(* and Complete; the module that has the handler puts them in order.          *)
(***************************************************************************)
CONSTANTS
    Keys,       \* values of the Idempotency-Key header, within one scope
    NoKey,      \* the header is missing
    Unset       \* the null of request_hash (no row) and of response_body

ASSUME IdempotencyAssumption == NoKey \notin Keys

VARIABLE keyRow     \* by key: the request's hash and the recorded response

NoRow == [requestHash |-> Unset, response |-> Unset]

IdempotencyInit == keyRow = [k \in Keys |-> NoRow]

\* find, and what its answer means for this request.  No code reads expiresAt:
\* a row stays for good.
Lookup(key, hash) ==
    IF key = NoKey THEN "noKey"
    ELSE IF keyRow[key] = NoRow THEN "absent"
    ELSE IF keyRow[key].requestHash # hash THEN "otherRequest"
    ELSE IF keyRow[key].response # Unset THEN "replay"
    ELSE "inProgress"

\* Mutant: no unique index on (scope, key).
ReserveIsUnique_NoIndex(key) == TRUE

\* @@unique([scope, key]): a second insert throws P2002.
ReserveIsUnique(key) == keyRow[key] = NoRow

Reserve(key, hash) ==
    /\ ReserveIsUnique(key)
    /\ keyRow' = [keyRow EXCEPT ![key] = [requestHash |-> hash, response |-> Unset]]

\* find and complete, after the handler has returned.
Complete(key, response) == keyRow' = [keyRow EXCEPT ![key].response = response]
=============================================================================
