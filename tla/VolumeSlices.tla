---------------------------- MODULE VolumeSlices ----------------------------
(***************************************************************************)
(* apps/api/src/modules/opportunities: an opportunity's volume breakdown,     *)
(* which a request replaces by deleting every slice and inserting its own, in *)
(* one transaction without a lock of its own.                               *)
(*                                                                         *)
(* Requests interleave statement by statement under READ COMMITTED: a delete  *)
(* sees the rows that were committed when it started, waits for whoever is    *)
(* deleting one of them, and never sees rows committed while it waited; an    *)
(* insert waits for an open transaction that inserts or deletes its cell, and *)
(* fails on a committed row of that cell.                                   *)
(*                                                                         *)
(* Its names differ from those of EconomicsLedger and Calculations, so that  *)
(* one module of proofs (AccountingProofs) can extend all three.            *)
(***************************************************************************)
EXTENDS Authz, SequencesExt

CONSTANTS
    Replacements,   \* the requests that replace the breakdown
    Submission,     \* the slices of each request's body: a cell, a currency, an amount
    Submitter,      \* the actor of each request
    ownerOrgId,
    Summary         \* the opportunity's currency and figures

\* A body is a sequence of slices with amounts in minor units.
ASSUME VolumeSlicesAssumption ==
    \A r \in Replacements :
        /\ Len(Submission[r]) \in Nat /\ DOMAIN Submission[r] = 1 .. Len(Submission[r])
        /\ \A i \in DOMAIN Submission[r] : Submission[r][i].amount \in Nat

VARIABLES
    slices,     \* the committed rows: cell, amount and the request that wrote them
    stage,      \* the next statement of each request
    snapshot,   \* the rows its delete statement saw
    deleted,    \* the rows its open transaction deletes
    inserted,   \* and inserts
    answer      \* the reconciliation it computed from its body

sliceVars == <<slices, stage, snapshot, deleted, inserted, answer>>

\* opportunitiesService.create: a new opportunity has no slices.
SliceInit ==
    /\ slices = {}
    /\ stage = [r \in Replacements |-> "new"]
    /\ snapshot = [r \in Replacements |-> {}]
    /\ deleted = [r \in Replacements |-> {}]
    /\ inserted = [r \in Replacements |-> {}]
    /\ answer = [r \in Replacements |-> {}]

-----------------------------------------------------------------------------
(* reconcileOpportunityVolume                                               *)

Duplicates(body) == {i \in DOMAIN body : \E k \in 1..(i - 1) : body[k].cell = body[i].cell}

\* Mutant: a repeated cell is not reported.
Mismatches_NoDuplicates(body) ==
    LET total == MapThenSumSet(LAMBDA i : body[i].amount, DOMAIN body)
    IN  IF total # Summary.offered THEN {"sum_mismatch"} ELSE {}

\* The codes of the mismatches; a slice in another currency is left out of the sum.
Mismatches(body) ==
    LET foreign == {i \in DOMAIN body : body[i].currency # Summary.currency}
        total == MapThenSumSet(LAMBDA i : body[i].amount, DOMAIN body \ foreign)
        ordered == /\ Summary.movableNow <= Summary.movable30d
                   /\ Summary.movable30d <= Summary.movable90d
                   /\ Summary.movable90d <= Summary.offered
    IN  (IF Duplicates(body) # {} THEN {"duplicate_cell"} ELSE {})
        \cup (IF foreign # {} THEN {"currency_mismatch"} ELSE {})
        \cup (IF total # Summary.offered THEN {"sum_mismatch"} ELSE {})
        \cup (IF ordered THEN {} ELSE {"movability_order"})

Reconciled(body) == Mismatches(body) = {}

\* toInsert: the first slice of each cell, in the opportunity's currency.
First(r) == DOMAIN Submission[r] \ Duplicates(Submission[r])
SliceRow(r, i) == [cell |-> Submission[r][i].cell, amount |-> Submission[r][i].amount, by |-> r]
ToInsert(r) == {SliceRow(r, i) : i \in First(r)}

\* getVolumeSlices reads the committed rows and reconciles those.
Stored == SetToSeq({[cell |-> s.cell, currency |-> Summary.currency, amount |-> s.amount] : s \in slices})

-----------------------------------------------------------------------------
(* replaceVolumeSlices                                                      *)

\* Mutant: a transaction that fails keeps its row locks.
Open_UntilCommit(t) == stage[t] \in {"inserting", "failed"}

\* A transaction past its delete holds row locks until it ends.
Open(t) == stage[t] = "inserting"

\* The transactions r's delete waits for, and those its next insert waits for.
DeleteWaits(r) == {t \in Replacements \ {r} : Open(t) /\ deleted[t] \cap snapshot[r] # {}}

\* The rows are inserted in the order of the body.
NextSlice(r) == SliceRow(r, Min({i \in First(r) : SliceRow(r, i) \notin inserted[r]}))

InsertWaits(r) ==
    {t \in Replacements \ {r} : Open(t) /\ \E s \in inserted[t] \cup deleted[t] : s.cell = NextSlice(r).cell}

Finished(r) == ToInsert(r) \subseteq inserted[r]

\* The request: the opportunity is its caller's to update; the answer is
\* computed from the body, before any write.  A slice in the body carries the
\* opportunity's currency.
Arrive(r) ==
    /\ stage[r] = "new"
    /\ can(Submitter[r], <<"opportunity", "update">>, Resource("opportunity", ownerOrgId), Context(FALSE, FALSE))
    /\ stage' = [stage EXCEPT ![r] = "transaction"]
    /\ answer' = [answer EXCEPT ![r] = Mismatches(Submission[r])]
    /\ UNCHANGED <<slices, snapshot, deleted, inserted>>

Forbidden(r) ==
    /\ stage[r] = "new"
    /\ ~ can(Submitter[r], <<"opportunity", "update">>, Resource("opportunity", ownerOrgId), Context(FALSE, FALSE))
    /\ stage' = [stage EXCEPT ![r] = "failed"]
    /\ UNCHANGED <<slices, snapshot, deleted, inserted, answer>>

\* deleteAllByOpportunity starts, and sees the committed rows.
StartDelete(r) ==
    /\ stage[r] = "transaction"
    /\ stage' = [stage EXCEPT ![r] = "deleting"]
    /\ snapshot' = [snapshot EXCEPT ![r] = slices]
    /\ UNCHANGED <<slices, deleted, inserted, answer>>

Remaining(r) == snapshot[r] \cap slices

\* and ends: it deletes what is left of that.
Delete(r) ==
    /\ stage[r] = "deleting"
    /\ DeleteWaits(r) = {}
    /\ stage' = [stage EXCEPT ![r] = "inserting"]
    /\ deleted' = [deleted EXCEPT ![r] = Remaining(r)]
    /\ UNCHANGED <<slices, snapshot, inserted, answer>>

\* The unique index finds a committed row of the cell.
Conflicts(r) == \E s \in slices \ deleted[r] : s.cell = NextSlice(r).cell

\* volumeSliceRepository.create
Insert(r) ==
    /\ stage[r] = "inserting" /\ ~ Finished(r)
    /\ InsertWaits(r) = {}
    /\ ~ Conflicts(r)
    /\ inserted' = [inserted EXCEPT ![r] = @ \cup {NextSlice(r)}]
    /\ UNCHANGED <<slices, stage, snapshot, deleted, answer>>

Rollback(r) == stage' = [stage EXCEPT ![r] = "failed"] /\ UNCHANGED <<slices, snapshot, deleted, inserted, answer>>

\* DuplicateVolumeSliceCellError
Duplicate(r) ==
    /\ stage[r] = "inserting" /\ ~ Finished(r)
    /\ InsertWaits(r) = {}
    /\ Conflicts(r)
    /\ Rollback(r)

\* Postgres ends one of the transactions that wait for each other.
Deadlock(r) ==
    /\ \E circle \in SUBSET Replacements :
         /\ r \in circle
         /\ \A t \in circle : stage[t] = "inserting" /\ ~ Finished(t) /\ InsertWaits(t) \cap circle # {}
    /\ Rollback(r)

\* A statement fails, or the process dies.
Abort(r) == stage[r] \in {"transaction", "deleting", "inserting"} /\ Rollback(r)

\* Mutant: the transaction commits before its last insert.
Commit_Early(r) ==
    /\ stage[r] = "inserting"
    /\ stage' = [stage EXCEPT ![r] = "done"]
    /\ slices' = (slices \ deleted[r]) \cup inserted[r]
    /\ UNCHANGED <<snapshot, deleted, inserted, answer>>

Commit(r) ==
    /\ stage[r] = "inserting" /\ Finished(r)
    /\ stage' = [stage EXCEPT ![r] = "done"]
    /\ slices' = (slices \ deleted[r]) \cup inserted[r]
    /\ UNCHANGED <<snapshot, deleted, inserted, answer>>

Statement(r) ==
    Arrive(r) \/ Forbidden(r) \/ StartDelete(r) \/ Delete(r) \/ Insert(r) \/ Duplicate(r) \/ Commit(r)

Terminated == (\A r \in Replacements : stage[r] \in {"done", "failed"}) /\ UNCHANGED sliceVars

SliceNext == (\E r \in Replacements : Statement(r) \/ Deadlock(r) \/ Abort(r)) \/ Terminated

\* A request's next statement runs, once nothing it waits for is left, and the
\* database breaks a deadlock.
Fairness == \A r \in Replacements : WF_sliceVars(Statement(r)) /\ WF_sliceVars(Deadlock(r))

SliceSpec == SliceInit /\ [][SliceNext]_sliceVars /\ Fairness

-----------------------------------------------------------------------------
(* Properties                                                              *)

Rows == UNION {ToInsert(r) : r \in Replacements}

\* Types; and no open transaction deletes a row that another one already did.
SlicesTypeOK ==
    /\ slices \subseteq Rows
    /\ stage \in [Replacements -> {"new", "transaction", "deleting", "inserting", "done", "failed"}]
    /\ \A r \in Replacements : /\ inserted[r] \subseteq ToInsert(r) /\ snapshot[r] \subseteq Rows
                           /\ Open(r) => deleted[r] \subseteq slices

\* @@unique and the delete: no cell is ever stored twice, so the grand total
\* counts nothing twice, although replacements that overlap do not see each
\* other's rows.
NoCellTwice == \A s, t \in slices : s.cell = t.cell => s = t

\* withTransaction: a breakdown is stored whole or not at all.  What a failed,
\* interrupted or overtaken request wrote never shows in part.
SubmissionsAreWhole ==
    \A r \in Replacements : ToInsert(r) \cap slices # {} => stage[r] = "done" /\ ToInsert(r) \subseteq slices

\* replaceVolumeSlices: no cell is stored twice and no submission in part, however
\* two replacements overlap.
SlicesAreSound == SlicesTypeOK /\ NoCellTwice /\ SubmissionsAreWhole

\* replaceVolumeSlices against getVolumeSlices: a request that was told its
\* breakdown reconciles is not contradicted by a later read of those same rows.
ReconciledAnswerHolds ==
    \A r \in Replacements : stage[r] = "done" /\ answer[r] = {} /\ slices = ToInsert(r) => Reconciled(Stored)

\* Every request is answered: whoever waits for a row lock gets it, or is failed.
EveryReplacementEnds == \A r \in Replacements : <>(stage[r] \in {"done", "failed"})

-----------------------------------------------------------------------------
(* What a comment of the repository says, and the code does not do           *)

\* "Replaces the Opportunity's ENTIRE volume-slice breakdown in one transaction":
\* what is stored is what one request submitted.  Two replacements of disjoint
\* cells that overlap both stay.
OneSubmissionStored == slices = {} \/ \E r \in Replacements : slices = ToInsert(r)
=============================================================================
