---------------------------- MODULE LedgerPeriod ----------------------------
(***************************************************************************)
(* The arithmetic around one commission split: which schedule and which of  *)
(* its components a revenue event is split over, the rows the ledger takes,  *)
(* and what is read off them: the balance of an accrual, the reconciliation *)
(* of a period, a schedule's cap and floor.  Pure functions of              *)
(* packages/domain/src/economics-engine.ts and the economics service.       *)
(***************************************************************************)
EXTENDS CommissionSplit, Sequences, Functions

CONSTANT Null       \* no cap, no floor, no basis of its own

\* A schedule: basis, components, the basis of each component or Null, cap, floor.
SelectComponentsForBasis(schedule, target) ==
    {c \in DOMAIN schedule.components :
        target = IF schedule.basisOf[c] = Null THEN schedule.basis ELSE schedule.basisOf[c]}

Net(event) == event.gross - event.deductions

\* recordRevenueEvent up to its transaction, `schedules' being the ACTIVE ones,
\* newest first: the newest of the event's basis, split over its components.
RecordEvent(schedules, event) ==
    LET covering == {k \in DOMAIN schedules : schedules[k].basis = event.basis}
        schedule == schedules[Min(covering)]
    IN  IF covering = {} \/ Net(event) < 0 THEN [outcome |-> "rejected"]
        ELSE LET split == ComputeCommissionSplits(
                            [net |-> Net(event), components |->
                               Restrict(schedule.components, SelectComponentsForBasis(schedule, event.basis))])
             IN  IF split.outcome # "ok" THEN [outcome |-> "rejected"]
                 ELSE [outcome |-> "ok", schedule |-> Min(covering), entries |-> split.entries]

\* commissionAccrualRepository.create: payments and reversals are DEBIT entries of
\* an accrual that exists.
EntryIsValid(row) == row.entryType \in {"PAYMENT", "REVERSAL"} => row.direction = "DEBIT"

\* The ledger after the events and the later entries; id tells equal rows apart.
Ledger(schedules, events, later) ==
    LET accruals ==
          UNION {LET made == RecordEvent(schedules, events[i])
                 IN  IF made.outcome # "ok" THEN {}
                     ELSE {[id |-> 0, event |-> i, schedule |-> made.schedule, component |-> c,
                            entryType |-> "ACCRUAL", direction |-> "CREDIT", amount |-> made.entries[c]] :
                              c \in DOMAIN made.entries} : i \in DOMAIN events}
        on(j) == {a \in accruals : a.event = later[j].event /\ a.component = later[j].component}
    IN  accruals \cup
        UNION {{[a EXCEPT !.id = j, !.entryType = later[j].entryType, !.direction = later[j].direction,
                          !.amount = later[j].amount] :
                   a \in IF EntryIsValid(later[j]) THEN on(j) ELSE {}} : j \in DOMAIN later}

-----------------------------------------------------------------------------
Total(rows) == MapThenSumSet(LAMBDA r : r.amount, rows)
OfType(rows, type) == {r \in rows : r.entryType = type}
Signed(rows) ==
    Total({r \in rows : r.direction = "CREDIT"}) - Total({r \in rows : r.direction = "DEBIT"})

\* groupIntoAccruals: the rows of one accrual root.
Chains(rows) == {{r \in rows : r.event = a.event /\ r.component = a.component} : a \in OfType(rows, "ACCRUAL")}

\* Mutant: a reversal is not looked at.
OutstandingOf_NoReversal(chain) ==
    Total(OfType(chain, "ACCRUAL")) + Signed(OfType(chain, "ADJUSTMENT")) - Total(OfType(chain, "PAYMENT"))

OutstandingOf(chain) ==
    IF OfType(chain, "REVERSAL") # {} THEN 0
    ELSE Total(OfType(chain, "ACCRUAL")) + Signed(OfType(chain, "ADJUSTMENT")) - Total(OfType(chain, "PAYMENT"))

ComputeAccrualBalance(chain) ==
    [outstanding |-> OutstandingOf(chain),
     status |-> IF OfType(chain, "REVERSAL") # {} THEN "REVERSED"
                ELSE IF OutstandingOf(chain) <= 0 THEN "PAID"
                ELSE IF Total(OfType(chain, "PAYMENT")) > 0 THEN "PARTIALLY_PAID"
                ELSE IF OfType(chain, "ADJUSTMENT") # {} THEN "ADJUSTED"
                ELSE "ACCRUED"]

\* The sum of the ACCRUAL entries, here and in sumAccrualAmountByScheduleId.
Distributed(rows) == Total(OfType(rows, "ACCRUAL"))

\* netDistributableMinor is stored as the difference, so only the distribution
\* can fail to match.
ReconcileRevenueEvent(event, rows) ==
    [reconciled |-> Distributed(rows) = Net(event),
     outstanding |-> Distributed(rows) + Signed(OfType(rows, "ADJUSTMENT"))
                     - Total(OfType(rows, "PAYMENT")) - Total(OfType(rows, "REVERSAL"))]

EvaluateScheduleCapFloor(schedule, cumulative) ==
    [capExceededBy |-> IF schedule.cap # Null /\ cumulative > schedule.cap THEN cumulative - schedule.cap ELSE Null,
     floorShortfall |-> IF schedule.floor # Null /\ cumulative < schedule.floor
                        THEN schedule.floor - cumulative ELSE Null]

\* toCapFloorStatus: nothing to disclose without a cap and a floor.
ToCapFloorStatus(schedule, cumulative) ==
    IF schedule.cap = Null /\ schedule.floor = Null THEN Null
    ELSE EvaluateScheduleCapFloor(schedule, cumulative)
=============================================================================
