--------------------------- MODULE CommissionSplit ---------------------------
(***************************************************************************)
(* computeCommissionSplits of packages/domain/src/economics-engine.ts: the  *)
(* split of a period's distributable revenue over the components of a       *)
(* commission schedule.  Fixed amounts come off first; the rest is shared   *)
(* by basis points with the largest-remainder method.                       *)
(*                                                                         *)
(* A pure function.  Amounts are bigint in the code and naturals here.      *)
(***************************************************************************)
EXTENDS Integers, FiniteSets, FiniteSetsExt

CONSTANTS
    ComponentIds,   \* component ids; the code compares them as strings
    BpsBase,        \* basis points of the whole (10000 in the code)
    MaxFixed,       \* bound on one fixed amount
    MaxNet          \* bound on netDistributableMinor

ASSUME SplitAssumption ==
    /\ ComponentIds \subseteq Nat /\ IsFiniteSet(ComponentIds)
    /\ BpsBase \in Nat \ {0} /\ MaxFixed \in Nat /\ MaxNet \in Nat

\* A component is a fixed amount or a share in basis points (at most BpsBase:
\* assertIntegerBps at the caller).  The list may be empty after
\* selectComponentsForBasis has filtered it.
Component == [kind: {"FIXED_AMOUNT"}, value: 0..MaxFixed]
             \cup [kind: {"PERCENTAGE_BPS"}, value: 0..BpsBase]
SplitInputs == {[components |-> c, net |-> n] :
             c \in UNION {[ids -> Component] : ids \in SUBSET ComponentIds}, n \in 0..MaxNet}

-----------------------------------------------------------------------------
OfKind(in, kind) == {c \in DOMAIN in.components : in.components[c].kind = kind}
Fixed(in) == OfKind(in, "FIXED_AMOUNT")
Bps(in) == OfKind(in, "PERCENTAGE_BPS")
Value(in, c) == in.components[c].value

FixedTotal(in) == MapThenSumSet(LAMBDA c : Value(in, c), Fixed(in))
BpsTotal(in) == MapThenSumSet(LAMBDA c : Value(in, c), Bps(in))
RemainingAfterFixed(in) == in.net - FixedTotal(in)

\* What the boundary checks refuse: no component, more fixed amounts than
\* money, a remainder nobody takes, shares that are not the whole.
Rejected(in) ==
    \/ DOMAIN in.components = {}
    \/ FixedTotal(in) > in.net
    \/ Bps(in) = {} /\ RemainingAfterFixed(in) # 0
    \/ Bps(in) # {} /\ BpsTotal(in) # BpsBase

Numerator(in, c) == RemainingAfterFixed(in) * Value(in, c)
FloorShare(in, c) == Numerator(in, c) \div BpsBase
Remainder(in, c) == Numerator(in, c) % BpsBase
LeftoverPool(in) ==
    RemainingAfterFixed(in) - MapThenSumSet(LAMBDA c : FloorShare(in, c), Bps(in))

\* Mutant: the units go to the smallest remainders.
RanksBefore_SmallestFirst(in, c, d) ==
    \/ Remainder(in, c) < Remainder(in, d)
    \/ Remainder(in, c) = Remainder(in, d) /\ c < d

\* The sort: larger remainder first, ties by component id.
RanksBefore(in, c, d) ==
    \/ Remainder(in, c) > Remainder(in, d)
    \/ Remainder(in, c) = Remainder(in, d) /\ c < d

Rank(in, c) == Cardinality({d \in Bps(in) : RanksBefore(in, d, c)})

\* The loop: one unit each, in rank order, until the pool is empty.
BonusUnits(in) == {c \in Bps(in) : Rank(in, c) < LeftoverPool(in)}

Amount(in, c) ==
    IF c \in Fixed(in) THEN Value(in, c)
    ELSE FloorShare(in, c) + (IF c \in BonusUnits(in) THEN 1 ELSE 0)

Entries(in) == [c \in DOMAIN in.components |-> Amount(in, c)]

SumOf(entries) == MapThenSumSet(LAMBDA c : entries[c], DOMAIN entries)

\* The three "structurally unreachable" throws: the pool below zero, units left
\* after one pass over the components, entries that do not add up.
InternalError(in) ==
    \/ Bps(in) # {} /\ (LeftoverPool(in) < 0 \/ LeftoverPool(in) > Cardinality(Bps(in)))
    \/ SumOf(Entries(in)) # in.net

ComputeCommissionSplits(in) ==
    IF Rejected(in) THEN [outcome |-> "rejected"]
    ELSE IF InternalError(in) THEN [outcome |-> "internalError"]
    ELSE [outcome |-> "ok", entries |-> Entries(in)]
=============================================================================
