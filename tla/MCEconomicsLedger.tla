-------------------------- MODULE MCEconomicsLedger --------------------------
(* Instances of EconomicsLedger for TLC: two components owed to one          *)
(* organization.                                                             *)
EXTENDS EconomicsLedger, TLC

CONSTANTS c1, c2, org1

MCShare == [c \in Components |-> IF c = c1 THEN 1 ELSE 2]
MCRecipient == [c \in Components |-> org1]
Symmetry == Permutations(Requests) \cup Permutations(Schedules) \cup Permutations(References)
=============================================================================
