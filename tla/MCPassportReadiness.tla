------------------------- MODULE MCPassportReadiness -------------------------
(* Instances of PassportReadiness for TLC.                                 *)
EXTENDS PassportReadiness, TLC

Symmetry == Permutations(Requests) \cup Permutations(Jobs)
=============================================================================
