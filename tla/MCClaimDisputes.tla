--------------------------- MODULE MCClaimDisputes ---------------------------
(* Instances of ClaimDisputes for TLC.                                       *)
EXTENDS ClaimDisputes, TLC

Symmetry == Permutations(Claims) \cup Permutations(Disputes) \cup Permutations(Decisions)
            \cup Permutations(Requests) \cup Permutations(Orgs \ {Subject})
=============================================================================
