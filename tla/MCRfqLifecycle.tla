--------------------------- MODULE MCRfqLifecycle ---------------------------
(* Instances of RfqLifecycle for TLC.                                      *)
EXTENDS RfqLifecycle, TLC

Symmetry == Permutations(Rfqs) \cup Permutations(Providers)
            \cup Permutations(Requests) \cup Permutations(Quotes)
=============================================================================
