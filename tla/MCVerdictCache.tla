--------------------------- MODULE MCVerdictCache ---------------------------
(* Instances of VerdictCache for TLC. *)
EXTENDS VerdictCache, TLC

Symmetry == Permutations(Inodes) \cup Permutations(Stamps)
=============================================================================
