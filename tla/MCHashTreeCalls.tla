-------------------------- MODULE MCHashTreeCalls ---------------------------
(* Instances of HashTreeCalls for TLC. *)
EXTENDS HashTreeCalls, TLC

MCSymmetry == Permutations(Downloads)
=============================================================================
