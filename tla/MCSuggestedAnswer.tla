-------------------------- MODULE MCSuggestedAnswer --------------------------
(* Instances of SuggestedAnswer for TLC. *)
EXTENDS SuggestedAnswer, TLC

CONSTANTS d1, r1, r2, r3, r4

RequestSymmetry == Permutations(Request)
=============================================================================
