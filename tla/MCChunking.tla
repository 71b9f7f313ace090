------------------------------ MODULE MCChunking ------------------------------
(* Instances of Chunking for TLC: every text up to MaxLength. *)
EXTENDS Chunking

CONSTANT MaxLength

MCText == UNION {[1..n -> Char] : n \in 0..MaxLength}
=============================================================================
