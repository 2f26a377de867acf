----------------------------- MODULE MCOverflow -----------------------------
(* Ints of four bits: every pair of operands.                              *)
EXTENDS Overflow

MCIntMax == 7
=============================================================================
