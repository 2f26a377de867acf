----------------------------- MODULE MCZmalloc -----------------------------
(* Three threads, three blocks of one to three bytes, longs of two.        *)
EXTENDS Zmalloc, TLC

CONSTANTS t1, t2, t3, b1, b2, b3

MCThreads == {t1, t2, t3}
MCBlocks  == {b1, b2, b3}
MCSizes   == 1 .. 3
MCUsable  == [n \in MCSizes |-> 2 * n]

Symmetry == Permutations(MCThreads) \cup Permutations(MCBlocks)
=============================================================================
