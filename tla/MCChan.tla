------------------------------- MODULE MCChan -------------------------------
(* Two threads, two channels, one message type and the garbled body.       *)
EXTENDS Chan, TLC

CONSTANTS t1, t2, c1, c2, o1

MCThreads  == {t1, t2}
MCChannels == {c1, c2}
MCOps      == {o1}

Symmetry == Permutations(MCThreads) \cup Permutations(MCChannels)
=============================================================================
