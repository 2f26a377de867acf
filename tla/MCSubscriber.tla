---------------------------- MODULE MCSubscriber ----------------------------
(* The redis thread and one or two application threads, two channels, one  *)
(* message type and the garbled body.                                      *)
EXTENDS Subscriber, TLC

CONSTANTS redis, app1, app2, o1

MCOneApp   == {app1}
MCTwoApps  == {app1, app2}
MCChannels == {1, 2}
MCOneChan  == {1}
MCOps      == {o1}

Symmetry == Permutations(MCTwoApps)
=============================================================================
