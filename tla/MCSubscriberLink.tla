-------------------------- MODULE MCSubscriberLink --------------------------
(* The redis thread, a publishing thread and two channels.                 *)
EXTENDS SubscriberLink, TLC

CONSTANTS redis, app, c1, c2

MCApps     == {app}
MCChannels == {c1, c2}
=============================================================================
