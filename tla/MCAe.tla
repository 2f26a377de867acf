-------------------------------- MODULE MCAe --------------------------------
(* A set of up to two descriptors, and up to two timers, due as soon as    *)
(* they are created, and again at once or after a second.                  *)
EXTENDS Ae

MCDelays  == {0}
MCPeriods == {0, 1}
=============================================================================
