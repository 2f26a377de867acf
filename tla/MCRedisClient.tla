--------------------------- MODULE MCRedisClient ---------------------------
(* Two callers, two keys, an int of three bits (-4 to 3), a text and a     *)
(* message whose bytes have a NUL after what is also the text.             *)
EXTENDS RedisClient, TLC

CONSTANTS app1, app2, k1, k2, text1, bytes1

MCCallers  == {app1, app2}
MCKeys     == {k1, k2}
MCTexts    == {text1}
MCMessages == {bytes1}
MCFit      == {-4}
MCWide     == {-4, 4}

MCCut    == [v \in Values |-> IF v = bytes1 THEN text1 ELSE v]
MCNumber == [v \in Values |-> IF v \in Ints THEN v ELSE -4]
=============================================================================
