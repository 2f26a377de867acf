------------------------------ MODULE MCAdList ------------------------------
(* Two lists, four nodes, two contents.                                    *)
EXTENDS AdList, TLC

CONSTANTS l1, l2, n1, n2, n3, n4, a1, a2, b1, b2, a, b

MCNames   == {l1, l2}
MCNodes   == {n1, n2, n3, n4}
MCObjects == {a1, a2, b1, b2}
MCData    == {a, b}
MCContent == (a1 :> a) @@ (a2 :> a) @@ (b1 :> b) @@ (b2 :> b)

Symmetry == Permutations(MCNames) \cup Permutations(MCNodes)
              \cup Permutations({a1, a2}) \cup Permutations({b1, b2})
=============================================================================
