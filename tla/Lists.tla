------------------------------- MODULE Lists -------------------------------
(***************************************************************************)
(* What adlist.h promises: named lists are sequences of contents.  The     *)
(* copy of a list appears at once, complete, or not at all.                *)
(***************************************************************************)
EXTENDS Integers, Sequences

CONSTANTS
    Names,       \* pointers to lists
    Data         \* contents

VARIABLES
    live,        \* the lists there are
    items        \* items[l]: the contents of l

vars == <<live, items>>

Init == live = {} /\ items = [l \in Names |-> <<>>]

Create(l) ==
    /\ l \notin live
    /\ live' = live \cup {l}
    /\ UNCHANGED items

Release(l) ==
    /\ l \in live
    /\ live' = live \ {l}
    /\ items' = [items EXCEPT ![l] = <<>>]

\* d becomes the item at position i; i - 1 items stand before it.
Put(l, i, d) ==
    /\ l \in live
    /\ items' = [items EXCEPT ![l] = SubSeq(@, 1, i - 1) \o <<d>> \o SubSeq(@, i, Len(@))]
    /\ UNCHANGED live

Remove(l, i) ==
    /\ l \in live
    /\ items' = [items EXCEPT ![l] = SubSeq(@, 1, i - 1) \o SubSeq(@, i + 1, Len(@))]
    /\ UNCHANGED live

\* The last item becomes the first.
Rotate(l) ==
    /\ l \in live
    /\ items[l] # <<>>
    /\ items' = [items EXCEPT ![l] = <<@[Len(@)]>> \o SubSeq(@, 1, Len(@) - 1)]
    /\ UNCHANGED live

Duplicate(l, c) ==
    /\ l \in live
    /\ c \notin live
    /\ live' = live \cup {c}
    /\ items' = [items EXCEPT ![c] = items[l]]

Next ==
    \/ \E l \in Names : Create(l) \/ Release(l) \/ Rotate(l)
    \/ \E l \in Names, d \in Data : \E i \in 1 .. Len(items[l]) + 1 : Put(l, i, d)
    \/ \E l \in Names : \E i \in 1 .. Len(items[l]) : Remove(l, i)
    \/ \E l, c \in Names : Duplicate(l, c)

Spec == Init /\ [][Next]_vars
=============================================================================
