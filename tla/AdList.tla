------------------------------- MODULE AdList -------------------------------
(***************************************************************************)
(* The doubly linked lists of adlist.c, as nodes and pointers, with one    *)
(* iterator of the application and listDup, in which a dup method or the   *)
(* allocation of a node may fail for each node.  One thread.  Allocation   *)
(* that fails in any other function changes nothing and is no action here. *)
(* When listDup gets no memory for its iterator (line 256), listNext reads *)
(* through NULL: that is undefined, and the model has no step for it.      *)
(*                                                                         *)
(* The values in the nodes are pointers to objects.  The lists have a free *)
(* method; HasDup says whether they have a dup method as well.  An object  *)
(* is in one node at most, as far as it depends on the application.        *)
(* Without a dup method listDup breaks that rule, and when it fails frees  *)
(* the values of the original, which are the copy's as well (line 270):    *)
(* ValuesHeld is claimed for HasDup only.                                  *)
(*                                                                         *)
(* While a list is iterated over, the application deletes no node of it    *)
(* but the one returned last (adlist.c:211-212), and does not rotate or    *)
(* release it.                                                             *)
(***************************************************************************)
EXTENDS Integers, Sequences

CONSTANTS
    Names,       \* pointers to lists
    Nodes,       \* pointers to nodes
    Objects,     \* pointers to values
    Data,        \* what objects contain
    Content,     \* Content[o]: what o contains
    Null,
    HasDup       \* the lists have a dup method

ASSUME AdListAssumption ==
    /\ Null \notin Names \cup Nodes \cup Objects
    /\ Content \in [Objects -> Data]
    /\ HasDup \in BOOLEAN

Ends == {"head", "tail"}     \* AL_START_HEAD, AL_START_TAIL

VARIABLES
    live,                \* the lists that the application has
    head, tail, len,     \* the members of each list
    next, prev, value,   \* the members of each node
    owner,               \* the list a node is in; Null when it is free
    objs,                \* the objects there are
    iterOf, iterNext,    \* the iterator: its list, iter->next,
    direction,           \*   iter->direction,
    current,             \*   the node returned last, unless deleted, and
    todo,                \*   nodes there from its start, not yet returned
    orig, copy,          \* the arguments of the listDup under way, or Null
    dupNext              \* its iterator's next

links    == <<head, tail, len, next, prev, value, owner>>
iterVars == <<iterOf, iterNext, direction, current, todo>>
dupVars  == <<orig, copy, dupNext>>
vars     == <<live, links, objs, iterVars, dupVars>>

In(l) == {n \in Nodes : owner[n] = l}

OrNull(S) == S \cup {Null}

TypeOK ==
    /\ live \subseteq Names
    /\ head \in [Names -> OrNull(Nodes)]
    /\ tail \in [Names -> OrNull(Nodes)]
    /\ len \in [Names -> Nat]
    /\ next \in [Nodes -> OrNull(Nodes)]
    /\ prev \in [Nodes -> OrNull(Nodes)]
    /\ value \in [Nodes -> OrNull(Objects)]
    /\ owner \in [Nodes -> OrNull(Names)]
    /\ objs \subseteq Objects
    /\ iterOf \in OrNull(live)
    /\ iterNext \in OrNull(Nodes)
    /\ direction \in Ends
    /\ current \in OrNull(Nodes)
    /\ todo \subseteq Nodes
    /\ iterOf = Null => iterNext = Null /\ todo = {}
    /\ orig \in OrNull(live)
    /\ copy \in OrNull(Names \ live)
    /\ dupNext \in OrNull(Nodes)

Init ==
    /\ live = {}
    /\ head = [l \in Names |-> Null]
    /\ tail = [l \in Names |-> Null]
    /\ len = [l \in Names |-> 0]
    /\ next = [n \in Nodes |-> Null]
    /\ prev = [n \in Nodes |-> Null]
    /\ value = [n \in Nodes |-> Null]
    /\ owner = [n \in Nodes |-> Null]
    /\ objs = {}
    /\ iterOf = Null /\ iterNext = Null /\ direction = "head"
    /\ current = Null /\ todo = {}
    /\ orig = Null /\ copy = Null /\ dupNext = Null

-----------------------------------------------------------------------------
(* Links.                                                                  *)

\* Faulty: the node behind does not learn of the new one.
BetweenOneWay(l, a, n, b, v) ==
    /\ owner[n] = Null
    /\ next' = [m \in Nodes |-> IF m = n THEN b ELSE IF m = a THEN n ELSE next[m]]
    /\ prev' = [prev EXCEPT ![n] = a]
    /\ head' = [head EXCEPT ![l] = IF a = Null THEN n ELSE @]
    /\ tail' = [tail EXCEPT ![l] = IF b = Null THEN n ELSE @]
    /\ len' = [len EXCEPT ![l] = @ + 1]
    /\ value' = [value EXCEPT ![n] = v]
    /\ owner' = [owner EXCEPT ![n] = l]

\* A new node n that holds v comes between the neighbours a and b in l, of
\* which one is Null at an end of the list, and both are when it is empty.
Between(l, a, n, b, v) ==
    /\ owner[n] = Null
    /\ next' = [m \in Nodes |-> IF m = n THEN b ELSE IF m = a THEN n ELSE next[m]]
    /\ prev' = [m \in Nodes |-> IF m = n THEN a ELSE IF m = b THEN n ELSE prev[m]]
    /\ head' = [head EXCEPT ![l] = IF a = Null THEN n ELSE @]
    /\ tail' = [tail EXCEPT ![l] = IF b = Null THEN n ELSE @]
    /\ len' = [len EXCEPT ![l] = @ + 1]
    /\ value' = [value EXCEPT ![n] = v]
    /\ owner' = [owner EXCEPT ![n] = l]

\* listRelease: the nodes and their values are freed.  It walks over len nodes
\* from the head, which are those in l as long as lists are WellLinked.
Freed(l) ==
    /\ head' = [head EXCEPT ![l] = Null]
    /\ tail' = [tail EXCEPT ![l] = Null]
    /\ len' = [len EXCEPT ![l] = 0]
    /\ next' = [n \in Nodes |-> IF owner[n] = l THEN Null ELSE next[n]]
    /\ prev' = [n \in Nodes |-> IF owner[n] = l THEN Null ELSE prev[n]]
    /\ value' = [n \in Nodes |-> IF owner[n] = l THEN Null ELSE value[n]]
    /\ owner' = [n \in Nodes |-> IF owner[n] = l THEN Null ELSE owner[n]]

ValuesIn(l) == {value[n] : n \in In(l)}

-----------------------------------------------------------------------------
(* The functions, but for listDup.                                         *)

\* The application calls, on a list of its own.
Call(l) == l \in live /\ copy = Null

NotIterated(l) == iterOf # l

Create(l) ==
    /\ copy = Null
    /\ l \notin live
    /\ live' = live \cup {l}
    /\ UNCHANGED <<links, objs, iterVars, dupVars>>

Release(l) ==
    /\ Call(l) /\ NotIterated(l)
    /\ live' = live \ {l}
    /\ Freed(l)
    /\ objs' = objs \ ValuesIn(l)
    /\ UNCHANGED <<iterVars, dupVars>>

\* The value of a new node is an object of the application's.
NewValue(v) ==
    /\ v \notin objs
    /\ objs' = objs \cup {v}

AddNodeHead(l, n, v) ==
    /\ Call(l) /\ NewValue(v)
    /\ Between(l, Null, n, head[l], v)
    /\ UNCHANGED <<live, iterVars, dupVars>>

AddNodeTail(l, n, v) ==
    /\ Call(l) /\ NewValue(v)
    /\ Between(l, tail[l], n, Null, v)
    /\ UNCHANGED <<live, iterVars, dupVars>>

InsertNode(l, old, n, v, after) ==
    /\ Call(l) /\ NewValue(v)
    /\ owner[old] = l
    /\ IF after THEN Between(l, old, n, next[old], v) ELSE Between(l, prev[old], n, old, v)
    /\ UNCHANGED <<live, iterVars, dupVars>>

DelNode(l, n) ==
    /\ Call(l)
    /\ owner[n] = l
    /\ NotIterated(l) \/ n = current
    /\ next' = [m \in Nodes |->
                  IF m = n THEN Null ELSE IF m = prev[n] THEN next[n] ELSE next[m]]
    /\ prev' = [m \in Nodes |->
                  IF m = n THEN Null ELSE IF m = next[n] THEN prev[n] ELSE prev[m]]
    /\ head' = [head EXCEPT ![l] = IF prev[n] = Null THEN next[n] ELSE @]
    /\ tail' = [tail EXCEPT ![l] = IF next[n] = Null THEN prev[n] ELSE @]
    /\ len' = [len EXCEPT ![l] = @ - 1]
    /\ value' = [value EXCEPT ![n] = Null]
    /\ owner' = [owner EXCEPT ![n] = Null]
    /\ objs' = objs \ {value[n]}
    /\ current' = IF current = n THEN Null ELSE current
    /\ todo' = todo \ {n}
    /\ UNCHANGED <<live, iterOf, iterNext, direction, dupVars>>

\* Faulty: the head goes to the tail.
RotateOther(l) ==
    /\ Call(l) /\ NotIterated(l)
    /\ len[l] > 1
    /\ LET h == head[l] IN
        /\ head' = [head EXCEPT ![l] = next[h]]
        /\ tail' = [tail EXCEPT ![l] = h]
        /\ next' = [next EXCEPT ![tail[l]] = h, ![h] = Null]
        /\ prev' = [prev EXCEPT ![next[h]] = Null, ![h] = tail[l]]
    /\ UNCHANGED <<live, len, value, owner, objs, iterVars, dupVars>>

Rotate(l) ==
    /\ Call(l) /\ NotIterated(l)
    /\ len[l] > 1
    /\ LET t == tail[l] IN
        /\ tail' = [tail EXCEPT ![l] = prev[t]]
        /\ head' = [head EXCEPT ![l] = t]
        /\ next' = [next EXCEPT ![prev[t]] = Null, ![t] = head[l]]
        /\ prev' = [prev EXCEPT ![head[l]] = t, ![t] = Null]
    /\ UNCHANGED <<live, len, value, owner, objs, iterVars, dupVars>>

-----------------------------------------------------------------------------
(* Iterators.                                                              *)

\* listGetIterator, listRewind and listRewindTail.
GetIterator(l, d) ==
    /\ Call(l)
    /\ iterOf = Null
    /\ iterOf' = l
    /\ direction' = d
    /\ iterNext' = IF d = "head" THEN head[l] ELSE tail[l]
    /\ current' = Null
    /\ todo' = In(l)
    /\ UNCHANGED <<live, links, objs, dupVars>>

Following(n) == IF direction = "head" THEN next[n] ELSE prev[n]

\* Faulty: the iterator stays on the node it returns and goes on when asked
\* for the one after.
ListNextLate ==
    /\ copy = Null
    /\ iterNext # Null
    /\ current' = IF current = iterNext THEN Following(current) ELSE iterNext
    /\ iterNext' = current'
    /\ todo' = todo \ {current'}
    /\ UNCHANGED <<live, links, objs, iterOf, direction, dupVars>>

\* listNext, which at the end does nothing but return NULL.
ListNext ==
    /\ copy = Null
    /\ iterNext # Null
    /\ current' = iterNext
    /\ iterNext' = Following(iterNext)
    /\ todo' = todo \ {iterNext}
    /\ UNCHANGED <<live, links, objs, iterOf, direction, dupVars>>

\* Faulty: the iterator is used again as it is.
ReleaseIteratorKeeps ==
    /\ copy = Null
    /\ iterOf # Null
    /\ iterOf' = Null
    /\ UNCHANGED <<live, links, objs, iterNext, direction, current, todo, dupVars>>

ReleaseIterator ==
    /\ copy = Null
    /\ iterOf # Null
    /\ iterOf' = Null /\ iterNext' = Null /\ direction' = "head"
    /\ current' = Null /\ todo' = {}
    /\ UNCHANGED <<live, links, objs, dupVars>>

-----------------------------------------------------------------------------
(* listDup, step by step.                                                  *)

\* The copy and the iterator are allocated; c is empty.
DupStart(l, c) ==
    /\ Call(l)
    /\ c \notin live
    /\ orig' = l /\ copy' = c /\ dupNext' = head[l]
    /\ UNCHANGED <<live, links, objs, iterVars>>

\* Faulty: the value is copied as a pointer although there is a dup method.
DupNodeShares(n) ==
    /\ copy # Null /\ dupNext # Null
    /\ Between(copy, tail[copy], n, Null, value[dupNext])
    /\ dupNext' = next[dupNext]
    /\ UNCHANGED <<live, objs, iterVars, orig, copy>>

\* One node is copied into n; its value by the dup method or, without one, as
\* the pointer it is.
DupNode(n) ==
    /\ copy # Null /\ dupNext # Null
    /\ \E v \in Objects :
        /\ IF HasDup THEN NewValue(v) /\ Content[v] = Content[value[dupNext]]
                     ELSE v = value[dupNext] /\ UNCHANGED objs
        /\ Between(copy, tail[copy], n, Null, v)
    /\ dupNext' = next[dupNext]
    /\ UNCHANGED <<live, iterVars, orig, copy>>

\* The dup method or listAddNodeTail fails: the copy made so far is released.
\* In the second case the value lost, if it is a new one, is never freed.
DupFails ==
    /\ copy # Null /\ dupNext # Null
    /\ \E lost \in {{}} \cup {{v} : v \in {o \in Objects \ objs : HasDup}} :
          objs' = (objs \ ValuesIn(copy)) \cup lost
    /\ Freed(copy)
    /\ orig' = Null /\ copy' = Null /\ dupNext' = Null
    /\ UNCHANGED <<live, iterVars>>

DupEnds ==
    /\ copy # Null /\ dupNext = Null
    /\ live' = live \cup {copy}
    /\ orig' = Null /\ copy' = Null
    /\ UNCHANGED <<links, objs, iterVars, dupNext>>

-----------------------------------------------------------------------------
(* listIndex.                                                              *)

\* The node k steps of the given links away from n, or Null.
Steps(pointers, n, k) ==
    LET at[j \in 0 .. k] ==
            IF j = 0 THEN n ELSE IF at[j - 1] = Null THEN Null ELSE pointers[at[j - 1]]
    IN  at[k]

\* Faulty: position -1 is taken for the last node but one.
IndexOff(l, i) == IF i < 0 THEN Steps(prev, tail[l], -i) ELSE Steps(next, head[l], i)

\* Position i from the head or, if negative, from the tail, where -1 is last.
Index(l, i) == IF i < 0 THEN Steps(prev, tail[l], -i - 1) ELSE Steps(next, head[l], i)

-----------------------------------------------------------------------------
(* The specification.                                                      *)

Next ==
    \/ \E l \in Names : Create(l) \/ Release(l) \/ Rotate(l)
    \/ \E l \in Names, n \in Nodes, v \in Objects :
          \/ AddNodeHead(l, n, v)
          \/ AddNodeTail(l, n, v)
          \/ \E old \in Nodes, after \in BOOLEAN : InsertNode(l, old, n, v, after)
    \/ \E l \in Names, n \in Nodes : DelNode(l, n)
    \/ \E l \in Names, d \in Ends : GetIterator(l, d)
    \/ ListNext
    \/ ReleaseIterator
    \/ \E l, c \in Names : DupStart(l, c)
    \/ \E n \in Nodes : DupNode(n)
    \/ DupFails
    \/ DupEnds

Spec == Init /\ [][Next]_vars

-----------------------------------------------------------------------------
(* Properties.                                                             *)

\* s goes through the nodes of l, forward by next and backward by prev.
Chain(l, s) ==
    /\ \A i, j \in 1 .. len[l] : s[i] = s[j] => i = j
    /\ \A n \in Nodes : owner[n] = l <=> \E i \in 1 .. len[l] : s[i] = n
    /\ head[l] = IF len[l] = 0 THEN Null ELSE s[1]
    /\ tail[l] = IF len[l] = 0 THEN Null ELSE s[len[l]]
    /\ \A i \in 1 .. len[l] :
          /\ next[s[i]] = IF i = len[l] THEN Null ELSE s[i + 1]
          /\ prev[s[i]] = IF i = 1 THEN Null ELSE s[i - 1]

\* After any sequence of calls the pointers of each list run through all of
\* its nodes, once, in the same order both ways, and len is their number.
WellLinked == \A l \in Names : \E s \in [1 .. len[l] -> Nodes] : Chain(l, s)

\* Counting from either end, listIndex finds the same node, and none outside
\* of the list (adlist.c:313-315).
IndexBothEnds ==
    \A l \in Names :
        /\ \A i \in 0 .. len[l] - 1 : Index(l, i) = Index(l, i - len[l])
        /\ Index(l, len[l]) = Null /\ Index(l, -len[l] - 1) = Null

\* An iterator stands on a node of its list, also when the node returned last
\* is deleted (adlist.c:211-212).
IterLive == iterNext # Null => owner[iterNext] = iterOf

\* An iterator is never stranded, and when it is at the end, each node there
\* from the start has been returned or deleted.
IterComplete == IterLive /\ (iterNext = Null => todo = {})

\* The values in the nodes are not freed, and none is in two nodes, which
\* would free it twice (adlist.c:68-73, 259-263).
ValuesHeld ==
    \A n \in Nodes : owner[n] # Null =>
        /\ value[n] \in objs
        /\ \A m \in Nodes : owner[m] # Null /\ value[m] = value[n] => m = n

\* The lists implement sequences.  Of listDup that says: "The original list
\* both on success or error is never modified" (adlist.c:244), and the copy is
\* there as a whole or not at all.
Items(l) ==
    [i \in 1 .. IF l \in live THEN len[l] ELSE 0 |-> Content[value[Index(l, i - 1)]]]

Abstract == INSTANCE Lists WITH items <- [l \in Names |-> Items(l)]

ListsSpec == Abstract!Spec
=============================================================================
