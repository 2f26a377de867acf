---------------------------- MODULE AdListProofs ----------------------------
(***************************************************************************)
(* Proofs about AdList, for any numbers of lists, nodes and values: the    *)
(* pointers of a list form a sequence, iterators go through it without     *)
(* missing a node, no value is freed while a node holds it, positions are  *)
(* the same from both ends, and the lists implement those of Lists.        *)
(***************************************************************************)
EXTENDS AdList, SequenceTheorems, WellFoundedInduction, TLAPS

\* The iterator stands on a node of s, with the nodes left to it from there on.
Walk(l, s) ==
    iterNext # Null =>
        \E q \in 1 .. len[l] :
            /\ iterNext = s[q]
            /\ \A m \in todo : \E i \in 1 .. len[l] :
                  /\ m = s[i]
                  /\ IF direction = "head" THEN q <= i ELSE i <= q

Kept(l) ==
    \E s \in [1 .. len[l] -> Nodes] : Chain(l, s) /\ (iterOf = l => Walk(l, s))

\* The node returned last is not the one to come, so that it may be deleted.
Iterating ==
    /\ iterNext # Null => iterNext # current
    /\ iterNext = Null => todo = {}

\* The arguments of listDup come and go together.
Copying == orig = Null <=> copy = Null

LInv == TypeOK /\ Copying /\ Iterating /\ \A l \in Names : Kept(l)

-----------------------------------------------------------------------------
(* Links.                                                                  *)

\* A step leaves list k alone.
Alone(k) ==
    /\ len'[k] = len[k] /\ head'[k] = head[k] /\ tail'[k] = tail[k]
    /\ \A m \in Nodes : owner'[m] = k <=> owner[m] = k
    /\ \A m \in Nodes :
          owner[m] = k => next'[m] = next[m] /\ prev'[m] = prev[m] /\ value'[m] = value[m]

LEMMA AloneSame == ASSUME UNCHANGED links PROVE \A k \in Names : Alone(k)
BY DEF Alone, links

LEMMA ChainSame ==
    ASSUME NEW k \in Names, NEW s \in [1 .. len[k] -> Nodes], Chain(k, s), Alone(k)
    PROVE  Chain(k, s)'
<1> USE DEF Alone
<1>1. \A n \in Nodes : owner'[n] = k <=> \E i \in 1 .. len'[k] : s[i] = n
  BY DEF Chain
<1>2. \A i \in 1 .. len'[k] : /\ next'[s[i]] = IF i = len'[k] THEN Null ELSE s[i + 1]
                             /\ prev'[s[i]] = IF i = 1 THEN Null ELSE s[i - 1]
  BY DEF Chain
<1> QED
  BY <1>1, <1>2 DEF Chain

\* So it is kept.
LEMMA Untouched ==
    ASSUME NEW k \in Names, Kept(k), Alone(k),
           iterOf' = k => /\ iterOf = k /\ iterNext' = iterNext
                          /\ direction' = direction /\ todo' \subseteq todo
    PROVE  Kept(k)'
<1>1. PICK s \in [1 .. len[k] -> Nodes] : Chain(k, s) /\ (iterOf = k => Walk(k, s))
  BY DEF Kept
<1>2. Chain(k, s)' /\ len'[k] = len[k]
  BY <1>1, ChainSame DEF Alone
<1>3. ASSUME iterOf' = k PROVE Walk(k, s)'
  BY <1>1, <1>2, <1>3 DEF Walk
<1> QED
  BY <1>1, <1>2, <1>3 DEF Kept

\* A sequence t of nodes, compared to s of N nodes: n comes after the first p,
\* the one at p is gone, or the last comes first.
With(t, s, N, p, n) ==
    \A i \in 1 .. N + 1 : t[i] = IF i <= p THEN s[i] ELSE IF i = p + 1 THEN n ELSE s[i - 1]

Without(t, s, N, p) == \A i \in 1 .. N - 1 : t[i] = IF i < p THEN s[i] ELSE s[i + 1]

Turned(t, s, N) == \A i \in 1 .. N : t[i] = IF i = 1 THEN s[N] ELSE s[i - 1]

\* A node that enters a list at any place: the others are left alone, and the
\* list goes on through the nodes it had, with the new one at its place.
LEMMA BetweenMoves ==
    ASSUME LInv,
           NEW l \in Names, NEW n \in Nodes, NEW v,
           NEW s \in [1 .. len[l] -> Nodes], Chain(l, s), iterOf = l => Walk(l, s),
           NEW p \in 0 .. len[l],
           Between(l, IF p = 0 THEN Null ELSE s[p], n,
                      IF p = len[l] THEN Null ELSE s[p + 1], v),
           UNCHANGED iterVars
    PROVE  /\ \A k \in Names \ {l} : Alone(k)
           /\ \E t \in [1 .. len[l] + 1 -> Nodes] :
                 With(t, s, len[l], p, n) /\ Chain(l, t)' /\ (iterOf' = l => Walk(l, t)')
<1> SUFFICES ASSUME NEW N, N = len[l],
                    NEW a, a = IF p = 0 THEN Null ELSE s[p],
                    NEW b, b = IF p = N THEN Null ELSE s[p + 1],
                    Between(l, a, n, b, v)
             PROVE  /\ \A k \in Names \ {l} : Alone(k)
                    /\ \E t \in [1 .. N + 1 -> Nodes] :
                          With(t, s, N, p, n) /\ Chain(l, t)' /\ (iterOf' = l => Walk(l, t)')
  OBVIOUS
<1> USE AdListAssumption
<1>1. /\ N \in Nat /\ len[l] = N /\ len'[l] = N + 1 /\ p \in 0 .. N
      /\ s \in [1 .. N -> Nodes]
      /\ next' = [m \in Nodes |-> IF m = n THEN b ELSE IF m = a THEN n ELSE next[m]]
      /\ prev' = [m \in Nodes |-> IF m = n THEN a ELSE IF m = b THEN n ELSE prev[m]]
      /\ head'[l] = IF a = Null THEN n ELSE head[l]
      /\ tail'[l] = IF b = Null THEN n ELSE tail[l]
      /\ owner' = [owner EXCEPT ![n] = l] /\ owner[n] = Null
      /\ value' = [value EXCEPT ![n] = v]
  BY DEF LInv, TypeOK, Between
<1>2. \A k \in Names \ {l} :
         len'[k] = len[k] /\ head'[k] = head[k] /\ tail'[k] = tail[k]
  BY DEF LInv, TypeOK, Between
<1>3. a # Null => owner[a] = l /\ a \in Nodes
  BY DEF Chain
<1>4. b # Null => owner[b] = l /\ b \in Nodes
  <2>1. p # N => p + 1 \in 1 .. N
    BY <1>1
  <2> QED
    BY <1>1, <2>1 DEF Chain
<1>5. ASSUME NEW k \in Names \ {l} PROVE Alone(k)
  <2>1. \A m \in Nodes : owner'[m] = k <=> owner[m] = k
    BY <1>1 DEF LInv, TypeOK
  <2>2. \A m \in Nodes : owner[m] = k => m # n /\ m # a /\ m # b
    BY <1>1, <1>3, <1>4
  <2>3. \A m \in Nodes : owner[m] = k =>
           next'[m] = next[m] /\ prev'[m] = prev[m] /\ value'[m] = value[m]
    BY <1>1, <2>2 DEF LInv, TypeOK
  <2> QED
    BY <1>2, <2>1, <2>3 DEF Alone
<1>6. \E t \in [1 .. N + 1 -> Nodes] :
         With(t, s, N, p, n) /\ Chain(l, t)' /\ (iterOf' = l => Walk(l, t)')
  <2>1. PICK t \in [1 .. N + 1 -> Nodes] :
           \A i \in 1 .. N + 1 :
              t[i] = IF i <= p THEN s[i] ELSE IF i = p + 1 THEN n ELSE s[i - 1]
    <3> DEFINE at(i) == IF i <= p THEN s[i] ELSE IF i = p + 1 THEN n ELSE s[i - 1]
    <3>1. \A i \in 1 .. N + 1 : at(i) \in Nodes
      <4> SUFFICES ASSUME NEW i \in 1 .. N + 1 PROVE at(i) \in Nodes
        OBVIOUS
      <4>1. i <= p => i \in 1 .. N
        BY <1>1
      <4>2. i > p + 1 => i - 1 \in 1 .. N
        BY <1>1
      <4> QED
        BY <1>1, <4>1, <4>2
    <3> HIDE DEF at
    <3>2. [i \in 1 .. N + 1 |-> at(i)] \in [1 .. N + 1 -> Nodes]
      BY <3>1
    <3> QED
      BY <3>2 DEF at
  <2>2. \A i \in 1 .. N : s[i] # n /\ owner[s[i]] = l /\ s[i] \in Nodes
    <3>1. \A i \in 1 .. N : s[i] \in Nodes
      BY <1>1
    <3>2. \A i \in 1 .. N : owner[s[i]] = l
      BY <1>1, <3>1 DEF Chain
    <3>3. l # Null
      OBVIOUS
    <3> QED
      BY <1>1, <3>1, <3>2, <3>3
  <2>3. \A i, j \in 1 .. N : s[i] = s[j] => i = j
    BY DEF Chain
  <2>4. \A i, j \in 1 .. N + 1 : t[i] = t[j] => i = j
    <3> DEFINE before(i) == IF i <= p THEN i ELSE i - 1
    <3>1. \A i \in 1 .. N + 1 : i # p + 1 => before(i) \in 1 .. N /\ t[i] = s[before(i)]
      <4> SUFFICES ASSUME NEW i \in 1 .. N + 1, i # p + 1
                   PROVE  before(i) \in 1 .. N /\ t[i] = s[before(i)]
        OBVIOUS
      <4>1. t[i] = s[before(i)]
        BY <2>1
      <4>2. before(i) \in 1 .. N
        BY <1>1
      <4> QED
        BY <4>1, <4>2
    <3>2. \A i, j \in 1 .. N + 1 :
             i # p + 1 /\ j # p + 1 /\ before(i) = before(j) => i = j
      BY <1>1
    <3>3. \A i \in 1 .. N + 1 : i = p + 1 => t[i] = n
      BY <1>1, <2>1
    <3> HIDE DEF before
    <3> QED
      BY <2>2, <2>3, <3>1, <3>2, <3>3
  <2>5. \A m \in Nodes : owner'[m] = l <=> \E i \in 1 .. N + 1 : t[i] = m
    <3>1. ASSUME NEW m \in Nodes, owner[m] = l PROVE \E i \in 1 .. N + 1 : t[i] = m
      <4>1. PICK i \in 1 .. N : s[i] = m
        BY <3>1 DEF Chain
      <4>2. CASE i <= p
        BY <1>1, <2>1, <4>1, <4>2
      <4>3. CASE i > p
        <5>1. i + 1 \in 1 .. N + 1 /\ t[i + 1] = s[i]
          BY <1>1, <2>1, <4>3
        <5> QED
          BY <4>1, <5>1
      <4> QED
        BY <1>1, <4>2, <4>3
    <3>2. t[p + 1] = n /\ p + 1 \in 1 .. N + 1
      BY <1>1, <2>1
    <3>3. \A i \in 1 .. N + 1 : owner'[t[i]] = l
      BY <1>1, <2>1, <2>2 DEF LInv, TypeOK
    <3>4. \A m \in Nodes : owner'[m] = l => m = n \/ owner[m] = l
      BY <1>1 DEF LInv, TypeOK
    <3> QED
      BY <3>1, <3>2, <3>3, <3>4
  <2>6. head'[l] = t[1] /\ tail'[l] = t[N + 1]
    <3>1. a = Null <=> p = 0
      BY <1>1, <2>2
    <3>2. b = Null <=> p = N
      BY <1>1, <2>2
    <3>3. head'[l] = t[1]
      BY <1>1, <2>1, <3>1 DEF Chain
    <3>4. tail'[l] = t[N + 1]
      <4>1. CASE p = N
        BY <1>1, <2>1, <3>2, <4>1
      <4>2. CASE p < N
        BY <1>1, <2>1, <3>2, <4>2 DEF Chain
      <4> QED
        BY <1>1, <4>1, <4>2
    <3> QED
      BY <3>3, <3>4
  <2>7. \A i \in 1 .. N + 1 : next'[t[i]] = IF i = N + 1 THEN Null ELSE t[i + 1]
    <3> SUFFICES ASSUME NEW i \in 1 .. N + 1
                 PROVE  next'[t[i]] = IF i = N + 1 THEN Null ELSE t[i + 1]
      OBVIOUS
    <3>1. CASE i < p
      <4>1. /\ i \in 1 .. N /\ i + 1 <= p /\ i + 1 \in 1 .. N /\ i # N
            /\ t[i] = s[i] /\ t[i + 1] = s[i + 1]
        BY <1>1, <2>1, <3>1
      <4>2. s[i] # n /\ s[i] # a
        BY <1>1, <2>2, <2>3, <3>1, <4>1
      <4>3. next'[s[i]] = s[i + 1]
        BY <1>1, <2>2, <4>1, <4>2 DEF Chain
      <4> QED
        BY <1>1, <4>1, <4>3
    <3>2. CASE i = p
      BY <1>1, <2>1, <2>2, <3>2 DEF Chain
    <3>3. CASE i = p + 1
      BY <1>1, <2>1, <3>3 DEF Chain
    <3>4. CASE i > p + 1
      <4>1. /\ i - 1 \in 1 .. N /\ t[i] = s[i - 1] /\ (i - 1) + 1 = i
            /\ i # N + 1 => i + 1 \in 1 .. N + 1 /\ t[i + 1] = s[i]
            /\ i = N + 1 => i - 1 = N
            /\ i - 1 = N => i = N + 1
        <5>1. p \in Int /\ N \in Int /\ i \in Int /\ i > p + 1 /\ i \in 1 .. N + 1
          BY <1>1, <3>4
        <5>2. i # N + 1 => i + 1 \in 1 .. N + 1
          BY <5>1
        <5>3. ~(i + 1 <= p) /\ i + 1 # p + 1 /\ (i + 1) - 1 = i
          BY <5>1
        <5>4. i # N + 1 => t[i + 1] = s[i]
          BY <2>1, <5>2, <5>3
        <5>5. t[i] = s[i - 1]
          BY <1>1, <2>1, <3>4
        <5> QED
          BY <5>1, <5>2, <5>4, <5>5
      <4>2. s[i - 1] # n /\ s[i - 1] # a
        BY <1>1, <2>2, <2>3, <3>4, <4>1
      <4>3. next'[s[i - 1]] = IF i - 1 = N THEN Null ELSE s[i]
        BY <1>1, <2>2, <4>1, <4>2 DEF Chain
      <4> QED
        BY <1>1, <4>1, <4>3
    <3> QED
      BY <1>1, <3>1, <3>2, <3>3, <3>4
  <2>8. \A i \in 1 .. N + 1 : prev'[t[i]] = IF i = 1 THEN Null ELSE t[i - 1]
    <3> SUFFICES ASSUME NEW i \in 1 .. N + 1
                 PROVE  prev'[t[i]] = IF i = 1 THEN Null ELSE t[i - 1]
      OBVIOUS
    <3>1. CASE i <= p
      <4>1. i \in 1 .. N /\ t[i] = s[i] /\ (i # 1 => i - 1 \in 1 .. N /\ t[i - 1] = s[i - 1])
        BY <1>1, <2>1, <3>1
      <4>2. s[i] # n /\ s[i] # b
        BY <1>1, <2>2, <2>3, <3>1, <4>1
      <4>3. prev'[s[i]] = IF i = 1 THEN Null ELSE s[i - 1]
        BY <1>1, <2>2, <4>1, <4>2 DEF Chain
      <4> QED
        BY <4>1, <4>3
    <3>2. CASE i = p + 1
      BY <1>1, <2>1, <3>2 DEF Chain
    <3>3. CASE i = p + 2
      BY <1>1, <2>1, <2>2, <3>3 DEF Chain
    <3>4. CASE i > p + 2
      <4>1. i - 1 \in 1 .. N /\ i - 1 # 1 /\ (i - 1) - 1 \in 1 .. N
        BY <1>1, <3>4
      <4>2. t[i] = s[i - 1] /\ t[i - 1] = s[(i - 1) - 1]
        BY <1>1, <2>1, <3>4
      <4>3. s[i - 1] # n /\ s[i - 1] # b
        <5>1. p # N => p + 1 \in 1 .. N /\ i - 1 # p + 1
          BY <1>1, <3>4
        <5> QED
          BY <2>2, <2>3, <4>1, <5>1
      <4>4. prev'[s[i - 1]] = s[(i - 1) - 1]
        BY <1>1, <2>2, <4>1, <4>3 DEF Chain
      <4> QED
        BY <3>4, <4>2, <4>4
    <3> QED
      BY <1>1, <3>1, <3>2, <3>3, <3>4
  <2>9. Chain(l, t)'
    BY <1>1, <2>4, <2>5, <2>6, <2>7, <2>8 DEF Chain
  <2>10. ASSUME iterOf' = l PROVE Walk(l, t)'
    <3> SUFFICES ASSUME iterNext # Null PROVE Walk(l, t)'
      BY DEF Walk, iterVars
    <3>1. PICK q \in 1 .. N :
             /\ iterNext = s[q]
             /\ \A m \in todo : \E i \in 1 .. N :
                   m = s[i] /\ IF direction = "head" THEN q <= i ELSE i <= q
      BY <2>10 DEF Walk, iterVars
    <3> DEFINE shift(i) == IF i <= p THEN i ELSE i + 1
    <3>2. ASSUME NEW i \in 1 .. N PROVE shift(i) \in 1 .. N + 1 /\ t[shift(i)] = s[i]
      <4>1. CASE i <= p
        BY <1>1, <2>1, <4>1
      <4>2. CASE i > p
        <5>1. i + 1 \in 1 .. N + 1 /\ ~(i + 1 <= p) /\ i + 1 # p + 1 /\ (i + 1) - 1 = i
          BY <1>1, <4>2
        <5>2. t[i + 1] = s[i]
          BY <2>1, <5>1
        <5> QED
          BY <1>1, <4>2, <5>1, <5>2
      <4> QED
        BY <1>1, <4>1, <4>2
    <3>3. \A i, j \in 1 .. N : i <= j => shift(i) <= shift(j)
      BY <1>1
    <3>4. \A m \in todo : \E i \in 1 .. N + 1 :
             m = t[i] /\ IF direction = "head" THEN shift(q) <= i ELSE i <= shift(q)
      <4> SUFFICES ASSUME NEW m \in todo
                   PROVE \E i \in 1 .. N + 1 : /\ m = t[i]
                            /\ IF direction = "head" THEN shift(q) <= i ELSE i <= shift(q)
        OBVIOUS
      <4>1. PICK i \in 1 .. N : m = s[i] /\ IF direction = "head" THEN q <= i ELSE i <= q
        BY <3>1
      <4>2. shift(i) \in 1 .. N + 1 /\ m = t[shift(i)]
        BY <3>2, <4>1
      <4>3. IF direction = "head" THEN shift(q) <= shift(i) ELSE shift(i) <= shift(q)
        BY <3>3, <4>1
      <4> HIDE DEF shift
      <4> QED
        BY <4>2, <4>3
    <3>5. shift(q) \in 1 .. N + 1 /\ iterNext = t[shift(q)]
      BY <3>1, <3>2
    <3> HIDE DEF shift
    <3> QED
      BY <1>1, <3>4, <3>5 DEF Walk, iterVars
  <2> QED
    BY <2>1, <2>9, <2>10 DEF With
<1> QED
  BY <1>5, <1>6

\* A node n that holds v enters l somewhere.
Enters(l, n, v) ==
    \E s \in [1 .. len[l] -> Nodes] : \E p \in 0 .. len[l] :
        /\ Chain(l, s) /\ (iterOf = l => Walk(l, s))
        /\ Between(l, IF p = 0 THEN Null ELSE s[p], n,
                      IF p = len[l] THEN Null ELSE s[p + 1], v)

LEMMA EntersKeeps ==
    ASSUME LInv, NEW l \in Names, NEW n \in Nodes, NEW v, Enters(l, n, v), UNCHANGED iterVars
    PROVE  \A k \in Names : Kept(k)'
<1>1. PICK s \in [1 .. len[l] -> Nodes], p \in 0 .. len[l] :
         /\ Chain(l, s) /\ (iterOf = l => Walk(l, s))
         /\ Between(l, IF p = 0 THEN Null ELSE s[p], n,
                       IF p = len[l] THEN Null ELSE s[p + 1], v)
  BY DEF Enters
<1>2. PICK t \in [1 .. len[l] + 1 -> Nodes] : Chain(l, t)' /\ (iterOf' = l => Walk(l, t)')
  BY <1>1, BetweenMoves
<1>3. len'[l] = len[l] + 1
  BY <1>1 DEF LInv, TypeOK, Between
<1>4. ASSUME NEW k \in Names \ {l} PROVE Kept(k)'
  <2>1. Alone(k)
    BY <1>1, BetweenMoves
  <2> QED
    BY <2>1, Untouched DEF LInv, iterVars
<1>5. Kept(l)'
  BY <1>2, <1>3 DEF Kept
<1> QED
  BY <1>4, <1>5

\* A node that is deleted: the others are left alone, and the list goes on
\* through the nodes it had but this one, also when it is iterated over and the
\* node is the one returned last.
LEMMA DelMoves ==
    ASSUME LInv, NEW l \in Names, NEW n \in Nodes, DelNode(l, n),
           NEW s \in [1 .. len[l] -> Nodes], Chain(l, s), iterOf = l => Walk(l, s),
           NEW p \in 1 .. len[l], s[p] = n
    PROVE  /\ \A k \in Names \ {l} : Alone(k)
           /\ \E t \in [1 .. len[l] - 1 -> Nodes] :
                 Without(t, s, len[l], p) /\ Chain(l, t)' /\ (iterOf' = l => Walk(l, t)')
<1> USE AdListAssumption
<1> SUFFICES ASSUME NEW N, N = len[l],
                    NEW a, a = IF p = 1 THEN Null ELSE s[p - 1],
                    NEW b, b = IF p = N THEN Null ELSE s[p + 1]
             PROVE  /\ \A k \in Names \ {l} : Alone(k)
                    /\ \E t \in [1 .. N - 1 -> Nodes] :
                          Without(t, s, N, p) /\ Chain(l, t)' /\ (iterOf' = l => Walk(l, t)')
  OBVIOUS
<1>1. /\ N \in Nat /\ p \in 1 .. N /\ s \in [1 .. N -> Nodes] /\ len[l] = N /\ len'[l] = N - 1
      /\ next[n] = b /\ prev[n] = a /\ owner[n] = l
  BY DEF LInv, TypeOK, DelNode, Chain
<1>2. /\ next' = [m \in Nodes |-> IF m = n THEN Null ELSE IF m = a THEN b ELSE next[m]]
      /\ prev' = [m \in Nodes |-> IF m = n THEN Null ELSE IF m = b THEN a ELSE prev[m]]
      /\ head'[l] = IF a = Null THEN b ELSE head[l]
      /\ tail'[l] = IF b = Null THEN a ELSE tail[l]
      /\ owner' = [owner EXCEPT ![n] = Null] /\ value' = [value EXCEPT ![n] = Null]
  BY <1>1 DEF LInv, TypeOK, DelNode
<1>3. \A k \in Names \ {l} :
         len'[k] = len[k] /\ head'[k] = head[k] /\ tail'[k] = tail[k]
  BY DEF LInv, TypeOK, DelNode
<1>4. \A i \in 1 .. N : owner[s[i]] = l /\ s[i] \in Nodes
  BY <1>1 DEF Chain
<1>5. \A i, j \in 1 .. N : s[i] = s[j] => i = j
  BY <1>1 DEF Chain
<1>6. (a # Null => owner[a] = l) /\ (a = Null <=> p = 1)
  BY <1>1, <1>4
<1>7. (b # Null => owner[b] = l) /\ (b = Null <=> p = N)
  BY <1>1, <1>4
<1>8. ASSUME NEW k \in Names \ {l} PROVE Alone(k)
  <2>1. \A m \in Nodes : owner'[m] = k <=> owner[m] = k
    BY <1>1, <1>2 DEF LInv, TypeOK
  <2>2. \A m \in Nodes : owner[m] = k => m # n /\ m # a /\ m # b
    BY <1>1, <1>6, <1>7
  <2>3. \A m \in Nodes : owner[m] = k =>
           next'[m] = next[m] /\ prev'[m] = prev[m] /\ value'[m] = value[m]
    BY <1>2, <2>2 DEF LInv, TypeOK
  <2> QED
    BY <1>3, <2>1, <2>3 DEF Alone
<1>9. \E t \in [1 .. N - 1 -> Nodes] :
         Without(t, s, N, p) /\ Chain(l, t)' /\ (iterOf' = l => Walk(l, t)')
  <2>1. PICK t \in [1 .. N - 1 -> Nodes] :
           \A i \in 1 .. N - 1 : t[i] = IF i < p THEN s[i] ELSE s[i + 1]
    <3> DEFINE at(i) == IF i < p THEN s[i] ELSE s[i + 1]
    <3>1. \A i \in 1 .. N - 1 : at(i) \in Nodes
      BY <1>1
    <3> HIDE DEF at
    <3>2. [i \in 1 .. N - 1 |-> at(i)] \in [1 .. N - 1 -> Nodes]
      BY <3>1
    <3> QED
      BY <3>2 DEF at
  <2> DEFINE before(i) == IF i < p THEN i ELSE i + 1
  <2>2. \A i \in 1 .. N - 1 :
           before(i) \in 1 .. N /\ before(i) # p /\ t[i] = s[before(i)]
    <3> SUFFICES ASSUME NEW i \in 1 .. N - 1
                 PROVE  before(i) \in 1 .. N /\ before(i) # p /\ t[i] = s[before(i)]
      OBVIOUS
    <3>1. t[i] = s[before(i)]
      BY <2>1
    <3>2. before(i) \in 1 .. N /\ before(i) # p
      BY <1>1
    <3> QED
      BY <3>1, <3>2
  <2> DEFINE after(i) == IF i < p THEN i ELSE i - 1
  <2>3. \A i \in 1 .. N : i # p =>
           after(i) \in 1 .. N - 1 /\ before(after(i)) = i
    BY <1>1
  <2>4. \A i, j \in 1 .. N - 1 : before(i) = before(j) => i = j
    BY <1>1
  <2>5. \A i, j \in 1 .. N : i # p /\ j # p /\ i <= j => after(i) <= after(j)
    BY <1>1
  <2>6. \A i \in 1 .. N - 1 :
           before(i + 1) = IF i + 1 = p THEN p + 1 ELSE before(i) + 1
    BY <1>1
  <2>7. before(1) = IF p = 1 THEN 2 ELSE 1
    BY <1>1
  <2>8. N > 1 => before(N - 1) = IF p = N THEN N - 1 ELSE N
    BY <1>1
  <2>9. \A i \in 1 .. N - 1 : before(i) = p - 1 <=> i = p - 1
    BY <1>1
  <2>10. \A i \in 1 .. N - 1 : before(i) = p + 1 <=> i = p
    BY <1>1
  <2>11. \A i \in 1 .. N - 1 : i # p - 1 /\ i # N - 1 =>
            before(i + 1) = before(i) + 1 /\ before(i) # N
    BY <1>1
  <2>12. \A i \in 1 .. N - 1 : i # p /\ i # 1 => before(i - 1) = before(i) - 1 /\ before(i) # 1
    BY <1>1
  <2> HIDE DEF before, after
  <2>13. \A i, j \in 1 .. N - 1 : t[i] = t[j] => i = j
    BY <1>5, <2>2, <2>4
  <2>14. \A m \in Nodes : owner'[m] = l <=> \E i \in 1 .. N - 1 : t[i] = m
    <3>1. ASSUME NEW m \in Nodes, owner'[m] = l PROVE \E i \in 1 .. N - 1 : t[i] = m
      <4>1. m # n /\ owner[m] = l
        BY <1>2, <3>1 DEF LInv, TypeOK
      <4>2. PICK i \in 1 .. N : s[i] = m
        BY <1>1, <4>1 DEF Chain
      <4>3. i # p
        BY <4>1, <4>2
      <4> QED
        BY <2>2, <2>3, <4>2, <4>3
    <3>2. ASSUME NEW i \in 1 .. N - 1 PROVE t[i] # n /\ owner[t[i]] = l
      <4>1. before(i) \in 1 .. N /\ before(i) # p /\ t[i] = s[before(i)]
        BY <2>2
      <4> QED
        BY <1>1, <1>4, <1>5, <4>1
    <3>3. \A i \in 1 .. N - 1 : owner'[t[i]] = l
      BY <1>2, <3>2 DEF LInv, TypeOK
    <3> QED
      BY <3>1, <3>3
  <2>15. head'[l] = IF N - 1 = 0 THEN Null ELSE t[1]
    <3>1. head[l] = s[1]
      BY <1>1 DEF Chain
    <3>2. CASE N = 1
      BY <1>1, <1>2, <1>6, <1>7, <3>2
    <3>3. CASE N > 1
      <4>1. t[1] = IF p = 1 THEN s[2] ELSE s[1]
        BY <1>1, <2>2, <2>7, <3>3
      <4> QED
        BY <1>1, <1>2, <1>6, <3>1, <3>3, <4>1
    <3> QED
      BY <1>1, <3>2, <3>3
  <2>16. tail'[l] = IF N - 1 = 0 THEN Null ELSE t[N - 1]
    <3>1. tail[l] = s[N]
      BY <1>1 DEF Chain
    <3>2. CASE N = 1
      BY <1>1, <1>2, <1>6, <1>7, <3>2
    <3>3. CASE N > 1
      <4>1. t[N - 1] = IF p = N THEN s[N - 1] ELSE s[N]
        BY <1>1, <2>2, <2>8, <3>3
      <4> QED
        BY <1>1, <1>2, <1>7, <3>1, <3>3, <4>1
    <3> QED
      BY <1>1, <3>2, <3>3
  <2>17. \A i \in 1 .. N - 1 : next'[t[i]] = IF i = N - 1 THEN Null ELSE t[i + 1]
    <3> SUFFICES ASSUME NEW i \in 1 .. N - 1
                 PROVE  next'[t[i]] = IF i = N - 1 THEN Null ELSE t[i + 1]
      OBVIOUS
    <3>1. t[i] # n /\ t[i] \in Nodes
      BY <1>5, <2>2
    <3>2. next[t[i]] = IF before(i) = N THEN Null ELSE s[before(i) + 1]
      BY <1>1, <2>2 DEF Chain
    <3>3. CASE i = p - 1
      <4>1. t[i] = a
        BY <1>1, <2>2, <2>9, <3>3
      <4>2. next'[t[i]] = b
        BY <1>2, <3>1, <4>1
      <4>3. CASE p = N
        BY <1>1, <3>3, <4>2, <4>3
      <4>4. CASE p < N
        <5>1. i + 1 \in 1 .. N - 1 /\ i + 1 = p /\ i # N - 1
          BY <1>1, <3>3, <4>4
        <5>2. t[i + 1] = s[p + 1]
          BY <2>2, <2>10, <5>1
        <5> QED
          BY <1>1, <4>2, <4>4, <5>1, <5>2
      <4> QED
        BY <1>1, <4>3, <4>4
    <3>4. CASE i # p - 1
      <4>1. t[i] # a
        BY <1>1, <1>5, <1>6, <2>2, <2>9, <3>4
      <4>2. next'[t[i]] = next[t[i]]
        BY <1>2, <3>1, <4>1
      <4>3. CASE i = N - 1
        <5>1. before(i) = N
          BY <1>1, <2>8, <3>4, <4>3
        <5> QED
          BY <3>2, <4>2, <4>3, <5>1
      <4>4. CASE i # N - 1
        <5>1. i + 1 \in 1 .. N - 1
          <6>1. N \in Int /\ i \in 1 .. N - 1 /\ i # N - 1
            BY <1>1, <4>4
          <6>2. \A m \in Int : \A j \in 1 .. m : j # m => j + 1 \in 1 .. m
            OBVIOUS
          <6>3. N - 1 \in Int
            BY <6>1
          <6> QED
            BY <6>1, <6>2, <6>3
        <5> QED
          BY <2>2, <2>11, <3>2, <3>4, <4>2, <4>4, <5>1
      <4> QED
        BY <4>3, <4>4
    <3> QED
      BY <3>3, <3>4
  <2>18. \A i \in 1 .. N - 1 : prev'[t[i]] = IF i = 1 THEN Null ELSE t[i - 1]
    <3> SUFFICES ASSUME NEW i \in 1 .. N - 1
                 PROVE  prev'[t[i]] = IF i = 1 THEN Null ELSE t[i - 1]
      OBVIOUS
    <3>1. t[i] # n /\ t[i] \in Nodes
      BY <1>5, <2>2
    <3>2. prev[t[i]] = IF before(i) = 1 THEN Null ELSE s[before(i) - 1]
      BY <1>1, <2>2 DEF Chain
    <3>3. CASE i = p
      <4>1. t[i] = b
        BY <1>1, <2>2, <2>10, <3>3
      <4>2. prev'[t[i]] = a
        BY <1>2, <3>1, <4>1
      <4>3. CASE p = 1
        BY <1>1, <3>3, <4>2, <4>3
      <4>4. CASE p > 1
        <5>1. i - 1 \in 1 .. N - 1 /\ i - 1 = p - 1 /\ i # 1
          BY <1>1, <3>3, <4>4
        <5>2. t[i - 1] = s[p - 1]
          BY <2>2, <2>9, <5>1
        <5> QED
          BY <1>1, <4>2, <4>4, <5>1, <5>2
      <4> QED
        BY <1>1, <4>3, <4>4
    <3>4. CASE i # p
      <4>1. t[i] # b
        BY <1>1, <1>5, <1>7, <2>2, <2>10, <3>4
      <4>2. prev'[t[i]] = prev[t[i]]
        BY <1>2, <3>1, <4>1
      <4>3. CASE i = 1
        <5>1. before(i) = 1
          BY <1>1, <2>7, <3>4, <4>3
        <5> QED
          BY <3>2, <4>2, <4>3, <5>1
      <4>4. CASE i # 1
        <5>1. i - 1 \in 1 .. N - 1
          BY <1>1, <4>4
        <5> QED
          BY <2>2, <2>12, <3>2, <3>4, <4>2, <4>4, <5>1
      <4> QED
        BY <4>3, <4>4
    <3> QED
      BY <3>3, <3>4
  <2>19. Chain(l, t)'
    BY <1>1, <2>13, <2>14, <2>15, <2>16, <2>17, <2>18 DEF Chain
  <2>20. ASSUME iterOf' = l PROVE Walk(l, t)'
    <3>1. /\ iterOf = l /\ iterNext' = iterNext /\ direction' = direction
          /\ todo' = todo \ {n} /\ current = n
      BY <2>20 DEF DelNode, NotIterated
    <3> SUFFICES ASSUME iterNext # Null PROVE Walk(l, t)'
      BY <3>1 DEF Walk
    <3>2. PICK q \in 1 .. N :
             /\ iterNext = s[q]
             /\ \A m \in todo : \E i \in 1 .. N :
                   m = s[i] /\ IF direction = "head" THEN q <= i ELSE i <= q
      BY <1>1, <3>1 DEF Walk
    <3>3. q # p
      BY <3>1, <3>2 DEF LInv, Iterating
    <3>4. after(q) \in 1 .. N - 1 /\ iterNext = t[after(q)]
      BY <2>2, <2>3, <3>2, <3>3
    <3>5. ASSUME NEW m \in todo \ {n}
          PROVE  \E i \in 1 .. N - 1 :
                    m = t[i] /\ IF direction = "head" THEN after(q) <= i ELSE i <= after(q)
      <4>1. PICK i \in 1 .. N : m = s[i] /\ IF direction = "head" THEN q <= i ELSE i <= q
        BY <3>2, <3>5
      <4>2. i # p
        BY <3>5, <4>1
      <4>3. after(i) \in 1 .. N - 1 /\ m = t[after(i)]
        BY <2>2, <2>3, <4>1, <4>2
      <4>4. IF direction = "head" THEN after(q) <= after(i) ELSE after(i) <= after(q)
        BY <2>5, <3>3, <4>1, <4>2
      <4> QED
        BY <4>3, <4>4
    <3> QED
      BY <1>1, <3>1, <3>4, <3>5, SMTT(60) DEF Walk
  <2> QED
    BY <2>1, <2>19, <2>20 DEF Without
<1> QED
  BY <1>8, <1>9

LEMMA DelKeeps ==
    ASSUME LInv, NEW l \in Names, NEW n \in Nodes, DelNode(l, n)
    PROVE  \A k \in Names : Kept(k)'
<1>1. PICK s \in [1 .. len[l] -> Nodes] : Chain(l, s) /\ (iterOf = l => Walk(l, s))
  BY DEF LInv, Kept
<1>2. PICK p \in 1 .. len[l] : s[p] = n
  BY <1>1 DEF DelNode, Chain
<1>3. PICK t \in [1 .. len[l] - 1 -> Nodes] : Chain(l, t)' /\ (iterOf' = l => Walk(l, t)')
  BY <1>1, <1>2, DelMoves
<1>4. len'[l] = len[l] - 1
  BY DEF LInv, TypeOK, DelNode
<1>5. ASSUME NEW k \in Names \ {l} PROVE Kept(k)'
  <2>1. Alone(k)
    BY <1>1, <1>2, DelMoves
  <2>2. iterOf' = iterOf /\ iterNext' = iterNext /\ direction' = direction /\ todo' \subseteq todo
    BY DEF DelNode
  <2> QED
    BY <2>1, <2>2, Untouched DEF LInv
<1>6. Kept(l)'
  BY <1>3, <1>4 DEF Kept
<1> QED
  BY <1>5, <1>6

\* A rotation: the others are left alone, and the last node comes first.
LEMMA RotateMoves ==
    ASSUME LInv, NEW l \in Names, Rotate(l),
           NEW s \in [1 .. len[l] -> Nodes], Chain(l, s)
    PROVE  /\ \A k \in Names \ {l} : Alone(k)
           /\ \E t \in [1 .. len[l] -> Nodes] :
                 Turned(t, s, len[l]) /\ Chain(l, t)'
<1> USE AdListAssumption
<1> SUFFICES ASSUME NEW N, N = len[l]
             PROVE  /\ \A k \in Names \ {l} : Alone(k)
                    /\ \E t \in [1 .. N -> Nodes] :
                          Turned(t, s, N) /\ Chain(l, t)'
  OBVIOUS
<1>1. /\ N \in Nat /\ N > 1 /\ len[l] = N /\ len' = len /\ owner' = owner /\ value' = value
      /\ s \in [1 .. N -> Nodes]
      /\ head[l] = s[1] /\ tail[l] = s[N] /\ prev[s[N]] = s[N - 1]
  <2>1. /\ N \in Nat /\ N > 1 /\ len[l] = N /\ len' = len /\ owner' = owner /\ value' = value
        /\ s \in [1 .. N -> Nodes]
    BY DEF LInv, TypeOK, Rotate
  <2>2. N \in 1 .. N /\ N # 0 /\ N # 1
    BY <2>1
  <2> QED
    BY <2>1, <2>2 DEF Chain
<1>2. /\ tail' = [tail EXCEPT ![l] = s[N - 1]]
      /\ head' = [head EXCEPT ![l] = s[N]]
      /\ next' = [next EXCEPT ![s[N - 1]] = Null, ![s[N]] = s[1]]
      /\ prev' = [prev EXCEPT ![s[1]] = s[N], ![s[N]] = Null]
  BY <1>1 DEF Rotate
<1>3. \A i \in 1 .. N : owner[s[i]] = l /\ s[i] \in Nodes
  BY <1>1 DEF Chain
<1>4. \A i, j \in 1 .. N : s[i] = s[j] => i = j
  BY <1>1 DEF Chain
<1>5. 1 \in 1 .. N /\ N \in 1 .. N /\ N - 1 \in 1 .. N
  BY <1>1
<1>6. ASSUME NEW k \in Names \ {l} PROVE Alone(k)
  <2>1. len'[k] = len[k] /\ head'[k] = head[k] /\ tail'[k] = tail[k]
    BY <1>1, <1>2 DEF LInv, TypeOK
  <2>2. \A m \in Nodes : owner[m] = k => m # s[1] /\ m # s[N] /\ m # s[N - 1]
    BY <1>3, <1>5
  <2>3. \A m \in Nodes : owner[m] = k => next'[m] = next[m] /\ prev'[m] = prev[m]
    BY <1>2, <2>2 DEF LInv, TypeOK
  <2> QED
    BY <1>1, <2>1, <2>3 DEF Alone
<1>7. \E t \in [1 .. N -> Nodes] :
         Turned(t, s, N) /\ Chain(l, t)'
  <2>1. PICK t \in [1 .. N -> Nodes] :
           \A i \in 1 .. N : t[i] = IF i = 1 THEN s[N] ELSE s[i - 1]
    <3> DEFINE at(i) == IF i = 1 THEN s[N] ELSE s[i - 1]
    <3>1. \A i \in 1 .. N : at(i) \in Nodes
      BY <1>1
    <3> HIDE DEF at
    <3>2. [i \in 1 .. N |-> at(i)] \in [1 .. N -> Nodes]
      BY <3>1
    <3> QED
      BY <3>2 DEF at
  <2> DEFINE before(i) == IF i = 1 THEN N ELSE i - 1
             after(i) == IF i = N THEN 1 ELSE i + 1
  <2>2. \A i \in 1 .. N : before(i) \in 1 .. N /\ t[i] = s[before(i)]
    <3> SUFFICES ASSUME NEW i \in 1 .. N
                 PROVE  before(i) \in 1 .. N /\ t[i] = s[before(i)]
      OBVIOUS
    <3>1. t[i] = s[before(i)]
      BY <2>1
    <3>2. before(i) \in 1 .. N
      BY <1>1
    <3> QED
      BY <3>1, <3>2
  <2>3. \A i \in 1 .. N : after(i) \in 1 .. N /\ before(after(i)) = i
    BY <1>1
  <2>4. \A i, j \in 1 .. N : before(i) = before(j) => i = j
    BY <1>1
  <2>5. \A i \in 1 .. N : (before(i) = N <=> i = 1) /\ (before(i) = N - 1 <=> i = N)
    BY <1>1
  <2>6. \A i \in 1 .. N : i # N /\ i # 1 => before(i + 1) = before(i) + 1 /\ i + 1 \in 1 .. N
    BY <1>1
  <2>7. \A i \in 1 .. N : i # 1 /\ i # 2 => /\ before(i - 1) = before(i) - 1
                                          /\ i - 1 \in 1 .. N /\ before(i) # 1
    BY <1>1
  <2>8. /\ before(1) = N /\ before(2) = 1 /\ before(N) = N - 1
        /\ 2 \in 1 .. N /\ 1 + 1 = 2 /\ 2 - 1 = 1
    BY <1>1
  <2>9. \A i \in 1 .. N : before(i) = 1 <=> i = 2
    BY <1>1
  <2> HIDE DEF before, after
  <2>10. \A i, j \in 1 .. N : t[i] = t[j] => i = j
    BY <1>4, <2>2, <2>4
  <2>11. \A m \in Nodes : owner'[m] = l <=> \E i \in 1 .. N : t[i] = m
    <3>1. \A m \in Nodes : owner[m] = l => \E i \in 1 .. N : s[i] = m
      BY <1>1 DEF Chain
    <3>2. \A i \in 1 .. N : s[i] = t[after(i)] /\ after(i) \in 1 .. N
      BY <2>2, <2>3
    <3>3. \A i \in 1 .. N : owner[t[i]] = l
      BY <1>3, <2>2
    <3>4. owner' = owner
      BY <1>1
    <3>5. ASSUME NEW m \in Nodes, owner[m] = l PROVE \E i \in 1 .. N : t[i] = m
      <4>1. PICK i \in 1 .. N : s[i] = m
        BY <3>1, <3>5
      <4> QED
        BY <3>2, <4>1
    <3> QED
      BY <3>3, <3>4, <3>5
  <2>12. head'[l] = t[1] /\ tail'[l] = t[N]
    BY <1>2, <1>5, <2>2, <2>8 DEF LInv, TypeOK
  <2>13. \A i \in 1 .. N : next'[t[i]] = IF i = N THEN Null ELSE t[i + 1]
    <3> SUFFICES ASSUME NEW i \in 1 .. N
                 PROVE  next'[t[i]] = IF i = N THEN Null ELSE t[i + 1]
      OBVIOUS
    <3>1. \A m \in Nodes : next'[m] = IF m = s[N] THEN s[1] ELSE
                                      IF m = s[N - 1] THEN Null ELSE next[m]
      BY <1>2, <1>3, <1>5 DEF LInv, TypeOK
    <3>2. CASE i = 1
      BY <1>1, <1>3, <1>5, <2>2, <2>8, <3>1, <3>2
    <3>3. CASE i = N /\ i # 1
      BY <1>3, <1>4, <1>5, <2>2, <2>5, <3>1, <3>3
    <3>4. CASE i # N /\ i # 1
      <4>1. t[i] # s[N] /\ t[i] # s[N - 1] /\ t[i] \in Nodes
        BY <1>3, <1>4, <1>5, <2>2, <2>5, <3>4
      <4>2. next[s[before(i)]] = s[before(i) + 1]
        BY <1>1, <2>2, <2>5, <3>4 DEF Chain
      <4> QED
        BY <2>2, <2>6, <3>1, <3>4, <4>1, <4>2
    <3> QED
      BY <3>2, <3>3, <3>4
  <2>14. \A i \in 1 .. N : prev'[t[i]] = IF i = 1 THEN Null ELSE t[i - 1]
    <3> SUFFICES ASSUME NEW i \in 1 .. N
                 PROVE  prev'[t[i]] = IF i = 1 THEN Null ELSE t[i - 1]
      OBVIOUS
    <3>1. \A m \in Nodes : prev'[m] = IF m = s[N] THEN Null ELSE
                                      IF m = s[1] THEN s[N] ELSE prev[m]
      BY <1>2, <1>3, <1>5 DEF LInv, TypeOK
    <3>2. CASE i = 1
      BY <1>3, <1>5, <2>2, <2>8, <3>1, <3>2
    <3>3. CASE i = 2
      <4>1. s[1] # s[N]
        BY <1>1, <1>4, <1>5
      <4> QED
        BY <1>3, <1>5, <2>2, <2>8, <3>1, <3>3, <4>1
    <3>4. CASE i # 1 /\ i # 2
      <4>1. t[i] # s[N] /\ t[i] # s[1] /\ t[i] \in Nodes
        <5>1. before(i) \in 1 .. N /\ before(i) # N /\ before(i) # 1 /\ t[i] = s[before(i)]
          BY <2>2, <2>5, <2>9, <3>4
        <5> QED
          BY <1>3, <1>4, <1>5, <5>1
      <4>2. prev[s[before(i)]] = s[before(i) - 1]
        BY <1>1, <2>2, <2>7, <3>4 DEF Chain
      <4> QED
        BY <2>2, <2>7, <3>1, <3>4, <4>1, <4>2
    <3> QED
      BY <3>2, <3>3, <3>4
  <2>15. Chain(l, t)'
    BY <1>1, <2>10, <2>11, <2>12, <2>13, <2>14 DEF Chain
  <2> QED
    BY <2>1, <2>15 DEF Turned
<1> QED
  BY <1>6, <1>7

LEMMA RotateKeeps ==
    ASSUME LInv, NEW l \in Names, Rotate(l)
    PROVE  \A k \in Names : Kept(k)'
<1>1. PICK s \in [1 .. len[l] -> Nodes] : Chain(l, s)
  BY DEF LInv, Kept
<1>2. PICK t \in [1 .. len[l] -> Nodes] : Chain(l, t)'
  BY <1>1, RotateMoves
<1>3. len' = len /\ iterOf # l /\ UNCHANGED iterVars
  BY DEF Rotate, NotIterated
<1>4. ASSUME NEW k \in Names \ {l} PROVE Kept(k)'
  <2>1. Alone(k)
    BY <1>1, RotateMoves
  <2> QED
    BY <1>3, <2>1, Untouched DEF LInv, iterVars
<1>5. Kept(l)'
  BY <1>2, <1>3 DEF Kept, iterVars
<1> QED
  BY <1>4, <1>5

\* A list that is released: the others are left alone, and it is empty.
LEMMA FreedMoves ==
    ASSUME LInv, NEW l \in Names, Freed(l)
    PROVE  /\ \A k \in Names \ {l} : Alone(k)
           /\ len'[l] = 0 /\ \E t \in [1 .. 0 -> Nodes] : Chain(l, t)'
<1> USE AdListAssumption
<1>1. ASSUME NEW k \in Names \ {l} PROVE Alone(k)
  <2>1. len'[k] = len[k] /\ head'[k] = head[k] /\ tail'[k] = tail[k]
    BY DEF LInv, TypeOK, Freed
  <2>2. \A m \in Nodes : owner'[m] = k <=> owner[m] = k
    BY DEF Freed
  <2>3. \A m \in Nodes : owner[m] = k =>
           next'[m] = next[m] /\ prev'[m] = prev[m] /\ value'[m] = value[m]
    BY DEF Freed
  <2> QED
    BY <2>1, <2>2, <2>3 DEF Alone
<1>2. PICK t : t \in [1 .. 0 -> Nodes]
  <2>1. [i \in 1 .. 0 |-> i] \in [1 .. 0 -> Nodes]
    OBVIOUS
  <2> QED
    BY <2>1
<1>3. len'[l] = 0 /\ head'[l] = Null /\ tail'[l] = Null
  BY DEF LInv, TypeOK, Freed
<1>4. \A m \in Nodes : owner'[m] # l
  BY DEF Freed
<1>5. Chain(l, t)'
  BY <1>3, <1>4 DEF Chain
<1> QED
  BY <1>1, <1>2, <1>3, <1>5

LEMMA FreedKeeps ==
    ASSUME LInv, NEW l \in Names, Freed(l), iterOf # l, UNCHANGED iterVars
    PROVE  \A k \in Names : Kept(k)'
<1>1. ASSUME NEW k \in Names \ {l} PROVE Kept(k)'
  <2>1. Alone(k)
    BY FreedMoves
  <2> QED
    BY <2>1, Untouched DEF LInv, iterVars
<1>2. Kept(l)'
  BY FreedMoves DEF Kept, iterVars
<1> QED
  BY <1>1, <1>2

-----------------------------------------------------------------------------
(* Types.                                                                  *)

LinksTyped ==
    /\ head \in [Names -> OrNull(Nodes)]
    /\ tail \in [Names -> OrNull(Nodes)]
    /\ len \in [Names -> Nat]
    /\ next \in [Nodes -> OrNull(Nodes)]
    /\ prev \in [Nodes -> OrNull(Nodes)]
    /\ value \in [Nodes -> OrNull(Objects)]
    /\ owner \in [Nodes -> OrNull(Names)]

LEMMA BetweenTyped ==
    ASSUME LinksTyped, NEW l \in Names, NEW n \in Nodes, NEW v \in Objects,
           NEW a \in OrNull(Nodes), NEW b \in OrNull(Nodes), Between(l, a, n, b, v)
    PROVE  LinksTyped'
BY DEF LinksTyped, Between, OrNull

LEMMA FreedTyped ==
    ASSUME LinksTyped, NEW l \in Names, Freed(l)
    PROVE  LinksTyped'
BY DEF LinksTyped, Freed, OrNull

LEMMA DelTyped ==
    ASSUME LInv, NEW l \in Names, NEW n \in Nodes, DelNode(l, n)
    PROVE  LinksTyped'
<1>1. len[l] \in Nat \ {0}
  BY DEF LInv, TypeOK, Kept, Chain, DelNode
<1>2. LinksTyped
  BY DEF LInv, TypeOK, LinksTyped
<1>3. len' \in [Names -> Nat]
  BY <1>1, <1>2 DEF LinksTyped, DelNode
<1> QED
  BY <1>2, <1>3 DEF LinksTyped, DelNode, OrNull

LEMMA RotateTyped ==
    ASSUME LInv, NEW l \in Names, Rotate(l)
    PROVE  LinksTyped'
<1>1. PICK s \in [1 .. len[l] -> Nodes] : Chain(l, s)
  BY DEF LInv, Kept
<1>2. LinksTyped /\ len[l] \in Nat /\ len[l] > 1
  BY DEF LInv, TypeOK, LinksTyped, Rotate
<1>3. head[l] \in Nodes /\ tail[l] \in Nodes
  BY <1>1, <1>2 DEF Chain
<1> QED
  BY <1>2, <1>3 DEF LinksTyped, Rotate, OrNull

LEMMA TypeStep == ASSUME LInv, [Next]_vars PROVE TypeOK'
<1> USE AdListAssumption
<1>0. TypeOK /\ LinksTyped
  BY DEF LInv, TypeOK, LinksTyped
<1>1. ASSUME NEW l \in Names, Create(l) PROVE TypeOK'
  BY <1>0, <1>1 DEF Create, TypeOK, OrNull, links, iterVars, dupVars
<1>2. ASSUME NEW l \in Names, Release(l) PROVE TypeOK'
  <2>1. LinksTyped'
    BY <1>0, <1>2, FreedTyped DEF Release
  <2>2. /\ live' = live \ {l} /\ objs' \subseteq Objects /\ iterOf # l /\ copy = Null
        /\ UNCHANGED <<iterVars, dupVars>>
    BY <1>0, <1>2 DEF Release, Call, NotIterated, TypeOK
  <2>3. orig' \in OrNull(live')
    BY <2>2 DEF LInv, Copying, OrNull, dupVars
  <2> QED
    BY <1>0, <2>1, <2>2, <2>3 DEF TypeOK, LinksTyped, OrNull, iterVars, dupVars
<1>3. ASSUME NEW l \in Names, Rotate(l) PROVE TypeOK'
  <2>1. LinksTyped'
    BY <1>3, RotateTyped
  <2> QED
    BY <1>0, <1>3, <2>1 DEF Rotate, TypeOK, LinksTyped, iterVars, dupVars
<1>4. ASSUME NEW l \in Names, NEW n \in Nodes, NEW v \in Objects,
             NEW a \in OrNull(Nodes), NEW b \in OrNull(Nodes),
             Between(l, a, n, b, v), objs' \subseteq Objects,
             UNCHANGED <<live, iterVars, orig, copy>>, dupNext' \in OrNull(Nodes)
      PROVE  TypeOK'
  <2>1. LinksTyped'
    BY <1>0, <1>4, BetweenTyped
  <2> QED
    BY <1>0, <1>4, <2>1 DEF TypeOK, LinksTyped, iterVars
<1>5. ASSUME NEW l \in Names, NEW n \in Nodes, NEW v \in Objects, AddNodeHead(l, n, v)
      PROVE  TypeOK'
  <2>1. Null \in OrNull(Nodes) /\ head[l] \in OrNull(Nodes)
    BY <1>0 DEF TypeOK, OrNull
  <2>2. objs' \subseteq Objects /\ dupNext' \in OrNull(Nodes)
    BY <1>0, <1>5 DEF AddNodeHead, NewValue, TypeOK, dupVars
  <2> QED
    BY <1>4, <1>5, <2>1, <2>2 DEF AddNodeHead, dupVars
<1>6. ASSUME NEW l \in Names, NEW n \in Nodes, NEW v \in Objects, AddNodeTail(l, n, v)
      PROVE  TypeOK'
  <2>1. Null \in OrNull(Nodes) /\ tail[l] \in OrNull(Nodes)
    BY <1>0 DEF TypeOK, OrNull
  <2>2. objs' \subseteq Objects /\ dupNext' \in OrNull(Nodes)
    BY <1>0, <1>6 DEF AddNodeTail, NewValue, TypeOK, dupVars
  <2> QED
    BY <1>4, <1>6, <2>1, <2>2 DEF AddNodeTail, dupVars
<1>7. ASSUME NEW l \in Names, NEW n \in Nodes, NEW v \in Objects,
             NEW old \in Nodes, NEW after \in BOOLEAN, InsertNode(l, old, n, v, after)
      PROVE  TypeOK'
  <2>1. /\ old \in OrNull(Nodes) /\ next[old] \in OrNull(Nodes)
        /\ prev[old] \in OrNull(Nodes)
    BY <1>0 DEF TypeOK, OrNull
  <2>2. objs' \subseteq Objects /\ dupNext' \in OrNull(Nodes)
    BY <1>0, <1>7 DEF InsertNode, NewValue, TypeOK, dupVars
  <2> QED
    BY <1>4, <1>7, <2>1, <2>2 DEF InsertNode, dupVars
<1>8. ASSUME NEW l \in Names, NEW n \in Nodes, DelNode(l, n) PROVE TypeOK'
  <2>1. LinksTyped'
    BY <1>8, DelTyped
  <2> QED
    BY <1>0, <1>8, <2>1 DEF DelNode, TypeOK, LinksTyped, OrNull, dupVars
<1>9. ASSUME NEW l \in Names, NEW d \in Ends, GetIterator(l, d) PROVE TypeOK'
  BY <1>0, <1>9 DEF GetIterator, Call, In, TypeOK, OrNull, links, dupVars
<1>10. CASE ListNext
  <2>1. iterOf # Null /\ Following(iterNext) \in OrNull(Nodes)
    BY <1>0, <1>10 DEF ListNext, Following, TypeOK, OrNull
  <2> QED
    BY <1>0, <1>10, <2>1 DEF ListNext, TypeOK, OrNull, links, dupVars
<1>11. CASE ReleaseIterator
  BY <1>0, <1>11 DEF ReleaseIterator, TypeOK, OrNull, Ends, links, dupVars
<1>12. ASSUME NEW l \in Names, NEW c \in Names, DupStart(l, c) PROVE TypeOK'
  BY <1>0, <1>12 DEF DupStart, Call, TypeOK, OrNull, links, iterVars
<1>13. ASSUME NEW n \in Nodes, DupNode(n) PROVE TypeOK'
  <2>1. PICK v \in Objects :
           /\ Between(copy, tail[copy], n, Null, v)
           /\ objs' \subseteq Objects
    BY <1>0, <1>13 DEF DupNode, NewValue, TypeOK
  <2>2. copy \in Names
    BY <1>0, <1>13 DEF DupNode, TypeOK, OrNull
  <2>3. tail[copy] \in OrNull(Nodes) /\ Null \in OrNull(Nodes)
    BY <1>0, <2>2 DEF TypeOK, OrNull
  <2>4. dupNext' \in OrNull(Nodes) /\ UNCHANGED <<live, iterVars, orig, copy>>
    BY <1>0, <1>13 DEF DupNode, TypeOK, OrNull
  <2> QED
    BY <1>4, <2>1, <2>2, <2>3, <2>4
<1>14. CASE DupFails
  <2>1. copy \in Names
    BY <1>0, <1>14 DEF DupFails, TypeOK, OrNull
  <2>2. LinksTyped'
    BY <1>0, <1>14, <2>1, FreedTyped DEF DupFails
  <2>3. objs' \subseteq Objects
    BY <1>0, <1>14 DEF DupFails, TypeOK
  <2> QED
    BY <1>0, <1>14, <2>2, <2>3 DEF DupFails, TypeOK, LinksTyped, OrNull, iterVars
<1>15. CASE DupEnds
  BY <1>0, <1>15 DEF DupEnds, TypeOK, OrNull, links, iterVars
<1>16. CASE UNCHANGED vars
  BY <1>0, <1>16 DEF vars, links, iterVars, dupVars, TypeOK
<1> QED
  BY <1>1, <1>2, <1>3, <1>5, <1>6, <1>7, <1>8, <1>9, <1>10, <1>11, <1>12, <1>13, <1>14,
     <1>15, <1>16 DEF Next

-----------------------------------------------------------------------------
(* Iterators.                                                              *)

LEMMA GetIteratorKeeps ==
    ASSUME LInv, NEW l \in Names, NEW d \in Ends, GetIterator(l, d)
    PROVE  Iterating' /\ \A k \in Names : Kept(k)'
<1> USE AdListAssumption
<1>1. /\ iterOf' = l /\ direction' = d /\ todo' = In(l) /\ current' = Null
      /\ iterNext' = IF d = "head" THEN head[l] ELSE tail[l]
      /\ UNCHANGED links
  BY DEF GetIterator
<1>2. ASSUME NEW k \in Names \ {l} PROVE Kept(k)'
  BY <1>1, <1>2, AloneSame, Untouched DEF LInv
<1>3. PICK s \in [1 .. len[l] -> Nodes] : Chain(l, s)
  BY DEF LInv, Kept
<1>4. len[l] \in Nat /\ In(l) = {s[i] : i \in 1 .. len[l]}
  <2>1. \A n \in Nodes : owner[n] = l <=> \E i \in 1 .. len[l] : s[i] = n
    BY <1>3 DEF Chain
  <2> QED
    BY <1>3, <2>1 DEF In, LInv, TypeOK
<1>5. CASE len[l] = 0
  <2>1. iterNext' = Null /\ todo' = {}
    BY <1>1, <1>3, <1>4, <1>5 DEF Chain
  <2>2. Chain(l, s)'
    BY <1>1, <1>3 DEF Chain, links
  <2>3. Kept(l)'
    BY <1>1, <1>3, <2>1, <2>2 DEF Kept, Walk, links
  <2> QED
    BY <1>1, <1>2, <2>1, <2>3 DEF Iterating
<1>6. CASE len[l] # 0
  <2>1. 1 \in 1 .. len[l] /\ len[l] \in 1 .. len[l]
    BY <1>4, <1>6
  <2>2. PICK q \in 1 .. len[l] :
           /\ iterNext' = s[q] /\ iterNext' # Null
           /\ \A i \in 1 .. len[l] : IF d = "head" THEN q <= i ELSE i <= q
    <3>1. head[l] = s[1] /\ tail[l] = s[len[l]] /\ s[1] # Null /\ s[len[l]] # Null
      BY <1>3, <1>6, <2>1 DEF Chain
    <3>2. CASE d = "head"
      BY <1>1, <1>4, <2>1, <3>1, <3>2
    <3>3. CASE d # "head"
      BY <1>1, <1>4, <2>1, <3>1, <3>3
    <3> QED
      BY <3>2, <3>3
  <2>3. Chain(l, s)' /\ len' = len
    BY <1>1, <1>3 DEF Chain, links
  <2>4. Walk(l, s)'
    BY <1>1, <1>4, <2>2, <2>3 DEF Walk
  <2> QED
    BY <1>1, <1>2, <1>3, <2>2, <2>3, <2>4 DEF Iterating, Kept
<1> QED
  BY <1>5, <1>6

LEMMA ListNextKeeps ==
    ASSUME LInv, ListNext
    PROVE  Iterating' /\ \A k \in Names : Kept(k)'
<1> USE AdListAssumption
<1> SUFFICES ASSUME NEW l \in Names, l = iterOf
             PROVE  Iterating' /\ \A k \in Names : Kept(k)'
  BY DEF LInv, TypeOK, ListNext, OrNull
<1>1. len[l] \in Nat
  BY DEF LInv, TypeOK
<1>2. /\ iterOf' = iterOf /\ direction' = direction /\ current' = iterNext
      /\ todo' = todo \ {iterNext} /\ iterNext' = Following(iterNext)
      /\ iterNext # Null /\ UNCHANGED links
  BY DEF ListNext
<1>3. ASSUME NEW k \in Names \ {l} PROVE Kept(k)'
  BY <1>2, <1>3, AloneSame, Untouched DEF LInv
<1>4. PICK s \in [1 .. len[l] -> Nodes] : Chain(l, s) /\ Walk(l, s)
  BY <1>1 DEF LInv, Kept
<1>5. PICK q \in 1 .. len[l] :
         /\ iterNext = s[q]
         /\ \A m \in todo : \E i \in 1 .. len[l] :
               m = s[i] /\ IF direction = "head" THEN q <= i ELSE i <= q
  BY <1>2, <1>4 DEF Walk
<1> DEFINE last == IF direction = "head" THEN len[l] ELSE 1
           r    == IF direction = "head" THEN q + 1 ELSE q - 1
<1>6. iterNext' = IF q = last THEN Null ELSE s[r]
  BY <1>2, <1>4, <1>5 DEF Following, Chain
<1>7. q # last => r \in 1 .. len[l] /\ r # q
  BY <1>1
<1>8. \A i \in 1 .. len[l] :
         i # q /\ (IF direction = "head" THEN q <= i ELSE i <= q)
           => q # last /\ IF direction = "head" THEN r <= i ELSE i <= r
  BY <1>1
<1> HIDE DEF last, r
<1>9. \A m \in todo \ {iterNext} : \E i \in 1 .. len[l] :
         m = s[i] /\ q # last /\ IF direction = "head" THEN r <= i ELSE i <= r
  BY <1>5, <1>8
<1>10. Iterating'
  <2>1. q # last => s[r] # s[q] /\ s[r] # Null
    BY <1>4, <1>7 DEF Chain
  <2> QED
    BY <1>2, <1>5, <1>6, <1>9, <2>1 DEF Iterating
<1>11. Chain(l, s)'
  BY <1>2, <1>4 DEF Chain, links
<1>12. Walk(l, s)'
  BY <1>2, <1>6, <1>7, <1>9 DEF Walk, links
<1>13. Kept(l)'
  BY <1>2, <1>4, <1>11, <1>12 DEF Kept, links
<1> QED
  BY <1>3, <1>10, <1>13

-----------------------------------------------------------------------------
(* The invariant.                                                          *)

LEMMA InvInit == Init => LInv
<1> SUFFICES ASSUME Init PROVE LInv
  OBVIOUS
<1> USE AdListAssumption
<1>1. TypeOK /\ Copying /\ Iterating
  BY DEF Init, TypeOK, OrNull, Ends, Copying, Iterating
<1>2. ASSUME NEW l \in Names PROVE Kept(l)
  <2>1. PICK s : s \in [1 .. 0 -> Nodes]
    <3>1. [i \in 1 .. 0 |-> i] \in [1 .. 0 -> Nodes]
      OBVIOUS
    <3> QED
      BY <3>1
  <2>2. len[l] = 0 /\ head[l] = Null /\ tail[l] = Null /\ iterOf = Null
    BY DEF Init
  <2>3. \A m \in Nodes : owner[m] # l
    BY DEF Init
  <2>4. Chain(l, s)
    BY <2>2, <2>3 DEF Chain
  <2> QED
    BY <2>1, <2>2, <2>4 DEF Kept
<1> QED
  BY <1>1, <1>2 DEF LInv

\* A step that leaves links and iterator alone.
LEMMA OtherKeeps ==
    ASSUME LInv, UNCHANGED <<links, iterVars>>
    PROVE  Iterating' /\ \A k \in Names : Kept(k)'
<1>1. Iterating'
  BY DEF LInv, Iterating, iterVars
<1>2. ASSUME NEW k \in Names PROVE Kept(k)'
  BY <1>2, AloneSame, Untouched DEF LInv, iterVars
<1> QED
  BY <1>1, <1>2

\* Adding at either end, or beside a node, is adding at a place of the sequence.
LEMMA HeadEnters ==
    ASSUME LInv, NEW l \in Names, NEW n \in Nodes, NEW v, Between(l, Null, n, head[l], v)
    PROVE  Enters(l, n, v)
<1>1. PICK s \in [1 .. len[l] -> Nodes] : Chain(l, s) /\ (iterOf = l => Walk(l, s))
  BY DEF LInv, Kept
<1>2. 0 \in 0 .. len[l] /\ len[l] \in Nat
  BY DEF LInv, TypeOK
<1>3. head[l] = IF 0 = len[l] THEN Null ELSE s[0 + 1]
  BY <1>1, <1>2 DEF Chain
<1>4. PICK p \in 0 .. len[l] : p = 0
  BY <1>2
<1>5. Between(l, IF p = 0 THEN Null ELSE s[p], n,
                 IF p = len[l] THEN Null ELSE s[p + 1], v)
  BY <1>3, <1>4
<1> QED
  BY <1>1, <1>5 DEF Enters

LEMMA TailPlace ==
    ASSUME LInv, NEW l \in Names, NEW n \in Nodes, NEW v, Between(l, tail[l], n, Null, v),
           NEW s \in [1 .. len[l] -> Nodes], Chain(l, s)
    PROVE  /\ len[l] \in 0 .. len[l]
           /\ Between(l, IF len[l] = 0 THEN Null ELSE s[len[l]], n,
                         IF len[l] = len[l] THEN Null ELSE s[len[l] + 1], v)
<1>1. len[l] \in 0 .. len[l]
  BY DEF LInv, TypeOK
<1>2. tail[l] = IF len[l] = 0 THEN Null ELSE s[len[l]]
  BY DEF Chain
<1> QED
  BY <1>1, <1>2

LEMMA TailEnters ==
    ASSUME LInv, NEW l \in Names, NEW n \in Nodes, NEW v, Between(l, tail[l], n, Null, v)
    PROVE  Enters(l, n, v)
<1>1. PICK s \in [1 .. len[l] -> Nodes] : Chain(l, s) /\ (iterOf = l => Walk(l, s))
  BY DEF LInv, Kept
<1>2. /\ len[l] \in 0 .. len[l]
      /\ Between(l, IF len[l] = 0 THEN Null ELSE s[len[l]], n,
                    IF len[l] = len[l] THEN Null ELSE s[len[l] + 1], v)
  BY <1>1, TailPlace
<1> QED
  BY <1>1, <1>2 DEF Enters

LEMMA InsertEnters ==
    ASSUME LInv, NEW l \in Names, NEW n \in Nodes, NEW v \in Objects,
           NEW old \in Nodes, NEW after \in BOOLEAN, InsertNode(l, old, n, v, after)
    PROVE  Enters(l, n, v)
<1>1. PICK s \in [1 .. len[l] -> Nodes] : Chain(l, s) /\ (iterOf = l => Walk(l, s))
  BY DEF LInv, Kept
<1>2. len[l] \in Nat
  BY DEF LInv, TypeOK
<1>3. PICK i \in 1 .. len[l] : s[i] = old
  BY <1>1 DEF InsertNode, Chain
<1>4. /\ next[old] = IF i = len[l] THEN Null ELSE s[i + 1]
      /\ prev[old] = IF i = 1 THEN Null ELSE s[i - 1]
  BY <1>1, <1>3 DEF Chain
<1>5. CASE after
  <2>1. PICK p \in 0 .. len[l] : p = i
    BY <1>2, <1>3
  <2>2. Between(l, IF p = 0 THEN Null ELSE s[p], n,
                   IF p = len[l] THEN Null ELSE s[p + 1], v)
    BY <1>2, <1>3, <1>4, <1>5, <2>1 DEF InsertNode
  <2> QED
    BY <1>1, <2>2 DEF Enters
<1>6. CASE ~after
  <2>1. PICK p \in 0 .. len[l] : p = i - 1
    BY <1>2, <1>3
  <2>2. Between(l, prev[old], n, old, v)
    BY <1>6 DEF InsertNode
  <2>3. /\ prev[old] = IF p = 0 THEN Null ELSE s[p]
        /\ old = IF p = len[l] THEN Null ELSE s[p + 1]
    BY <1>2, <1>3, <1>4, <2>1
  <2>4. Between(l, IF p = 0 THEN Null ELSE s[p], n,
                   IF p = len[l] THEN Null ELSE s[p + 1], v)
    BY <2>2, <2>3
  <2> QED
    BY <1>1, <2>4 DEF Enters
<1> QED
  BY <1>5, <1>6

LEMMA InvStep == LInv /\ [Next]_vars => LInv'
<1> SUFFICES ASSUME LInv, [Next]_vars PROVE LInv'
  OBVIOUS
<1> USE AdListAssumption
<1> DEFINE Goal == Copying' /\ Iterating' /\ \A k \in Names : Kept(k)'
<1>0. TypeOK /\ Copying /\ Iterating /\ TypeOK'
  BY TypeStep DEF LInv
<1>1. ASSUME NEW l \in Names, Create(l) PROVE Goal
  BY <1>0, <1>1, OtherKeeps DEF Create, Copying, dupVars
<1>2. ASSUME NEW l \in Names, Release(l) PROVE Goal
  BY <1>0, <1>2, FreedKeeps DEF Release, NotIterated, Iterating, Copying, iterVars, dupVars
<1>3. ASSUME NEW l \in Names, Rotate(l) PROVE Goal
  BY <1>0, <1>3, RotateKeeps DEF Rotate, Iterating, Copying, iterVars, dupVars
<1>4. ASSUME NEW l \in Names, NEW n \in Nodes, NEW v \in Objects, AddNodeHead(l, n, v)
      PROVE  Goal
  BY <1>0, <1>4, HeadEnters, EntersKeeps
     DEF AddNodeHead, Iterating, Copying, iterVars, dupVars
<1>5. ASSUME NEW l \in Names, NEW n \in Nodes, NEW v \in Objects, AddNodeTail(l, n, v)
      PROVE  Goal
  BY <1>0, <1>5, TailEnters, EntersKeeps
     DEF AddNodeTail, Iterating, Copying, iterVars, dupVars
<1>6. ASSUME NEW l \in Names, NEW n \in Nodes, NEW v \in Objects,
             NEW old \in Nodes, NEW after \in BOOLEAN, InsertNode(l, old, n, v, after)
      PROVE  Goal
  BY <1>0, <1>6, InsertEnters, EntersKeeps
     DEF InsertNode, Iterating, Copying, iterVars, dupVars
<1>7. ASSUME NEW l \in Names, NEW n \in Nodes, DelNode(l, n) PROVE Goal
  <2>1. \A k \in Names : Kept(k)'
    BY <1>7, DelKeeps
  <2>2. iterNext' # Null => iterNext' # current'
    BY <1>0, <1>7 DEF DelNode, Iterating
  <2>3. iterNext' = Null => todo' = {}
    BY <1>0, <1>7 DEF DelNode, Iterating
  <2>4. Copying'
    BY <1>0, <1>7 DEF DelNode, Copying, dupVars
  <2> QED
    BY <2>1, <2>2, <2>3, <2>4 DEF Iterating
<1>8. ASSUME NEW l \in Names, NEW d \in Ends, GetIterator(l, d) PROVE Goal
  <2>1. Copying'
    BY <1>0, <1>8 DEF GetIterator, Copying, dupVars
  <2> QED
    BY <1>8, <2>1, GetIteratorKeeps
<1>9. ASSUME ListNext PROVE Goal
  <2>1. Copying'
    BY <1>0, <1>9 DEF ListNext, Copying, dupVars
  <2> QED
    BY <1>9, <2>1, ListNextKeeps
<1>10. ASSUME ReleaseIterator PROVE Goal
  <2>1. /\ iterOf' = Null /\ iterNext' = Null /\ current' = Null /\ todo' = {}
        /\ UNCHANGED <<links, dupVars>>
    BY <1>10 DEF ReleaseIterator
  <2>2. ASSUME NEW k \in Names PROVE Kept(k)'
    BY <2>1, <2>2, AloneSame, Untouched DEF LInv
  <2> QED
    BY <1>0, <2>1, <2>2 DEF Iterating, Copying, dupVars
<1>11. ASSUME NEW l \in Names, NEW c \in Names, DupStart(l, c) PROVE Goal
  <2>1. Copying'
    BY <1>11 DEF DupStart, Copying
  <2> QED
    BY <1>11, <2>1, OtherKeeps DEF DupStart
<1>12. ASSUME NEW n \in Nodes, DupNode(n) PROVE Goal
  <2>1. PICK l \in Names, v \in Objects : Between(l, tail[l], n, Null, v)
    BY <1>0, <1>12 DEF DupNode, TypeOK, OrNull
  <2> QED
    BY <1>0, <1>12, <2>1, TailEnters, EntersKeeps DEF DupNode, Iterating, Copying, iterVars
<1>13. ASSUME DupFails PROVE Goal
  <2>1. PICK l \in Names : l = copy
    BY <1>0, <1>13 DEF DupFails, TypeOK, OrNull
  <2>2. iterOf # l
    BY <1>0, <2>1 DEF TypeOK, OrNull
  <2>3. \A k \in Names : Kept(k)'
    BY <1>13, <2>1, <2>2, FreedKeeps DEF DupFails
  <2> QED
    BY <1>0, <1>13, <2>3 DEF DupFails, Iterating, Copying, iterVars
<1>14. ASSUME DupEnds PROVE Goal
  <2>1. Copying'
    BY <1>14 DEF DupEnds, Copying
  <2> QED
    BY <1>14, <2>1, OtherKeeps DEF DupEnds
<1>15. ASSUME UNCHANGED vars PROVE Goal
  <2>1. Copying'
    BY <1>0, <1>15 DEF Copying, vars, dupVars
  <2> QED
    BY <1>15, <2>1, OtherKeeps DEF vars
<1> HIDE DEF Goal
<1>16. Goal
  BY <1>1, <1>2, <1>3, <1>4, <1>5, <1>6, <1>7, <1>8, <1>9, <1>10, <1>11, <1>12, <1>13,
     <1>14, <1>15 DEF Next
<1> QED
  BY <1>0, <1>16 DEF Goal, LInv

LEMMA Invariance == Spec => []LInv
BY InvInit, InvStep, PTL DEF Spec

\* The lists, nodes and iterators keep their types.
THEOREM TypeCorrect == Spec => []TypeOK
<1>1. LInv => TypeOK
  BY DEF LInv
<1> QED
  BY Invariance, <1>1, PTL

\* After any sequence of calls the pointers of each list run through all of
\* its nodes, once, in the same order both ways, and len is their number.
THEOREM LinksStayWell == Spec => []WellLinked
<1>1. LInv => WellLinked
  BY DEF LInv, Kept, WellLinked
<1> QED
  BY Invariance, <1>1, PTL

\* While the list changes at both ends, around the iterator and by the deletion
\* of the node returned last, the iterator stays in the list and returns every
\* node that was there from its start and is not deleted (adlist.c:211-212).
THEOREM IteratorsMissNothing == Spec => []IterComplete
<1>1. LInv => IterComplete
  <2> SUFFICES ASSUME LInv PROVE IterComplete
    OBVIOUS
  <2>1. ASSUME iterNext # Null PROVE owner[iterNext] = iterOf
    <3>1. PICK l \in Names : l = iterOf
      BY <2>1 DEF LInv, TypeOK, OrNull
    <3>2. PICK s \in [1 .. len[l] -> Nodes] : Chain(l, s) /\ Walk(l, s)
      BY <3>1 DEF LInv, Kept
    <3> QED
      BY <2>1, <3>1, <3>2 DEF Walk, Chain
  <2> QED
    BY <2>1 DEF LInv, Iterating, IterComplete, IterLive
<1> QED
  BY Invariance, <1>1, PTL

-----------------------------------------------------------------------------
(* Values.                                                                 *)

\* A new value in a node that was free.
LEMMA NewHeld ==
    ASSUME TypeOK, ValuesHeld, NEW l \in Names, NEW n \in Nodes, NEW v \in Objects,
           NEW a, NEW b, Between(l, a, n, b, v), NewValue(v)
    PROVE  ValuesHeld'
<1>1. /\ \A m \in Nodes \ {n} : owner'[m] = owner[m] /\ value'[m] = value[m]
      /\ value'[n] = v /\ owner[n] = Null
  BY DEF TypeOK, Between
<1>2. objs' = objs \cup {v} /\ v \notin objs
  BY DEF NewValue
<1> QED
  BY <1>1, <1>2 DEF ValuesHeld

\* With a dup method no value is freed while a node holds it, and none is in
\* two nodes: neither deleting, releasing nor a listDup that fails half way
\* frees a value that is still held, or twice.
THEOREM ValuesStayHeld == ASSUME HasDup PROVE Spec => []ValuesHeld
<1> USE AdListAssumption
<1>1. Init => ValuesHeld
  BY DEF Init, ValuesHeld
<1>2. LInv /\ ValuesHeld /\ [Next]_vars => ValuesHeld'
  <2> SUFFICES ASSUME LInv, ValuesHeld, [Next]_vars PROVE ValuesHeld'
    OBVIOUS
  <2>0. TypeOK
    BY DEF LInv
  <2>1. ASSUME NEW l \in Names, Freed(l), NEW lost, lost \cap objs = {},
               objs' = (objs \ ValuesIn(l)) \cup lost
        PROVE  ValuesHeld'
    <3>1. \A m \in Nodes : owner'[m] # Null =>
             owner[m] # l /\ owner'[m] = owner[m] /\ value'[m] = value[m]
      BY <2>1 DEF Freed
    <3>2. \A m \in Nodes : owner[m] # Null /\ owner[m] # l => value[m] \notin ValuesIn(l)
      BY DEF ValuesHeld, ValuesIn, In
    <3> QED
      BY <2>1, <3>1, <3>2 DEF ValuesHeld
  <2>2. ASSUME UNCHANGED <<owner, value, objs>> PROVE ValuesHeld'
    BY <2>2 DEF ValuesHeld
  <2>3. ASSUME NEW l \in Names, Release(l) PROVE ValuesHeld'
    <3>1. {} \cap objs = {} /\ objs' = (objs \ ValuesIn(l)) \cup {}
      BY <2>3 DEF Release
    <3> QED
      BY <2>1, <2>3, <3>1 DEF Release
  <2>4. ASSUME NEW l \in Names, NEW n \in Nodes, NEW v \in Objects,
               AddNodeHead(l, n, v) \/ AddNodeTail(l, n, v)
        PROVE  ValuesHeld'
    BY <2>0, <2>4, NewHeld DEF AddNodeHead, AddNodeTail
  <2>5. ASSUME NEW l \in Names, NEW n \in Nodes, NEW v \in Objects,
               NEW old \in Nodes, NEW after \in BOOLEAN, InsertNode(l, old, n, v, after)
        PROVE  ValuesHeld'
    BY <2>0, <2>5, NewHeld DEF InsertNode
  <2>6. ASSUME NEW l \in Names, NEW n \in Nodes, DelNode(l, n) PROVE ValuesHeld'
    <3>1. /\ \A m \in Nodes \ {n} : owner'[m] = owner[m] /\ value'[m] = value[m]
          /\ owner'[n] = Null /\ owner[n] # Null
      BY <2>0, <2>6 DEF TypeOK, DelNode
    <3>2. objs' = objs \ {value[n]}
      BY <2>6 DEF DelNode
    <3> QED
      BY <3>1, <3>2 DEF ValuesHeld
  <2>7. ASSUME NEW n \in Nodes, DupNode(n) PROVE ValuesHeld'
    <3>1. PICK l \in Names, v \in Objects :
             Between(l, tail[l], n, Null, v) /\ NewValue(v)
      BY <2>0, <2>7, HasDup DEF DupNode, TypeOK, OrNull
    <3> QED
      BY <2>0, <3>1, NewHeld
  <2>8. CASE DupFails
    <3>1. PICK l \in Names : l = copy
      BY <2>0, <2>8 DEF DupFails, TypeOK, OrNull
    <3>2. PICK lost : lost \cap objs = {} /\ objs' = (objs \ ValuesIn(l)) \cup lost
      BY <2>8, <3>1 DEF DupFails
    <3> QED
      BY <2>1, <2>8, <3>1, <3>2 DEF DupFails
  <2>9. ASSUME NEW l \in Names, Create(l) \/ Rotate(l) PROVE ValuesHeld'
    BY <2>2, <2>9 DEF Create, Rotate, links
  <2>10. ASSUME NEW l \in Names, NEW d \in Ends, GetIterator(l, d) PROVE ValuesHeld'
    BY <2>2, <2>10 DEF GetIterator, links
  <2>11. CASE ListNext \/ ReleaseIterator \/ DupEnds
    BY <2>2, <2>11 DEF ListNext, ReleaseIterator, DupEnds, links
  <2>12. ASSUME NEW l \in Names, NEW c \in Names, DupStart(l, c) PROVE ValuesHeld'
    BY <2>2, <2>12 DEF DupStart, links
  <2>13. CASE UNCHANGED vars
    BY <2>2, <2>13 DEF vars, links
  <2> QED
    BY <2>3, <2>4, <2>5, <2>6, <2>7, <2>8, <2>9, <2>10, <2>11, <2>12, <2>13 DEF Next
<1> QED
  BY <1>1, <1>2, Invariance, PTL DEF Spec

-----------------------------------------------------------------------------
(* Positions.                                                              *)

Below == {p \in Nat \X Nat : p[1] < p[2]}

\* Of some numbers, one is the smallest.
LEMMA Smallest ==
    ASSUME NEW B \in SUBSET Nat, B # {}
    PROVE  \E j \in B : \A i \in B : j <= i
<1>1. IsWellFoundedOn(Below, Nat)
  BY NatLessThanWellFounded DEF OpToRel, Below
<1>2. PICK j \in B : \A i \in B : <<i, j>> \notin Below
  BY <1>1, WFMin
<1>3. ASSUME NEW i \in B PROVE j <= i
  <2>1. i < j => <<i, j>> \in Below
    BY DEF Below
  <2>2. ~(i < j)
    BY <1>2, <2>1
  <2>3. i \in Nat /\ j \in Nat
    OBVIOUS
  <2> QED
    BY <2>2, <2>3
<1> QED
  BY <1>3

\* What the function that Steps computes returns, of any that obeys the same
\* equations: a first difference has none before it.
LEMMA StepsAre ==
    ASSUME NEW pointers, NEW n, NEW k \in Nat, NEW g,
           \A j \in 0 .. k :
              g[j] = IF j = 0 THEN n
                     ELSE IF g[j - 1] = Null THEN Null ELSE pointers[g[j - 1]]
    PROVE  Steps(pointers, n, k) = g[k]
<1> DEFINE Eq(h) == h = [j \in 0 .. k |->
                           IF j = 0 THEN n
                           ELSE IF h[j - 1] = Null THEN Null ELSE pointers[h[j - 1]]]
<1>1. PICK h : h = (CHOOSE f : Eq(f)) /\ Steps(pointers, n, k) = h[k]
  BY DEF Steps
<1>2. Eq([j \in 0 .. k |-> g[j]])
  <2>1. \A j \in 0 .. k : j # 0 => j - 1 \in 0 .. k
    OBVIOUS
  <2> QED
    BY <2>1
<1>3. Eq(h)
  <2> HIDE DEF Eq
  <2> QED
    BY <1>1, <1>2
<1> DEFINE Bad == {j \in 0 .. k : h[j] # g[j]}
<1>4. Bad = {}
  <2> SUFFICES ASSUME Bad # {} PROVE FALSE
    OBVIOUS
  <2>1. Bad \in SUBSET Nat
    OBVIOUS
  <2>2. PICK j \in Bad : \A i \in Bad : j <= i
    <3> HIDE DEF Bad
    <3> QED
      BY <2>1, Smallest
  <2>3. j # 0 => j - 1 \in 0 .. k /\ h[j - 1] = g[j - 1]
    <3>1. j # 0 => j - 1 \in 0 .. k /\ ~(j <= j - 1)
      OBVIOUS
    <3> QED
      BY <2>2, <3>1
  <2> QED
    BY <1>3, <2>3
<1> QED
  BY <1>1, <1>4

\* The node at a position of the sequence, from the head and from the tail.
LEMMA IndexIs ==
    ASSUME TypeOK, NEW l \in Names, NEW s \in [1 .. len[l] -> Nodes], Chain(l, s)
    PROVE  /\ \A k \in Nat : Index(l, k) = IF k < len[l] THEN s[k + 1] ELSE Null
           /\ \A k \in Nat : Index(l, -k - 1) = IF k < len[l] THEN s[len[l] - k] ELSE Null
<1> USE AdListAssumption
<1>0. PICK N \in Nat : N = len[l]
  BY DEF TypeOK
<1>1. /\ head[l] = IF N = 0 THEN Null ELSE s[1]
      /\ tail[l] = IF N = 0 THEN Null ELSE s[N]
      /\ \A i \in 1 .. N : /\ s[i] \in Nodes /\ s[i] # Null
                           /\ next[s[i]] = IF i = N THEN Null ELSE s[i + 1]
                           /\ prev[s[i]] = IF i = 1 THEN Null ELSE s[i - 1]
  BY <1>0 DEF Chain
<1>2. ASSUME NEW k \in Nat
      PROVE  Index(l, k) = IF k < N THEN s[k + 1] ELSE Null
  <2> DEFINE g == [j \in 0 .. k |-> IF j < N THEN s[j + 1] ELSE Null]
  <2>1. ASSUME NEW j \in 0 .. k
        PROVE  g[j] = IF j = 0 THEN head[l]
                      ELSE IF g[j - 1] = Null THEN Null ELSE next[g[j - 1]]
    <3>1. CASE j = 0
      BY <1>1, <3>1
    <3>2. CASE j # 0
      <4>1. j - 1 \in 0 .. k /\ (j - 1) + 1 = j
        BY <3>2
      <4>2. g[j - 1] = IF j - 1 < N THEN s[j] ELSE Null
        BY <4>1
      <4>3. CASE j - 1 < N
        <5>1. j \in 1 .. N
          BY <3>2, <4>3
        <5>2. next[s[j]] = IF j = N THEN Null ELSE s[j + 1]
          BY <1>1, <5>1
        <5> QED
          BY <1>1, <3>2, <4>2, <4>3, <5>1, <5>2
      <4>4. CASE ~(j - 1 < N)
        BY <3>2, <4>2, <4>4
      <4> QED
        BY <4>3, <4>4
    <3> QED
      BY <3>1, <3>2
  <2>2. g[k] = IF k < N THEN s[k + 1] ELSE Null
    OBVIOUS
  <2> HIDE DEF g
  <2>3. Steps(next, head[l], k) = g[k]
    BY <2>1, StepsAre
  <2> QED
    BY <2>2, <2>3 DEF Index
<1>3. ASSUME NEW k \in Nat
      PROVE  Index(l, -k - 1) = IF k < N THEN s[N - k] ELSE Null
  <2> DEFINE g == [j \in 0 .. k |-> IF j < N THEN s[N - j] ELSE Null]
  <2>1. ASSUME NEW j \in 0 .. k
        PROVE  g[j] = IF j = 0 THEN tail[l]
                      ELSE IF g[j - 1] = Null THEN Null ELSE prev[g[j - 1]]
    <3>1. CASE j = 0
      BY <1>1, <3>1
    <3>2. CASE j # 0
      <4>1. j - 1 \in 0 .. k
        BY <3>2
      <4>2. g[j - 1] = IF j - 1 < N THEN s[N - (j - 1)] ELSE Null
        BY <4>1
      <4>3. CASE j - 1 < N
        <5>1. N - (j - 1) \in 1 .. N /\ (N - (j - 1)) - 1 = N - j
          BY <3>2, <4>3
        <5>2. prev[s[N - (j - 1)]] = IF N - (j - 1) = 1 THEN Null ELSE s[N - j]
          BY <1>1, <5>1
        <5> QED
          BY <1>1, <3>2, <4>2, <4>3, <5>1, <5>2
      <4>4. CASE ~(j - 1 < N)
        BY <3>2, <4>2, <4>4
      <4> QED
        BY <4>3, <4>4
    <3> QED
      BY <3>1, <3>2
  <2>2. g[k] = IF k < N THEN s[N - k] ELSE Null
    OBVIOUS
  <2> HIDE DEF g
  <2>3. Steps(prev, tail[l], k) = g[k]
    BY <2>1, StepsAre
  <2>4. Index(l, -k - 1) = Steps(prev, tail[l], k)
    <3>1. -k - 1 < 0 /\ -(-k - 1) - 1 = k
      OBVIOUS
    <3> QED
      BY <3>1, Zenon DEF Index
  <2> QED
    BY <2>2, <2>3, <2>4
<1> QED
  BY <1>0, <1>2, <1>3

\* For lists of any length, positions counted from the two ends meet at the same
\* node, and none is found outside of the list (adlist.c:313-315).
THEOREM IndexTold == Spec => []IndexBothEnds
<1>1. LInv => IndexBothEnds
  <2> SUFFICES ASSUME LInv, NEW l \in Names
               PROVE  /\ \A i \in 0 .. len[l] - 1 : Index(l, i) = Index(l, i - len[l])
                      /\ Index(l, len[l]) = Null /\ Index(l, -len[l] - 1) = Null
    BY DEF IndexBothEnds
  <2>1. PICK s \in [1 .. len[l] -> Nodes] : Chain(l, s)
    BY DEF LInv, Kept
  <2>2. PICK N \in Nat : N = len[l]
    BY DEF LInv, TypeOK
  <2>3. /\ \A k \in Nat : Index(l, k) = IF k < N THEN s[k + 1] ELSE Null
        /\ \A k \in Nat : Index(l, -k - 1) = IF k < N THEN s[N - k] ELSE Null
    BY <2>1, <2>2, IndexIs DEF LInv
  <2>4. ASSUME NEW i \in 0 .. N - 1 PROVE Index(l, i) = Index(l, i - N)
    <3>1. PICK k \in Nat : /\ k = N - 1 - i /\ k < N /\ i < N /\ N - k = i + 1
                           /\ -k - 1 = i - N
      <4>1. N - 1 - i \in Nat
        OBVIOUS
      <4> QED
        BY <4>1
    <3>2. Index(l, i) = s[i + 1] /\ Index(l, -k - 1) = s[N - k]
      BY <2>3, <3>1
    <3> QED
      BY <3>1, <3>2
  <2> QED
    BY <2>2, <2>3, <2>4
<1> QED
  BY Invariance, <1>1, PTL

-----------------------------------------------------------------------------
(* Sequences.                                                              *)

LEMMA Piece ==
    ASSUME NEW S, NEW q \in Seq(S), NEW N, N = Len(q), NEW a \in 1 .. N + 1, NEW b \in a - 1 .. N
    PROVE  /\ SubSeq(q, a, b) \in Seq(S) /\ Len(SubSeq(q, a, b)) = b - a + 1
           /\ \A i \in 1 .. b - a + 1 : SubSeq(q, a, b)[i] = q[a + i - 1]
OBVIOUS

LEMMA Pasted ==
    ASSUME NEW S, NEW q \in Seq(S), NEW r \in Seq(S), NEW m, m = Len(q), NEW k, k = Len(r)
    PROVE  /\ q \o r \in Seq(S) /\ Len(q \o r) = m + k
           /\ \A i \in 1 .. m + k : (q \o r)[i] = IF i <= m THEN q[i] ELSE r[i - m]
OBVIOUS

\* What the operations of the abstract lists make of a sequence, by positions.
SeqPut(q, i, d) ==
    [j \in 1 .. Len(q) + 1 |-> IF j < i THEN q[j] ELSE IF j = i THEN d ELSE q[j - 1]]

SeqRemove(q, i) == [j \in 1 .. Len(q) - 1 |-> IF j < i THEN q[j] ELSE q[j + 1]]

SeqRotate(q) == [j \in 1 .. Len(q) |-> IF j = 1 THEN q[Len(q)] ELSE q[j - 1]]

LEMMA PutIs ==
    ASSUME NEW S, NEW q \in Seq(S), NEW i \in 1 .. Len(q) + 1, NEW d \in S
    PROVE  SubSeq(q, 1, i - 1) \o <<d>> \o SubSeq(q, i, Len(q)) = SeqPut(q, i, d)
<1> DEFINE N == Len(q)
           a == SubSeq(q, 1, i - 1)
           b == SubSeq(q, i, N)
           c == a \o <<d>>
           e == c \o b
           f == [j \in 1 .. N + 1 |-> IF j < i THEN q[j] ELSE IF j = i THEN d ELSE q[j - 1]]
<1>1. N = Len(q) /\ N \in Nat /\ i \in 1 .. N + 1
  OBVIOUS
<1>2. a \in Seq(S) /\ Len(a) = i - 1 /\ \A j \in 1 .. i - 1 : a[j] = q[j]
  <2>1. i - 1 \in 0 .. N /\ \A j \in 1 .. i - 1 : 1 + j - 1 = j
    BY <1>1
  <2> QED
    BY <2>1, Piece
<1>3. b \in Seq(S) /\ Len(b) = N - i + 1 /\ \A j \in 1 .. N - i + 1 : b[j] = q[i + j - 1]
  BY <1>1, Piece
<1>4. <<d>> \in Seq(S) /\ Len(<<d>>) = 1 /\ <<d>>[1] = d
  OBVIOUS
<1>5. f \in [1 .. N + 1 -> S]
  BY <1>1
<1> HIDE DEF N, a, b
<1>6. c \in Seq(S) /\ Len(c) = i /\ \A j \in 1 .. i : c[j] = IF j < i THEN q[j] ELSE d
  <2>1. /\ c \in Seq(S) /\ Len(c) = (i - 1) + 1
        /\ \A j \in 1 .. (i - 1) + 1 : c[j] = IF j <= i - 1 THEN a[j] ELSE <<d>>[j - (i - 1)]
    BY <1>2, <1>4, Pasted
  <2> HIDE DEF c
  <2>2. ASSUME NEW j \in 1 .. i PROVE c[j] = IF j < i THEN q[j] ELSE d
    <3>1. CASE j < i
      <4>1. j \in 1 .. i - 1
        BY <1>1, <3>1
      <4> QED
        BY <1>1, <1>2, <2>1, <3>1, <4>1
    <3>2. CASE j = i
      <4>1. j \in 1 .. (i - 1) + 1 /\ ~(j <= i - 1) /\ j - (i - 1) = 1
        BY <1>1, <3>2
      <4>2. c[j] = <<d>>[j - (i - 1)]
        BY <2>1, <4>1
      <4>3. c[j] = <<d>>[1]
        BY <4>1, <4>2
      <4> QED
        BY <1>4, <3>2, <4>1, <4>3
    <3> QED
      BY <1>1, <3>1, <3>2
  <2> QED
    BY <1>1, <2>1, <2>2
<1> HIDE DEF c
<1>7. /\ e \in Seq(S) /\ Len(e) = N + 1
      /\ \A j \in 1 .. N + 1 : e[j] = IF j <= i THEN c[j] ELSE b[j - i]
  <2>1. /\ e \in Seq(S) /\ Len(e) = i + (N - i + 1)
        /\ \A j \in 1 .. i + (N - i + 1) : e[j] = IF j <= i THEN c[j] ELSE b[j - i]
    <3>1. PICK k : k = N - i + 1
      OBVIOUS
    <3>2. c \in Seq(S) /\ b \in Seq(S) /\ i = Len(c) /\ k = Len(b)
      BY <1>3, <1>6, <3>1
    <3>3. /\ e \in Seq(S) /\ Len(e) = i + k
          /\ \A j \in 1 .. i + k : e[j] = IF j <= i THEN c[j] ELSE b[j - i]
      BY <3>2, Pasted
    <3> QED
      BY <3>1, <3>3
  <2>2. i + (N - i + 1) = N + 1
    BY <1>1
  <2> QED
    BY <2>1, <2>2
<1> HIDE DEF e
<1>8. ASSUME NEW j \in 1 .. N + 1 PROVE e[j] = f[j]
  <2>1. CASE j <= i
    BY <1>1, <1>6, <1>7, <2>1
  <2>2. CASE j > i
    <3>1. j - i \in 1 .. N - i + 1 /\ i + (j - i) - 1 = j - 1 /\ ~(j <= i) /\ ~(j < i) /\ j # i
      BY <1>1, <2>2
    <3>2. e[j] = b[j - i] /\ b[j - i] = q[j - 1]
      BY <1>3, <1>7, <3>1
    <3> QED
      BY <3>1, <3>2
  <2> QED
    BY <1>1, <2>1, <2>2
<1>9. e = f
  <2>1. f \in Seq(S) /\ Len(f) = N + 1
    BY <1>1, <1>5
  <2> QED
    BY <1>7, <1>8, <2>1, SeqEqual
<1> QED
  BY <1>9 DEF e, c, a, b, f, N, SeqPut

LEMMA RemoveIs ==
    ASSUME NEW S, NEW q \in Seq(S), NEW i \in 1 .. Len(q)
    PROVE  SubSeq(q, 1, i - 1) \o SubSeq(q, i + 1, Len(q)) = SeqRemove(q, i)
<1> DEFINE N == Len(q)
           a == SubSeq(q, 1, i - 1)
           b == SubSeq(q, i + 1, N)
           e == a \o b
           f == [j \in 1 .. N - 1 |-> IF j < i THEN q[j] ELSE q[j + 1]]
<1>1. N = Len(q) /\ N \in Nat /\ i \in 1 .. N /\ N - 1 \in Nat
  OBVIOUS
<1> HIDE DEF N
<1>2. a \in Seq(S) /\ Len(a) = i - 1 /\ \A j \in 1 .. i - 1 : a[j] = q[j]
  <2>1. i - 1 \in 0 .. N /\ \A j \in 1 .. i - 1 : 1 + j - 1 = j
    BY <1>1
  <2> QED
    BY <2>1, Piece
<1>3. b \in Seq(S) /\ Len(b) = N - i /\ \A j \in 1 .. N - i : b[j] = q[i + j]
  <2>1. PICK k \in 1 .. N + 1 :
           /\ k = i + 1 /\ N \in k - 1 .. N /\ N - k + 1 = N - i
           /\ \A j \in 1 .. N - i : k + j - 1 = i + j
    BY <1>1
  <2>2. SubSeq(q, k, N) \in Seq(S) /\ Len(SubSeq(q, k, N)) = N - k + 1
        /\ \A j \in 1 .. N - k + 1 : SubSeq(q, k, N)[j] = q[k + j - 1]
    BY <1>1, <2>1, Piece
  <2> QED
    BY <2>1, <2>2
<1>4. f \in [1 .. N - 1 -> S]
  BY <1>1
<1> HIDE DEF a, b
<1>5. /\ e \in Seq(S) /\ Len(e) = N - 1
      /\ \A j \in 1 .. N - 1 : e[j] = IF j <= i - 1 THEN a[j] ELSE b[j - (i - 1)]
  <2>1. /\ e \in Seq(S) /\ Len(e) = (i - 1) + (N - i)
        /\ \A j \in 1 .. (i - 1) + (N - i) :
              e[j] = IF j <= i - 1 THEN a[j] ELSE b[j - (i - 1)]
    <3>1. PICK m, k : m = i - 1 /\ k = N - i
      OBVIOUS
    <3>2. a \in Seq(S) /\ b \in Seq(S) /\ m = Len(a) /\ k = Len(b)
      BY <1>2, <1>3, <3>1
    <3>3. /\ e \in Seq(S) /\ Len(e) = m + k
          /\ \A j \in 1 .. m + k : e[j] = IF j <= m THEN a[j] ELSE b[j - m]
      BY <3>2, Pasted
    <3> QED
      BY <3>1, <3>3
  <2>2. (i - 1) + (N - i) = N - 1
    BY <1>1
  <2> QED
    BY <2>1, <2>2
<1> HIDE DEF e
<1>6. ASSUME NEW j \in 1 .. N - 1 PROVE e[j] = f[j]
  <2>1. CASE j < i
    BY <1>1, <1>2, <1>5, <2>1
  <2>2. CASE j >= i
    <3>1. j - (i - 1) \in 1 .. N - i /\ i + (j - (i - 1)) = j + 1 /\ ~(j <= i - 1)
      BY <1>1, <2>2
    <3> QED
      BY <1>1, <1>3, <1>5, <2>2, <3>1
  <2> QED
    BY <1>1, <2>1, <2>2
<1> HIDE DEF f
<1>7. e = f
  <2>1. f \in Seq(S) /\ Len(f) = N - 1
    BY <1>1, <1>4
  <2> QED
    BY <1>5, <1>6, <2>1, SeqEqual
<1> QED
  BY <1>7 DEF e, a, b, f, N, SeqRemove

LEMMA RotateIs ==
    ASSUME NEW S, NEW q \in Seq(S), q # <<>>
    PROVE  <<q[Len(q)]>> \o SubSeq(q, 1, Len(q) - 1) = SeqRotate(q)
BY DEF SeqRotate

-----------------------------------------------------------------------------
(* Items.                                                                  *)

\* What the abstract lists are.
Shown == [l \in Names |-> Items(l)]

\* The contents of a list are those of its nodes in the order of the sequence.
ItemsFact ==
    TypeOK =>
        \A l \in Names :
            /\ l \notin live => Items(l) = <<>>
            /\ l \in live =>
                  \A s \in [1 .. len[l] -> Nodes] : Chain(l, s) =>
                      Items(l) = [i \in 1 .. len[l] |-> Content[value[s[i]]]]

LEMMA ItemsAre == ItemsFact
<1> SUFFICES ASSUME TypeOK, NEW l \in Names
             PROVE  /\ l \notin live => Items(l) = <<>>
                    /\ l \in live =>
                          \A s \in [1 .. len[l] -> Nodes] : Chain(l, s) =>
                              Items(l) = [i \in 1 .. len[l] |-> Content[value[s[i]]]]
  BY DEF ItemsFact
<1>1. ASSUME l \notin live PROVE Items(l) = <<>>
  <2>1. Items(l) = [i \in 1 .. 0 |-> Content[value[Index(l, i - 1)]]]
    BY <1>1 DEF Items
  <2> QED
    BY <2>1
<1>2. ASSUME l \in live, NEW s \in [1 .. len[l] -> Nodes], Chain(l, s)
      PROVE  Items(l) = [i \in 1 .. len[l] |-> Content[value[s[i]]]]
  <2>1. PICK N \in Nat : N = len[l]
    BY DEF TypeOK
  <2>2. ASSUME NEW i \in 1 .. N PROVE Index(l, i - 1) = s[i]
    <3>1. PICK k \in Nat : k = i - 1 /\ k < N /\ k + 1 = i
      OBVIOUS
    <3> QED
      BY <1>2, <2>1, <3>1, IndexIs
  <2>3. Items(l) = [i \in 1 .. N |-> Content[value[Index(l, i - 1)]]]
    BY <1>2, <2>1 DEF Items
  <2> QED
    BY <2>1, <2>2, <2>3
<1> QED
  BY <1>1, <1>2

LEMMA ItemsBecome == ItemsFact'
BY ItemsAre, PTL

\* A list that is left alone shows the same.
LEMMA AloneShows ==
    ASSUME LInv, TypeOK', NEW k \in Names, Alone(k), k \in live' <=> k \in live
    PROVE  Items(k)' = Items(k)
<1>1. CASE k \notin live
  BY <1>1, ItemsAre, ItemsBecome DEF ItemsFact, LInv
<1>2. CASE k \in live
  <2>1. PICK s \in [1 .. len[k] -> Nodes] : Chain(k, s)
    BY DEF LInv, Kept
  <2>2. Chain(k, s)' /\ len'[k] = len[k]
    BY <2>1, ChainSame DEF Alone
  <2>3. \A i \in 1 .. len[k] : value'[s[i]] = value[s[i]]
    BY <2>1 DEF Alone, Chain
  <2>4. Items(k) = [i \in 1 .. len[k] |-> Content[value[s[i]]]]
    BY <1>2, <2>1, ItemsAre DEF ItemsFact, LInv
  <2>5. Items(k)' = [i \in 1 .. len[k] |-> Content[value'[s[i]]]]
    BY <1>2, <2>2, ItemsBecome DEF ItemsFact
  <2> QED
    BY <2>3, <2>4, <2>5
<1> QED
  BY <1>1, <1>2

LEMMA OneChanges ==
    ASSUME NEW l \in Names, NEW x, Items(l)' = x,
           \A k \in Names \ {l} : Items(k)' = Items(k)
    PROVE  Shown' = [Shown EXCEPT ![l] = x]
BY DEF Shown

-----------------------------------------------------------------------------
(* listDup.                                                                *)

\* A list that the application does not have is empty, but for the copy.
Unborn == \A l \in Names \ live : l # copy => len[l] = 0

\* listDup has copied the nodes up to the iterator.
CopiedAs(o, c, d) ==
    \E s \in [1 .. len[o] -> Nodes], u \in [1 .. len[c] -> Nodes] :
        /\ Chain(o, s) /\ Chain(c, u)
        /\ len[c] <= len[o]
        /\ d = IF len[c] = len[o] THEN Null ELSE s[len[c] + 1]
        /\ \A i \in 1 .. len[c] : Content[value[u[i]]] = Content[value[s[i]]]

Copied == copy # Null => CopiedAs(orig, copy, dupNext)

\* What the refinement needs of every state.
DInv == LInv /\ Unborn /\ Copied

LEMMA UnbornKeeps ==
    ASSUME LInv, Unborn, UNCHANGED <<live, copy>>, NEW l \in Names, l \in live \/ l = copy,
           \A k \in Names \ {l} : Alone(k)
    PROVE  Unborn'
BY DEF Unborn, Alone

\* A node added at the end.
LEMMA TailMoves ==
    ASSUME LInv, NEW l \in Names, NEW n \in Nodes, NEW v,
           NEW s \in [1 .. len[l] -> Nodes], Chain(l, s), iterOf = l => Walk(l, s),
           Between(l, tail[l], n, Null, v), UNCHANGED iterVars
    PROVE  /\ \A k \in Names \ {l} : Alone(k)
           /\ \E t \in [1 .. len[l] + 1 -> Nodes] :
                 With(t, s, len[l], len[l], n) /\ Chain(l, t)'
BY TailPlace, BetweenMoves

LEMMA CopyGrows ==
    ASSUME DInv, NEW n \in Nodes, DupNode(n)
    PROVE  Unborn' /\ Copied' /\ \A k \in Names \ {copy} : Alone(k)
<1> USE AdListAssumption
<1>1. PICK o \in Names, c \in Names :
         o = orig /\ c = copy /\ o \in live /\ c \notin live
  BY DEF DInv, LInv, Copying, TypeOK, OrNull, DupNode
<1>2. PICK M \in Nat, N \in Nat : M = len[c] /\ N = len[o]
  BY <1>1 DEF DInv, LInv, TypeOK
<1>3. PICK s \in [1 .. N -> Nodes], u \in [1 .. M -> Nodes] :
         /\ Chain(o, s) /\ Chain(c, u)
         /\ M <= N
         /\ dupNext = IF M = N THEN Null ELSE s[M + 1]
         /\ \A i \in 1 .. M : Content[value[u[i]]] = Content[value[s[i]]]
  <2>1. CopiedAs(o, c, dupNext)
    BY <1>1 DEF DInv, Copied, DupNode
  <2> QED
    BY <1>2, <2>1 DEF CopiedAs
<1>4. M + 1 \in 1 .. N /\ dupNext = s[M + 1]
  BY <1>3 DEF DupNode
<1>5. PICK v \in Objects :
         Content[v] = Content[value[dupNext]] /\ Between(c, tail[c], n, Null, v)
  BY <1>1 DEF DupNode
<1>8. iterOf # c /\ UNCHANGED iterVars /\ c # o /\ LInv
  BY <1>1 DEF DInv, LInv, TypeOK, OrNull, DupNode
<1>9. \A k \in Names \ {c} : Alone(k)
  BY <1>2, <1>3, <1>5, <1>8, TailMoves
<1>10. PICK t \in [1 .. M + 1 -> Nodes] :
          (\A i \in 1 .. M : t[i] = u[i]) /\ t[M + 1] = n /\ Chain(c, t)'
  <2>1. u \in [1 .. len[c] -> Nodes] /\ Chain(c, u) /\ Between(c, tail[c], n, Null, v)
    BY <1>2, <1>3, <1>5
  <2>2. PICK t \in [1 .. len[c] + 1 -> Nodes] :
           With(t, u, len[c], len[c], n) /\ Chain(c, t)'
    BY <1>8, <2>1, TailMoves
  <2>3. (\A i \in 1 .. M : t[i] = u[i]) /\ t[M + 1] = n
    BY <1>2, <2>2 DEF With
  <2> QED
    BY <1>2, <2>2, <2>3
<1>11. Alone(o) /\ Chain(o, s)' /\ len'[o] = N
  <2>1. Alone(o)
    BY <1>8, <1>9
  <2>2. s \in [1 .. len[o] -> Nodes]
    BY <1>2, <1>3
  <2> QED
    BY <1>2, <1>3, <2>1, <2>2, ChainSame DEF Alone
<1>12. /\ len'[c] = M + 1 /\ value'[n] = v
       /\ \A m \in Nodes \ {n} : value'[m] = value[m]
       /\ owner[n] = Null
  BY <1>2, <1>5 DEF Between, DInv, LInv, TypeOK
<1>13. \A i \in 1 .. N : s[i] # n
  <2>1. \A i \in 1 .. N : s[i] \in Nodes /\ (owner[s[i]] = o <=> \E j \in 1 .. N : s[j] = s[i])
    BY <1>2, <1>3 DEF Chain
  <2>2. \A i \in 1 .. N : owner[s[i]] = o
    BY <2>1
  <2> QED
    BY <1>12, <2>2
<1>14. \A i \in 1 .. M : u[i] # n
  BY <1>2, <1>3, <1>12 DEF Chain
<1>15. \A i \in 1 .. M + 1 : Content[value'[t[i]]] = Content[value'[s[i]]]
  <2>1. ASSUME NEW i \in 1 .. M PROVE Content[value'[t[i]]] = Content[value'[s[i]]]
    <3>1. i \in 1 .. N
      BY <1>3
    <3>2. value'[u[i]] = value[u[i]] /\ value'[s[i]] = value[s[i]]
      BY <1>12, <1>13, <1>14, <3>1
    <3> QED
      BY <1>3, <1>10, <3>2
  <2>2. Content[value'[t[M + 1]]] = Content[value'[s[M + 1]]]
    BY <1>4, <1>5, <1>10, <1>12, <1>13
  <2> QED
    BY <2>1, <2>2
<1>16. dupNext' = IF M + 1 = N THEN Null ELSE s[(M + 1) + 1]
  <2>1. dupNext' = next[s[M + 1]]
    BY <1>4 DEF DupNode
  <2> QED
    BY <1>2, <1>3, <1>4, <2>1 DEF Chain
<1>17. copy' = c /\ orig' = o /\ live' = live
  BY <1>1 DEF DupNode
<1>18. CopiedAs(o, c, dupNext)'
  <2>1. M + 1 <= N
    BY <1>4
  <2> QED
    BY <1>3, <1>10, <1>11, <1>12, <1>15, <1>16, <2>1 DEF CopiedAs
<1>19. Copied'
  BY <1>17, <1>18 DEF Copied
<1>20. Unborn'
  BY <1>1, <1>9, <1>17, UnbornKeeps DEF DInv
<1> QED
  BY <1>1, <1>9, <1>19, <1>20

\* From the start and by each step, what listDup needs is kept.
LEMMA DInvInit == Init => DInv
<1> SUFFICES ASSUME Init PROVE Unborn /\ Copied
  BY InvInit DEF DInv
<1> QED
  BY DEF Init, Unborn, Copied

\* listDup starts with a copy that is empty.
LEMMA CopyStarts ==
    ASSUME DInv, NEW l \in Names, NEW c \in Names, DupStart(l, c)
    PROVE  Unborn' /\ Copied'
<1>1. copy = Null /\ c # Null /\ UNCHANGED links
  BY AdListAssumption DEF DupStart, Call
<1>2. len[c] = 0 /\ len' = len
  BY <1>1 DEF DInv, Unborn, DupStart, links
<1>3. PICK s \in [1 .. len[l] -> Nodes], u \in [1 .. len[c] -> Nodes] : Chain(l, s) /\ Chain(c, u)
  BY DEF DInv, LInv, Kept
<1>4. Chain(l, s)' /\ Chain(c, u)'
  BY <1>1, <1>3, AloneSame, ChainSame
<1>5. len[l] \in Nat /\ head[l] = IF len[l] = 0 THEN Null ELSE s[1]
  BY <1>3 DEF Chain, DInv, LInv, TypeOK
<1>6. head[l] = IF len[c] = len[l] THEN Null ELSE s[len[c] + 1]
  BY <1>2, <1>5
<1>7. copy' = c /\ orig' = l /\ dupNext' = head[l] /\ live' = live
  BY DEF DupStart
<1>8. CopiedAs(l, c, dupNext)'
  <2>1. PICK N \in Nat : N = len[l] /\ len'[l] = N /\ len'[c] = 0
    BY <1>2, <1>5
  <2>2. s \in [1 .. N -> Nodes] /\ u \in [1 .. 0 -> Nodes] /\ 0 <= N
    BY <1>2, <1>3, <2>1
  <2>3. dupNext' = IF 0 = N THEN Null ELSE s[0 + 1]
    BY <1>2, <1>6, <1>7, <2>1
  <2>4. \A i \in 1 .. len'[c] : Content[value'[u[i]]] = Content[value'[s[i]]]
    BY <2>1
  <2>5. s \in [1 .. len'[l] -> Nodes] /\ u \in [1 .. len'[c] -> Nodes] /\ len'[c] <= len'[l]
    BY <2>1, <2>2
  <2>6. dupNext' = IF len'[c] = len'[l] THEN Null ELSE s[len'[c] + 1]
    BY <2>1, <2>3
  <2> QED
    BY <1>4, <2>4, <2>5, <2>6, Zenon DEF CopiedAs
<1>9. Unborn'
  BY <1>1, <1>2, <1>7, AdListAssumption DEF Unborn, DInv
<1> QED
  BY <1>7, <1>8, <1>9 DEF Copied

LEMMA DInvStep == DInv /\ [Next]_vars => DInv'
<1> SUFFICES ASSUME DInv, [Next]_vars PROVE Unborn' /\ Copied'
  BY InvStep DEF DInv
<1> USE AdListAssumption
<1>0. LInv /\ Unborn /\ Copied
  BY DEF DInv
<1>1. ASSUME copy = Null, UNCHANGED dupVars, NEW l \in live,
             \A k \in Names \ {l} : Alone(k), UNCHANGED live
      PROVE  Unborn' /\ Copied'
  <2>1. l \in Names
    BY <1>0, <1>1 DEF LInv, TypeOK
  <2> QED
    BY <1>0, <1>1, <2>1, UnbornKeeps DEF dupVars, Copied
<1>2. ASSUME copy = Null, UNCHANGED <<live, links, dupVars>> PROVE Unborn' /\ Copied'
  BY <1>0, <1>2 DEF links, dupVars, Copied, Unborn
<1>3. ASSUME NEW l \in Names, Create(l) PROVE Unborn' /\ Copied'
  BY <1>0, <1>3 DEF Create, links, dupVars, Copied, Unborn
<1>4. ASSUME NEW l \in Names, Release(l) PROVE Unborn' /\ Copied'
  <2>1. (\A k \in Names \ {l} : Alone(k)) /\ len'[l] = 0
    BY <1>0, <1>4, FreedMoves DEF Release
  <2>2. copy = Null /\ copy' = Null /\ live' = live \ {l}
    BY <1>4 DEF Release, Call, dupVars
  <2>3. ASSUME NEW k \in Names \ live' PROVE len'[k] = 0
    <3>1. k # l => len'[k] = len[k] /\ k \notin live /\ k # copy
      BY <2>1, <2>2 DEF Alone
    <3> QED
      BY <1>0, <2>1, <3>1 DEF Unborn
  <2> QED
    BY <2>2, <2>3 DEF Unborn, Copied
<1>5. ASSUME NEW l \in Names, Rotate(l) PROVE Unborn' /\ Copied'
  <2>1. PICK s \in [1 .. len[l] -> Nodes] : Chain(l, s)
    BY <1>0 DEF LInv, Kept
  <2>2. \A k \in Names \ {l} : Alone(k)
    BY <1>0, <1>5, <2>1, RotateMoves
  <2> QED
    BY <1>1, <1>5, <2>2 DEF Rotate, Call
<1>6. ASSUME NEW l \in live, NEW n \in Nodes, NEW v, Enters(l, n, v), copy = Null,
             UNCHANGED <<live, iterVars, dupVars>>
      PROVE  Unborn' /\ Copied'
  <2>1. l \in Names
    BY <1>0 DEF LInv, TypeOK
  <2>2. \A k \in Names \ {l} : Alone(k)
    BY <1>0, <1>6, <2>1, BetweenMoves DEF Enters
  <2> QED
    BY <1>1, <1>6, <2>2
<1>7. ASSUME NEW l \in Names, NEW n \in Nodes, NEW v \in Objects, AddNodeHead(l, n, v)
      PROVE  Unborn' /\ Copied'
  BY <1>0, <1>6, <1>7, HeadEnters DEF AddNodeHead, Call
<1>8. ASSUME NEW l \in Names, NEW n \in Nodes, NEW v \in Objects, AddNodeTail(l, n, v)
      PROVE  Unborn' /\ Copied'
  BY <1>0, <1>6, <1>8, TailEnters DEF AddNodeTail, Call
<1>9. ASSUME NEW l \in Names, NEW n \in Nodes, NEW v \in Objects,
             NEW old \in Nodes, NEW after \in BOOLEAN, InsertNode(l, old, n, v, after)
      PROVE  Unborn' /\ Copied'
  BY <1>0, <1>6, <1>9, InsertEnters DEF InsertNode, Call
<1>10. ASSUME NEW l \in Names, NEW n \in Nodes, DelNode(l, n) PROVE Unborn' /\ Copied'
  <2>1. PICK s \in [1 .. len[l] -> Nodes] : Chain(l, s) /\ (iterOf = l => Walk(l, s))
    BY <1>0 DEF LInv, Kept
  <2>2. PICK p \in 1 .. len[l] : s[p] = n
    BY <1>10, <2>1 DEF DelNode, Chain
  <2>3. \A k \in Names \ {l} : Alone(k)
    BY <1>0, <1>10, <2>1, <2>2, DelMoves
  <2> QED
    BY <1>1, <1>10, <2>3 DEF DelNode, Call
<1>11. ASSUME NEW l \in Names, NEW d \in Ends, GetIterator(l, d) PROVE Unborn' /\ Copied'
  BY <1>2, <1>11 DEF GetIterator, Call
<1>12. CASE ListNext \/ ReleaseIterator
  BY <1>2, <1>12 DEF ListNext, ReleaseIterator
<1>13. ASSUME NEW l \in Names, NEW c \in Names, DupStart(l, c) PROVE Unborn' /\ Copied'
  BY <1>13, CopyStarts
<1>14. ASSUME NEW n \in Nodes, DupNode(n) PROVE Unborn' /\ Copied'
  BY <1>14, CopyGrows
<1>15. CASE DupFails
  <2>1. PICK l \in Names : l = copy /\ Freed(l)
    BY <1>0, <1>15 DEF DupFails, LInv, TypeOK, OrNull
  <2>2. (\A k \in Names \ {l} : Alone(k)) /\ len'[l] = 0
    BY <1>0, <2>1, FreedMoves
  <2>3. copy' = Null /\ live' = live
    BY <1>15 DEF DupFails
  <2>4. ASSUME NEW k \in Names \ live' PROVE len'[k] = 0
    <3>1. k # l => len'[k] = len[k] /\ k \notin live /\ k # copy
      BY <2>1, <2>2, <2>3 DEF Alone
    <3> QED
      BY <1>0, <2>2, <3>1 DEF Unborn
  <2> QED
    BY <2>3, <2>4 DEF Unborn, Copied
<1>16. CASE DupEnds
  BY <1>0, <1>16 DEF DupEnds, links, Unborn, Copied
<1>17. CASE UNCHANGED vars
  <2>1. UNCHANGED links /\ live' = live /\ copy' = copy /\ orig' = orig /\ dupNext' = dupNext
    BY <1>17 DEF vars, dupVars
  <2>2. Unborn' /\ Copied'
    BY <1>0, <2>1 DEF links, Unborn, Copied, CopiedAs, Chain
  <2> QED
    BY <2>2
<1> QED
  BY <1>3, <1>4, <1>5, <1>7, <1>8, <1>9, <1>10, <1>11, <1>12, <1>13, <1>14, <1>15, <1>16,
     <1>17 DEF Next

LEMMA DInvariance == Spec => []DInv
BY DInvInit, DInvStep, PTL DEF Spec

-----------------------------------------------------------------------------
(* Each step of the lists is one of sequences, or is not seen.             *)

LEMMA ShownIs ==
    ASSUME TypeOK, NEW l \in live, NEW s \in [1 .. len[l] -> Nodes], Chain(l, s),
           NEW S, Data \subseteq S, \A m \in Nodes : Content[value[m]] \in S
    PROVE  /\ Items(l) \in Seq(S) /\ Len(Items(l)) = len[l]
           /\ \A i \in 1 .. len[l] : Items(l)[i] = Content[value[s[i]]]
<1>1. PICK N \in Nat : N = len[l]
  BY DEF TypeOK
<1>2. Items(l) = [i \in 1 .. N |-> Content[value[s[i]]]]
  BY <1>1, ItemsAre DEF ItemsFact, TypeOK
<1>3. [i \in 1 .. N |-> Content[value[s[i]]]] \in Seq(S)
  BY <1>1
<1> QED
  BY <1>1, <1>2, <1>3

\* A step of the abstract lists, from what the list becomes.
LEMMA PutShown ==
    ASSUME NEW l \in Names, l \in live, live' = live,
           \A k \in Names \ {l} : Items(k)' = Items(k),
           NEW S, NEW q \in Seq(S), q = Items(l),
           NEW i \in 1 .. Len(q) + 1, NEW d \in Data, d \in S, Items(l)' = SeqPut(q, i, d)
    PROVE  Abstract!Next
<1>1. SubSeq(q, 1, i - 1) \o <<d>> \o SubSeq(q, i, Len(q)) = SeqPut(q, i, d)
  BY PutIs
<1>2. Shown' = [Shown EXCEPT ![l] = SeqPut(q, i, d)]
  BY OneChanges
<1>3. Shown[l] = q
  BY DEF Shown
<1>4. Abstract!Put(l, i, d)
  BY <1>1, <1>2, <1>3 DEF Shown, Abstract!Put
<1>5. i \in 1 .. Len([k \in Names |-> Items(k)][l]) + 1
  OBVIOUS
<1> QED
  BY <1>4, <1>5 DEF Abstract!Next

LEMMA RemoveShown ==
    ASSUME NEW l \in Names, l \in live, live' = live,
           \A k \in Names \ {l} : Items(k)' = Items(k),
           NEW S, NEW q \in Seq(S), q = Items(l),
           NEW i \in 1 .. Len(q), Items(l)' = SeqRemove(q, i)
    PROVE  Abstract!Next
<1>1. SubSeq(q, 1, i - 1) \o SubSeq(q, i + 1, Len(q)) = SeqRemove(q, i)
  BY RemoveIs
<1>2. Shown' = [Shown EXCEPT ![l] = SeqRemove(q, i)]
  BY OneChanges
<1>3. Shown[l] = q
  BY DEF Shown
<1>4. Abstract!Remove(l, i)
  BY <1>1, <1>2, <1>3 DEF Shown, Abstract!Remove
<1>5. i \in 1 .. Len([k \in Names |-> Items(k)][l])
  OBVIOUS
<1> QED
  BY <1>4, <1>5 DEF Abstract!Next

LEMMA RotateShown ==
    ASSUME NEW l \in Names, l \in live, live' = live,
           \A k \in Names \ {l} : Items(k)' = Items(k),
           NEW S, NEW q \in Seq(S), q = Items(l), q # <<>>, Items(l)' = SeqRotate(q)
    PROVE  Abstract!Next
<1>1. <<q[Len(q)]>> \o SubSeq(q, 1, Len(q) - 1) = SeqRotate(q)
  BY RotateIs
<1>2. Shown' = [Shown EXCEPT ![l] = SeqRotate(q)]
  BY OneChanges
<1>3. Shown[l] = q
  BY DEF Shown
<1>4. Abstract!Rotate(l)
  BY <1>1, <1>2, <1>3 DEF Shown, Abstract!Rotate
<1> QED
  BY <1>4 DEF Abstract!Next

LEMMA EntersPuts ==
    ASSUME LInv, TypeOK', NEW l \in Names, l \in live, NEW n \in Nodes, NEW v \in Objects,
           Enters(l, n, v), UNCHANGED <<live, iterVars>>
    PROVE  Abstract!Next
<1> USE AdListAssumption
<1>1. PICK s \in [1 .. len[l] -> Nodes], p \in 0 .. len[l] :
         /\ Chain(l, s) /\ (iterOf = l => Walk(l, s))
         /\ Between(l, IF p = 0 THEN Null ELSE s[p], n,
                       IF p = len[l] THEN Null ELSE s[p + 1], v)
  BY DEF Enters
<1>2. \A k \in Names \ {l} : Alone(k)
  BY <1>1, BetweenMoves
<1>3. PICK t \in [1 .. len[l] + 1 -> Nodes] : With(t, s, len[l], p, n) /\ Chain(l, t)'
  BY <1>1, BetweenMoves
<1>4. PICK N \in Nat : N = len[l] /\ p \in 0 .. N
  BY <1>1 DEF LInv, TypeOK
<1>5. len'[l] = N + 1 /\ owner[n] = Null /\ value'[n] = v
      /\ \A m \in Nodes \ {n} : value'[m] = value[m]
  BY <1>1, <1>4 DEF LInv, TypeOK, Between
<1>6. \A i \in 1 .. N : s[i] \in Nodes /\ s[i] # n
  <2>1. \A i \in 1 .. N : s[i] \in Nodes
    BY <1>1, <1>4
  <2>2. \A i \in 1 .. N : owner[s[i]] = l
    BY <1>1, <1>4, <2>1 DEF Chain
  <2> QED
    BY <1>5, <2>1, <2>2
<1>7. PICK S : S = Data \cup {Content[value[m]] : m \in Nodes}
  OBVIOUS
<1>8. PICK q \in Seq(S) : /\ q = Items(l) /\ Len(q) = N
                          /\ \A i \in 1 .. N : q[i] = Content[value[s[i]]]
  <2>1. TypeOK /\ Data \subseteq S /\ \A m \in Nodes : Content[value[m]] \in S
    BY <1>7 DEF LInv
  <2>2. /\ Items(l) \in Seq(S) /\ Len(Items(l)) = len[l]
        /\ \A i \in 1 .. len[l] : Items(l)[i] = Content[value[s[i]]]
    BY <1>1, <2>1, ShownIs
  <2> QED
    BY <1>4, <2>2
<1>9. PICK d \in Data : d = Content[v]
  OBVIOUS
<1>10. Items(l)' = [j \in 1 .. N + 1 |->
                      IF j < p + 1 THEN q[j] ELSE IF j = p + 1 THEN d ELSE q[j - 1]]
  <2>1. Items(l)' = [j \in 1 .. N + 1 |-> Content[value'[t[j]]]]
    <3>1. t \in [1 .. len'[l] -> Nodes] /\ Chain(l, t)' /\ l \in live'
      BY <1>3, <1>4, <1>5
    <3>2. Items(l)' = [j \in 1 .. len'[l] |-> Content[value'[t[j]]]]
      BY <3>1, ItemsBecome DEF ItemsFact
    <3> QED
      BY <1>5, <3>2
  <2>2. ASSUME NEW j \in 1 .. N + 1
        PROVE  Content[value'[t[j]]] =
                 IF j < p + 1 THEN q[j] ELSE IF j = p + 1 THEN d ELSE q[j - 1]
    <3>1. t[j] = IF j <= p THEN s[j] ELSE IF j = p + 1 THEN n ELSE s[j - 1]
      BY <1>3, <1>4 DEF With
    <3>2. CASE j <= p
      <4>1. j \in 1 .. N /\ j < p + 1
        BY <1>4, <3>2
      <4> QED
        BY <1>5, <1>6, <1>8, <3>1, <3>2, <4>1
    <3>3. CASE j = p + 1
      <4>1. ~(j <= p) /\ ~(j < p + 1)
        BY <1>4, <3>3
      <4> QED
        BY <1>5, <1>9, <3>1, <3>3, <4>1
    <3>4. CASE j > p + 1
      <4>1. j - 1 \in 1 .. N /\ ~(j <= p) /\ ~(j < p + 1) /\ j # p + 1
        BY <1>4, <3>4
      <4> QED
        BY <1>5, <1>6, <1>8, <3>1, <4>1
    <3> QED
      BY <1>4, <3>2, <3>3, <3>4
  <2> QED
    BY <2>1, <2>2
<1>11. PICK i \in 1 .. Len(q) + 1 : i = p + 1
  BY <1>4, <1>8
<1>12. Items(l)' = SeqPut(q, i, d) /\ d \in S
  BY <1>7, <1>8, <1>10, <1>11 DEF SeqPut
<1>13. \A k \in Names \ {l} : Items(k)' = Items(k)
  BY <1>2, AloneShows
<1> QED
  BY <1>8, <1>12, <1>13, PutShown

LEMMA DelRemoves ==
    ASSUME LInv, TypeOK', NEW l \in Names, NEW n \in Nodes, DelNode(l, n)
    PROVE  Abstract!Next
<1> USE AdListAssumption
<1>1. PICK s \in [1 .. len[l] -> Nodes] : Chain(l, s) /\ (iterOf = l => Walk(l, s))
  BY DEF LInv, Kept
<1>2. PICK p \in 1 .. len[l] : s[p] = n
  BY <1>1 DEF DelNode, Chain
<1>3. \A k \in Names \ {l} : Alone(k)
  BY <1>1, <1>2, DelMoves
<1>4. PICK t \in [1 .. len[l] - 1 -> Nodes] : Without(t, s, len[l], p) /\ Chain(l, t)'
  BY <1>1, <1>2, DelMoves
<1>5. PICK N \in Nat : N = len[l] /\ p \in 1 .. N
  BY <1>2 DEF LInv, TypeOK
<1>6. /\ len'[l] = N - 1 /\ l \in live /\ live' = live
      /\ \A m \in Nodes \ {n} : value'[m] = value[m]
  BY <1>5 DEF LInv, TypeOK, DelNode, Call
<1>7. \A j \in 1 .. N : s[j] \in Nodes /\ (j # p => s[j] # n)
  BY <1>1, <1>2, <1>5 DEF Chain
<1>8. PICK S : S = Data \cup {Content[value[m]] : m \in Nodes}
  OBVIOUS
<1>9. PICK q \in Seq(S) : /\ q = Items(l) /\ Len(q) = N
                          /\ \A i \in 1 .. N : q[i] = Content[value[s[i]]]
  <2>1. TypeOK /\ Data \subseteq S /\ \A m \in Nodes : Content[value[m]] \in S
    BY <1>8 DEF LInv
  <2>2. /\ Items(l) \in Seq(S) /\ Len(Items(l)) = len[l]
        /\ \A i \in 1 .. len[l] : Items(l)[i] = Content[value[s[i]]]
    BY <1>1, <1>6, <2>1, ShownIs
  <2> QED
    BY <1>5, <2>2
<1>10. Items(l)' = [j \in 1 .. N - 1 |-> IF j < p THEN q[j] ELSE q[j + 1]]
  <2>1. Items(l)' = [j \in 1 .. N - 1 |-> Content[value'[t[j]]]]
    <3>1. t \in [1 .. len'[l] -> Nodes] /\ Chain(l, t)' /\ l \in live'
      BY <1>4, <1>5, <1>6
    <3>2. Items(l)' = [j \in 1 .. len'[l] |-> Content[value'[t[j]]]]
      BY <3>1, ItemsBecome DEF ItemsFact
    <3> QED
      BY <1>6, <3>2
  <2>2. ASSUME NEW j \in 1 .. N - 1
        PROVE  Content[value'[t[j]]] = IF j < p THEN q[j] ELSE q[j + 1]
    <3>1. t[j] = IF j < p THEN s[j] ELSE s[j + 1]
      BY <1>4, <1>5 DEF Without
    <3>2. j \in 1 .. N /\ j + 1 \in 1 .. N /\ (j < p => j # p) /\ (~(j < p) => j + 1 # p)
      BY <1>5
    <3> QED
      BY <1>6, <1>7, <1>9, <3>1, <3>2
  <2> QED
    BY <2>1, <2>2
<1>11. PICK i \in 1 .. Len(q) : i = p
  BY <1>5, <1>9
<1>12. Items(l)' = SeqRemove(q, i)
  BY <1>9, <1>10, <1>11 DEF SeqRemove
<1>13. \A k \in Names \ {l} : Items(k)' = Items(k)
  BY <1>3, <1>6, AloneShows
<1> QED
  BY <1>6, <1>9, <1>12, <1>13, RemoveShown

LEMMA RotateRotates ==
    ASSUME LInv, TypeOK', NEW l \in Names, Rotate(l)
    PROVE  Abstract!Next
<1> USE AdListAssumption
<1>1. PICK s \in [1 .. len[l] -> Nodes] : Chain(l, s)
  BY DEF LInv, Kept
<1>2. \A k \in Names \ {l} : Alone(k)
  BY <1>1, RotateMoves
<1>3. PICK t \in [1 .. len[l] -> Nodes] : Turned(t, s, len[l]) /\ Chain(l, t)'
  BY <1>1, RotateMoves
<1>4. PICK N \in Nat : N = len[l] /\ N > 1
  BY DEF LInv, TypeOK, Rotate
<1>5. len' = len /\ l \in live /\ live' = live /\ value' = value
  BY DEF Rotate, Call
<1>6. PICK S : S = Data \cup {Content[value[m]] : m \in Nodes}
  OBVIOUS
<1>7. PICK q \in Seq(S) : /\ q = Items(l) /\ Len(q) = N
                          /\ \A i \in 1 .. N : q[i] = Content[value[s[i]]]
  <2>1. TypeOK /\ Data \subseteq S /\ \A m \in Nodes : Content[value[m]] \in S
    BY <1>6 DEF LInv
  <2>2. /\ Items(l) \in Seq(S) /\ Len(Items(l)) = len[l]
        /\ \A i \in 1 .. len[l] : Items(l)[i] = Content[value[s[i]]]
    BY <1>1, <1>5, <2>1, ShownIs
  <2> QED
    BY <1>4, <2>2
<1>8. Items(l)' = [j \in 1 .. N |-> IF j = 1 THEN q[N] ELSE q[j - 1]]
  <2>1. Items(l)' = [j \in 1 .. N |-> Content[value'[t[j]]]]
    <3>1. t \in [1 .. len'[l] -> Nodes] /\ Chain(l, t)' /\ l \in live'
      BY <1>3, <1>5
    <3>2. Items(l)' = [j \in 1 .. len'[l] |-> Content[value'[t[j]]]]
      BY <3>1, ItemsBecome DEF ItemsFact
    <3> QED
      BY <1>4, <1>5, <3>2
  <2>2. ASSUME NEW j \in 1 .. N
        PROVE  Content[value'[t[j]]] = IF j = 1 THEN q[N] ELSE q[j - 1]
    <3>1. t[j] = IF j = 1 THEN s[N] ELSE s[j - 1]
      BY <1>3, <1>4 DEF Turned
    <3>2. N \in 1 .. N /\ (j # 1 => j - 1 \in 1 .. N)
      BY <1>4
    <3> QED
      BY <1>5, <1>7, <3>1, <3>2
  <2> QED
    BY <2>1, <2>2
<1>9. Items(l)' = SeqRotate(q) /\ q # <<>>
  BY <1>4, <1>7, <1>8 DEF SeqRotate
<1>10. \A k \in Names \ {l} : Items(k)' = Items(k)
  BY <1>2, <1>5, AloneShows
<1> QED
  BY <1>5, <1>7, <1>9, <1>10, RotateShown

LEMMA CreateCreates ==
    ASSUME DInv, TypeOK', NEW l \in Names, Create(l)
    PROVE  Abstract!Next
<1> USE AdListAssumption
<1>1. copy = Null /\ l \notin live /\ live' = live \cup {l} /\ UNCHANGED links
  BY DEF Create
<1>2. len'[l] = 0
  BY <1>1 DEF DInv, Unborn, links
<1>3. Items(l) = <<>>
  BY <1>1, ItemsAre DEF ItemsFact, DInv, LInv
<1>4. Items(l)' = <<>>
  <2>1. PICK s \in [1 .. len[l] -> Nodes] : Chain(l, s)
    BY DEF DInv, LInv, Kept
  <2>2. len' = len /\ Chain(l, s)'
    BY <1>1, <2>1, AloneSame, ChainSame DEF links
  <2>3. Items(l)' = [i \in 1 .. len'[l] |-> Content[value'[s[i]]]]
    BY <1>1, <2>2, ItemsBecome DEF ItemsFact
  <2> QED
    BY <1>2, <2>3
<1>5. \A k \in Names \ {l} : Items(k)' = Items(k)
  BY <1>1, AloneSame, AloneShows DEF DInv
<1>6. Shown' = Shown
  BY <1>3, <1>4, <1>5 DEF Shown
<1>7. Abstract!Create(l)
  BY <1>1, <1>6 DEF Shown, Abstract!Create
<1> QED
  BY <1>7 DEF Abstract!Next

LEMMA ReleaseReleases ==
    ASSUME DInv, TypeOK', NEW l \in Names, Release(l)
    PROVE  Abstract!Next
<1>1. l \in live /\ live' = live \ {l} /\ Freed(l) /\ LInv
  BY DEF Release, Call, DInv
<1>2. Items(l)' = <<>>
  BY <1>1, ItemsBecome DEF ItemsFact
<1>3. \A k \in Names \ {l} : Items(k)' = Items(k)
  BY <1>1, FreedMoves, AloneShows
<1>4. Shown' = [Shown EXCEPT ![l] = <<>>]
  BY <1>2, <1>3, OneChanges
<1>5. Abstract!Release(l)
  BY <1>1, <1>4 DEF Shown, Abstract!Release
<1> QED
  BY <1>5 DEF Abstract!Next

\* Only here is the copy seen, and it is complete.
LEMMA DupDuplicates ==
    ASSUME DInv, TypeOK', DupEnds
    PROVE  Abstract!Next
<1> USE AdListAssumption
<1>1. PICK o \in Names, c \in Names :
         o = orig /\ c = copy /\ o \in live /\ c \notin live
  BY DEF DInv, LInv, Copying, TypeOK, OrNull, DupEnds
<1>2. PICK M \in Nat, N \in Nat : M = len[c] /\ N = len[o]
  BY <1>1 DEF DInv, LInv, TypeOK
<1>3. PICK s \in [1 .. N -> Nodes], u \in [1 .. M -> Nodes] :
         /\ Chain(o, s) /\ Chain(c, u)
         /\ M <= N
         /\ dupNext = IF M = N THEN Null ELSE s[M + 1]
         /\ \A i \in 1 .. M : Content[value[u[i]]] = Content[value[s[i]]]
  <2>1. CopiedAs(o, c, dupNext)
    BY <1>1 DEF DInv, Copied, DupEnds
  <2> QED
    BY <1>2, <2>1 DEF CopiedAs
<1>4. M = N
  <2>1. M # N => M + 1 \in 1 .. N
    BY <1>3
  <2> QED
    BY <1>3, <2>1 DEF DupEnds
<1>5. live' = live \cup {c} /\ UNCHANGED links
  BY <1>1 DEF DupEnds
<1>6. Items(o) = [i \in 1 .. N |-> Content[value[s[i]]]]
  BY <1>1, <1>2, <1>3, ItemsAre DEF ItemsFact, DInv, LInv
<1>7. Items(c)' = [i \in 1 .. M |-> Content[value[u[i]]]]
  <2>1. Chain(c, u)' /\ len' = len /\ value' = value
    BY <1>2, <1>3, <1>5, AloneSame, ChainSame DEF links
  <2>2. u \in [1 .. len'[c] -> Nodes] /\ c \in live'
    BY <1>2, <1>5, <2>1
  <2>3. Items(c)' = [i \in 1 .. len'[c] |-> Content[value'[u[i]]]]
    BY <2>1, <2>2, ItemsBecome DEF ItemsFact
  <2> QED
    BY <1>2, <2>1, <2>3
<1>8. Items(c)' = Items(o)
  BY <1>3, <1>4, <1>6, <1>7
<1>9. \A k \in Names \ {c} : Items(k)' = Items(k)
  BY <1>5, AloneSame, AloneShows DEF DInv
<1>10. Shown' = [Shown EXCEPT ![c] = Items(o)]
  BY <1>8, <1>9, OneChanges
<1>11. Abstract!Duplicate(o, c)
  BY <1>1, <1>5, <1>10 DEF Shown, Abstract!Duplicate
<1> QED
  BY <1>11 DEF Abstract!Next

\* What happens to a list that the application does not have is not seen.
LEMMA NotSeen ==
    ASSUME LInv, TypeOK', live' = live, \A k \in live : Alone(k)
    PROVE  UNCHANGED Abstract!vars
<1>1. ASSUME NEW k \in Names PROVE Items(k)' = Items(k)
  <2>1. CASE k \in live
    BY <2>1, AloneShows
  <2>2. CASE k \notin live
    BY <2>2, ItemsAre, ItemsBecome DEF ItemsFact, LInv
  <2> QED
    BY <2>1, <2>2
<1>2. Shown' = Shown
  BY <1>1 DEF Shown
<1> QED
  BY <1>2 DEF Shown, Abstract!vars

LEMMA ListsInit == Init => Abstract!Init
<1> SUFFICES ASSUME Init PROVE Abstract!Init
  OBVIOUS
<1>1. \A l \in Names : Items(l) = <<>>
  BY InvInit, ItemsAre DEF ItemsFact, LInv, Init
<1> QED
  BY <1>1 DEF Init, Abstract!Init

LEMMA ListsStep == DInv /\ [Next]_vars => [Abstract!Next]_(Abstract!vars)
<1> SUFFICES ASSUME DInv, [Next]_vars PROVE Abstract!Next \/ UNCHANGED Abstract!vars
  OBVIOUS
<1>0. LInv /\ TypeOK'
  BY TypeStep DEF DInv
<1>1. ASSUME UNCHANGED <<live, links>> PROVE UNCHANGED Abstract!vars
  <2>1. \A k \in live : Alone(k)
    BY <1>0, <1>1, AloneSame DEF LInv, TypeOK
  <2> QED
    BY <1>0, <1>1, <2>1, NotSeen
<1>2. ASSUME NEW l \in Names, Create(l) PROVE Abstract!Next
  BY <1>0, <1>2, CreateCreates
<1>3. ASSUME NEW l \in Names, Release(l) PROVE Abstract!Next
  BY <1>0, <1>3, ReleaseReleases
<1>4. ASSUME NEW l \in Names, Rotate(l) PROVE Abstract!Next
  BY <1>0, <1>4, RotateRotates
<1>5. ASSUME NEW l \in Names, NEW n \in Nodes, NEW v \in Objects, AddNodeHead(l, n, v)
      PROVE  Abstract!Next
  BY <1>0, <1>5, HeadEnters, EntersPuts DEF AddNodeHead, Call
<1>6. ASSUME NEW l \in Names, NEW n \in Nodes, NEW v \in Objects, AddNodeTail(l, n, v)
      PROVE  Abstract!Next
  BY <1>0, <1>6, TailEnters, EntersPuts DEF AddNodeTail, Call
<1>7. ASSUME NEW l \in Names, NEW n \in Nodes, NEW v \in Objects,
             NEW old \in Nodes, NEW after \in BOOLEAN, InsertNode(l, old, n, v, after)
      PROVE  Abstract!Next
  BY <1>0, <1>7, InsertEnters, EntersPuts DEF InsertNode, Call
<1>8. ASSUME NEW l \in Names, NEW n \in Nodes, DelNode(l, n) PROVE Abstract!Next
  BY <1>0, <1>8, DelRemoves
<1>9. ASSUME NEW l \in Names, NEW d \in Ends, GetIterator(l, d) PROVE UNCHANGED Abstract!vars
  BY <1>1, <1>9 DEF GetIterator
<1>10. ASSUME ListNext \/ ReleaseIterator PROVE UNCHANGED Abstract!vars
  BY <1>1, <1>10 DEF ListNext, ReleaseIterator
<1>11. ASSUME NEW l \in Names, NEW c \in Names, DupStart(l, c) PROVE UNCHANGED Abstract!vars
  BY <1>1, <1>11 DEF DupStart
<1>12. ASSUME NEW n \in Nodes, DupNode(n) PROVE UNCHANGED Abstract!vars
  <2>1. live' = live /\ copy \notin live /\ live \subseteq Names
    BY <1>0, <1>12, AdListAssumption DEF DupNode, LInv, TypeOK, OrNull
  <2> QED
    BY <1>0, <1>12, <2>1, CopyGrows, NotSeen
<1>13. ASSUME DupFails PROVE UNCHANGED Abstract!vars
  <2>1. PICK c \in Names : c = copy /\ Freed(c)
    BY <1>0, <1>13 DEF DupFails, LInv, TypeOK, OrNull
  <2>2. live' = live /\ c \notin live /\ live \subseteq Names
    BY <1>0, <1>13, <2>1, AdListAssumption DEF DupFails, LInv, TypeOK, OrNull
  <2> QED
    BY <1>0, <2>1, <2>2, FreedMoves, NotSeen
<1>14. ASSUME DupEnds PROVE Abstract!Next
  BY <1>0, <1>14, DupDuplicates
<1>15. ASSUME UNCHANGED vars PROVE UNCHANGED Abstract!vars
  BY <1>1, <1>15 DEF vars
<1> QED
  BY <1>2, <1>3, <1>4, <1>5, <1>6, <1>7, <1>8, <1>9, <1>10, <1>11, <1>12, <1>13, <1>14, <1>15
     DEF Next

\* The lists implement sequences.  Of listDup that says: "The original list
\* both on success or error is never modified" (adlist.c:244), and the copy is
\* there as a whole or not at all.
THEOREM ListsImplemented == Spec => ListsSpec
BY ListsInit, ListsStep, DInvariance, PTL DEF Spec, ListsSpec, Abstract!Spec
==============================================================================
