--------------------------- MODULE ZmallocProofs ---------------------------
(***************************************************************************)
(* Proofs about Zmalloc, for any finite sets of threads and blocks and any *)
(* sizes that fit the memory.                                              *)
(*                                                                         *)
(* Balanced is about sums over blocks and over threads, whose definition   *)
(* recurs.  What is needed of sums is proved first: a function that is     *)
(* additive over the subsets of a finite set exists, and is the sum,       *)
(* because of the subsets that contradict it one would have to be smallest.*)
(***************************************************************************)
EXTENDS Zmalloc, FiniteSetTheorems, TLAPS

-----------------------------------------------------------------------------
(* Sums.                                                                   *)

\* Of some subsets of a finite set, one has none of the others in it.
LEMMA SmallestSubset ==
    ASSUME NEW S, IsFiniteSet(S), NEW B \in SUBSET SUBSET S, B # {}
    PROVE  \E s \in B : \A r \in B : r \subseteq s => r = s
<1>1. IsWellFoundedOn(StrictSubsetOrdering(S), SUBSET S)
  BY FS_StrictSubsetOrderingWellFounded, FS_FiniteSubsetsOfFinite
<1>2. PICK s \in B : \A r \in B : <<r, s>> \notin StrictSubsetOrdering(S)
  BY <1>1, WFMin
<1>3. ASSUME NEW r \in B, r \subseteq s, r # s PROVE FALSE
  BY <1>2, <1>3 DEF StrictSubsetOrdering
<1> QED
  BY <1>3

\* g[s] is the sum of f over s, for the subsets of S.
Additive(g, f, S) ==
    /\ g \in [SUBSET S -> Int]
    /\ g[{}] = 0
    /\ \A s \in SUBSET S : \A x \in s : g[s] = f[x] + g[s \ {x}]

\* There is one: else it would be missing for some smallest subset.
LEMMA AdditiveExists ==
    ASSUME NEW S, IsFiniteSet(S), NEW f, \A x \in S : f[x] \in Int
    PROVE  \E g : Additive(g, f, S)
<1> DEFINE Bad == {T \in SUBSET S : ~ \E g : Additive(g, f, T)}
<1>1. Bad \in SUBSET SUBSET S
  OBVIOUS
<1>2. SUFFICES ASSUME Bad # {} PROVE FALSE
  BY <1>1
<1>3. PICK T \in Bad : \A r \in Bad : r \subseteq T => r = T
  <2> HIDE DEF Bad
  <2> QED
    BY <1>1, <1>2, SmallestSubset
<1>4. T # {}
  <2>1. Additive([s \in SUBSET {} |-> 0], f, {})
    BY DEF Additive
  <2> QED
    BY <1>3, <2>1
<1>5. PICK y \in T : TRUE
  BY <1>4
<1>6. PICK g : Additive(g, f, T \ {y})
  BY <1>3, <1>5
<1> DEFINE h == [s \in SUBSET T |-> IF y \in s THEN f[y] + g[s \ {y}] ELSE g[s]]
<1>7. \A s \in SUBSET T : s \ {y} \in SUBSET (T \ {y}) /\ (y \notin s => s \in SUBSET (T \ {y}))
  OBVIOUS
<1>8. h \in [SUBSET T -> Int]
  <2>1. f[y] \in Int
    BY <1>3, <1>5
  <2> QED
    BY <1>6, <1>7, <2>1 DEF Additive
<1>9. ASSUME NEW s \in SUBSET T, NEW x \in s PROVE h[s] = f[x] + h[s \ {x}]
  <2>0. s \ {x} \in SUBSET T
    OBVIOUS
  <2>1. CASE y \notin s
    BY <1>6, <1>7, <2>0, <2>1 DEF Additive
  <2>2. CASE y \in s /\ x = y
    BY <2>0, <2>2
  <2>3. CASE y \in s /\ x # y
    <3>1. (s \ {y}) \ {x} = (s \ {x}) \ {y} /\ x \in s \ {y}
      BY <2>3
    <3>2. g[s \ {y}] = f[x] + g[(s \ {x}) \ {y}]
      <4>1. \A r \in SUBSET (T \ {y}) : \A z \in r : g[r] = f[z] + g[r \ {z}]
        BY <1>6 DEF Additive
      <4> HIDE DEF h
      <4>2. s \ {y} \in SUBSET (T \ {y})
        OBVIOUS
      <4>3. g[s \ {y}] = f[x] + g[(s \ {y}) \ {x}]
        BY <3>1, <4>1, <4>2, Zenon
      <4> QED
        BY <3>1, <4>3
    <3>3. h[s] = f[y] + g[s \ {y}] /\ h[s \ {x}] = f[y] + g[(s \ {x}) \ {y}]
      BY <2>0, <2>3
    <3>4. f[x] \in Int /\ f[y] \in Int /\ g[(s \ {x}) \ {y}] \in Int
      BY <1>3, <1>6, <1>7, <2>0 DEF Additive
    <3> QED
      BY <3>2, <3>3, <3>4
  <2> QED
    BY <2>1, <2>2, <2>3
<1>10. h[{}] = 0
  BY <1>6 DEF Additive
<1>11. Additive(h, f, T)
  BY <1>8, <1>9, <1>10 DEF Additive
<1> QED
  BY <1>3, <1>11

\* It is what SumFunctionOnSet says.
LEMMA SumIs ==
    ASSUME NEW S, IsFiniteSet(S), NEW f, NEW g, Additive(g, f, S),
           NEW T \in SUBSET S
    PROVE  SumFunctionOnSet(f, T) = g[T]
<1> DEFINE It(i) ==
             i = [s \in SUBSET T |->
                    IF s = {} THEN 0
                    ELSE f[CHOOSE x \in s : TRUE] + i[s \ {CHOOSE x \in s : TRUE}]]
<1>1. \E i : SumFunctionOnSet(f, T) = i[T] /\ i = CHOOSE j : It(j)
  BY DEF SumFunctionOnSet, FoldFunctionOnSet, MapThenFoldSet
<1>2. PICK i : SumFunctionOnSet(f, T) = i[T] /\ i = CHOOSE j : It(j)
  BY <1>1
<1>3. It([s \in SUBSET T |-> g[s]])
  <2> DEFINE h == [s \in SUBSET T |-> g[s]]
  <2>1. ASSUME NEW s \in SUBSET T, s # {}
        PROVE  h[s] = f[CHOOSE x \in s : TRUE] + h[s \ {CHOOSE x \in s : TRUE}]
    <3>1. (CHOOSE x \in s : TRUE) \in s
      BY <2>1
    <3> QED
      BY <3>1 DEF Additive
  <2>2. h[{}] = 0
    BY DEF Additive
  <2> QED
    BY <2>1, <2>2
<1>4. It(i)
  <2> HIDE DEF It
  <2> QED
    BY <1>2, <1>3
<1> DEFINE Bad == {s \in SUBSET T : i[s] # g[s]}
<1>5. IsFiniteSet(T)
  BY FS_Subset
<1>6. SUFFICES ASSUME Bad # {} PROVE FALSE
  BY <1>2
<1>7. PICK s \in Bad : \A r \in Bad : r \subseteq s => r = s
  <2>1. Bad \in SUBSET SUBSET T
    OBVIOUS
  <2> HIDE DEF Bad
  <2> QED
    BY <1>5, <1>6, <2>1, SmallestSubset
<1>8. s # {}
  BY <1>4, <1>7 DEF Additive
<1> DEFINE y == CHOOSE x \in s : TRUE
<1>9. y \in s
  BY <1>8
<1>10. i[s \ {y}] = g[s \ {y}]
  BY <1>7, <1>9
<1>11. i[s] = f[y] + i[s \ {y}]
  BY <1>4, <1>7, <1>8
<1>12. g[s] = f[y] + g[s \ {y}]
  BY <1>7, <1>9 DEF Additive
<1> QED
  BY <1>7, <1>10, <1>11, <1>12

LEMMA SumEmpty == ASSUME NEW f PROVE SumFunctionOnSet(f, {}) = 0
<1>1. IsFiniteSet({})
  BY FS_EmptySet
<1>2. PICK g : Additive(g, f, {})
  BY <1>1, AdditiveExists
<1>3. {} \in SUBSET {} /\ g[{}] = 0
  BY <1>2 DEF Additive
<1>4. SumFunctionOnSet(f, {}) = g[{}]
  BY <1>1, <1>2, <1>3, SumIs
<1> QED
  BY <1>3, <1>4

\* What is summed can be taken out one by one, in any order.
LEMMA SumRemove ==
    ASSUME NEW S, IsFiniteSet(S), NEW f, \A x \in S : f[x] \in Int
    PROVE  /\ SumFunctionOnSet(f, S) \in Int
           /\ \A x \in S : SumFunctionOnSet(f, S) = f[x] + SumFunctionOnSet(f, S \ {x})
<1>1. PICK g : Additive(g, f, S)
  BY AdditiveExists
<1>2. \A T \in SUBSET S : SumFunctionOnSet(f, T) = g[T]
  BY <1>1, SumIs
<1> QED
  BY <1>1, <1>2 DEF Additive

\* Functions that agree have the same sum.
LEMMA SumSame ==
    ASSUME NEW S, IsFiniteSet(S), NEW f, NEW h, \A x \in S : f[x] \in Int /\ f[x] = h[x]
    PROVE  SumFunctionOnSet(f, S) = SumFunctionOnSet(h, S)
<1>1. PICK g : Additive(g, f, S)
  BY AdditiveExists
<1>2. Additive(g, h, S)
  BY <1>1 DEF Additive
<1> QED
  BY <1>1, <1>2, SumIs

LEMMA SumZero ==
    ASSUME NEW S, IsFiniteSet(S), NEW f, \A x \in S : f[x] = 0
    PROVE  SumFunctionOnSet(f, S) = 0
<1>1. Additive([s \in SUBSET S |-> 0], f, S)
  BY DEF Additive
<1> QED
  BY <1>1, SumIs

LEMMA SumMonotonic ==
    ASSUME NEW S, IsFiniteSet(S), NEW f, NEW h,
           \A x \in S : f[x] \in Int /\ h[x] \in Int /\ f[x] <= h[x]
    PROVE  SumFunctionOnSet(f, S) <= SumFunctionOnSet(h, S)
<1> DEFINE Bad == {T \in SUBSET S : ~ SumFunctionOnSet(f, T) <= SumFunctionOnSet(h, T)}
<1>1. SUFFICES ASSUME Bad # {} PROVE FALSE
  OBVIOUS
<1>2. PICK T \in Bad : \A r \in Bad : r \subseteq T => r = T
  <2>1. Bad \in SUBSET SUBSET S
    OBVIOUS
  <2> HIDE DEF Bad
  <2> QED
    BY <1>1, <2>1, SmallestSubset
<1>3. IsFiniteSet(T) /\ T \in SUBSET S
  BY <1>2, FS_Subset
<1>4. T # {}
  <2>1. SumFunctionOnSet(f, {}) = 0 /\ SumFunctionOnSet(h, {}) = 0
    BY SumEmpty
  <2>2. SumFunctionOnSet(f, {}) <= SumFunctionOnSet(h, {})
    BY <2>1
  <2> QED
    BY <1>2, <2>2
<1>5. PICK y \in T : TRUE
  BY <1>4
<1>6. SumFunctionOnSet(f, T \ {y}) <= SumFunctionOnSet(h, T \ {y})
  BY <1>2, <1>3, <1>5
<1>7. IsFiniteSet(T \ {y})
  BY <1>3, FS_Subset
<1>8. /\ SumFunctionOnSet(f, T) = f[y] + SumFunctionOnSet(f, T \ {y})
      /\ SumFunctionOnSet(h, T) = h[y] + SumFunctionOnSet(h, T \ {y})
      /\ SumFunctionOnSet(f, T \ {y}) \in Int /\ SumFunctionOnSet(h, T \ {y}) \in Int
      /\ f[y] \in Int /\ h[y] \in Int /\ f[y] <= h[y]
  BY <1>3, <1>5, <1>7, SumRemove
<1>9. SumFunctionOnSet(f, T) <= SumFunctionOnSet(h, T)
  <2> DEFINE a == SumFunctionOnSet(f, T \ {y})
             c == SumFunctionOnSet(h, T \ {y})
  <2> HIDE DEF a, c
  <2>1. a \in Int /\ c \in Int /\ a <= c
    BY <1>6, <1>8 DEF a, c
  <2>2. f[y] + a <= h[y] + c
    BY <1>8, <2>1
  <2> QED
    BY <1>8, <2>2 DEF a, c
<1> QED
  BY <1>2, <1>9

LEMMA SumType ==
    ASSUME NEW S, IsFiniteSet(S), NEW f \in [S -> Int]
    PROVE  SumFunction(f) \in Int
BY SumRemove DEF SumFunction

\* One value changes: so does the sum.
LEMMA SumChange ==
    ASSUME NEW S, IsFiniteSet(S), NEW f \in [S -> Int], NEW x \in S, NEW v \in Int
    PROVE  SumFunction([f EXCEPT ![x] = v]) = SumFunction(f) - f[x] + v
<1> DEFINE h == [f EXCEPT ![x] = v]
           R == S \ {x}
<1>1. IsFiniteSet(R)
  BY FS_Subset
<1>2. SumFunctionOnSet(f, R) = SumFunctionOnSet(h, R)
  <2>1. \A z \in R : f[z] \in Int /\ f[z] = h[z]
    OBVIOUS
  <2> HIDE DEF h, R
  <2> QED
    BY <1>1, <2>1, SumSame
<1>3. /\ SumFunction(f) = f[x] + SumFunctionOnSet(f, R)
      /\ SumFunctionOnSet(f, R) \in Int
  <2>1. \A z \in R : f[z] \in Int
    OBVIOUS
  <2> QED
    BY <1>1, <2>1, SumRemove DEF SumFunction
<1>4. SumFunction(h) = v + SumFunctionOnSet(h, R)
  <2>1. h \in [S -> Int] /\ h[x] = v
    OBVIOUS
  <2> HIDE DEF h
  <2> QED
    BY <2>1, SumRemove DEF SumFunction
<1> QED
  <2> HIDE DEF h, R
  <2>1. f[x] \in Int
    OBVIOUS
  <2>2. SumFunction(h) = SumFunction(f) - f[x] + v
    BY <1>2, <1>3, <1>4, <2>1
  <2> QED
    BY <2>2 DEF h

LEMMA SumOfNone == SumFunction(<<>>) = 0
BY SumEmpty DEF SumFunction

LEMMA SumOfOne == ASSUME NEW x \in Int PROVE SumFunction(<<x>>) = x
<1>1. DOMAIN <<x>> = {1} /\ IsFiniteSet({1}) /\ {1} \ {1} = {}
  BY FS_Singleton
<1>2. SumFunctionOnSet(<<x>>, {1}) = <<x>>[1] + SumFunctionOnSet(<<x>>, {1} \ {1})
  BY <1>1, SumRemove
<1> QED
  BY <1>1, <1>2, SumEmpty DEF SumFunction

LEMMA SumOfTwo == ASSUME NEW x \in Int, NEW y \in Int PROVE SumFunction(<<x, y>>) = x + y
<1> DEFINE s == <<x, y>>
<1>1. DOMAIN s = {1, 2} /\ IsFiniteSet({1, 2}) /\ IsFiniteSet({2})
      /\ {1, 2} \ {1} = {2} /\ {2} \ {2} = {} /\ s[1] = x /\ s[2] = y
  <2>1. IsFiniteSet({2}) /\ IsFiniteSet({1, 2})
    <3>1. IsFiniteSet({1}) /\ IsFiniteSet({2}) /\ {1, 2} = {1} \cup {2}
      BY FS_Singleton
    <3> QED
      BY <3>1, FS_AddElement
  <2> QED
    BY <2>1
<1> HIDE DEF s
<1>2. SumFunctionOnSet(s, {1, 2}) = s[1] + SumFunctionOnSet(s, {2})
  BY <1>1, SumRemove
<1>3. SumFunctionOnSet(s, {2}) = s[2] + SumFunctionOnSet(s, {})
  BY <1>1, SumRemove
<1>4. SumFunction(s) = x + y
  BY <1>1, <1>2, <1>3, SumEmpty DEF SumFunction
<1> QED
  BY <1>4 DEF s

-----------------------------------------------------------------------------
(* Sizes.                                                                  *)

\* Quotient and remainder.
LEMMA DivMod ==
    ASSUME NEW n \in Int, NEW m \in Nat \ {0}
    PROVE  \E q \in Int, r \in 0 .. m - 1 : n = q * m + r /\ r = n % m
<1> DEFINE q == n \div m
           r == n % m
<1>1. r = n - m * q
  OBVIOUS
<1>2. q \in Int /\ r \in 0 .. m - 1
  OBVIOUS
<1>3. r = n % m
  OBVIOUS
<1> HIDE DEF q, r
<1>4. n = q * m + r
  BY <1>1, <1>2
<1> QED
  BY <1>2, <1>3, <1>4, Zenon

LEMMA RemainderUnique ==
    ASSUME NEW m \in Nat \ {0}, NEW p \in Int, NEW q \in Int,
           NEW r \in 0 .. m - 1, NEW s \in 0 .. m - 1, p * m + r = q * m + s
    PROVE  r = s
<1> DEFINE d == p - q
<1>1. d \in Int /\ d * m = s - r
  <2>1. (p - q) * m = p * m - q * m /\ p * m \in Int /\ q * m \in Int
    OBVIOUS
  <2> QED
    BY <2>1
<1> HIDE DEF d
<1>2. (d >= 1 => d * m >= m) /\ (d <= -1 => d * m <= -m)
  BY <1>1
<1>3. d = 0
  BY <1>1, <1>2
<1> QED
  BY <1>1, <1>3

\* Whole multiples of m make no difference to a remainder.
LEMMA ModShift ==
    ASSUME NEW n \in Int, NEW m \in Nat \ {0}, NEW k \in Int
    PROVE  (n + k * m) % m = n % m
<1> DEFINE j == n + k * m
<1>1. j \in Int
  OBVIOUS
<1>2. PICK p \in Int, r \in 0 .. m - 1 : n = p * m + r /\ r = n % m
  BY DivMod, Zenon
<1>3a. PICK q \in Int, s \in 0 .. m - 1 : j = q * m + s /\ s = j % m
  <2> HIDE DEF j
  <2> QED
    BY <1>1, DivMod, Zenon
<1>3. (p + k) * m + r = q * m + s
  <2>1. (p + k) * m = p * m + k * m
    OBVIOUS
  <2> QED
    BY <1>2, <1>3a, <2>1
<1> HIDE DEF j
<1>4. p + k \in Int
  OBVIOUS
<1>5. r = s
  BY <1>3, <1>4, RemainderUnique
<1>6. n % m = j % m
  BY <1>2, <1>3a, <1>5, Zenon
<1> QED
  BY <1>6, Zenon DEF j

LEMMA PaddedFacts ==
    ASSUME NEW n \in Nat
    PROVE  /\ Padded(n) \in Nat
           /\ n % Long = 0 => Padded(n) = n
           /\ Padded(n + Prefix) = Padded(n) + Prefix
<1>1. Long \in Nat \ {0} /\ Prefix \in Nat /\ Prefix % Long = 0
  BY ZmallocAssumption
<1>2. n % Long \in 0 .. Long - 1
  BY <1>1
<1>3. (Long - (n % Long)) % Long \in 0 .. Long - 1
  <2> DEFINE k == Long - (n % Long)
  <2>1. k \in Int
    BY <1>1, <1>2
  <2> HIDE DEF k
  <2>2. k % Long \in 0 .. Long - 1
    BY <1>1, <2>1
  <2> QED
    BY <2>2 DEF k
<1>4. n % Long = 0 => (Long - (n % Long)) % Long = 0
  BY <1>1
<1>5. (n + Prefix) % Long = n % Long
  <2>1. PICK q \in Int, r \in 0 .. Long - 1 : Prefix = q * Long + r /\ r = Prefix % Long
    BY <1>1, DivMod
  <2>2. Prefix = q * Long
    <3>1. r = 0
      BY <1>1, <2>1, Zenon
    <3>2. Prefix = q * Long + 0
      BY <2>1, <3>1, Zenon
    <3>3. q * Long + 0 = q * Long
      BY <1>1
    <3> QED
      BY <3>2, <3>3
  <2>3. (n + q * Long) % Long = n % Long
    <3>1. n \in Int
      OBVIOUS
    <3> QED
      BY <1>1, <3>1, ModShift, Zenon
  <2> QED
    BY <2>2, <2>3, Zenon
<1> QED
  BY <1>1, <1>3, <1>4, <1>5 DEF Padded

\* What is in a block and never part of what zrealloc counts.
Header == IF haveMallocSize THEN 0 ELSE Prefix

\* zmalloc and zfree count what zmalloc_size says; zrealloc all but the header.
LEMMA SizeFacts ==
    ASSUME haveMallocSize \in BOOLEAN, NEW n \in Sizes
    PROVE  /\ n \in Nat \ {0}
           /\ Header \in Nat /\ Part(n) \in Nat /\ ZmallocSize(n) \in Nat
           /\ Whole(n) = ZmallocSize(n)
           /\ Part(n) + Header = ZmallocSize(n)
<1>1. n \in Nat \ {0} /\ Prefix \in Nat /\ Usable[n] \in Nat /\ Usable[n] % Long = 0
  BY ZmallocAssumption
<1>2. Padded(Usable[n]) = Usable[n]
  BY <1>1, PaddedFacts
<1>3. Padded(n) \in Nat /\ Padded(n + Prefix) = Padded(n) + Prefix
  BY <1>1, PaddedFacts
<1> QED
  BY <1>1, <1>2, <1>3 DEF Header, Part, Whole, ZmallocSize, Bytes

LEMMA NoSize == ZmallocSize(0) = 0
BY DEF ZmallocSize, Bytes

LEMMA BlockSizes ==
    ASSUME TypeOK
    PROVE  [b \in Blocks |-> ZmallocSize(size[b])] \in [Blocks -> Nat]
BY SizeFacts, NoSize DEF TypeOK

-----------------------------------------------------------------------------
(* The invariant.                                                          *)

\* What a call may have left to count, of a block that now has size n: all of
\* it, the old and the new of it, the new of it, what it did not get, or what
\* it had.
Owing(d, n) ==
    \/ n # 0 /\ d = <<Whole(n)>>
    \/ n # 0 /\ \E m \in Sizes : d = <<-Part(m), Part(n)>>
    \/ n # 0 /\ d = <<Part(n)>>
    \/ n # 0 /\ (missed # 0 \/ Part(n) = 0) /\ d = <<-Part(n)>>
    \/ n = 0 /\ \E m \in Sizes : d = <<-Whole(m)>>

\* No two calls are about a block; while updates are two steps, no two calls
\* are under way, so that what one has read is what used_memory still is.
Calls ==
    /\ \A t \in Threads : ~Idle(t) => Owing(debt[t], size[ptr[t]])
    /\ \A t, u \in Threads : ~Idle(t) /\ ~Idle(u) /\ (~safe \/ ptr[t] = ptr[u]) => t = u
    /\ \A t \in Threads : loaded[t] # None => ~safe /\ ~Idle(t) /\ loaded[t] = used

\* c[b] is what has been counted for block b.
CountedAs(c) ==
    /\ \A b \in Blocks : (\A t \in Threads : ptr[t] # b) => c[b] = ZmallocSize(size[b])
    /\ \A t \in Threads :
          ~Idle(t) => c[ptr[t]] = ZmallocSize(size[ptr[t]]) - SumFunction(debt[t])
    /\ SumFunction(c) = Total - Debts
    /\ \E k \in Int : used + missed = SumFunction(c) + k * Width

IInv == TypeOK /\ Calls /\ \E c \in [Blocks -> Int] : CountedAs(c)

LEMMA DebtSum == ASSUME NEW s \in Seq(Int) PROVE SumFunction(s) \in Int
<1>1. s \in [1 .. Len(s) -> Int] /\ IsFiniteSet(1 .. Len(s))
  BY FS_Interval
<1> QED
  BY <1>1, SumType

LEMMA DebtsType ==
    ASSUME TypeOK
    PROVE  /\ [t \in Threads |-> SumFunction(debt[t])] \in [Threads -> Int]
           /\ Debts \in Int
           /\ Total \in Int
<1>1. [t \in Threads |-> SumFunction(debt[t])] \in [Threads -> Int]
  BY DebtSum DEF TypeOK
<1>2. [b \in Blocks |-> ZmallocSize(size[b])] \in [Blocks -> Int]
  BY BlockSizes
<1>3. IsFiniteSet(Threads) /\ IsFiniteSet(Blocks)
  BY ZmallocAssumption
<1> QED
  BY <1>1, <1>2, <1>3, SumType DEF Debts, Total

\* One debt changes: so does the sum of them.
LEMMA DebtsChange ==
    ASSUME TypeOK, NEW t \in Threads, NEW s \in Seq(Int), debt' = [debt EXCEPT ![t] = s]
    PROVE  Debts' = Debts - SumFunction(debt[t]) + SumFunction(s)
<1> DEFINE D == [u \in Threads |-> SumFunction(debt[u])]
<1>1. D \in [Threads -> Int] /\ SumFunction(s) \in Int /\ IsFiniteSet(Threads)
  BY DebtsType, DebtSum, ZmallocAssumption
<1>2. [u \in Threads |-> SumFunction(debt'[u])] = [D EXCEPT ![t] = SumFunction(s)]
  BY DEF TypeOK
<1>3. D[t] = SumFunction(debt[t])
  OBVIOUS
<1>4. Debts = SumFunction(D) /\ Debts' = SumFunction([D EXCEPT ![t] = SumFunction(s)])
  BY <1>2 DEF Debts
<1> DEFINE v == SumFunction(s)
<1> HIDE DEF D, v
<1>5. SumFunction([D EXCEPT ![t] = v]) = SumFunction(D) - D[t] + v
  <2>1. v \in Int
    BY <1>1 DEF v
  <2> QED
    BY <1>1, <2>1, SumChange
<1> QED
  BY <1>3, <1>4, <1>5 DEF v

\* One block changes: so does the total.
LEMMA TotalChange ==
    ASSUME TypeOK, NEW b \in Blocks, NEW n \in Sizes \cup {0},
           size' = [size EXCEPT ![b] = n], haveMallocSize' = haveMallocSize
    PROVE  Total' = Total - ZmallocSize(size[b]) + ZmallocSize(n)
<1> DEFINE Z == [a \in Blocks |-> ZmallocSize(size[a])]
<1>1. Z \in [Blocks -> Int] /\ IsFiniteSet(Blocks)
  BY BlockSizes, ZmallocAssumption
<1>2. ZmallocSize(n) \in Int
  BY SizeFacts, NoSize DEF TypeOK
<1>3. [a \in Blocks |-> ZmallocSize(size[a])]' = [Z EXCEPT ![b] = ZmallocSize(n)]
  BY DEF TypeOK, ZmallocSize
<1>4. Z[b] = ZmallocSize(size[b])
  OBVIOUS
<1>5. Total = SumFunction(Z) /\ Total' = SumFunction([Z EXCEPT ![b] = ZmallocSize(n)])
  BY <1>3 DEF Total
<1> HIDE DEF Z
<1>6. SumFunction([Z EXCEPT ![b] = ZmallocSize(n)]) = SumFunction(Z) - Z[b] + ZmallocSize(n)
  BY <1>1, <1>2, SumChange
<1> QED
  BY <1>4, <1>5, <1>6

-----------------------------------------------------------------------------
(* The steps.                                                              *)

LEMMA CountedInit == Init => IInv
<1> SUFFICES ASSUME Init PROVE IInv
  OBVIOUS
<1> USE DEF Init
<1>1. TypeOK
  <2>1. used \in 0 .. Width - 1 /\ missed \in 0 .. MaxMissed
    BY ZmallocAssumption
  <2>2. debt \in [Threads -> Seq(Int)]
    OBVIOUS
  <2>3. \A t \in Threads : Idle(t) <=> ptr[t] = None
    BY DEF Idle
  <2> QED
    BY <2>1, <2>2, <2>3 DEF TypeOK
<1>2. Calls
  BY DEF Calls, Idle
<1> DEFINE c == [b \in Blocks |-> 0]
<1>3. CountedAs(c)
  <2>1. Total = 0
    <3> DEFINE Z == [b \in Blocks |-> ZmallocSize(size[b])]
    <3>1. \A b \in Blocks : Z[b] = 0
      BY NoSize
    <3>2. DOMAIN Z = Blocks /\ Total = SumFunction(Z)
      BY DEF Total
    <3> HIDE DEF Z
    <3> QED
      BY <3>1, <3>2, SumZero, ZmallocAssumption DEF SumFunction
  <2>2. Debts = 0
    <3> DEFINE D == [t \in Threads |-> SumFunction(debt[t])]
    <3>1. \A t \in Threads : D[t] = 0
      BY SumOfNone
    <3>2. DOMAIN D = Threads /\ Debts = SumFunction(D)
      BY DEF Debts
    <3> HIDE DEF D
    <3> QED
      BY <3>1, <3>2, SumZero, ZmallocAssumption DEF SumFunction
  <2>3. SumFunction(c) = 0
    <3>1. DOMAIN c = Blocks /\ \A b \in Blocks : c[b] = 0
      OBVIOUS
    <3> HIDE DEF c
    <3> QED
      BY <3>1, SumZero, ZmallocAssumption DEF SumFunction
  <2>4. \A b \in Blocks : c[b] = ZmallocSize(size[b])
    BY NoSize
  <2> HIDE DEF c
  <2>5. used + missed = SumFunction(c) + 0 * Width
    BY <2>3, ZmallocAssumption
  <2> QED
    BY <2>1, <2>2, <2>3, <2>4, <2>5 DEF CountedAs, Idle
<1> QED
  BY <1>1, <1>2, <1>3 DEF IInv

\* A call that leaves for later just what it has changed of the block's size.
LEMMA CallKeeps ==
    ASSUME IInv, NEW t \in Threads, NEW b \in Blocks, MayCall(t, b),
           NEW n \in Sizes \cup {0}, size' = [size EXCEPT ![b] = n],
           NEW s \in Seq(Int), s # <<>>, Owes(t, b, s), Owing(s, n),
           UNCHANGED <<haveMallocSize, used, safe, loaded, missed>>,
           SumFunction(s) = ZmallocSize(n) - ZmallocSize(size[b])
    PROVE  IInv'
<1> USE DEF IInv, MayCall, Owes
<1>1. \A u \in Threads : loaded[u] = None
  BY DEF Calls
<1>2. \A u \in Threads : ~Idle(u) => u # t /\ ptr[u] \in Blocks /\ ptr[u] # b
  BY DEF TypeOK
<1>3. /\ ~Idle(t)' /\ debt'[t] = s /\ ptr'[t] = b /\ size'[b] = n
      /\ \A u \in Threads : u # t => debt'[u] = debt[u] /\ ptr'[u] = ptr[u]
      /\ \A a \in Blocks : a # b => size'[a] = size[a]
  BY DEF TypeOK, Idle
<1>4. TypeOK'
  BY ZmallocAssumption, <1>3 DEF TypeOK, Idle
<1>5. Calls'
  <2>1. \A u \in Threads : ~Idle(u)' => Owing(debt[u], size[ptr[u]])'
    <3>1. \A m \in Sizes : Whole(m)' = Whole(m) /\ Part(m)' = Part(m)
      BY DEF Whole, Part
    <3>2. \A d : \A m \in Sizes \cup {0} : Owing(d, m)' <=> Owing(d, m)
      BY <3>1 DEF Owing
    <3>3. ASSUME NEW u \in Threads, ~Idle(u)', u # t PROVE Owing(debt'[u], size'[ptr'[u]])
      <4>1. ~Idle(u)
        BY <1>3, <3>3 DEF Idle
      <4> QED
        BY <1>2, <1>3, <3>3, <4>1 DEF Calls
    <3>4. \A u \in Threads : ~Idle(u)' => size'[ptr'[u]] \in Sizes \cup {0}
      <4>1. \A u \in Threads : ~Idle(u)' => ptr'[u] \in Blocks
        BY <1>4 DEF TypeOK
      <4> QED
        BY <1>4, <4>1 DEF TypeOK
    <3>5. \A u \in Threads : ~Idle(u)' => Owing(debt'[u], size'[ptr'[u]])
      BY <1>3, <3>3
    <3> QED
      BY <3>2, <3>4, <3>5
  <2>2. \A u, v \in Threads :
            ~Idle(u)' /\ ~Idle(v)' /\ (~safe' \/ ptr'[u] = ptr'[v]) => u = v
    BY <1>2, <1>3 DEF Calls, Idle
  <2> QED
    BY <1>1, <2>1, <2>2 DEF Calls
<1>6. PICK c \in [Blocks -> Int] : CountedAs(c)
  OBVIOUS
<1>7. c[b] = ZmallocSize(size[b])
  BY <1>6 DEF CountedAs
<1>8. CountedAs(c)'
  <2>0. \A m : ZmallocSize(m)' = ZmallocSize(m)
    BY DEF ZmallocSize
  <2>1. \A a \in Blocks :
            (\A u \in Threads : ptr'[u] # a) => c[a] = ZmallocSize(size'[a])
    <3>1. ASSUME NEW a \in Blocks, \A u \in Threads : ptr'[u] # a
          PROVE  c[a] = ZmallocSize(size'[a])
      <4>1. a # b
        BY <1>3, <3>1
      <4>2. ptr[t] # a
        BY ZmallocAssumption DEF TypeOK
      <4>3. \A u \in Threads : ptr[u] # a
        BY <1>3, <3>1, <4>2
      <4> QED
        BY <1>3, <1>6, <4>1, <4>3 DEF CountedAs
    <3> QED
      BY <3>1
  <2>2. \A u \in Threads : ~Idle(u)' =>
            c[ptr'[u]] = ZmallocSize(size'[ptr'[u]]) - SumFunction(debt'[u])
    <3>1. c[b] = ZmallocSize(n) - SumFunction(s)
      <4>1. ZmallocSize(n) \in Int /\ ZmallocSize(size[b]) \in Int
        BY SizeFacts, NoSize DEF TypeOK
      <4> QED
        BY <1>7, <4>1
    <3> QED
      BY <1>2, <1>3, <1>6, <3>1 DEF CountedAs, Idle
  <2>3. SumFunction(c) = Total' - Debts'
    <3>1. Total' = Total - ZmallocSize(size[b]) + ZmallocSize(n)
      BY TotalChange
    <3>2. Debts' = Debts - SumFunction(debt[t]) + SumFunction(s)
      BY DebtsChange
    <3>3. SumFunction(debt[t]) = 0
      BY SumOfNone DEF Idle
    <3>4. Total \in Int /\ Debts \in Int /\ SumFunction(c) = Total - Debts
      BY <1>6, DebtsType DEF CountedAs
    <3>5. ZmallocSize(n) \in Int /\ ZmallocSize(size[b]) \in Int
      BY SizeFacts, NoSize DEF TypeOK
    <3> QED
      BY <3>1, <3>2, <3>3, <3>4, <3>5
  <2>4. \E k \in Int : used' + missed' = SumFunction(c) + k * Width
    BY <1>6 DEF CountedAs
  <2> QED
    BY <2>0, <2>1, <2>2, <2>3, <2>4 DEF CountedAs
<1> QED
  BY <1>4, <1>5, <1>6, <1>8

LEMMA CallsKeep ==
    ASSUME IInv, NEW t \in Threads, NEW b \in Blocks,
           \/ \E n \in Sizes : Zmalloc(t, b, n) \/ Zrealloc(t, b, n)
           \/ Zfree(t, b)
    PROVE  IInv'
<1>0. haveMallocSize \in BOOLEAN /\ size[b] \in Sizes \cup {0} /\ 0 \notin Sizes
  BY ZmallocAssumption DEF IInv, TypeOK
<1>1. ASSUME NEW n \in Sizes, Zmalloc(t, b, n) PROVE IInv'
  <2>1. n # 0 /\ Whole(n) = ZmallocSize(n) /\ ZmallocSize(n) \in Int
    BY <1>0, SizeFacts
  <2>2. SumFunction(<<Whole(n)>>) = ZmallocSize(n) - ZmallocSize(size[b])
    BY <1>1, <2>1, SumOfOne, NoSize DEF Zmalloc
  <2>3. Owing(<<Whole(n)>>, n) /\ <<Whole(n)>> \in Seq(Int) /\ <<Whole(n)>> # <<>>
    BY <2>1 DEF Owing
  <2> QED
    BY <1>1, <2>2, <2>3, CallKeeps DEF Zmalloc
<1>2. ASSUME NEW n \in Sizes, Zrealloc(t, b, n) PROVE IInv'
  <2> DEFINE m == size[b]
             s == <<-Part(m), Part(n)>>
  <2>1. m \in Sizes
    BY <1>0, <1>2 DEF Zrealloc
  <2>2. /\ n # 0 /\ Part(n) \in Int /\ Part(m) \in Int /\ Header \in Int
        /\ Part(n) + Header = ZmallocSize(n) /\ Part(m) + Header = ZmallocSize(m)
    BY <1>0, <2>1, SizeFacts
  <2>3. SumFunction(s) = ZmallocSize(n) - ZmallocSize(m)
    <3>1. -Part(m) \in Int
      BY <2>2
    <3>2. SumFunction(s) = -Part(m) + Part(n)
      BY <2>2, <3>1, SumOfTwo
    <3> QED
      BY <2>2, <3>2
  <2>4. Owing(s, n) /\ s \in Seq(Int) /\ s # <<>>
    BY <2>1, <2>2 DEF Owing
  <2> QED
    BY <1>2, <2>3, <2>4, CallKeeps DEF Zrealloc
<1>3. ASSUME Zfree(t, b) PROVE IInv'
  <2> DEFINE m == size[b]
             s == <<-Whole(m)>>
  <2>1. m \in Sizes
    BY <1>0, <1>3 DEF Zfree
  <2>2. Whole(m) = ZmallocSize(m) /\ ZmallocSize(m) \in Int
    BY <1>0, <2>1, SizeFacts
  <2>3. SumFunction(s) = ZmallocSize(0) - ZmallocSize(m)
    <3>1. -Whole(m) \in Int
      BY <2>2
    <3>2. SumFunction(s) = -Whole(m)
      BY <3>1, SumOfOne
    <3> QED
      BY <2>2, <3>2, NoSize
  <2>4. Owing(s, 0) /\ s \in Seq(Int) /\ s # <<>>
    BY <2>1, <2>2 DEF Owing
  <2> QED
    BY <1>3, <2>3, <2>4, CallKeeps DEF Zfree
<1> QED
  BY <1>1, <1>2, <1>3

LEMMA CountChange ==
    ASSUME NEW c \in [Blocks -> Int], NEW b \in Blocks, NEW v \in Int
    PROVE  \E e \in [Blocks -> Int] :
               /\ e[b] = v
               /\ \A a \in Blocks : a # b => e[a] = c[a]
               /\ SumFunction(e) = SumFunction(c) - c[b] + v
<1> DEFINE e == [c EXCEPT ![b] = v]
<1>1. e \in [Blocks -> Int] /\ e[b] = v /\ \A a \in Blocks : a # b => e[a] = c[a]
  OBVIOUS
<1>2. IsFiniteSet(Blocks)
  BY ZmallocAssumption
<1>3. SumFunction(e) = SumFunction(c) - c[b] + v
  BY <1>2, SumChange, Zenon
<1> HIDE DEF e
<1> QED
  BY <1>1, <1>3

\* When realloc fails, what is taken off is missed, and the block is the same.
LEMMA ReallocFailsKeeps ==
    ASSUME IInv, NEW t \in Threads, NEW b \in Blocks, ReallocFails(t, b)
    PROVE  IInv'
<1> USE DEF IInv, ReallocFails, MayCall, Owes
<1>0. PICK n \in Sizes, p \in Nat, s \in Seq(Int) :
          /\ n = size[b] /\ n # 0 /\ p = Part(n) /\ s = <<-Part(n)>> /\ s # <<>>
          /\ ZmallocSize(n) \in Int /\ SumFunction(s) = -p
  <2>1. size[b] \in Sizes
    BY DEF TypeOK
  <2>2. Part(size[b]) \in Nat /\ ZmallocSize(size[b]) \in Int /\ -Part(size[b]) \in Int
    BY <2>1, SizeFacts DEF TypeOK
  <2>3. SumFunction(<<-Part(size[b])>>) = -Part(size[b])
    BY <2>2, SumOfOne
  <2>4. <<-Part(size[b])>> \in Seq(Int) /\ <<-Part(size[b])>> # <<>>
    BY <2>2
  <2>5. size[b] # 0
    OBVIOUS
  <2> QED
    BY <2>1, <2>2, <2>3, <2>4, <2>5, Zenon
<1>1. \A u \in Threads : loaded[u] = None
  BY DEF Calls
<1>2. \A u \in Threads : ~Idle(u) => u # t /\ ptr[u] \in Blocks /\ ptr[u] # b
  BY DEF TypeOK
<1>3. /\ ~Idle(t)' /\ debt'[t] = s /\ ptr'[t] = b /\ size' = size
      /\ \A u \in Threads : u # t => debt'[u] = debt[u] /\ ptr'[u] = ptr[u]
  BY <1>0 DEF TypeOK, Idle
<1>3a. missed \in Nat /\ missed' = missed + p /\ missed' \in 0 .. MaxMissed
  BY <1>0, ZmallocAssumption DEF TypeOK
<1>4. TypeOK'
  <2>1. debt' \in [Threads -> Seq(Int)] /\ ptr' \in [Threads -> Blocks \cup {None}]
    BY <1>0 DEF TypeOK
  <2>2. \A u \in Threads : Idle(u)' <=> ptr'[u] = None
    BY <1>3, ZmallocAssumption DEF TypeOK, Idle
  <2> QED
    BY <1>3a, <2>1, <2>2 DEF TypeOK
<1>5. Calls'
  <2>1. \A m \in Sizes : Whole(m)' = Whole(m) /\ Part(m)' = Part(m)
    BY DEF Whole, Part
  <2>2. \A d : \A m \in Sizes \cup {0} : Owing(d, m) => Owing(d, m)'
    BY <1>0, <1>3a, <2>1 DEF Owing
  <2>3. Owing(s, n)'
    <3>1. missed' # 0 \/ p = 0
      BY <1>0, <1>3a
    <3> QED
      BY <1>0, <1>3, <2>1, <3>1 DEF Owing
  <2>4. \A u \in Threads : ~Idle(u)' => Owing(debt[u], size[ptr[u]])'
    <3>1. ASSUME NEW u \in Threads, ~Idle(u)', u # t PROVE Owing(debt[u], size[ptr[u]])'
      <4>1. ~Idle(u)
        BY <1>3, <3>1 DEF Idle
      <4>2. Owing(debt[u], size[ptr[u]]) /\ size[ptr[u]] \in Sizes \cup {0}
        BY <1>2, <4>1 DEF Calls, TypeOK
      <4> QED
        BY <1>3, <2>2, <3>1, <4>2
    <3>2. Owing(debt[t], size[ptr[t]])'
      BY <1>0, <1>3, <2>3, Zenon
    <3> QED
      BY <3>1, <3>2
  <2>5. \A u, v \in Threads :
            ~Idle(u)' /\ ~Idle(v)' /\ (~safe' \/ ptr'[u] = ptr'[v]) => u = v
    BY <1>2, <1>3 DEF Calls, Idle
  <2> QED
    BY <1>1, <2>4, <2>5 DEF Calls
<1>6. PICK c \in [Blocks -> Int] : CountedAs(c)
  OBVIOUS
<1>7. c[b] = ZmallocSize(n) /\ c[b] + p \in Int
  BY <1>0, <1>6 DEF CountedAs
<1>8. PICK e \in [Blocks -> Int] :
          /\ e[b] = c[b] + p
          /\ \A a \in Blocks : a # b => e[a] = c[a]
          /\ SumFunction(e) = SumFunction(c) - c[b] + (c[b] + p)
  BY <1>7, CountChange
<1>9. SumFunction(e) = SumFunction(c) + p
  <2>1. SumFunction(c) \in Int /\ c[b] \in Int
    BY ZmallocAssumption, SumType
  <2> QED
    BY <1>0, <1>8, <2>1
<1>10. CountedAs(e)'
  <2>0. (\A m : ZmallocSize(m)' = ZmallocSize(m)) /\ ZmallocSize(n) = ZmallocSize(size[b])
    BY <1>0 DEF ZmallocSize
  <2>1. ASSUME NEW a \in Blocks, \A u \in Threads : ptr'[u] # a
        PROVE  e[a] = ZmallocSize(size'[a])
    <3>1. a # b
      BY <1>3, <2>1
    <3>2. ptr[t] # a
      BY ZmallocAssumption DEF TypeOK
    <3>3. \A u \in Threads : ptr[u] # a
      BY <1>3, <2>1, <3>2
    <3> QED
      BY <1>3, <1>6, <1>8, <3>1, <3>3 DEF CountedAs
  <2>2. \A u \in Threads : ~Idle(u)' =>
            e[ptr'[u]] = ZmallocSize(size'[ptr'[u]]) - SumFunction(debt'[u])
    <3>1. e[b] = ZmallocSize(size'[b]) - SumFunction(s)
      BY <1>0, <1>3, <1>7, <1>8, <2>0
    <3>2. ASSUME NEW u \in Threads, u # t, ~Idle(u)'
          PROVE  e[ptr[u]] = ZmallocSize(size[ptr[u]]) - SumFunction(debt[u])
      <4>1. ~Idle(u)
        BY <1>3, <3>2 DEF Idle
      <4>2. e[ptr[u]] = c[ptr[u]]
        BY <1>2, <1>8, <4>1
      <4> QED
        BY <1>6, <4>1, <4>2 DEF CountedAs
    <3> QED
      BY <1>3, <3>1, <3>2
  <2>3. SumFunction(e) = Total' - Debts'
    <3>1. Total' = Total
      BY <1>3, <2>0 DEF Total
    <3>2. Debts' = Debts - SumFunction(debt[t]) + SumFunction(s)
      BY <1>0, DebtsChange
    <3>3. SumFunction(debt[t]) = 0
      BY SumOfNone DEF Idle
    <3>4. Total \in Int /\ Debts \in Int /\ SumFunction(c) = Total - Debts
      BY <1>6, DebtsType DEF CountedAs
    <3> QED
      BY <1>0, <1>9, <3>1, <3>2, <3>3, <3>4
  <2>4. \E k \in Int : used' + missed' = SumFunction(e) + k * Width
    <3>1. PICK k \in Int : used + missed = SumFunction(c) + k * Width
      BY <1>6 DEF CountedAs
    <3> DEFINE w == k * Width
    <3>2. used \in Int /\ SumFunction(c) \in Int /\ w \in Int /\ used + missed = SumFunction(c) + w
      BY <3>1, ZmallocAssumption, SumType DEF TypeOK
    <3> HIDE DEF w
    <3>3. used' + missed' = SumFunction(e) + w
      BY <1>0, <1>9, <1>3a, <3>2
    <3> QED
      BY <3>3 DEF w
  <2> QED
    BY <2>0, <2>1, <2>2, <2>3, <2>4 DEF CountedAs
<1> QED
  BY <1>4, <1>5, <1>8, <1>10

\* What is owed, taken one by one.
LEMMA OwingOnce ==
    ASSUME TypeOK, NEW n \in Sizes \cup {0}, NEW d \in Seq(Int), Owing(d, n)
    PROVE  /\ d # <<>> /\ Head(d) \in Int /\ Tail(d) \in Seq(Int)
           /\ Len(d) = 1 <=> Tail(d) = <<>>
           /\ SumFunction(Tail(d)) = SumFunction(d) - Head(d)
           /\ Tail(d) # <<>> => Owing(Tail(d), n)
<1>1. \A m \in Sizes : Whole(m) \in Int /\ Part(m) \in Int /\ -Whole(m) \in Int /\ -Part(m) \in Int
  BY SizeFacts DEF TypeOK
<1>2. ASSUME NEW x \in Int, d = <<x>>
      PROVE  /\ d # <<>> /\ Head(d) \in Int /\ Tail(d) \in Seq(Int)
             /\ Len(d) = 1 /\ Tail(d) = <<>>
             /\ SumFunction(Tail(d)) = SumFunction(d) - Head(d)
  <2>1. Head(d) = x /\ Tail(d) = <<>> /\ Len(d) = 1 /\ d # <<>>
    BY <1>2
  <2>2. SumFunction(d) = x /\ SumFunction(<<>>) = 0
    BY <1>2, SumOfOne, SumOfNone
  <2>3. SumFunction(Tail(d)) = SumFunction(d) - Head(d)
    <3>1. 0 = x - x
      OBVIOUS
    <3> QED
      BY <2>1, <2>2, <3>1, Zenon
  <2>4. <<>> \in Seq(Int)
    OBVIOUS
  <2> QED
    BY <2>1, <2>3, <2>4, Zenon
<1>3. ASSUME n # 0, NEW m \in Sizes, d = <<-Part(m), Part(n)>>
      PROVE  /\ d # <<>> /\ Head(d) \in Int /\ Tail(d) = <<Part(n)>> /\ Tail(d) \in Seq(Int)
             /\ Len(d) = 2
             /\ SumFunction(Tail(d)) = SumFunction(d) - Head(d)
  <2>0. Part(n) \in Int /\ -Part(m) \in Int
    BY <1>1, <1>3
  <2>1. Head(d) = -Part(m) /\ Tail(d) = <<Part(n)>> /\ Len(d) = 2 /\ d # <<>>
    BY <1>3, <2>0
  <2>2. SumFunction(d) = -Part(m) + Part(n) /\ SumFunction(<<Part(n)>>) = Part(n)
    BY <1>3, <2>0, SumOfOne, SumOfTwo
  <2>3. SumFunction(Tail(d)) = SumFunction(d) - Head(d)
    <3>1. Part(n) = (-Part(m) + Part(n)) - (-Part(m))
      BY <2>0
    <3> QED
      BY <2>1, <2>2, <3>1, Zenon
  <2>4. <<Part(n)>> \in Seq(Int)
    BY <2>0
  <2> QED
    BY <2>0, <2>1, <2>3, <2>4, Zenon
<1>4. CASE \E x \in Int : d = <<x>>
  BY <1>2, <1>4
<1>5. CASE n # 0 /\ \E m \in Sizes : d = <<-Part(m), Part(n)>>
  <2>1. PICK m \in Sizes : d = <<-Part(m), Part(n)>>
    BY <1>5
  <2>2. /\ d # <<>> /\ Head(d) \in Int /\ Tail(d) = <<Part(n)>> /\ Tail(d) \in Seq(Int)
        /\ Len(d) = 2 /\ SumFunction(Tail(d)) = SumFunction(d) - Head(d)
    BY <1>3, <1>5, <2>1
  <2>3. Owing(<<Part(n)>>, n) /\ <<Part(n)>> # <<>>
    BY <1>5 DEF Owing
  <2>4. Len(d) # 1 /\ Tail(d) # <<>> /\ Owing(Tail(d), n)
    <3>1. Len(d) # 1
      BY <2>2
    <3> QED
      BY <2>2, <2>3, <3>1, Zenon
  <2> QED
    BY <2>2, <2>4
<1> QED
  BY <1>1, <1>4, <1>5 DEF Owing

\* An update: what is at the head of the debt of t is counted.
LEMMA StoreKeeps ==
    ASSUME IInv, NEW t \in Threads, ~Idle(t), NEW v, v = used, Store(t, v)
    PROVE  IInv'
<1> USE DEF IInv
<1>0. PICK b \in Blocks, n \in Sizes \cup {0}, d \in Seq(Int), x \in Int :
          /\ b = ptr[t] /\ n = size[b] /\ d = debt[t] /\ x = Head(d) /\ Owing(d, n)
  <2>1. ptr[t] \in Blocks /\ size[ptr[t]] \in Sizes \cup {0} /\ debt[t] \in Seq(Int)
    BY DEF TypeOK
  <2>2. Owing(debt[t], size[ptr[t]])
    BY DEF Calls
  <2>3. Head(debt[t]) \in Int
    BY <2>1, <2>2, OwingOnce
  <2> QED
    BY <2>1, <2>2, <2>3, Zenon
<1>1. /\ d # <<>> /\ Tail(d) \in Seq(Int) /\ (Len(d) = 1 <=> Tail(d) = <<>>)
      /\ SumFunction(Tail(d)) = SumFunction(d) - x
      /\ Tail(d) # <<>> => Owing(Tail(d), n)
  BY <1>0, OwingOnce
<1>2. /\ used' = (used + x) % Width
      /\ debt' = [debt EXCEPT ![t] = Tail(d)]
      /\ loaded' = [loaded EXCEPT ![t] = None]
      /\ ptr' = [ptr EXCEPT ![t] = IF Tail(d) = <<>> THEN None ELSE b]
      /\ UNCHANGED <<haveMallocSize, safe, size, missed>>
  BY <1>0, <1>1 DEF Store, TypeOK
<1>3. \A u \in Threads : ~Idle(u) /\ u # t => ptr[u] \in Blocks /\ ptr[u] # b
  BY <1>0 DEF TypeOK, Calls
<1>4. /\ debt'[t] = Tail(d) /\ ptr'[t] = (IF Tail(d) = <<>> THEN None ELSE b)
      /\ loaded'[t] = None
      /\ \A u \in Threads :
            u # t => debt'[u] = debt[u] /\ ptr'[u] = ptr[u] /\ loaded'[u] = loaded[u]
  BY <1>2 DEF TypeOK
<1>5. PICK k \in Int : used' = used + x + k * Width
  <2>1. used + x \in Int /\ Width \in Nat \ {0}
    BY ZmallocAssumption DEF TypeOK
  <2>2. PICK q \in Int, r \in 0 .. Width - 1 : used + x = q * Width + r /\ r = (used + x) % Width
    BY <2>1, DivMod
  <2>3. -q \in Int /\ r = used + x + (-q) * Width
    <3>1. (-q) * Width = -(q * Width) /\ q * Width \in Int
      BY <2>1
    <3> QED
      BY <2>1, <2>2, <3>1
  <2> QED
    BY <1>2, <2>2, <2>3
<1>6. TypeOK'
  <2>1. used' \in 0 .. Width - 1
    <3> DEFINE m == used + x
    <3>1. m \in Int /\ Width \in Nat \ {0}
      BY ZmallocAssumption DEF TypeOK
    <3> HIDE DEF m
    <3>2. m % Width \in 0 .. Width - 1
      BY <3>1
    <3> QED
      BY <1>2, <3>2 DEF m
  <2>2. /\ debt' \in [Threads -> Seq(Int)] /\ ptr' \in [Threads -> Blocks \cup {None}]
        /\ loaded' \in [Threads -> 0 .. Width - 1 \cup {None}]
    BY <1>1, <1>2 DEF TypeOK
  <2>3. \A u \in Threads : Idle(u)' <=> ptr'[u] = None
    BY <1>4, ZmallocAssumption DEF TypeOK, Idle
  <2> QED
    BY <1>2, <2>1, <2>2, <2>3 DEF TypeOK
<1>7. Calls'
  <2>1. \A m \in Sizes : Whole(m)' = Whole(m) /\ Part(m)' = Part(m)
    BY <1>2 DEF Whole, Part
  <2>2. \A e : \A m \in Sizes \cup {0} : Owing(e, m) => Owing(e, m)'
    BY <1>2, <2>1 DEF Owing
  <2>3. \A u \in Threads : ~Idle(u)' => Owing(debt[u], size[ptr[u]])'
    <3>1. ASSUME NEW u \in Threads, ~Idle(u)', u # t PROVE Owing(debt[u], size[ptr[u]])'
      <4>1. ~Idle(u)
        BY <1>4, <3>1 DEF Idle
      <4>2. Owing(debt[u], size[ptr[u]]) /\ size[ptr[u]] \in Sizes \cup {0}
        BY <1>3, <3>1, <4>1 DEF Calls, TypeOK
      <4> QED
        BY <1>2, <1>4, <2>2, <3>1, <4>2
    <3>2. ASSUME ~Idle(t)' PROVE Owing(debt[t], size[ptr[t]])'
      <4>1. Tail(d) # <<>>
        BY <1>4, <3>2 DEF Idle
      <4>2. Owing(Tail(d), n)'
        BY <1>1, <2>2, <4>1
      <4>3. debt'[t] = Tail(d) /\ size'[ptr'[t]] = n
        BY <1>0, <1>2, <1>4, <4>1
      <4> QED
        BY <4>2, <4>3, Zenon
    <3> QED
      BY <3>1, <3>2
  <2>4. \A u, w \in Threads :
            ~Idle(u)' /\ ~Idle(w)' /\ (~safe' \/ ptr'[u] = ptr'[w]) => u = w
    <3>1. \A u \in Threads : ~Idle(u)' => ~Idle(u) /\ ptr'[u] = ptr[u]
      BY <1>0, <1>1, <1>4 DEF Idle
    <3> QED
      BY <1>2, <3>1 DEF Calls
  <2>5. \A u \in Threads : loaded'[u] # None => ~safe' /\ ~Idle(u)' /\ loaded'[u] = used'
    <3>1. ASSUME NEW u \in Threads, u # t PROVE loaded[u] = None
      BY <3>1 DEF Calls
    <3> QED
      BY <1>4, <3>1
  <2> QED
    BY <2>3, <2>4, <2>5 DEF Calls
<1>8. PICK c \in [Blocks -> Int] : CountedAs(c)
  OBVIOUS
<1>9. c[b] = ZmallocSize(n) - SumFunction(d) /\ SumFunction(d) \in Int /\ c[b] + x \in Int
      /\ ZmallocSize(n) \in Int /\ SumFunction(c) \in Int
  <2>1. c[b] = ZmallocSize(n) - SumFunction(d)
    BY <1>0, <1>8 DEF CountedAs
  <2>2. ZmallocSize(n) \in Int
    BY <1>0, SizeFacts, NoSize DEF TypeOK
  <2>3. SumFunction(c) \in Int
    BY ZmallocAssumption, SumType
  <2> QED
    BY <1>0, <2>1, <2>2, <2>3, DebtSum
<1>10. PICK e \in [Blocks -> Int] :
          /\ e[b] = c[b] + x
          /\ \A a \in Blocks : a # b => e[a] = c[a]
          /\ SumFunction(e) = SumFunction(c) - c[b] + (c[b] + x)
  BY <1>9, CountChange
<1>11. SumFunction(e) = SumFunction(c) + x
  <2>1. c[b] \in Int
    OBVIOUS
  <2> QED
    BY <1>0, <1>9, <1>10, <2>1
<1>12. CountedAs(e)'
  <2>0. (\A m : ZmallocSize(m)' = ZmallocSize(m)) /\ size' = size
    BY <1>2 DEF ZmallocSize
  <2>0a. e[b] = ZmallocSize(n) - SumFunction(Tail(d))
    <3>1. e[b] = ZmallocSize(n) - SumFunction(d) + x
      BY <1>9, <1>10
    <3>2. SumFunction(Tail(d)) = SumFunction(d) - x
      BY <1>1
    <3>3. SumFunction(d) \in Int /\ ZmallocSize(n) \in Int
      BY <1>9
    <3> QED
      BY <3>1, <3>2, <3>3
  <2>1. ASSUME NEW a \in Blocks, \A u \in Threads : ptr'[u] # a
        PROVE  e[a] = ZmallocSize(size'[a])
    <3>1. CASE a = b
      <4>1. SumFunction(Tail(d)) = 0
        BY <1>4, <2>1, <3>1, SumOfNone
      <4> QED
        BY <1>0, <1>9, <2>0, <2>0a, <3>1, <4>1
    <3>2. CASE a # b
      <4>1. \A u \in Threads : ptr[u] # a
        BY <1>0, <1>4, <2>1, <3>2
      <4> QED
        BY <1>8, <1>10, <2>0, <3>2, <4>1 DEF CountedAs
    <3> QED
      BY <3>1, <3>2
  <2>2. \A u \in Threads : ~Idle(u)' =>
            e[ptr'[u]] = ZmallocSize(size'[ptr'[u]]) - SumFunction(debt'[u])
    <3>1. ASSUME ~Idle(t)'
          PROVE  e[ptr'[t]] = ZmallocSize(size'[ptr'[t]]) - SumFunction(debt'[t])
      BY <1>0, <1>4, <2>0, <2>0a, <3>1 DEF Idle
    <3>2. ASSUME NEW u \in Threads, u # t, ~Idle(u)'
          PROVE  e[ptr[u]] = ZmallocSize(size[ptr[u]]) - SumFunction(debt[u])
      <4>1. ~Idle(u)
        BY <1>4, <3>2 DEF Idle
      <4>2. e[ptr[u]] = c[ptr[u]]
        BY <1>3, <1>10, <3>2, <4>1
      <4> QED
        BY <1>8, <4>1, <4>2 DEF CountedAs
    <3> QED
      BY <1>4, <2>0, <3>1, <3>2
  <2>3. SumFunction(e) = Total' - Debts'
    <3>1. Total' = Total
      BY <2>0 DEF Total
    <3>2. Debts' = Debts - SumFunction(d) + SumFunction(Tail(d))
      <4>1. Debts' = Debts - SumFunction(debt[t]) + SumFunction(Tail(d))
        BY <1>1, <1>2, DebtsChange
      <4> QED
        BY <1>0, <4>1
    <3>4. Total \in Int /\ Debts \in Int /\ SumFunction(c) = Total - Debts
      BY <1>8, DebtsType DEF CountedAs
    <3>5. SumFunction(Tail(d)) = SumFunction(d) - x /\ SumFunction(d) \in Int
      BY <1>1, <1>9
    <3>6. Debts' = Debts - x
      BY <3>2, <3>4, <3>5
    <3> QED
      BY <1>9, <1>11, <3>1, <3>4, <3>6
  <2>4. \E i \in Int : used' + missed' = SumFunction(e) + i * Width
    <3>1. PICK j \in Int : used + missed = SumFunction(c) + j * Width
      BY <1>8 DEF CountedAs
    <3>2. PICK y \in Int, z \in Int :
              y = j * Width /\ z = k * Width /\ y + z = (j + k) * Width
      <4>1. (j + k) * Width = j * Width + k * Width /\ j * Width \in Int /\ k * Width \in Int
        BY ZmallocAssumption
      <4> QED
        BY <4>1, Zenon
    <3>3. PICK p \in Int, m \in Int, r \in Int :
              p = used /\ m = missed /\ r = SumFunction(c)
      BY <1>9, ZmallocAssumption DEF TypeOK
    <3>4. p + m = r + y /\ used' = p + x + z /\ missed' = m /\ SumFunction(e) = r + x
      BY <1>2, <1>5, <1>11, <3>1, <3>2, <3>3, Zenon
    <3>5. p + x + z + m = (r + x) + (y + z)
      BY <3>4
    <3>6. used' + missed' = SumFunction(e) + (j + k) * Width
      BY <3>2, <3>4, <3>5, Zenon
    <3>7. j + k \in Int
      OBVIOUS
    <3> QED
      BY <3>6, <3>7
  <2> QED
    BY <2>0, <2>1, <2>2, <2>3, <2>4 DEF CountedAs
<1> QED
  BY <1>6, <1>7, <1>10, <1>12

\* What is seen of a state is the same when none of these change.
LEMMA SameCounts ==
    ASSUME IInv, UNCHANGED <<haveMallocSize, used, size, ptr, debt, missed>>
    PROVE  \E c \in [Blocks -> Int] : CountedAs(c)'
<1>1. PICK c \in [Blocks -> Int] : CountedAs(c)
  BY DEF IInv
<1>2. Total' = Total /\ Debts' = Debts /\ \A m : ZmallocSize(m)' = ZmallocSize(m)
  BY DEF Total, Debts, ZmallocSize
<1>3. CountedAs(c)'
  BY <1>1, <1>2 DEF CountedAs, Idle
<1> QED
  BY <1>3

LEMMA SameOwing ==
    ASSUME UNCHANGED <<haveMallocSize, missed>>, NEW d, NEW n, Owing(d, n)
    PROVE  Owing(d, n)'
<1>1. \A m : Whole(m)' = Whole(m) /\ Part(m)' = Part(m)
  BY DEF Whole, Part
<1> QED
  BY <1>1 DEF Owing

LEMMA CountedStep == IInv /\ [Next]_vars => IInv'
<1> SUFFICES ASSUME IInv, [Next]_vars PROVE IInv'
  OBVIOUS
<1>1. CASE \E t \in Threads, b \in Blocks :
              \/ \E n \in Sizes : Zmalloc(t, b, n) \/ Zrealloc(t, b, n)
              \/ Zfree(t, b)
  BY <1>1, CallsKeep
<1>2. CASE \E t \in Threads, b \in Blocks : ReallocFails(t, b)
  BY <1>2, ReallocFailsKeeps
<1>3. CASE EnableThreadSafeness
  <2> USE <1>3 DEF EnableThreadSafeness
  <2>1. TypeOK'
    BY DEF IInv, TypeOK, Idle
  <2>2. Calls'
    BY DEF IInv, Calls, Idle
  <2> QED
    BY <2>1, <2>2, SameCounts DEF IInv
<1>4. ASSUME NEW t \in Threads, Update(t) PROVE IInv'
  BY <1>4, StoreKeeps DEF Update
<1>5. ASSUME NEW t \in Threads, UpdateLoad(t) PROVE IInv'
  <2> USE <1>5 DEF UpdateLoad
  <2>1. TypeOK'
    BY DEF IInv, TypeOK, Idle
  <2>2. Calls'
    <3>1. \A u \in Threads : ~Idle(u)' => Owing(debt[u], size[ptr[u]])'
      BY SameOwing DEF IInv, Calls, Idle
    <3>2. \A u \in Threads : loaded'[u] # None => ~safe' /\ ~Idle(u)' /\ loaded'[u] = used'
      BY DEF IInv, Calls, Idle, TypeOK
    <3> QED
      BY <3>1, <3>2 DEF IInv, Calls, Idle
  <2> QED
    BY <2>1, <2>2, SameCounts DEF IInv
<1>6. ASSUME NEW t \in Threads, UpdateStore(t) PROVE IInv'
  <2>1. ~Idle(t) /\ loaded[t] = used
    BY <1>6 DEF UpdateStore, IInv, Calls
  <2> QED
    BY <1>6, <2>1, StoreKeeps DEF UpdateStore
<1>7. CASE UNCHANGED vars
  <2> USE <1>7 DEF vars
  <2>1. TypeOK'
    BY DEF IInv, TypeOK, Idle
  <2>2. Calls'
    <3>1. \A u \in Threads : ~Idle(u)' => Owing(debt[u], size[ptr[u]])'
      BY SameOwing DEF IInv, Calls, Idle
    <3> QED
      BY <3>1 DEF IInv, Calls, Idle
  <2> QED
    BY <2>1, <2>2, SameCounts DEF IInv
<1> QED
  BY <1>1, <1>2, <1>3, <1>4, <1>5, <1>6, <1>7 DEF Next

LEMMA CountedInvariant == Spec => []IInv
BY CountedInit, CountedStep, PTL DEF Spec

\* Every variable keeps its type (zmalloc.c): used_memory that of a size_t, and
\* a call is about a block as long as it has something left to count.
THEOREM TypeCorrect == Spec => []TypeOK
<1>1. IInv => TypeOK
  BY DEF IInv
<1> QED
  BY CountedInvariant, <1>1, PTL

\* As long as no zrealloc has failed, what is counted for a block is between
\* nothing and the bytes of some size it has or had.
LEMMA CountBounds ==
    ASSUME TypeOK, Calls, missed = 0, NEW c \in [Blocks -> Int], CountedAs(c), NEW b \in Blocks
    PROVE  0 <= c[b] /\ \E m \in Sizes \cup {0} : c[b] <= ZmallocSize(m)
<1>0. /\ haveMallocSize \in BOOLEAN /\ size[b] \in Sizes \cup {0}
      /\ \A m \in Sizes \cup {0} : ZmallocSize(m) \in Nat
  BY SizeFacts, NoSize DEF TypeOK
<1>1. CASE \A t \in Threads : ptr[t] # b
  <2>1. c[b] = ZmallocSize(size[b])
    BY <1>1 DEF CountedAs
  <2> QED
    BY <1>0, <2>1
<1>2. ASSUME NEW t \in Threads, ptr[t] = b
      PROVE  0 <= c[b] /\ \E m \in Sizes \cup {0} : c[b] <= ZmallocSize(m)
  <2>1. ~Idle(t) /\ Owing(debt[t], size[b])
    BY <1>2, ZmallocAssumption DEF TypeOK, Calls
  <2>2. c[b] = ZmallocSize(size[b]) - SumFunction(debt[t])
    BY <1>2, <2>1 DEF CountedAs
  <2>3. PICK n \in Sizes \cup {0} : n = size[b]
    BY <1>0
  <2>4. CASE n # 0 /\ debt[t] = <<Whole(n)>>
    <3>1. Whole(n) = ZmallocSize(n) /\ Whole(n) \in Int
      BY <1>0, <2>4, SizeFacts
    <3>2. SumFunction(debt[t]) = Whole(n)
      BY <2>4, <3>1, SumOfOne
    <3>3. c[b] = 0
      BY <2>2, <2>3, <3>1, <3>2
    <3> QED
      BY <1>0, <2>3, <3>3
  <2>5. ASSUME n # 0, NEW m \in Sizes, debt[t] = <<-Part(m), Part(n)>>
        PROVE  0 <= c[b] /\ c[b] <= ZmallocSize(m)
    <3>1. /\ n \in Sizes /\ Part(n) \in Int /\ Part(m) \in Int /\ -Part(m) \in Int
          /\ Header \in Int
          /\ Part(n) + Header = ZmallocSize(n) /\ Part(m) + Header = ZmallocSize(m)
      BY <1>0, <2>5, SizeFacts
    <3>2. SumFunction(debt[t]) = -Part(m) + Part(n)
      BY <2>5, <3>1, SumOfTwo
    <3>3. c[b] = ZmallocSize(m)
      BY <2>2, <2>3, <3>1, <3>2
    <3> QED
      BY <1>0, <3>3
  <2>6. CASE n # 0 /\ debt[t] = <<Part(n)>>
    <3>1. n \in Sizes /\ Part(n) \in Nat /\ Header \in Nat /\ Part(n) + Header = ZmallocSize(n)
      BY <1>0, <2>6, SizeFacts
    <3>2. SumFunction(debt[t]) = Part(n)
      BY <2>6, <3>1, SumOfOne
    <3>3. 0 <= c[b] /\ c[b] <= ZmallocSize(n)
      BY <2>2, <2>3, <3>1, <3>2
    <3> QED
      BY <3>3
  <2>7. CASE n # 0 /\ Part(n) = 0 /\ debt[t] = <<-Part(n)>>
    <3>1. SumFunction(debt[t]) = 0
      BY <2>7, SumOfOne
    <3>2. c[b] = ZmallocSize(n)
      BY <1>0, <2>2, <2>3, <3>1
    <3> QED
      BY <1>0, <3>2
  <2>8. ASSUME n = 0, NEW m \in Sizes, debt[t] = <<-Whole(m)>>
        PROVE  0 <= c[b] /\ c[b] <= ZmallocSize(m)
    <3>1. Whole(m) = ZmallocSize(m) /\ ZmallocSize(m) \in Nat /\ -Whole(m) \in Int
      BY <1>0, SizeFacts
    <3>2. SumFunction(debt[t]) = -Whole(m)
      BY <2>8, <3>1, SumOfOne
    <3>3. c[b] = ZmallocSize(m)
      BY <2>2, <2>3, <2>8, <3>1, <3>2, NoSize
    <3> QED
      BY <1>0, <3>3
  <2> QED
    BY <2>1, <2>3, <2>4, <2>5, <2>6, <2>7, <2>8 DEF Owing
<1> QED
  BY <1>1, <1>2

\* So what is counted in all is less than Width.
LEMMA CountFits ==
    ASSUME TypeOK, Calls, missed = 0, NEW c \in [Blocks -> Int], CountedAs(c)
    PROVE  0 <= SumFunction(c) /\ SumFunction(c) < Width
<1>1. PICK s \in [Blocks -> Sizes \cup {0}] :
          \A b \in Blocks : 0 <= c[b] /\ c[b] <= ZmallocSize(s[b])
  <2> DEFINE s == [b \in Blocks |-> CHOOSE m \in Sizes \cup {0} : c[b] <= ZmallocSize(m)]
  <2>1. \A b \in Blocks : 0 <= c[b] /\ \E m \in Sizes \cup {0} : c[b] <= ZmallocSize(m)
    BY CountBounds
  <2>2. s \in [Blocks -> Sizes \cup {0}] /\ \A b \in Blocks : c[b] <= ZmallocSize(s[b])
    BY <2>1
  <2> QED
    BY <2>1, <2>2
<1> DEFINE Z == [b \in Blocks |-> ZmallocSize(s[b])]
           N == [b \in Blocks |-> 0]
<1>2. IsFiniteSet(Blocks) /\ haveMallocSize \in BOOLEAN
  BY ZmallocAssumption DEF TypeOK
<1>3. \A m \in Sizes \cup {0} : ZmallocSize(m) \in Int
  BY <1>2, SizeFacts, NoSize
<1>4. SumFunction(Z) < Width
  <2>1. Z = [b \in Blocks |-> Bytes(haveMallocSize, s[b])]
    BY DEF ZmallocSize
  <2> QED
    BY <1>2, <2>1, MemoryFits
<1>5. /\ DOMAIN Z = Blocks /\ DOMAIN N = Blocks /\ DOMAIN c = Blocks
      /\ \A b \in Blocks : Z[b] \in Int /\ N[b] = 0 /\ N[b] \in Int /\ N[b] <= c[b] /\ c[b] <= Z[b]
  BY <1>1, <1>3
<1> HIDE DEF Z, N
<1>6. /\ SumFunctionOnSet(c, Blocks) <= SumFunctionOnSet(Z, Blocks)
      /\ SumFunctionOnSet(N, Blocks) <= SumFunctionOnSet(c, Blocks)
      /\ SumFunctionOnSet(N, Blocks) = 0
  <2>1. SumFunctionOnSet(c, Blocks) <= SumFunctionOnSet(Z, Blocks)
    BY <1>2, <1>5, SumMonotonic
  <2>2. SumFunctionOnSet(N, Blocks) <= SumFunctionOnSet(c, Blocks)
    BY <1>2, <1>5, SumMonotonic
  <2>3. SumFunctionOnSet(N, Blocks) = 0
    BY <1>2, <1>5, SumZero
  <2> QED
    BY <2>1, <2>2, <2>3
<1>7. SumFunctionOnSet(Z, Blocks) \in Int /\ SumFunctionOnSet(c, Blocks) \in Int
  BY <1>2, <1>5, SumRemove
<1> QED
  BY <1>4, <1>5, <1>6, <1>7, ZmallocAssumption DEF SumFunction

\* used_memory is the sum of the sizes of the blocks there are, but for what
\* the calls under way have yet to count and what failed zreallocs have taken
\* off: for any threads, blocks and sizes, with thread safeness enabled at any
\* time between calls (zmalloc.c:180-206, 213-219, 249-266).
THEOREM CounterBalanced == Spec => []Balanced
<1>1. IInv => Balanced
  <2> SUFFICES ASSUME IInv PROVE Balanced
    OBVIOUS
  <2> USE DEF IInv
  <2>1. PICK c \in [Blocks -> Int] : CountedAs(c)
    OBVIOUS
  <2>2. PICK k \in Int : used + missed = SumFunction(c) + k * Width
    BY <2>1 DEF CountedAs
  <2>3. PICK p \in Int, m \in Int, r \in Int, w \in Nat \ {0}, d \in Int :
            /\ p = used /\ m = missed /\ r = SumFunction(c) /\ w = Width /\ d = Debts
            /\ p \in 0 .. w - 1
    <3>1. used \in 0 .. Width - 1 /\ missed \in Int /\ Width \in Nat \ {0} /\ used \in Int
      BY ZmallocAssumption DEF TypeOK
    <3>2. Debts \in Int /\ SumFunction(c) \in Int
      BY DebtsType, SumType, ZmallocAssumption
    <3> QED
      BY <3>1, <3>2, Zenon
  <2>4. r + d = Total
    <3>1. Total \in Int /\ r = Total - d
      BY <2>1, <2>3, DebtsType DEF CountedAs
    <3> QED
      BY <3>1
  <2>5. p + m = r + k * w
    BY <2>2, <2>3
  <2>6. ASSUME m = 0 PROVE p + d = Total
    <3>1. 0 <= r /\ r < w
      BY <2>1, <2>3, <2>6, CountFits
    <3>2. p = r
      <4>1. 0 * w + p = k * w + r
        BY <2>5, <2>6
      <4>2. r \in 0 .. w - 1
        BY <3>1
      <4> QED
        BY <2>3, <4>1, <4>2, RemainderUnique
    <3> QED
      BY <2>4, <3>2
  <2>7. (p + d + m) % w = Total % w
    <3>1. p + d + m = Total + k * w
      <4>1. k * w \in Int
        OBVIOUS
      <4> QED
        BY <2>4, <2>5, <4>1
    <3>2. Total \in Int
      BY DebtsType
    <3>3. (Total + k * w) % w = Total % w
      BY <3>2, ModShift
    <3> QED
      BY <3>1, <3>3, Zenon
  <2> QED
    BY <2>3, <2>6, <2>7, Zenon DEF Balanced
<1> QED
  BY CountedInvariant, <1>1, PTL
=============================================================================
