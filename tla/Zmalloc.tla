------------------------------ MODULE Zmalloc ------------------------------
(***************************************************************************)
(* The counted allocation of zmalloc.c: used_memory, which every call of   *)
(* every thread adds to or subtracts from, and the sizes it is made up of. *)
(*                                                                         *)
(* Two builds.  With HAVE_MALLOC_SIZE the allocator knows the size of a    *)
(* block; without, zmalloc keeps the size asked for in a header of Prefix  *)
(* bytes.  The Windows project builds the second.                          *)
(*                                                                         *)
(* With zmalloc_thread_safe an update is one step, be it by an atomic      *)
(* instruction or under the mutex; else it loads and stores.  What callers *)
(* must know: until thread safeness is enabled, calls do not overlap.      *)
(*                                                                         *)
(* When malloc returns NULL the handler returns too (its abort is a        *)
(* comment).  With HAVE_MALLOC_SIZE nothing is counted then, and zmalloc   *)
(* has no step; zrealloc has, ReallocFails.  Without, the header is        *)
(* written through NULL, and neither has one.                              *)
(***************************************************************************)
EXTENDS Integers, Sequences, FiniteSets, Functions

CONSTANTS
    Threads,
    Blocks,          \* addresses
    Sizes,           \* what callers ask for
    Long,            \* sizeof(PORT_LONG)
    Prefix,          \* PREFIX_SIZE of the build without it
    Width,           \* size_t holds numbers below Width
    Usable,          \* Usable[n]: what the allocator gives for n bytes
    MaxMissed        \* bound on missed

None == -1

ASSUME ZmallocAssumption ==
    /\ IsFiniteSet(Threads) /\ IsFiniteSet(Blocks)
    /\ None \notin Blocks
    /\ Sizes \subseteq Nat \ {0}
    /\ Long \in Nat \ {0} /\ Prefix \in Nat /\ Width \in Nat \ {0}
    /\ Prefix % Long = 0
    /\ MaxMissed \in Nat
    /\ Usable \in [Sizes -> {n \in Nat : n % Long = 0}]

VARIABLES
    haveMallocSize,  \* HAVE_MALLOC_SIZE, of the build
    used,            \* used_memory
    safe,            \* zmalloc_thread_safe
    size,            \* size[b]: what was asked for block b; 0 when it is free
    ptr,             \* ptr[t]: the block that the call of t is about
    debt,            \* debt[t]: what t has yet to add to used_memory, in order
    loaded,          \* loaded[t]: used_memory as read for an update, or None
    missed           \* what zrealloc has taken off for blocks that it kept

vars == <<haveMallocSize, used, safe, size, ptr, debt, loaded, missed>>

Idle(t) == debt[t] = <<>>

TypeOK ==
    /\ haveMallocSize \in BOOLEAN
    /\ used \in 0 .. Width - 1
    /\ safe \in BOOLEAN
    /\ size \in [Blocks -> Sizes \cup {0}]
    /\ ptr \in [Threads -> Blocks \cup {None}]
    /\ debt \in [Threads -> Seq(Int)]
    /\ loaded \in [Threads -> 0 .. Width - 1 \cup {None}]
    /\ missed \in 0 .. MaxMissed
    /\ \A t \in Threads : Idle(t) <=> ptr[t] = None

Init ==
    /\ haveMallocSize \in BOOLEAN
    /\ used = 0
    /\ safe = FALSE
    /\ size = [b \in Blocks |-> 0]
    /\ ptr = [t \in Threads |-> None]
    /\ debt = [t \in Threads |-> <<>>]
    /\ loaded = [t \in Threads |-> None]
    /\ missed = 0

-----------------------------------------------------------------------------
(* Sizes.                                                                  *)

\* n made up to a whole number of longs.
Padded(n) == n + ((Long - (n % Long)) % Long)

\* The bytes of a block asked for with n, in the build with HAVE_MALLOC_SIZE
\* or without; none of one that is free.
Bytes(have, n) == IF n = 0 THEN 0 ELSE IF have THEN Usable[n] ELSE Padded(n) + Prefix

\* A size_t holds the size of the memory, whatever blocks it is made up of.
ASSUME MemoryFits ==
    \A have \in BOOLEAN, s \in [Blocks -> Sizes \cup {0}] :
        SumFunction([b \in Blocks |-> Bytes(have, s[b])]) < Width

\* zmalloc_size of a block asked for with n.
ZmallocSize(n) == Bytes(haveMallocSize, n)

\* What zmalloc adds and zfree takes off.
Whole(n) == Padded(IF haveMallocSize THEN Usable[n] ELSE n + Prefix)

\* What zrealloc takes off and adds: the header is there before and after.
Part(n) == Padded(IF haveMallocSize THEN Usable[n] ELSE n)

-----------------------------------------------------------------------------
(* The calls: what they do to the block, and what they leave to count.     *)

\* t calls about b, which no other call is about.
MayCall(t, b) ==
    /\ Idle(t)
    /\ safe \/ \A u \in Threads : Idle(u)
    /\ \A u \in Threads : ptr[u] # b

\* s is left to be added to used_memory, on behalf of b.
Owes(t, b, s) ==
    /\ debt' = [debt EXCEPT ![t] = s]
    /\ ptr' = [ptr EXCEPT ![t] = b]

\* zmalloc, zcalloc and zstrdup.
Zmalloc(t, b, n) ==
    /\ MayCall(t, b)
    /\ size[b] = 0
    /\ size' = [size EXCEPT ![b] = n]
    /\ Owes(t, b, <<Whole(n)>>)
    /\ UNCHANGED <<haveMallocSize, used, safe, loaded, missed>>

Zrealloc(t, b, n) ==
    /\ MayCall(t, b)
    /\ size[b] # 0
    /\ size' = [size EXCEPT ![b] = n]
    /\ Owes(t, b, <<-Part(size[b]), Part(n)>>)
    /\ UNCHANGED <<haveMallocSize, used, safe, loaded, missed>>

\* realloc that fails leaves the block as it is, and zmalloc_size(NULL) is 0.
ReallocFails(t, b) ==
    /\ MayCall(t, b)
    /\ haveMallocSize
    /\ size[b] # 0
    /\ missed + Part(size[b]) <= MaxMissed
    /\ missed' = missed + Part(size[b])
    /\ Owes(t, b, <<-Part(size[b])>>)
    /\ UNCHANGED <<haveMallocSize, used, safe, size, loaded>>

Zfree(t, b) ==
    /\ MayCall(t, b)
    /\ size[b] # 0
    /\ size' = [size EXCEPT ![b] = 0]
    /\ Owes(t, b, <<-Whole(size[b])>>)
    /\ UNCHANGED <<haveMallocSize, used, safe, loaded, missed>>

EnableThreadSafeness ==
    /\ \A t \in Threads : Idle(t)
    /\ safe' = TRUE
    /\ UNCHANGED <<haveMallocSize, used, size, ptr, debt, loaded, missed>>

-----------------------------------------------------------------------------
(* Updates of used_memory, a size_t.  After the last the call returns.     *)

\* Faulty: the call returns after its first update.
StoreOnce(t, n) ==
    /\ used' = (n + Head(debt[t])) % Width
    /\ debt' = [debt EXCEPT ![t] = Tail(@)]
    /\ loaded' = [loaded EXCEPT ![t] = None]
    /\ ptr' = [ptr EXCEPT ![t] = None]
    /\ UNCHANGED <<haveMallocSize, safe, size, missed>>

Store(t, n) ==
    /\ used' = (n + Head(debt[t])) % Width
    /\ debt' = [debt EXCEPT ![t] = Tail(@)]
    /\ loaded' = [loaded EXCEPT ![t] = None]
    /\ ptr' = [ptr EXCEPT ![t] = IF Len(debt[t]) = 1 THEN None ELSE @]
    /\ UNCHANGED <<haveMallocSize, safe, size, missed>>

Update(t) == ~Idle(t) /\ safe /\ Store(t, used)

\* Faulty: the flag is not looked at.
UpdateLoadAlways(t) ==
    /\ ~Idle(t) /\ loaded[t] = None
    /\ loaded' = [loaded EXCEPT ![t] = used]
    /\ UNCHANGED <<haveMallocSize, used, safe, size, ptr, debt, missed>>

UpdateLoad(t) ==
    /\ ~Idle(t) /\ ~safe /\ loaded[t] = None
    /\ loaded' = [loaded EXCEPT ![t] = used]
    /\ UNCHANGED <<haveMallocSize, used, safe, size, ptr, debt, missed>>

UpdateStore(t) == loaded[t] # None /\ Store(t, loaded[t])

Next ==
    \/ \E t \in Threads, b \in Blocks :
          \/ \E n \in Sizes : Zmalloc(t, b, n) \/ Zrealloc(t, b, n)
          \/ Zfree(t, b)
          \/ ReallocFails(t, b)
    \/ EnableThreadSafeness
    \/ \E t \in Threads : Update(t) \/ UpdateLoad(t) \/ UpdateStore(t)

Spec == Init /\ [][Next]_vars

-----------------------------------------------------------------------------
(* Properties.                                                             *)

Total == SumFunction([b \in Blocks |-> ZmallocSize(size[b])])

Debts == SumFunction([t \in Threads |-> SumFunction(debt[t])])

\* used_memory is the sum of what zmalloc_size says of the blocks there are,
\* but for what the calls under way have yet to count; so it never wraps, and
\* is exact when no call is under way (zmalloc.c:180-206, 213-219, 249-266).
\* After a zrealloc has failed, it is short of that by the blocks it was for.
Balanced ==
    /\ missed = 0 => used + Debts = Total
    /\ (used + Debts + missed) % Width = Total % Width
=============================================================================
