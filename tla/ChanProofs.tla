----------------------------- MODULE ChanProofs -----------------------------
(***************************************************************************)
(* Proofs about Chan, for any threads, channels and message types and for  *)
(* queues of any length: its type and lock invariants, and that it         *)
(* implements Mailbox.                                                     *)
(***************************************************************************)
EXTENDS Chan, SequenceTheorems, TLAPS

\* What a call has in hand: a thread in a member function has its object,
\* and the message it passes on.
FramesOK ==
    \A t \in Threads :
        /\ at[t] # "out" => this[t] \in Channels
        /\ at[t] \in {"addMsg", "push", "handler"} => arg[t] \in Data
        /\ at[t] = "parsed" => msg \in Data

Typed == VarsOK /\ FramesOK

LEMMA TypedInit == Init => Typed
BY ChanAssumption DEF Init, Typed, VarsOK, FramesOK, Places

LEMMA TypedNext == Typed /\ [Next]_vars => Typed'
<1> SUFFICES ASSUME Typed, [Next]_vars
             PROVE  Typed'
    OBVIOUS
<1> USE ChanAssumption
<1>1. ASSUME NEW c \in Channels, New(c)
      PROVE  Typed'
      BY <1>1 DEF New, frames, Typed, VarsOK, FramesOK, Places
<1>2. ASSUME NEW c \in Channels, Delete(c)
      PROVE  Typed'
      BY <1>2 DEF Delete, frames, Typed, VarsOK, FramesOK, Places
<1>3. ASSUME NEW cs \in SUBSET live, NEW o \in Ops, RegisterOps(cs, o)
      PROVE  Typed'
      BY <1>3 DEF RegisterOps, frames, Typed, VarsOK, FramesOK, Places
<1>4. ASSUME NEW t \in Threads, NEW c \in Channels, NEW d \in Data, CallAddMsg(t, c, d)
      PROVE  Typed'
      BY <1>4 DEF CallAddMsg, objects, Typed, VarsOK, FramesOK, Places
<1>5. ASSUME NEW t \in Threads, NEW c \in Channels, CallPolling(t, c)
      PROVE  Typed'
      BY <1>5 DEF CallPolling, objects, Typed, VarsOK, FramesOK, Places
<1>6. ASSUME NEW t \in Threads, LockAddMsg(t)
      PROVE  Typed'
      BY <1>6 DEF LockAddMsg, Typed, VarsOK, FramesOK, Places
<1>7. ASSUME NEW t \in Threads, PushMsg(t)
      PROVE  Typed'
      BY <1>7 DEF PushMsg, Typed, VarsOK, FramesOK, Places
<1>8. ASSUME NEW t \in Threads, LockPolling(t)
      PROVE  Typed'
      BY <1>8 DEF LockPolling, Typed, VarsOK, FramesOK, Places
<1>9. ASSUME NEW t \in Threads, ParseMsg(t)
      PROVE  Typed'
      BY <1>9 DEF ParseMsg, objects, Typed, VarsOK, FramesOK, Places
<1>10. ASSUME NEW t \in Threads, DropGarbled(t)
      PROVE  Typed'
      BY <1>10 DEF DropGarbled, objects, frames, Typed, VarsOK, FramesOK, Places, Data
<1>11. ASSUME NEW t \in Threads, DropUnhandled(t)
      PROVE  Typed'
      BY <1>11 DEF DropUnhandled, objects, Typed, VarsOK, FramesOK, Places
<1>12. ASSUME NEW t \in Threads, CallHandler(t)
      PROVE  Typed'
      BY <1>12 DEF CallHandler, objects, Typed, VarsOK, FramesOK, Places
<1>13. ASSUME NEW t \in Threads, HandlerReturns(t)
      PROVE  Typed'
      BY <1>13 DEF HandlerReturns, objects, Typed, VarsOK, FramesOK, Places
<1>14. ASSUME NEW t \in Threads, EndPolling(t)
      PROVE  Typed'
      BY <1>14 DEF EndPolling, Typed, VarsOK, FramesOK, Places
<1>15. CASE UNCHANGED vars
      BY <1>15 DEF vars, Typed, VarsOK, FramesOK
<1>16. QED
      BY <1>1, <1>2, <1>3, <1>4, <1>5, <1>6, <1>7, <1>8, <1>9, <1>10, <1>11,
         <1>12, <1>13, <1>14, <1>15 DEF Next, Step, Advance
-----------------------------------------------------------------------------
(* Locks.  Mutual exclusion is not inductive alone: a thread must be inside *)
(* a live Chan, or New could reset the mutex under it, and the pollers must *)
(* be in one Chan for the static message to be protected by that mutex.     *)

InsideLive == \A t \in Threads : at[t] # "out" => this[t] \in live

OneChanPolled ==
    \A t, u \in Threads : Polls(t) /\ Polls(u) => this[t] = this[u]

Locks == MutualExclusion /\ NoLockLeaked /\ InsideLive /\ OneChanPolled

LEMMA LocksInit == Init => Locks
BY ChanAssumption DEF Init, Locks, MutualExclusion, NoLockLeaked, InsideLive,
   OneChanPolled, Inside, Polls

LEMMA LocksNext == Typed /\ Locks /\ [Next]_vars => Locks'
<1> SUFFICES ASSUME Typed, Locks, [Next]_vars
             PROVE  Locks'
    OBVIOUS
<1> USE ChanAssumption DEF Typed, VarsOK, FramesOK, Locks, MutualExclusion, NoLockLeaked,
        InsideLive, OneChanPolled, Inside, Polls
<1>1. ASSUME NEW c \in Channels, c \notin live, New(c)
      PROVE  Locks'
      BY <1>1 DEF New, frames
<1>2. ASSUME NEW c \in Channels, MayDelete(c), Delete(c)
      PROVE  Locks'
      BY <1>2 DEF MayDelete, Delete, frames
<1>3. ASSUME NEW cs \in SUBSET live, NEW o \in Ops, RegisterOps(cs, o)
      PROVE  Locks'
      BY <1>3 DEF RegisterOps, frames
<1>4. ASSUME NEW t \in Threads, NEW c \in Channels, NEW d \in Data,
             MayAddMsg(c), CallAddMsg(t, c, d)
      PROVE  Locks'
      BY <1>4 DEF MayAddMsg, CallAddMsg, objects
<1>5. ASSUME NEW t \in Threads, NEW c \in Channels, MayPoll(c), CallPolling(t, c)
      PROVE  Locks'
      BY <1>5 DEF MayPoll, CallPolling, objects
<1>6. ASSUME NEW t \in Threads, LockAddMsg(t)
      PROVE  Locks'
      BY <1>6 DEF LockAddMsg
<1>7. ASSUME NEW t \in Threads, PushMsg(t)
      PROVE  Locks'
      BY <1>7 DEF PushMsg
<1>8. ASSUME NEW t \in Threads, LockPolling(t)
      PROVE  Locks'
      BY <1>8 DEF LockPolling
<1>9. ASSUME NEW t \in Threads, ParseMsg(t)
      PROVE  Locks'
      BY <1>9 DEF ParseMsg, objects
<1>10. ASSUME NEW t \in Threads, DropGarbled(t)
      PROVE  Locks'
      BY <1>10 DEF DropGarbled, objects, frames
<1>11. ASSUME NEW t \in Threads, DropUnhandled(t)
      PROVE  Locks'
      BY <1>11 DEF DropUnhandled, objects
<1>12. ASSUME NEW t \in Threads, CallHandler(t)
      PROVE  Locks'
      BY <1>12 DEF CallHandler, objects
<1>13. ASSUME NEW t \in Threads, HandlerReturns(t)
      PROVE  Locks'
      BY <1>13 DEF HandlerReturns, objects
<1>14. ASSUME NEW t \in Threads, EndPolling(t)
      PROVE  Locks'
      BY <1>14 DEF EndPolling
<1>15. CASE UNCHANGED vars
      BY <1>15 DEF vars
<1>16. QED
      BY <1>1, <1>2, <1>3, <1>4, <1>5, <1>6, <1>7, <1>8, <1>9, <1>10, <1>11,
         <1>12, <1>13, <1>14, <1>15 DEF Next, Step, Advance

-----------------------------------------------------------------------------
(* The pass of polling over the vector.                                    *)

ItInBounds == \A c \in Channels : it[c] <= Len(vecData[c])

DeadEmpty == \A c \in Channels : c \notin live => vecData[c] = <<>> /\ it[c] = 0

Scan == ItInBounds /\ MsgIsCurrent /\ DeadEmpty

LEMMA ScanInit == Init => Scan
BY DEF Init, Scan, ItInBounds, MsgIsCurrent, DeadEmpty

LEMMA ScanNext == Typed /\ Locks /\ Scan /\ [Next]_vars => Scan'
<1> SUFFICES ASSUME Typed, Locks, Scan, [Next]_vars
             PROVE  Scan'
    OBVIOUS
<1> USE ChanAssumption DEF Typed, VarsOK, FramesOK, Locks, MutualExclusion, NoLockLeaked,
        InsideLive, OneChanPolled, Inside, Polls, Scan, ItInBounds, MsgIsCurrent, DeadEmpty
<1>1. ASSUME NEW c \in Channels, c \notin live, New(c)
      PROVE  Scan'
      BY <1>1 DEF New, frames
<1>2. ASSUME NEW c \in Channels, MayDelete(c), Delete(c)
      PROVE  Scan'
      BY <1>2 DEF MayDelete, Delete, frames
<1>3. ASSUME NEW cs \in SUBSET live, NEW o \in Ops, RegisterOps(cs, o)
      PROVE  Scan'
      BY <1>3 DEF RegisterOps, frames
<1>4. ASSUME NEW t \in Threads, NEW c \in Channels, NEW d \in Data,
             MayAddMsg(c), CallAddMsg(t, c, d)
      PROVE  Scan'
      BY <1>4 DEF MayAddMsg, CallAddMsg, objects
<1>5. ASSUME NEW t \in Threads, NEW c \in Channels, MayPoll(c), CallPolling(t, c)
      PROVE  Scan'
      BY <1>5 DEF MayPoll, CallPolling, objects
<1>6. ASSUME NEW t \in Threads, LockAddMsg(t)
      PROVE  Scan'
      BY <1>6 DEF LockAddMsg
<1>7. ASSUME NEW t \in Threads, PushMsg(t)
      PROVE  Scan'
      BY <1>7 DEF PushMsg
<1>8. ASSUME NEW t \in Threads, LockPolling(t)
      PROVE  Scan'
      BY <1>8 DEF LockPolling
<1>9. ASSUME NEW t \in Threads, ParseMsg(t)
      PROVE  Scan'
      BY <1>9 DEF ParseMsg, objects
<1>10. ASSUME NEW t \in Threads, DropGarbled(t)
      PROVE  Scan'
      BY <1>10 DEF DropGarbled, objects, frames
<1>11. ASSUME NEW t \in Threads, DropUnhandled(t)
      PROVE  Scan'
      BY <1>11 DEF DropUnhandled, objects
<1>12. ASSUME NEW t \in Threads, CallHandler(t)
      PROVE  Scan'
      BY <1>12 DEF CallHandler, objects
<1>13. ASSUME NEW t \in Threads, HandlerReturns(t)
      PROVE  Scan'
      BY <1>13 DEF HandlerReturns, objects
<1>14. ASSUME NEW t \in Threads, EndPolling(t)
      PROVE  Scan'
      BY <1>14 DEF EndPolling
<1>15. CASE UNCHANGED vars
      BY <1>15 DEF vars
<1>16. QED
      BY <1>1, <1>2, <1>3, <1>4, <1>5, <1>6, <1>7, <1>8, <1>9, <1>10, <1>11,
         <1>12, <1>13, <1>14, <1>15 DEF Next, Step, Advance
-----------------------------------------------------------------------------
(* The invariants of the specification.                                    *)

IInv == Typed /\ Locks /\ Scan

\* The inductive invariant holds throughout.
THEOREM Invariant == Spec => []IInv
<1>1. Init => IInv
      BY TypedInit, LocksInit, ScanInit DEF IInv
<1>2. IInv /\ [Next]_vars => IInv'
      BY TypedNext, LocksNext, ScanNext DEF IInv
<1>3. QED
      BY <1>1, <1>2, PTL DEF Spec

\* Type correctness of every Chan, its iterator included.
THEOREM TypeCorrect == Spec => []TypeOK
<1>1. IInv => TypeOK
      BY DEF IInv, Typed, Scan, ItInBounds, TypeOK
<1>2. QED
      BY <1>1, Invariant, PTL

\* The mutex of a Chan excludes (Chan.cpp:39-68, 78-86).
THEOREM Exclusive == Spec => []MutualExclusion
<1>1. IInv => MutualExclusion
      BY DEF IInv, Locks
<1>2. QED
      BY <1>1, Invariant, PTL

\* No path of addMsg or polling leaves the mutex of a Chan locked.
THEOREM LockReleased == Spec => []NoLockLeaked
<1>1. IInv => NoLockLeaked
      BY DEF IInv, Locks
<1>2. QED
      BY <1>1, Invariant, PTL

\* The static Message of polling is not overwritten while it is in use.
THEOREM MsgCurrent == Spec => []MsgIsCurrent
<1>1. IInv => MsgIsCurrent
      BY DEF IInv, Scan
<1>2. QED
      BY <1>1, Invariant, PTL

-----------------------------------------------------------------------------
(* What is left of a sequence after its first i elements.                  *)

LEMMA RestAppend ==
    ASSUME NEW S, NEW s \in Seq(S), NEW d \in S, NEW i \in Nat, i <= Len(s)
    PROVE  SubSeq(Append(s, d), i + 1, Len(Append(s, d)))
              = Append(SubSeq(s, i + 1, Len(s)), d)
<1> DEFINE n == Len(s)
           a == Append(s, d)
           l == SubSeq(a, i + 1, n + 1)
           q == SubSeq(s, i + 1, n)
           r == Append(q, d)
<1>1. /\ n \in Nat /\ i \in Int /\ i <= n
      /\ a \in Seq(S) /\ Len(a) = n + 1 /\ a[n + 1] = d
      /\ \A j \in 1 .. n : a[j] = s[j]
      BY LenProperties, AppendProperties
<1>2. /\ \A j \in i + 1 .. n : s[j] \in S
      /\ \A j \in i + 1 .. n + 1 : a[j] \in S
      BY <1>1, ElementOfSeq
<1> HIDE DEF n, a
<1>3. /\ l \in Seq(S)
      /\ Len(l) = n + 1 - i
      /\ \A j \in 1 .. n + 1 - i : l[j] = a[i + j]
      BY <1>1, <1>2, SubSeqProperties
<1>4. /\ q \in Seq(S)
      /\ Len(q) = n - i
      /\ \A j \in 1 .. n - i : q[j] = s[i + j]
      BY <1>1, <1>2, SubSeqProperties
<1> HIDE DEF l, q
<1>5. /\ r \in Seq(S)
      /\ Len(r) = n + 1 - i
      /\ \A j \in 1 .. n - i : r[j] = q[j]
      /\ r[n - i + 1] = d
      <2>1. /\ Append(q, d) \in Seq(S)
            /\ Len(Append(q, d)) = Len(q) + 1
            /\ \A j \in 1 .. Len(q) : Append(q, d)[j] = q[j]
            /\ Append(q, d)[Len(q) + 1] = d
            BY <1>4, AppendProperties
      <2>2. Len(q) + 1 = n + 1 - i /\ Len(q) + 1 = n - i + 1
            BY <1>1, <1>4
      <2>3. QED
            BY <1>4, <2>1, <2>2
<1> HIDE DEF r
<1>6. ASSUME NEW j \in 1 .. Len(l)
      PROVE  l[j] = r[j]
      <2>1. CASE j \in 1 .. n - i
            BY <1>1, <1>3, <1>4, <1>5, <2>1
      <2>2. CASE j = n - i + 1
            BY <1>1, <1>3, <1>5, <2>2
      <2>3. QED
            BY <1>1, <1>3, <2>1, <2>2
<1>7. l = r
      BY <1>3, <1>5, <1>6, SeqEqual
<1>8. QED
      BY <1>1, <1>7 DEF l, r, q, a, n

LEMMA RestEmpty ==
    ASSUME NEW S, NEW s \in Seq(S)
    PROVE  SubSeq(s, Len(s) + 1, Len(s)) = <<>>
BY SubSeqEmpty, LenProperties

LEMMA RestHeadTail ==
    ASSUME NEW S, NEW s \in Seq(S), NEW i \in Nat, i < Len(s)
    PROVE  LET r == SubSeq(s, i + 1, Len(s))
           IN  /\ r # <<>>
               /\ Head(r) = s[i + 1]
               /\ Tail(r) = SubSeq(s, i + 1 + 1, Len(s))
<1>1. Len(s) \in Nat /\ i + 1 \in 1 .. Len(s) /\ Len(s) \in i + 1 .. Len(s)
      BY LenProperties
<1>2. \A j \in i + 1 .. Len(s) : s[j] \in S
      BY <1>1, ElementOfSeq
<1>3. Len(SubSeq(s, i + 1, Len(s))) = Len(s) - i
      BY <1>1, <1>2, SubSeqProperties
<1>4. SubSeq(s, i + 1, Len(s)) # <<>>
      <2> DEFINE r == SubSeq(s, i + 1, Len(s))
      <2>1. Len(r) = Len(s) - i
            BY <1>3, Zenon
      <2> HIDE DEF r
      <2>2. Len(r) # 0 /\ Len(<<>>) = 0
            BY <1>1, <2>1
      <2>3. r # <<>>
            BY <2>2, Zenon
      <2>4. QED
            BY <2>3 DEF r
<1>5. QED
      BY <1>1, <1>4, HeadTailOfSubSeq

-----------------------------------------------------------------------------
(* A step of Chan is a step of Mailbox or leaves its state alone.          *)

LEMMA MailboxInit == Init => M!Init
<1> SUFFICES ASSUME Init
             PROVE  M!Init
    OBVIOUS
<1>1. \A c \in Channels : Unread(c) = <<>>
      BY SubSeqEmpty DEF Init, Unread
<1>2. \A c \in Channels : Running(c) = NoData
      BY DEF Init, Running
<1>3. QED
      BY <1>1, <1>2 DEF Init, M!Init

LEMMA MailboxNext == IInv /\ [Next]_vars => [M!Next]_(M!vars)
<1> SUFFICES ASSUME IInv, [Next]_vars
             PROVE  M!Next \/ UNCHANGED M!vars
    BY DEF M!vars
<1> USE ChanAssumption DEF IInv, Typed, VarsOK, FramesOK
<1> DEFINE U == \A c \in Channels : Unread(c)' = Unread(c)
           R == \A c \in Channels : Running(c)' = Running(c)
<1>0. ASSUME UNCHANGED <<live, opsHandler>>, U, R
      PROVE  UNCHANGED M!vars
      BY <1>0 DEF M!vars
<1>1. ASSUME NEW c \in Channels, c \notin live, New(c)
      PROVE  M!Open(c)
      <2>1. U
            BY <1>1, RestEmpty, SubSeqEmpty DEF New, frames, Unread, Scan, DeadEmpty
      <2>2. R
            BY <1>1 DEF New, frames, Running, Locks, NoLockLeaked, InsideLive, Inside
      <2>3. QED
            BY <1>1, <2>1, <2>2 DEF New, M!Open
<1>2. ASSUME NEW c \in Channels, MayDelete(c), Delete(c)
      PROVE  M!Close(c)
      <2>1. /\ Unread(c)' = <<>>
            /\ \A x \in Channels \ {c} : Unread(x)' = Unread(x)
            BY <1>2, SubSeqEmpty DEF Delete, frames, Unread
      <2>2. R /\ Running(c) = NoData
            BY <1>2 DEF Delete, MayDelete, frames, Running, Locks, NoLockLeaked
      <2>3. QED
            BY <1>2, <2>1, <2>2 DEF Delete, MayDelete, M!Close
<1>3. ASSUME NEW cs \in SUBSET live, NEW o \in Ops, RegisterOps(cs, o)
      PROVE  M!Register(cs, o)
      <2>1. U /\ R
            BY <1>3 DEF RegisterOps, frames, Unread, Running
      <2>2. QED
            BY <1>3, <2>1 DEF RegisterOps, M!Register
<1>4. ASSUME NEW t \in Threads, NEW c \in Channels, NEW d \in Data, CallAddMsg(t, c, d)
      PROVE  UNCHANGED M!vars
      <2>1. U
            BY <1>4 DEF CallAddMsg, objects, Unread
      <2>2. R
            BY <1>4 DEF CallAddMsg, objects, Running, Locks, NoLockLeaked, Inside
      <2>3. QED
            BY <1>0, <1>4, <2>1, <2>2 DEF CallAddMsg, objects
<1>5. ASSUME NEW t \in Threads, NEW c \in Channels, CallPolling(t, c)
      PROVE  UNCHANGED M!vars
      <2>1. U
            BY <1>5 DEF CallPolling, objects, Unread
      <2>2. R
            BY <1>5 DEF CallPolling, objects, Running, Locks, NoLockLeaked, Inside
      <2>3. QED
            BY <1>0, <1>5, <2>1, <2>2 DEF CallPolling, objects
<1>6. ASSUME NEW t \in Threads, LockAddMsg(t)
      PROVE  UNCHANGED M!vars
      <2>1. U
            BY <1>6 DEF LockAddMsg, Unread
      <2>2. R
            BY <1>6 DEF LockAddMsg, Running, Locks, NoLockLeaked, Inside
      <2>3. QED
            BY <1>0, <1>6, <2>1, <2>2 DEF LockAddMsg
<1>7. ASSUME NEW t \in Threads, PushMsg(t),
             NEW c \in Channels, this[t] = c
      PROVE  M!Post(c, arg[t])
      <2>1. c \in live /\ arg[t] \in Data
            BY <1>7 DEF PushMsg, Locks, InsideLive
      <2>2. Unread(c)' = Append(Unread(c), arg[t])
            <3>1. /\ vecData[c] \in Seq(Data)
                  /\ it[c] \in Nat
                  /\ it[c] <= Len(vecData[c])
                  BY DEF Scan, ItInBounds
            <3>2. /\ vecData'[c] = Append(vecData[c], arg[t])
                  /\ it' = it
                  BY <1>7 DEF PushMsg
            <3>3. SubSeq(vecData'[c], it'[c] + 1, Len(vecData'[c]))
                     = Append(Unread(c), arg[t])
                  BY <2>1, <3>1, <3>2, RestAppend DEF Unread
            <3>4. QED
                  BY <3>3 DEF Unread
      <2>3. \A x \in Channels \ {c} : Unread(x)' = Unread(x)
            BY <1>7 DEF PushMsg, Unread
      <2>4. R
            BY <1>7 DEF PushMsg, Running, Locks, NoLockLeaked, MutualExclusion, Inside
      <2>5. QED
            BY <1>7, <2>1, <2>2, <2>3, <2>4 DEF PushMsg, M!Post
<1>8. ASSUME NEW t \in Threads, LockPolling(t)
      PROVE  UNCHANGED M!vars
      <2>1. U
            BY <1>8 DEF LockPolling, Unread
      <2>2. R
            BY <1>8 DEF LockPolling, Running, Locks, NoLockLeaked, Inside
      <2>3. QED
            BY <1>0, <1>8, <2>1, <2>2 DEF LockPolling
<1>9. ASSUME NEW t \in Threads, ParseMsg(t)
      PROVE  UNCHANGED M!vars
      <2>1. U
            BY <1>9 DEF ParseMsg, objects, Unread
      <2>2. R
            BY <1>9 DEF ParseMsg, objects, Running
      <2>3. QED
            BY <1>0, <1>9, <2>1, <2>2 DEF ParseMsg, objects
<1>10. ASSUME NEW t \in Threads, NEW c \in Channels, at[t] \in {"scan", "parsed"},
              this[t] = c,
              it[c] < Len(vecData[c]),
              it' = [it EXCEPT ![c] = @ + 1], UNCHANGED vecData
       PROVE  /\ c \in live
              /\ Unread(c) # <<>>
              /\ Head(Unread(c)) = vecData[c][it[c] + 1]
              /\ Unread(c)' = Tail(Unread(c))
              /\ \A x \in Channels \ {c} : Unread(x)' = Unread(x)
              /\ Running(c) = NoData
       <2>1. c \in live
             BY <1>10 DEF Locks, InsideLive
       <2>2. vecData[c] \in Seq(Data) /\ it[c] \in Nat
             BY <2>1
       <2>3. /\ Unread(c) # <<>>
             /\ Head(Unread(c)) = vecData[c][it[c] + 1]
             /\ Tail(Unread(c))
                   = SubSeq(vecData[c], it[c] + 1 + 1, Len(vecData[c]))
             BY <1>10, <2>2, RestHeadTail DEF Unread
       <2>4. Unread(c)' = Tail(Unread(c))
             BY <1>10, <2>1, <2>3 DEF Unread
       <2>5. \A x \in Channels \ {c} : Unread(x)' = Unread(x)
             BY <1>10 DEF Unread
       <2>6. Running(c) = NoData
             BY <1>10, <2>1 DEF Running, Locks, MutualExclusion, Inside
       <2>7. QED
             BY <2>1, <2>3, <2>4, <2>5, <2>6
<1>11. ASSUME NEW t \in Threads, DropGarbled(t),
              NEW c \in Channels, this[t] = c
       PROVE  M!Skip(c)
       <2>1. R
             BY <1>11 DEF DropGarbled, objects, frames, Running
       <2>2. vecData[c][it[c] + 1] \notin opsHandler[c]
             BY <1>11 DEF DropGarbled
       <2>3. /\ c \in live
             /\ Unread(c) # <<>>
             /\ Head(Unread(c)) = vecData[c][it[c] + 1]
             /\ Unread(c)' = Tail(Unread(c))
             /\ \A x \in Channels \ {c} : Unread(x)' = Unread(x)
             /\ Running(c) = NoData
             <3>1. /\ at[t] \in {"scan", "parsed"}
                   /\ it[c] < Len(vecData[c])
                   /\ it' = [it EXCEPT ![c] = @ + 1]
                   /\ vecData' = vecData
                   BY <1>11 DEF DropGarbled, objects
             <3>2. QED
                   BY <1>10, <1>11, <3>1
       <2>4. QED
             BY <1>11, <2>1, <2>2, <2>3 DEF DropGarbled, objects, M!Skip
<1>12. ASSUME NEW t \in Threads, DropUnhandled(t),
              NEW c \in Channels, this[t] = c
       PROVE  M!Skip(c)
       <2>1. R
             BY <1>12 DEF DropUnhandled, objects, Running
       <2>2. it[c] < Len(vecData[c]) /\ msg = vecData[c][it[c] + 1]
             BY <1>12 DEF DropUnhandled, Scan, MsgIsCurrent
       <2>3. /\ c \in live
             /\ Unread(c) # <<>>
             /\ Head(Unread(c)) = vecData[c][it[c] + 1]
             /\ Unread(c)' = Tail(Unread(c))
             /\ \A x \in Channels \ {c} : Unread(x)' = Unread(x)
             /\ Running(c) = NoData
             <3>1. /\ at[t] \in {"scan", "parsed"}
                   /\ it[c] < Len(vecData[c])
                   /\ it' = [it EXCEPT ![c] = @ + 1]
                   /\ vecData' = vecData
                   BY <1>12, <2>2 DEF DropUnhandled, objects
             <3>2. QED
                   BY <1>10, <1>12, <3>1
       <2>4. QED
             BY <1>12, <2>1, <2>2, <2>3 DEF DropUnhandled, objects, M!Skip
<1>13. ASSUME NEW t \in Threads, CallHandler(t),
              NEW c \in Channels, this[t] = c
       PROVE  M!Handle(c)
       <2>1. it[c] < Len(vecData[c]) /\ msg = vecData[c][it[c] + 1]
             BY <1>13 DEF CallHandler, Scan, MsgIsCurrent
       <2>2. mutexData[c] = t
             BY <1>13 DEF CallHandler, Locks, MutualExclusion, Inside
       <2>3. /\ Running(c)' = msg
             /\ \A x \in Channels \ {c} : Running(x)' = Running(x)
             BY <1>13, <2>2 DEF CallHandler, objects, Running, Locks, NoLockLeaked
       <2>4. /\ c \in live
             /\ Unread(c) # <<>>
             /\ Head(Unread(c)) = vecData[c][it[c] + 1]
             /\ Unread(c)' = Tail(Unread(c))
             /\ \A x \in Channels \ {c} : Unread(x)' = Unread(x)
             /\ Running(c) = NoData
             <3>1. /\ at[t] \in {"scan", "parsed"}
                   /\ it[c] < Len(vecData[c])
                   /\ it' = [it EXCEPT ![c] = @ + 1]
                   /\ vecData' = vecData
                   BY <1>13, <2>1 DEF CallHandler, objects
             <3>2. QED
                   BY <1>10, <1>13, <3>1
       <2>5. QED
             BY <1>13, <2>1, <2>3, <2>4 DEF CallHandler, objects, M!Handle
<1>14. ASSUME NEW t \in Threads, HandlerReturns(t),
              NEW c \in Channels, this[t] = c
       PROVE  M!Return(c)
       <2>1. U
             BY <1>14 DEF HandlerReturns, objects, Unread
       <2>2. c \in live /\ mutexData[c] = t
             BY <1>14 DEF HandlerReturns, Locks, MutualExclusion, InsideLive, Inside
       <2>3. /\ Running(c) # NoData
             /\ Running(c)' = NoData
             /\ \A x \in Channels \ {c} : Running(x)' = Running(x)
             BY <1>14, <2>2 DEF HandlerReturns, objects, Running, Locks, NoLockLeaked
       <2>4. QED
             BY <1>14, <2>1, <2>2, <2>3 DEF HandlerReturns, objects, M!Return
<1>15. ASSUME NEW t \in Threads, EndPolling(t),
              NEW c \in Channels, this[t] = c
       PROVE  UNCHANGED M!vars
       <2>1. mutexData[c] = t
             BY <1>15 DEF EndPolling, Locks, MutualExclusion, Inside
       <2>2. Unread(c) = <<>>
             BY <1>15, <2>1, RestEmpty DEF EndPolling, Unread
       <2>3. Unread(c)' = <<>>
             BY <1>15, <2>1, SubSeqEmpty DEF EndPolling, Unread
       <2>4. \A x \in Channels \ {c} : Unread(x)' = Unread(x)
             BY <1>15 DEF EndPolling, Unread
       <2>5. R
             BY <1>15, <2>1 DEF EndPolling, Running, Locks, NoLockLeaked
       <2>6. QED
             BY <1>0, <1>15, <2>2, <2>3, <2>4, <2>5 DEF EndPolling
<1>16. CASE UNCHANGED vars
       BY <1>0, <1>16 DEF vars, Unread, Running
<1>17. ASSUME NEW c \in Channels, NEW d \in Data,
              M!Open(c) \/ M!Close(c) \/ M!Post(c, d) \/ M!Handle(c)
                \/ M!Return(c) \/ M!Skip(c)
       PROVE  M!Next
       BY <1>17 DEF M!Next
<1>18. Garbled \in Data
       BY DEF Data
<1>19. ASSUME NEW t \in Threads, Step(t)
       PROVE  M!Next \/ UNCHANGED M!vars
       <2>1. CASE LockAddMsg(t)
             BY <1>6, <2>1
       <2>2. CASE LockPolling(t)
             BY <1>8, <2>2
       <2>3. CASE ParseMsg(t)
             BY <1>9, <2>3
       <2>4. CASE PushMsg(t)
             <3>1. PICK c \in Channels : this[t] = c
                   BY <2>4 DEF PushMsg
             <3>2. M!Post(c, arg[t])
                   BY <1>7, <2>4, <3>1, Zenon
             <3>3. arg[t] \in Data
                   BY <2>4 DEF PushMsg
             <3>4. QED
                   BY <1>17, <3>2, <3>3
       <2>5. CASE DropGarbled(t)
             <3>1. PICK c \in Channels : this[t] = c
                   BY <2>5 DEF DropGarbled
             <3>2. M!Skip(c)
                   BY <1>11, <2>5, <3>1, Zenon
             <3>3. QED
                   BY <1>17, <1>18, <3>2
       <2>6. CASE DropUnhandled(t)
             <3>1. PICK c \in Channels : this[t] = c
                   BY <2>6 DEF DropUnhandled
             <3>2. M!Skip(c)
                   BY <1>12, <2>6, <3>1, Zenon
             <3>3. QED
                   BY <1>17, <1>18, <3>2
       <2>7. CASE CallHandler(t)
             <3>1. PICK c \in Channels : this[t] = c
                   BY <2>7 DEF CallHandler
             <3>2. M!Handle(c)
                   BY <1>13, <2>7, <3>1, Zenon
             <3>3. QED
                   BY <1>17, <1>18, <3>2
       <2>8. CASE HandlerReturns(t)
             <3>1. PICK c \in Channels : this[t] = c
                   BY <2>8 DEF HandlerReturns
             <3>2. M!Return(c)
                   BY <1>14, <2>8, <3>1, Zenon
             <3>3. QED
                   BY <1>17, <1>18, <3>2
       <2>9. CASE EndPolling(t)
             <3>1. PICK c \in Channels : this[t] = c
                   BY <2>9 DEF EndPolling
             <3>2. QED
                   BY <1>15, <2>9, <3>1, Zenon
       <2>10. QED
             BY <1>19, <2>1, <2>2, <2>3, <2>4, <2>5, <2>6, <2>7, <2>8, <2>9
             DEF Step, Advance
<1>20. ASSUME NEW cs \in SUBSET live, NEW o \in Ops, RegisterOps(cs, o)
       PROVE  M!Next
       BY <1>3, <1>20 DEF M!Next
<1>21. QED
       <2>1. CASE \E c \in Channels : c \notin live /\ New(c)
             BY <1>1, <1>17, <1>18, <2>1
       <2>2. CASE \E c \in Channels : MayDelete(c) /\ Delete(c)
             BY <1>2, <1>17, <1>18, <2>2
       <2>3. QED
             BY <1>4, <1>5, <1>16, <1>19, <1>20, <2>1, <2>2 DEF Next

\* The promise of a Chan: every message accepted is handed once and in order
\* to the handler of its type or dropped for want of one, one handler at a
\* time, and nothing unread is lost when polling clears the vector.
THEOREM ImplementsMailbox == Spec => MailboxSpec
<1>1. Spec => M!Init
      BY MailboxInit DEF Spec
<1>2. Spec => [][M!Next]_(M!vars)
      BY Invariant, MailboxNext, PTL DEF Spec
<1>3. QED
      BY <1>1, <1>2 DEF MailboxSpec, M!Spec
=============================================================================
