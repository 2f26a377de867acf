------------------------------ MODULE AeProofs ------------------------------
(***************************************************************************)
(* Proofs about the event loop of Ae, for a set of any size, any number of *)
(* timers, and any delays and periods.                                     *)
(***************************************************************************)
EXTENDS Ae, SequenceTheorems, TLAPS

\* Events are held only while they are processed, so that nothing refers to a
\* descriptor when the set is resized.
Held ==
    /\ fired # {} => pc \in {"files", "rproc", "write", "wproc"}
    /\ cur # NoEvent => pc \in {"rproc", "write", "wproc"}

\* Each timer is in the list once, with an id that has been given out.
Distinct ==
    /\ \A i, j \in 1 .. Len(timers) : timers[i].id = timers[j].id => i = j
    /\ \A i \in 1 .. Len(timers) : timers[i].id < nextId

\* A timer that the pass calls, or that may become one, is of the pass.
PassKnown ==
    /\ maxId < nextId
    /\ pc \notin {"timers", "tproc"} => maxId = -1
    /\ \A i \in 1 .. Len(timers) :
          timers[i].id <= maxId /\ (Slow \/ timers[i].left <= 0) => timers[i].id \in pass

\* While nothing but polling takes time: what is left of each timer's time, as
\* far as the clock's movement since lastTime explains.
Punctual ==
    ~Slow =>
        /\ pc = "poll" => Within(-since)
        /\ pc \in {"files", "rproc", "write", "wproc"} =>
              Within(IF since < 0 THEN -since ELSE 0)
        /\ pc \in {"app", "hook", "timers", "tproc"} => since = 0 /\ Within(0)

IInv ==
    /\ TypeOK /\ Held
    /\ MaxfdExact
    /\ PassComplete /\ Distinct /\ PassKnown /\ OncePerPass
    /\ Punctual

Timers == [id : 0 .. MaxTimers - 1, set : Nat, left : Int]

LEMMA Initially == Init => IInv
<1> SUFFICES ASSUME Init PROVE IInv
  OBVIOUS
<1> USE AeAssumption DEF Init
<1>1. TypeOK
  <2>1. timers \in Seq(Timers) /\ Len(timers) = 0
    BY EmptySeq
  <2>2. fired \subseteq [fd : Fds, mask : SUBSET Mask]
        /\ cur \in [fd : Fds, mask : SUBSET Mask] \cup {NoEvent}
    OBVIOUS
  <2>3. /\ setsize \in 1 .. MaxSize /\ maxfd \in -1 .. setsize - 1
        /\ te \in 1 .. MaxTimers + 1
        /\ maxId \in -1 .. MaxTimers - 1
        /\ running \in -1 .. MaxTimers - 1
        /\ pass \subseteq 0 .. MaxTimers - 1
        /\ nextId \in 0 .. MaxTimers
        /\ since \in -backs .. MaxBack /\ backs \in 0 .. MaxBack
    BY DEF None
  <2>4. mask \in [Fds -> SUBSET Mask]
    OBVIOUS
  <2>5. stop \in BOOLEAN /\ rfired \in BOOLEAN
    OBVIOUS
  <2>6. Len(timers) <= nextId
    BY <2>1
  <2> QED
    BY <2>1, <2>2, <2>3, <2>4, <2>5, <2>6 DEF TypeOK, Timers
<1>2. Held /\ MaxfdExact
  BY DEF Held, MaxfdExact, IsHighest, Fds
<1>3. PassComplete /\ Distinct /\ PassKnown /\ OncePerPass /\ Punctual
  <2>1. Len(timers) = 0
    BY EmptySeq
  <2> QED
    BY <2>1 DEF PassComplete, Distinct, PassKnown, OncePerPass, Punctual, Within
<1> QED
  BY <1>1, <1>2, <1>3 DEF IInv

-----------------------------------------------------------------------------
(* The list of timers.                                                     *)

\* Unlinking keeps the list a list, and makes it no longer.
LEMMA UnlinkType ==
    ASSUME TypeOK, NEW id, Unlink(id)
    PROVE  timers' \in Seq(Timers) /\ Len(timers') <= Len(timers)
<1>1. timers \in Seq(Timers)
  BY DEF TypeOK, Timers
<1>2. Len(timers) \in Nat /\ \A j \in 1 .. Len(timers) : timers[j] \in Timers
  BY <1>1, ElementOfSeq, LenProperties
<1>3. CASE id \in Ids
  <2>1. PICK i \in 1 .. Len(timers) :
          timers' = SubSeq(timers, 1, i - 1) \o SubSeq(timers, i + 1, Len(timers))
    BY <1>3 DEF Unlink
  <2> DEFINE front == SubSeq(timers, 1, i - 1)
             back  == SubSeq(timers, i + 1, Len(timers))
  <2>2. i \in Int /\ i - 1 \in Int /\ i + 1 \in Int /\ 1 <= i /\ i <= Len(timers)
    BY <1>2
  <2>3. front \in Seq(Timers) /\ Len(front) = i - 1
    <3>1. \A j \in 1 .. i - 1 : timers[j] \in Timers
      BY <1>2, <2>2
    <3> QED
      BY <2>2, <3>1, SubSeqProperties
  <2>4. back \in Seq(Timers) /\ Len(back) = Len(timers) - i
    <3>1. \A j \in i + 1 .. Len(timers) : timers[j] \in Timers
      BY <1>2, <2>2
    <3> QED
      BY <1>2, <2>2, <3>1, SubSeqProperties
  <2>5. timers' = front \o back
    BY <2>1
  <2> HIDE DEF front, back
  <2>6. timers' \in Seq(Timers) /\ Len(timers') = Len(front) + Len(back)
    BY <2>3, <2>4, <2>5, ConcatProperties
  <2> QED
    BY <1>2, <2>2, <2>3, <2>4, <2>6
<1>4. CASE id \notin Ids
  BY <1>1, <1>2, <1>4 DEF Unlink
<1> QED
  BY <1>3, <1>4

\* Setting times anew keeps the list and its length.
LEMMA SameLength ==
    ASSUME TypeOK, NEW f \in [1 .. Len(timers) -> Timers]
    PROVE  f \in Seq(Timers) /\ Len(f) = Len(timers)
<1>1. Len(timers) \in Nat
  BY LenProperties DEF TypeOK
<1> QED
  BY <1>1, IsASeq, LenProperties

LEMMA TimerType ==
    ASSUME TypeOK, NEW i \in 1 .. Len(timers)
    PROVE  /\ timers[i] \in Timers
           /\ timers[i].id \in 0 .. MaxTimers - 1
           /\ timers[i].left \in Int
           /\ timers[i].set \in Nat
<1>1. timers[i] \in Timers
  BY ElementOfSeq DEF TypeOK, Timers
<1> QED
  BY <1>1 DEF Timers

LEMMA SetTimer ==
    ASSUME NEW e \in Timers, NEW r \in Int
    PROVE  LET f == [e EXCEPT !.left = r]
           IN  f \in Timers /\ f.left = r /\ f.set = e.set /\ f.id = e.id
BY DEF Timers

LEMMA RearmType ==
    ASSUME TypeOK, NEW r \in Periods, Rearm(r)
    PROVE  /\ timers' \in Seq(Timers) /\ Len(timers') = Len(timers)
           /\ \A i \in 1 .. Len(timers) :
                 /\ timers'[i].id = timers[i].id
                 /\ IF timers[i].id = running
                    THEN timers'[i].left = r /\ timers'[i].set = r
                    ELSE timers'[i] = timers[i]
<1> DEFINE f == [i \in 1 .. Len(timers) |->
                   IF timers[i].id = running THEN [id |-> running, set |-> r, left |-> r]
                   ELSE timers[i]]
<1>1. ASSUME NEW i \in 1 .. Len(timers)
      PROVE  /\ f[i] \in Timers
             /\ f[i].id = timers[i].id
             /\ IF timers[i].id = running
                THEN f[i].left = r /\ f[i].set = r
                ELSE f[i] = timers[i]
  <2>1. timers[i] \in Timers /\ r \in Nat
    BY AeAssumption, TimerType
  <2> QED
    BY <2>1 DEF Timers
<1>2. f \in [1 .. Len(timers) -> Timers]
  BY <1>1
<1>3. timers' = f
  BY DEF Rearm
<1> HIDE DEF f
<1> QED
  BY <1>1, <1>2, <1>3, SameLength

LEMMA ClockType ==
    ASSUME TypeOK, BeginTimers \/ Tick \/ \E b \in 1 .. MaxBack - backs : SetBack(b)
    PROVE  /\ timers' \in Seq(Timers) /\ Len(timers') = Len(timers)
           /\ since' \in -backs' .. MaxBack /\ backs' \in 0 .. MaxBack
<1> USE AeAssumption
<1>1. since \in -backs .. MaxBack /\ backs \in 0 .. MaxBack /\ MaxBack \in Nat /\ -MaxBack \in Int
  BY DEF TypeOK
<1>2. CASE BeginTimers
  <2> DEFINE f == [i \in 1 .. Len(timers) |->
                     IF since < 0 THEN Overdue(timers[i]) ELSE timers[i]]
  <2>1. f \in [1 .. Len(timers) -> Timers]
    BY <1>1, TimerType, SetTimer DEF Overdue
  <2>2. timers' = f
    BY <1>2 DEF BeginTimers
  <2>3. since' \in -backs' .. MaxBack /\ backs' \in 0 .. MaxBack
    BY <1>1, <1>2 DEF BeginTimers
  <2> HIDE DEF f
  <2> QED
    BY <2>1, <2>2, <2>3, SameLength
<1>3. CASE Tick
  <2> DEFINE f == [i \in 1 .. Len(timers) |->
                     [timers[i] EXCEPT !.left = IF @ = -MaxBack THEN @ ELSE @ - 1]]
  <2>1. f \in [1 .. Len(timers) -> Timers]
    <3>1. ASSUME NEW i \in 1 .. Len(timers) PROVE f[i] \in Timers
      <4>1. (IF timers[i].left = -MaxBack THEN timers[i].left ELSE timers[i].left - 1) \in Int
        BY TimerType
      <4> QED
        BY <4>1, TimerType, SetTimer
    <3> QED
      BY <3>1
  <2>2. timers' = f
    BY <1>3 DEF Tick
  <2>3. since' \in -backs' .. MaxBack /\ backs' \in 0 .. MaxBack
    BY <1>1, <1>3 DEF Tick
  <2> HIDE DEF f
  <2> QED
    BY <2>1, <2>2, <2>3, SameLength
<1>4. ASSUME NEW b \in 1 .. MaxBack - backs, SetBack(b)
      PROVE  /\ timers' \in Seq(Timers) /\ Len(timers') = Len(timers)
             /\ since' \in -backs' .. MaxBack /\ backs' \in 0 .. MaxBack
  <2> DEFINE f == [i \in 1 .. Len(timers) |-> [timers[i] EXCEPT !.left = @ + b]]
  <2>1. f \in [1 .. Len(timers) -> Timers]
    <3>1. ASSUME NEW i \in 1 .. Len(timers) PROVE f[i] \in Timers
      <4>1. timers[i].left + b \in Int
        BY <1>1, TimerType
      <4> QED
        BY <4>1, TimerType, SetTimer
    <3> QED
      BY <3>1
  <2>2. timers' = f
    BY <1>4 DEF SetBack
  <2>3. since' \in -backs' .. MaxBack /\ backs' \in 0 .. MaxBack
    <3>1. b \in Int /\ 1 <= b /\ b <= MaxBack - backs
      BY <1>1
    <3>2. since' = since - b /\ backs' = backs + b
      BY <1>4 DEF SetBack
    <3> QED
      BY <1>1, <3>1, <3>2
  <2> HIDE DEF f
  <2> QED
    BY <2>1, <2>2, <2>3, SameLength
<1> QED
  BY <1>2, <1>3, <1>4

LEMMA PushType ==
    ASSUME TypeOK, NEW d \in Nat, nextId < MaxTimers
    PROVE  LET l == <<[id |-> nextId, set |-> d, left |-> d]>> \o timers
           IN  l \in Seq(Timers) /\ Len(l) = Len(timers) + 1
<1> DEFINE h == <<[id |-> nextId, set |-> d, left |-> d]>>
<1>1. [id |-> nextId, set |-> d, left |-> d] \in Timers
  BY AeAssumption DEF TypeOK, Timers
<1>2. h \in Seq(Timers) /\ Len(h) = 1
  BY <1>1
<1>3. timers \in Seq(Timers) /\ Len(timers) \in Nat
  BY LenProperties DEF TypeOK, Timers
<1> HIDE DEF h
<1>4. h \o timers \in Seq(Timers) /\ Len(h \o timers) = 1 + Len(timers)
  BY <1>2, <1>3, ConcatProperties, SMTT(30)
<1> QED
  BY <1>3, <1>4 DEF h

-----------------------------------------------------------------------------
(* Each step.                                                              *)

LEMMA TypePreserved == TypeOK /\ Held /\ MaxfdExact /\ [Next]_vars => TypeOK'
<1> SUFFICES ASSUME TypeOK, Held, MaxfdExact, [Next]_vars PROVE TypeOK'
  OBVIOUS
<1> USE AeAssumption DEF fileVars, timeVars, loopVars
<1>1. ASSUME NEW fd \in Fds, NEW m \in (SUBSET Mask) \ {{}}, CreateFileEvent(fd, m)
      PROVE  TypeOK'
  BY <1>1 DEF CreateFileEvent, TypeOK, Fds
<1>2. ASSUME NEW fd \in Fds, NEW m \in (SUBSET Mask) \ {{}}, DeleteFileEvent(fd, m)
      PROVE  TypeOK'
  <2>1. maxfd' \in -1 .. setsize - 1
    BY <1>2 DEF DeleteFileEvent, TypeOK
  <2>2. mask' \in [Fds -> SUBSET Mask]
    BY <1>2 DEF DeleteFileEvent, TypeOK
  <2> QED
    BY <1>2, <2>1, <2>2 DEF DeleteFileEvent, TypeOK, Fds
<1>3. ASSUME NEW n \in 1 .. MaxSize, ResizeSetSize(n) PROVE TypeOK'
  <2>1. fired = {} /\ cur = NoEvent
    BY <1>3 DEF ResizeSetSize, InApp, Held
  <2>2. mask' \in [0 .. n - 1 -> SUBSET Mask]
    <3>1. \A fd \in 0 .. n - 1 : fd <= maxfd => mask[fd] \in SUBSET Mask
      BY DEF TypeOK, Fds
    <3> QED
      BY <1>3, <3>1 DEF ResizeSetSize
  <2>3. setsize' \in 1 .. MaxSize /\ maxfd' \in -1 .. setsize' - 1
    BY <1>3 DEF ResizeSetSize, TypeOK
  <2> QED
    BY <1>3, <2>1, <2>2, <2>3 DEF ResizeSetSize, TypeOK, Fds
<1>4. ASSUME NEW d \in Delays, CreateTimeEvent(d) PROVE TypeOK'
  <2>1. timers' \in Seq(Timers) /\ Len(timers') = Len(timers) + 1
    BY <1>4, PushType DEF CreateTimeEvent
  <2>2. Len(timers) \in Nat
    BY LenProperties DEF TypeOK
  <2> QED
    BY <1>4, <2>1, <2>2 DEF CreateTimeEvent, TypeOK, Timers, Fds
<1>5. ASSUME timers' \in Seq(Timers), Len(timers') <= Len(timers),
             UNCHANGED <<fileVars, nextId>>,
             since' \in -backs' .. MaxBack /\ backs' \in 0 .. MaxBack,
             UNCHANGED <<stop, loopVars>>
             \/ (pc' = "timers" /\ te' = 1 /\ running' = None
                 /\ pass' \subseteq pass
                 /\ UNCHANGED <<stop, fired, cur, rfired, maxId>>)
      PROVE  TypeOK'
  <2>1. Len(timers) \in Nat /\ Len(timers') \in Nat
    BY <1>5, LenProperties DEF TypeOK
  <2>2. nextId' = nextId /\ nextId \in 0 .. MaxTimers /\ Len(timers') <= nextId'
    BY <1>5, <2>1 DEF TypeOK
  <2>3. /\ te' \in 1 .. MaxTimers + 1
        /\ maxId' \in -1 .. MaxTimers - 1
        /\ running' \in -1 .. MaxTimers - 1
    BY <1>5 DEF TypeOK, None
  <2>5. pass' \subseteq 0 .. MaxTimers - 1
    <3>1. pass' \subseteq pass
      BY <1>5
    <3> QED
      BY <3>1 DEF TypeOK
  <2>4. /\ setsize' = setsize /\ maxfd' = maxfd /\ mask' = mask
        /\ fired' = fired /\ cur' = cur /\ rfired' = rfired /\ stop' = stop
        /\ pc' = pc \/ pc' = "timers"
    BY <1>5
  <2> QED
    BY <1>5, <2>2, <2>3, <2>4, <2>5 DEF TypeOK, Timers, Fds
<1>6. ASSUME NEW id \in Ids, DeleteTimeEvent(id) PROVE TypeOK'
  BY <1>5, <1>6, UnlinkType DEF DeleteTimeEvent, TypeOK
<1>7. CASE Stop \/ EnterMain \/ HookReturns \/ ReadReturns \/ CallWrite
  BY <1>7 DEF Stop, EnterMain, HookReturns, ReadReturns, CallWrite, TypeOK, Fds
<1>8. ASSUME NEW S \in Reports, Poll(S) PROVE TypeOK'
  BY <1>8 DEF Reports, Poll, TypeOK, Fds
<1>9. ASSUME NEW f \in fired, CallRead(f) \/ SkipRead(f) PROVE TypeOK'
  BY <1>9 DEF CallRead, SkipRead, TypeOK, Fds
<1>10. CASE SkipWrite \/ WriteReturns
  BY <1>10 DEF SkipWrite, WriteReturns, NextFired, TypeOK, Fds
<1>11. CASE EndTimers
  BY <1>11 DEF EndTimers, TypeOK, Fds
<1>17. CASE BeginTimers
  <2>1. timers' \in Seq(Timers) /\ Len(timers') = Len(timers) /\ since' \in -backs' .. MaxBack
    BY <1>17, ClockType
  <2>2. te' \in 1 .. MaxTimers + 1 /\ maxId' \in -1 .. MaxTimers - 1
    BY <1>17 DEF BeginTimers, TypeOK
  <2>3. pass' \subseteq 0 .. MaxTimers - 1
    BY <1>17, TimerType DEF BeginTimers, Ids
  <2> QED
    BY <1>17, <2>1, <2>2, <2>3 DEF BeginTimers, TypeOK, Timers, Fds
<1>12. CASE SkipTimer
  <2>1. Len(timers) \in Nat
    BY LenProperties DEF TypeOK
  <2> QED
    BY <1>12, <2>1, SMTT(30) DEF SkipTimer, TypeOK, Fds
<1>13. CASE CallTimer
  <2>1. te \in 1 .. Len(timers)
    <3>1. Len(timers) \in Nat
      BY LenProperties DEF TypeOK
    <3> QED
      BY <1>13, <3>1 DEF CallTimer, TypeOK
  <2>2. timers[te].id \in -1 .. MaxTimers - 1
    <3>1. timers[te].id \in 0 .. MaxTimers - 1
      BY <2>1, TimerType
    <3> QED
      BY <3>1
  <2> QED
    BY <1>13, <2>2 DEF CallTimer, TypeOK, Fds
<1>14. ASSUME NEW r \in Periods \cup {NoMore}, TimerReturns(r) PROVE TypeOK'
  <2>1. timers' \in Seq(Timers) /\ Len(timers') <= Len(timers)
    <3>1. Len(timers) \in Nat
      BY LenProperties DEF TypeOK
    <3>2. CASE r = NoMore
      BY <1>14, <3>2, UnlinkType DEF TimerReturns
    <3>3. CASE r # NoMore
      BY <1>14, <3>1, <3>3, RearmType DEF TimerReturns
    <3> QED
      BY <3>2, <3>3
  <2> QED
    BY <1>5, <1>14, <2>1 DEF TimerReturns, TypeOK
<1>15. CASE Tick \/ \E b \in 1 .. MaxBack - backs : SetBack(b)
  <2>1. Len(timers) \in Nat
    BY LenProperties DEF TypeOK
  <2> QED
    BY <1>5, <1>15, <2>1, ClockType DEF Tick, SetBack
<1>16. CASE UNCHANGED vars
  BY <1>16 DEF vars, TypeOK, Fds
<1> QED
  BY <1>1, <1>2, <1>3, <1>4, <1>6, <1>7, <1>8, <1>9, <1>10, <1>11, <1>12, <1>13,
     <1>14, <1>15, <1>16, <1>17 DEF Next, Call, Loop, PollReturns

LEMMA HeldPreserved == TypeOK /\ Held /\ [Next]_vars => Held'
<1> SUFFICES ASSUME TypeOK, Held, [Next]_vars PROVE Held'
  OBVIOUS
<1> USE DEF Held, fileVars, timeVars, loopVars
<1>1. CASE Call
  BY <1>1 DEF Call, CreateFileEvent, DeleteFileEvent, ResizeSetSize, CreateTimeEvent,
              DeleteTimeEvent, Stop
<1>2. CASE EnterMain \/ HookReturns \/ ReadReturns \/ CallWrite \/ SkipWrite \/ WriteReturns
  BY <1>2 DEF EnterMain, HookReturns, ReadReturns, CallWrite, SkipWrite, WriteReturns, NextFired
<1>3. ASSUME NEW S \in Reports, Poll(S) PROVE Held'
  BY <1>3 DEF Poll
<1>4. ASSUME NEW f \in fired, CallRead(f) \/ SkipRead(f) PROVE Held'
  BY <1>4 DEF CallRead, SkipRead
<1>5. CASE BeginTimers \/ SkipTimer \/ CallTimer \/ EndTimers
  BY <1>5 DEF BeginTimers, SkipTimer, CallTimer, EndTimers
<1>6. ASSUME NEW r \in Periods \cup {NoMore}, TimerReturns(r) PROVE Held'
  BY <1>6 DEF TimerReturns
<1>7. CASE Tick \/ (\E b \in 1 .. MaxBack - backs : SetBack(b)) \/ UNCHANGED vars
  BY <1>7 DEF Tick, SetBack, vars
<1> QED
  BY <1>1, <1>2, <1>3, <1>4, <1>5, <1>6, <1>7 DEF Next, Loop, PollReturns

\* Only three functions touch the descriptors; each leaves maxfd exact.
LEMMA ExactPreserved == TypeOK /\ MaxfdExact /\ [Next]_vars => MaxfdExact'
<1> SUFFICES ASSUME TypeOK, MaxfdExact, [Next]_vars PROVE MaxfdExact'
  OBVIOUS
<1> USE DEF MaxfdExact, IsHighest
<1>1. ASSUME NEW fd \in Fds, NEW m \in (SUBSET Mask) \ {{}}, CreateFileEvent(fd, m)
      PROVE  MaxfdExact'
  <2>1. /\ DOMAIN mask' = DOMAIN mask /\ DOMAIN mask = Fds /\ mask'[fd] # {}
        /\ \A g \in Fds \ {fd} : mask'[g] = mask[g]
    BY <1>1 DEF CreateFileEvent, TypeOK
  <2>2. maxfd' = (IF fd > maxfd THEN fd ELSE maxfd)
    BY <1>1 DEF CreateFileEvent
  <2>3. \A g \in Fds : g \in Int
    BY DEF Fds
  <2>4. maxfd \in Int
    BY DEF TypeOK
  <2> QED
    BY <2>1, <2>2, <2>3, <2>4
<1>2. ASSUME NEW fd \in Fds, NEW m \in (SUBSET Mask) \ {{}}, DeleteFileEvent(fd, m)
      PROVE  MaxfdExact'
  <2>1. CASE fd = maxfd /\ mask'[fd] = {}
    BY <1>2, <2>1 DEF DeleteFileEvent
  <2>2. CASE ~(fd = maxfd /\ mask'[fd] = {})
    <3>1. maxfd' = maxfd
      BY <1>2, <2>2 DEF DeleteFileEvent
    <3>2. /\ DOMAIN mask' = DOMAIN mask /\ DOMAIN mask = Fds
          /\ \A g \in Fds \ {fd} : mask'[g] = mask[g]
      BY <1>2 DEF DeleteFileEvent, TypeOK
    <3>3. mask[fd] # {}
      BY <1>2 DEF DeleteFileEvent
    <3> QED
      BY <2>2, <3>1, <3>2, <3>3
  <2> QED
    BY <2>1, <2>2
<1>3. ASSUME NEW n \in 1 .. MaxSize, ResizeSetSize(n) PROVE MaxfdExact'
  BY <1>3 DEF ResizeSetSize, TypeOK, Fds
<1>4. CASE UNCHANGED fileVars
  BY <1>4 DEF fileVars
<1>5. CASE \/ \E d \in Delays : CreateTimeEvent(d)
           \/ \E id \in Ids : DeleteTimeEvent(id)
           \/ Stop \/ EnterMain \/ PollReturns \/ Loop \/ Tick
           \/ (\E b \in 1 .. MaxBack - backs : SetBack(b)) \/ UNCHANGED vars
  <2>1. UNCHANGED fileVars
    BY <1>5 DEF CreateTimeEvent, DeleteTimeEvent, Stop, EnterMain, PollReturns, Loop, Tick,
                SetBack, vars,
                HookReturns, Poll, CallRead, SkipRead, ReadReturns, CallWrite, SkipWrite,
                WriteReturns, NextFired, BeginTimers, SkipTimer, CallTimer, TimerReturns,
                EndTimers
  <2> QED
    BY <1>4, <2>1
<1> QED
  BY <1>1, <1>2, <1>3, <1>5 DEF Next, Call

\* While a pass goes on, and takes no time, nothing changes but its position,
\* and each callback sends it back to the head.
LEMMA PassPreserved == TypeOK /\ PassComplete /\ [Next]_vars => PassComplete'
<1> SUFFICES ASSUME TypeOK, PassComplete, [Next]_vars, pc' = "timers", ~Slow,
                    NEW i \in 1 .. Len(timers'), i < te'
             PROVE  ~Calls(timers[i])'
  BY DEF PassComplete
<1>1. te \in Int /\ i \in Int
  BY DEF TypeOK
<1>2. CASE pc # "timers" \/ te' = 1
  <2>1. te' = 1
    BY <1>2 DEF Next, Call, CreateFileEvent, DeleteFileEvent, ResizeSetSize, CreateTimeEvent,
                DeleteTimeEvent, Stop, EnterMain, PollReturns, Poll, Loop, HookReturns,
                CallRead, SkipRead, ReadReturns, CallWrite, SkipWrite, WriteReturns,
                NextFired, BeginTimers, SkipTimer, CallTimer, TimerReturns, EndTimers,
                Tick, SetBack, vars, loopVars
  <2> QED
    BY <1>1, <2>1
<1>3. CASE pc = "timers" /\ te' # 1
  <2>1. SkipTimer \/ UNCHANGED vars
    BY <1>3 DEF Next, Call, InApp, CreateFileEvent, DeleteFileEvent, ResizeSetSize,
                CreateTimeEvent, DeleteTimeEvent, Stop, EnterMain, PollReturns, Poll, Loop,
                HookReturns, CallRead, SkipRead, ReadReturns, CallWrite, SkipWrite,
                WriteReturns, NextFired, BeginTimers, CallTimer, TimerReturns, EndTimers,
                Tick, SetBack, ClockMoves
  <2>2. timers' = timers /\ maxId' = maxId
    BY <2>1 DEF SkipTimer, vars, timeVars, loopVars
  <2>3. te' = te \/ (te' = te + 1 /\ ~Calls(timers[te]))
    BY <2>1 DEF SkipTimer, vars, loopVars
  <2>4. ~Calls(timers[i])
    BY <1>1, <1>3, <2>2, <2>3 DEF PassComplete
  <2> QED
    BY <2>2, <2>4 DEF Calls
<1> QED
  BY <1>2, <1>3

-----------------------------------------------------------------------------
(* Timers and the clock.                                                   *)

\* What Within says of one timer.
LEMMA WithinOne ==
    ASSUME NEW x, Within(x), NEW i \in 1 .. Len(timers)
    PROVE  timers[i].left <= timers[i].set + x
BY DEF Within

LEMMA WithinMore ==
    ASSUME TypeOK, NEW x \in Int, NEW y \in Int, x <= y, Within(x)
    PROVE  Within(y)
<1> SUFFICES ASSUME NEW i \in 1 .. Len(timers)
             PROVE  timers[i].left <= timers[i].set + y
  BY DEF Within
<1>1. timers[i].left <= timers[i].set + x
  BY WithinOne
<1>2. timers[i].left \in Int /\ timers[i].set \in Int
  BY TimerType
<1> QED
  BY <1>1, <1>2

\* The timers without the one at k, and where the one at i of them was.
Without(k) == SubSeq(timers, 1, k - 1) \o SubSeq(timers, k + 1, Len(timers))
Place(i, k) == IF i < k THEN i ELSE i + 1

LEMMA Removed ==
    ASSUME TypeOK, NEW k \in 1 .. Len(timers)
    PROVE  /\ Len(Without(k)) = Len(timers) - 1
           /\ \A i \in 1 .. Len(Without(k)) :
                 Place(i, k) \in 1 .. Len(timers) \ {k}
                 /\ Without(k)[i] = timers[Place(i, k)]
<1> DEFINE front == SubSeq(timers, 1, k - 1)
           back  == SubSeq(timers, k + 1, Len(timers))
<1>1. timers \in Seq(Timers) /\ Len(timers) \in Nat
  BY LenProperties DEF TypeOK, Timers
<1>2. k \in Int /\ k - 1 \in Int /\ k + 1 \in Int /\ 1 <= k /\ k <= Len(timers)
  BY <1>1
<1>3. /\ front \in Seq(Timers) /\ Len(front) = k - 1
      /\ \A n \in 1 .. k - 1 : front[n] = timers[n]
  <2>1. \A n \in 1 .. k - 1 : timers[n] \in Timers
    BY <1>1, <1>2, ElementOfSeq
  <2> QED
    BY <1>2, <2>1, SubSeqProperties
<1>4. /\ back \in Seq(Timers) /\ Len(back) = Len(timers) - k
      /\ \A n \in 1 .. Len(timers) - k : back[n] = timers[k + n]
  <2>1. \A n \in k + 1 .. Len(timers) : timers[n] \in Timers
    BY <1>1, <1>2, ElementOfSeq
  <2> QED
    BY <1>1, <1>2, <2>1, SubSeqProperties
<1> DEFINE l == Without(k)
<1>5. l = front \o back
  BY DEF Without
<1> HIDE DEF front, back, l
<1>6. Len(l) = Len(front) + Len(back) /\ Len(l) = Len(timers) - 1
  <2>1. Len(front \o back) = Len(front) + Len(back)
    BY <1>3, <1>4, ConcatProperties
  <2> QED
    BY <1>1, <1>2, <1>3, <1>4, <1>5, <2>1
<1>7. ASSUME NEW i \in 1 .. Len(l)
      PROVE  /\ Place(i, k) \in 1 .. Len(timers) \ {k}
             /\ l[i] = timers[Place(i, k)]
  <2>1. i \in 1 .. Len(front) + Len(back) /\ i \in Int
    BY <1>1, <1>6
  <2>2. l[i] = IF i <= Len(front) THEN front[i] ELSE back[i - Len(front)]
    <3>1. (front \o back)[i] = IF i <= Len(front) THEN front[i] ELSE back[i - Len(front)]
      BY <1>3, <1>4, <2>1, ConcatProperties
    <3> QED
      BY <1>5, <3>1
  <2>3. CASE i < k
    <3>1. i \in 1 .. k - 1 /\ i <= Len(front) /\ i \in 1 .. Len(timers) \ {k}
      BY <1>1, <1>2, <1>3, <2>1, <2>3
    <3>2. l[i] = front[i]
      BY <2>2, <3>1
    <3> QED
      BY <1>3, <2>3, <3>1, <3>2 DEF Place
  <2>4. CASE ~(i < k)
    <3>1. /\ ~(i <= Len(front)) /\ i - (k - 1) \in 1 .. Len(timers) - k
          /\ i + 1 \in 1 .. Len(timers) \ {k}
          /\ k + (i - (k - 1)) = i + 1
      BY <1>1, <1>2, <1>3, <1>4, <2>1, <2>4
    <3>2. l[i] = back[i - (k - 1)]
      BY <1>3, <2>2, <3>1
    <3>3. l[i] = timers[k + (i - (k - 1))]
      BY <1>4, <3>1, <3>2
    <3> QED
      BY <2>4, <3>1, <3>3 DEF Place
  <2> QED
    BY <2>3, <2>4
<1> QED
  BY <1>6, <1>7 DEF l

\* Unlinking brings in no other timer.
LEMMA UnlinkFrom ==
    ASSUME TypeOK, NEW id, Unlink(id), NEW j \in 1 .. Len(timers')
    PROVE  \E k \in 1 .. Len(timers) : timers'[j] = timers[k]
<1>1. CASE id \in Ids
  <2>1. PICK i \in 1 .. Len(timers) : timers' = Without(i)
    BY <1>1 DEF Unlink, Without
  <2>2. j \in 1 .. Len(Without(i))
    BY <2>1
  <2>3. Place(j, i) \in 1 .. Len(timers) /\ Without(i)[j] = timers[Place(j, i)]
    BY <2>2, Removed
  <2> QED
    BY <2>1, <2>3
<1>2. CASE id \notin Ids
  BY <1>2 DEF Unlink
<1> QED
  BY <1>1, <1>2

\* A timer that is created comes before the others.
LEMMA Pushed ==
    ASSUME TypeOK, NEW d \in Delays, CreateTimeEvent(d)
    PROVE  /\ Len(timers') = Len(timers) + 1 /\ Len(timers) \in Nat
           /\ timers'[1].id = nextId /\ timers'[1].left = d /\ timers'[1].set = d
           /\ \A i \in 2 .. Len(timers') :
                 i - 1 \in 1 .. Len(timers) /\ timers'[i] = timers[i - 1]
<1> USE AeAssumption
<1> DEFINE h == <<[id |-> nextId, set |-> d, left |-> d]>>
<1>1. timers \in Seq(Timers) /\ Len(timers) \in Nat
  BY LenProperties DEF TypeOK, Timers
<1>2. [id |-> nextId, set |-> d, left |-> d] \in Timers
  BY DEF CreateTimeEvent, TypeOK, Timers
<1>3. /\ h \in Seq(Timers) /\ Len(h) = 1
      /\ h[1].id = nextId /\ h[1].left = d /\ h[1].set = d
  BY <1>2
<1>4. timers' = h \o timers
  BY DEF CreateTimeEvent
<1> HIDE DEF h
<1>5. Len(timers') = 1 + Len(timers)
  BY <1>1, <1>3, <1>4, ConcatProperties
<1>6. ASSUME NEW i \in 1 .. Len(timers')
      PROVE  timers'[i] = IF i <= 1 THEN h[i] ELSE timers[i - 1]
  <2>1. i \in 1 .. Len(h) + Len(timers)
    BY <1>3, <1>5
  <2>2. (h \o timers)[i] = IF i <= Len(h) THEN h[i] ELSE timers[i - Len(h)]
    BY <1>1, <1>3, <2>1, ConcatProperties, ZenonT(60)
  <2> QED
    BY <1>3, <1>4, <2>2
<1>7. 1 \in 1 .. Len(timers') /\ timers'[1] = h[1]
  BY <1>1, <1>5, <1>6
<1>8. ASSUME NEW i \in 2 .. Len(timers')
      PROVE  i - 1 \in 1 .. Len(timers) /\ timers'[i] = timers[i - 1]
  BY <1>1, <1>5, <1>6
<1> QED
  BY <1>1, <1>3, <1>5, <1>7, <1>8

\* The clock moves no timer to another place.
LEMMA ClockIds ==
    ASSUME TypeOK, BeginTimers \/ Tick \/ \E b \in 1 .. MaxBack - backs : SetBack(b)
    PROVE  \A i \in 1 .. Len(timers) : timers'[i].id = timers[i].id
<1> USE AeAssumption
<1> SUFFICES ASSUME NEW i \in 1 .. Len(timers) PROVE timers'[i].id = timers[i].id
  OBVIOUS
<1>1. timers[i] \in Timers /\ timers[i].left \in Int /\ -MaxBack \in Int
  BY TimerType
<1>2. CASE BeginTimers
  <2>1. timers'[i] = IF since < 0 THEN Overdue(timers[i]) ELSE timers[i]
    BY <1>2 DEF BeginTimers
  <2> QED
    BY <1>1, <2>1, SetTimer DEF Overdue
<1>3. CASE Tick
  <2>1. (IF timers[i].left = -MaxBack THEN timers[i].left ELSE timers[i].left - 1) \in Int
    BY <1>1
  <2> QED
    BY <1>1, <1>3, <2>1, SetTimer DEF Tick
<1>4. ASSUME NEW b \in 1 .. MaxBack - backs, SetBack(b)
      PROVE  timers'[i].id = timers[i].id
  <2>1. backs \in Nat /\ MaxBack \in Nat
    BY DEF TypeOK
  <2>2. timers[i].left + b \in Int
    BY <1>1, <2>1
  <2> QED
    BY <1>1, <1>4, <2>2, SetTimer DEF SetBack
<1> QED
  BY <1>2, <1>3, <1>4

\* No function of the application's puts a timer off.
LEMMA CallKeeps ==
    ASSUME TypeOK, Call, NEW x \in Nat, Within(x)
    PROVE  Within(x)'
<1> SUFFICES ASSUME NEW j \in 1 .. Len(timers')
             PROVE  timers'[j].left <= timers'[j].set + x
  BY DEF Within
<1> USE AeAssumption
<1>1. ASSUME NEW d \in Delays, CreateTimeEvent(d)
      PROVE  timers'[j].left <= timers'[j].set + x
  <2>1. CASE j = 1
    <3>1. timers'[1].left = d /\ timers'[1].set = d
      BY <1>1, Pushed
    <3>2. timers'[j].left = d /\ timers'[j].set = d
      BY <2>1, <3>1
    <3>3. d <= d + x
      OBVIOUS
    <3> QED
      BY <3>2, <3>3
  <2>2. CASE j # 1
    <3>1. j \in 2 .. Len(timers')
      BY <1>1, <2>2, Pushed
    <3>2. j - 1 \in 1 .. Len(timers) /\ timers'[j] = timers[j - 1]
      BY <1>1, <3>1, Pushed
    <3> QED
      BY <3>2, WithinOne
  <2> QED
    BY <2>1, <2>2
<1>2. ASSUME NEW id \in Ids, DeleteTimeEvent(id)
      PROVE  timers'[j].left <= timers'[j].set + x
  <2>1. PICK k \in 1 .. Len(timers) : timers'[j] = timers[k]
    BY <1>2, UnlinkFrom DEF DeleteTimeEvent
  <2> QED
    BY <2>1, WithinOne
<1>3. CASE UNCHANGED timers
  BY <1>3, WithinOne
<1> QED
  BY <1>1, <1>2, <1>3 DEF Call, CreateFileEvent, DeleteFileEvent, ResizeSetSize, Stop, timeVars

LEMMA ReturnKeeps ==
    ASSUME TypeOK, NEW r \in Periods \cup {NoMore}, TimerReturns(r), Within(0)
    PROVE  Within(0)'
<1> SUFFICES ASSUME NEW j \in 1 .. Len(timers')
             PROVE  timers'[j].left <= timers'[j].set + 0
  BY DEF Within
<1>1. CASE r = NoMore
  <2>1. PICK k \in 1 .. Len(timers) : timers'[j] = timers[k]
    BY <1>1, UnlinkFrom DEF TimerReturns
  <2> QED
    BY <2>1, WithinOne
<1>2. CASE r # NoMore
  <2>1. r \in Periods /\ r \in Int /\ r <= r + 0
    BY <1>2, AeAssumption
  <2>2. j \in 1 .. Len(timers)
    BY <1>2, <2>1, RearmType DEF TimerReturns
  <2>4. CASE timers[j].id = running
    <3>1. timers'[j].left = r /\ timers'[j].set = r
      BY <1>2, <2>1, <2>2, <2>4, RearmType DEF TimerReturns
    <3> QED
      BY <2>1, <3>1
  <2>5. CASE timers[j].id # running
    <3>1. timers'[j] = timers[j]
      BY <1>2, <2>1, <2>2, <2>5, RearmType DEF TimerReturns
    <3> QED
      BY <2>2, <3>1, WithinOne
  <2> QED
    BY <2>4, <2>5
<1> QED
  BY <1>1, <1>2

\* When it is found behind, the clock has delayed none that is called now.
LEMMA BeginKeeps ==
    ASSUME TypeOK, BeginTimers, Within(IF since < 0 THEN -since ELSE 0)
    PROVE  Within(0)'
<1> SUFFICES ASSUME NEW j \in 1 .. Len(timers')
             PROVE  timers'[j].left <= timers'[j].set + 0
  BY DEF Within
<1> USE AeAssumption
<1>1. j \in 1 .. Len(timers)
  BY ClockType
<1>2. timers'[j] = IF since < 0 THEN Overdue(timers[j]) ELSE timers[j]
  BY <1>1 DEF BeginTimers
<1>3. CASE since < 0
  <2>1. -MaxBack \in Int /\ timers'[j].left = -MaxBack /\ timers'[j].set = timers[j].set
    BY <1>1, <1>2, <1>3, TimerType, SetTimer DEF Overdue
  <2>2. timers[j].set \in Nat
    BY <1>1, TimerType
  <2> QED
    BY <2>1, <2>2
<1>4. CASE ~(since < 0)
  BY <1>1, <1>2, <1>4, WithinOne
<1> QED
  BY <1>3, <1>4

\* While aeMain waits, a timer's time and the clock's move together.
LEMMA WaitKeeps ==
    ASSUME TypeOK, Within(-since), Tick \/ \E b \in 1 .. MaxBack - backs : SetBack(b)
    PROVE  Within(-since)'
<1> SUFFICES ASSUME NEW j \in 1 .. Len(timers')
             PROVE  timers'[j].left <= timers'[j].set + (-since')
  BY DEF Within
<1> USE AeAssumption
<1>1. j \in 1 .. Len(timers) /\ since' \in -backs' .. MaxBack /\ since' \in Int /\ since \in Int
  BY ClockType DEF TypeOK
<1>2. timers[j].left <= timers[j].set + (-since)
  BY <1>1, WithinOne
<1>3. timers[j].set \in Nat /\ timers[j].left \in Int /\ timers[j] \in Timers
  BY <1>1, TimerType
<1>4. CASE Tick
  <2>1. since' = IF since = MaxBack THEN since ELSE since + 1
    BY <1>4 DEF Tick
  <2>2. (IF timers[j].left = -MaxBack THEN timers[j].left ELSE timers[j].left - 1) \in Int
    BY <1>3
  <2>3. timers'[j].left =
          (IF timers[j].left = -MaxBack THEN timers[j].left ELSE timers[j].left - 1)
        /\ timers'[j].set = timers[j].set
    BY <1>1, <1>3, <1>4, <2>2, SetTimer, ZenonT(60) DEF Tick
  <2>4. since <= MaxBack /\ MaxBack \in Nat
    BY DEF TypeOK
  <2>5. CASE since = MaxBack
    <3>1. since' = since
      BY <2>1, <2>5
    <3>2. timers'[j].left <= timers[j].left
      BY <1>3, <2>3
    <3>3. timers'[j].left \in Int
      BY <1>3, <2>3
    <3> QED
      BY <1>1, <1>2, <1>3, <2>3, <3>1, <3>2, <3>3
  <2>6. CASE since # MaxBack
    <3>1. since' = since + 1 /\ since < MaxBack
      BY <1>1, <2>1, <2>4, <2>6
    <3>2. CASE timers[j].left = -MaxBack
      BY <1>1, <1>3, <2>3, <2>4, <3>1, <3>2
    <3>3. CASE timers[j].left # -MaxBack
      BY <1>1, <1>2, <1>3, <2>3, <3>1, <3>3
    <3> QED
      BY <3>2, <3>3
  <2> QED
    BY <2>5, <2>6
<1>5. ASSUME NEW b \in 1 .. MaxBack - backs, SetBack(b)
      PROVE  timers'[j].left <= timers'[j].set + (-since')
  <2>1. b \in Int
    BY DEF TypeOK
  <2>2. timers[j].left + b \in Int
    BY <1>3, <2>1
  <2>3. timers'[j].left = timers[j].left + b /\ timers'[j].set = timers[j].set
    BY <1>1, <1>3, <1>5, <2>2, SetTimer DEF SetBack
  <2>4. since' = since - b
    BY <1>5 DEF SetBack
  <2> QED
    BY <1>1, <1>2, <1>3, <2>1, <2>3, <2>4
<1> QED
  BY <1>2, <1>4, <1>5

-----------------------------------------------------------------------------
(* What a pass calls.                                                      *)

\* No two timers that are left by an unlinking have the same place before it,
\* and the one that is unlinked is not among them.
LEMMA UnlinkDistinct ==
    ASSUME TypeOK, Distinct, NEW id, Unlink(id)
    PROVE  /\ \A i, j \in 1 .. Len(timers') : timers'[i].id = timers'[j].id => i = j
           /\ \A i \in 1 .. Len(timers') : timers'[i].id # id
<1>1. timers \in Seq(Timers) /\ Len(timers) \in Nat
  BY LenProperties DEF TypeOK, Timers
<1>2. CASE id \in Ids
  <2>1. PICK k \in 1 .. Len(timers) : timers[k].id = id /\ timers' = Without(k)
    BY <1>2 DEF Unlink, Without
  <2>2. k \in Int /\ 1 <= k /\ k <= Len(timers)
    BY <1>1
  <2>3. \A i \in 1 .. Len(timers') :
           Place(i, k) \in 1 .. Len(timers) \ {k} /\ timers'[i] = timers[Place(i, k)]
    BY <2>1, Removed
  <2>4. \A i \in 1 .. Len(timers') : timers'[i].id # id
    BY <2>1, <2>3 DEF Distinct
  <2>5. Len(timers') \in Nat
    BY <1>1, <2>1, <2>2, Removed
  <2>6. ASSUME NEW i \in 1 .. Len(timers'), NEW j \in 1 .. Len(timers'),
               timers'[i].id = timers'[j].id
        PROVE  i = j
    <3>1. Place(i, k) = Place(j, k)
      BY <2>3, <2>6 DEF Distinct
    <3> QED
      BY <2>2, <2>5, <3>1 DEF Place
  <2> QED
    BY <2>4, <2>6
<1>3. CASE id \notin Ids
  BY <1>3 DEF Unlink, Ids, Distinct
<1> QED
  BY <1>2, <1>3

LEMMA DistinctPreserved == TypeOK /\ Distinct /\ [Next]_vars => Distinct'
<1> SUFFICES ASSUME TypeOK, Distinct, [Next]_vars PROVE Distinct'
  OBVIOUS
<1> USE AeAssumption DEF timeVars
<1>1. ASSUME NEW d \in Delays, CreateTimeEvent(d) PROVE Distinct'
  <2>1. /\ Len(timers') = Len(timers) + 1 /\ Len(timers) \in Nat
        /\ timers'[1].id = nextId
        /\ \A i \in 2 .. Len(timers') :
              i - 1 \in 1 .. Len(timers) /\ timers'[i] = timers[i - 1]
    BY <1>1, Pushed
  <2>2. nextId' = nextId + 1 /\ nextId \in Int
    BY <1>1 DEF CreateTimeEvent, TypeOK
  <2>3. \A i \in 1 .. Len(timers') : i = 1 \/ i \in 2 .. Len(timers')
    BY <2>1
  <2>4. \A i \in 2 .. Len(timers') : timers'[i].id < nextId /\ timers'[i].id \in Int
    BY <2>1, TimerType DEF Distinct
  <2>5. \A i \in 1 .. Len(timers') : timers'[i].id < nextId'
    BY <2>1, <2>2, <2>3, <2>4
  <2>6. ASSUME NEW i \in 1 .. Len(timers'), NEW j \in 1 .. Len(timers'),
               timers'[i].id = timers'[j].id
        PROVE  i = j
    <3>1. CASE i = 1 \/ j = 1
      BY <2>1, <2>2, <2>3, <2>4, <2>6, <3>1
    <3>2. CASE i # 1 /\ j # 1
      <4>1. i \in 2 .. Len(timers') /\ j \in 2 .. Len(timers')
        BY <2>3, <3>2
      <4>2. i - 1 = j - 1
        BY <2>1, <2>6, <4>1, SMTT(30) DEF Distinct
      <4> QED
        BY <4>2
    <3> QED
      BY <3>1, <3>2
  <2> QED
    BY <2>5, <2>6 DEF Distinct
<1>2. ASSUME NEW id, Unlink(id), nextId' = nextId PROVE Distinct'
  <2>1. \A i \in 1 .. Len(timers') : timers'[i].id < nextId
    BY <1>2, UnlinkFrom DEF Distinct
  <2> QED
    BY <1>2, <2>1, UnlinkDistinct DEF Distinct
<1>3. ASSUME Len(timers') = Len(timers), nextId' = nextId,
             \A i \in 1 .. Len(timers) : timers'[i].id = timers[i].id
      PROVE  Distinct'
  BY <1>3 DEF Distinct
<1>4. ASSUME NEW id \in Ids, DeleteTimeEvent(id) PROVE Distinct'
  BY <1>2, <1>4 DEF DeleteTimeEvent
<1>5. ASSUME NEW r \in Periods \cup {NoMore}, TimerReturns(r) PROVE Distinct'
  <2>1. CASE r = NoMore
    BY <1>2, <1>5, <2>1 DEF TimerReturns
  <2>2. CASE r # NoMore
    BY <1>3, <1>5, <2>2, RearmType DEF TimerReturns
  <2> QED
    BY <2>1, <2>2
<1>6. CASE BeginTimers \/ Tick \/ \E b \in 1 .. MaxBack - backs : SetBack(b)
  <2>1. Len(timers') = Len(timers)
    BY <1>6, ClockType
  <2>2. \A i \in 1 .. Len(timers) : timers'[i].id = timers[i].id
    BY <1>6, ClockIds
  <2>3. nextId' = nextId
    BY <1>6 DEF BeginTimers, Tick, SetBack
  <2> QED
    BY <1>3, <2>1, <2>2, <2>3
<1>7. CASE UNCHANGED timeVars
  BY <1>7 DEF Distinct
<1> QED
  BY <1>1, <1>4, <1>5, <1>6, <1>7 DEF Next, Call, CreateFileEvent, DeleteFileEvent,
     ResizeSetSize, Stop, EnterMain, PollReturns, Poll, Loop, HookReturns, CallRead, SkipRead,
     ReadReturns, CallWrite, SkipWrite, WriteReturns, NextFired, SkipTimer, CallTimer,
     EndTimers, vars

LEMMA PassKnownPreserved ==
    TypeOK /\ Distinct /\ PassKnown /\ OncePerPass /\ [Next]_vars => PassKnown' /\ OncePerPass'
<1> SUFFICES ASSUME TypeOK, Distinct, PassKnown, OncePerPass, [Next]_vars
             PROVE  PassKnown' /\ OncePerPass'
  OBVIOUS
<1> USE AeAssumption DEF timeVars
<1>0. /\ maxId \in Int /\ nextId \in Int /\ Len(timers) \in Nat
      /\ \A i \in 1 .. Len(timers) : timers[i].id \in Int
  <2>1. maxId \in Int /\ nextId \in Int /\ Len(timers) \in Nat
    BY LenProperties DEF TypeOK
  <2>2. ASSUME NEW i \in 1 .. Len(timers) PROVE timers[i].id \in Int
    <3>1. timers[i].id \in 0 .. MaxTimers - 1
      BY TimerType
    <3> QED
      BY <3>1
  <2> QED
    BY <2>1, <2>2
<1>1. ASSUME NEW d \in Delays, CreateTimeEvent(d) PROVE PassKnown' /\ OncePerPass'
  <2>1. /\ Len(timers') = Len(timers) + 1
        /\ timers'[1].id = nextId
        /\ \A i \in 2 .. Len(timers') :
              i - 1 \in 1 .. Len(timers) /\ timers'[i] = timers[i - 1]
    BY <1>1, Pushed
  <2>2. nextId' = nextId + 1 /\ UNCHANGED loopVars
    BY <1>1 DEF CreateTimeEvent
  <2>3. \A i \in 1 .. Len(timers') : i = 1 \/ i \in 2 .. Len(timers')
    BY <1>0, <2>1
  <2>4. ~(nextId <= maxId) /\ maxId < nextId'
    BY <1>0, <2>2 DEF PassKnown
  <2>5. UNCHANGED <<pc, maxId, pass, running>>
    BY <2>2 DEF loopVars
  <2>6. ASSUME NEW i \in 1 .. Len(timers'), timers'[i].id <= maxId, Slow \/ timers'[i].left <= 0
        PROVE  timers'[i].id \in pass
    <3>1. i \in 2 .. Len(timers')
      BY <2>1, <2>3, <2>4, <2>6
    <3>2. i - 1 \in 1 .. Len(timers) /\ timers'[i] = timers[i - 1]
      BY <2>1, <3>1
    <3> QED
      BY <2>6, <3>2 DEF PassKnown
  <2> QED
    BY <2>4, <2>5, <2>6 DEF PassKnown, OncePerPass
<1>2. ASSUME NEW id \in Ids, DeleteTimeEvent(id) PROVE PassKnown' /\ OncePerPass'
  <2>1. nextId' = nextId /\ UNCHANGED loopVars
    BY <1>2 DEF DeleteTimeEvent
  <2>2. \A j \in 1 .. Len(timers') : \E k \in 1 .. Len(timers) : timers'[j] = timers[k]
    BY <1>2, UnlinkFrom DEF DeleteTimeEvent
  <2> QED
    BY <2>1, <2>2 DEF PassKnown, OncePerPass, loopVars
<1>3. ASSUME NEW r \in Periods \cup {NoMore}, TimerReturns(r) PROVE PassKnown' /\ OncePerPass'
  <2>1. /\ pc' = "timers" /\ maxId' = maxId /\ nextId' = nextId
        /\ pass' = IF Slow \/ r = 0 THEN pass ELSE pass \ {running}
    BY <1>3 DEF TimerReturns
  <2>2. ASSUME NEW j \in 1 .. Len(timers'), timers'[j].id <= maxId,
               Slow \/ timers'[j].left <= 0
        PROVE  timers'[j].id \in pass'
    <3>1. CASE r = NoMore
      <4>1. PICK k \in 1 .. Len(timers) : timers'[j] = timers[k]
        BY <1>3, <3>1, UnlinkFrom DEF TimerReturns
      <4>2. timers'[j].id # running
        BY <1>3, <3>1, UnlinkDistinct DEF TimerReturns
      <4>3. timers'[j].id \in pass
        BY <2>2, <4>1 DEF PassKnown
      <4> QED
        BY <2>1, <4>2, <4>3
    <3>2. CASE r # NoMore
      <4>1. /\ j \in 1 .. Len(timers)
            /\ timers'[j].id = timers[j].id
            /\ timers[j].id = running => timers'[j].left = r
            /\ timers[j].id # running => timers'[j] = timers[j]
        BY <1>3, <3>2, RearmType DEF TimerReturns
      <4>2. CASE timers[j].id # running
        BY <2>1, <2>2, <4>1, <4>2 DEF PassKnown
      <4>3. CASE timers[j].id = running
        <5>1. running \in pass
          BY <1>3 DEF TimerReturns, OncePerPass
        <5>2. r \in Nat /\ (Slow \/ r <= 0)
          BY <2>2, <3>2, <4>1, <4>3
        <5>3. Slow \/ r = 0
          BY <5>2
        <5> QED
          BY <2>1, <4>1, <4>3, <5>1, <5>3
      <4> QED
        BY <4>2, <4>3
    <3> QED
      BY <3>1, <3>2
  <2> QED
    BY <2>1, <2>2 DEF PassKnown, OncePerPass
<1>4. CASE BeginTimers
  <2>1. Len(timers') = Len(timers) /\ \A i \in 1 .. Len(timers) : timers'[i].id = timers[i].id
    BY <1>4, ClockType, ClockIds
  <2>2. pass' = Ids /\ maxId' = nextId - 1 /\ nextId' = nextId /\ pc' = "timers"
    BY <1>4 DEF BeginTimers
  <2> QED
    BY <1>0, <2>1, <2>2 DEF PassKnown, OncePerPass, Ids
<1>5. CASE Tick \/ \E b \in 1 .. MaxBack - backs : SetBack(b)
  <2>1. Len(timers') = Len(timers) /\ \A i \in 1 .. Len(timers) : timers'[i].id = timers[i].id
    BY <1>5, ClockType, ClockIds
  <2>2. nextId' = nextId /\ UNCHANGED loopVars
    BY <1>5 DEF Tick, SetBack
  <2>3. CASE Slow
    BY <2>1, <2>2, <2>3 DEF PassKnown, OncePerPass, loopVars
  <2>4. CASE ~Slow
    <3>1. pc = "poll"
      BY <1>5, <2>4 DEF Tick, SetBack, ClockMoves
    <3>2. maxId = -1
      BY <3>1 DEF PassKnown
    <3> QED
      BY <1>0, <2>1, <2>2, <3>2, TimerType DEF PassKnown, OncePerPass, loopVars
  <2> QED
    BY <2>3, <2>4
<1>6. CASE CallTimer
  <2>1. te \in 1 .. Len(timers) /\ Calls(timers[te])
    BY <1>0, <1>6 DEF CallTimer, TypeOK
  <2>2. timers[te].id \in pass
    BY <2>1 DEF Calls, PassKnown
  <2> QED
    BY <1>6, <2>2 DEF CallTimer, PassKnown, OncePerPass
<1>7. CASE EndTimers
  <2>1. \A i \in 1 .. Len(timers) : ~(timers[i].id <= -1)
    BY TimerType
  <2> QED
    BY <1>0, <1>7, <2>1, SMTT(30) DEF EndTimers, PassKnown, OncePerPass, TypeOK
<1>8. ASSUME UNCHANGED <<timeVars, maxId, pass, running>>,
             pc' = pc \/ {pc, pc'} \cap {"timers", "tproc"} = {}
      PROVE  PassKnown' /\ OncePerPass'
  BY <1>8 DEF PassKnown, OncePerPass
<1> QED
  BY <1>1, <1>2, <1>3, <1>4, <1>5, <1>6, <1>7, <1>8 DEF Next, Call, CreateFileEvent,
     DeleteFileEvent, ResizeSetSize, Stop, EnterMain, PollReturns, Poll, Loop, HookReturns,
     CallRead, SkipRead, ReadReturns, CallWrite, SkipWrite, WriteReturns, NextFired, SkipTimer,
     vars, loopVars

LEMMA PunctualPreserved == TypeOK /\ Punctual /\ [Next]_vars => Punctual'
<1> SUFFICES ASSUME TypeOK, Punctual, [Next]_vars, ~Slow PROVE Punctual'
  BY DEF Punctual
<1> USE AeAssumption DEF Punctual, timeVars
<1>1. since \in Int /\ (IF since < 0 THEN -since ELSE 0) \in Nat /\ -since \in Int
  BY DEF TypeOK
<1>2. CASE Call
  <2>1. pc' = pc /\ since' = since /\ pc \in {"app", "hook", "rproc", "wproc", "tproc"}
    BY <1>2 DEF Call, InApp, CreateFileEvent, DeleteFileEvent, ResizeSetSize, CreateTimeEvent,
                DeleteTimeEvent, Stop, loopVars
  <2>2. PICK x \in Nat : x = IF pc \in {"rproc", "wproc"} /\ since < 0 THEN -since ELSE 0
    BY <1>1
  <2>3. Within(x)
    BY <2>1, <2>2
  <2>4. Within(x)'
    BY <1>2, <2>3, CallKeeps
  <2> QED
    BY <2>1, <2>2, <2>4
<1>3. ASSUME UNCHANGED <<timers, since>>,
             \/ pc' = pc
             \/ /\ pc \in {"app", "hook", "timers", "tproc"}
                /\ pc' \in {"app", "hook", "poll", "timers", "tproc"}
             \/ {pc, pc'} \subseteq {"files", "rproc", "write", "wproc"}
      PROVE  Punctual'
  <2>1. \A x : Within(x) => \A y : y = x => Within(y)'
    BY <1>3 DEF Within
  <2> QED
    BY <1>3, <2>1
<1>4. CASE EnterMain \/ HookReturns \/ EndTimers \/ SkipTimer \/ CallTimer \/ UNCHANGED vars
  BY <1>3, <1>4 DEF EnterMain, HookReturns, EndTimers, SkipTimer, CallTimer, vars, loopVars
<1>5. CASE \/ \E f \in fired : CallRead(f) \/ SkipRead(f)
           \/ ReadReturns \/ CallWrite \/ SkipWrite \/ WriteReturns
  BY <1>3, <1>5 DEF CallRead, SkipRead, ReadReturns, CallWrite, SkipWrite, WriteReturns, NextFired
<1>6. CASE PollReturns
  <2>1. pc = "poll" /\ pc' = "files" /\ UNCHANGED <<timers, since>>
    BY <1>6 DEF PollReturns, Poll
  <2>2. Within(IF since < 0 THEN -since ELSE 0)
    <3> DEFINE y == IF since < 0 THEN -since ELSE 0
    <3>1. y \in Int /\ -since <= y /\ Within(-since)
      BY <1>1, <2>1
    <3>2. Within(y)
      <4> HIDE DEF y
      <4> QED
        BY <1>1, <3>1, WithinMore
    <3> QED
      BY <3>2
  <2> QED
    BY <2>1, <2>2 DEF Within
<1>7. CASE BeginTimers
  <2>1. Within(0)'
    BY <1>7, BeginKeeps DEF BeginTimers
  <2> QED
    BY <1>7, <2>1 DEF BeginTimers
<1>8. ASSUME NEW r \in Periods \cup {NoMore}, TimerReturns(r) PROVE Punctual'
  <2>1. Within(0)'
    BY <1>8, ReturnKeeps DEF TimerReturns
  <2> QED
    BY <1>8, <2>1 DEF TimerReturns
<1>9. CASE Tick \/ \E b \in 1 .. MaxBack - backs : SetBack(b)
  <2>1. pc = "poll" /\ pc' = "poll"
    BY <1>9 DEF Tick, SetBack, ClockMoves, loopVars
  <2>2. Within(-since)'
    BY <1>9, <2>1, WaitKeeps
  <2> QED
    BY <2>1, <2>2
<1> QED
  BY <1>2, <1>4, <1>5, <1>6, <1>7, <1>8, <1>9 DEF Next, Loop

LEMMA Invariant == Spec => []IInv
<1>1. IInv /\ [Next]_vars => IInv'
  BY TypePreserved, HeldPreserved, ExactPreserved, PassPreserved, DistinctPreserved,
     PassKnownPreserved, PunctualPreserved DEF IInv
<1> QED
  BY Initially, <1>1, PTL DEF Spec

-----------------------------------------------------------------------------
\* The variables of the event loop keep their types; in particular what the
\* loop holds of the file events stays within a set that callbacks of timers
\* may resize (ae.c:117-133, 427-445).
THEOREM TypeCorrect == Spec => []TypeOK
<1>1. IInv => TypeOK
  BY DEF IInv
<1> QED
  BY Invariant, <1>1, PTL

\* For every size and every order of calls maxfd is the highest descriptor
\* with an event, or -1 (ae.c:121, 162-163, 174-181).
THEOREM MaxfdStaysExact == Spec => []MaxfdExact
<1>1. IInv => MaxfdExact
  BY DEF IInv
<1> QED
  BY Invariant, <1>1, PTL

\* A pass over the timers leaves none due that was there before, in a list of
\* any length that its callbacks edit as they like (ae.c:314-355).
THEOREM PassStaysComplete == Spec => []PassComplete
<1>1. IInv => PassComplete
  BY DEF IInv
<1> QED
  BY Invariant, <1>1, PTL

\* Whatever callbacks create and delete, a pass calls no timer created in it, and
\* one twice only if its callback asked for that (ae.c:314, 335-337).
THEOREM PassCallsOnce == Spec => []OncePerPass
<1>1. IInv => OncePerPass
  BY DEF IInv
<1> QED
  BY Invariant, <1>1, PTL

\* However often and far the clock is set back while aeMain waits, once the
\* pass that follows has begun no timer is further away than it was itself set to
\* (ae.c:297-312).
THEOREM SkewDelaysNone == Spec => []NotDelayed
<1>1. IInv => NotDelayed
  <2> SUFFICES ASSUME IInv, ~Slow, since >= 0 PROVE Within(0)
    BY DEF NotDelayed
  <2>1. since \in Int /\ -since \in Int /\ -since <= 0
    BY DEF IInv, TypeOK
  <2>2. CASE pc = "poll"
    BY <2>1, <2>2, WithinMore DEF IInv, Punctual
  <2>3. CASE pc # "poll"
    BY <2>1, <2>3 DEF IInv, Punctual, TypeOK
  <2> QED
    BY <2>2, <2>3
<1> QED
  BY Invariant, <1>1, PTL
=============================================================================
