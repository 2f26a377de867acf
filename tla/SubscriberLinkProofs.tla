------------------------ MODULE SubscriberLinkProofs ------------------------
(***************************************************************************)
(* Proofs about SubscriberLink, for any publishing threads and channels    *)
(* and for outputs and streams of any length: a thread that has the        *)
(* context to itself finds its reply, and threads that do not leave        *)
(* nothing behind once all have returned.                                  *)
(***************************************************************************)
EXTENDS SubscriberLink, FiniteSetTheorems, SequenceTheorems, TLAPS

-----------------------------------------------------------------------------
(* The inductive invariant.                                                *)

\* A connection stands only while its context is up.
Linked == \A k \in Conns : link[k] => text[k] = "up"

\* Nothing is on a m_sendText that has never been connected, and nobody in it.
Fresh ==
    text["send"] \notin {"up", "err"} =>
        Inside = {} /\ obuf = <<>> /\ stream = <<>> /\ reader = <<>>

\* Whoever is alone has what it waits for where it will look for it.
Provided ==
    \A t \in alone :
        /\ Inside = {t}
        /\ pc[t] = "appended" /\ Usable("send") => obuf # <<>>
        /\ pc[t] = "reading" /\ Usable("send") => stream # <<>>
        /\ pc[t] = "read" => reader # <<>>

\* The commands under way and their replies are as many as the calls, until
\* there is a subscription.
Counted ==
    Usable("send") /\ subs["send"] = {} =>
        Len(obuf) + Len(stream) + Len(reader) = Cardinality(Inside)

LInv == TypeOK /\ Linked /\ Fresh /\ Provided /\ Counted

LEMMA InsideCounted == IsFiniteSet(Inside) /\ Cardinality(Inside) \in Nat
<1>1. IsFiniteSet(Threads)
  BY LinkAssumption, FS_AddElement DEF LinkAssumption, Threads
<1>2. Inside \in SUBSET Threads
  BY DEF Inside
<1> QED
  BY <1>1, <1>2, FS_Subset, FS_CardinalityType

LEMMA Initially == Init => LInv
<1> SUFFICES ASSUME Init PROVE LInv
  OBVIOUS
<1> USE DEF Init, Conns
<1>1. TypeOK
  BY LinkAssumption, EmptySeq DEF TypeOK, LinkAssumption, Threads
<1>2. Inside = {}
  BY DEF Inside, InCommand
<1> QED
  BY <1>1, <1>2 DEF LInv, Linked, Fresh, Provided, Counted, Usable

-----------------------------------------------------------------------------
(* What a flush and a read do to the sequences.                            *)

LEMMA FlushTypes ==
    ASSUME TypeOK, NEW t \in Threads, Flush(t)
    PROVE  /\ stream' \in Seq(Replies)
           /\ Len(stream') = Len(stream) + Len(obuf)
           /\ Subscribed(Len(obuf)) \subseteq Channels
<1> DEFINE A == [i \in 1 .. Len(obuf) |-> Answer(i)]
<1>1. Len(obuf) \in Nat /\ Len(stream) \in Nat
  BY DEF TypeOK
<1>2. A \in Seq(Replies) /\ Len(A) = Len(obuf)
  <2>1. \A i \in 1 .. Len(obuf) : Answer(i) \in Replies
    BY DEF Answer, Replies
  <2> QED
    BY <1>1, <2>1
<1>3. stream' = stream \o A
  BY DEF Flush
<1>4. stream \in Seq(Replies)
  BY DEF TypeOK
<1>5. \A i \in 1 .. Len(obuf) : obuf[i] \in Channels \cup {Publish}
  BY DEF TypeOK, Commands
<1>6. Subscribed(Len(obuf)) \subseteq Channels
  BY <1>1, <1>5 DEF Subscribed
<1> HIDE DEF A
<1>7. stream' \in Seq(Replies) /\ Len(stream') = Len(stream) + Len(A)
  BY <1>2, <1>3, <1>4, ConcatProperties
<1> QED
  BY <1>2, <1>6, <1>7

LEMMA ReadTypes ==
    ASSUME TypeOK, NEW t \in Threads, Read(t)
    PROVE  /\ reader' \in Seq(Replies) /\ reader' # <<>>
           /\ stream' \in Seq(Replies)
           /\ Len(stream') + Len(reader') = Len(stream) + Len(reader)
<1>1. PICK n \in 1 .. Len(stream) :
         /\ reader' = reader \o SubSeq(stream, 1, n)
         /\ stream' = SubSeq(stream, n + 1, Len(stream))
  BY DEF Read
<1>2. stream \in Seq(Replies) /\ reader \in Seq(Replies)
      /\ Len(stream) \in Nat /\ Len(reader) \in Nat /\ n \in Nat /\ n >= 1 /\ n <= Len(stream)
  BY DEF TypeOK
<1>3. \A i \in 1 .. Len(stream) : stream[i] \in Replies
  BY <1>2
<1>4. SubSeq(stream, 1, n) \in Seq(Replies) /\ Len(SubSeq(stream, 1, n)) = n
  <2>1. \A i \in 1 .. n : stream[i] \in Replies
    BY <1>2, <1>3
  <2> QED
    BY <1>2, <2>1, SubSeqProperties
<1>5. stream' \in Seq(Replies) /\ Len(stream') = Len(stream) - n
  <2>1. \A i \in n + 1 .. Len(stream) : stream[i] \in Replies
    BY <1>2, <1>3
  <2>2. stream' \in Seq(Replies)
        /\ Len(stream') = IF n + 1 <= Len(stream) THEN Len(stream) - (n + 1) + 1 ELSE 0
    BY <1>1, <1>2, <2>1, SubSeqProperties
  <2> QED
    BY <1>2, <2>2
<1>6. reader' \in Seq(Replies) /\ Len(reader') = Len(reader) + n
  BY <1>1, <1>2, <1>4, ConcatProperties
<1>7. reader' # <<>>
  BY <1>2, <1>6, EmptySeq
<1> QED
  BY <1>2, <1>5, <1>6, <1>7

-----------------------------------------------------------------------------
(* Types.                                                                  *)

LEMMA TypePreserved == TypeOK /\ [Next]_vars => TypeOK'
<1> SUFFICES ASSUME TypeOK, [Next]_vars PROVE TypeOK'
  OBVIOUS
<1> USE LinkAssumption DEF TypeOK, LinkAssumption, Conns, Threads, InCommand, Goto, Connected,
        CallSubscribe, AtTop, Reading, Usable, sendVars, netVars
<1>1. ASSUME NEW c \in Channels, PeerPublish(c) PROVE TypeOK'
  BY <1>1 DEF PeerPublish, Replies
<1>2. ASSUME NEW k \in Conns, Break(k) PROVE TypeOK'
  <2>1. <<>> \in Seq(Commands) /\ <<>> \in Seq(Replies)
    BY EmptySeq
  <2>2. obuf' \in Seq(Commands) /\ stream' \in Seq(Replies)
    BY <1>2, <2>1 DEF Break
  <2> QED
    BY <1>2, <2>2 DEF Break
<1>3. CASE ConnectRecv
  BY <1>3 DEF ConnectRecv
<1>4. CASE ConnectSend \/ ConnectSendBad \/ DropSendBad
  BY <1>4, ZenonT(60) DEF ConnectSend, ConnectSendBad, DropSendBad
<1>5. CASE ReconnectFails
  BY <1>5 DEF ReconnectFails
<1>6. CASE Reconnect
  BY <1>6 DEF Reconnect
<1>7. CASE Subscribing
  <2>1. ASSUME NEW c \in Channels, SubscribeSend(c) PROVE TypeOK'
    BY <2>1 DEF SubscribeSend, Enters, Commands
  <2>2. CASE SubscribeEnds
    BY <2>2 DEF SubscribeEnds
  <2> QED
    BY <1>7, <2>1, <2>2 DEF Subscribing
<1>8. ASSUME NEW t \in AppThreads, Test(t) \/ PublishBad(t) PROVE TypeOK'
  BY <1>8 DEF Test, PublishBad
<1>9. ASSUME NEW t \in AppThreads, PublishSend(t) PROVE TypeOK'
  BY <1>9 DEF PublishSend, Enters, Commands
<1>10. ASSUME NEW t \in Threads, Flush(t) PROVE TypeOK'
  <2>1. stream' \in Seq(Replies) /\ Subscribed(Len(obuf)) \subseteq Channels
    BY <1>10, FlushTypes
  <2>2. obuf' \in Seq(Commands)
    BY <1>10, EmptySeq DEF Flush
  <2> QED
    BY <1>10, <2>1, <2>2 DEF Flush
<1>11. ASSUME NEW t \in Threads, Read(t) PROVE TypeOK'
  <2>1. stream' \in Seq(Replies) /\ reader' \in Seq(Replies)
    BY <1>11, ReadTypes
  <2> QED
    BY <1>11, <2>1 DEF Read
<1>12. ASSUME NEW t \in Threads, NEW r, Returns(t, r), pc[t] \in InCommand
       PROVE  /\ pc' \in [Threads -> {"top", "subscribe", "idle", "tested"} \cup InCommand]
              /\ pc'[RedisThread] \in {"top", "subscribe"} \cup InCommand
              /\ \A u \in AppThreads : pc'[u] \in {"idle", "tested"} \cup InCommand
              /\ todo' \subseteq Channels
              /\ alone' \subseteq Threads
  BY <1>12, ZenonT(60) DEF Returns
<1>13. ASSUME NEW t \in Threads, Take(t) PROVE TypeOK'
  <2>1. reader' \in Seq(Replies)
    BY <1>13 DEF Take
  <2>2. Returns(t, Head(reader)) /\ pc[t] \in InCommand
    BY <1>13 DEF Take
  <2> QED
    BY <1>12, <1>13, <2>1, <2>2 DEF Take
<1>14. ASSUME NEW t \in Threads, ReadOn(t) PROVE TypeOK'
  BY <1>14 DEF ReadOn
<1>15. ASSUME NEW t \in Threads, Fail(t) PROVE TypeOK'
  <2>1. Returns(t, "NULL") /\ pc[t] \in InCommand
    BY <1>15 DEF Fail
  <2> QED
    BY <1>12, <1>15, <2>1 DEF Fail
<1>16. CASE UNCHANGED vars
  BY <1>16 DEF vars
<1> QED
  BY <1>1, <1>2, <1>3, <1>4, <1>5, <1>6, <1>7, <1>8, <1>9, <1>10, <1>11, <1>13, <1>14, <1>15,
     <1>16 DEF Next, Commanding

-----------------------------------------------------------------------------
(* The connections.                                                        *)

LEMMA LinkedPreserved == TypeOK /\ Linked /\ [Next]_vars => Linked'
<1> SUFFICES ASSUME TypeOK, Linked, [Next]_vars PROVE Linked'
  OBVIOUS
<1> USE DEF TypeOK, Linked, Conns, Connected, Usable, netVars
<1>1. CASE \/ ConnectRecv \/ ConnectSend \/ ConnectSendBad \/ DropSendBad \/ ReconnectFails
           \/ Reconnect
  BY <1>1 DEF ConnectRecv, ConnectSend, ConnectSendBad, DropSendBad, ReconnectFails, Reconnect
<1>2. CASE \E k \in Conns : Break(k)
  BY <1>2 DEF Break
<1>3. CASE \E t \in Threads : Fail(t)
  BY <1>3 DEF Fail
<1>4. CASE \/ \E c \in Channels : PeerPublish(c)
           \/ Subscribing
           \/ \E t \in AppThreads : Test(t) \/ PublishBad(t) \/ PublishSend(t)
           \/ \E t \in Threads : Flush(t) \/ Read(t) \/ Take(t) \/ ReadOn(t)
           \/ UNCHANGED vars
  <2>1. text' = text /\ link' = link
    BY <1>4 DEF PeerPublish, Subscribing, SubscribeSend, SubscribeEnds, Enters, Test,
                PublishBad, PublishSend, Flush, Read, Take, ReadOn, vars
  <2> QED
    BY <2>1
<1> QED
  BY <1>1, <1>2, <1>3, <1>4 DEF Next, Commanding

\* What is true of the calls on m_sendText.
Calls == Fresh /\ Provided /\ Counted

\* A step beside them all.
LEMMA Aside ==
    ASSUME Calls, Inside' = Inside, \A t \in Inside : pc'[t] = pc[t],
           UNCHANGED <<sendVars, alone>>,
           subs'["send"] = subs["send"], Usable("send")' <=> Usable("send"),
           text'["send"] \in {"up", "err"} <=> text["send"] \in {"up", "err"}
    PROVE  Calls'
<1>1. Fresh' /\ Counted'
  BY DEF Calls, Fresh, Counted, sendVars
<1>2. Provided'
  BY DEF Calls, Provided, sendVars
<1> QED
  BY <1>1, <1>2 DEF Calls

LEMMA AsideSteps ==
    ASSUME LInv,
           \/ ConnectRecv \/ ConnectSendBad \/ DropSendBad \/ ReconnectFails \/ Reconnect
           \/ SubscribeEnds
           \/ \E t \in AppThreads : Test(t) \/ PublishBad(t)
           \/ UNCHANGED vars
    PROVE  Calls'
<1> USE DEF LInv
<1>1. pc' = pc \/ \E t \in Threads \ Inside, place \in {"top", "subscribe", "idle", "tested"} :
                     Goto(t, place)
  <2>1. CASE ConnectRecv \/ Reconnect \/ SubscribeEnds
    BY <2>1 DEF ConnectRecv, Reconnect, SubscribeEnds, AtTop, Reading, CallSubscribe,
                Threads, Inside, InCommand
  <2>2. ASSUME NEW t \in AppThreads, Test(t) \/ PublishBad(t)
        PROVE  \E u \in Threads \ Inside, place \in {"top", "subscribe", "idle", "tested"} :
                  Goto(u, place)
    BY <2>2 DEF Test, PublishBad, Threads, Inside, InCommand
  <2>3. CASE ConnectSendBad \/ DropSendBad \/ ReconnectFails \/ UNCHANGED vars
    BY <2>3 DEF ConnectSendBad, DropSendBad, ReconnectFails, vars
  <2> QED
    BY <2>1, <2>2, <2>3
<1>2. Inside' = Inside /\ \A t \in Inside : pc'[t] = pc[t]
  BY <1>1 DEF TypeOK, Goto, Inside, InCommand
<1>3. UNCHANGED <<sendVars, alone>>
  BY DEF ConnectRecv, ConnectSendBad, DropSendBad, ReconnectFails, Reconnect, SubscribeEnds,
         Test, PublishBad, vars
<1>4. /\ subs'["send"] = subs["send"]
      /\ link'["send"] = link["send"]
      /\ text'["send"] = "up" <=> text["send"] = "up"
      /\ text'["send"] \in {"up", "err"} <=> text["send"] \in {"up", "err"}
  BY DEF TypeOK, Conns, Connected, ConnectRecv, ConnectSendBad, DropSendBad, ReconnectFails,
         Reconnect, SubscribeEnds, Test, PublishBad, vars, netVars
<1>5. Usable("send")' <=> Usable("send")
  BY <1>4 DEF Usable
<1> QED
  BY <1>2, <1>3, <1>4, <1>5, Aside DEF Calls

-----------------------------------------------------------------------------
(* Calls.                                                                  *)

LEMMA EntersStep ==
    ASSUME LInv, NEW t \in Threads, t \notin Inside, NEW cmd \in Commands, Enters(t, cmd)
    PROVE  Calls'
<1> USE DEF LInv
<1>1. Inside' = Inside \cup {t} /\ pc'[t] = "appended"
  BY DEF TypeOK, Enters, Goto, Inside, InCommand
<1>2. Cardinality(Inside') = Cardinality(Inside) + 1
  BY <1>1, InsideCounted, FS_AddElement
<1>3. UNCHANGED <<netVars, stream, reader>>
  BY DEF Enters
<1>4. Usable("send") => obuf' = Append(obuf, cmd)
  BY DEF Enters
<1>5. Usable("send") => obuf' # <<>> /\ Len(obuf') = Len(obuf) + 1
  BY <1>4 DEF TypeOK
<1>6. Fresh'
  BY <1>3 DEF Enters, Fresh, netVars
<1>7. Provided'
  <2>1. ASSUME NEW u \in alone' PROVE u = t /\ Inside' = {t}
    BY <1>1, <2>1 DEF Enters
  <2> QED
    BY <1>1, <1>3, <1>5, <2>1 DEF Provided, Usable, netVars
<1>8. Counted'
  <2>1. Len(obuf) \in Nat /\ Len(stream) \in Nat /\ Len(reader) \in Nat
    BY DEF TypeOK
  <2>2. (Usable("send")' <=> Usable("send")) /\ subs' = subs
    BY <1>3 DEF Usable, netVars
  <2>3. stream' = stream /\ reader' = reader
    BY <1>3
  <2> QED
    BY <1>2, <1>5, <2>1, <2>2, <2>3, InsideCounted DEF Counted
<1> QED
  BY <1>6, <1>7, <1>8 DEF Calls

\* A thread moves on within its call.
LEMMA MovesOn ==
    ASSUME TypeOK, NEW t \in Inside, NEW place \in InCommand, Goto(t, place)
    PROVE  Inside' = Inside /\ pc'[t] = place
BY DEF TypeOK, Goto, Inside

LEMMA FlushStep == ASSUME LInv, NEW t \in Threads, Flush(t) PROVE Calls'
<1> USE DEF LInv
<1>1. t \in Inside /\ Inside' = Inside /\ pc'[t] = "reading"
  <2>1. t \in Inside /\ Goto(t, "reading")
    BY DEF Flush, Inside, InCommand
  <2> QED
    BY <2>1, MovesOn DEF InCommand
<1>2. Len(stream') = Len(stream) + Len(obuf) /\ obuf' = <<>> /\ reader' = reader
  BY FlushTypes DEF Flush
<1>3. Usable("send") /\ text' = text /\ link' = link /\ alone' = alone
  BY DEF Flush
<1>4. stream' \in Seq(Replies) /\ obuf \in Seq(Commands) /\ stream \in Seq(Replies)
      /\ reader \in Seq(Replies)
  BY FlushTypes DEF TypeOK
<1>5. Fresh'
  BY <1>3 DEF Fresh, Usable
<1>6. Provided'
  <2>1. ASSUME NEW u \in alone PROVE u = t /\ obuf # <<>> /\ Inside = {t}
    BY <1>1, <1>3, <2>1 DEF Provided, Flush
  <2>2. obuf # <<>> => stream' # <<>>
    BY <1>2, <1>4, EmptySeq
  <2> QED
    BY <1>1, <1>3, <2>1, <2>2 DEF Provided
<1>7. Counted'
  <2>1. subs'["send"] = {} => subs["send"] = {}
    BY DEF Flush, TypeOK, Conns
  <2> QED
    BY <1>1, <1>2, <1>3, <1>4, <2>1, EmptySeq DEF Counted, Usable
<1> QED
  BY <1>5, <1>6, <1>7 DEF Calls

LEMMA ReadStep == ASSUME LInv, NEW t \in Threads, Read(t) PROVE Calls'
<1> USE DEF LInv
<1>1. t \in Inside /\ Inside' = Inside /\ pc'[t] = "read"
  <2>1. t \in Inside /\ Goto(t, "read")
    BY DEF Read, Inside, InCommand
  <2> QED
    BY <2>1, MovesOn DEF InCommand
<1>2. /\ reader' # <<>>
      /\ Len(stream') + Len(reader') = Len(stream) + Len(reader)
      /\ stream' \in Seq(Replies) /\ reader' \in Seq(Replies)
  BY ReadTypes
<1>3. Usable("send") /\ UNCHANGED <<netVars, obuf, alone>>
  BY DEF Read
<1>4. Fresh'
  BY <1>3 DEF Fresh, Usable, netVars
<1>5. Provided'
  <2>1. ASSUME NEW u \in alone PROVE u = t /\ Inside = {t}
    BY <1>1, <2>1 DEF Provided
  <2> QED
    BY <1>1, <1>2, <1>3, <2>1 DEF Provided
<1>6. Counted'
  <2>1. Len(obuf) \in Nat /\ Len(stream) \in Nat /\ Len(reader) \in Nat
        /\ Len(stream') \in Nat /\ Len(reader') \in Nat
    BY <1>2 DEF TypeOK
  <2> QED
    BY <1>1, <1>2, <1>3, <2>1, InsideCounted DEF Counted, Usable, netVars
<1> QED
  BY <1>4, <1>5, <1>6 DEF Calls

LEMMA ReadOnStep == ASSUME LInv, NEW t \in Threads, ReadOn(t) PROVE Calls'
<1> USE DEF LInv
<1>1. t \in Inside /\ Inside' = Inside /\ pc'[t] = "reading"
  <2>1. t \in Inside /\ Goto(t, "reading")
    BY DEF ReadOn, Inside, InCommand
  <2> QED
    BY <2>1, MovesOn DEF InCommand
<1>2. UNCHANGED <<netVars, sendVars, alone>>
  BY DEF ReadOn
<1>3. alone = {}
  BY <1>1 DEF Provided, ReadOn
<1>4. Fresh'
  BY <1>1, <1>2 DEF Fresh, netVars, sendVars
<1>5. Provided' /\ Counted'
  BY <1>1, <1>2, <1>3 DEF Provided, Counted, Usable, netVars, sendVars
<1> QED
  BY <1>4, <1>5 DEF Calls

\* A thread that returns leaves.
LEMMA Leaves ==
    ASSUME TypeOK, NEW t \in Inside, NEW r, Returns(t, r)
    PROVE  /\ Inside' = Inside \ {t}
           /\ Cardinality(Inside') = Cardinality(Inside) - 1
           /\ \A u \in Inside' : pc'[u] = pc[u]
<1>1. Inside' = Inside \ {t} /\ \A u \in Inside' : pc'[u] = pc[u]
  BY DEF TypeOK, Returns, Goto, Inside, InCommand
<1> QED
  BY <1>1, InsideCounted, FS_RemoveElement

\* When t has returned nobody is alone: whoever is was t.
LEMMA NoneAlone ==
    ASSUME Provided, NEW t \in Inside, NEW r, Returns(t, r)
    PROVE  alone' = {}
<1>1. \A u \in alone : u = t
  BY DEF Provided
<1> QED
  BY <1>1 DEF Returns

LEMMA TakeStep == ASSUME LInv, NEW t \in Threads, Take(t) PROVE Calls'
<1> USE DEF LInv
<1>1. t \in Inside /\ Returns(t, Head(reader))
  BY DEF Take, Inside, InCommand
<1>2. Cardinality(Inside') = Cardinality(Inside) - 1 /\ alone' = {}
  BY <1>1, Leaves, NoneAlone
<1>3. Len(reader') = Len(reader) - 1 /\ Len(reader) \in Nat /\ UNCHANGED <<netVars, obuf, stream>>
  BY DEF Take, TypeOK
<1>4. text["send"] \in {"up", "err"}
  BY <1>1 DEF Fresh
<1>5. Fresh' /\ Provided'
  BY <1>2, <1>3, <1>4 DEF Fresh, Provided, netVars
<1>6. Counted'
  <2>1. Len(obuf) \in Nat /\ Len(stream) \in Nat
    BY DEF TypeOK
  <2> QED
    BY <1>2, <1>3, <2>1, InsideCounted DEF Counted, Usable, netVars
<1> QED
  BY <1>5, <1>6 DEF Calls

LEMMA FailStep == ASSUME LInv, NEW t \in Threads, Fail(t) PROVE Calls'
<1> USE DEF LInv
<1>1. t \in Inside /\ Returns(t, "NULL")
  BY DEF Fail, Inside, InCommand
<1>2. alone' = {}
  BY <1>1, NoneAlone
<1>3. text'["send"] = "err"
  BY DEF Fail, TypeOK, Conns
<1> QED
  BY <1>2, <1>3 DEF Calls, Fresh, Provided, Counted, Usable

LEMMA BreakStep == ASSUME LInv, NEW k \in Conns, Break(k) PROVE Calls'
<1> USE DEF LInv
<1>1. Inside' = Inside /\ UNCHANGED <<text, reader, pc, alone>>
  BY DEF Break, Inside
<1>2. CASE k = "send"
  <2>1. ~Usable("send")' /\ text["send"] = "up"
    BY <1>2 DEF Break, Usable, TypeOK, Conns
  <2> QED
    BY <1>1, <2>1 DEF Calls, Fresh, Provided, Counted
<1>3. CASE k = "recv"
  <2>1. /\ UNCHANGED <<sendVars, alone>>
        /\ subs'["send"] = subs["send"]
        /\ link'["send"] = link["send"]
    BY <1>3 DEF Break, TypeOK, Conns, sendVars
  <2>2. Usable("send")' <=> Usable("send")
    BY <1>1, <2>1 DEF Usable
  <2> QED
    BY <1>1, <2>1, <2>2, Aside DEF Calls
<1> QED
  BY <1>2, <1>3 DEF Conns

LEMMA ConnectSendStep == ASSUME LInv, ConnectSend PROVE Calls'
<1> USE DEF LInv
<1>1. Inside = {} /\ obuf = <<>> /\ stream = <<>> /\ reader = <<>>
  BY DEF ConnectSend, Fresh
<1>2. Inside' = {} /\ text'["send"] = "up" /\ UNCHANGED <<sendVars, alone>>
  BY <1>1 DEF ConnectSend, Connected, Inside, TypeOK, Conns
<1>3. alone = {}
  BY <1>1 DEF Provided
<1> QED
  BY <1>1, <1>2, <1>3, FS_EmptySet DEF Calls, Fresh, Provided, Counted, sendVars

LEMMA PeerPublishStep == ASSUME LInv, NEW c \in Channels, PeerPublish(c) PROVE Calls'
<1> USE DEF LInv
<1>1. Inside' = Inside /\ UNCHANGED <<netVars, obuf, reader, pc, alone>>
  BY DEF PeerPublish, Inside
<1>2. stream' # <<>>
  <2>1. stream' = Append(stream, "push") /\ stream \in Seq(Replies)
    BY DEF PeerPublish, TypeOK
  <2> QED
    BY <2>1, AppendProperties, EmptySeq DEF Replies
<1>3. subs["send"] # {}
  BY DEF PeerPublish
<1>4. Fresh'
  BY <1>1 DEF PeerPublish, Fresh, Usable, netVars
<1> QED
  BY <1>1, <1>2, <1>3, <1>4 DEF Calls, Provided, Counted, Usable, netVars

LEMMA CallsPreserved == LInv /\ [Next]_vars => Calls'
<1> SUFFICES ASSUME LInv, [Next]_vars PROVE Calls'
  OBVIOUS
<1>1. CASE Subscribing
  <2>1. ASSUME NEW c \in Channels, SubscribeSend(c) PROVE Calls'
    BY <2>1, EntersStep DEF SubscribeSend, Threads, Inside, InCommand, Commands
  <2> QED
    BY <1>1, <2>1, AsideSteps DEF Subscribing
<1>2. ASSUME NEW t \in AppThreads, PublishSend(t) PROVE Calls'
  BY <1>2, EntersStep DEF PublishSend, Threads, Inside, InCommand, Commands
<1>3. ASSUME NEW t \in Threads, Commanding(t) PROVE Calls'
  BY <1>3, FlushStep, ReadStep, TakeStep, ReadOnStep, FailStep DEF Commanding
<1> QED
  BY <1>1, <1>2, <1>3, AsideSteps, BreakStep, ConnectSendStep, PeerPublishStep DEF Next

-----------------------------------------------------------------------------
(* The theorems.                                                           *)

LEMMA LinkInvariant == Spec => []LInv
<1>1. LInv /\ [Next]_vars => LInv'
  BY TypePreserved, LinkedPreserved, CallsPreserved DEF LInv, Calls
<1> QED
  BY Initially, <1>1, PTL DEF Spec

\* The contexts, connections and streams of a Subscriber keep their types, and
\* each thread stays within the calls it may make (Subscriber.cpp:42-181).
THEOREM TypeCorrect == Spec => []TypeOK
<1>1. LInv => TypeOK
  BY DEF LInv
<1> QED
  BY LinkInvariant, <1>1, PTL

\* A thread whose redisCommand no other has overlapped never waits for a reply
\* that does not come, whatever went on before in the context
\* (Subscriber.cpp:120, 169).
THEOREM AloneIsServed == Spec => []ReaderServed
<1>1. LInv => ReaderServed
  BY DEF LInv, Provided, ReaderServed
<1> QED
  BY LinkInvariant, <1>1, PTL

\* However many threads share m_sendText, and whoever takes whose reply: when
\* all have returned, nothing is left of them, until something is subscribed to
\* (Subscriber.cpp:120, 169).
THEOREM AllIsTaken == Spec => []NothingLeftBehind
<1>1. ASSUME LInv, Usable("send"), Inside = {}, subs["send"] = {}
      PROVE  obuf = <<>> /\ stream = <<>> /\ reader = <<>>
  <2>1. Len(obuf) + Len(stream) + Len(reader) = 0
    BY <1>1, FS_EmptySet DEF LInv, Counted
  <2>2. /\ obuf \in Seq(Commands) /\ stream \in Seq(Replies) /\ reader \in Seq(Replies)
        /\ Len(obuf) \in Nat /\ Len(stream) \in Nat /\ Len(reader) \in Nat
    BY <1>1 DEF LInv, TypeOK
  <2>3. Len(obuf) = 0 /\ Len(stream) = 0 /\ Len(reader) = 0
    BY <2>1, <2>2
  <2> QED
    BY <2>2, <2>3, EmptySeq
<1>2. LInv => NothingLeftBehind
  BY <1>1 DEF NothingLeftBehind
<1> QED
  BY LinkInvariant, <1>2, PTL
=============================================================================
