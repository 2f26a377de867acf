-------------------------- MODULE SubscriberProofs --------------------------
(***************************************************************************)
(* Proofs about Subscriber, for any application threads, channels and      *)
(* message types and for queues of any length.  When the application edits *)
(* the map of channels before the start or under m_mutexMsgs, Subscriber   *)
(* respects the contract of Chan, so all that ChanProofs shows of a Chan   *)
(* holds of the channels in the map; and nobody waits for m_mutexData.     *)
(***************************************************************************)
EXTENDS Subscriber, TLAPS

CP == INSTANCE ChanProofs WITH MaxMsgs <- 0

LEMMA ChanAssumptionHolds == CP!ChanAssumption
BY SubscriberAssumption DEF CP!ChanAssumption, CP!Data, C!Data, Data

-----------------------------------------------------------------------------
(* ChanProofs states its results with definitions of its own instance of   *)
(* Chan, which are those of C.                                             *)

LEMMA SameNext == C!Next => CP!Next
BY DEF C!Next, CP!Next, C!New, CP!New, C!MayDelete, CP!MayDelete,
   C!Delete, CP!Delete, C!MayRegister, CP!MayRegister,
   C!RegisterOps, CP!RegisterOps, C!MayAddMsg, CP!MayAddMsg,
   C!CallAddMsg, CP!CallAddMsg, C!Room, CP!Room, C!Data, CP!Data,
   C!Polls, CP!Polls, C!MayPoll, CP!MayPoll, C!CallPolling, CP!CallPolling,
   C!Step, CP!Step, C!Advance, CP!Advance, C!LockAddMsg, CP!LockAddMsg,
   C!PushMsg, CP!PushMsg, C!LockPolling, CP!LockPolling,
   C!ParseMsg, CP!ParseMsg, C!DropGarbled, CP!DropGarbled,
   C!DropUnhandled, CP!DropUnhandled, C!CallHandler, CP!CallHandler,
   C!HandlerReturns, CP!HandlerReturns, C!EndPolling, CP!EndPolling,
   C!frames, CP!frames, C!objects, CP!objects

LEMMA SameSpec == C!Spec => CP!Spec
BY DEF C!Spec, CP!Spec, C!Init, CP!Init, C!vars, CP!vars,
   C!Next, CP!Next, C!New, CP!New, C!MayDelete, CP!MayDelete,
   C!Delete, CP!Delete, C!MayRegister, CP!MayRegister,
   C!RegisterOps, CP!RegisterOps, C!MayAddMsg, CP!MayAddMsg,
   C!CallAddMsg, CP!CallAddMsg, C!Room, CP!Room, C!Data, CP!Data,
   C!Polls, CP!Polls, C!MayPoll, CP!MayPoll, C!CallPolling, CP!CallPolling,
   C!Step, CP!Step, C!Advance, CP!Advance, C!LockAddMsg, CP!LockAddMsg,
   C!PushMsg, CP!PushMsg, C!LockPolling, CP!LockPolling,
   C!ParseMsg, CP!ParseMsg, C!DropGarbled, CP!DropGarbled,
   C!DropUnhandled, CP!DropUnhandled, C!CallHandler, CP!CallHandler,
   C!HandlerReturns, CP!HandlerReturns, C!EndPolling, CP!EndPolling,
   C!frames, CP!frames, C!objects, CP!objects

-----------------------------------------------------------------------------
(* The invariant.                                                          *)

OwnTypes ==
    /\ mapChan \subseteq Channels
    /\ mutexMsgs \in Threads \cup {NoThread}
    /\ pc \in [Threads -> RedisPlaces \cup AppPlaces]
    /\ pc[RedisThread] \in RedisPlaces
    /\ \A t \in AppThreads : pc[t] \in AppPlaces
    /\ itChan \in [Threads -> Channels \cup {NoChan}]
    /\ recvText \in BOOLEAN
    /\ sendText \in BOOLEAN
    /\ reply \in Entries
    /\ redisData \in Entries

\* Where a thread is in Subscriber and where it is in Chan go together, and
\* it is only ever in a Chan of the map.
Coupled ==
    /\ live = mapChan
    /\ \A t \in Threads : IF at[t] = "out" THEN this[t] = NoChan ELSE this[t] \in mapChan
    /\ \A t \in AppThreads :
          /\ at[t] # "out" => pc[t] = "inChan" /\ at[t] \notin {"addMsg", "push"}
          /\ pc[t] = "iterate" => itChan[t] \in mapChan \cup {NoChan}
    /\ at[RedisThread] # "out" =>
          pc[RedisThread] = "addMsg" /\ at[RedisThread] \in {"addMsg", "push"}

\* What the redis thread works on is the reply it read last.
Fresh ==
    /\ pc[RedisThread] \in {"reply", "find", "addMsg"} => redisData = reply
    /\ pc[RedisThread] = "find" => IsMessage
    /\ at[RedisThread] \in {"addMsg", "push"} =>
          this[RedisThread] = redisData.channel /\ arg[RedisThread] = redisData.data

Own == OwnTypes /\ MsgsExclusion /\ Coupled /\ Fresh

IInv == CP!Typed /\ Own

LEMMA OwnInit == Init => CP!Typed /\ Own
<1> SUFFICES ASSUME Init
             PROVE  CP!Typed /\ Own
    OBVIOUS
<1>1. CP!Typed
      BY ChanAssumptionHolds, CP!TypedInit DEF Init, C!Init, CP!Init
<1>2. Own
      BY SubscriberAssumption DEF Init, C!Init, Threads, NoChan, RedisPlaces, AppPlaces,
         Own, OwnTypes, MsgsExclusion, HoldsMsgs, Coupled, Fresh, IsMessage,
         CP!Typed, CP!VarsOK, CP!Places, Entries, Empty
<1>3. QED
      BY <1>1, <1>2

\* What a step inside a Chan does to the thread that takes it.
LEMMA ChanStepShape ==
    ASSUME CP!Typed, NEW t \in Threads, C!Step(t)
    PROVE  /\ UNCHANGED live
           /\ \A u \in Threads \ {t} :
                 at'[u] = at[u] /\ this'[u] = this[u] /\ arg'[u] = arg[u]
           /\ at[t] # "out"
           /\ \/ at'[t] = "out" /\ this'[t] = NoChan
              \/ /\ at'[t] # "out"
                 /\ this'[t] = this[t]
                 /\ at[t] \in {"addMsg", "push"} <=> at'[t] \in {"addMsg", "push"}
                 /\ at[t] \in {"addMsg", "push"} => arg'[t] = arg[t]
<1> USE DEF CP!Typed, CP!VarsOK, CP!Places, C!objects, C!frames
<1>1. CASE C!LockAddMsg(t)
      BY <1>1 DEF C!LockAddMsg
<1>2. CASE C!LockPolling(t)
      BY <1>2 DEF C!LockPolling
<1>3. CASE C!PushMsg(t)
      BY <1>3 DEF C!PushMsg
<1>4. CASE C!ParseMsg(t)
      BY <1>4 DEF C!ParseMsg
<1>5. CASE C!DropGarbled(t)
      BY <1>5 DEF C!DropGarbled
<1>6. CASE C!DropUnhandled(t)
      BY <1>6 DEF C!DropUnhandled
<1>7. CASE C!CallHandler(t)
      BY <1>7 DEF C!CallHandler
<1>8. CASE C!HandlerReturns(t)
      BY <1>8 DEF C!HandlerReturns
<1>9. CASE C!EndPolling(t)
      BY <1>9 DEF C!EndPolling
<1>10. QED
      BY <1>1, <1>2, <1>3, <1>4, <1>5, <1>6, <1>7, <1>8, <1>9 DEF C!Step, C!Advance

\* A step of Subscriber preserves Own and keeps the contract of Chan.
LEMMA OwnNext ==
    ASSUME Discipline # "free", CP!Typed, Own, [Next]_vars
    PROVE  Own' /\ (C!Next \/ UNCHANGED chanVars)
<1> USE SubscriberAssumption DEF Threads, NoChan, RedisPlaces, AppPlaces, Own, OwnTypes,
        MsgsExclusion, HoldsMsgs, Coupled, Fresh, IsMessage, CP!Typed, CP!VarsOK, CP!Places
<1>1. ASSUME Start
      PROVE  Own' /\ UNCHANGED chanVars
      BY <1>1 DEF Start, Goto, chanVars
<1>2. ASSUME ConnectRecv
      PROVE  Own' /\ UNCHANGED chanVars
      BY <1>2 DEF ConnectRecv, CallSubscribe, Iterate, Goto, chanVars
<1>3. ASSUME ConnectSend
      PROVE  Own' /\ UNCHANGED chanVars
      BY <1>3 DEF ConnectSend, chanVars
<1>4. ASSUME ReplyFails
      PROVE  Own' /\ UNCHANGED chanVars
      <2>1. CASE CallSubscribe /\ UNCHANGED recvText
            BY <1>4, <2>1 DEF ReplyFails, CallSubscribe, Iterate, Goto, chanVars
      <2>2. CASE recvText' \in BOOLEAN /\ UNCHANGED <<pc, itChan>>
            <3>1. OwnTypes'
                  BY <1>4, <2>2, Zenon DEF ReplyFails
            <3>2. QED
                  BY <1>4, <2>2, <3>1 DEF ReplyFails, chanVars
      <2>3. QED
            BY <1>4, <2>1, <2>2 DEF ReplyFails
<1>5. ASSUME SubscribeOne
      PROVE  Own' /\ UNCHANGED chanVars
      BY <1>5 DEF SubscribeOne, Iterate, Goto, chanVars
<1>6. ASSUME SubscribeEnds
      PROVE  Own' /\ UNCHANGED chanVars
      BY <1>6 DEF SubscribeEnds, Goto, chanVars
<1>7. ASSUME NEW r \in Replies, GetReply(r)
      PROVE  Own' /\ UNCHANGED chanVars
      <2>1. r \in Entries /\ Parse(r, Empty) = r
            <3>1. r \in Entries
                  <4>1. CASE r = Empty
                        BY <4>1 DEF Entries, Empty
                  <4>2. CASE r \in [channel : Pushed, data : Data \cup {NoData}]
                        BY <4>2 DEF Entries
                  <4>3. QED
                        BY <4>1, <4>2 DEF Replies
            <3>2. r = [channel |-> r.channel, data |-> r.data]
                  BY <3>1 DEF Entries
            <3>3. Empty.channel = NoChan /\ Empty.data = NoData
                  BY DEF Empty
            <3>4. Parse(r, Empty) = [channel |-> r.channel, data |-> r.data]
                  BY <3>3, Zenon DEF Parse
            <3>5. QED
                  BY <3>1, <3>2, <3>4
      <2>2. QED
            BY <1>7, <2>1 DEF GetReply, Goto, chanVars
<1>8. ASSUME IgnoreReply
      PROVE  Own' /\ UNCHANGED chanVars
      BY <1>8 DEF IgnoreReply, Entries, Empty, Goto, chanVars
<1>9. ASSUME LockDispatch
      PROVE  Own' /\ UNCHANGED chanVars
      BY <1>9 DEF LockDispatch, Goto, chanVars
<1>10. ASSUME DispatchFound
      PROVE  Own' /\ C!Next
      <2>1. Own'
            BY <1>10 DEF DispatchFound, C!CallAddMsg, C!objects, Goto, Entries, chanVars
      <2>2. C!Next
            <3>1. redisData.channel \in live /\ redisData.channel \in Channels
                  BY <1>10 DEF DispatchFound
            <3>2. redisData.data \in C!Data
                  BY <1>10 DEF DispatchFound, Entries, Data
            <3>3. QED
                  BY <1>10, <3>1, <3>2 DEF DispatchFound, C!MayAddMsg, C!Room, C!Next
      <2>3. QED
            BY <2>1, <2>2
<1>11. ASSUME DispatchUnknown
      PROVE  Own' /\ UNCHANGED chanVars
      BY <1>11 DEF DispatchUnknown, Entries, Empty, Goto, chanVars
<1>12. ASSUME UnlockDispatch
      PROVE  Own' /\ UNCHANGED chanVars
      BY <1>12 DEF UnlockDispatch, Entries, Empty, Goto, chanVars
<1>13. ASSUME NEW t \in AppThreads, LockPolling(t)
      PROVE  Own' /\ UNCHANGED chanVars
      BY <1>13 DEF LockPolling, Iterate, Goto, chanVars
<1>14. ASSUME NEW t \in AppThreads, PollChan(t)
      PROVE  Own' /\ C!Next
      <2>1. Own'
            BY <1>14 DEF PollChan, C!CallPolling, C!objects, Goto, chanVars
      <2>2. C!Next
            BY <1>14 DEF PollChan, C!MayPoll, C!Polls, C!Next
      <2>3. QED
            BY <2>1, <2>2
<1>15. ASSUME NEW t \in AppThreads, NextChan(t)
      PROVE  Own' /\ UNCHANGED chanVars
      BY <1>15 DEF NextChan, Iterate, Goto, chanVars
<1>16. ASSUME NEW t \in AppThreads, UnlockPolling(t)
      PROVE  Own' /\ UNCHANGED chanVars
      BY <1>16 DEF UnlockPolling, Goto, chanVars
<1>17. ASSUME NEW t \in AppThreads, AppLock(t)
      PROVE  Own' /\ UNCHANGED chanVars
      BY <1>17 DEF AppLock, Goto, chanVars
<1>18. ASSUME NEW t \in AppThreads, AppUnlock(t)
      PROVE  Own' /\ UNCHANGED chanVars
      BY <1>18 DEF AppUnlock, Goto, chanVars
<1>19. ASSUME NEW t \in AppThreads, NEW c \in Channels, RegisterChan(t, c)
      PROVE  Own' /\ C!Next
      <2>1. Own'
            BY <1>19 DEF RegisterChan, MayEdit, InApp, C!New, C!frames
      <2>2. C!Next
            BY <1>19 DEF RegisterChan, MayEdit, InApp, C!Next
      <2>3. QED
            BY <2>1, <2>2
<1>20. ASSUME NEW t \in AppThreads, NEW c \in Channels, UnregisterChan(t, c)
      PROVE  Own' /\ C!Next
      <2>1. Own'
            BY <1>20, ZenonT(60) DEF UnregisterChan, MayEdit, InApp, C!Delete, C!frames
      <2>2. C!Next
            BY <1>20, ZenonT(60) DEF UnregisterChan, MayEdit, InApp, C!MayDelete, C!Next
      <2>3. QED
            BY <2>1, <2>2
<1>21. ASSUME NEW t \in AppThreads, NEW o \in Ops, RegisterOps(t, o)
      PROVE  Own' /\ C!Next
      <2>1. Own'
            BY <1>21 DEF RegisterOps, MayEdit, InApp, C!RegisterOps, C!frames, subVars
      <2>2. C!Next
            BY <1>21 DEF RegisterOps, MayEdit, InApp, C!MayRegister, C!Next
      <2>3. QED
            BY <2>1, <2>2
<1>22. ASSUME NEW t \in Threads, ChanStep(t)
      PROVE  Own' /\ C!Next
      BY <1>22, ChanStepShape DEF ChanStep, subVars, C!Next
<1>23. CASE UNCHANGED vars
      BY <1>23 DEF vars, chanVars, subVars
<1>24. QED
      BY <1>1, <1>2, <1>3, <1>4, <1>5, <1>6, <1>7, <1>8, <1>9, <1>10, <1>11, <1>12,
         <1>13, <1>14, <1>15, <1>16, <1>17, <1>18, <1>19, <1>20, <1>21, <1>22, <1>23
      DEF Next, RedisNext, Dispatch, AppNext, Polling, Edit

-----------------------------------------------------------------------------
(* Theorems.                                                               *)

\* The inductive invariant, and with it the contract of Chan at every step.
LEMMA Inductive ==
    ASSUME Discipline # "free"
    PROVE  Spec => []IInv /\ [][C!Next]_(C!vars)
<1>1. Init => IInv
      BY OwnInit DEF IInv
<1>2. IInv /\ [Next]_vars => [C!Next]_(C!vars) /\ Own'
      BY OwnNext DEF IInv, C!vars, chanVars
<1>3. IInv /\ [Next]_vars => IInv'
      <2>1. [C!Next]_(C!vars) => [CP!Next]_(CP!vars)
            BY SameNext DEF C!vars, CP!vars
      <2>2. QED
            BY <1>2, <2>1, ChanAssumptionHolds, CP!TypedNext DEF IInv
<1>4. QED
      BY <1>1, <1>2, <1>3, PTL DEF Spec

\* m_mutexMsgs excludes, whatever locks first (Subscriber.cpp:24-32, 200-208).
THEOREM MsgsExclusive ==
    ASSUME Discipline # "free"
    PROVE  Spec => []MsgsExclusion
<1>1. IInv => MsgsExclusion
      BY DEF IInv, Own
<1>2. QED
      BY <1>1, Inductive, PTL

\* What dispatch works on comes from the reply read last (Subscriber.cpp:89-92).
THEOREM ReplyFresh ==
    ASSUME Discipline # "free"
    PROVE  Spec => []NoStaleReply
<1>1. IInv => NoStaleReply
      BY DEF IInv, Own, Fresh, Coupled, NoStaleReply
<1>2. QED
      BY <1>1, Inductive, PTL

\* Subscriber uses the Chan objects as their contract says: no use after
\* delete, one polling at a time, no handler map changed under a lookup.
THEOREM ContractKept ==
    ASSUME Discipline # "free"
    PROVE  Spec => ChanSpec
<1>1. Init => C!Init
      BY DEF Init
<1>2. QED
      BY <1>1, Inductive, PTL DEF Spec, ChanSpec, C!Spec

\* So a registered channel is a mailbox: the promise of ImplementsMailbox
\* holds of the channels of a Subscriber.
THEOREM ChannelsAreMailboxes ==
    ASSUME Discipline # "free"
    PROVE  Spec => CP!MailboxSpec
<1>1. Spec => CP!Spec
      BY ContractKept, SameSpec DEF ChanSpec
<1>2. QED
      BY <1>1, ChanAssumptionHolds, CP!ImplementsMailbox

\* Nobody waits for a m_mutexData, so the two mutexes cannot deadlock.
THEOREM DataMutexFree ==
    ASSUME Discipline # "free"
    PROVE  Spec => []DataMutexUncontended
<1>1. Spec => []CP!IInv
      BY ContractKept, SameSpec, ChanAssumptionHolds, CP!Invariant DEF ChanSpec
<1>2. IInv /\ CP!IInv => DataMutexUncontended
      <2> SUFFICES ASSUME IInv, CP!IInv, NEW t \in Threads,
                          at[t] \in {"addMsg", "polling"}
                   PROVE  mutexData[this[t]] = NoThread
          BY DEF DataMutexUncontended
      <2> USE SubscriberAssumption DEF Threads, IInv, Own, OwnTypes
      <2>1. HoldsMsgs(t)
            BY DEF Coupled, HoldsMsgs
      <2>2. \A u \in Threads : u # t => at[u] = "out"
            BY <2>1 DEF MsgsExclusion, Coupled, HoldsMsgs
      <2>3. \A u \in Threads : mutexData[this[t]] # u
            <3>1. this[t] \in Channels
                  BY DEF Coupled
            <3>2. QED
                  BY <2>2, <3>1 DEF CP!IInv, CP!Locks, CP!NoLockLeaked, CP!Inside
      <2>4. mutexData[this[t]] \in Threads \cup {NoThread}
            BY DEF Coupled, CP!Typed, CP!VarsOK
      <2>5. QED
            BY <2>3, <2>4
<1>3. QED
      BY <1>1, <1>2, Inductive, PTL

\* Type correctness of a Subscriber and of its channels.
THEOREM TypeCorrect ==
    ASSUME Discipline # "free"
    PROVE  Spec => []TypeOK
<1>1. Spec => []CP!TypeOK
      BY ContractKept, SameSpec, ChanAssumptionHolds, CP!TypeCorrect DEF ChanSpec
<1>2. IInv /\ CP!TypeOK => TypeOK
      BY DEF IInv, Own, OwnTypes, TypeOK, C!TypeOK, CP!TypeOK, C!VarsOK, CP!VarsOK,
         C!Data, CP!Data, C!Places, CP!Places
<1>3. QED
      BY <1>1, <1>2, Inductive, PTL
=============================================================================
