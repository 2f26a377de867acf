----------------------------- MODULE Subscriber -----------------------------
(***************************************************************************)
(* redis::Subscriber (Subscriber.cpp) with the parts of its base class it  *)
(* runs on (RedisClient.cpp: registerChan, unregisterChan, registerOps,    *)
(* connect, reconnect, parse): the thread that reads replies from redis    *)
(* and dispatches them to channels, and the application threads that poll  *)
(* the channels and edit the map of channels.                              *)
(*                                                                         *)
(* m_mapChan is protected by m_mutexMsgs in polling and dispatch, and by   *)
(* nothing in subscribe, registerChan, unregisterChan and registerOps.  So *)
(* what goes wrong depends on how an application edits the map, and the    *)
(* constant Discipline says how:                                           *)
(*   "setup"   before startPubsub only, and for every channel of Pushed;   *)
(*   "locked"  at any time, by a thread that holds m_mutexMsgs (it is a    *)
(*             public member), which a handler does too;                   *)
(*   "free"    at any time: all the interface asks for.                    *)
(*                                                                         *)
(* The replies that come out of m_recvText are the input of this module:   *)
(* any reply, and messages for the channels of Pushed.                     *)
(***************************************************************************)
EXTENDS Naturals, Sequences

CONSTANTS
    RedisThread,   \* the thread startPubsub creates
    AppThreads,    \* the threads that call the public functions
    Channels,      \* channel names, numbers so that std::map orders them
    Pushed,        \* the channels redis pushes messages for
    Ops, Garbled, NoThread, NoData,     \* as in Chan
    Discipline,    \* how the application edits the map
    MaxQueue       \* bound on a channel's queue in a checked instance

Threads == AppThreads \cup {RedisThread}
NoChan  == 0

VARIABLES
    live, vecData, opsHandler, mutexData, it, msg, at, this, arg,   \* Chan
    mapChan,       \* the keys of m_mapChan
    mutexMsgs,     \* the thread that holds m_mutexMsgs
    pc,            \* pc[t]: where thread t is in Subscriber
    itChan,        \* itChan[t]: t's iterator over m_mapChan, NoChan its end
    recvText,      \* m_recvText is a context
    sendText,      \* m_sendText is a context
    reply,         \* the reply the redis thread works on
    redisData      \* its stRedisData

chanVars == <<live, vecData, opsHandler, mutexData, it, msg, at, this, arg>>
subVars  == <<mapChan, mutexMsgs, pc, itChan, recvText, sendText, reply, redisData>>
vars     == <<chanVars, subVars>>

C == INSTANCE Chan WITH MaxMsgs <- 0

Data == C!Data

ASSUME SubscriberAssumption ==
    /\ RedisThread \notin AppThreads
    /\ NoThread \notin Threads
    /\ Channels \subseteq Nat \ {NoChan}
    /\ Pushed \subseteq Channels
    /\ Garbled \notin Ops
    /\ NoData \notin Data
    /\ Discipline \in {"setup", "locked", "free"}
    /\ MaxQueue \in Nat

\* Of a reply, and of redisData: its entries enSubPubReplyChannel and
\* enSubPubReplyData.  A message has both; the confirmation of SUBSCRIBE has
\* an integer for the second; a status, an error or no reply has neither.
Entries == [channel : Channels \cup {NoChan}, data : Data \cup {NoData}]
Empty   == [channel |-> NoChan, data |-> NoData]
Replies == {Empty} \cup [channel : Pushed, data : Data \cup {NoData}]

RedisPlaces == {"unborn", "top", "subscribe", "reply", "find", "addMsg"}
AppPlaces   == {"idle", "locked", "iterate", "inChan"}

TypeOK ==
    /\ C!TypeOK
    /\ mapChan \subseteq Channels
    /\ mutexMsgs \in Threads \cup {NoThread}
    /\ pc \in [Threads -> RedisPlaces \cup AppPlaces]
    /\ pc[RedisThread] \in RedisPlaces
    /\ \A t \in AppThreads : pc[t] \in AppPlaces
    /\ itChan \in [Threads -> Channels \cup {NoChan}]
    /\ recvText \in BOOLEAN
    /\ sendText \in BOOLEAN
    /\ reply \in Entries
    /\ redisData \in Entries

Init ==
    /\ C!Init
    /\ mapChan = {}
    /\ mutexMsgs = NoThread
    /\ pc = [t \in Threads |-> IF t = RedisThread THEN "unborn" ELSE "idle"]
    /\ itChan = [t \in Threads |-> NoChan]
    /\ recvText = FALSE
    /\ sendText = FALSE
    /\ reply = Empty
    /\ redisData = Empty

Goto(t, place) == pc' = [pc EXCEPT ![t] = place]

\* n is the key of m_mapChan after k (after nothing when k is NoChan), or
\* NoChan past the last.  An iterator to an erased node may lead anywhere.
Follows(k, n) ==
    \/ k \notin mapChan \cup {NoChan}
    \/ IF n = NoChan
       THEN \A c \in mapChan : c <= k
       ELSE n > k /\ \A c \in mapChan : c > k => n <= c

\* Thread t moves its iterator from key k to the next one.
Iterate(t, k) ==
    \E n \in mapChan \cup {NoChan} :
        Follows(k, n) /\ itChan' = [itChan EXCEPT ![t] = n]

-----------------------------------------------------------------------------
(* The redis thread: redisThread, subscribe, dispatch.                     *)

\* RedisMgr::startPubsub
Start ==
    /\ pc[RedisThread] = "unborn"
    /\ Discipline = "setup" => Pushed \subseteq mapChan
    /\ Goto(RedisThread, "top")
    /\ UNCHANGED <<chanVars, mapChan, mutexMsgs, itChan, recvText, sendText, reply, redisData>>

\* subscribe(), from its call to the first iteration or to its return.
\* Without m_sendText, as at the first connection, it returns at once.
CallSubscribe ==
    IF sendText /\ mapChan # {}
    THEN Iterate(RedisThread, NoChan) /\ Goto(RedisThread, "subscribe")
    ELSE UNCHANGED <<itChan, pc>>

\* m_recvText == nullptr: connect, and subscribe; or fail and try again.
ConnectRecv ==
    /\ pc[RedisThread] = "top"
    /\ ~recvText
    /\ recvText' = TRUE
    /\ CallSubscribe
    /\ UNCHANGED <<chanVars, mapChan, mutexMsgs, sendText, reply, redisData>>

\* m_sendText == nullptr: connect, without subscribing.
ConnectSend ==
    /\ pc[RedisThread] = "top"
    /\ recvText
    /\ ~sendText
    /\ sendText' = TRUE
    /\ UNCHANGED <<chanVars, mapChan, mutexMsgs, pc, itChan, recvText, reply, redisData>>

\* redisGetReply fails: the context is freed and made anew, and subscribe()
\* runs; or that fails too and leaves a context in error, or none.
ReplyFails ==
    /\ pc[RedisThread] = "top"
    /\ recvText
    /\ sendText
    /\ \/ CallSubscribe /\ UNCHANGED recvText
       \/ recvText' \in BOOLEAN /\ UNCHANGED <<pc, itChan>>
    /\ UNCHANGED <<chanVars, mapChan, mutexMsgs, sendText, reply, redisData>>

\* One SUBSCRIBE: on to the next channel, or back to the loop after the last
\* one and after an error reply.
SubscribeOne ==
    /\ pc[RedisThread] = "subscribe"
    /\ itChan[RedisThread] # NoChan
    /\ \/ Iterate(RedisThread, itChan[RedisThread]) /\ UNCHANGED pc
       \/ itChan' = [itChan EXCEPT ![RedisThread] = NoChan] /\ Goto(RedisThread, "top")
    /\ UNCHANGED <<chanVars, mapChan, mutexMsgs, recvText, sendText, reply, redisData>>

SubscribeEnds ==
    /\ pc[RedisThread] = "subscribe"
    /\ itChan[RedisThread] = NoChan
    /\ Goto(RedisThread, "top")
    /\ UNCHANGED <<chanVars, mapChan, mutexMsgs, itChan, recvText, sendText, reply, redisData>>

\* stRedisData::insert keeps the entry that is there already.
Parse(r, rd) ==
    [channel |-> IF rd.channel = NoChan THEN r.channel ELSE rd.channel,
     data    |-> IF rd.data = NoData THEN r.data ELSE rd.data]

\* Faulty: redisData is not cleared between replies.
GetReplyUncleared(r) ==
    /\ pc[RedisThread] = "top"
    /\ recvText
    /\ sendText
    /\ MaxQueue > 0 /\ r.channel # NoChan => Len(vecData[r.channel]) < MaxQueue
    /\ reply' = r
    /\ redisData' = Parse(r, redisData)
    /\ Goto(RedisThread, "reply")
    /\ UNCHANGED <<chanVars, mapChan, mutexMsgs, itChan, recvText, sendText>>

\* redisGetReply succeeds: redisData is cleared and filled from the reply.
GetReply(r) ==
    /\ pc[RedisThread] = "top"
    /\ recvText
    /\ sendText
    /\ MaxQueue > 0 /\ r.channel # NoChan => Len(vecData[r.channel]) < MaxQueue
    /\ reply' = r
    /\ redisData' = Parse(r, Empty)
    /\ Goto(RedisThread, "reply")
    /\ UNCHANGED <<chanVars, mapChan, mutexMsgs, itChan, recvText, sendText>>

\* dispatch returns early, or is not called: no channel or no data.
IgnoreReply ==
    /\ pc[RedisThread] = "reply"
    /\ redisData.channel = NoChan \/ redisData.data = NoData
    /\ reply' = Empty
    /\ Goto(RedisThread, "top")
    /\ UNCHANGED <<chanVars, mapChan, mutexMsgs, itChan, recvText, sendText, redisData>>

IsMessage == redisData.channel # NoChan /\ redisData.data # NoData

\* Faulty: dispatch does not wait for m_mutexMsgs.
LockDispatchBlind ==
    /\ pc[RedisThread] = "reply"
    /\ IsMessage
    /\ mutexMsgs' = RedisThread
    /\ Goto(RedisThread, "find")
    /\ UNCHANGED <<chanVars, mapChan, itChan, recvText, sendText, reply, redisData>>

LockDispatch ==
    /\ pc[RedisThread] = "reply"
    /\ IsMessage
    /\ mutexMsgs = NoThread
    /\ mutexMsgs' = RedisThread
    /\ Goto(RedisThread, "find")
    /\ UNCHANGED <<chanVars, mapChan, itChan, recvText, sendText, reply, redisData>>

\* Faulty: m_mutexMsgs is released before addMsg.
DispatchFoundUnlocks ==
    /\ pc[RedisThread] = "find"
    /\ redisData.channel \in mapChan
    /\ mutexMsgs' = NoThread
    /\ C!CallAddMsg(RedisThread, redisData.channel, redisData.data)
    /\ Goto(RedisThread, "addMsg")
    /\ UNCHANGED <<mapChan, itChan, recvText, sendText, reply, redisData>>

DispatchFound ==
    /\ pc[RedisThread] = "find"
    /\ redisData.channel \in mapChan
    /\ C!CallAddMsg(RedisThread, redisData.channel, redisData.data)
    /\ Goto(RedisThread, "addMsg")
    /\ UNCHANGED <<mapChan, mutexMsgs, itChan, recvText, sendText, reply, redisData>>

\* The channel is not in the map: dispatch returns with m_mutexMsgs locked.
DispatchUnknown ==
    /\ pc[RedisThread] = "find"
    /\ redisData.channel \notin mapChan
    /\ reply' = Empty
    /\ Goto(RedisThread, "top")
    /\ UNCHANGED <<chanVars, mapChan, mutexMsgs, itChan, recvText, sendText, redisData>>

\* Faulty: dispatch never releases m_mutexMsgs.
UnlockDispatchForgets ==
    /\ pc[RedisThread] = "addMsg"
    /\ at[RedisThread] = "out"
    /\ reply' = Empty
    /\ Goto(RedisThread, "top")
    /\ UNCHANGED <<chanVars, mapChan, mutexMsgs, itChan, recvText, sendText, redisData>>

UnlockDispatch ==
    /\ pc[RedisThread] = "addMsg"
    /\ at[RedisThread] = "out"
    /\ mutexMsgs' = NoThread
    /\ reply' = Empty
    /\ Goto(RedisThread, "top")
    /\ UNCHANGED <<chanVars, mapChan, itChan, recvText, sendText, redisData>>

-----------------------------------------------------------------------------
(* Application threads: polling.                                           *)

\* A thread waits for m_mutexMsgs where it is: nothing has happened yet.
LockPolling(t) ==
    /\ pc[t] = "idle"
    /\ mutexMsgs = NoThread
    /\ mutexMsgs' = t
    /\ Iterate(t, NoChan)
    /\ Goto(t, "iterate")
    /\ UNCHANGED <<chanVars, mapChan, recvText, sendText, reply, redisData>>

PollChan(t) ==
    /\ pc[t] = "iterate"
    /\ itChan[t] # NoChan
    /\ C!CallPolling(t, itChan[t])
    /\ Goto(t, "inChan")
    /\ UNCHANGED <<mapChan, mutexMsgs, itChan, recvText, sendText, reply, redisData>>

\* Faulty: polling stops after its first channel.
NextChanStops(t) ==
    /\ pc[t] = "inChan"
    /\ at[t] = "out"
    /\ itChan' = [itChan EXCEPT ![t] = NoChan]
    /\ Goto(t, "iterate")
    /\ UNCHANGED <<chanVars, mapChan, mutexMsgs, recvText, sendText, reply, redisData>>

NextChan(t) ==
    /\ pc[t] = "inChan"
    /\ at[t] = "out"
    /\ Iterate(t, itChan[t])
    /\ Goto(t, "iterate")
    /\ UNCHANGED <<chanVars, mapChan, mutexMsgs, recvText, sendText, reply, redisData>>

UnlockPolling(t) ==
    /\ pc[t] = "iterate"
    /\ itChan[t] = NoChan
    /\ mutexMsgs' = NoThread
    /\ Goto(t, "idle")
    /\ UNCHANGED <<chanVars, mapChan, itChan, recvText, sendText, reply, redisData>>

-----------------------------------------------------------------------------
(* Application threads: the map of channels.                               *)

\* The application takes and gives back the public m_mutexMsgs itself.
AppLock(t) ==
    /\ Discipline = "locked"
    /\ pc[t] = "idle"
    /\ mutexMsgs = NoThread
    /\ mutexMsgs' = t
    /\ Goto(t, "locked")
    /\ UNCHANGED <<chanVars, mapChan, itChan, recvText, sendText, reply, redisData>>

AppUnlock(t) ==
    /\ pc[t] = "locked"
    /\ mutexMsgs' = NoThread
    /\ Goto(t, "idle")
    /\ UNCHANGED <<chanVars, mapChan, itChan, recvText, sendText, reply, redisData>>

\* Thread t runs application code: outside of this class, or in a handler.
InApp(t) == pc[t] \in {"idle", "locked"} \/ at[t] = "handler"

MayEdit(t) ==
    CASE Discipline = "setup" ->
            /\ pc[RedisThread] = "unborn"
            /\ \A u \in AppThreads : pc[u] = "idle"
      [] Discipline = "locked" -> InApp(t) /\ mutexMsgs = t
      [] Discipline = "free"   -> InApp(t)

\* RedisMgr::registerChan: a new Chan enters the map.  (If the name is taken
\* the new Chan is left out of it, and leaks.)
RegisterChan(t, c) ==
    /\ MayEdit(t)
    /\ c \notin mapChan
    /\ C!New(c)
    /\ mapChan' = mapChan \cup {c}
    /\ UNCHANGED <<mutexMsgs, pc, itChan, recvText, sendText, reply, redisData>>

\* Faulty: the deleted Chan stays in the map.
UnregisterChanKeeps(t, c) ==
    /\ MayEdit(t)
    /\ this[t] # c
    /\ c \in mapChan
    /\ C!Delete(c)
    /\ UNCHANGED <<mapChan, mutexMsgs, pc, itChan, recvText, sendText, reply, redisData>>

\* Faulty: a handler unregisters the channel it is called for.
UnregisterChanOwn(t, c) ==
    /\ MayEdit(t)
    /\ c \in mapChan
    /\ C!Delete(c)
    /\ mapChan' = mapChan \ {c}
    /\ UNCHANGED <<mutexMsgs, pc, itChan, recvText, sendText, reply, redisData>>

\* RedisClient::unregisterChan: the Chan is deleted and leaves the map.  A
\* handler of the channel cannot: its Chan is still polling.
UnregisterChan(t, c) ==
    /\ MayEdit(t)
    /\ this[t] # c
    /\ c \in mapChan
    /\ C!Delete(c)
    /\ mapChan' = mapChan \ {c}
    /\ UNCHANGED <<mutexMsgs, pc, itChan, recvText, sendText, reply, redisData>>

\* RedisMgr::Register: the channels in the map now get the handler.
RegisterOps(t, o) ==
    /\ MayEdit(t)
    /\ C!RegisterOps(mapChan, o)
    /\ UNCHANGED subVars

-----------------------------------------------------------------------------
(* The specification.                                                      *)

\* What follows a dispatch that has m_mutexMsgs.
Dispatch == DispatchFound \/ DispatchUnknown \/ UnlockDispatch

RedisNext ==
    \/ ConnectRecv
    \/ ConnectSend
    \/ ReplyFails
    \/ SubscribeOne
    \/ SubscribeEnds
    \/ \E r \in Replies : GetReply(r)
    \/ IgnoreReply
    \/ LockDispatch
    \/ Dispatch

\* What follows a polling that has m_mutexMsgs.
Polling(t) == PollChan(t) \/ NextChan(t) \/ UnlockPolling(t)

Edit(t) ==
    \/ \E c \in Channels : RegisterChan(t, c) \/ UnregisterChan(t, c)
    \/ \E o \in Ops : RegisterOps(t, o)

AppNext(t) ==
    \/ LockPolling(t)
    \/ Polling(t)
    \/ AppLock(t)
    \/ AppUnlock(t)
    \/ Edit(t)

ChanStep(t) == C!Step(t) /\ UNCHANGED subVars

Next ==
    \/ Start
    \/ RedisNext
    \/ \E t \in AppThreads : AppNext(t)
    \/ \E t \in Threads : ChanStep(t)

Spec == Init /\ [][Next]_vars

\* A thread that holds m_mutexMsgs runs on, handlers return, and a mutex that
\* is free again and again is obtained in the end, also by an application
\* that polls again and again.  Nothing is assumed of redis: no reply, error
\* or connection need ever come.
Fairness ==
    /\ WF_vars(Dispatch)
    /\ WF_vars(IgnoreReply)
    /\ SF_vars(LockDispatch)
    /\ \A t \in AppThreads :
          WF_vars(Polling(t)) /\ WF_vars(AppUnlock(t)) /\ SF_vars(LockPolling(t))
    /\ \A t \in Threads : WF_vars(ChanStep(t))

FairSpec == Spec /\ Fairness

-----------------------------------------------------------------------------
(* Properties.                                                             *)

\* Thread t is between lock and unlock of m_mutexMsgs.
HoldsMsgs(t) == pc[t] \in {"find", "addMsg", "iterate", "inChan", "locked"}

\* m_mutexMsgs excludes: no two threads are between its lock and its unlock
\* together, whatever locks first: dispatch, polling or the application.
MsgsExclusion == \A t \in Threads : HoldsMsgs(t) => mutexMsgs = t

\* Nobody ever waits for a channel's m_mutexData: all who take it hold
\* m_mutexMsgs.  The two mutexes are nested and cannot deadlock each other.
DataMutexUncontended ==
    \A t \in Threads :
        at[t] \in {"addMsg", "polling"} => mutexData[this[t]] = NoThread

\* What dispatch works on, and what it queues, comes from the reply just
\* read: nothing of an earlier one is left in redisData (Subscriber.cpp:89).
NoStaleReply ==
    /\ pc[RedisThread] = "reply" => redisData = reply
    /\ at[RedisThread] \in {"addMsg", "push"} =>
          /\ this[RedisThread] = reply.channel
          /\ arg[RedisThread] = reply.data

\* The objects in the map are used as Chan's contract says: alive, by one
\* polling at a time, never deleted or given a handler under a thread.
ChanSpec == C!Spec

\* A message that the redis thread has read is dispatched: dispatch returns.
EveryMessageDispatched ==
    (pc[RedisThread] = "reply" /\ IsMessage) ~> (pc[RedisThread] = "top")

\* A channel that holds messages is at some later moment found empty by a
\* polling: every message that is queued is consumed.
EveryMessageConsumed ==
    \A c \in Channels : (vecData[c] # <<>>) ~> (vecData[c] = <<>>)
=============================================================================
