--------------------------- MODULE SubscriberLink ---------------------------
(***************************************************************************)
(* The two connections of redis::Subscriber and what the server makes of   *)
(* what it sends on them.  The redis thread reads m_recvText and, in       *)
(* subscribe, sends SUBSCRIBE on m_sendText; application threads publish   *)
(* on m_sendText, with no lock between them and subscribe.                 *)
(*                                                                         *)
(* External, modelled from how Subscriber.cpp uses it: the redis server    *)
(* (a subscription belongs to the connection that made it; a connection    *)
(* with one may not publish; a lost connection loses its subscriptions and *)
(* its replies) and hiredis 0.14.  redisCommand appends its command to the *)
(* output of the context; a reply that has been read already is returned   *)
(* at once, with the output left for a later call; else all of the output  *)
(* is written, and the socket is read until there is a reply.  What a read *)
(* finds, for whomever it is, goes to the one reader of the context.  An   *)
(* error stays in the context, and every later call that has to write or   *)
(* to read fails.  Threads in one context at once are a data race: what is *)
(* modelled of it is any order of these steps.                             *)
(*                                                                         *)
(* No command is ever written to m_recvText, so no reply comes on it.  The *)
(* channels in the map do not change here: that is Subscriber's.           *)
(***************************************************************************)
EXTENDS Naturals, Sequences, FiniteSets

CONSTANTS
    RedisThread,   \* the thread of redisThread
    AppThreads,    \* the threads that publish
    Channels,      \* the keys of m_mapChan
    Publish,       \* a PUBLISH; on which channel makes no difference here
    MaxPushes      \* bound on the replies under way that nobody has asked for

ASSUME LinkAssumption ==
    /\ IsFiniteSet(AppThreads)
    /\ RedisThread \notin AppThreads
    /\ Publish \notin Channels
    /\ MaxPushes \in Nat

Conns    == {"recv", "send"}                            \* m_recvText, m_sendText
Threads  == AppThreads \cup {RedisThread}
Commands == Channels \cup {Publish}                      \* c: a SUBSCRIBE to c
Replies  == {"confirm", "push", "integer", "error"}

VARIABLES
    text,      \* text[k]: the context of k: "null", "up", "err" (in error for
               \*   good), or "bad" and then "freed" (one that did not connect)
    link,      \* link[k]: the connection of a context that is up still stands
    subs,      \* subs[k]: the server's subscriptions of connection k
    obuf,      \* m_sendText: commands appended and not written
    stream,    \* m_sendText: replies of the server not read
    reader,    \* m_sendText: replies read and not returned
    pc,        \* pc[t]: where thread t is
    todo,      \* the channels subscribe() has still to do
    alone      \* the threads whose redisCommand no other has overlapped (history)

sendVars == <<obuf, stream, reader>>
netVars  == <<text, link, subs>>
vars     == <<netVars, sendVars, pc, todo, alone>>

Usable(k) == text[k] = "up" /\ link[k]

\* In redisCommand on m_sendText: the command is appended, then written, then
\* a read has returned.
InCommand == {"appended", "reading", "read"}
Inside    == {t \in Threads : pc[t] \in InCommand}

\* Another thread has been inside while t is.
Overlapped(t) == t \in Inside /\ t \notin alone

TypeOK ==
    /\ text \in [Conns -> {"null", "up", "err", "bad", "freed"}]
    /\ link \in [Conns -> BOOLEAN]
    /\ subs \in [Conns -> SUBSET Channels]
    /\ obuf \in Seq(Commands)
    /\ stream \in Seq(Replies)
    /\ reader \in Seq(Replies)
    /\ pc \in [Threads -> {"top", "subscribe", "idle", "tested"} \cup InCommand]
    /\ pc[RedisThread] \in {"top", "subscribe"} \cup InCommand
    /\ \A t \in AppThreads : pc[t] \in {"idle", "tested"} \cup InCommand
    /\ todo \subseteq Channels
    /\ alone \subseteq Threads

Init ==
    /\ text = [k \in Conns |-> "null"]
    /\ link = [k \in Conns |-> FALSE]
    /\ subs = [k \in Conns |-> {}]
    /\ obuf = <<>>
    /\ stream = <<>>
    /\ reader = <<>>
    /\ pc = [t \in Threads |-> IF t = RedisThread THEN "top" ELSE "idle"]
    /\ todo = {}
    /\ alone = {}

Goto(t, place) == pc' = [pc EXCEPT ![t] = place]

-----------------------------------------------------------------------------
(* The server and the network.                                             *)

\* A peer publishes on channel c, to which m_sendText is subscribed.
PeerPublish(c) ==
    /\ Usable("send")
    /\ c \in subs["send"]
    /\ Len(obuf) + Len(stream) + Len(reader) < Cardinality(Inside) + MaxPushes
    /\ stream' = Append(stream, "push")
    /\ UNCHANGED <<netVars, obuf, reader, pc, todo, alone>>

\* What is on its way, either way, is lost; what has been read is not.
Break(k) ==
    /\ Usable(k)
    /\ link' = [link EXCEPT ![k] = FALSE]
    /\ subs' = [subs EXCEPT ![k] = {}]
    /\ IF k = "send" THEN obuf' = <<>> /\ stream' = <<>> ELSE UNCHANGED <<obuf, stream>>
    /\ UNCHANGED <<text, reader, pc, todo, alone>>

\* A new connection, without subscriptions or replies.
Connected(k) ==
    /\ text' = [text EXCEPT ![k] = "up"]
    /\ link' = [link EXCEPT ![k] = TRUE]
    /\ subs' = [subs EXCEPT ![k] = {}]

\* The channels that the first n commands of the output subscribe to.
Subscribed(n) == {obuf[i] : i \in 1 .. n} \ {Publish}

\* The answer to command i of the output: a connection may not publish once it
\* has subscribed.
Answer(i) ==
    IF obuf[i] # Publish THEN "confirm"
    ELSE IF subs["send"] \cup Subscribed(i - 1) # {} THEN "error"
    ELSE "integer"

-----------------------------------------------------------------------------
(* The redis thread, but for its redisCommand.                             *)

AtTop == pc[RedisThread] = "top"

\* subscribe() returns at once while m_sendText is null.
CallSubscribe ==
    IF text["send"] = "null"
    THEN UNCHANGED <<pc, todo>>
    ELSE Goto(RedisThread, "subscribe") /\ todo' = Channels

ConnectRecv ==
    /\ AtTop
    /\ text["recv"] = "null"
    /\ Connected("recv")
    /\ CallSubscribe
    /\ UNCHANGED <<sendVars, alone>>

ConnectSend ==
    /\ AtTop
    /\ text["recv"] # "null"
    /\ text["send"] = "null"
    /\ Connected("send")
    /\ UNCHANGED <<sendVars, pc, todo, alone>>

\* connect stores a context in error in m_sendText, ...
ConnectSendBad ==
    /\ AtTop
    /\ text["recv"] # "null"
    /\ text["send"] = "null"
    /\ text' = [text EXCEPT !["send"] = "bad"]
    /\ UNCHANGED <<link, subs, sendVars, pc, todo, alone>>

\* ... frees it, and clears the member.
DropSendBad ==
    \/ /\ text["send"] = "bad"
       /\ text' = [text EXCEPT !["send"] = "freed"]
       /\ UNCHANGED <<link, subs, sendVars, pc, todo, alone>>
    \/ /\ text["send"] = "freed"
       /\ text' = [text EXCEPT !["send"] = "null"]
       /\ UNCHANGED <<link, subs, sendVars, pc, todo, alone>>

\* redisGetReply, which waits while m_recvText stands: a loss of the connection
\* is all that ends the wait.
Reading == AtTop /\ text["recv"] # "null" /\ text["send"] \in {"up", "err"}

\* redisGetReply fails and so does reconnect: a context in error, or none.
ReconnectFails ==
    /\ Reading
    /\ ~Usable("recv")
    /\ text' \in {[text EXCEPT !["recv"] = e] : e \in {"err", "null"}}
    /\ UNCHANGED <<link, subs, sendVars, pc, todo, alone>>

\* Faulty: a context left in error by reconnect is not tried again.
ReconnectOnce ==
    /\ Reading
    /\ text["recv"] = "up"
    /\ ~link["recv"]
    /\ Connected("recv")
    /\ CallSubscribe
    /\ UNCHANGED <<sendVars, alone>>

\* redisGetReply fails, reconnect succeeds, and subscribe() follows.
Reconnect ==
    /\ Reading
    /\ ~Usable("recv")
    /\ Connected("recv")
    /\ CallSubscribe
    /\ UNCHANGED <<sendVars, alone>>

\* Faulty: the thread returns where it should go round.
SubscribeEndsThread ==
    /\ pc[RedisThread] = "subscribe"
    /\ todo = {}
    /\ Goto(RedisThread, "idle")
    /\ UNCHANGED <<netVars, sendVars, todo, alone>>

SubscribeEnds ==
    /\ pc[RedisThread] = "subscribe"
    /\ todo = {}
    /\ Goto(RedisThread, "top")
    /\ UNCHANGED <<netVars, sendVars, todo, alone>>

-----------------------------------------------------------------------------
(* publish, but for its redisCommandArgv.                                  *)

\* m_sendText is not null.  (When it is, publish returns false.)
Test(t) ==
    /\ pc[t] = "idle"
    /\ text["send"] # "null"
    /\ Goto(t, "tested")
    /\ UNCHANGED <<netVars, sendVars, todo, alone>>

\* It is a context that did not connect: NULL, and publish returns true.  What
\* happens with one that has been freed, or with none, is undefined.
PublishBad(t) ==
    /\ pc[t] = "tested"
    /\ text["send"] = "bad"
    /\ Goto(t, "idle")
    /\ UNCHANGED <<netVars, sendVars, todo, alone>>

-----------------------------------------------------------------------------
(* redisCommand on m_sendText, by any thread.                              *)

\* Thread t enters; what goes to a connection that is lost gets nowhere.
Enters(t, cmd) ==
    /\ text["send"] \in {"up", "err"}
    /\ obuf' = IF Usable("send") THEN Append(obuf, cmd) ELSE obuf
    /\ Goto(t, "appended")
    /\ alone' = IF Inside = {} THEN {t} ELSE {}
    /\ UNCHANGED <<netVars, stream, reader>>

\* Faulty: subscribe waits for a reply to each channel, and sends nothing.
SubscribeSendsNone(c) ==
    /\ pc[RedisThread] = "subscribe"
    /\ c \in todo
    /\ todo' = todo \ {c}
    /\ text["send"] \in {"up", "err"}
    /\ Goto(RedisThread, "appended")
    /\ alone' = IF Inside = {} THEN {RedisThread} ELSE {}
    /\ UNCHANGED <<netVars, sendVars>>

SubscribeSend(c) ==
    /\ pc[RedisThread] = "subscribe"
    /\ c \in todo
    /\ todo' = todo \ {c}
    /\ Enters(RedisThread, c)

PublishSend(t) ==
    /\ pc[t] = "tested"
    /\ Enters(t, Publish)
    /\ UNCHANGED todo

\* Thread t is back with reply r, or NULL: subscribe() returns at an error and
\* else goes on to the next channel; publish returns true.
Returns(t, r) ==
    /\ IF t # RedisThread
       THEN Goto(t, "idle") /\ UNCHANGED todo
       ELSE IF r = "error"
       THEN Goto(t, "top") /\ todo' = {}
       ELSE Goto(t, "subscribe") /\ UNCHANGED todo
    /\ alone' = alone \ {t}

\* There is nothing in the reader: the whole output is written.
Flush(t) ==
    /\ pc[t] = "appended"
    /\ reader = <<>>
    /\ Usable("send")
    /\ obuf' = <<>>
    /\ stream' = stream \o [i \in 1 .. Len(obuf) |-> Answer(i)]
    /\ subs' = [subs EXCEPT !["send"] = @ \cup Subscribed(Len(obuf))]
    /\ Goto(t, "reading")
    /\ UNCHANGED <<text, link, reader, todo, alone>>

\* Some of the replies, or all, are moved to the reader.
Read(t) ==
    /\ pc[t] = "reading"
    /\ Usable("send")
    /\ \E n \in 1 .. Len(stream) :
          /\ reader' = reader \o SubSeq(stream, 1, n)
          /\ stream' = SubSeq(stream, n + 1, Len(stream))
    /\ Goto(t, "read")
    /\ UNCHANGED <<netVars, obuf, todo, alone>>

\* Faulty: publish does not wait for its reply.
TakeUnread(t) ==
    /\ pc[t] \in {"appended", "read"}
    /\ reader # <<>>
    /\ reader' = IF t = RedisThread THEN Tail(reader) ELSE reader
    /\ Returns(t, Head(reader))
    /\ UNCHANGED <<netVars, obuf, stream>>

\* The oldest reply in the reader is the answer, whoever it was meant for.
Take(t) ==
    /\ pc[t] \in {"appended", "read"}
    /\ reader # <<>>
    /\ reader' = Tail(reader)
    /\ Returns(t, Head(reader))
    /\ UNCHANGED <<netVars, obuf, stream>>

\* Another thread has taken what was read: t reads on.
ReadOn(t) ==
    /\ pc[t] = "read"
    /\ reader = <<>>
    /\ Goto(t, "reading")
    /\ UNCHANGED <<netVars, sendVars, todo, alone>>

\* Faulty: a read that fails is tried again.
FailReadsAgain(t) ==
    /\ \/ pc[t] = "appended" /\ reader = <<>> /\ Returns(t, "NULL")
       \/ pc[t] = "reading" /\ UNCHANGED <<pc, todo, alone>>
    /\ ~Usable("send")
    /\ text' = [text EXCEPT !["send"] = "err"]
    /\ UNCHANGED <<link, subs, sendVars>>

\* Writing or reading fails, and the context says so from now on: NULL.
Fail(t) ==
    /\ \/ pc[t] = "appended" /\ reader = <<>>
       \/ pc[t] = "reading"
    /\ ~Usable("send")
    /\ text' = [text EXCEPT !["send"] = "err"]
    /\ Returns(t, "NULL")
    /\ UNCHANGED <<link, subs, sendVars>>

-----------------------------------------------------------------------------
(* The specification.                                                      *)

Commanding(t) == Flush(t) \/ Read(t) \/ Take(t) \/ ReadOn(t) \/ Fail(t)

Subscribing == (\E c \in Channels : SubscribeSend(c)) \/ SubscribeEnds

Next ==
    \/ \E c \in Channels : PeerPublish(c)
    \/ \E k \in Conns : Break(k)
    \/ ConnectRecv
    \/ ConnectSend
    \/ ConnectSendBad
    \/ DropSendBad
    \/ ReconnectFails
    \/ Reconnect
    \/ Subscribing
    \/ \E t \in AppThreads : Test(t) \/ PublishBad(t) \/ PublishSend(t)
    \/ \E t \in Threads : Commanding(t)

Spec == Init /\ [][Next]_vars

\* The threads run on, and a server that can be reached again and again is
\* reached in the end.  A thread is not for ever too late for what it could
\* read, or for what it has read.  No peer need publish, no connection need
\* break, and nobody need call publish.
Fairness ==
    /\ WF_vars(Subscribing)
    /\ WF_vars(DropSendBad)
    /\ SF_vars(ConnectRecv)
    /\ SF_vars(ConnectSend)
    /\ SF_vars(Reconnect)
    /\ \A t \in AppThreads : WF_vars(PublishBad(t) \/ PublishSend(t))
    /\ \A t \in Threads : WF_vars(Commanding(t)) /\ SF_vars(Read(t)) /\ SF_vars(Take(t))

FairSpec == Spec /\ Fairness

-----------------------------------------------------------------------------
(* Properties.                                                             *)

\* A thread that has m_sendText to itself never waits for a reply that does not
\* come, whatever earlier calls have left unwritten or unread.  (One that has
\* not may wait in read() while its reply is in the reader.)
ReaderServed ==
    \A t \in alone : pc[t] = "reading" /\ Usable("send") => stream # <<>>

\* When all calls are over, even if they took one another's replies, nothing of
\* them is left on m_sendText that would answer a later one, as long as it has no
\* subscription (Subscriber.cpp:120, 169).
NothingLeftBehind ==
    Usable("send") /\ Inside = {} /\ subs["send"] = {} =>
        obuf = <<>> /\ stream = <<>> /\ reader = <<>>

\* A receiving connection that is lost is made anew, unless a publisher comes
\* into the context while subscribe is in redisCommand on it.
RecvRecovers ==
    (text["recv"] # "null" /\ ~Usable("recv")) ~> (Usable("recv") \/ Overlapped(RedisThread))

\* Each redisCommand returns, also when the connection is lost under it, unless
\* another thread came into the context meanwhile.
EveryCommandReturns ==
    \A t \in Threads : (t \in Inside) ~> (t \notin Inside \/ Overlapped(t))

\* A thread whose reply was read by another is not left for ever if others go on
\* calling: their commands bring replies that it can read.
OvertakenReturns ==
    \A t \in Threads :
        (\E u \in Threads \ {t} : []<>(u \in Inside) /\ []<>(u \notin Inside))
            => (t \in Inside ~> t \notin Inside)

\* A Subscriber whose connections stay up is subscribed to its channels on
\* the connection it reads.
EventuallyListening ==
    <>[](Usable("recv") /\ Usable("send")) => <>(Channels \subseteq subs["recv"])
=============================================================================
