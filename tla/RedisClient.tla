---------------------------- MODULE RedisClient ----------------------------
(***************************************************************************)
(* redis::RedisClient as RedisMgr::start runs it: a thread that connects   *)
(* m_recvText and then m_sendText, and never looks at them again; and the  *)
(* threads that call setValue, getValue, del, expire, persist and ping,    *)
(* which look at m_sendText once to see that it is there and once more to  *)
(* use it, without a lock.                                                 *)
(*                                                                         *)
(* connect stores the new context in the member before it checks it, frees *)
(* it there when it is in error, and clears the member last, so a caller   *)
(* can meet a context in error, a freed one, or none after all.  What      *)
(* happens with one that is freed or gone is undefined; here the caller    *)
(* does not come back.                                                     *)
(*                                                                         *)
(* There is no lock, and a hiredis context is for one thread at a time: an *)
(* application makes one call at a time.  (SubscriberLink shows calls that *)
(* overlap in a context.)                                                  *)
(*                                                                         *)
(* External, modelled from its use: hiredis, the redis server, and what    *)
(* protobuf and BASE::StringToNumber make of bytes.                        *)
(***************************************************************************)
EXTENDS Integers, Sequences

CONSTANTS
    Callers, Keys, NoValue, Cleared, NoCommand,    \* as in KeyValue
    Texts, Ints, Messages,
    IntBits,       \* width of int, which is narrower than int64
    Cut,           \* Cut[v]: what precedes the first NUL of the bytes v
    Number         \* Number[v]: the number read from the bytes v

Values == Texts \cup Ints \cup Messages

\* What is left of an int64 formatted with %d: its low bits, with a sign.
Narrow(v) ==
    LET half == 2^(IntBits - 1) IN ((v + half) % (2 * half)) - half

ASSUME ClientAssumption ==
    /\ Ints \subseteq Int
    /\ IntBits \in Nat \ {0}
    /\ \A v \in Ints : Narrow(v) \in Ints
    /\ Cut \in [Values -> Values]
    /\ Number \in [Values -> Ints]
    /\ \A v \in Ints : Cut[v] = v /\ Number[v] = v
    /\ NoValue \notin Values
    /\ Cleared \notin Values \cup {NoValue}

Conns == {"recv", "send"}    \* m_recvText, m_sendText

VARIABLES
    text,        \* text[k]: "null", "up", "bad" (in error) or "freed"
    link,        \* the connection of m_sendText stands
    stream,      \* its replies not yet taken: a string reply's bytes, or NoValue
    pc,          \* pc[t]: where the caller t is
    early,       \* the callers whose test saw a context that had not connected
    cmd,         \* cmd[t]: what it asks for
    answer,      \* answer[t]: what its last getValue left it
    store,       \* the server's keys
    volatile     \* the keys with a time to live

ctxVars  == <<text, link, stream>>
callVars == <<pc, early, cmd, answer>>
keyVars  == <<store, volatile>>
vars     == <<ctxVars, callVars, keyVars>>

\* What a call of op leaves in the caller's variable when the reply is the bytes
\* r: a string up to a NUL, a number, or a message, which is cleared first.
Taken(op, r) ==
    IF r = NoValue          THEN NoValue
    ELSE IF op = "get"      THEN Cut[r]
    ELSE IF op = "getInt"   THEN Number[r]
    ELSE IF op = "getMsg"   THEN IF r \in Messages THEN r ELSE Cleared
    ELSE NoValue

KV == INSTANCE KeyValue WITH
        call <- cmd,
        done <- [t \in Callers |-> pc[t] = "sent"],
        due  <- [t \in Callers |->
                   IF pc[t] = "sent" /\ stream # <<>>
                   THEN Taken(cmd[t].op, Head(stream))
                   ELSE NoValue]

ASSUME CommandAssumption == NoCommand \notin KV!Commands

Usable == text["send"] = "up" /\ link

TypeOK ==
    /\ text \in [Conns -> {"null", "up", "bad", "freed"}]
    /\ link \in BOOLEAN
    /\ stream \in Seq(Values \cup {NoValue})
    /\ pc \in [Callers -> {"idle", "checked", "sent", "undefined"}]
    /\ early \subseteq Callers
    /\ cmd \in [Callers -> KV!Commands \cup {NoCommand}]
    /\ \A t \in Callers : cmd[t] = NoCommand <=> pc[t] = "idle"
    /\ answer \in [Callers -> Values \cup {NoValue, Cleared}]
    /\ store \in [Keys -> Values \cup {NoValue}]
    /\ volatile \subseteq Keys

Init ==
    /\ text = [k \in Conns |-> "null"]
    /\ link = FALSE
    /\ stream = <<>>
    /\ pc = [t \in Callers |-> "idle"]
    /\ early = {}
    /\ cmd = [t \in Callers |-> NoCommand]
    /\ answer = [t \in Callers |-> NoValue]
    /\ store = [k \in Keys |-> NoValue]
    /\ volatile = {}

-----------------------------------------------------------------------------
(* The connecting thread: redisClient and connect.                         *)

\* Faulty: a context whose connection is lost is connected again.
ToConnectAgain(k) ==
    \/ k = "recv" /\ text["recv"] = "null"
    \/ k = "send" /\ text["recv"] = "up" /\ text["send"] \in {"null", "up"} /\ ~link

\* The thread is about to connect k.
ToConnect(k) ==
    \/ k = "recv" /\ text["recv"] = "null"
    \/ k = "send" /\ text["recv"] = "up" /\ text["send"] = "null"

ConnectGood(k) ==
    /\ ToConnect(k)
    /\ text' = [text EXCEPT ![k] = "up"]
    /\ link' = (link \/ k = "send")
    /\ UNCHANGED <<stream, callVars, keyVars>>

\* redisConnectWithTimeout returns a context in error, which the member holds.
ConnectBad(k) ==
    /\ ToConnect(k)
    /\ text' = [text EXCEPT ![k] = "bad"]
    /\ UNCHANGED <<link, stream, callVars, keyVars>>

FreeBad(k) ==
    /\ text[k] = "bad"
    /\ text' = [text EXCEPT ![k] = "freed"]
    /\ UNCHANGED <<link, stream, callVars, keyVars>>

\* Faulty: the member is not cleared.
ClearBadLeaves(k) ==
    /\ text[k] = "freed"
    /\ UNCHANGED vars

ClearBad(k) ==
    /\ text[k] = "freed"
    /\ text' = [text EXCEPT ![k] = "null"]
    /\ UNCHANGED <<link, stream, callVars, keyVars>>

-----------------------------------------------------------------------------
(* The server and the network.                                             *)

Break ==
    /\ Usable
    /\ link' = FALSE
    /\ stream' = <<>>
    /\ UNCHANGED <<text, callVars, keyVars>>

Lapse(k) ==
    /\ k \in volatile
    /\ store' = [store EXCEPT ![k] = NoValue]
    /\ volatile' = volatile \ {k}
    /\ UNCHANGED <<ctxVars, callVars>>

\* What setValue sends for a value: a std::string up to a NUL, an int64 as an int,
\* the bytes of a message as they are.
Sent(c) ==
    CASE c.op = "set"    -> Cut[c.value]
      [] c.op = "setInt" -> Narrow(c.value)
      [] c.op = "setMsg" -> c.value

\* The value of c's key, and the keys with a time to live, after c.
StoredBy(c) ==
    IF c.op \in KV!Setters THEN Sent(c)
    ELSE IF c.op = "del" THEN NoValue
    ELSE store[c.key]

VolatileAfter(c) ==
    IF c.op = "expire" /\ store[c.key] # NoValue THEN volatile \cup {c.key}
    ELSE IF c.op \in KV!Setters \cup {"del", "persist"} THEN volatile \ {c.key}
    ELSE volatile

ReplyTo(c) == IF c.op \in {"get", "getInt", "getMsg"} THEN store[c.key] ELSE NoValue

-----------------------------------------------------------------------------
(* Callers.                                                                *)

\* m_sendText is not null.  (When it is, the call returns at once.)
Check(t, c) ==
    /\ \A u \in Callers : pc[u] = "idle"
    /\ text["send"] # "null"
    /\ pc' = [pc EXCEPT ![t] = "checked"]
    /\ early' = IF text["send"] = "up" THEN early ELSE early \cup {t}
    /\ cmd' = [cmd EXCEPT ![t] = c]
    /\ UNCHANGED <<ctxVars, answer, keyVars>>

\* redisCommand reads m_sendText again; the command reaches the server.
Send(t) ==
    /\ pc[t] = "checked"
    /\ Usable
    /\ stream' = Append(stream, ReplyTo(cmd[t]))
    /\ store' = [store EXCEPT ![cmd[t].key] = StoredBy(cmd[t])]
    /\ volatile' = VolatileAfter(cmd[t])
    /\ pc' = [pc EXCEPT ![t] = "sent"]
    /\ UNCHANGED <<text, link, early, cmd, answer>>

\* The context is null by now, or has been freed.
Misuse(t) ==
    /\ pc[t] = "checked"
    /\ text["send"] \in {"null", "freed"}
    /\ pc' = [pc EXCEPT ![t] = "undefined"]
    /\ UNCHANGED <<ctxVars, early, cmd, answer, keyVars>>

\* The call is over; a is what it leaves in the caller's variable.
Returns(t, a) ==
    /\ pc' = [pc EXCEPT ![t] = "idle"]
    /\ early' = early \ {t}
    /\ cmd' = [cmd EXCEPT ![t] = NoCommand]
    /\ answer' = [answer EXCEPT ![t] = a]

\* Faulty: a command that fails is tried again.
CallFailsRetries(t) ==
    /\ pc[t] = "checked"
    /\ UNCHANGED vars

\* The message does not serialize, the context is in error (redisCommand returns
\* NULL), or the server answers with an error.
CallFails(t) ==
    /\ pc[t] = "checked"
    /\ cmd[t].op = "setMsg" \/ text["send"] \in {"up", "bad"}
    /\ Returns(t, NoValue)
    /\ UNCHANGED <<ctxVars, keyVars>>

\* Faulty: setValue does not wait for its reply.
ReplyUnread(t) ==
    /\ pc[t] = "sent"
    /\ stream # <<>>
    /\ stream' = IF cmd[t].op \in KV!Setters THEN stream ELSE Tail(stream)
    /\ Returns(t, Taken(cmd[t].op, Head(stream)))
    /\ UNCHANGED <<text, link, keyVars>>

\* Faulty: the thread is idle with its command still there.
ReplyKeepsCommand(t) ==
    /\ pc[t] = "sent"
    /\ stream # <<>>
    /\ stream' = Tail(stream)
    /\ pc' = [pc EXCEPT ![t] = "idle"]
    /\ UNCHANGED <<text, link, early, keyVars, cmd, answer>>

\* The reply comes and is freed.
Reply(t) ==
    /\ pc[t] = "sent"
    /\ stream # <<>>
    /\ stream' = Tail(stream)
    /\ Returns(t, Taken(cmd[t].op, Head(stream)))
    /\ UNCHANGED <<text, link, keyVars>>

\* The connection is lost before the reply comes: NULL.
ReplyLost(t) ==
    /\ pc[t] = "sent"
    /\ ~link
    /\ Returns(t, NoValue)
    /\ UNCHANGED <<ctxVars, keyVars>>

-----------------------------------------------------------------------------
(* The specification.                                                      *)

Connecting(k) == ConnectGood(k) \/ ConnectBad(k) \/ FreeBad(k) \/ ClearBad(k)

Finish(t) == Send(t) \/ Misuse(t) \/ CallFails(t) \/ Reply(t) \/ ReplyLost(t)

Next ==
    \/ \E k \in Conns : Connecting(k)
    \/ Break
    \/ \E k \in Keys : Lapse(k)
    \/ \E t \in Callers, c \in KV!Commands : Check(t, c)
    \/ \E t \in Callers : Finish(t)

Spec == Init /\ [][Next]_vars

\* Threads run on, and a server that is tried again and again is reached in
\* the end.  Connections may break for ever, and no call need be made.
Fairness ==
    /\ \A k \in Conns : SF_vars(ConnectGood(k)) /\ WF_vars(FreeBad(k) \/ ClearBad(k))
    /\ \A t \in Callers : WF_vars(Finish(t))

FairSpec == Spec /\ Fairness

-----------------------------------------------------------------------------
(* Properties.                                                             *)

\* A caller whose test saw a connected m_sendText finds it there when it uses it:
\* the connecting thread, which frees contexts in the same member, never frees
\* that one, however often the connection breaks (RedisClient.cpp:60, 94-98).
NoContextMisused == \A t \in Callers : pc[t] = "undefined" => t \in early

\* The key/value functions keep the promise of KeyValue: no answer of another
\* call or of an earlier one, nothing stored that was not asked for, and what is
\* stored is read back.
KeyValueSpec == KV!Spec

\* Each call that saw a connected m_sendText returns, also when the connection is
\* lost under it.
EveryCallReturns ==
    \A t \in Callers : (pc[t] = "checked" /\ t \notin early) ~> (pc[t] = "idle")

\* However often connecting fails, m_sendText is connected in the end.
EventuallyConnected == text["send"] = "null" ~> text["send"] = "up"
=============================================================================
