------------------------- MODULE RedisClientProofs -------------------------
(***************************************************************************)
(* Proofs about RedisClient, for any callers, keys and values.  A caller   *)
(* that has seen a connected m_sendText never meets a null or a freed      *)
(* context; and for numbers that fit in an int and texts without a NUL the *)
(* client implements KeyValue.                                             *)
(***************************************************************************)
EXTENDS RedisClient, SequenceTheorems, TLAPS

-----------------------------------------------------------------------------
(* The inductive invariant.                                                *)

\* A connected m_sendText stays; the connection and the replies are its own.
Connected ==
    /\ link => text["send"] = "up"
    /\ stream # <<>> => link
    /\ \A t \in Callers : pc[t] = "sent" => text["send"] = "up"

\* The connected context that a caller has seen is still there.
Landed ==
    \A t \in Callers :
        t \notin early =>
            /\ pc[t] = "checked" => text["send"] = "up"
            /\ pc[t] # "undefined"

Getters == {"get", "getInt", "getMsg"}

OneCall == \A t, u \in Callers : pc[t] # "idle" /\ pc[u] # "idle" => t = u

\* The only reply there can be is that of the one call.
OneReply ==
    /\ Len(stream) <= 1
    /\ stream # <<>> =>
          \E t \in Callers :
              pc[t] = "sent" /\ (cmd[t].op \notin Getters => Head(stream) = NoValue)

IInv == TypeOK /\ Connected /\ Landed /\ OneCall /\ OneReply

LEMMA Initially == Init => IInv
<1> SUFFICES ASSUME Init PROVE IInv
  OBVIOUS
<1>1. TypeOK
  BY EmptySeq DEF Init, TypeOK
<1>2. Connected /\ Landed /\ OneCall /\ OneReply
  BY DEF Init, Connected, Landed, OneCall, OneReply
<1> QED
  BY <1>1, <1>2 DEF IInv

\* What a command stores and what it is answered with are values.
LEMMA CommandValues ==
    ASSUME TypeOK, NEW t \in Callers, pc[t] # "idle"
    PROVE  /\ cmd[t] \in KV!Commands
           /\ cmd[t] # NoCommand
           /\ StoredBy(cmd[t]) \in Values \cup {NoValue}
           /\ ReplyTo(cmd[t]) \in Values \cup {NoValue}
           /\ VolatileAfter(cmd[t]) \subseteq Keys
<1>1. cmd[t] \in KV!Commands /\ cmd[t] # NoCommand
  BY DEF TypeOK
<1>2. cmd[t].key \in Keys /\ cmd[t].value \in KV!Operands(cmd[t].op)
  BY <1>1 DEF KV!Commands
<1>3. cmd[t].op \in KV!Setters => Sent(cmd[t]) \in Values
  BY <1>2, ClientAssumption DEF ClientAssumption, KV!Operands, KV!Setters, Sent, Values
<1>4. store[cmd[t].key] \in Values \cup {NoValue}
  BY <1>2 DEF TypeOK
<1>5. StoredBy(cmd[t]) \in Values \cup {NoValue}
  BY <1>3, <1>4 DEF StoredBy
<1> QED
  BY <1>1, <1>2, <1>4, <1>5 DEF TypeOK, ReplyTo, VolatileAfter

\* What is taken from a reply is an answer.
LEMMA TakenValues ==
    ASSUME NEW op, NEW r \in Values \cup {NoValue}
    PROVE  Taken(op, r) \in Values \cup {NoValue, Cleared}
<1>1. r \in Values => Cut[r] \in Values /\ Number[r] \in Values
  BY ClientAssumption DEF ClientAssumption, Values
<1> QED
  BY <1>1 DEF Taken

LEMMA TypePreserved == TypeOK /\ [Next]_vars => TypeOK'
<1> SUFFICES ASSUME TypeOK, [Next]_vars PROVE TypeOK'
  OBVIOUS
<1> USE DEF TypeOK, ctxVars, callVars, keyVars
<1>1. ASSUME NEW k \in Conns, Connecting(k) PROVE TypeOK'
  BY <1>1 DEF Connecting, ConnectGood, ConnectBad, FreeBad, ClearBad
<1>2. CASE Break
  <2>1. stream' \in Seq(Values \cup {NoValue}) /\ link' \in BOOLEAN
    BY <1>2, EmptySeq DEF Break
  <2> QED
    BY <1>2, <2>1 DEF Break
<1>3. ASSUME NEW k \in Keys, Lapse(k) PROVE TypeOK'
  BY <1>3 DEF Lapse
<1>4. ASSUME NEW t \in Callers, NEW c \in KV!Commands, Check(t, c) PROVE TypeOK'
  <2>1. /\ cmd' \in [Callers -> KV!Commands \cup {NoCommand}]
        /\ pc' \in [Callers -> {"idle", "checked", "sent", "undefined"}]
        /\ early' \subseteq Callers
    BY <1>4 DEF Check
  <2>2. \A u \in Callers : cmd'[u] = NoCommand <=> pc'[u] = "idle"
    BY <1>4, CommandAssumption DEF Check
  <2> QED
    BY <1>4, <2>1, <2>2 DEF Check
<1>5. ASSUME NEW t \in Callers, Send(t) PROVE TypeOK'
  <2>1. /\ StoredBy(cmd[t]) \in Values \cup {NoValue}
        /\ ReplyTo(cmd[t]) \in Values \cup {NoValue}
        /\ VolatileAfter(cmd[t]) \subseteq Keys
    BY <1>5, CommandValues DEF Send
  <2>2. stream' \in Seq(Values \cup {NoValue})
    BY <1>5, <2>1 DEF Send
  <2>3. store' \in [Keys -> Values \cup {NoValue}] /\ volatile' \subseteq Keys
    BY <1>5, <2>1 DEF Send
  <2>4. pc' = [pc EXCEPT ![t] = "sent"] /\ pc[t] = "checked" /\ cmd' = cmd
        /\ UNCHANGED <<text, link, early, answer>>
    BY <1>5 DEF Send
  <2> QED
    BY <2>2, <2>3, <2>4
<1>6. ASSUME NEW t \in Callers, CallFails(t) \/ ReplyLost(t) PROVE TypeOK'
  BY <1>6 DEF CallFails, ReplyLost, Returns
<1>7. ASSUME NEW t \in Callers, Reply(t) PROVE TypeOK'
  <2>1. stream' \in Seq(Values \cup {NoValue}) /\ Head(stream) \in Values \cup {NoValue}
    BY <1>7 DEF Reply
  <2>2. Taken(cmd[t].op, Head(stream)) \in Values \cup {NoValue, Cleared}
    BY <2>1, TakenValues
  <2> QED
    BY <1>7, <2>1, <2>2 DEF Reply, Returns
<1>9. ASSUME NEW t \in Callers, Misuse(t) PROVE TypeOK'
  BY <1>9 DEF Misuse
<1>8. CASE UNCHANGED vars
  BY <1>8 DEF vars
<1> QED
  BY <1>1, <1>2, <1>3, <1>4, <1>5, <1>6, <1>7, <1>8, <1>9 DEF Next, Finish

-----------------------------------------------------------------------------
(* Steps and the rest of the invariant.                                    *)

LEMMA ConnectedPreserved == TypeOK /\ Connected /\ [Next]_vars => Connected'
<1> SUFFICES ASSUME TypeOK, Connected, [Next]_vars PROVE Connected'
  OBVIOUS
<1> USE DEF TypeOK, Connected, ctxVars, callVars, keyVars, Usable, Conns
<1>1. ASSUME NEW k \in Conns, Connecting(k) PROVE Connected'
  BY <1>1 DEF Connecting, ConnectGood, ConnectBad, FreeBad, ClearBad, ToConnect
<1>2. CASE Break
  BY <1>2 DEF Break
<1>3. ASSUME NEW k \in Keys, Lapse(k) PROVE Connected'
  BY <1>3 DEF Lapse
<1>4. ASSUME NEW t \in Callers, NEW c \in KV!Commands, Check(t, c) PROVE Connected'
  BY <1>4 DEF Check
<1>5. ASSUME NEW t \in Callers, Send(t) \/ Misuse(t) PROVE Connected'
  BY <1>5 DEF Send, Misuse
<1>6. ASSUME NEW t \in Callers, CallFails(t) \/ Reply(t) \/ ReplyLost(t) PROVE Connected'
  <2>1. pc' = [pc EXCEPT ![t] = "idle"]
        /\ text' = text /\ link' = link /\ (stream # <<>> \/ stream' = stream)
    BY <1>6 DEF CallFails, Reply, ReplyLost, Returns
  <2> QED
    BY <2>1
<1>7. CASE UNCHANGED vars
  BY <1>7 DEF vars
<1> QED
  BY <1>1, <1>2, <1>3, <1>4, <1>5, <1>6, <1>7 DEF Next, Finish

\* A connected m_sendText is neither replaced nor freed (RedisClient.cpp:60).
LEMMA StaysUp == TypeOK /\ [Next]_vars /\ text["send"] = "up" => text'["send"] = "up"
<1> SUFFICES ASSUME TypeOK, [Next]_vars, text["send"] = "up" PROVE text'["send"] = "up"
  OBVIOUS
<1>1. ASSUME NEW k \in Conns, Connecting(k) PROVE text'["send"] = "up"
  BY <1>1 DEF TypeOK, Conns, Connecting, ConnectGood, ConnectBad, FreeBad, ClearBad, ToConnect
<1>2. ASSUME ~ \E k \in Conns : Connecting(k) PROVE text' = text
  BY <1>2 DEF Next, Break, Lapse, Check, Finish, Send, Misuse, CallFails, Reply, ReplyLost,
              vars, ctxVars
<1> QED
  BY <1>1, <1>2

LEMMA LandedPreserved == TypeOK /\ Landed /\ [Next]_vars => Landed'
<1> SUFFICES ASSUME TypeOK, Landed, [Next]_vars,
                    NEW t \in Callers, t \notin early'
             PROVE  (pc'[t] = "checked" => text'["send"] = "up") /\ pc'[t] # "undefined"
  BY DEF Landed
<1> USE DEF TypeOK, ctxVars, callVars
<1>1. ASSUME NEW u \in Callers, NEW c \in KV!Commands, Check(u, c)
      PROVE  (pc'[t] = "checked" => text'["send"] = "up") /\ pc'[t] # "undefined"
  BY <1>1 DEF Check, Landed
<1>2. ASSUME NEW u \in Callers, Misuse(u)
      PROVE  (pc'[t] = "checked" => text'["send"] = "up") /\ pc'[t] # "undefined"
  BY <1>2 DEF Misuse, Landed
<1>3. ASSUME NEW u \in Callers, CallFails(u) \/ Reply(u) \/ ReplyLost(u)
      PROVE  (pc'[t] = "checked" => text'["send"] = "up") /\ pc'[t] # "undefined"
  <2>1. pc' = [pc EXCEPT ![u] = "idle"] /\ early' = early \ {u} /\ text' = text
    BY <1>3 DEF CallFails, Reply, ReplyLost, Returns
  <2> QED
    BY <2>1 DEF Landed
<1>4. ASSUME NEW u \in Callers, Send(u)
      PROVE  (pc'[t] = "checked" => text'["send"] = "up") /\ pc'[t] # "undefined"
  BY <1>4 DEF Send, Landed
<1>5. CASE (\E k \in Conns : Connecting(k)) \/ Break \/ (\E k \in Keys : Lapse(k)) \/ UNCHANGED vars
  <2>1. pc' = pc /\ early' = early
    BY <1>5 DEF Connecting, ConnectGood, ConnectBad, FreeBad, ClearBad, Break, Lapse, vars
  <2> QED
    BY <2>1, StaysUp DEF Landed
<1> QED
  BY <1>1, <1>2, <1>3, <1>4, <1>5 DEF Next, Finish

LEMMA OneCallPreserved == TypeOK /\ OneCall /\ [Next]_vars => OneCall'
<1> SUFFICES ASSUME TypeOK, OneCall, [Next]_vars PROVE OneCall'
  OBVIOUS
<1>1. ASSUME NEW t \in Callers, NEW c \in KV!Commands, Check(t, c) PROVE OneCall'
  BY <1>1 DEF Check, OneCall, TypeOK
<1>2. ASSUME ~ \E t \in Callers, c \in KV!Commands : Check(t, c)
      PROVE  \A u \in Callers : pc'[u] # "idle" => pc[u] # "idle"
  BY <1>2 DEF TypeOK, Next, Connecting, ConnectGood, ConnectBad, FreeBad, ClearBad, Break,
              Lapse, Finish, Send, Misuse, CallFails, Reply, ReplyLost, Returns, vars, callVars
<1> QED
  BY <1>1, <1>2 DEF OneCall

\* In the call that is about to send there is no reply.
LEMMA NoneBefore ==
    ASSUME OneCall, OneReply, NEW t \in Callers, pc[t] = "checked"
    PROVE  stream = <<>> /\ \A u \in Callers : pc[u] # "sent"
BY DEF OneCall, OneReply

\* The one reply is gone when it is taken.
LEMMA NoneAfter ==
    ASSUME TypeOK, OneReply, stream # <<>>
    PROVE  Len(stream) = 1 /\ Tail(stream) = <<>>
<1>1. Len(stream) \in Nat /\ Len(stream) # 0
  BY DEF TypeOK
<1>2. Len(stream) <= 1
  BY DEF OneReply
<1>3. Len(stream) = 1
  <2>1. \A n \in Nat : n # 0 /\ n <= 1 => n = 1
    OBVIOUS
  <2> QED
    BY <1>1, <1>2, <2>1
<1>4. Tail(stream) \in Seq(Values \cup {NoValue}) /\ Len(Tail(stream)) = 0
  BY <1>3 DEF TypeOK
<1> QED
  BY <1>3, <1>4, EmptySeq

LEMMA OneReplyPreserved ==
    TypeOK /\ Connected /\ OneCall /\ OneReply /\ [Next]_vars => OneReply'
<1> SUFFICES ASSUME TypeOK, Connected, OneCall, OneReply, [Next]_vars
             PROVE  OneReply'
  OBVIOUS
<1> USE DEF ctxVars, callVars, keyVars
<1>1. CASE (\E k \in Conns : Connecting(k)) \/ (\E k \in Keys : Lapse(k)) \/ UNCHANGED vars
  BY <1>1 DEF Connecting, ConnectGood, ConnectBad, FreeBad, ClearBad, Lapse, vars, OneReply
<1>2. CASE Break
  BY <1>2 DEF Break, OneReply
<1>3. ASSUME NEW t \in Callers, NEW c \in KV!Commands, Check(t, c) PROVE OneReply'
  <2>1. stream = <<>>
    BY <1>3 DEF Check, OneReply
  <2> QED
    BY <1>3, <2>1 DEF Check, OneReply
<1>4. ASSUME NEW t \in Callers, Send(t) PROVE OneReply'
  <2>1. stream' = <<ReplyTo(cmd[t])>>
    <3>1. stream = <<>> /\ stream' = Append(stream, ReplyTo(cmd[t]))
      BY <1>4, NoneBefore DEF Send
    <3> QED
      BY <3>1
  <2>2. pc'[t] = "sent" /\ cmd' = cmd
    BY <1>4 DEF Send, TypeOK
  <2>3. Len(stream') = 1 /\ Head(stream') = ReplyTo(cmd[t])
    BY <2>1
  <2> QED
    BY <2>2, <2>3 DEF OneReply, ReplyTo, Getters
<1>5. ASSUME NEW t \in Callers, CallFails(t) \/ Misuse(t) PROVE OneReply'
  <2>1. stream' = <<>>
    BY <1>5, NoneBefore DEF CallFails, Misuse
  <2> QED
    BY <2>1 DEF OneReply
<1>6. ASSUME NEW t \in Callers, Reply(t) PROVE OneReply'
  <2>1. stream' = <<>>
    BY <1>6, NoneAfter DEF Reply
  <2> QED
    BY <2>1 DEF OneReply
<1>7. ASSUME NEW t \in Callers, ReplyLost(t) PROVE OneReply'
  <2>1. stream' = <<>>
    BY <1>7 DEF ReplyLost, Connected
  <2> QED
    BY <2>1 DEF OneReply
<1> QED
  BY <1>1, <1>2, <1>3, <1>4, <1>5, <1>6, <1>7 DEF Next, Finish

THEOREM Invariant == Spec => []IInv
<1>1. IInv /\ [Next]_vars => IInv'
  BY TypePreserved, ConnectedPreserved, LandedPreserved, OneCallPreserved, OneReplyPreserved
     DEF IInv
<1> QED
  BY Initially, <1>1, PTL DEF Spec

\* The contexts, the calls and the keys keep their types, and a thread has a
\* command exactly while it is in a call.
THEOREM TypeCorrect == Spec => []TypeOK
<1>1. IInv => TypeOK
  BY DEF IInv
<1> QED
  BY Invariant, <1>1, PTL

\* A caller whose test saw a connected m_sendText uses that context, however
\* often it breaks: the thread that frees contexts in the same member never frees
\* this one (RedisClient.cpp:60, 94-98, 245-250).
THEOREM ContextSafe == Spec => []NoContextMisused
<1>1. IInv => NoContextMisused
  BY DEF IInv, Landed, NoContextMisused
<1> QED
  BY Invariant, <1>1, PTL

-----------------------------------------------------------------------------
(* The client implements KeyValue.                                         *)

LEMMA PromiseInit == Init => KV!Init
BY DEF Init, KV!Init

\* Numbers that fit in an int and texts without a NUL are sent as they are.
Plain == (\A v \in Ints : Narrow(v) = v) /\ (\A v \in Texts : Cut[v] = v)

LEMMA SameEffect ==
    ASSUME Plain, TypeOK, NEW c \in KV!Commands
    PROVE  StoredBy(c) = KV!StoredBy(c) /\ VolatileAfter(c) = KV!VolatileAfter(c)
<1>1. c.value \in KV!Operands(c.op)
  BY DEF KV!Commands
<1>2. c.op \in KV!Setters => Sent(c) = c.value
  BY <1>1 DEF Plain, Sent, KV!Operands, KV!Setters
<1> QED
  BY <1>2 DEF StoredBy, KV!StoredBy, VolatileAfter, KV!VolatileAfter

\* What a caller takes from its reply is one of the answers promised.
LEMMA Promised ==
    ASSUME Plain, TypeOK, NEW c \in KV!Commands
    PROVE  Taken(c.op, ReplyTo(c)) \in KV!Answers(c.op, store[c.key])
<1>1. c.key \in Keys
  BY DEF KV!Commands
<1>2. store[c.key] \in Values \cup {NoValue}
  BY <1>1 DEF TypeOK
<1>3. NoValue \notin Values
  BY ClientAssumption DEF ClientAssumption
<1>4. CASE store[c.key] = NoValue
  BY <1>4 DEF Taken, ReplyTo, KV!Answers
<1>5. CASE store[c.key] # NoValue /\ c.op \notin Getters
  BY <1>5 DEF Taken, ReplyTo, KV!Answers, Getters
<1>6. CASE store[c.key] # NoValue /\ c.op \in Getters
  <2> DEFINE v == store[c.key]
  <2>1. ReplyTo(c) = v /\ v \in Values /\ v # NoValue
    BY <1>2, <1>6 DEF ReplyTo, Getters
  <2>2. v \in Texts \cup Ints => Cut[v] = v
    BY ClientAssumption DEF ClientAssumption, Plain
  <2>3. Cut[v] \in Values /\ Number[v] \in Ints /\ (v \in Ints => Number[v] = v)
    BY <2>1, ClientAssumption DEF ClientAssumption
  <2> HIDE DEF v
  <2>4. Taken(c.op, v) \in KV!Answers(c.op, v)
    BY <1>6, <2>1, <2>2, <2>3 DEF Taken, KV!Answers, Getters, Values, KV!Values
  <2> QED
    BY <2>1, <2>4 DEF v
<1> QED
  BY <1>4, <1>5, <1>6

\* What is due to each caller, as KeyValue sees it.
Due ==
    [t \in Callers |->
        IF pc[t] = "sent" /\ stream # <<>> THEN Taken(cmd[t].op, Head(stream)) ELSE NoValue]

Done == [t \in Callers |-> pc[t] = "sent"]

LEMMA PromiseStep ==
    ASSUME Plain, IInv, Next
    PROVE  KV!Next \/ UNCHANGED KV!vars
<1> USE DEF ctxVars, callVars, keyVars
<1>0. TypeOK /\ Connected /\ OneCall /\ OneReply
  BY DEF IInv
<1>1. ASSUME NEW k \in Conns, Connecting(k) PROVE UNCHANGED KV!vars
  BY <1>1 DEF Connecting, ConnectGood, ConnectBad, FreeBad, ClearBad, KV!vars
<1>2. ASSUME Break PROVE KV!Lose
  BY <1>2 DEF Break, KV!Lose
<1>3. ASSUME NEW k \in Keys, Lapse(k) PROVE KV!Lapse(k)
  BY <1>3 DEF Lapse, KV!Lapse
<1>4. ASSUME NEW t \in Callers, NEW c \in KV!Commands, Check(t, c) PROVE KV!Call(t, c)
  <2>1. Done' = Done /\ Due' = Due
    <3>1. \A u \in Callers : pc'[u] = "sent" <=> pc[u] = "sent"
      BY <1>0, <1>4 DEF Check, TypeOK
    <3>2. stream' = <<>>
      BY <1>0, <1>4 DEF Check, OneReply
    <3>3. stream = <<>>
      BY <1>4, <3>2 DEF Check
    <3> QED
      BY <3>1, <3>2, <3>3 DEF Done, Due
  <2>2. cmd[t] = NoCommand
    BY <1>0, <1>4 DEF Check, TypeOK
  <2> QED
    BY <1>4, <2>1, <2>2 DEF Check, KV!Call, Done, Due
<1>5. ASSUME NEW t \in Callers, Send(t) PROVE KV!Execute(t)
  <2>1. stream = <<>> /\ \A u \in Callers : pc[u] # "sent"
    BY <1>0, <1>5, NoneBefore DEF Send
  <2>2. stream' # <<>> /\ Head(stream') = ReplyTo(cmd[t])
    BY <1>5, <2>1 DEF Send
  <2>3. \A u \in Callers : pc'[u] = "sent" <=> u = t
    BY <1>0, <1>5, <2>1 DEF Send, TypeOK
  <2>4. Done' = [Done EXCEPT ![t] = TRUE]
    BY <2>1, <2>3 DEF Done
  <2>5. Due' = [Due EXCEPT ![t] = Taken(cmd[t].op, ReplyTo(cmd[t]))]
    <3>1. cmd' = cmd
      BY <1>5 DEF Send
    <3> QED
      BY <2>1, <2>2, <2>3, <3>1 DEF Due
  <2>6. cmd[t] \in KV!Commands /\ cmd[t] # NoCommand
    BY <1>0, <1>5, CommandValues DEF Send
  <2>7. store' = [store EXCEPT ![cmd[t].key] = KV!StoredBy(cmd[t])]
        /\ volatile' = KV!VolatileAfter(cmd[t])
    BY <1>0, <1>5, <2>6, SameEffect DEF Send
  <2>8. ~Done[t]
    BY <2>1 DEF Done
  <2>9. Taken(cmd[t].op, ReplyTo(cmd[t])) \in KV!Answers(cmd[t].op, store[cmd[t].key])
    BY <1>0, <2>6, Promised
  <2>10. cmd' = cmd /\ answer' = answer
    BY <1>5 DEF Send
  <2> QED
    BY <2>4, <2>5, <2>6, <2>7, <2>8, <2>9, <2>10 DEF KV!Execute, Done, Due
<1>6. ASSUME NEW t \in Callers, CallFails(t) \/ Reply(t) \/ ReplyLost(t) PROVE KV!Return(t)
  <2>1. /\ cmd' = [cmd EXCEPT ![t] = NoCommand]
        /\ pc' = [pc EXCEPT ![t] = "idle"]
        /\ keyVars' = keyVars
    BY <1>6 DEF CallFails, Reply, ReplyLost, Returns
  <2>2. pc[t] # "idle" /\ cmd[t] # NoCommand
    BY <1>0, <1>6 DEF CallFails, Reply, ReplyLost, TypeOK
  <2>3. \A u \in Callers : pc[u] = "sent" => u = t
    BY <1>0, <2>2 DEF OneCall
  <2>4. \A u \in Callers : pc'[u] = "sent" <=> u # t /\ pc[u] = "sent"
    BY <1>0, <2>1 DEF TypeOK
  <2>5. Done' = [Done EXCEPT ![t] = FALSE]
    BY <2>4 DEF Done
  <2>6. Due' = [Due EXCEPT ![t] = NoValue]
    BY <2>3, <2>4 DEF Due
  <2>7. answer' = [answer EXCEPT ![t] = Due[t]]
    <3>1. CASE CallFails(t)
      BY <3>1 DEF CallFails, Returns, Due
    <3>2. CASE ReplyLost(t)
      BY <1>0, <3>2 DEF ReplyLost, Returns, Due, Connected
    <3>3. CASE Reply(t)
      BY <3>3 DEF Reply, Returns, Due
    <3> QED
      BY <1>6, <3>1, <3>2, <3>3
  <2> QED
    BY <2>1, <2>2, <2>5, <2>6, <2>7 DEF KV!Return, Done, Due
<1>7. ASSUME NEW t \in Callers, Misuse(t) PROVE UNCHANGED KV!vars
  <2>1. \A u \in Callers : pc'[u] = "sent" <=> pc[u] = "sent"
    BY <1>0, <1>7 DEF Misuse, TypeOK
  <2>2. stream' = stream /\ cmd' = cmd
    BY <1>7 DEF Misuse
  <2>3. Done' = Done /\ Due' = Due
    BY <2>1, <2>2 DEF Done, Due
  <2> QED
    BY <1>7, <2>3 DEF Misuse, KV!vars, Done, Due
<1> QED
  BY <1>1, <1>2, <1>3, <1>4, <1>5, <1>6, <1>7 DEF Next, Finish, KV!Next

\* Each call of the key/value functions takes effect at most once and is answered
\* with what its key holds at that moment, when it was stored as what is asked for:
\* messages whatever their bytes, numbers that fit in an int, and texts without a
\* NUL (RedisClient.cpp:92-215, RedisClient.h:42-141).
THEOREM KeepsPromise == ASSUME Plain PROVE Spec => KeyValueSpec
<1>1. IInv /\ [Next]_vars => [KV!Next]_(KV!vars)
  <2> SUFFICES ASSUME IInv, UNCHANGED vars PROVE UNCHANGED KV!vars
    BY PromiseStep
  <2> QED
    BY DEF vars, ctxVars, callVars, keyVars, KV!vars
<1> QED
  BY PromiseInit, Invariant, <1>1, PTL DEF Spec, KeyValueSpec, KV!Spec
=============================================================================
