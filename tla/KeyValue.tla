------------------------------ MODULE KeyValue ------------------------------
(***************************************************************************)
(* What the key/value functions of redis::RedisClient promise: a call      *)
(* takes effect at most once, at one moment between its start and its      *)
(* return; getValue answers with what the key holds at that moment, if it  *)
(* was stored as what it is asked for, and when there is nothing there, or *)
(* redis cannot be asked, it leaves the caller's variable alone.           *)
(***************************************************************************)
CONSTANTS
    Callers,     \* threads that call
    Keys,
    Texts,       \* what setValue stores from a std::string,
    Ints,        \* ... from an int64,
    Messages,    \* ... and from a message, as its bytes
    NoValue,     \* no value, and no answer
    Cleared,     \* the answer to one who wants a message and finds none
    NoCommand    \* what a thread asks for that is in no call

VARIABLES
    store,       \* store[k]: the value of k, or NoValue
    volatile,    \* the keys with a time to live
    call,        \* call[t]: what t asks for
    done,        \* done[t]: it has taken effect
    due,         \* due[t]: what t is to be answered
    answer       \* answer[t]: what t's last call left in its variable

vars == <<store, volatile, call, done, due, answer>>

Values  == Texts \cup Ints \cup Messages
Setters == {"set", "setInt", "setMsg"}
Ops     == Setters \cup {"get", "getInt", "getMsg", "del", "expire", "persist", "ping"}

Operands(op) ==
    CASE op = "set"    -> Texts
      [] op = "setInt" -> Ints
      [] op = "setMsg" -> Messages
      [] OTHER         -> {NoValue}

Commands ==
    {c \in [op : Ops, key : Keys, value : Values \cup {NoValue}] : c.value \in Operands(c.op)}

\* What op may answer when its key holds v.  What was stored as something else
\* can be any value of the kind asked for, or no message.
Answers(op, v) ==
    IF v = NoValue          THEN {NoValue}
    ELSE IF op = "get"      THEN IF v \in Texts \cup Ints THEN {v} ELSE Values
    ELSE IF op = "getInt"   THEN IF v \in Ints THEN {v} ELSE Ints
    ELSE IF op = "getMsg"   THEN IF v \in Messages THEN {v} ELSE {Cleared}
    ELSE {NoValue}

Init ==
    /\ store = [k \in Keys |-> NoValue]
    /\ volatile = {}
    /\ call = [t \in Callers |-> NoCommand]
    /\ done = [t \in Callers |-> FALSE]
    /\ due = [t \in Callers |-> NoValue]
    /\ answer = [t \in Callers |-> NoValue]

Call(t, c) ==
    /\ call[t] = NoCommand
    /\ call' = [call EXCEPT ![t] = c]
    /\ UNCHANGED <<store, volatile, done, due, answer>>

\* The value of c's key, and the keys with a time to live, after c.
StoredBy(c) ==
    IF c.op \in Setters THEN c.value
    ELSE IF c.op = "del" THEN NoValue
    ELSE store[c.key]

VolatileAfter(c) ==
    IF c.op = "expire" /\ store[c.key] # NoValue THEN volatile \cup {c.key}
    ELSE IF c.op \in Setters \cup {"del", "persist"} THEN volatile \ {c.key}
    ELSE volatile

Execute(t) ==
    /\ call[t] # NoCommand
    /\ ~done[t]
    /\ done' = [done EXCEPT ![t] = TRUE]
    /\ store' = [store EXCEPT ![call[t].key] = StoredBy(call[t])]
    /\ volatile' = VolatileAfter(call[t])
    /\ \E a \in Answers(call[t].op, store[call[t].key]) : due' = [due EXCEPT ![t] = a]
    /\ UNCHANGED <<call, answer>>

\* The answers under way are lost.
Lose ==
    /\ due' = [t \in Callers |-> NoValue]
    /\ UNCHANGED <<store, volatile, call, done, answer>>

Return(t) ==
    /\ call[t] # NoCommand
    /\ call' = [call EXCEPT ![t] = NoCommand]
    /\ done' = [done EXCEPT ![t] = FALSE]
    /\ due' = [due EXCEPT ![t] = NoValue]
    /\ answer' = [answer EXCEPT ![t] = due[t]]
    /\ UNCHANGED <<store, volatile>>

\* The time to live of k is over.
Lapse(k) ==
    /\ k \in volatile
    /\ store' = [store EXCEPT ![k] = NoValue]
    /\ volatile' = volatile \ {k}
    /\ UNCHANGED <<call, done, due, answer>>

Next ==
    \/ \E t \in Callers, c \in Commands : Call(t, c)
    \/ \E t \in Callers : Execute(t) \/ Return(t)
    \/ Lose
    \/ \E k \in Keys : Lapse(k)

Spec == Init /\ [][Next]_vars
=============================================================================
