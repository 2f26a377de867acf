-------------------------------- MODULE Chan --------------------------------
(***************************************************************************)
(* Every redis::Chan object of a process (Chan.h, Chan.cpp) and the        *)
(* threads inside their member functions.  A Chan is a vector of messages  *)
(* under the mutex m_mutexData and a map of handlers without a mutex.      *)
(* addMsg appends a copy of a message; polling walks the vector with the   *)
(* mutex held, calls the handler of each message and clears the vector.    *)
(*                                                                         *)
(* polling parses each entry into `static Message msg' (Chan.cpp:44): one  *)
(* object for all channels and all threads, so it is a variable here.      *)
(*                                                                         *)
(* The actions state what the code does.  What its callers must respect (a *)
(* C++ object is alive while it is used; the unprotected map and the       *)
(* static message are not touched from two threads) is the contract Next   *)
(* adds to them; Subscriber uses the actions without it.                   *)
(***************************************************************************)
EXTENDS Naturals, Sequences

CONSTANTS
    Threads,     \* threads of the process
    Channels,    \* channel names
    Ops,         \* message types (Message::ops)
    Garbled,     \* a body ParseFromArray refuses
    NoThread,    \* mutexData when it is free
    NoChan,      \* this, in a thread that is not in a member function
    NoData,      \* arg, when there is none
    MaxMsgs      \* bound on a channel's vector; 0 for none

\* A message body, as polling tells bodies apart.
Data == Ops \cup {Garbled}

ASSUME ChanAssumption ==
    /\ NoThread \notin Threads
    /\ NoChan \notin Channels
    /\ Garbled \notin Ops
    /\ NoData \notin Data
    /\ MaxMsgs \in Nat

VARIABLES
    live,        \* channels whose Chan object exists
    vecData,     \* vecData[c]: m_vecData
    opsHandler,  \* opsHandler[c]: the keys of m_ops_handler
    mutexData,   \* mutexData[c]: the thread that holds m_mutexData
    it,          \* it[c]: entries passed by the polling that holds the mutex
    msg,         \* the static Message of polling
    at,          \* at[t]: where thread t is
    this,        \* this[t]: the Chan it is in
    arg          \* arg[t]: the body it passes to addMsg or to a handler

objects == <<live, vecData, opsHandler, mutexData>>
frames  == <<at, this, arg>>
vars    == <<live, vecData, opsHandler, mutexData, it, msg, at, this, arg>>

Places == {"out", "addMsg", "push", "polling", "scan", "parsed", "handler"}

\* Thread t is inside polling, waiting for the mutex included.
Polls(t) == at[t] \in {"polling", "scan", "parsed", "handler"}

\* Thread t holds this[t]'s mutex.
Inside(t) == at[t] \in {"push", "scan", "parsed", "handler"}

\* The messages of c that no polling has passed.
Unread(c) == SubSeq(vecData[c], it[c] + 1, Len(vecData[c]))

VarsOK ==
    /\ live \subseteq Channels
    /\ vecData \in [Channels -> Seq(Data)]
    /\ opsHandler \in [Channels -> SUBSET Ops]
    /\ mutexData \in [Channels -> Threads \cup {NoThread}]
    /\ it \in [Channels -> Nat]
    /\ msg \in Data \cup {NoData}
    /\ at \in [Threads -> Places]
    /\ this \in [Threads -> Channels \cup {NoChan}]
    /\ arg \in [Threads -> Data \cup {NoData}]

\* The variables have their types, and the iterator of polling stays within
\* the vector it walks.
TypeOK ==
    /\ VarsOK
    /\ \A c \in Channels : it[c] <= Len(vecData[c])

Init ==
    /\ live = {}
    /\ vecData = [c \in Channels |-> <<>>]
    /\ opsHandler = [c \in Channels |-> {}]
    /\ mutexData = [c \in Channels |-> NoThread]
    /\ it = [c \in Channels |-> 0]
    /\ msg = NoData
    /\ at = [t \in Threads |-> "out"]
    /\ this = [t \in Threads |-> NoChan]
    /\ arg = [t \in Threads |-> NoData]

-----------------------------------------------------------------------------
(* Objects.                                                                *)

\* Chan::Chan
New(c) ==
    /\ live' = live \cup {c}
    /\ vecData' = [vecData EXCEPT ![c] = <<>>]
    /\ opsHandler' = [opsHandler EXCEPT ![c] = {}]
    /\ mutexData' = [mutexData EXCEPT ![c] = NoThread]
    /\ it' = [it EXCEPT ![c] = 0]
    /\ UNCHANGED <<msg, frames>>

\* Chan::~Chan: the messages still queued are freed.
Delete(c) ==
    /\ live' = live \ {c}
    /\ vecData' = [vecData EXCEPT ![c] = <<>>]
    /\ it' = [it EXCEPT ![c] = 0]
    /\ UNCHANGED <<opsHandler, mutexData, msg, frames>>

\* Chan::registerOps on each Chan of cs: the first handler of an ops stays.
RegisterOps(cs, o) ==
    /\ opsHandler' = [c \in Channels |->
                        IF c \in cs THEN opsHandler[c] \cup {o} ELSE opsHandler[c]]
    /\ UNCHANGED <<live, vecData, mutexData, it, msg, frames>>

-----------------------------------------------------------------------------
(* Chan::addMsg.                                                           *)

CallAddMsg(t, c, d) ==
    /\ at[t] = "out"
    /\ at' = [at EXCEPT ![t] = "addMsg"]
    /\ this' = [this EXCEPT ![t] = c]
    /\ arg' = [arg EXCEPT ![t] = d]
    /\ UNCHANGED <<objects, it, msg>>

\* Faulty: addMsg does not wait for the mutex.
LockAddMsgBlind(t) ==
    /\ at[t] = "addMsg"
    /\ mutexData' = [mutexData EXCEPT ![this[t]] = t]
    /\ at' = [at EXCEPT ![t] = "push"]
    /\ UNCHANGED <<live, vecData, opsHandler, it, msg, this, arg>>

LockAddMsg(t) ==
    /\ at[t] = "addMsg"
    /\ mutexData[this[t]] = NoThread
    /\ mutexData' = [mutexData EXCEPT ![this[t]] = t]
    /\ at' = [at EXCEPT ![t] = "push"]
    /\ UNCHANGED <<live, vecData, opsHandler, it, msg, this, arg>>

\* The copy is appended and the mutex released.
PushMsg(t) ==
    /\ at[t] = "push"
    /\ vecData' = [vecData EXCEPT ![this[t]] = Append(@, arg[t])]
    /\ mutexData' = [mutexData EXCEPT ![this[t]] = NoThread]
    /\ at' = [at EXCEPT ![t] = "out"]
    /\ this' = [this EXCEPT ![t] = NoChan]
    /\ arg' = [arg EXCEPT ![t] = NoData]
    /\ UNCHANGED <<live, opsHandler, it, msg>>

-----------------------------------------------------------------------------
(* Chan::polling.                                                          *)

CallPolling(t, c) ==
    /\ at[t] = "out"
    /\ at' = [at EXCEPT ![t] = "polling"]
    /\ this' = [this EXCEPT ![t] = c]
    /\ UNCHANGED <<objects, it, msg, arg>>

\* Faulty: polling does not wait for the mutex.
LockPollingBlind(t) ==
    /\ at[t] = "polling"
    /\ mutexData' = [mutexData EXCEPT ![this[t]] = t]
    /\ at' = [at EXCEPT ![t] = "scan"]
    /\ UNCHANGED <<live, vecData, opsHandler, it, msg, this, arg>>

LockPolling(t) ==
    /\ at[t] = "polling"
    /\ mutexData[this[t]] = NoThread
    /\ mutexData' = [mutexData EXCEPT ![this[t]] = t]
    /\ at' = [at EXCEPT ![t] = "scan"]
    /\ UNCHANGED <<live, vecData, opsHandler, it, msg, this, arg>>

\* ParseFromArray succeeds: the entry's contents are now in msg.
ParseMsg(t) ==
    /\ at[t] = "scan"
    /\ it[this[t]] < Len(vecData[this[t]])
    /\ vecData[this[t]][it[this[t]] + 1] # Garbled
    /\ msg' = vecData[this[t]][it[this[t]] + 1]
    /\ at' = [at EXCEPT ![t] = "parsed"]
    /\ UNCHANGED <<objects, it, this, arg>>

\* Faulty: polling returns at a body that does not parse.
DropGarbledReturns(t) ==
    /\ at[t] = "scan"
    /\ it[this[t]] < Len(vecData[this[t]])
    /\ vecData[this[t]][it[this[t]] + 1] = Garbled
    /\ msg' = Garbled
    /\ at' = [at EXCEPT ![t] = "out"]
    /\ this' = [this EXCEPT ![t] = NoChan]
    /\ UNCHANGED <<objects, it, arg>>

\* ParseFromArray fails: the entry is freed, msg keeps what was read of it.
DropGarbled(t) ==
    /\ at[t] = "scan"
    /\ it[this[t]] < Len(vecData[this[t]])
    /\ vecData[this[t]][it[this[t]] + 1] = Garbled
    /\ msg' = Garbled
    /\ it' = [it EXCEPT ![this[t]] = @ + 1]
    /\ UNCHANGED <<objects, frames>>

\* msg.ops() has no handler: logged, and the entry is freed.
DropUnhandled(t) ==
    /\ at[t] = "parsed"
    /\ msg \notin opsHandler[this[t]]
    /\ it' = [it EXCEPT ![this[t]] = @ + 1]
    /\ at' = [at EXCEPT ![t] = "scan"]
    /\ UNCHANGED <<objects, msg, this, arg>>

\* The handler found for msg.ops() is called with what msg holds.
CallHandler(t) ==
    /\ at[t] = "parsed"
    /\ msg \in opsHandler[this[t]]
    /\ it' = [it EXCEPT ![this[t]] = @ + 1]
    /\ at' = [at EXCEPT ![t] = "handler"]
    /\ arg' = [arg EXCEPT ![t] = msg]
    /\ UNCHANGED <<objects, msg, this>>

HandlerReturns(t) ==
    /\ at[t] = "handler"
    /\ at' = [at EXCEPT ![t] = "scan"]
    /\ arg' = [arg EXCEPT ![t] = NoData]
    /\ UNCHANGED <<objects, it, msg, this>>

\* Faulty: the next polling goes on with the iterator of this one.
EndPollingKeepsIt(t) ==
    /\ at[t] = "scan"
    /\ it[this[t]] = Len(vecData[this[t]])
    /\ vecData' = [vecData EXCEPT ![this[t]] = <<>>]
    /\ mutexData' = [mutexData EXCEPT ![this[t]] = NoThread]
    /\ at' = [at EXCEPT ![t] = "out"]
    /\ this' = [this EXCEPT ![t] = NoChan]
    /\ UNCHANGED <<live, opsHandler, it, msg, arg>>

\* Faulty: polling clears the vector before its last entry.
EndPollingEarly(t) ==
    /\ at[t] = "scan"
    /\ vecData' = [vecData EXCEPT ![this[t]] = <<>>]
    /\ it' = [it EXCEPT ![this[t]] = 0]
    /\ mutexData' = [mutexData EXCEPT ![this[t]] = NoThread]
    /\ at' = [at EXCEPT ![t] = "out"]
    /\ this' = [this EXCEPT ![t] = NoChan]
    /\ UNCHANGED <<live, opsHandler, msg, arg>>

\* Past the last entry: the vector is cleared and the mutex released.
EndPolling(t) ==
    /\ at[t] = "scan"
    /\ it[this[t]] = Len(vecData[this[t]])
    /\ vecData' = [vecData EXCEPT ![this[t]] = <<>>]
    /\ it' = [it EXCEPT ![this[t]] = 0]
    /\ mutexData' = [mutexData EXCEPT ![this[t]] = NoThread]
    /\ at' = [at EXCEPT ![t] = "out"]
    /\ this' = [this EXCEPT ![t] = NoChan]
    /\ UNCHANGED <<live, opsHandler, msg, arg>>

-----------------------------------------------------------------------------
(* The specification: the actions under the contract of their callers.     *)

Room(c) == MaxMsgs = 0 \/ Len(vecData[c]) < MaxMsgs

MayDelete(c)      == c \in live /\ \A t \in Threads : this[t] # c
MayRegister(c)    == c \in live /\ \A t \in Threads :
                        this[t] = c /\ Polls(t) => at[t] = "handler"
MayPoll(c)        == c \in live /\ \A t \in Threads : Polls(t) => this[t] = c
MayAddMsg(c)      == c \in live /\ Room(c)

\* A step of a thread inside a member function that waits for nobody.
Advance(t) ==
    \/ PushMsg(t)
    \/ ParseMsg(t)
    \/ DropGarbled(t)
    \/ DropUnhandled(t)
    \/ CallHandler(t)
    \/ HandlerReturns(t)
    \/ EndPolling(t)

Step(t) == LockAddMsg(t) \/ LockPolling(t) \/ Advance(t)

Next ==
    \/ \E c \in Channels : c \notin live /\ New(c)
    \/ \E c \in Channels : MayDelete(c) /\ Delete(c)
    \/ \E cs \in SUBSET live, o \in Ops :
          (\A c \in cs : MayRegister(c)) /\ RegisterOps(cs, o)
    \/ \E t \in Threads, c \in Channels, d \in Data : MayAddMsg(c) /\ CallAddMsg(t, c, d)
    \/ \E t \in Threads, c \in Channels : MayPoll(c) /\ CallPolling(t, c)
    \/ \E t \in Threads : Step(t)

Spec == Init /\ [][Next]_vars

-----------------------------------------------------------------------------
(* Properties.                                                             *)

\* m_mutexData excludes: the thread between lock and unlock of a channel is
\* the one the mutex records, so no two threads are there together.
MutualExclusion ==
    \A t \in Threads : Inside(t) => mutexData[this[t]] = t

\* Conversely a held mutex has a thread inside: no path of addMsg or polling
\* returns with m_mutexData locked.
NoLockLeaked ==
    \A c \in Channels : \A t \in Threads :
        mutexData[c] = t => this[t] = c /\ Inside(t)

\* Between ParseFromArray and the use of `msg' (Chan.cpp:47-56) nobody else
\* overwrites the static object: it still holds the entry being looked at.
MsgIsCurrent ==
    \A t \in Threads :
        at[t] = "parsed" =>
            /\ it[this[t]] < Len(vecData[this[t]])
            /\ msg = vecData[this[t]][it[this[t]] + 1]

Running(c) ==
    IF mutexData[c] # NoThread /\ at[mutexData[c]] = "handler"
    THEN arg[mutexData[c]] ELSE NoData

M == INSTANCE Mailbox WITH
        open     <- live,
        pending  <- [c \in Channels |-> Unread(c)],
        handlers <- opsHandler,
        running  <- [c \in Channels |-> Running(c)]

\* A Chan is a mailbox: each message accepted by addMsg is handed, in order
\* and once, to the handler of its type, or dropped if it has none; the
\* vector that polling clears holds nothing unread; no dead Chan is used.
MailboxSpec == M!Spec
=============================================================================
