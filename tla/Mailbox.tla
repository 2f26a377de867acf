------------------------------ MODULE Mailbox ------------------------------
(***************************************************************************)
(* What a redis::Chan promises, without threads or locks.  A channel that  *)
(* is open holds the messages not yet consumed, oldest first.  A message   *)
(* leaves it in one of two ways only: a handler starts on it, or it is     *)
(* skipped because nothing is registered for it.  One handler at a time    *)
(* runs for a channel, and a channel is never used once it is closed.      *)
(***************************************************************************)
EXTENDS Sequences

CONSTANTS
    Channels,    \* channel names
    Ops,         \* message types a handler can be registered for
    Data,        \* message bodies: the types, and what does not parse
    NoData       \* not a message

VARIABLES
    open,        \* channels whose Chan object exists
    pending,     \* pending[c]: the messages of c not yet consumed
    handlers,    \* handlers[c]: the types c has a handler for
    running      \* running[c]: the message whose handler is running, or NoData

vars == <<open, pending, handlers, running>>

Init ==
    /\ open = {}
    /\ pending  = [c \in Channels |-> <<>>]
    /\ handlers = [c \in Channels |-> {}]
    /\ running  = [c \in Channels |-> NoData]

Open(c) ==
    /\ c \notin open
    /\ open' = open \cup {c}
    /\ handlers' = [handlers EXCEPT ![c] = {}]
    /\ UNCHANGED <<pending, running>>

\* Closing a channel drops what it holds, and waits for its handler.
Close(c) ==
    /\ c \in open
    /\ running[c] = NoData
    /\ open' = open \ {c}
    /\ pending' = [pending EXCEPT ![c] = <<>>]
    /\ UNCHANGED <<handlers, running>>

\* Register a handler for o with the channels cs.
Register(cs, o) ==
    /\ cs \subseteq open
    /\ handlers' = [c \in Channels |->
                      IF c \in cs THEN handlers[c] \cup {o} ELSE handlers[c]]
    /\ UNCHANGED <<open, pending, running>>

Post(c, d) ==
    /\ c \in open
    /\ pending' = [pending EXCEPT ![c] = Append(@, d)]
    /\ UNCHANGED <<open, handlers, running>>

\* The oldest message leaves the queue as its handler starts.
Handle(c) ==
    /\ c \in open
    /\ pending[c] # <<>>
    /\ Head(pending[c]) \in handlers[c]
    /\ running[c] = NoData
    /\ running' = [running EXCEPT ![c] = Head(pending[c])]
    /\ pending' = [pending EXCEPT ![c] = Tail(@)]
    /\ UNCHANGED <<open, handlers>>

Return(c) ==
    /\ c \in open
    /\ running[c] # NoData
    /\ running' = [running EXCEPT ![c] = NoData]
    /\ UNCHANGED <<open, pending, handlers>>

\* The oldest message is dropped: it does not parse or has no handler.
Skip(c) ==
    /\ c \in open
    /\ pending[c] # <<>>
    /\ Head(pending[c]) \notin handlers[c]
    /\ running[c] = NoData
    /\ pending' = [pending EXCEPT ![c] = Tail(@)]
    /\ UNCHANGED <<open, handlers, running>>

Next ==
    \/ \E c \in Channels :
          \/ Open(c)
          \/ Close(c)
          \/ \E d \in Data : Post(c, d)
          \/ Handle(c)
          \/ Return(c)
          \/ Skip(c)
    \/ \E cs \in SUBSET open, o \in Ops : Register(cs, o)

Spec == Init /\ [][Next]_vars
=============================================================================
