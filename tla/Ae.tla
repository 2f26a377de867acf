--------------------------------- MODULE Ae ---------------------------------
(***************************************************************************)
(* The event loop ae.c, run by aeMain: file events, time events, and the   *)
(* callbacks, which may call the loop's own functions while it walks its   *)
(* tables.  One thread; what is interleaved are the steps of               *)
(* aeProcessEvents, the calls made from callbacks, and the clock.          *)
(*                                                                         *)
(* External: aeApiPoll, which reports any of the events that are set, or   *)
(* none, and must return once a timer is due; and the clock, which may be  *)
(* set back by MaxBack seconds in all.  A second is the unit of time, as   *)
(* in lastTime.  Allocation does not fail.                                 *)
(*                                                                         *)
(* Two rules for callbacks are nowhere stated but needed, as the loop goes *)
(* on with pointers it took before the call: a file callback does not      *)
(* resize the set, and a time callback that deletes its own timer returns  *)
(* AE_NOMORE.  The model has no step where they are broken.  Callbacks are *)
(* not told apart: when a descriptor is readable and writable, its two may *)
(* be the same one, which is then called once, or not.                     *)
(***************************************************************************)
EXTENDS Integers, Sequences, FiniteSets

CONSTANTS
    MaxSize,     \* bound on setsize
    MaxTimers,   \* bound on the timers ever created
    Delays,      \* what a timer is created with
    Periods,     \* what a time callback returns for being called again
    NoMore,      \* AE_NOMORE
    Slow,        \* the clock moves during callbacks too, not only in the poll
    MaxBack      \* bound on how far the clock is set back, in all

ASSUME AeAssumption ==
    /\ MaxSize \in Nat \ {0}
    /\ MaxTimers \in Nat
    /\ Delays \subseteq Nat
    /\ Periods \subseteq Nat
    /\ NoMore \notin Nat
    /\ Slow \in BOOLEAN
    /\ MaxBack \in Nat

Mask == {"r", "w"}          \* AE_READABLE, AE_WRITABLE
None == -1                  \* no file descriptor, no timer

NoEvent == [fd |-> None, mask |-> {}]

VARIABLES
    setsize,     \* eventLoop->setsize
    maxfd,       \* eventLoop->maxfd
    mask,        \* mask[fd]: events[fd].mask
    timers,      \* the list from timeEventHead: id, the time it was last set to,
                 \*   and the time left until due, negative when overdue, but
                 \*   not below -MaxBack
    nextId,      \* timeEventNextId
    since,       \* the time since lastTime, up to MaxBack
    backs,       \* how far the clock has been set back
    stop,        \* eventLoop->stop
    pc,          \* where aeMain is
    fired,       \* what poll reported and is not processed yet
    cur,         \* the fired event being processed
    rfired,      \* its rfileProc has been called
    te,          \* processTimeEvents: position in the list
    maxId,       \* the last id to be processed
    running,     \* the timer whose callback runs
    pass         \* the timers there when the pass began, less those called in it
                 \*   that are not due again at once (history)

fileVars == <<setsize, maxfd, mask>>
timeVars == <<timers, nextId, since, backs>>
loopVars == <<pc, fired, cur, rfired, te, maxId, running, pass>>
vars     == <<fileVars, timeVars, stop, loopVars>>

Fds == 0 .. setsize - 1
Ids == {timers[i].id : i \in 1 .. Len(timers)}
Due == {i \in 1 .. Len(timers) : timers[i].left <= 0}

\* h is the highest file descriptor with an event in m, or -1.
IsHighest(m, h) ==
    /\ h = -1 \/ (h \in DOMAIN m /\ m[h] # {})
    /\ \A fd \in DOMAIN m : m[fd] # {} => fd <= h

TypeOK ==
    /\ setsize \in 1 .. MaxSize
    /\ maxfd \in -1 .. setsize - 1
    /\ mask \in [Fds -> SUBSET Mask]
    /\ timers \in Seq([id : 0 .. MaxTimers - 1, set : Nat, left : Int])
    /\ nextId \in 0 .. MaxTimers
    /\ since \in -backs .. MaxBack
    /\ backs \in 0 .. MaxBack
    /\ Len(timers) <= nextId
    /\ stop \in BOOLEAN
    /\ pc \in {"app", "hook", "poll", "files", "rproc", "write", "wproc", "timers", "tproc"}
    /\ fired \subseteq [fd : Fds, mask : SUBSET Mask]
    /\ cur \in [fd : Fds, mask : SUBSET Mask] \cup {NoEvent}
    /\ rfired \in BOOLEAN
    /\ te \in 1 .. MaxTimers + 1
    /\ maxId \in -1 .. MaxTimers - 1
    /\ running \in -1 .. MaxTimers - 1
    /\ pass \subseteq 0 .. MaxTimers - 1

\* aeCreateEventLoop.
Init ==
    /\ setsize \in 1 .. MaxSize
    /\ maxfd = -1
    /\ mask = [fd \in Fds |-> {}]
    /\ timers = <<>>
    /\ nextId = 0
    /\ since = 0 /\ backs = 0
    /\ stop = FALSE
    /\ pc = "app"
    /\ fired = {}
    /\ cur = NoEvent
    /\ rfired = FALSE
    /\ te = 1
    /\ maxId = -1
    /\ running = None
    /\ pass = {}

-----------------------------------------------------------------------------
(* The functions, called outside of the loop, from beforesleep or from     *)
(* callbacks.                                                              *)

InApp == pc \in {"app", "hook", "rproc", "wproc", "tproc"}

\* aeCreateFileEvent
CreateFileEvent(fd, m) ==
    /\ InApp
    /\ mask' = [mask EXCEPT ![fd] = @ \cup m]
    /\ maxfd' = IF fd > maxfd THEN fd ELSE maxfd
    /\ UNCHANGED <<setsize, timeVars, stop, loopVars>>

\* Faulty: maxfd moves on to the next lower descriptor, in use or not.
DeleteFileEventBelow(fd, m) ==
    /\ InApp
    /\ mask[fd] # {}
    /\ mask' = [mask EXCEPT ![fd] = @ \ m]
    /\ maxfd' = IF fd = maxfd /\ mask'[fd] = {} THEN maxfd - 1 ELSE maxfd
    /\ UNCHANGED <<setsize, timeVars, stop, loopVars>>

\* aeDeleteFileEvent: maxfd becomes the highest one still in use.
DeleteFileEvent(fd, m) ==
    /\ InApp
    /\ mask[fd] # {}
    /\ mask' = [mask EXCEPT ![fd] = @ \ m]
    /\ IF fd = maxfd /\ mask'[fd] = {}
       THEN maxfd' \in {h \in -1 .. maxfd - 1 : IsHighest(mask', h)}
       ELSE UNCHANGED maxfd
    /\ UNCHANGED <<setsize, timeVars, stop, loopVars>>

\* Faulty: the set may shrink below the descriptors in use.
ResizeSetSizeBlind(n) ==
    /\ InApp /\ pc \notin {"rproc", "wproc"}
    /\ n # setsize
    /\ setsize' = n
    /\ mask' = [fd \in 0 .. n - 1 |-> IF fd <= maxfd /\ fd < setsize THEN mask[fd] ELSE {}]
    /\ UNCHANGED <<maxfd, timeVars, stop, loopVars>>

\* aeResizeSetSize: refused when it would cut off a descriptor in use.
ResizeSetSize(n) ==
    /\ InApp /\ pc \notin {"rproc", "wproc"}
    /\ n # setsize
    /\ maxfd < n
    /\ setsize' = n
    /\ mask' = [fd \in 0 .. n - 1 |-> IF fd <= maxfd THEN mask[fd] ELSE {}]
    /\ UNCHANGED <<maxfd, timeVars, stop, loopVars>>

\* aeCreateTimeEvent: at the head of the list.
CreateTimeEvent(d) ==
    /\ InApp
    /\ nextId < MaxTimers
    /\ timers' = <<[id |-> nextId, set |-> d, left |-> d]>> \o timers
    /\ nextId' = nextId + 1
    /\ UNCHANGED <<since, backs, fileVars, stop, loopVars>>

\* The timer id leaves the list, if it is in it.
Unlink(id) ==
    IF id \in Ids
    THEN \E i \in 1 .. Len(timers) :
            /\ timers[i].id = id
            /\ timers' = SubSeq(timers, 1, i - 1) \o SubSeq(timers, i + 1, Len(timers))
    ELSE UNCHANGED timers

\* aeDeleteTimeEvent
DeleteTimeEvent(id) ==
    /\ InApp
    /\ id \in Ids
    /\ Unlink(id)
    /\ UNCHANGED <<fileVars, nextId, since, backs, stop, loopVars>>

Stop ==
    /\ InApp
    /\ stop' = TRUE
    /\ UNCHANGED <<fileVars, timeVars, loopVars>>

-----------------------------------------------------------------------------
(* aeMain and aeProcessEvents: file events.                                *)

EnterMain ==
    /\ pc = "app"
    /\ stop' = FALSE
    /\ pc' = "hook"
    /\ UNCHANGED <<fileVars, timeVars, fired, cur, rfired, te, maxId, running, pass>>

\* beforesleep returns.
HookReturns ==
    /\ pc = "hook"
    /\ pc' = "poll"
    /\ UNCHANGED <<fileVars, timeVars, stop, fired, cur, rfired, te, maxId, running, pass>>

\* What aeApiPoll may report: some of the events that are set, each
\* descriptor once; or none, after the time to the nearest timer, which a
\* clock set back meanwhile does not show, or a signal.
Reports ==
    {S \in SUBSET [fd : Fds, mask : (SUBSET Mask) \ {{}}] :
        /\ \A f \in S : f.mask \subseteq mask[f.fd]
        /\ \A f, g \in S : f.fd = g.fd => f = g}

Poll(S) ==
    /\ pc = "poll"
    /\ fired' = S
    /\ pc' = "files"
    /\ UNCHANGED <<fileVars, timeVars, stop, cur, rfired, te, maxId, running, pass>>

\* Event f was reported, and is still set in b.
Valid(f, b) == b \in f.mask \cap mask[f.fd]

CallRead(f) ==
    /\ pc = "files"
    /\ Valid(f, "r")
    /\ fired' = fired \ {f}
    /\ cur' = f
    /\ rfired' = TRUE
    /\ pc' = "rproc"
    /\ UNCHANGED <<fileVars, timeVars, stop, te, maxId, running, pass>>

SkipRead(f) ==
    /\ pc = "files"
    /\ ~Valid(f, "r")
    /\ fired' = fired \ {f}
    /\ cur' = f
    /\ rfired' = FALSE
    /\ pc' = "write"
    /\ UNCHANGED <<fileVars, timeVars, stop, te, maxId, running, pass>>

ReadReturns ==
    /\ pc = "rproc"
    /\ pc' = "write"
    /\ UNCHANGED <<fileVars, timeVars, stop, fired, cur, rfired, te, maxId, running, pass>>

CallWrite ==
    /\ pc = "write"
    /\ Valid(cur, "w")
    /\ pc' = "wproc"
    /\ UNCHANGED <<fileVars, timeVars, stop, fired, cur, rfired, te, maxId, running, pass>>

NextFired(from) ==
    /\ from
    /\ cur' = NoEvent
    /\ rfired' = FALSE
    /\ pc' = "files"
    /\ UNCHANGED <<fileVars, timeVars, stop, fired, te, maxId, running, pass>>

\* Not writable any more, or the callback is the one already called.
SkipWrite    == NextFired(pc = "write" /\ (Valid(cur, "w") => rfired))
WriteReturns == NextFired(pc = "wproc")

-----------------------------------------------------------------------------
(* processTimeEvents.                                                      *)

\* when_sec = 0.
Overdue(e) == [e EXCEPT !.left = -MaxBack]

\* Faulty: of the timers, only the first is made due.
BeginTimersFirst ==
    /\ pc = "files"
    /\ fired = {}
    /\ timers' = [i \in 1 .. Len(timers) |->
                    IF since < 0 /\ i = 1 THEN Overdue(timers[i]) ELSE timers[i]]
    /\ since' = 0
    /\ te' = 1
    /\ maxId' = nextId - 1
    /\ pass' = Ids
    /\ pc' = "timers"
    /\ UNCHANGED <<fileVars, nextId, backs, stop, fired, cur, rfired, running>>

\* When the clock is behind lastTime, all timers are made due.
BeginTimers ==
    /\ pc = "files"
    /\ fired = {}
    /\ timers' = [i \in 1 .. Len(timers) |->
                    IF since < 0 THEN Overdue(timers[i]) ELSE timers[i]]
    /\ since' = 0
    /\ te' = 1
    /\ maxId' = nextId - 1
    /\ pass' = Ids
    /\ pc' = "timers"
    /\ UNCHANGED <<fileVars, nextId, backs, stop, fired, cur, rfired, running>>

\* Faulty: the newest timer is taken for one made by this pass's callbacks.
CallsBelow(e) == e.id < maxId /\ e.left <= 0

\* Faulty: a timer made by this pass's callbacks is called in it.
CallsAny(e) == e.left <= 0

\* The timer is to be called: it is due, and older than this pass.
Calls(e) == e.id <= maxId /\ e.left <= 0

SkipTimer ==
    /\ pc = "timers"
    /\ te <= Len(timers)
    /\ ~Calls(timers[te])
    /\ te' = te + 1
    /\ UNCHANGED <<fileVars, timeVars, stop, pc, fired, cur, rfired, maxId, running, pass>>

CallTimer ==
    /\ pc = "timers"
    /\ te <= Len(timers)
    /\ Calls(timers[te])
    /\ running' = timers[te].id
    /\ pc' = "tproc"
    /\ UNCHANGED <<fileVars, timeVars, stop, fired, cur, rfired, te, maxId, pass>>

\* The running timer is due again after r.
Rearm(r) ==
    timers' = [i \in 1 .. Len(timers) |->
                 IF timers[i].id = running THEN [id |-> running, set |-> r, left |-> r]
                 ELSE timers[i]]

\* Faulty: the walk goes on with the next position.
TimerReturnsOn(r) ==
    /\ pc = "tproc"
    /\ r # NoMore => running \in Ids
    /\ IF r = NoMore THEN Unlink(running) ELSE Rearm(r)
    /\ te' = te + 1
    /\ running' = None
    /\ pass' = IF Slow \/ r = 0 THEN pass ELSE pass \ {running}
    /\ pc' = "timers"
    /\ UNCHANGED <<fileVars, nextId, since, backs, stop, fired, cur, rfired, maxId>>

\* The callback returns: the timer is set anew or deleted, and the walk starts
\* again from the head.
TimerReturns(r) ==
    /\ pc = "tproc"
    /\ r # NoMore => running \in Ids
    /\ IF r = NoMore THEN Unlink(running) ELSE Rearm(r)
    /\ te' = 1
    /\ running' = None
    /\ pass' = IF Slow \/ r = 0 THEN pass ELSE pass \ {running}
    /\ pc' = "timers"
    /\ UNCHANGED <<fileVars, nextId, since, backs, stop, fired, cur, rfired, maxId>>

\* Past the last timer: back to the loop's top, or out of it.
EndTimers ==
    /\ pc = "timers"
    /\ te > Len(timers)
    /\ te' = 1
    /\ maxId' = -1
    /\ pass' = {}
    /\ pc' = IF stop THEN "app" ELSE "hook"
    /\ UNCHANGED <<fileVars, timeVars, stop, fired, cur, rfired, running>>

-----------------------------------------------------------------------------
(* The specification.                                                      *)

ClockMoves == Slow \/ pc = "poll"

Tick ==
    /\ ClockMoves
    /\ timers' = [i \in 1 .. Len(timers) |->
                    [timers[i] EXCEPT !.left = IF @ = -MaxBack THEN @ ELSE @ - 1]]
    /\ since' = IF since = MaxBack THEN since ELSE since + 1
    /\ UNCHANGED <<fileVars, nextId, backs, stop, loopVars>>

SetBack(b) ==
    /\ ClockMoves
    /\ backs' = backs + b
    /\ timers' = [i \in 1 .. Len(timers) |-> [timers[i] EXCEPT !.left = @ + b]]
    /\ since' = since - b
    /\ UNCHANGED <<fileVars, nextId, stop, loopVars>>

Call ==
    \/ \E fd \in Fds, m \in (SUBSET Mask) \ {{}} :
          \/ CreateFileEvent(fd, m)
          \/ DeleteFileEvent(fd, m)
    \/ \E n \in 1 .. MaxSize : ResizeSetSize(n)
    \/ \E d \in Delays : CreateTimeEvent(d)
    \/ \E id \in Ids : DeleteTimeEvent(id)
    \/ Stop

PollReturns == \E S \in Reports : Poll(S)

\* What the loop does of itself, callbacks returning included.
Loop ==
    \/ HookReturns
    \/ Due # {} /\ PollReturns
    \/ \E f \in fired : CallRead(f) \/ SkipRead(f)
    \/ ReadReturns
    \/ CallWrite
    \/ SkipWrite
    \/ WriteReturns
    \/ BeginTimers
    \/ SkipTimer
    \/ CallTimer
    \/ \E r \in Periods \cup {NoMore} : TimerReturns(r)
    \/ EndTimers

Next ==
    \/ Call
    \/ EnterMain
    \/ PollReturns
    \/ Loop
    \/ Tick
    \/ \E b \in 1 .. MaxBack - backs : SetBack(b)

Spec == Init /\ [][Next]_vars

\* The loop runs, callbacks return, a poll ends once a timer is due, and time
\* passes even when every poll has something to report.  Nobody need call
\* aeMain, and no file event need ever be reported.
Fairness == WF_vars(Loop) /\ SF_vars(Tick)

FairSpec == Spec /\ Fairness

-----------------------------------------------------------------------------
(* Properties.                                                             *)

\* maxfd is the highest descriptor with an event, whatever is created, deleted
\* and resized: poll and resize rely on it (ae.c:121, 130, 174-181).
MaxfdExact == IsHighest(mask, maxfd)

\* A pass over the timers ends with none due that was there when it began,
\* whatever its callbacks create and delete (ae.c:333-337).
PassComplete ==
    pc = "timers" /\ ~Slow => \A i \in 1 .. Len(timers) : i < te => ~Calls(timers[i])

\* Each timer is due within x of what it was last set to.
Within(x) == \A i \in 1 .. Len(timers) : timers[i].left <= timers[i].set + x

\* A clock set back delays no timer: as soon as that has been looked at, each
\* is due within the time it was itself set to, or overdue (ae.c:297-304).
NotDelayed == ~Slow /\ since >= 0 => Within(0)

\* A pass calls no timer that its callbacks create, and calls none twice but one
\* that asked to be due at once, in order not to loop for ever (ae.c:335-337).
OncePerPass == pc = "tproc" => running \in pass

\* A timer is run, or it is deleted, or the loop is left, unless some callback
\* asks for ever to be called at once.
EveryTimerRuns ==
    <>[][~TimerReturns(0)]_vars =>
        \A id \in 0 .. MaxTimers - 1 :
            (id \in Ids) ~> (running = id \/ id \notin Ids \/ pc = "app")
=============================================================================
