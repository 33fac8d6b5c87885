------------------------------ MODULE HookIO -------------------------------
(***************************************************************************)
(* The hooked system calls on a socket (hook.cc): do_io and                *)
(* connect_with_timeout, which suspend the calling fiber until an event, a *)
(* timeout, or close() by another fiber, on the fd context of FdContext    *)
(* and the table of FdManager.  The number of a closed fd may be given to  *)
(* a new socket while fibers still use it.                                 *)
(***************************************************************************)
EXTENDS FdContext

CONSTANTS
    MaxOpens,  \* how many sockets get this number
    MaxLate,   \* how many timeout callbacks of one call may be queued at once
    Links,     \* whether a new socket is connected (accept) or not (socket)
    Timeouts   \* whether calls have a timeout

ASSUME HookAssumption ==
    /\ MaxOpens \in Nat \ {0} /\ MaxLate \in Nat
    /\ Links \subseteq BOOLEAN /\ Timeouts \subseteq BOOLEAN

VARIABLES
    call,       \* the call of do_io or connect_with_timeout a fiber is in
    firing,     \* the event that a timeout callback of a fiber is about to cancel
    linked,     \* kernel: the socket is connected
    opens,      \* how many sockets had this number
    fdctx,      \* FdManager has the fd
    closing     \* where a fiber is in close()

socketLife == <<linked, opens, fdctx, closing>>
hookVars   == <<fdVars, call, firing, socketLife>>

\* Where the call is, its event, whether it is connect_with_timeout and has a
\* timeout, the socket the caller means, its timer, how many of its timeout
\* callbacks are in the run queue, and timer_info::cancelled.
Calls == [at : {"out", "try", "arm", "add", "held", "check", "result"},
          dir : Dirs, connects : BOOLEAN, timed : BOOLEAN, sock : 1..MaxOpens,
          timer : BOOLEAN, queued : 0..MaxLate, cancelled : BOOLEAN]

NoCall == [at |-> "out", dir |-> "READ", connects |-> FALSE, timed |-> FALSE, sock |-> 1,
           timer |-> FALSE, queued |-> 0, cancelled |-> FALSE]

HookTypeOK ==
    /\ FdTypeOK
    /\ call \in [Waiters -> Calls] /\ firing \in [Waiters -> Dirs \cup {"no"}]
    /\ linked \in BOOLEAN /\ opens \in 1..MaxOpens /\ fdctx \in BOOLEAN
    /\ closing \in {"no", "del", "close"}

HookInit ==
    /\ FdInit
    /\ call = [f \in Waiters |-> NoCall] /\ firing = [f \in Waiters |-> "no"]
    /\ linked \in Links /\ opens = 1 /\ fdctx = TRUE /\ closing = "no"

Goes(f, to) == call' = [call EXCEPT ![f] = [@ EXCEPT !.at = to]]

\* The call returns: its timer_info is gone for the callbacks still queued.
Returns(f) == call' = [call EXCEPT ![f] = NoCall]

-----------------------------------------------------------------------------
(* do_io and connect_with_timeout.                                         *)

\* A call on a socket that FdManager knows, one at a time for each event of a
\* socket.  Before the socket is connected only connect() has to wait.
Start(f, d, hasTimeout) ==
    /\ Alive /\ call[f].at = "out" /\ fdctx
    /\ linked \/ d = "WRITE"
    /\ \A g \in Waiters : call[g].at # "out" /\ call[g].dir = d => call[g].sock # opens
    /\ call' = [call EXCEPT ![f] =
                  [NoCall EXCEPT !.at = "try", !.dir = d, !.connects = ~linked,
                                 !.timed = hasTimeout, !.sock = opens]]
    /\ UNCHANGED <<fdVars, firing, socketLife>>

\* The system call takes what is there, or is done with an error.
TryDone(f) ==
    /\ Alive /\ call[f].at = "try"
    /\ ~open \/ call[f].dir \in ready
    /\ Returns(f)
    /\ \/ UNCHANGED ready
       \/ ~hup /\ ~call[f].connects /\ ready' = ready \ {call[f].dir}
    /\ UNCHANGED <<ctxVars, open, hup, interest, signalled, got, failed, firing, socketLife>>

\* It answers EAGAIN, or EINPROGRESS.
TryAgain(f) ==
    /\ Alive /\ call[f].at = "try"
    /\ open /\ call[f].dir \notin ready
    /\ Goes(f, IF call[f].timed THEN "arm" ELSE "add")
    /\ UNCHANGED <<fdVars, firing, socketLife>>

\* addConditionTimer.
Arm(f) ==
    /\ Alive /\ call[f].at = "arm"
    /\ call' = [call EXCEPT ![f] = [@ EXCEPT !.at = "add", !.timer = TRUE]]
    /\ UNCHANGED <<fdVars, firing, socketLife>>

\* Mutant: the answer of addEvent is not looked at.
FailHeld(f) == Goes(f, "held")

\* addEvent failed: do_io gives up, connect_with_timeout still asks for SO_ERROR.
Fail(f) ==
    IF call[f].connects THEN call' = [call EXCEPT ![f] = [@ EXCEPT !.at = "result", !.timer = FALSE]]
                        ELSE Returns(f)

\* addEvent, and YieldToHold when it succeeds.
Add(f) ==
    /\ call[f].at = "add"
    /\ \/ AddEvent(call[f].dir, f) /\ Goes(f, "held")
       \/ AddEventFails(call[f].dir) /\ Fail(f)
       \/ AddEventAsserts(call[f].dir) /\ UNCHANGED call
    /\ UNCHANGED <<firing, socketLife>>

\* The fiber is resumed and cancels its timer.
Resumed(f) ==
    /\ call[f].at = "held"
    /\ Resume(f)
    /\ call' = [call EXCEPT ![f] = [@ EXCEPT !.at = "check", !.timer = FALSE]]
    /\ UNCHANGED <<firing, socketLife>>

\* It looks at tinfo->cancelled: ETIMEDOUT, goto retry, or on to SO_ERROR.
Check(f) ==
    /\ Alive /\ call[f].at = "check"
    /\ IF call[f].cancelled THEN Returns(f)
                            ELSE Goes(f, IF call[f].connects THEN "result" ELSE "try")
    /\ UNCHANGED <<fdVars, firing, socketLife>>

\* getsockopt(SO_ERROR): the end of connect_with_timeout.
Result(f) ==
    /\ Alive /\ call[f].at = "result"
    /\ Returns(f)
    /\ UNCHANGED <<fdVars, firing, socketLife>>

-----------------------------------------------------------------------------
(* The timeout.                                                            *)

\* The timer expires and its callback is queued.
Expire(f) ==
    /\ Alive /\ call[f].timer /\ call[f].queued < MaxLate
    /\ call' = [call EXCEPT ![f] = [call[f] EXCEPT !.timer = FALSE, !.queued = call[f].queued + 1]]
    /\ UNCHANGED <<fdVars, firing, socketLife>>

\* Mutant: the callback does not leave ETIMEDOUT behind.
RunCbUnmarked(f) ==
    /\ Alive /\ call[f].queued > 0 /\ firing[f] = "no"
    /\ call' = [call EXCEPT ![f] = [call[f] EXCEPT !.queued = call[f].queued - 1]]
    /\ firing' = [firing EXCEPT ![f] = IF call[f].cancelled THEN "no" ELSE call[f].dir]
    /\ UNCHANGED <<fdVars, socketLife>>

\* The callback runs up to cancelEvent, or stops at t->cancelled.
RunCb(f) ==
    /\ Alive /\ call[f].queued > 0 /\ firing[f] = "no"
    /\ call' = [call EXCEPT ![f] = [call[f] EXCEPT !.queued = call[f].queued - 1, !.cancelled = TRUE]]
    /\ firing' = [firing EXCEPT ![f] = IF call[f].cancelled THEN "no" ELSE call[f].dir]
    /\ UNCHANGED <<fdVars, socketLife>>

\* cancelEvent, which finds the event or does not; the call may have returned.
FireCancel(f) ==
    /\ Alive /\ firing[f] # "no"
    /\ CancelIfThere(firing[f])
    /\ firing' = [firing EXCEPT ![f] = "no"]
    /\ UNCHANGED <<call, socketLife>>

-----------------------------------------------------------------------------
(* close(), and the next socket with the number.                           *)

CloseCancels ==
    /\ Alive /\ closing = "no" /\ fdctx /\ opens < MaxOpens
    /\ closing' = "del"
    /\ CancelAllIfAny
    /\ UNCHANGED <<call, firing, linked, opens, fdctx>>

CloseDel ==
    /\ Alive /\ closing = "del"
    /\ closing' = "close" /\ fdctx' = FALSE
    /\ UNCHANGED <<fdVars, call, firing, linked, opens>>

CloseEnds ==
    /\ closing = "close" /\ closing' = "no"
    /\ CloseFd
    /\ UNCHANGED <<call, firing, linked, opens, fdctx>>

\* socket() or accept() returns the number again.
Reopen ==
    /\ ReopenFd
    /\ opens' = opens + 1 /\ fdctx' = TRUE /\ linked' \in Links
    /\ UNCHANGED <<call, firing, closing>>

-----------------------------------------------------------------------------
\* Nothing arrives at a socket before it is connected, which makes it writable.
Arrives(d) ==
    /\ linked \/ d = "WRITE"
    /\ Arrive(d)
    /\ linked' = TRUE
    /\ UNCHANGED <<call, firing, opens, fdctx, closing>>

\* Socket::cancelRead, cancelWrite and cancelAll, by any fiber.
UserCancel ==
    /\ CancelAll \/ \E d \in Dirs : CancelEvent(d)
    /\ UNCHANGED <<call, firing, socketLife>>

\* The fd context's own steps.
Idle(t) == (EpollWait(t) \/ HandleEvent(t)) /\ UNCHANGED <<call, firing, socketLife>>
Hangs   == HangUp /\ UNCHANGED <<call, firing, socketLife>>

FiberStep(f) ==
    TryDone(f) \/ TryAgain(f) \/ Arm(f) \/ Add(f) \/ Resumed(f) \/ Check(f) \/ Result(f)

HookNext ==
    \/ \E f \in Waiters : FiberStep(f) \/ Expire(f) \/ RunCb(f) \/ FireCancel(f)
    \/ \E f \in Waiters, d \in Dirs, hasTimeout \in Timeouts : Start(f, d, hasTimeout)
    \/ CloseCancels \/ CloseDel \/ CloseEnds \/ Reopen
    \/ Hangs \/ UserCancel
    \/ \E t \in Threads : Idle(t)
    \/ \E d \in Dirs : Arrives(d)

HookSpec == HookInit /\ [][HookNext]_hookVars

\* Idle threads come back to epoll_wait, fibers that can run do, and so do queued
\* callbacks.
HookFairSpec ==
    /\ HookSpec
    /\ \A t \in Threads : WF_hookVars(Idle(t))
    /\ \A f \in Waiters : WF_hookVars(FiberStep(f)) /\ WF_hookVars(RunCb(f) \/ FireCancel(f))

-----------------------------------------------------------------------------
(* Properties.                                                             *)

\* A fiber is suspended exactly as long as it is registered or scheduled, and
\* never both: no call returns with its registration left behind, and no wake-up
\* reaches a fiber that runs, whatever events, timeouts, cancellations and closes
\* of the fd come together.
Parked ==
    \A f \in Waiters :
        /\ call[f].at = "held" <=> Waits(f) \/ wakes[f] > 0
        /\ wakes[f] <= 1 /\ ~(Waits(f) /\ wakes[f] > 0)

\* A call whose socket is and stays ready, and is not closed, returns, with or
\* without a timeout, and although timeouts and cancellations resume it too early.
CanReturn(f) ==
    /\ call[f].at # "out" /\ call[f].dir \in ready /\ Alive
    /\ open /\ closing = "no" /\ call[f].sock = opens
ReadyReturns == \A f \in Waiters : CanReturn(f) ~> ~CanReturn(f)

\* What ends a wait whose event never comes: a callback on its way to cancelEvent,
\* or a timer or a queued callback that will not stop at t->cancelled.
Guarded(f) ==
    \/ firing[f] = call[f].dir
    \/ ~call[f].cancelled /\ (call[f].timer \/ call[f].queued > 0)

Unguarded(f) == call[f].timed /\ Waits(f) /\ ~Guarded(f)

\* A call with a timeout does not wait for ever: a waiting fiber stays guarded by
\* its timer, whatever expires, runs late or is cancelled, until it is resumed.
\* The code leaves two exceptions: a callback that ran to its end before addEvent,
\* so that the wait starts unguarded, and a callback that came after the socket of
\* the call was closed, when cancelEvent fails.  In both ETIMEDOUT is left for the
\* first wake-up.
TimeoutKept ==
    [][\A f \in Waiters : Unguarded(f)' =>
        /\ Unguarded(f) \/ call[f].at = "add" \/ ~open \/ call[f].sock # opens
        /\ call[f].cancelled]_hookVars

\* addEvent asserts that nobody waits for the event already.
AddAsserts == failed # "addEvent"
=============================================================================
