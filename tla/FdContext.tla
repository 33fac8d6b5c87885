----------------------------- MODULE FdContext -----------------------------
(***************************************************************************)
(* The context of one file descriptor in IOManager (iomanager.cc): who     *)
(* waits for it to become readable and writable, what epoll watches it     *)
(* for, and the answers of epoll_wait that idle threads hold and handle    *)
(* only once they have the context's lock.                                 *)
(***************************************************************************)
EXTENDS Integers

CONSTANTS
    Threads,   \* the threads of the IOManager, in their idle loops
    Waiters,   \* the fibers and callbacks that wait for events
    None       \* no waiter

ASSUME FdContextAssumption == None \notin Waiters

\* IOManager::Event, and the answer EPOLLERR or EPOLLHUP.
Dirs == {"READ", "WRITE"}
HUP  == "HUP"

VARIABLES
    events,     \* FdContext::events
    waiter,     \* the fiber or cb of the READ and of the WRITE context
    pending,    \* m_pendingEventCount, for this fd
    wakes,      \* how often each waiter has been given to schedule()
    open,       \* kernel: the fd is an open socket
    interest,   \* kernel: the events epoll watches for; {} when fd is not there
    ready,      \* kernel: the directions in which the socket can make progress
    hup,        \* kernel: the socket has an error or was hung up
    signalled,  \* kernel: the fd is in epoll's list of ready ones
    got,        \* the answer of epoll_wait about fd that a thread has to handle
    failed      \* the assertion that ended the process, or "none"

ctxVars    == <<events, waiter, pending, wakes>>
socketVars == <<open, ready, hup>>
fdVars == <<ctxVars, socketVars, interest, signalled, got, failed>>

FdTypeOK ==
    /\ events \subseteq Dirs /\ waiter \in [Dirs -> Waiters \cup {None}]
    /\ pending \in Nat /\ wakes \in [Waiters -> Nat]
    /\ interest \subseteq Dirs /\ ready \subseteq Dirs
    /\ open \in BOOLEAN /\ hup \in BOOLEAN /\ signalled \in BOOLEAN
    /\ got \in [Threads -> SUBSET (Dirs \cup {HUP})]
    /\ failed \in {"none", "addEvent", "triggerEvent"}

FdInit ==
    /\ events = {} /\ waiter = [d \in Dirs |-> None]
    /\ pending = 0 /\ wakes = [w \in Waiters |-> 0]
    /\ open = TRUE /\ interest = {} /\ ready = {} /\ hup = FALSE
    /\ signalled = FALSE /\ got = [t \in Threads |-> {}]
    /\ failed = "none"

\* No assertion has ended the process.
Alive == failed = "none"

-----------------------------------------------------------------------------
(* The kernel.                                                             *)

\* epoll_ctl succeeds: ADD wants an fd that is not watched, MOD and DEL one that is.
CtlOk(op) == open /\ (op = "ADD" <=> interest = {})

\* Its effect: whatever is ready by now counts as news.
Ctl(mask) ==
    /\ interest' = mask
    /\ signalled' = (mask # {} /\ (signalled \/ hup \/ mask \cap ready # {}))

\* Data or room arrives; the error or hang-up of a peer.
Arrive(d) ==
    /\ Alive /\ open
    /\ ready' = ready \cup {d}
    /\ signalled' = (signalled \/ d \in interest)
    /\ UNCHANGED <<ctxVars, open, hup, interest, got, failed>>

HangUp ==
    /\ Alive /\ open /\ ~hup
    /\ hup' = TRUE /\ ready' = Dirs
    /\ signalled' = (interest # {})
    /\ UNCHANGED <<ctxVars, open, interest, got, failed>>

\* A system call takes the data, or fills the room.
Consume(d) ==
    /\ Alive /\ d \in ready /\ ~hup
    /\ ready' = ready \ {d}
    /\ UNCHANGED <<ctxVars, open, hup, interest, signalled, got, failed>>

\* close_f: epoll forgets the fd; answers already given do not go away.
CloseFd ==
    /\ Alive /\ open /\ open' = FALSE
    /\ interest' = {} /\ signalled' = FALSE /\ ready' = {} /\ hup' = FALSE
    /\ UNCHANGED <<ctxVars, got, failed>>

\* The number is given to a new socket.
ReopenFd ==
    /\ Alive /\ ~open /\ open' = TRUE
    /\ UNCHANGED <<ctxVars, ready, hup, interest, signalled, got, failed>>

-----------------------------------------------------------------------------
(* IOManager, under the lock of the context.                               *)

Op(left) == IF left = {} THEN "DEL" ELSE "MOD"
AddOp == IF events = {} THEN "ADD" ELSE "MOD"

\* Mutant: the other direction is left out of the mask.
AddMaskOnly(d) == {d}

AddMask(d) == events \cup {d}

\* addEvent: the new registration, the answer -1, and the assertion.
AddEvent(d, w) ==
    /\ Alive /\ d \notin events /\ CtlOk(AddOp)
    /\ Ctl(AddMask(d))
    /\ events' = events \cup {d}
    /\ waiter' = [waiter EXCEPT ![d] = w]
    /\ pending' = pending + 1
    /\ UNCHANGED <<wakes, socketVars, got, failed>>

AddEventFails(d) ==
    /\ Alive /\ d \notin events /\ ~CtlOk(AddOp)
    /\ UNCHANGED fdVars

AddEventAsserts(d) ==
    /\ Alive /\ d \in events
    /\ failed' = "addEvent"
    /\ UNCHANGED <<ctxVars, socketVars, interest, signalled, got>>

\* --m_pendingEventCount, for each direction of ds (not empty).
CountDown(ds) == pending - (IF ds = Dirs THEN 2 ELSE 1)

\* Mutant: the waiter is copied to schedule() and stays in its context.
KeepWaiters(ds) == waiter

\* schedule(&ctx.fiber) and schedule(&ctx.cb) take the waiter out of its context.
TakeWaiters(ds) == [d \in Dirs |-> IF d \in ds THEN None ELSE waiter[d]]

\* Mutant: the context is cleared and its waiter is not scheduled.
TriggerUnscheduled(ds) ==
    /\ events' = events \ ds
    /\ waiter' = TakeWaiters(ds)
    /\ UNCHANGED wakes
    /\ pending' = CountDown(ds)

\* triggerEvent for each direction of ds, and the count.
Trigger(ds) ==
    /\ events' = events \ ds
    /\ waiter' = TakeWaiters(ds)
    /\ wakes' = [w \in Waiters |-> wakes[w] + (IF \E d \in ds : waiter[d] = w THEN 1 ELSE 0)]
    /\ pending' = CountDown(ds)

\* delEvent drops the waiter without waking it.
DelEvent(d) ==
    /\ Alive /\ d \in events /\ CtlOk(Op(events \ {d}))
    /\ Ctl(events \ {d})
    /\ events' = events \ {d}
    /\ waiter' = [waiter EXCEPT ![d] = None]
    /\ pending' = pending - 1
    /\ UNCHANGED <<wakes, socketVars, got, failed>>

\* cancelEvent and cancelAll, when they find something to cancel.
CancelEvent(d) ==
    /\ Alive /\ d \in events /\ CtlOk(Op(events \ {d}))
    /\ Ctl(events \ {d})
    /\ Trigger({d})
    /\ UNCHANGED <<socketVars, got, failed>>

CancelAll ==
    /\ Alive /\ events # {} /\ CtlOk("DEL")
    /\ Ctl({})
    /\ Trigger(events)
    /\ UNCHANGED <<socketVars, got, failed>>

\* Their calls by others, which may find nothing or fail in epoll_ctl.
CancelIfThere(d) == CancelEvent(d) \/ (~(d \in events /\ CtlOk(Op(events \ {d}))) /\ UNCHANGED fdVars)
CancelAllIfAny   == CancelAll \/ (~(events # {} /\ CtlOk("DEL")) /\ UNCHANGED fdVars)

-----------------------------------------------------------------------------
(* An idle thread.                                                         *)

\* epoll_wait answers what the fd is ready for now, and takes it off the list
\* (the registration is edge-triggered).
EpollWait(t) ==
    /\ Alive /\ got[t] = {} /\ signalled
    /\ got' = [got EXCEPT ![t] = (interest \cap ready) \cup (IF hup THEN {HUP} ELSE {})]
    /\ signalled' = FALSE
    /\ UNCHANGED <<ctxVars, socketVars, interest, failed>>

\* real_events: an error stands for all that is waited for by now.
RealEvents(t) == (got[t] \cap Dirs) \cup (IF HUP \in got[t] THEN events ELSE {})

\* Mutant: an answer is dropped unless it covers all that is waited for.
SomeLeft(real) == events = {} \/ ~(events \subseteq real)

\* Nobody waits for any of it.
AllGone(real) == events \cap real = {}

\* The answer is handled, or passed over when nobody waits for it any more or
\* epoll_ctl fails.
HandleEvent(t) ==
    /\ Alive /\ got[t] # {}
    /\ got' = [got EXCEPT ![t] = {}]
    /\ LET real == RealEvents(t)
           left == events \ real
       IN
       \/ /\ AllGone(real) \/ ~CtlOk(Op(left))
          /\ UNCHANGED <<ctxVars, interest, signalled, failed>>
       \/ /\ ~AllGone(real) /\ CtlOk(Op(left))
          /\ Ctl(left)
          /\ \/ real \subseteq events /\ Trigger(real) /\ UNCHANGED failed
             \/ /\ ~(real \subseteq events) /\ failed' = "triggerEvent"
                /\ UNCHANGED ctxVars
    /\ UNCHANGED socketVars

-----------------------------------------------------------------------------
(* The context with callers that keep the rule of addEvent's assertion: one *)
(* waiter for a direction, who waits for one thing at a time.              *)

Waits(w) == \E d \in Dirs : waiter[d] = w

Register(d, w) ==
    /\ d \notin events /\ wakes[w] = 0 /\ ~Waits(w)
    /\ AddEvent(d, w)

\* schedule() has run the waiter.
Resume(w) ==
    /\ Alive /\ wakes[w] > 0
    /\ wakes' = [wakes EXCEPT ![w] = @ - 1]
    /\ UNCHANGED <<events, waiter, pending, socketVars, interest, signalled, got, failed>>

FdNext ==
    \/ \E d \in Dirs, w \in Waiters : Register(d, w)
    \/ \E d \in Dirs : DelEvent(d) \/ CancelEvent(d) \/ Arrive(d) \/ Consume(d)
    \/ CancelAll \/ HangUp
    \/ \E t \in Threads : EpollWait(t) \/ HandleEvent(t)
    \/ \E w \in Waiters : Resume(w)

FdSpec == FdInit /\ [][FdNext]_fdVars

\* Idle threads come back to epoll_wait and handle its answers.
FdFair == \A t \in Threads : WF_fdVars(EpollWait(t) \/ HandleEvent(t))

-----------------------------------------------------------------------------
(* Properties.                                                             *)

\* What epoll watches for is what somebody waits for, and the count of pending
\* events, which stopping() relies on, is the number of waiters: through stale
\* answers, cancellations and hang-ups.
Registered ==
    Alive =>
        /\ open => interest = events
        /\ \A d \in Dirs : d \in events <=> waiter[d] # None
        /\ pending = (IF "READ" \in events THEN 1 ELSE 0)
                     + (IF "WRITE" \in events THEN 1 ELSE 0)

\* A waiter is woken once for a registration: it is registered, or scheduled.
WokenOnce ==
    /\ \A w \in Waiters : wakes[w] <= 1 /\ (Waits(w) => wakes[w] = 0)
    /\ \A w \in Waiters : waiter["READ"] = w => waiter["WRITE"] # w

\* No edge is lost: when the socket is ready for what somebody waits for, epoll
\* will say so, or a thread holds an answer that does.
NoEdgeLost ==
    Alive /\ open =>
        \A d \in events : d \in ready =>
            signalled \/ \E t \in Threads : d \in got[t] \/ HUP \in got[t]

\* A waiter whose event is and stays ready does not stay registered.
ReadyWakes ==
    FdFair => \A d \in Dirs : d \in events /\ d \in ready ~> d \notin events \cap ready \/ ~Alive
=============================================================================
