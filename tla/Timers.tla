------------------------------- MODULE Timers -------------------------------
(***************************************************************************)
(* Timer and TimerManager (timer.cc), and the part of IOManager::idle that *)
(* waits for them: threads ask for the time to the first timer, sleep in   *)
(* epoll_wait, and hand over the callbacks of the timers that have         *)
(* expired, while user code adds, cancels, refreshes and resets timers.    *)
(***************************************************************************)
EXTENDS Naturals

CONSTANTS
    Threads,     \* the threads of the scheduler
    Timers,      \* the Timer objects
    Periods,     \* the intervals given to addTimer and reset (m_ms)
    Jumps,       \* by how much the clock may go forward at once
    Backs,       \* by how much the clock may be set back
    Hour,        \* 60 * 60 * 1000
    MaxTimeout,  \* MAX_TIMEOUT of idle()
    IntHalf,     \* 2^31: an int holds a number below it, and wraps at twice that
    Start,       \* the time at which TimerManager is made
    MaxClock     \* bound: the last moment of the clock

ASSUME TimersAssumption ==
    /\ Periods \subseteq Nat /\ Jumps \subseteq Nat /\ Backs \subseteq Nat
    /\ Hour \in Nat /\ MaxTimeout \in Nat /\ MaxClock \in Nat
    /\ Start \in Nat /\ Start > Hour
    /\ IntHalf \in Nat /\ IntHalf > MaxTimeout

VARIABLES
    clock,      \* GetCurrentMS
    stage,      \* a Timer is "none", "made" (not yet inserted) or "shared"
    ms,         \* m_ms
    next,       \* m_next
    armed,      \* m_cb is set
    recurring,  \* m_recurring
    timers,     \* m_timers: each timer with the m_next it was inserted under
    tickled,    \* m_tickled
    previous,   \* m_previouseTime
    announcing, \* timers whose insertion is about to call onTimerInsertedAtFront
    pc,         \* "busy" (in run()) or the place in idle()
    now,        \* listExpiredCb's local now_ms
    deadline,   \* when epoll_wait times out; NoLimit for a negative timeout
    told,       \* the answer of epoll_wait holds the tickle pipe
    edge,       \* a write to the tickle pipe that no epoll_wait has answered
    handed,     \* history: callbacks of a one-shot timer handed over
    cancelled,  \* history: cancel() answered true
    wentBack    \* history: the clock was set back

timerVars  == <<stage, ms, next, armed, recurring>>
threadVars == <<pc, now, deadline, told>>
pastVars   == <<handed, cancelled, wentBack>>
vars == <<clock, timerVars, timers, tickled, previous, announcing, threadVars,
          edge, pastVars>>

TypeOK ==
    /\ clock \in Nat /\ previous \in Nat
    /\ stage \in [Timers -> {"none", "made", "shared"}]
    /\ ms \in [Timers -> Nat] /\ next \in [Timers -> Nat]
    /\ armed \in [Timers -> BOOLEAN] /\ recurring \in [Timers -> BOOLEAN]
    /\ timers \subseteq Nat \X Timers
    /\ tickled \in BOOLEAN /\ edge \in BOOLEAN
    /\ announcing \subseteq Timers
    /\ pc \in [Threads -> {"busy", "ask", "wait", "read", "list", "drain"}]
    /\ now \in [Threads -> Nat] /\ deadline \in [Threads -> Nat]
    /\ told \in [Threads -> BOOLEAN]
    /\ handed \in [Timers -> Nat] /\ cancelled \in [Timers -> BOOLEAN]
    /\ wentBack \in BOOLEAN

Init ==
    /\ clock = Start /\ previous = Start
    /\ stage = [x \in Timers |-> "none"]
    /\ ms = [x \in Timers |-> 0] /\ next = [x \in Timers |-> 0]
    /\ armed = [x \in Timers |-> FALSE] /\ recurring = [x \in Timers |-> FALSE]
    /\ timers = {} /\ tickled = FALSE /\ edge = FALSE /\ announcing = {}
    /\ pc = [t \in Threads |-> "busy"]
    /\ now = [t \in Threads |-> 0] /\ deadline = [t \in Threads |-> 0]
    /\ told = [t \in Threads |-> FALSE]
    /\ handed = [x \in Timers |-> 0] /\ cancelled = [x \in Timers |-> FALSE]
    /\ wentBack = FALSE

-----------------------------------------------------------------------------
(* The ordered set.  find() and erase() of timer x look for the place that *)
(* its present m_next gives it.                                            *)

Entry(x) == <<next[x], x>>

\* Entry e sorts before the others of s: Comparator, on m_next (timers that are
\* due together may come in either order).
IsFirst(e, s) == e \in s /\ \A o \in s : e[1] <= o[1]

\* Whether e is at begin(): of two timers with one m_next the addresses decide.
AtBegin(e, s) ==
    {b \in BOOLEAN : IF b THEN IsFirst(e, s) ELSE \E o \in s \ {e} : o[1] <= e[1]}

\* addTimer(val, lock): s is the set without x, n the m_next of x.  A new first
\* timer is announced unless an announcement is outstanding.
Insert(x, n, s) ==
    /\ timers' = s \cup {<<n, x>>}
    /\ \E front \in {b /\ ~tickled : b \in AtBegin(<<n, x>>, timers')} :
         /\ tickled' = (tickled \/ front)
         /\ announcing' = IF front THEN announcing \cup {x} ELSE announcing

-----------------------------------------------------------------------------
(* Timer and TimerManager, called by any thread.                           *)

\* Timer's constructor reads the clock before addTimer takes the lock.
NewTimer(x, m, r) ==
    /\ stage[x] = "none"
    /\ stage' = [stage EXCEPT ![x] = "made"]
    /\ ms' = [ms EXCEPT ![x] = m]
    /\ next' = [next EXCEPT ![x] = clock + m]
    /\ armed' = [armed EXCEPT ![x] = TRUE]
    /\ recurring' = [recurring EXCEPT ![x] = r]
    /\ UNCHANGED <<clock, timers, tickled, previous, announcing, threadVars, edge>>
    /\ UNCHANGED pastVars

AddTimer(x) ==
    /\ stage[x] = "made"
    /\ stage' = [stage EXCEPT ![x] = "shared"]
    /\ Insert(x, next[x], timers)
    /\ UNCHANGED <<clock, ms, next, armed, recurring, previous, threadVars, edge>>
    /\ UNCHANGED pastVars

\* IOManager::onTimerInsertedAtFront, after the lock is released: tickle()
\* writes if some thread is in its idle fiber.
OnTimerInsertedAtFront(x) ==
    /\ x \in announcing
    /\ announcing' = announcing \ {x}
    /\ edge' = (edge \/ \E t \in Threads : pc[t] # "busy")
    /\ UNCHANGED <<clock, timerVars, timers, tickled, previous, threadVars, pastVars>>

\* Mutant: the test of m_cb is dropped.
CancelUnchecked(x) ==
    /\ stage[x] = "shared"
    /\ armed' = [armed EXCEPT ![x] = FALSE]
    /\ timers' = timers \ {Entry(x)}
    /\ cancelled' = [cancelled EXCEPT ![x] = TRUE]
    /\ UNCHANGED <<clock, stage, ms, next, recurring, tickled, previous, announcing>>
    /\ UNCHANGED <<threadVars, edge, handed, wentBack>>

\* Calls of cancel(), refresh() and reset() that answer false change nothing.
Cancel(x) ==
    /\ stage[x] = "shared" /\ armed[x]
    /\ armed' = [armed EXCEPT ![x] = FALSE]
    /\ timers' = timers \ {Entry(x)}
    /\ cancelled' = [cancelled EXCEPT ![x] = TRUE]
    /\ UNCHANGED <<clock, stage, ms, next, recurring, tickled, previous, announcing>>
    /\ UNCHANGED <<threadVars, edge, handed, wentBack>>

\* Mutant: m_next is changed before the timer is taken out of the set.
RefreshInPlace(x) ==
    /\ stage[x] = "shared" /\ armed[x] /\ Entry(x) \in timers
    /\ next' = [next EXCEPT ![x] = clock + ms[x]]
    /\ timers' = (timers \ {<<next'[x], x>>}) \cup {<<next'[x], x>>}
    /\ UNCHANGED <<clock, stage, ms, armed, recurring, tickled, previous, announcing>>
    /\ UNCHANGED <<threadVars, edge, pastVars>>

Refresh(x) ==
    /\ stage[x] = "shared" /\ armed[x] /\ Entry(x) \in timers
    /\ next' = [next EXCEPT ![x] = clock + ms[x]]
    /\ timers' = (timers \ {Entry(x)}) \cup {<<next'[x], x>>}
    /\ UNCHANGED <<clock, stage, ms, armed, recurring, tickled, previous, announcing>>
    /\ UNCHANGED <<threadVars, edge, pastVars>>

\* From when a reset timer counts.
StartOf(x, m, from_now) == IF from_now THEN clock ELSE next[x] - ms[x]

\* The early return (m = m_ms and not from_now) compares without the lock: with
\* an outdated m_ms the call goes on even for the present interval.
Reset(x, m, from_now) ==
    /\ stage[x] = "shared" /\ armed[x] /\ Entry(x) \in timers
    /\ ms' = [ms EXCEPT ![x] = m]
    /\ next' = [next EXCEPT ![x] = StartOf(x, m, from_now) + m]
    /\ Insert(x, next'[x], timers \ {Entry(x)})
    /\ UNCHANGED <<clock, stage, armed, recurring, previous, threadVars, edge, pastVars>>

-----------------------------------------------------------------------------
(* Thread t in IOManager::idle.                                            *)

\* run() finds nothing to do and resumes the idle fiber.
GoIdle(t) ==
    /\ pc[t] = "busy"
    /\ pc' = [pc EXCEPT ![t] = "ask"]
    /\ UNCHANGED <<clock, timerVars, timers, tickled, previous, announcing, now>>
    /\ UNCHANGED <<deadline, told, edge, pastVars>>

\* Mutant: the announcement stays outstanding.
KeepTickled == UNCHANGED tickled

\* A thread that has seen the first timer needs no announcement of it.
ClearTickled == tickled' = FALSE

\* The deadline of a thread that sleeps without a limit.
NoLimit == 0

\* The deadline that idle() gives to epoll_wait when the first timer is due in v:
\* MAX_TIMEOUT at most, compared after a conversion of v to int.
Deadline(v) ==
    LET i == v % (2 * IntHalf) IN
    IF i >= IntHalf THEN NoLimit
    ELSE IF i > MaxTimeout THEN clock + MaxTimeout ELSE clock + i

\* stopping(next_timeout) of idle(), which is getNextTimer (the thread leaves
\* idle() only when there is no timer), and the computation of the timeout.
GetNextTimer(t) ==
    /\ pc[t] = "ask"
    /\ ClearTickled
    /\ \/ timers = {} /\ deadline' = [deadline EXCEPT ![t] = clock + MaxTimeout]
       \/ \E e \in timers :
            /\ IsFirst(e, timers)
            /\ deadline' = [deadline EXCEPT ![t] =
                              IF clock >= e[1] THEN clock ELSE Deadline(e[1] - clock)]
    /\ pc' = [pc EXCEPT ![t] = "wait"]
    /\ UNCHANGED <<clock, timerVars, timers, previous, announcing, now, told, edge>>
    /\ UNCHANGED pastVars

\* Scheduler::stop asks stopping() too, without going to sleep.
StopAsks ==
    /\ tickled /\ ClearTickled
    /\ UNCHANGED <<clock, timerVars, timers, previous, announcing, threadVars, edge>>
    /\ UNCHANGED pastVars

\* epoll_wait returns: after its timeout, for an event, or for the tickle pipe.
EpollWait(t) ==
    /\ pc[t] = "wait"
    /\ told' = [told EXCEPT ![t] = edge]
    /\ edge' = FALSE
    /\ pc' = [pc EXCEPT ![t] = "read"]
    /\ deadline' = [deadline EXCEPT ![t] = 0]
    /\ UNCHANGED <<clock, timerVars, timers, tickled, previous, announcing, now>>
    /\ UNCHANGED pastVars

\* listExpiredCb reads the clock before it takes the lock.
ReadNow(t) ==
    /\ pc[t] = "read"
    /\ now' = [now EXCEPT ![t] = clock]
    /\ pc' = [pc EXCEPT ![t] = "list"]
    /\ UNCHANGED <<clock, timerVars, timers, tickled, previous, announcing>>
    /\ UNCHANGED <<deadline, told, edge, pastVars>>

\* detectClockRollover
Rollover(n) == n < previous /\ n < previous - Hour

\* Mutant: a timer that is due at this very moment is left for later.
ExpiredStrictly(n, all) == {e \in timers : all \/ e[1] < n}

\* The entries that listExpiredCb takes: all of them after a rollover,
\* otherwise those that are due.
Expired(n, all) == {e \in timers : all \/ e[1] <= n}

\* listExpiredCb under the lock; its callbacks go to the run queue.  Without
\* the tickle pipe to read, the idle fiber then yields to run().
ListExpiredCb(t) ==
    LET n  == now[t]
        ro == timers # {} /\ Rollover(n)
        ex == Expired(n, ro)
        xs == {e[2] : e \in ex}
    IN
    /\ pc[t] = "list"
    /\ previous' = IF timers = {} THEN previous ELSE n
    /\ next' = [x \in Timers |-> IF x \in xs /\ recurring[x] THEN n + ms[x] ELSE next[x]]
    /\ timers' = (timers \ ex) \cup {<<next'[x], x>> : x \in {y \in xs : recurring[y]}}
    /\ armed' = [x \in Timers |-> armed[x] /\ (x \in xs => recurring[x])]
    /\ handed' = [x \in Timers |-> IF x \in xs /\ ~recurring[x] THEN handed[x] + 1
                                                               ELSE handed[x]]
    /\ pc' = [pc EXCEPT ![t] = IF told[t] THEN "drain" ELSE "busy"]
    /\ now' = [now EXCEPT ![t] = 0]
    /\ UNCHANGED <<clock, stage, ms, recurring, tickled, announcing, deadline, told>>
    /\ UNCHANGED <<edge, cancelled, wentBack>>

\* idle() empties the tickle pipe, with what was written since it woke up, and
\* yields to run().
ReadPipe(t) ==
    /\ pc[t] = "drain"
    /\ edge' = FALSE
    /\ told' = [told EXCEPT ![t] = FALSE]
    /\ pc' = [pc EXCEPT ![t] = "busy"]
    /\ UNCHANGED <<clock, timerVars, timers, tickled, previous, announcing, now>>
    /\ UNCHANGED <<deadline, pastVars>>

-----------------------------------------------------------------------------
Tick ==
    /\ \E d \in Jumps : clock + d <= MaxClock /\ clock' = clock + d
    /\ UNCHANGED <<timerVars, timers, tickled, previous, announcing, threadVars, edge>>
    /\ UNCHANGED pastVars

\* The clock is set back (bound: once); epoll_wait still sleeps as long as it
\* was told to.
SetBack ==
    /\ ~wentBack
    /\ \E d \in Backs :
         /\ clock > Hour + d /\ clock' = clock - d
         /\ deadline' = [t \in Threads |-> IF deadline[t] = NoLimit THEN NoLimit
                                           ELSE IF deadline[t] > d THEN deadline[t] - d ELSE 1]
    /\ wentBack' = TRUE
    /\ UNCHANGED <<timerVars, timers, tickled, previous, announcing, pc, now, told, edge>>
    /\ UNCHANGED <<handed, cancelled>>

UserStep(x) ==
    \/ \E m \in Periods, r \in BOOLEAN : NewTimer(x, m, r)
    \/ AddTimer(x) \/ OnTimerInsertedAtFront(x) \/ Cancel(x) \/ Refresh(x)
    \/ \E m \in Periods, from_now \in BOOLEAN : Reset(x, m, from_now)

IdleStep(t) ==
    \/ GoIdle(t) \/ GetNextTimer(t) \/ EpollWait(t)
    \/ ReadNow(t) \/ ListExpiredCb(t) \/ ReadPipe(t)

Next ==
    \/ \E x \in Timers : UserStep(x)
    \/ \E t \in Threads : IdleStep(t)
    \/ StopAsks \/ Tick \/ SetBack

Spec == Init /\ [][Next]_vars

\* epoll_wait is sure to return: it has a limit, or the pipe is readable.
Returns(t) == pc[t] = "wait" => deadline[t] # NoLimit \/ edge

\* Threads come back to the idle loop, epoll_wait returns when it must, a caller
\* of addTimer finishes it, and time passes.
TimersFair ==
    /\ \A t \in Threads : WF_vars(Returns(t) /\ IdleStep(t))
    /\ \A x \in Timers : WF_vars(AddTimer(x) \/ OnTimerInsertedAtFront(x))
    /\ WF_vars(Tick)

-----------------------------------------------------------------------------
(* Properties.                                                             *)

\* A timer is in the set, once and under its present m_next, exactly when it has
\* a callback: find() in cancel(), refresh() and reset() then finds it (cancel()
\* erases what find() returns without looking), and no null callback expires.
SetMatches ==
    timers = {Entry(x) : x \in {y \in Timers : stage[y] = "shared" /\ armed[y]}}

\* A one-shot timer ends once: it is armed, or cancel() answered true, or its
\* callback was handed over a single time, whichever threads expire, cancel,
\* refresh and reset it.
OneEnd ==
    \A x \in Timers :
        stage[x] = "shared" /\ ~recurring[x] =>
            (IF armed[x] THEN 1 ELSE 0) + handed[x] + (IF cancelled[x] THEN 1 ELSE 0) = 1

\* When every thread sleeps in epoll_wait and no tickle is on its way, one of
\* them wakes up in time for the first timer: m_tickled holds an announcement back
\* only where a thread is sure to look at the timers again. Not after the clock
\* was set back: refresh() then moves a timer to an earlier time and tells nobody.
TimerCovered ==
    \A e \in timers :
        /\ ~wentBack /\ IsFirst(e, timers) /\ announcing = {} /\ ~edge
        /\ \A t \in Threads : pc[t] = "wait"
        => \E t \in Threads :
             deadline[t] # NoLimit /\ deadline[t] <= IF e[1] <= clock THEN clock ELSE e[1]

\* A timer that falls due within the bound of the clock expires, unless it is
\* cancelled or set to another time, or the clock is set back.
Expires ==
    TimersFair => \A x \in Timers, n \in Start..MaxClock :
        <<n, x>> \in timers ~> <<n, x>> \notin timers \/ wentBack
=============================================================================
