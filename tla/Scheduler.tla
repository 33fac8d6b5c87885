----------------------------- MODULE Scheduler -----------------------------
(***************************************************************************)
(* The N:M fiber scheduler of sylar: Fiber (fiber.cc), Scheduler           *)
(* (scheduler.h, scheduler.cc) and the idle loop with which IOManager      *)
(* (iomanager.cc) drives it.  Worker threads share one run queue of fibers *)
(* and callbacks, resume one fiber at a time, and when there is nothing to *)
(* resume block in epoll_wait until a tickle, a timer or an I/O event.     *)
(*                                                                         *)
(* Time and file descriptors are abstracted: a registered timer may be due *)
(* and a registered event may be ready at any moment.                      *)
(***************************************************************************)
EXTENDS Naturals, FiniteSets, Sequences

CONSTANTS
    Threads,   \* the threads that execute Scheduler::run
    Roots,     \* the caller's thread if use_caller is set ({} otherwise)
    Fibers,    \* the Fiber objects; a destroyed one may be allocated again
    Ops,       \* the operations the user's code performs
    AnyThread, \* thread = -1: the task may run on every thread
    User,      \* a std::function given by the user
    None       \* a null pointer

\* What user code running in a fiber may ask of the scheduler: a hooked sleep
\* (a timer), a hooked read or write (an fd event), YieldToReady, switchTo, and
\* scheduling a new task.
AllOps == {"sleep", "event", "ready", "switch", "spawn"}

ASSUME ConstantsAssumption ==
    /\ Threads # {} /\ IsFiniteSet(Threads)
    /\ Roots \subseteq Threads
    /\ IsFiniteSet(Fibers)
    /\ Ops \subseteq AllOps
    /\ AnyThread \notin Threads
    /\ User \notin Fibers /\ None \notin Fibers /\ User # None

VARIABLES
    queue,      \* m_fibers
    active,     \* m_activeThreadCount
    idle,       \* m_idleThreadCount
    stop,       \* m_autoStop && m_stopping
    state,      \* Fiber::m_state
    job,        \* Fiber::m_cb
    pool,       \* the fibers that are not allocated
    pc,         \* where each thread is in run() or idle()
    ft,         \* run()'s local ft
    cbFiber,    \* run()'s local cb_fiber
    idleFiber,  \* run()'s local idle_fiber: "none", "live" or "term"
    cbs,        \* idle()'s local cbs: the expired timers' callbacks
    timers,     \* fibers that a timer will wake
    events,     \* fibers that an fd event will wake
    pending,    \* m_pendingEventCount
    edge        \* a byte written to the tickle pipe that no epoll_wait reported

vars == <<queue, active, idle, stop, state, job, pool, pc, ft, cbFiber,
          idleFiber, cbs, timers, events, pending, edge>>

\* The variables of the run queue, of the fibers, of the threads and of epoll.
queueVars == <<queue, active, stop, edge>>
fiberVars == <<state, job, pool>>
waitVars  == <<timers, events, pending>>

FiberState == {"INIT", "HOLD", "EXEC", "TERM", "READY", "EXCEPT"}
Finished   == {"TERM", "EXCEPT"}

\* FiberAndThread: a fiber or a callback.  A callback is the user's, or the one
\* sleep() gives its timer: bind(schedule, fiber), written as that fiber.
Task == [fiber : Fibers, cb : {None}, thread : Threads \cup {AnyThread}]
        \cup [fiber : {None}, cb : Fibers \cup {User}, thread : {AnyThread}]

\* m_fibers.erase(it): the list q without its i-th element.
Erase(q, i) == [k \in 1..Len(q)-1 |-> IF k < i THEN q[k] ELSE q[k+1]]

\* The lists in which each element of S occurs once.
Orders(S) == {s \in [1..Cardinality(S) -> S] : \A i, j \in DOMAIN s : s[i] = s[j] => i = j}

NoEntry          == [fiber |-> None, cb |-> None, thread |-> AnyThread]
FiberTask(f, th) == [fiber |-> f,    cb |-> None, thread |-> th]
CbTask(c)        == [fiber |-> None, cb |-> c,    thread |-> AnyThread]

Pcs == {"new", "pick", "tickle", "dispatch", "exec", "swapout",
        "back", "settle", "timers", "pending", "stopping", "epoll", "schedule",
        "events", "decrement", "exited"}

TypeOK ==
    /\ queue \in Seq(Task)
    /\ active \in Nat /\ idle \in Nat /\ pending \in Nat
    /\ stop \in BOOLEAN /\ edge \in BOOLEAN
    /\ state \in [Fibers -> FiberState]
    /\ job \in [Fibers -> Fibers \cup {User, None}]
    /\ pool \subseteq Fibers
    /\ pc \in [Threads -> Pcs]
    /\ ft \in [Threads -> Task \cup {NoEntry}]
    /\ cbFiber \in [Threads -> Fibers \cup {None}]
    /\ idleFiber \in [Threads -> {"none", "live", "term"}]
    /\ cbs \in [Threads -> Seq(Fibers)]
    /\ timers \subseteq Fibers /\ events \subseteq Fibers

Init ==
    /\ queue = <<>> /\ active = 0 /\ idle = 0 /\ stop = FALSE
    /\ state = [f \in Fibers |-> "INIT"]
    /\ job = [f \in Fibers |-> None]
    /\ pool = Fibers
    /\ pc = [t \in Threads |-> IF t \in Roots THEN "new" ELSE "pick"]
    /\ ft = [t \in Threads |-> NoEntry]
    /\ cbFiber = [t \in Threads |-> None]
    /\ idleFiber = [t \in Threads |-> IF t \in Roots THEN "none" ELSE "live"]
    /\ cbs = [t \in Threads |-> <<>>]
    /\ timers = {} /\ events = {} /\ pending = 0
    /\ edge = FALSE

-----------------------------------------------------------------------------
(* Scheduling a task, from any thread.                                     *)

Goto(t, l) == pc' = [pc EXCEPT ![t] = l]

\* IOManager::tickle: nothing is written when no thread counts as idle.
Tickled == edge \/ idle > 0

\* Scheduler::schedule: the pool is tickled only if the queue was empty.  The
\* tickle follows the release of m_mutex and is part of the same step here: it
\* only shortens a wait of epoll_wait that ends by itself.
Schedule(e) ==
    /\ queue' = Append(queue, e)
    /\ edge' = IF queue = <<>> THEN Tickled ELSE edge

\* Bound: a user's task is accepted while enough Fiber objects are left for
\* the callbacks already queued and for each thread's cb_fiber.
Waiting == Cardinality({i \in DOMAIN queue : queue[i].cb = User})
           + Cardinality({t \in Threads : ft[t].cb = User})
           + Cardinality({t \in Threads :
                             cbFiber[t] # None => job[cbFiber[t]] = User})
Room == Cardinality(pool) > Waiting

\* A thread outside the pool schedules a function ...
SubmitCb ==
    /\ ~stop /\ Room
    /\ Schedule(CbTask(User))
    /\ UNCHANGED <<active, idle, stop, pc, ft, cbFiber, idleFiber, cbs>>
    /\ UNCHANGED <<fiberVars, waitVars>>

\* ... or a fiber it has made, possibly for one thread only.
SubmitFiber(f, th) ==
    /\ ~stop /\ Room
    /\ f \in pool
    /\ th = AnyThread \/ "switch" \in Ops
    /\ pool' = pool \ {f}
    /\ job' = [job EXCEPT ![f] = User]
    /\ state' = [state EXCEPT ![f] = "INIT"]
    /\ Schedule(FiberTask(f, th))
    /\ UNCHANGED <<active, idle, stop, pc, ft, cbFiber, idleFiber, cbs>>
    /\ UNCHANGED waitVars

\* Scheduler::stop, called once: the flags are raised and the pool tickled.
StopCalled ==
    /\ ~stop
    /\ stop' = TRUE
    /\ edge' = Tickled
    /\ UNCHANGED <<queue, active, idle, pc, ft, cbFiber, idleFiber, cbs>>
    /\ UNCHANGED <<fiberVars, waitVars>>

\* stop() on the caller's thread asks stopping() before it calls m_rootFiber.
RootCall(t) ==
    /\ stop /\ pc[t] = "new"
    /\ Goto(t, "timers")
    /\ UNCHANGED <<queue, active, idle, stop, edge, ft, cbFiber, idleFiber, cbs>>
    /\ UNCHANGED <<fiberVars, waitVars>>

-----------------------------------------------------------------------------
(* Scheduler::run, on thread t.                                            *)

\* Mutant: run() does not look at the state of the entry's fiber.
RunnableInExec(t, e) == e.thread \in {AnyThread, t}


\* The task may run on t, and its fiber is not running somewhere else.
Runnable(t, e) ==
    /\ e.thread \in {AnyThread, t}
    /\ e.fiber # None => state[e.fiber] # "EXEC"

\* run() passed a task of another thread among the first n of the queue.
PassedOther(t, n) == \E k \in 1..n : queue[k].thread \notin {AnyThread, t}

\* Mutant: the thread that takes a task does not count itself.
NotCounted == active' = active

\* ++m_activeThreadCount
CountActive == active' = active + 1

\* The first runnable task leaves the queue, under m_mutex.
Take(t) ==
    /\ pc[t] = "pick"
    /\ \E i \in DOMAIN queue :
         /\ Runnable(t, queue[i])
         /\ \A k \in 1..i-1 : ~Runnable(t, queue[k])
         /\ ft' = [ft EXCEPT ![t] = queue[i]]
         /\ queue' = Erase(queue, i)
         /\ Goto(t, IF PassedOther(t, i) \/ i < Len(queue)
                    THEN "tickle" ELSE "dispatch")
    /\ CountActive
    /\ UNCHANGED <<idle, stop, edge, cbFiber, idleFiber, cbs, fiberVars, waitVars>>

TakeNothing(t) ==
    /\ pc[t] = "pick"
    /\ \A i \in DOMAIN queue : ~Runnable(t, queue[i])
    /\ Goto(t, IF PassedOther(t, Len(queue)) THEN "tickle" ELSE "dispatch")
    /\ UNCHANGED <<queueVars, idle, ft, cbFiber, idleFiber, cbs, fiberVars, waitVars>>

TickleOthers(t) ==
    /\ pc[t] = "tickle"
    /\ edge' = Tickled
    /\ Goto(t, "dispatch")
    /\ UNCHANGED <<queue, active, stop, idle, ft, cbFiber, idleFiber, cbs>>
    /\ UNCHANGED <<fiberVars, waitVars>>

\* ft.fiber->swapIn()
SwapInFiber(t) ==
    LET f == ft[t].fiber IN
    /\ pc[t] = "dispatch"
    /\ f # None /\ state[f] \notin Finished
    /\ state' = [state EXCEPT ![f] = "EXEC"]
    /\ Goto(t, "exec")
    /\ UNCHANGED <<queueVars, idle, ft, cbFiber, idleFiber, cbs, job, pool, waitVars>>

\* A callback runs in cb_fiber, reset for it, or in a new fiber.
SwapInCb(t) ==
    /\ pc[t] = "dispatch"
    /\ ft[t].fiber = None /\ ft[t].cb # None
    /\ \E f \in IF cbFiber[t] # None THEN {cbFiber[t]} ELSE pool :
         /\ cbFiber' = [cbFiber EXCEPT ![t] = f]
         /\ pool' = pool \ {f}
         /\ job' = [job EXCEPT ![f] = ft[t].cb]
         /\ state' = [state EXCEPT ![f] = "EXEC"]
    /\ ft' = [ft EXCEPT ![t] = NoEntry]
    /\ Goto(t, "exec")
    /\ UNCHANGED <<queueVars, idle, idleFiber, cbs, waitVars>>

\* Nothing to resume: a finished fiber is dropped; otherwise the thread ends
\* if its idle fiber has, and else resumes the idle fiber.
Nothing(t) ==
    LET f == ft[t].fiber IN
    /\ pc[t] = "dispatch"
    /\ ft[t].cb = None
    /\ f # None => state[f] \in Finished
    /\ ft' = [ft EXCEPT ![t] = NoEntry]
    /\ IF ft[t] # NoEntry
       THEN active' = active - 1 /\ Goto(t, "pick") /\ UNCHANGED idle
       ELSE /\ UNCHANGED active
            /\ IF idleFiber[t] = "term"
               THEN Goto(t, "exited") /\ UNCHANGED idle
               ELSE Goto(t, "timers") /\ idle' = idle + 1
    /\ UNCHANGED <<queue, stop, edge, cbFiber, idleFiber, cbs, fiberVars, waitVars>>

-----------------------------------------------------------------------------
(* The fiber that thread t is running.                                     *)

Cur(t) == IF ft[t].fiber # None THEN ft[t].fiber ELSE cbFiber[t]

\* User code is about to call the scheduler, or to return.
Runs(t, op) == pc[t] = "exec" /\ job[Cur(t)] = User /\ op \in Ops

\* A hooked sleep: the timer is armed before the fiber yields.  addTimer
\* tickles if the timer is the first to expire and no tickle is outstanding.
Sleep(t) ==
    /\ Runs(t, "sleep")
    /\ timers' = timers \cup {Cur(t)}
    /\ edge' \in {edge, Tickled}
    /\ Goto(t, "swapout")
    /\ UNCHANGED <<queue, active, stop, idle, ft, cbFiber, idleFiber, cbs>>
    /\ UNCHANGED <<fiberVars, events, pending>>

\* A hooked read or write that would block: addEvent, then YieldToHold.
WaitEvent(t) ==
    /\ Runs(t, "event")
    /\ events' = events \cup {Cur(t)}
    /\ pending' = pending + 1
    /\ Goto(t, "swapout")
    /\ UNCHANGED <<queueVars, idle, ft, cbFiber, idleFiber, cbs, fiberVars, timers>>

\* The state is READY while the fiber is still on its stack.
YieldToReady(t) ==
    /\ Runs(t, "ready")
    /\ state' = [state EXCEPT ![Cur(t)] = "READY"]
    /\ Goto(t, "swapout")
    /\ UNCHANGED <<queueVars, idle, ft, cbFiber, idleFiber, cbs, job, pool, waitVars>>

\* switchTo: the fiber queues itself for another thread, then yields.
SwitchTo(t, th) ==
    /\ Runs(t, "switch")
    /\ th # t
    /\ Schedule(FiberTask(Cur(t), th))
    /\ Goto(t, "swapout")
    /\ UNCHANGED <<active, stop, idle, ft, cbFiber, idleFiber, cbs>>
    /\ UNCHANGED <<fiberVars, waitVars>>

Spawn(t) ==
    /\ Runs(t, "spawn") /\ Room
    /\ Schedule(CbTask(User))
    /\ UNCHANGED <<active, stop, idle, pc, ft, cbFiber, idleFiber, cbs>>
    /\ UNCHANGED <<fiberVars, waitVars>>

\* MainFunc: the function returned, or threw and is still in m_cb.
Return(t) ==
    /\ pc[t] = "exec" /\ job[Cur(t)] = User
    /\ \E s \in Finished :
         /\ state' = [state EXCEPT ![Cur(t)] = s]
         /\ job' = [job EXCEPT ![Cur(t)] = IF s = "TERM" THEN None ELSE @]
    /\ Goto(t, "swapout")
    /\ UNCHANGED <<queueVars, idle, ft, cbFiber, idleFiber, cbs, pool, waitVars>>

\* The callback of a sleep's timer schedules the sleeper and returns.
WakeSleeper(t) ==
    /\ pc[t] = "exec" /\ job[Cur(t)] \in Fibers
    /\ Schedule(FiberTask(job[Cur(t)], AnyThread))
    /\ state' = [state EXCEPT ![Cur(t)] = "TERM"]
    /\ job' = [job EXCEPT ![Cur(t)] = None]
    /\ Goto(t, "swapout")
    /\ UNCHANGED <<active, stop, idle, ft, cbFiber, idleFiber, cbs, pool, waitVars>>

\* swapOut saves the context and resumes run() ...
SwapOut(t) ==
    /\ pc[t] = "swapout"
    /\ Goto(t, "back")
    /\ UNCHANGED <<queueVars, idle, ft, cbFiber, idleFiber, cbs, fiberVars, waitVars>>

\* ... which first takes the task off the count ...
Decrement(t) ==
    /\ pc[t] = "back"
    /\ active' = active - 1
    /\ Goto(t, "settle")
    /\ UNCHANGED <<queue, stop, edge, idle, ft, cbFiber, idleFiber, cbs>>
    /\ UNCHANGED <<fiberVars, waitVars>>

\* Mutant: a fiber that yielded READY is not queued again.
DropReady(f) == UNCHANGED <<queue, edge>>

\* A fiber that yielded READY is queued again.
Requeue(f) == IF state[f] = "READY" THEN Schedule(FiberTask(f, AnyThread))
                                    ELSE UNCHANGED <<queue, edge>>

\* Mutant: cb_fiber keeps a fiber that has only yielded.
KeepCb(t) == UNCHANGED cbFiber

\* cb_fiber.reset(), unless its fiber has finished and serves again.
ReleaseCb(t) ==
    cbFiber' = [cbFiber EXCEPT ![t] =
                  IF ft[t].fiber = None /\ state[Cur(t)] \notin Finished
                  THEN None ELSE @]

\* ... and then looks at the state the fiber left: a finished cb_fiber is reset
\* and any other finished fiber destroyed; a fiber still EXEC becomes HOLD.
Settle(t) ==
    LET f == Cur(t) IN
    /\ pc[t] = "settle"
    /\ Requeue(f)
    /\ state' = [state EXCEPT ![f] = IF @ \in Finished THEN "INIT"
                                     ELSE IF @ = "READY" THEN @ ELSE "HOLD"]
    /\ job' = [job EXCEPT ![f] = IF state[f] \in Finished THEN None ELSE @]
    /\ pool' = IF state[f] \in Finished /\ ft[t].fiber # None
               THEN pool \cup {f} ELSE pool
    /\ ReleaseCb(t)
    /\ ft' = [ft EXCEPT ![t] = NoEntry]
    /\ Goto(t, "pick")
    /\ UNCHANGED <<active, stop, idle, idleFiber, cbs, waitVars>>

-----------------------------------------------------------------------------
(* IOManager::idle, in thread t's idle fiber, and IOManager::stopping.     *)

\* stopping() answered no: idle() goes on to epoll_wait; stop() on the caller's
\* thread enters run(), which makes the idle fiber.
GoOn(t) ==
    IF idleFiber[t] = "none"
    THEN Goto(t, "pick") /\ idleFiber' = [idleFiber EXCEPT ![t] = "live"]
    ELSE Goto(t, "epoll") /\ UNCHANGED idleFiber

\* stopping() reads the timers, the event count and the queue one by one.
NoTimer(t) ==
    /\ pc[t] = "timers"
    /\ IF timers = {} THEN Goto(t, "pending") /\ UNCHANGED idleFiber ELSE GoOn(t)
    /\ UNCHANGED <<queueVars, idle, ft, cbFiber, cbs, fiberVars, waitVars>>

NoPending(t) ==
    /\ pc[t] = "pending"
    /\ IF pending = 0 THEN Goto(t, "stopping") /\ UNCHANGED idleFiber ELSE GoOn(t)
    /\ UNCHANGED <<queueVars, idle, ft, cbFiber, cbs, fiberVars, waitVars>>

\* Mutant: stopping() waits for the idle threads too.
NoThread == stop /\ queue = <<>> /\ active = 0 /\ idle = 0

\* Scheduler::stopping, under m_mutex.
NoTask == stop /\ queue = <<>> /\ active = 0

\* When all three agree the idle fiber
\* ends, or stop() returns without running the caller's thread at all.
Stopping(t) ==
    /\ pc[t] = "stopping"
    /\ IF ~NoTask
       THEN GoOn(t) /\ UNCHANGED idle
       ELSE IF idleFiber[t] = "none"
       THEN Goto(t, "exited") /\ UNCHANGED <<idleFiber, idle>>
       ELSE /\ idleFiber' = [idleFiber EXCEPT ![t] = "term"]
            /\ idle' = idle - 1
            /\ Goto(t, "pick")
    /\ UNCHANGED <<queueVars, ft, cbFiber, cbs, fiberVars, waitVars>>

\* listExpiredCb takes the timers that are due, in some order.
ListExpiredCb(t) ==
    \E due \in SUBSET timers : \E s \in Orders(due) :
        /\ timers' = timers \ due
        /\ cbs' = [cbs EXCEPT ![t] = s]
        /\ Goto(t, IF s = <<>> THEN "events" ELSE "schedule")

\* epoll_wait returns, after its timeout of at most three seconds or for the
\* tickle pipe, whose byte is then read.
EpollWait(t) ==
    /\ pc[t] = "epoll"
    /\ edge' \in {edge, FALSE}
    /\ ListExpiredCb(t)
    /\ UNCHANGED <<queue, active, stop, idle, ft, cbFiber, idleFiber>>
    /\ UNCHANGED <<fiberVars, events, pending>>

\* schedule(cbs.begin(), cbs.end())
ScheduleCbs(t) ==
    /\ pc[t] = "schedule"
    /\ queue' = queue \o [i \in DOMAIN cbs[t] |-> CbTask(cbs[t][i])]
    /\ edge' = IF queue = <<>> THEN Tickled ELSE edge
    /\ cbs' = [cbs EXCEPT ![t] = <<>>]
    /\ Goto(t, "events")
    /\ UNCHANGED <<active, stop, idle, ft, cbFiber, idleFiber, fiberVars, waitVars>>

\* triggerEvent schedules the waiting fiber; the count follows.
TriggerEvent(t, f) ==
    /\ pc[t] = "events" /\ f \in events
    /\ events' = events \ {f}
    /\ Schedule(FiberTask(f, AnyThread))
    /\ Goto(t, "decrement")
    /\ UNCHANGED <<active, stop, idle, ft, cbFiber, idleFiber, cbs, fiberVars>>
    /\ UNCHANGED <<timers, pending>>

EventDone(t) ==
    /\ pc[t] = "decrement"
    /\ pending' = pending - 1
    /\ Goto(t, "events")
    /\ UNCHANGED <<queueVars, idle, ft, cbFiber, idleFiber, cbs, fiberVars>>
    /\ UNCHANGED <<timers, events>>

\* The idle fiber yields to run().
IdleOut(t) ==
    /\ pc[t] = "events"
    /\ idle' = idle - 1
    /\ Goto(t, "pick")
    /\ UNCHANGED <<queueVars, ft, cbFiber, idleFiber, cbs, fiberVars, waitVars>>

-----------------------------------------------------------------------------
RunStep(t) ==
    \/ Take(t) \/ TakeNothing(t) \/ TickleOthers(t)
    \/ SwapInFiber(t) \/ SwapInCb(t) \/ Nothing(t)
    \/ SwapOut(t) \/ Decrement(t) \/ Settle(t)

UserStep(t) ==
    \/ Sleep(t) \/ WaitEvent(t) \/ YieldToReady(t) \/ Spawn(t)
    \/ \E th \in Threads : SwitchTo(t, th)
    \/ Return(t) \/ WakeSleeper(t)

IdleStep(t) ==
    \/ NoTimer(t) \/ NoPending(t) \/ Stopping(t)
    \/ EpollWait(t) \/ ScheduleCbs(t) \/ EventDone(t) \/ IdleOut(t)
    \/ \E f \in Fibers : TriggerEvent(t, f)

Step(t) == RunStep(t) \/ UserStep(t) \/ IdleStep(t) \/ RootCall(t)

Submit ==
    \/ SubmitCb
    \/ \E f \in Fibers, th \in Threads \cup {AnyThread} : SubmitFiber(f, th)

\* stop() has joined every thread.
Terminated == (\A t \in Threads : pc[t] = "exited") /\ UNCHANGED vars

Next == Submit \/ StopCalled \/ (\E t \in Threads : Step(t)) \/ Terminated

Spec == Init /\ [][Next]_vars

\* A thread that can take a step takes one: the system schedules threads fairly
\* and epoll_wait returns after at most MAX_TIMEOUT.
LiveSpec == Spec /\ \A t \in Threads : WF_vars(Step(t))

\* User code that is resumed again and again returns at last; when threads keep
\* coming back to epoll_wait, some timer expires and some awaited event arrives.
UserFair ==
    /\ SF_vars(\E t \in Threads : Return(t))
    /\ SF_vars(\E t \in Threads, f \in Fibers : TriggerEvent(t, f))
    /\ SF_vars(\E t \in Threads : EpollWait(t) /\ timers' # timers)

-----------------------------------------------------------------------------
(* Properties.                                                             *)

\* Where run() has a task in hand, has resumed a fiber, asks stopping().
Taken   == {"tickle", "dispatch"}
Stacked == {"exec", "swapout", "back", "settle"}
Asking  == {"timers", "pending", "stopping"}

\* f's context is in use by thread t, or t has still to settle f's state.
OnCpu(t, f) == pc[t] \in Stacked /\ Cur(t) = f

\* A fiber is resumed by at most one thread at a time, although it is queued
\* again (by a timer, an event or itself) before it has left its stack:
\* run() passes over an entry whose fiber is EXEC.
FiberExclusive ==
    \A t, u \in Threads, f \in Fibers : OnCpu(t, f) /\ OnCpu(u, f) => t = u

\* The assertions of Fiber hold: swapIn is not called on a fiber that is EXEC,
\* and run() resets cb_fiber only when no one can still resume it.
FiberAsserts ==
    \A t \in Threads : pc[t] = "dispatch" =>
        /\ ft[t].fiber # None => state[ft[t].fiber] # "EXEC"
        /\ ft[t].cb # None /\ cbFiber[t] # None =>
              state[cbFiber[t]] \in {"TERM", "EXCEPT", "INIT"}

\* The fiber a task resumes, directly or through a sleep's callback.
Wakes(e) == IF e.fiber # None THEN e.fiber
            ELSE IF e.cb \in Fibers THEN e.cb ELSE None

\* The places from which fiber f is going to be resumed.
WakeUps(f) ==
    {<<"queue", i>> : i \in {k \in DOMAIN queue : Wakes(queue[k]) = f}}
    \cup {<<"timer">> : x \in timers \cap {f}}
    \cup {<<"event">> : x \in events \cap {f}}
    \cup {<<"taken", t>> : t \in {u \in Threads :
              pc[u] \in Taken /\ Wakes(ft[u]) = f}}
    \cup {<<"callback", t>> : t \in {u \in Threads :
              pc[u] = "exec" /\ job[Cur(u)] = f}}
    \cup UNION {{<<"expired", t, i>> : i \in {k \in DOMAIN cbs[t] : cbs[t][k] = f}} :
              t \in Threads}

\* f has work to do and is waiting for someone to resume it.
Suspended(f) ==
    /\ f \notin pool
    /\ \A t \in Threads : OnCpu(t, f) => pc[t] # "exec" /\ state[f] = "EXEC"
    /\ job[f] # None

\* Every suspended fiber has exactly one wake-up on its way and no other fiber
\* has any: no wake-up is lost and none is delivered twice, through the timer
\* set, the expired callbacks, the events and the run queue.
WakeOnce ==
    \A f \in Fibers : Cardinality(WakeUps(f)) = IF Suspended(f) THEN 1 ELSE 0

\* The threads between ++m_activeThreadCount and --m_activeThreadCount, the
\* threads inside their idle fiber, and those between an event and its count.
Busy == {t \in Threads : \/ pc[t] \in {"exec", "swapout", "back"}
                         \/ pc[t] \in Taken /\ ft[t] # NoEntry}
Idling == {t \in Threads : \/ pc[t] \in {"epoll", "schedule", "events", "decrement"}
                           \/ pc[t] \in Asking /\ idleFiber[t] # "none"}
Counting == {t \in Threads : pc[t] = "decrement"}

\* The counters that tickle() and stopping() trust are exact at every step.
CountersExact ==
    /\ active = Cardinality(Busy)
    /\ idle = Cardinality(Idling)
    /\ pending = Cardinality(events) + Cardinality(Counting)

\* When every thread has left run(), nothing is left to do: that is what
\* stopping() decides.
DrainedOnExit ==
    (\A t \in Threads : pc[t] = "exited") =>
        queue = <<>> /\ timers = {} /\ events = {}

\* A fiber is in the run queue, for any thread or for one that is in run().
Due(f) ==
    \E i \in DOMAIN queue :
        /\ queue[i].fiber = f
        /\ queue[i].thread = AnyThread \/ pc[queue[i].thread] \notin {"new", "exited"}

\* A fiber is queued for a thread that has left run().
Stranded == \E i \in DOMAIN queue : queue[i].thread # AnyThread /\ pc[queue[i].thread] = "exited"


\* After stop() every thread leaves run(), so that stop() returns from join,
\* provided that user code returns, timers expire and awaited events arrive, and
\* no fiber has switched to a thread that left run() too early.
StopCompletes == UserFair => (stop ~> Stranded \/ (\A t \in Threads : pc[t] = "exited"))

-----------------------------------------------------------------------------
(* The inductive invariant behind FiberExclusive, FiberAsserts and          *)
(* CountersExact: who owns a fiber.                                        *)

InQueue(f) == \E i \in DOMAIN queue : Wakes(queue[i]) = f

\* Thread t has a wake-up for f in hand: as the task it took, as the sleep
\* callback it is running, or among the callbacks that have expired.
Holds(t, f) ==
    \/ pc[t] \in Taken /\ Wakes(ft[t]) = f
    \/ pc[t] = "exec" /\ job[Cur(t)] = f
    \/ pc[t] = "schedule" /\ \E i \in DOMAIN cbs[t] : cbs[t][i] = f

\* Some wake-up for f is on its way.
Owed(f) == InQueue(f) \/ f \in timers \/ f \in events \/ \E t \in Threads : Holds(t, f)

\* The local variables of run() and idle() fit the place the thread is at.
Shape ==
    \A t \in Threads :
        /\ pc[t] \in Stacked => ft[t].cb = None /\ Cur(t) # None
        /\ pc[t] \notin Stacked \cup Taken => ft[t] = NoEntry
        /\ pc[t] # "schedule" => cbs[t] = <<>>
        /\ idleFiber[t] = "none" => pc[t] \in Asking \cup {"new", "exited"}
        /\ pc[t] = "new" => idleFiber[t] = "none"

\* No fiber has two wake-ups of one kind ...
QueueOnce ==
    \A i, j \in DOMAIN queue :
        Wakes(queue[i]) # None /\ Wakes(queue[i]) = Wakes(queue[j]) => i = j
ExpiredOnce ==
    \A t \in Threads : \A i, j \in DOMAIN cbs[t] : cbs[t][i] = cbs[t][j] => i = j
HeldOnce ==
    \A t, u \in Threads, f \in Fibers : Holds(t, f) /\ Holds(u, f) => t = u

\* ... nor of two.
KindsApart ==
    \A f \in Fibers :
        /\ InQueue(f) => f \notin timers /\ f \notin events
        /\ f \in timers => f \notin events
        /\ \A t \in Threads :
             Holds(t, f) => ~InQueue(f) /\ f \notin timers /\ f \notin events

\* A fiber on a thread is owed a wake-up only once it has yielded and until its
\* state is settled; a fiber that was taken to be resumed is not running.
OwedYielded ==
    \A t \in Threads, f \in Fibers :
        OnCpu(t, f) /\ Owed(f) => pc[t] # "exec" /\ state[f] = "EXEC"
RunningExec ==
    \A t \in Threads, f \in Fibers : OnCpu(t, f) /\ pc[t] = "exec" => state[f] = "EXEC"
TakenRests ==
    \A t \in Threads :
        pc[t] \in Taken /\ ft[t].fiber # None => state[ft[t].fiber] # "EXEC"

\* A thread's cb_fiber is its own, and unless it is running there no one can
\* resume it.
CbFiberRuns ==
    \A t, u \in Threads, f \in Fibers :
        OnCpu(t, f) /\ cbFiber[u] = f => t = u /\ ft[t].fiber = None
CbFiberOwn ==
    \A t, u \in Threads, f \in Fibers : cbFiber[t] = f /\ cbFiber[u] = f => t = u
CbFiberRests ==
    \A t \in Threads, f \in Fibers :
        cbFiber[t] = f /\ ~OnCpu(t, f) => state[f] = "INIT" /\ ~Owed(f)

\* No one refers to a destroyed fiber.
PoolFree ==
    \A f \in pool : ~Owed(f) /\ \A t \in Threads : ~OnCpu(t, f) /\ cbFiber[t] # f

\* A sleep's callback does not yield: while it is a fiber's function, some
\* thread is executing it.
WakerRuns ==
    \A f \in Fibers :
        job[f] \in Fibers => \E t \in Threads : OnCpu(t, f) /\ pc[t] = "exec"

\* Every fiber has one owner at a time: the pool of free ones, a thread that
\* runs it or keeps it as cb_fiber, or the one wake-up that will resume it.
Ownership ==
    /\ Shape /\ QueueOnce /\ ExpiredOnce /\ HeldOnce /\ KindsApart
    /\ OwedYielded /\ RunningExec /\ TakenRests /\ FiberExclusive
    /\ CbFiberRuns /\ CbFiberOwn /\ CbFiberRests /\ PoolFree /\ WakerRuns

=============================================================================
