---------------------------- MODULE WorkerGroup ----------------------------
(***************************************************************************)
(* WorkerGroup (worker.cc): at most m_batchSize callbacks at a time, by a  *)
(* FiberSemaphore with that many permits. Fibers call schedule(), one of   *)
(* them waitAll(); the callbacks run in fibers of the scheduler.           *)
(***************************************************************************)
EXTENDS FiberSemaphore

CONSTANTS Jobs,      \* the callbacks handed in
          Waiter     \* the fiber that calls waitAll()

NoJob == "none"

ASSUME WorkerAssumption == Waiter \in Fibers /\ Permits > 0 /\ NoJob \notin Jobs

VARIABLES job,       \* the state of each callback
          hand,      \* the callback a fiber in schedule() hands in
          finish,    \* m_finish
          left       \* how often waitAll() has still to call wait()

groupVars == <<semVars, job, hand, finish, left>>

GroupInit ==
    /\ SemInit
    /\ job = [j \in Jobs |-> "new"]
    /\ hand = [f \in Fibers |-> NoJob]
    /\ finish = FALSE
    /\ left = 0

\* schedule(): first m_sem.wait() ...
Schedule(f, j) ==
    /\ f # Waiter \/ ~finish
    /\ hand[f] = NoJob /\ job[j] = "new"
    /\ Wait(f)
    /\ hand' = [hand EXCEPT ![f] = j]
    /\ job' = [job EXCEPT ![j] = "asked"]
    /\ UNCHANGED <<finish, left>>

\* Mutant: the callback is queued before the fiber has its permit.
SubmitFirst(f) ==
    /\ hand[f] # NoJob
    /\ job' = [job EXCEPT ![hand[f]] = "queued"]
    /\ hand' = [hand EXCEPT ![f] = NoJob]
    /\ UNCHANGED <<semVars, finish, left>>

\* ... and once it has returned, m_scheduler->schedule(doWork).
Submit(f) ==
    /\ hand[f] # NoJob /\ place[f] = "run"
    /\ job' = [job EXCEPT ![hand[f]] = "queued"]
    /\ hand' = [hand EXCEPT ![f] = NoJob]
    /\ UNCHANGED <<semVars, finish, left>>

\* doWork(): the callback starts, returns or throws; an exception ends the
\* fiber before m_sem.notify().
Begin(j) ==
    /\ job[j] = "queued"
    /\ job' = [job EXCEPT ![j] = "runs"]
    /\ UNCHANGED <<semVars, hand, finish, left>>

Ends(j) ==
    /\ job[j] = "runs"
    /\ \E e \in {"returned", "thrown"} : job' = [job EXCEPT ![j] = e]
    /\ UNCHANGED <<semVars, hand, finish, left>>

\* Mutant: no permit is given back once waitAll() was called.
KeepsPermit(j) ==
    /\ job[j] = "returned"
    /\ IF finish THEN UNCHANGED semVars ELSE Notify
    /\ job' = [job EXCEPT ![j] = "done"]
    /\ UNCHANGED <<hand, finish, left>>

GivesBack(j) ==
    /\ job[j] = "returned"
    /\ Notify
    /\ job' = [job EXCEPT ![j] = "done"]
    /\ UNCHANGED <<hand, finish, left>>

\* waitAll(): the first call takes every permit, one by one.
WaitAll ==
    /\ ~finish /\ hand[Waiter] = NoJob /\ place[Waiter] = "run"
    /\ finish' = TRUE
    /\ left' = Permits
    /\ UNCHANGED <<semVars, job, hand>>

\* Mutant: the loop runs once too seldom.
WaitOneShort ==
    /\ left > 1
    /\ Wait(Waiter)
    /\ left' = IF left = 2 THEN 0 ELSE left - 1
    /\ UNCHANGED <<job, hand, finish>>

WaitOne ==
    /\ left > 0
    /\ Wait(Waiter)
    /\ left' = left - 1
    /\ UNCHANGED <<job, hand, finish>>

Fiber(f) == (Yield(f) \/ Resume(f)) /\ UNCHANGED <<job, hand, finish, left>>

Runs ==
    \/ \E f \in Fibers : Fiber(f) \/ Submit(f)
    \/ \E j \in Jobs : Begin(j) \/ Ends(j) \/ GivesBack(j)
    \/ WaitOne

GroupNext == Runs \/ WaitAll \/ \E f \in Fibers, j \in Jobs : Schedule(f, j)

\* Fibers that can run do run (QueuedRuns of Scheduler).
GroupFair ==
    /\ \A f \in Fibers : WF_groupVars(Fiber(f) \/ Submit(f))
    /\ \A j \in Jobs : WF_groupVars(Begin(j) \/ Ends(j) \/ GivesBack(j))
    /\ WF_groupVars(WaitOne)

-----------------------------------------------------------------------------
Working == {j \in Jobs : job[j] \in {"queued", "runs", "returned", "thrown"}}

Returned == finish /\ left = 0 /\ place[Waiter] = "run"

\* Never more than m_batchSize callbacks are queued or running, whoever
\* calls schedule() (one that threw occupies its place for ever), and when
\* waitAll() returns there is none.
BatchBound == Cardinality(Working) <= Permits /\ (Returned => Working = {})

Thrown == {j \in Jobs : job[j] = "thrown"}

\* A callback that throws takes its permit with it. waitAll() returns unless one
\* threw, and until it is called every schedule() returns as long as fewer
\* than m_batchSize did: what is left of the batch goes on.
GroupServes ==
    GroupFair =>
        /\ finish ~> Returned \/ Thrown # {}
        /\ \A f \in Fibers :
             hand[f] # NoJob ~> hand[f] = NoJob \/ finish \/ Cardinality(Thrown) = Permits
=============================================================================
