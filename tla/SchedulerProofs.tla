-------------------------- MODULE SchedulerProofs --------------------------
(***************************************************************************)
(* Theorems about module Scheduler, for every set of threads and of        *)
(* fibers: types, the owner of a fiber and the counters.                   *)
(***************************************************************************)
EXTENDS SchedulerRun, SchedulerYield, SchedulerTypes

-----------------------------------------------------------------------------
(* The inductive invariant.                                                *)

\* Every step of run() preserves Ownership,
LEMMA RunOwnership ==
    ASSUME TypeOK, Ownership, NEW t \in Threads, RunStep(t)
    PROVE  Ownership'
  <1>1. CASE TakeNothing(t)
    <2>1. PICK l \in Taken : pc' = [pc EXCEPT ![t] = l]
      BY <1>1, Zenon DEF TakeNothing, Goto, Taken
    <2>2. UNCHANGED <<queue, ft, cbFiber, idleFiber, cbs, state, job, pool, timers, events>>
      BY <1>1 DEF TakeNothing, queueVars, fiberVars, waitVars
    <2>3. pc[t] = "pick" /\ l \in Pcs
      BY <1>1 DEF TakeNothing, Taken, Pcs
    <2>4. \A u \in Threads : pc'[u] = IF u = t THEN l ELSE pc[u]
      BY <2>1 DEF TypeOK
    <2>5. Shape'
      BY ONLY Ownership, t \in Threads, l \in Taken, <2>2, <2>3, <2>4
      DEF Ownership, Shape, Stacked, Taken, Asking, Cur
    <2> QED
      BY ONLY TypeOK, Ownership, t \in Threads, l \in Taken, <2>1, <2>2, <2>3, <2>5, PcStep, Zenon
      DEF Stacked, Taken
  <1>2. CASE TickleOthers(t) \/ SwapOut(t) \/ Decrement(t)
    <2>1. /\ UNCHANGED <<queue, ft, cbFiber, idleFiber, cbs, state, job, pool, timers, events>>
          /\ \/ pc[t] = "tickle" /\ Goto(t, "dispatch")
             \/ pc[t] = "swapout" /\ Goto(t, "back")
             \/ pc[t] = "back" /\ Goto(t, "settle")
      BY <1>2 DEF TickleOthers, SwapOut, Decrement, queueVars, fiberVars, waitVars
    <2>2. PICK l \in {"dispatch", "back", "settle"} :
            /\ pc' = [pc EXCEPT ![t] = l]
            /\ \/ pc[t] = "tickle" /\ l = "dispatch"
               \/ pc[t] \in {"swapout", "back"} /\ l \in {"back", "settle"}
      BY <2>1 DEF Goto
    <2>3. \A u \in Threads : pc'[u] = IF u = t THEN l ELSE pc[u]
      BY <2>2 DEF TypeOK
    <2>4. Shape'
      BY ONLY Ownership, t \in Threads, <2>1, <2>2, <2>3
      DEF Ownership, Shape, Stacked, Taken, Asking, Cur
    <2>5. l \in Pcs
      BY DEF Pcs
    <2> QED
      BY ONLY TypeOK, Ownership, t \in Threads, <2>1, <2>2, <2>4, <2>5, PcStep, Zenon
  <1> QED
    BY <1>1, <1>2, TakeOwnership, SwapInFiberOwnership, SwapInCbOwnership,
       NothingOwnership, SettleOwnership, Zenon DEF RunStep

\* every step of user code,
LEMMA UserOwnership ==
    ASSUME TypeOK, Ownership, NEW t \in Threads, UserStep(t)
    PROVE  Ownership'
  <1> DEFINE f == Cur(t)
  <1>1. pc[t] = "exec" => f \in Fibers /\ ~Owed(f)
    BY CurrentFiber DEF Stacked
  <1>2. CASE Sleep(t)
    BY <1>1, <1>2, YieldStep, Zenon
    DEF Sleep, Runs, Goto, fiberVars, Ownership, QueueOnce, InQueue
  <1>3. CASE WaitEvent(t)
    BY <1>1, <1>3, YieldStep, Zenon
    DEF WaitEvent, Runs, Goto, queueVars, fiberVars, Ownership, QueueOnce, InQueue
  <1>4. CASE \E th \in Threads : SwitchTo(t, th)
    <2>1. PICK th \in Threads : SwitchTo(t, th)
      BY <1>4
    <2>2. /\ pc[t] = "exec" /\ job[f] = User /\ Schedule(FiberTask(f, th))
          /\ pc' = [pc EXCEPT ![t] = "swapout"]
          /\ UNCHANGED <<ft, cbFiber, idleFiber, cbs, state, job, pool, timers, events>>
      BY <2>1 DEF SwitchTo, Runs, Goto, fiberVars, waitVars
    <2>3. /\ f \in Fibers /\ FiberTask(f, th) \in Task /\ Wakes(FiberTask(f, th)) = f
          /\ ~InQueue(f)
      BY <1>1, <2>2, TaskFacts DEF Owed
    <2>4. QueueOnce' /\ \A g \in Fibers : InQueue(g)' <=> InQueue(g) \/ g = f
      BY <2>2, <2>3, ScheduleWakes DEF TypeOK, Ownership
    <2> QED
      BY <2>2, <2>3, <2>4, YieldStep, Zenon
  <1>5. CASE YieldToReady(t)
    <2>1. pc[t] = "exec" /\ job[f] = User /\ f \in Fibers
      BY <1>1, <1>5 DEF YieldToReady, Runs
    <2>2. /\ state' = [state EXCEPT ![f] = "READY"]
          /\ pc' = [pc EXCEPT ![t] = "swapout"]
          /\ UNCHANGED <<queue, ft, cbFiber, idleFiber, cbs, job, pool, timers, events>>
      BY <1>5 DEF YieldToReady, Goto, queueVars, waitVars
    <2> QED
      BY <2>1, <2>2, LeaveStep, ConstantsAssumption, Zenon
  <1>6. CASE Return(t)
    <2>1. pc[t] = "exec" /\ job[f] = User /\ f \in Fibers
      BY <1>1, <1>6 DEF Return
    <2>2. PICK s \in Finished :
            /\ state' = [state EXCEPT ![f] = s]
            /\ job' = [job EXCEPT ![f] = IF s = "TERM" THEN None ELSE @]
      BY <1>6, Zenon DEF Return
    <2>3. /\ pc' = [pc EXCEPT ![t] = "swapout"]
          /\ UNCHANGED <<queue, ft, cbFiber, idleFiber, cbs, pool, timers, events>>
      BY <1>6 DEF Return, Goto, queueVars, waitVars
    <2>4. (\A g \in Fibers : g # f => job'[g] = job[g]) /\ job'[f] \notin Fibers
      BY <2>1, <2>2, ConstantsAssumption DEF TypeOK
    <2> QED
      BY <2>1, <2>2, <2>3, <2>4, LeaveStep, Zenon DEF Finished
  <1>7. CASE Spawn(t)
    BY <1>7, ScheduleCbOwnership DEF Spawn, fiberVars, waitVars
  <1> QED
    BY <1>2, <1>3, <1>4, <1>5, <1>6, <1>7, WakeSleeperOwnership, Zenon DEF UserStep

\* every step of idle(), stopping() and stop(),
LEMMA IdleOwnership ==
    ASSUME TypeOK, Ownership, NEW t \in Threads, IdleStep(t) \/ RootCall(t)
    PROVE  Ownership'
  <1> DEFINE Here  == Asking \cup {"new", "events", "decrement"}
             There == Asking \cup {"pick", "epoll", "events", "exited"}
             Moves == /\ UNCHANGED <<queue, ft, cbFiber, cbs, state, job, pool, timers, events>>
                      /\ \A u \in Threads : u # t => idleFiber'[u] = idleFiber[u]
                      /\ pc[t] \in Here
                      /\ \E l \in There :
                           /\ pc' = [pc EXCEPT ![t] = l]
                           /\ idleFiber'[t] = "none" =>
                                idleFiber[t] = "none" /\ l \in Asking \cup {"exited"}
  <1>1. idleFiber \in [Threads -> {"none", "live", "term"}]
    BY DEF TypeOK
  <1>2. /\ pc[t] \notin Asking \cup {"new", "exited"} => idleFiber[t] # "none"
    BY DEF Ownership, Shape
  <1>3. ASSUME Moves PROVE Ownership'
    <2>1. PICK l \in There :
            /\ pc' = [pc EXCEPT ![t] = l]
            /\ idleFiber'[t] = "none" => idleFiber[t] = "none" /\ l \in Asking \cup {"exited"}
      BY <1>3, Zenon
    <2>2. /\ UNCHANGED <<queue, ft, cbFiber, cbs, state, job, pool, timers, events>>
          /\ \A u \in Threads : u # t => idleFiber'[u] = idleFiber[u]
          /\ pc[t] \notin Stacked /\ pc[t] \notin Taken /\ pc[t] # "schedule"
          /\ l \notin Stacked /\ l \notin Taken /\ l # "schedule" /\ l # "new" /\ l \in Pcs
      BY <1>3 DEF Stacked, Taken, Asking, Pcs
    <2>3. \A u \in Threads : pc'[u] = IF u = t THEN l ELSE pc[u]
      BY SMTT(30), <2>1 DEF TypeOK
    <2>4. Shape'
      BY ONLY Ownership, t \in Threads, <2>1, <2>2, <2>3
      DEF Ownership, Shape, Stacked, Taken, Asking, Cur
    <2> QED
      BY ONLY TypeOK, Ownership, t \in Threads, <2>1, <2>2, <2>4, PcStep, Zenon
  <1>4. CASE NoTimer(t)
    BY <1>1, <1>3, <1>4 DEF NoTimer, GoOn, Goto, Asking, queueVars, fiberVars, waitVars
  <1>5. CASE NoPending(t)
    BY <1>1, <1>3, <1>5 DEF NoPending, GoOn, Goto, Asking, queueVars, fiberVars, waitVars
  <1>6. CASE Stopping(t)
    BY <1>1, <1>3, <1>6 DEF Stopping, GoOn, Goto, Asking, queueVars, fiberVars, waitVars
  <1>7. CASE EventDone(t)
    BY <1>2, <1>3, <1>7 DEF EventDone, Goto, Asking, queueVars, fiberVars
  <1>8. CASE IdleOut(t)
    BY <1>2, <1>3, <1>8 DEF IdleOut, Goto, Asking, queueVars, fiberVars, waitVars
  <1>9. CASE RootCall(t)
    BY <1>1, <1>3, <1>9 DEF RootCall, Goto, Asking, fiberVars, waitVars
  <1> HIDE DEF Moves
  <1> QED
    BY <1>4, <1>5, <1>6, <1>7, <1>8, <1>9, EpollWaitOwnership, ScheduleCbsOwnership,
       TriggerEventOwnership, Zenon DEF IdleStep

\* every step that leaves fibers, threads and wake-ups alone,
LEMMA StillOwnership ==
    ASSUME TypeOK, Ownership,
           UNCHANGED <<queue, pc, ft, cbFiber, idleFiber, cbs, state, job, pool, timers, events>>
    PROVE  Ownership'
  <1>1. /\ queue' = queue /\ pc' = pc /\ ft' = ft /\ cbFiber' = cbFiber
        /\ idleFiber' = idleFiber /\ cbs' = cbs /\ state' = state /\ job' = job
        /\ pool' = pool /\ timers' = timers /\ events' = events
    BY SMTT(30)
  <1>2. Shape' /\ QueueOnce' /\ ExpiredOnce'
    BY ONLY Ownership, <1>1 DEF Ownership, Shape, QueueOnce, ExpiredOnce, Cur
  <1>3. /\ \A f \in Fibers : InQueue(f)' <=> InQueue(f)
        /\ \A u \in Threads, f \in Fibers :
             (OnCpu(u, f)' <=> OnCpu(u, f)) /\ (Holds(u, f)' <=> Holds(u, f))
    BY ONLY <1>1 DEF InQueue, OnCpu, Holds, Cur
  <1>4. pool \subseteq Fibers
    BY DEF TypeOK
  <1> QED
    BY ONLY Ownership, <1>1, <1>2, <1>3, <1>4, QuietStep

\* and every step of a thread outside the pool.
LEMMA SubmitOwnership ==
    ASSUME TypeOK, Ownership, Submit \/ StopCalled
    PROVE  Ownership'
  <1>1. CASE SubmitCb
    BY <1>1, ScheduleCbOwnership DEF SubmitCb, fiberVars, waitVars
  <1>2. CASE StopCalled
    BY <1>2, StillOwnership DEF StopCalled, fiberVars, waitVars
  <1> QED
    BY <1>1, <1>2, SubmitFiberOwnership, Zenon DEF Submit

\* The inductive invariant: types, owners and counters together.  Ownership
\* needs the types, the types need the counters (they never go below zero), and
\* the counters need the owners (a fiber waits for one event at a time).
IInv == TypeOK /\ Ownership /\ CountersExact

\* The scheduler starts with every fiber free and every counter at zero.
LEMMA InitIInv == Init => IInv
  <1> SUFFICES ASSUME Init PROVE IInv
    OBVIOUS
  <1>1. TypeOK
    <2>1. /\ pc \in [Threads -> Pcs] /\ ft \in [Threads -> Task \cup {NoEntry}]
          /\ idleFiber \in [Threads -> {"none", "live", "term"}]
          /\ cbs \in [Threads -> Seq(Fibers)]
          /\ cbFiber \in [Threads -> Fibers \cup {None}]
      BY DEF Init, Pcs
    <2>2. /\ state \in [Fibers -> FiberState] /\ pool \subseteq Fibers
          /\ job \in [Fibers -> Fibers \cup {User, None}]
      BY DEF Init, FiberState
    <2>3. /\ queue \in Seq(Task) /\ timers \subseteq Fibers /\ events \subseteq Fibers
          /\ active \in Nat /\ idle \in Nat /\ pending \in Nat
      BY DEF Init
    <2>4. stop \in BOOLEAN /\ edge \in BOOLEAN
      BY Zenon DEF Init
    <2> QED
      BY ONLY <2>1, <2>2, <2>3, <2>4 DEF TypeOK
  <1>2. /\ queue = <<>> /\ timers = {} /\ events = {}
        /\ \A t \in Threads : /\ pc[t] \in {"new", "pick"} /\ ft[t] = NoEntry
                              /\ cbFiber[t] = None /\ cbs[t] = <<>>
                              /\ pc[t] = "new" <=> idleFiber[t] = "none"
        /\ \A f \in Fibers : job[f] = None
    BY DEF Init
  <1>3. /\ \A t \in Threads, f \in Fibers : ~OnCpu(t, f) /\ ~Holds(t, f)
        /\ \A f \in Fibers : ~InQueue(f)
    BY ONLY <1>2 DEF OnCpu, Holds, InQueue, Stacked, Taken
  <1>4. \A f \in Fibers : ~Owed(f)
    BY ONLY SMTT(30), <1>2, <1>3 DEF Owed
  <1>5. Shape /\ QueueOnce /\ ExpiredOnce /\ HeldOnce /\ KindsApart
    BY ONLY SMTT(30), <1>2, <1>3 DEF Shape, QueueOnce, ExpiredOnce, HeldOnce, KindsApart,
                           Stacked, Taken, Asking
  <1>6. OwedYielded /\ RunningExec /\ TakenRests /\ FiberExclusive
    BY ONLY <1>2, <1>3, <1>4 DEF OwedYielded, RunningExec, TakenRests, FiberExclusive, Taken
  <1>7. CbFiberRuns /\ CbFiberOwn /\ CbFiberRests
    BY ONLY SMTT(30), <1>2, <1>3, <1>4, ConstantsAssumption
    DEF CbFiberRuns, CbFiberOwn, CbFiberRests
  <1>8. PoolFree /\ WakerRuns
    BY ONLY TypeOK, <1>1, <1>2, <1>3, <1>4, ConstantsAssumption
    DEF PoolFree, WakerRuns, TypeOK
  <1>9. CountersExact
    <2>1. Busy = {} /\ Idling = {} /\ Counting = {}
      BY <1>2 DEF Busy, Idling, Counting, Taken, Asking
    <2> QED
      BY <2>1, <1>2, FS_EmptySet DEF Init, CountersExact
  <1> QED
    BY ONLY <1>1, <1>5, <1>6, <1>7, <1>8, <1>9 DEF IInv, Ownership

\* Every step of the scheduler preserves the invariant.
LEMMA NextIInv == IInv /\ [Next]_vars => IInv'
  <1> SUFFICES ASSUME IInv, [Next]_vars PROVE IInv'
    OBVIOUS
  <1>1. TypeOK /\ Ownership /\ CountersExact
    BY DEF IInv
  <1>2. CASE Submit \/ StopCalled
    BY <1>1, <1>2, SubmitTypes, SubmitOwnership DEF IInv
  <1>3. ASSUME NEW t \in Threads, Step(t)
        PROVE  IInv'
    <2>1. CountersExact' /\ active' \in Nat /\ idle' \in Nat /\ pending' \in Nat
      BY <1>1, <1>3, StepCounters
    <2>2. TypeOK'
      BY <1>1, <1>3, <2>1, RunTypes, UserTypes, IdleTypes, Zenon DEF Step
    <2>3. Ownership'
      BY <1>1, <1>3, RunOwnership, UserOwnership, IdleOwnership, Zenon DEF Step
    <2> QED
      BY <2>1, <2>2, <2>3 DEF IInv
  <1>4. CASE UNCHANGED vars
    <2>1. TypeOK'
      BY SMTT(30), <1>1, <1>4 DEF vars, TypeOK
    <2>2. CountersExact'
      BY <1>1, <1>4 DEF vars, CountersExact, Busy, Idling, Counting
    <2>3. Ownership'
      BY <1>1, <1>4, StillOwnership DEF vars
    <2> QED
      BY <2>1, <2>2, <2>3 DEF IInv
  <1> QED
    BY <1>2, <1>3, <1>4, Zenon DEF Next, Terminated

-----------------------------------------------------------------------------
(* Theorems.                                                               *)

\* The invariant holds in every reachable state.
THEOREM Invariance == Spec => []IInv
  BY InitIInv, NextIInv, PTL DEF Spec

\* Every variable keeps its type; in particular no counter goes below zero.
THEOREM TypeCorrect == Spec => []TypeOK
  <1>1. IInv => TypeOK
    BY DEF IInv
  <1> QED
    BY <1>1, Invariance, PTL

\* The wake-ups of a fiber and the threads that use it exclude one another.
THEOREM OneOwner == Spec => []Ownership
  <1>1. IInv => Ownership
    BY DEF IInv
  <1> QED
    BY <1>1, Invariance, PTL

\* No fiber is resumed by two threads at once, although schedule() may queue it
\* while it is still on its stack.
THEOREM Exclusion == Spec => []FiberExclusive
  <1>1. IInv => FiberExclusive
    BY DEF IInv, Ownership
  <1> QED
    BY <1>1, Invariance, PTL

\* The assertions in Fiber::swapIn and Fiber::reset never fail.
THEOREM AssertsHold == Spec => []FiberAsserts
  <1>1. IInv => FiberAsserts
    <2> SUFFICES ASSUME IInv, NEW t \in Threads, pc[t] = "dispatch"
                 PROVE  /\ ft[t].fiber # None => state[ft[t].fiber] # "EXEC"
                        /\ cbFiber[t] # None => state[cbFiber[t]] = "INIT"
      BY DEF FiberAsserts
    <2>1. ft[t].fiber # None => state[ft[t].fiber] # "EXEC"
      BY DEF IInv, Ownership, TakenRests, Taken
    <2>2. ASSUME cbFiber[t] # None PROVE state[cbFiber[t]] = "INIT"
      <3>1. cbFiber[t] \in Fibers
        BY <2>2 DEF IInv, TypeOK
      <3>2. ~OnCpu(t, cbFiber[t])
        BY DEF OnCpu, Stacked
      <3> QED
        BY <3>1, <3>2 DEF IInv, Ownership, CbFiberRests
    <2> QED
      BY <2>1, <2>2
  <1> QED
    BY <1>1, Invariance, PTL

\* m_activeThreadCount, m_idleThreadCount and m_pendingEventCount are exact
\* whenever tickle() or stopping() reads them.
THEOREM CountersAreExact == Spec => []CountersExact
  <1>1. IInv => CountersExact
    BY DEF IInv
  <1> QED
    BY <1>1, Invariance, PTL
=============================================================================
