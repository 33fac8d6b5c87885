--------------------------- MODULE SchedulerYield ---------------------------
(***************************************************************************)
(* Lemmas about module Scheduler: Ownership is preserved by the operations *)
(* of user code and by the idle loop.                                      *)
(***************************************************************************)
EXTENDS SchedulerWakes

\* By the user's fiber arranging its wake-up before it yields.
LEMMA YieldStep ==
    ASSUME TypeOK, Ownership, NEW t \in Threads, NEW f \in Fibers,
           f = Cur(t), pc[t] = "exec", job[f] = User,
           pc' = [pc EXCEPT ![t] = "swapout"],
           UNCHANGED <<ft, cbFiber, idleFiber, cbs, state, job, pool>>,
           QueueOnce',
           \/ /\ \A g \in Fibers : InQueue(g)' <=> InQueue(g) \/ g = f
              /\ timers' = timers /\ events' = events
           \/ /\ \A g \in Fibers : InQueue(g)' <=> InQueue(g)
              /\ timers' = timers \cup {f} /\ events' = events
           \/ /\ \A g \in Fibers : InQueue(g)' <=> InQueue(g)
              /\ timers' = timers /\ events' = events \cup {f}
    PROVE  Ownership'
  <1>0. /\ ft' = ft /\ cbFiber' = cbFiber /\ idleFiber' = idleFiber /\ cbs' = cbs
        /\ state' = state /\ job' = job /\ pool' = pool
        /\ t \in Threads /\ f \in Fibers /\ f = Cur(t) /\ pc[t] = "exec" /\ job[f] = User
    OBVIOUS
  <1>1. /\ OnCpu(t, f) /\ ~Owed(f) /\ state[f] = "EXEC" /\ f \notin pool
        /\ \A u \in Threads : OnCpu(u, f) => u = t
        /\ \A u \in Threads : cbFiber[u] = f => u = t
    BY CurrentFiber DEF Stacked
  <1>2. \A u \in Threads : pc'[u] = IF u = t THEN "swapout" ELSE pc[u]
    BY DEF TypeOK
  <1>3. \A u \in Threads, g \in Fibers : OnCpu(u, g)' <=> OnCpu(u, g)
    BY ONLY <1>0, <1>1, <1>2 DEF OnCpu, Cur, Stacked
  <1>4. \A u \in Threads, g \in Fibers : Holds(u, g)' <=> Holds(u, g)
    BY <1>2, ConstantsAssumption DEF Holds, Cur, Taken
  <1>5. \A g \in Fibers : Owed(g)' <=> Owed(g) \/ g = f
    BY <1>4 DEF Owed
  <1>6. Shape'
    BY ONLY Ownership, <1>0, <1>2 DEF Ownership, Shape, Stacked, Taken, Asking, Cur
  <1>7. ExpiredOnce'
    BY ONLY Ownership, <1>0 DEF Ownership, ExpiredOnce
  <1>8. HeldOnce' /\ FiberExclusive'
    BY ONLY Ownership, <1>0, <1>3, <1>4 DEF Ownership, HeldOnce, FiberExclusive
  <1>9. KindsApart'
    BY <1>1, <1>4 DEF Ownership, KindsApart, Owed
  <1>10. OwedYielded' /\ RunningExec' /\ TakenRests'
    <2>1. OwedYielded'
      BY ONLY Ownership, <1>0, <1>1, <1>2, <1>3, <1>5 DEF Ownership, OwedYielded
    <2>2. RunningExec' /\ TakenRests'
      BY ONLY Ownership, <1>0, <1>2, <1>3 DEF Ownership, RunningExec, TakenRests, Taken
    <2> QED
      BY <2>1, <2>2
  <1>11. CbFiberRuns' /\ CbFiberOwn' /\ CbFiberRests'
    <2>1. CbFiberRuns' /\ CbFiberOwn'
      BY ONLY Ownership, <1>0, <1>3 DEF Ownership, CbFiberRuns, CbFiberOwn
    <2>2. CbFiberRests'
      BY ONLY Ownership, <1>0, <1>1, <1>3, <1>5 DEF Ownership, CbFiberRests
    <2> QED
      BY <2>1, <2>2
  <1>12. PoolFree'
    BY ONLY Ownership, TypeOK, <1>0, <1>1, <1>3, <1>5 DEF Ownership, PoolFree, TypeOK
  <1>13. WakerRuns'
    BY ONLY Ownership, <1>0, <1>2, <1>3, ConstantsAssumption DEF Ownership, WakerRuns, OnCpu
  <1> QED
    BY ONLY QueueOnce', <1>6, <1>7, <1>8, <1>9, <1>10, <1>11, <1>12, <1>13 DEF Ownership

\* By the running fiber that yields READY or ends.
LEMMA LeaveStep ==
    ASSUME TypeOK, Ownership, NEW t \in Threads, NEW f \in Fibers,
           f = Cur(t), pc[t] = "exec", job[f] = User,
           NEW s \in {"READY", "TERM", "EXCEPT"},
           state' = [state EXCEPT ![f] = s],
           \A g \in Fibers : g # f => job'[g] = job[g], job'[f] \notin Fibers,
           pc' = [pc EXCEPT ![t] = "swapout"],
           UNCHANGED <<queue, ft, cbFiber, idleFiber, cbs, pool, timers, events>>
    PROVE  Ownership'
  <1>0. /\ queue' = queue /\ timers' = timers /\ events' = events /\ ft' = ft
        /\ cbFiber' = cbFiber /\ idleFiber' = idleFiber /\ cbs' = cbs /\ pool' = pool
        /\ \A g \in Fibers : g # f => job'[g] = job[g]
        /\ job'[f] \notin Fibers
        /\ t \in Threads /\ f \in Fibers /\ f = Cur(t) /\ pc[t] = "exec"
        /\ s \in {"READY", "TERM", "EXCEPT"}
    OBVIOUS
  <1>1. /\ OnCpu(t, f) /\ ~Owed(f) /\ f \notin pool
        /\ \A u \in Threads : OnCpu(u, f) => u = t
        /\ \A u \in Threads : cbFiber[u] = f => u = t
    BY CurrentFiber DEF Stacked
  <1>2. /\ \A u \in Threads : pc'[u] = IF u = t THEN "swapout" ELSE pc[u]
        /\ \A g \in Fibers : state'[g] = IF g = f THEN s ELSE state[g]
    BY DEF TypeOK
  <1>3. \A u \in Threads, g \in Fibers : OnCpu(u, g)' <=> OnCpu(u, g)
    BY <1>2 DEF OnCpu, Cur, Stacked
  <1>4. \A u \in Threads, g \in Fibers : Holds(u, g)' <=> Holds(u, g)
    <2> TAKE u \in Threads, g \in Fibers
    <2>1. CASE u = t
      BY <2>1, <1>2, ConstantsAssumption DEF Holds, Cur, Taken
    <2>2. CASE u # t /\ pc[u] = "exec"
      <3>1. Cur(u) \in Fibers /\ Cur(u) # f /\ Cur(u)' = Cur(u)
        BY <2>2, <1>1, CurrentFiber DEF Stacked, Cur
      <3> QED
        BY ONLY SMTT(30), <3>1, <2>2, <1>0, <1>2 DEF Holds, Taken
    <2>3. CASE u # t /\ pc[u] # "exec"
      BY ONLY u \in Threads, <2>3, <1>0, <1>2 DEF Holds, Taken
    <2> QED
      BY <2>1, <2>2, <2>3
  <1>5. \A g \in Fibers : InQueue(g)' <=> InQueue(g)
    BY DEF InQueue
  <1>6. \A g \in Fibers : Owed(g)' <=> Owed(g)
    BY ONLY <1>0, <1>4, <1>5 DEF Owed
  <1>7. Shape'
    BY ONLY Ownership, <1>0, <1>2 DEF Ownership, Shape, Stacked, Taken, Asking, Cur
  <1>8. QueueOnce' /\ ExpiredOnce' /\ HeldOnce' /\ FiberExclusive'
    BY ONLY Ownership, <1>0, <1>3, <1>4 DEF Ownership, QueueOnce, ExpiredOnce, HeldOnce, FiberExclusive
  <1>9. KindsApart'
    BY ONLY Ownership, <1>0, <1>4, <1>5 DEF Ownership, KindsApart
  <1>10. OwedYielded' /\ RunningExec' /\ TakenRests'
    <2>1. OwedYielded'
      BY ONLY Ownership, <1>0, <1>1, <1>2, <1>3, <1>6 DEF Ownership, OwedYielded
    <2>2. RunningExec'
      BY ONLY SMTT(30), Ownership, <1>0, <1>1, <1>2, <1>3 DEF Ownership, RunningExec
    <2>3. TakenRests'
      BY ONLY Ownership, TypeOK, <1>0, <1>2, TakenFibers DEF Ownership, TakenRests, Taken
    <2> QED
      BY <2>1, <2>2, <2>3
  <1>11. CbFiberRuns' /\ CbFiberOwn' /\ CbFiberRests'
    <2>1. CbFiberRuns' /\ CbFiberOwn'
      BY ONLY Ownership, <1>0, <1>3 DEF Ownership, CbFiberRuns, CbFiberOwn
    <2>2. CbFiberRests'
      BY ONLY Ownership, <1>0, <1>1, <1>2, <1>3, <1>6 DEF Ownership, CbFiberRests
    <2> QED
      BY <2>1, <2>2
  <1>12. PoolFree'
    BY ONLY SMTT(30), Ownership, TypeOK, <1>0, <1>3, <1>6 DEF Ownership, PoolFree, TypeOK
  <1>13. WakerRuns'
    BY ONLY Ownership, <1>0, <1>2, <1>3 DEF Ownership, WakerRuns, OnCpu
  <1> QED
    BY ONLY <1>7, <1>8, <1>9, <1>10, <1>11, <1>12, <1>13 DEF Ownership

\* By a sleep's callback, which passes the wake-up it holds on to the queue.
LEMMA WakeSleeperOwnership ==
    ASSUME TypeOK, Ownership, NEW t \in Threads, WakeSleeper(t)
    PROVE  Ownership'
  <1> DEFINE f == Cur(t)
             h == job[f]
  <1>1. /\ f \in Fibers /\ OnCpu(t, f) /\ ~Owed(f) /\ f \notin pool
        /\ \A u \in Threads : OnCpu(u, f) => u = t
        /\ \A u \in Threads : cbFiber[u] = f => u = t
    BY CurrentFiber DEF WakeSleeper, Stacked
  <1>2. /\ pc[t] = "exec" /\ h \in Fibers /\ Schedule(FiberTask(h, AnyThread))
        /\ UNCHANGED <<ft, cbFiber, idleFiber, cbs, pool, timers, events>>
    BY DEF WakeSleeper, waitVars
  <1>3. /\ \A u \in Threads : pc'[u] = IF u = t THEN "swapout" ELSE pc[u]
        /\ \A g \in Fibers : state'[g] = IF g = f THEN "TERM" ELSE state[g]
        /\ \A g \in Fibers : job'[g] = IF g = f THEN None ELSE job[g]
    BY <1>1 DEF WakeSleeper, Goto, TypeOK
  <1>4. Holds(t, h)
    BY SMTT(30), <1>2 DEF Holds
  <1>5. ~InQueue(h) /\ h \notin timers /\ h \notin events /\ h # f
        /\ \A u \in Threads : u # t => ~Holds(u, h)
    BY ONLY Ownership, <1>1, <1>2, <1>4 DEF Ownership, KindsApart, HeldOnce, Owed
  <1> HIDE DEF f, h
  <1>6. /\ FiberTask(h, AnyThread) \in Task
        /\ Wakes(FiberTask(h, AnyThread)) = h
    BY <1>2, TaskFacts
  <1>7. QueueOnce' /\ \A g \in Fibers : InQueue(g)' <=> InQueue(g) \/ g = h
    BY <1>2, <1>5, <1>6, ScheduleWakes DEF TypeOK, Ownership
  <1>8. \A u \in Threads, g \in Fibers : OnCpu(u, g)' <=> OnCpu(u, g)
    BY <1>2, <1>3 DEF OnCpu, Cur, Stacked
  <1>9. \A u \in Threads, g \in Fibers : Holds(u, g)' <=> Holds(u, g) /\ u # t
    <2> TAKE u \in Threads, g \in Fibers
    <2>1. CASE u = t
      BY <2>1, <1>3 DEF Holds, Taken
    <2>2. CASE u # t /\ pc[u] = "exec"
      <3>1. Cur(u) \in Fibers /\ Cur(u) # f /\ Cur(u)' = Cur(u)
        BY <2>2, <1>1, <1>2, CurrentFiber DEF Stacked, Cur
      <3> QED
        BY <3>1, <2>2, <1>2, <1>3, SMTT(30) DEF Holds, Taken
    <2>3. CASE u # t /\ pc[u] # "exec"
      BY <2>3, <1>2, <1>3 DEF Holds, Taken
    <2> QED
      BY <2>1, <2>2, <2>3
  <1>10. \A g \in Fibers : Owed(g)' => Owed(g)
    BY <1>2, <1>4, <1>7, <1>9 DEF Owed
  <1>11. Shape'
    BY ONLY SMTT(30), Ownership, <1>2, <1>3 DEF Ownership, Shape, Stacked, Taken, Asking, Cur
  <1>12. ExpiredOnce' /\ HeldOnce' /\ FiberExclusive'
    BY ONLY Ownership, <1>2, <1>8, <1>9 DEF Ownership, ExpiredOnce, HeldOnce, FiberExclusive
  <1>13. KindsApart'
    BY ONLY Ownership, <1>2, <1>5, <1>7, <1>9 DEF Ownership, KindsApart
  <1>14. OwedYielded' /\ RunningExec' /\ TakenRests'
    <2>1. OwedYielded'
      BY ONLY Ownership, <1>1, <1>3, <1>8, <1>10 DEF Ownership, OwedYielded
    <2>2. RunningExec'
      BY ONLY Ownership, <1>1, <1>3, <1>8 DEF Ownership, RunningExec
    <2>3. TakenRests'
      BY ONLY Ownership, TypeOK, <1>2, <1>3, TakenFibers DEF Ownership, TakenRests, Taken
    <2> QED
      BY <2>1, <2>2, <2>3
  <1>15. CbFiberRuns' /\ CbFiberOwn' /\ CbFiberRests'
    <2>1. CbFiberRuns' /\ CbFiberOwn'
      BY ONLY Ownership, <1>2, <1>8 DEF Ownership, CbFiberRuns, CbFiberOwn
    <2>2. CbFiberRests'
      BY ONLY Ownership, <1>1, <1>2, <1>3, <1>8, <1>10 DEF Ownership, CbFiberRests
    <2> QED
      BY <2>1, <2>2
  <1>16. PoolFree'
    BY ONLY Ownership, TypeOK, <1>2, <1>8, <1>10, SMTT(30) DEF Ownership, PoolFree, TypeOK
  <1>17. WakerRuns'
    BY ONLY Ownership, <1>1, <1>2, <1>3, <1>8, ConstantsAssumption DEF f, Ownership, WakerRuns, OnCpu
  <1> QED
    BY ONLY <1>7, <1>11, <1>12, <1>13, <1>14, <1>15, <1>16, <1>17 DEF Ownership

\* By the expiry of timers, whose wake-ups pass to the thread in epoll_wait.
LEMMA EpollWaitOwnership ==
    ASSUME TypeOK, Ownership, NEW t \in Threads, EpollWait(t)
    PROVE  Ownership'
  <1>1. PICK due \in SUBSET timers : \E s \in Orders(due) :
          /\ timers' = timers \ due
          /\ cbs' = [cbs EXCEPT ![t] = s]
          /\ Goto(t, IF s = <<>> THEN "events" ELSE "schedule")
    BY Zenon DEF EpollWait, ListExpiredCb
  <1>2. PICK s \in Orders(due) :
          /\ timers' = timers \ due
          /\ cbs' = [cbs EXCEPT ![t] = s]
          /\ Goto(t, IF s = <<>> THEN "events" ELSE "schedule")
    BY <1>1, Zenon
  <1>3. /\ t \in Threads /\ pc[t] = "epoll"
        /\ UNCHANGED <<queue, ft, cbFiber, idleFiber, state, job, pool, events>>
    BY DEF EpollWait, fiberVars
  <1>4. /\ \A u \in Threads : u # t => pc'[u] = pc[u]
        /\ pc'[t] = IF s = <<>> THEN "events" ELSE "schedule"
        /\ \A u \in Threads : cbs'[u] = IF u = t THEN s ELSE cbs[u]
        /\ timers' = timers \ due /\ due \subseteq timers /\ pool \subseteq Fibers
    BY <1>1, <1>2 DEF TypeOK, Goto
  <1>5. /\ \A i \in DOMAIN s : s[i] \in timers /\ s[i] \notin timers'
        /\ \A i, j \in DOMAIN s : s[i] = s[j] => i = j
    BY ONLY s \in Orders(due), <1>4 DEF Orders
  <1>6. \A u \in Threads, g \in Fibers : OnCpu(u, g)' <=> OnCpu(u, g)
    BY ONLY <1>3, <1>4 DEF OnCpu, Cur, Stacked
  <1>7. \A u \in Threads, g \in Fibers :
          Holds(u, g)' => Holds(u, g) \/ (u = t /\ g \in timers /\ g \notin timers')
    BY ONLY <1>3, <1>4, <1>5 DEF Holds, Cur, Taken
  <1>8. QueueOnce' /\ \A g \in Fibers : InQueue(g)' <=> InQueue(g)
    BY ONLY Ownership, <1>3 DEF InQueue, Ownership, QueueOnce
  <1>9. \A g \in Fibers : Owed(g)' => Owed(g)
    BY ONLY <1>3, <1>4, <1>7, <1>8 DEF Owed
  <1>10. Shape'
    BY ONLY Ownership, <1>3, <1>4 DEF Ownership, Shape, Stacked, Taken, Asking, Cur
  <1>11. ExpiredOnce'
    BY ONLY SMTT(30), Ownership, <1>4, <1>5 DEF Ownership, ExpiredOnce
  <1>12. HeldOnce' /\ KindsApart'
    BY ONLY Ownership, <1>3, <1>4, <1>7, <1>8, SMTT(30) DEF Ownership, HeldOnce, KindsApart
  <1>13. /\ \A u \in Threads : pc'[u] = "exec" <=> pc[u] = "exec"
         /\ \A u \in Threads : pc'[u] \in Taken /\ ft'[u].fiber # None =>
               pc[u] \in Taken /\ ft[u].fiber = ft'[u].fiber
         /\ \A u \in Threads, g \in Fibers : OnCpu(u, g)' => ft'[u].fiber = ft[u].fiber
    BY ONLY SMTT(30), <1>3, <1>4 DEF Taken
  <1> QED
    BY ONLY Ownership, <1>3, <1>4, <1>6, <1>8, <1>9, <1>10, <1>11, <1>12, <1>13, FrameStep, Zenon

\* By queueing the callbacks of the expired timers.
LEMMA ScheduleCbsOwnership ==
    ASSUME TypeOK, Ownership, NEW t \in Threads, ScheduleCbs(t)
    PROVE  Ownership'
  <1> DEFINE c == cbs[t]
  <1>1. /\ t \in Threads /\ pc[t] = "schedule"
        /\ UNCHANGED <<ft, cbFiber, idleFiber, state, job, pool, timers, events>>
        /\ queue' = queue \o [i \in DOMAIN c |-> CbTask(c[i])]
    BY DEF ScheduleCbs, fiberVars, waitVars
  <1>2. /\ \A u \in Threads : pc'[u] = IF u = t THEN "events" ELSE pc[u]
        /\ \A u \in Threads : cbs'[u] = IF u = t THEN <<>> ELSE cbs[u]
        /\ c \in Seq(Fibers) /\ queue \in Seq(Task) /\ pool \subseteq Fibers
    BY DEF ScheduleCbs, Goto, TypeOK
  <1>3. \A i \in DOMAIN c : c[i] \in Fibers /\ Holds(t, c[i])
    BY <1>1, <1>2, ElementFacts DEF Holds
  <1> HIDE DEF c
  <1>4. \A i \in DOMAIN c : ~InQueue(c[i])
    BY ONLY Ownership, t \in Threads, <1>3 DEF Ownership, KindsApart
  <1>5. QueueOnce /\ \A i, j \in DOMAIN c : c[i] = c[j] => i = j
    BY DEF c, Ownership, ExpiredOnce
  <1>6. /\ QueueOnce'
        /\ \A g \in Fibers : InQueue(g)' <=> InQueue(g) \/ \E i \in DOMAIN c : c[i] = g
    BY ONLY <1>1, <1>2, <1>4, <1>5, BatchWakes, Zenon
  <1>7. \A g \in Fibers : InQueue(g)' <=> InQueue(g) \/ Holds(t, g)
    BY ONLY <1>1, <1>6 DEF c, Holds, Taken
  <1>8. \A u \in Threads, g \in Fibers : OnCpu(u, g)' <=> OnCpu(u, g)
    BY ONLY <1>1, <1>2 DEF OnCpu, Cur, Stacked
  <1>9. \A u \in Threads, g \in Fibers : Holds(u, g)' <=> Holds(u, g) /\ u # t
    BY ONLY SMTT(30), <1>1, <1>2 DEF Holds, Cur, Taken
  <1>10. \A g \in Fibers : Owed(g)' => Owed(g)
    BY ONLY <1>1, <1>7, <1>9 DEF Owed
  <1>11. Shape' /\ ExpiredOnce'
    <2>1. /\ Shape /\ pc[t] = "schedule"
          /\ ft' = ft /\ cbFiber' = cbFiber /\ idleFiber' = idleFiber
      BY <1>1 DEF Ownership
    <2>2. Shape'
      BY ONLY <2>1, <1>2 DEF Shape, Stacked, Taken, Asking, Cur
    <2>3. ExpiredOnce'
      BY ONLY Ownership, <1>2 DEF Ownership, ExpiredOnce
    <2> QED
      BY <2>2, <2>3
  <1>12. HeldOnce' /\ KindsApart'
    BY ONLY SMTT(30), Ownership, <1>1, <1>7, <1>9 DEF Ownership, HeldOnce, KindsApart
  <1>13. /\ \A u \in Threads : pc'[u] = "exec" <=> pc[u] = "exec"
         /\ \A u \in Threads : pc'[u] \in Taken /\ ft'[u].fiber # None =>
               pc[u] \in Taken /\ ft[u].fiber = ft'[u].fiber
         /\ \A u \in Threads, g \in Fibers : OnCpu(u, g)' => ft'[u].fiber = ft[u].fiber
    BY ONLY <1>1, <1>2, SMTT(30) DEF Taken
  <1> QED
    BY ONLY Ownership, <1>1, <1>2, <1>6, <1>8, <1>10, <1>11, <1>12, <1>13, FrameStep

\* By an event, whose wake-up passes to the queue.
LEMMA TriggerEventOwnership ==
    ASSUME TypeOK, Ownership, NEW t \in Threads, NEW f \in Fibers, TriggerEvent(t, f)
    PROVE  Ownership'
  <1>1. /\ t \in Threads /\ f \in Fibers /\ pc[t] = "events" /\ f \in events
        /\ events' = events \ {f} /\ Schedule(FiberTask(f, AnyThread))
        /\ UNCHANGED <<ft, cbFiber, idleFiber, cbs, state, job, pool, timers>>
    BY DEF TriggerEvent, fiberVars
  <1>2. /\ \A u \in Threads : pc'[u] = IF u = t THEN "decrement" ELSE pc[u]
        /\ queue \in Seq(Task) /\ edge \in BOOLEAN /\ idle \in Nat /\ pool \subseteq Fibers
    BY DEF TriggerEvent, Goto, TypeOK
  <1>3. FiberTask(f, AnyThread) \in Task /\ Wakes(FiberTask(f, AnyThread)) = f
    BY TaskFacts
  <1>4. ~InQueue(f) /\ f \notin timers /\ \A u \in Threads : ~Holds(u, f)
    BY ONLY Ownership, <1>1, SMTT(30) DEF Ownership, KindsApart
  <1>5. QueueOnce' /\ \A g \in Fibers : InQueue(g)' <=> InQueue(g) \/ g = f
    <2>1. QueueOnce
      BY SMTT(30) DEF Ownership
    <2> QED
      BY ONLY <2>1, <1>1, <1>2, <1>3, <1>4, ScheduleWakes
  <1>6. \A u \in Threads, g \in Fibers : OnCpu(u, g)' <=> OnCpu(u, g)
    BY ONLY <1>1, <1>2, SMTT(30) DEF OnCpu, Cur, Stacked
  <1>7. \A u \in Threads, g \in Fibers : Holds(u, g)' <=> Holds(u, g)
    BY ONLY <1>1, <1>2 DEF Holds, Cur, Taken
  <1>8. \A g \in Fibers : Owed(g)' => Owed(g)
    BY ONLY <1>1, <1>5, <1>7 DEF Owed
  <1>9. Shape' /\ ExpiredOnce'
    <2>1. /\ Shape /\ ExpiredOnce /\ pc[t] = "events"
          /\ UNCHANGED <<ft, cbFiber, idleFiber, cbs>>
      BY <1>1, SMTT(30) DEF Ownership
    <2>2. Shape'
      BY ONLY <2>1, <1>2 DEF Shape, Stacked, Taken, Asking, Cur
    <2>3. ExpiredOnce'
      BY ONLY <2>1 DEF ExpiredOnce
    <2> QED
      BY <2>2, <2>3
  <1>10. HeldOnce' /\ KindsApart'
    BY ONLY SMTT(30), Ownership, <1>1, <1>4, <1>5, <1>7 DEF Ownership, HeldOnce, KindsApart
  <1>11. /\ \A u \in Threads : pc'[u] = "exec" <=> pc[u] = "exec"
         /\ \A u \in Threads : pc'[u] \in Taken /\ ft'[u].fiber # None =>
               pc[u] \in Taken /\ ft[u].fiber = ft'[u].fiber
         /\ \A u \in Threads, g \in Fibers : OnCpu(u, g)' => ft'[u].fiber = ft[u].fiber
    BY ONLY <1>1, <1>2 DEF Taken
  <1> QED
    BY ONLY Ownership, <1>1, <1>2, <1>5, <1>6, <1>8, <1>9, <1>10, <1>11, FrameStep

=============================================================================
