---------------------------- MODULE SchedulerRun ----------------------------
(***************************************************************************)
(* Lemmas about module Scheduler: Ownership is preserved by the steps of   *)
(* Scheduler::run that take, resume and settle a fiber.                    *)
(***************************************************************************)
EXTENDS SchedulerWakes

\* The task that run() takes is off the queue and in hand.
LEMMA TakeOwnership ==
    ASSUME TypeOK, Ownership, NEW t \in Threads, Take(t)
    PROVE  Ownership'
  <1>1. PICK i \in DOMAIN queue :
          /\ Runnable(t, queue[i])
          /\ ft' = [ft EXCEPT ![t] = queue[i]]
          /\ queue' = Erase(queue, i)
          /\ \E l \in Taken : pc' = [pc EXCEPT ![t] = l]
    BY Zenon DEF Take, Goto, Taken
  <1>2. PICK l \in Taken : pc' = [pc EXCEPT ![t] = l]
    BY <1>1, Zenon
  <1>3. /\ pc[t] = "pick" /\ t \in Threads
        /\ UNCHANGED <<cbFiber, idleFiber, cbs, state, job, pool, timers, events>>
    BY DEF Take, fiberVars, waitVars
  <1>4. /\ queue[i] \in Task /\ Wakes(queue[i]) \in Fibers \cup {None}
        /\ queue[i].fiber # None => Wakes(queue[i]) = queue[i].fiber
    BY TakenFibers, TaskFacts DEF Wakes
  <1> DEFINE h == Wakes(queue[i])
  <1>5. QueueOnce' /\ \A g \in Fibers : InQueue(g)' <=> InQueue(g) /\ h # g
    BY <1>1, TakeWakes DEF TypeOK, Ownership
  <1>6. h \in Fibers => InQueue(h)
    BY DEF InQueue
  <1>7. /\ \A u \in Threads : pc'[u] = IF u = t THEN l ELSE pc[u]
        /\ \A u \in Threads : ft'[u] = IF u = t THEN queue[i] ELSE ft[u]
    BY <1>1, <1>2 DEF TypeOK
  <1>8. queue[i].fiber # None => state[queue[i].fiber] # "EXEC"
    BY <1>1 DEF Runnable
  <1> HIDE DEF h
  <1>9. \A u \in Threads, g \in Fibers : OnCpu(u, g)' <=> OnCpu(u, g)
    BY <1>2, <1>3, <1>7 DEF OnCpu, Cur, Stacked, Taken
  <1>10. \A u \in Threads, g \in Fibers :
           Holds(u, g)' <=> Holds(u, g) \/ (u = t /\ g = h)
    BY <1>2, <1>3, <1>7 DEF h, Holds, Cur, Taken
  <1>11. \A g \in Fibers : Owed(g)' <=> Owed(g)
    BY <1>3, <1>5, <1>6, <1>10 DEF Owed
  <1>12. Shape'
    BY ONLY Ownership, <1>2, <1>3, <1>7 DEF Ownership, Shape, Stacked, Taken, Asking, Cur
  <1>13. ExpiredOnce' /\ FiberExclusive'
    BY ONLY Ownership, <1>3, <1>9 DEF Ownership, ExpiredOnce, FiberExclusive
  <1>14. HeldOnce' /\ KindsApart'
    BY ONLY Ownership, <1>3, <1>5, <1>6, <1>10 DEF Ownership, HeldOnce, KindsApart
  <1>15. OwedYielded' /\ RunningExec' /\ TakenRests'
    <2>1. OwedYielded' /\ RunningExec'
      BY ONLY Ownership, <1>2, <1>3, <1>7, <1>9, <1>11 DEF Ownership, OwedYielded, RunningExec, Taken
    <2>2. TakenRests'
      BY ONLY Ownership, <1>3, <1>7, <1>8 DEF Ownership, TakenRests
    <2> QED
      BY <2>1, <2>2
  <1>16. CbFiberRuns' /\ CbFiberOwn' /\ CbFiberRests'
    <2>1. CbFiberRuns'
      BY ONLY Ownership, <1>3, <1>7, <1>9 DEF Ownership, CbFiberRuns, OnCpu, Stacked
    <2>2. CbFiberOwn' /\ CbFiberRests'
      BY ONLY Ownership, <1>3, <1>9, <1>11 DEF Ownership, CbFiberOwn, CbFiberRests
    <2> QED
      BY <2>1, <2>2
  <1>17. PoolFree'
    BY ONLY Ownership, TypeOK, <1>3, <1>9, <1>11 DEF Ownership, PoolFree, TypeOK
  <1>18. WakerRuns'
    BY ONLY Ownership, <1>2, <1>3, <1>7, <1>9 DEF Ownership, WakerRuns, Taken
  <1> QED
    BY ONLY <1>5, <1>12, <1>13, <1>14, <1>15, <1>16, <1>17, <1>18 DEF Ownership

\* The fiber of the task in hand is resumed: it was owed to this thread only.
LEMMA SwapInFiberOwnership ==
    ASSUME TypeOK, Ownership, NEW t \in Threads, SwapInFiber(t)
    PROVE  Ownership'
  <1> DEFINE f == ft[t].fiber
  <1>1. /\ t \in Threads /\ pc[t] = "dispatch" /\ f # None
        /\ UNCHANGED <<queue, ft, cbFiber, idleFiber, cbs, job, pool, timers, events>>
    BY DEF SwapInFiber, queueVars, waitVars
  <1>2. f \in Fibers /\ Wakes(ft[t]) = f /\ ft[t].cb = None
    <2>1. ft[t] \in Task
      BY <1>1 DEF TypeOK, NoEntry
    <2> QED
      BY <2>1, <1>1 DEF Task, Wakes
  <1>3. /\ \A u \in Threads : pc'[u] = IF u = t THEN "exec" ELSE pc[u]
        /\ \A g \in Fibers : state'[g] = IF g = f THEN "EXEC" ELSE state[g]
    BY <1>2 DEF SwapInFiber, Goto, TypeOK
  <1> HIDE DEF f
  <1>4. Holds(t, f) /\ Owed(f) /\ state[f] # "EXEC"
    BY ONLY Ownership, <1>1, <1>2 DEF f, Holds, Owed, Taken, Ownership, TakenRests
  <1>5. /\ ~InQueue(f) /\ f \notin timers /\ f \notin events
        /\ \A u \in Threads : Holds(u, f) => u = t
    BY ONLY Ownership, <1>1, <1>2, <1>4 DEF Ownership, KindsApart, HeldOnce
  <1>6. \A u \in Threads : ~OnCpu(u, f)
    BY ONLY Ownership, <1>2, <1>4 DEF Ownership, OwedYielded
  <1>7. f \notin pool /\ \A u \in Threads : cbFiber[u] # f
    BY ONLY Ownership, <1>2, <1>4, <1>6 DEF Ownership, CbFiberRests, PoolFree
  <1>8. job[f] \notin Fibers
    BY ONLY Ownership, <1>2, <1>6 DEF Ownership, WakerRuns
  <1>9. \A u \in Threads, g \in Fibers :
          OnCpu(u, g)' <=> OnCpu(u, g) \/ (u = t /\ g = f)
    BY ONLY <1>1, <1>3 DEF f, OnCpu, Cur, Stacked
  <1>10. \A u \in Threads, g \in Fibers : Holds(u, g)' <=> Holds(u, g) /\ u # t
    BY ONLY <1>1, <1>3, <1>8 DEF f, Holds, Cur, Taken
  <1>11. \A g \in Fibers : Holds(t, g) => g = f
    BY ONLY <1>1, <1>2 DEF Holds, Taken
  <1>12. \A g \in Fibers : Owed(g)' <=> Owed(g) /\ g # f
    <2>1. \A g \in Fibers : InQueue(g)' <=> InQueue(g)
      BY ONLY <1>1 DEF InQueue
    <2> QED
      BY ONLY <2>1, <1>1, <1>2, <1>5, <1>10, <1>11 DEF Owed
  <1>13. Shape'
    BY ONLY Ownership, <1>1, <1>2, <1>3
    DEF f, Ownership, Shape, Stacked, Taken, Asking, Cur
  <1>14. QueueOnce' /\ ExpiredOnce'
    BY ONLY Ownership, <1>1 DEF Ownership, QueueOnce, ExpiredOnce
  <1>15. HeldOnce' /\ KindsApart'
    BY ONLY Ownership, <1>1, <1>10 DEF Ownership, HeldOnce, KindsApart, InQueue
  <1>16. OwedYielded' /\ RunningExec'
    BY ONLY Ownership, <1>1, <1>3, <1>6, <1>9, <1>12
    DEF Ownership, OwedYielded, RunningExec, OnCpu, Stacked
  <1>17. TakenRests'
    <2>1. \A u \in Threads : pc[u] \in Taken /\ ft[u].fiber = f => u = t
      BY ONLY <1>1, <1>2, <1>5 DEF Holds, Wakes
    <2> QED
      BY ONLY Ownership, TypeOK, <2>1, <1>1, <1>3, TakenFibers
      DEF Ownership, TakenRests, Taken
  <1>18. FiberExclusive'
    BY ONLY Ownership, <1>6, <1>9 DEF Ownership, FiberExclusive
  <1>19. CbFiberRuns' /\ CbFiberOwn'
    BY ONLY Ownership, <1>1, <1>7, <1>9 DEF Ownership, CbFiberRuns, CbFiberOwn
  <1>20. CbFiberRests'
    BY ONLY Ownership, <1>1, <1>3, <1>7, <1>9, <1>12 DEF Ownership, CbFiberRests
  <1>21. PoolFree'
    BY ONLY Ownership, TypeOK, <1>1, <1>7, <1>9, <1>12 DEF Ownership, PoolFree, TypeOK
  <1>22. WakerRuns'
    BY ONLY Ownership, <1>1, <1>3, <1>9 DEF Ownership, WakerRuns
  <1> QED
    BY ONLY <1>13, <1>14, <1>15, <1>16, <1>17, <1>18, <1>19, <1>20, <1>21, <1>22
    DEF Ownership

\* The callback in hand is resumed in a fiber that no one else can resume.
LEMMA SwapInCbOwnership ==
    ASSUME TypeOK, Ownership, NEW t \in Threads, SwapInCb(t)
    PROVE  Ownership'
  <1> DEFINE c == ft[t].cb
  <1>1. PICK f \in IF cbFiber[t] # None THEN {cbFiber[t]} ELSE pool :
          /\ cbFiber' = [cbFiber EXCEPT ![t] = f]
          /\ pool' = pool \ {f}
          /\ job' = [job EXCEPT ![f] = c]
          /\ state' = [state EXCEPT ![f] = "EXEC"]
    BY Zenon DEF SwapInCb
  <1>2. /\ t \in Threads /\ pc[t] = "dispatch" /\ ft[t].fiber = None
        /\ UNCHANGED <<queue, idleFiber, cbs, timers, events>>
    BY DEF SwapInCb, queueVars, waitVars
  <1>3. f \in Fibers /\ (f \in pool \/ cbFiber[t] = f)
    BY <1>1 DEF TypeOK
  <1>4. /\ \A u \in Threads : pc'[u] = IF u = t THEN "exec" ELSE pc[u]
        /\ \A u \in Threads : ft'[u] = IF u = t THEN NoEntry ELSE ft[u]
        /\ \A u \in Threads : cbFiber'[u] = IF u = t THEN f ELSE cbFiber[u]
        /\ \A g \in Fibers : state'[g] = IF g = f THEN "EXEC" ELSE state[g]
        /\ \A g \in Fibers : job'[g] = IF g = f THEN c ELSE job[g]
        /\ pool' = pool \ {f} /\ pool \subseteq Fibers
    BY <1>1, <1>3 DEF SwapInCb, Goto, TypeOK
  <1>5. \A g \in Fibers : Wakes(ft[t]) = g <=> c = g
    BY ONLY <1>2, ConstantsAssumption DEF Wakes
  <1>6. NoEntry.fiber = None /\ NoEntry.cb = None
    BY DEF NoEntry
  <1> HIDE DEF c
  <1>7. /\ ~Owed(f)
        /\ \A u \in Threads : ~OnCpu(u, f) /\ (cbFiber[u] = f => u = t)
    <2>1. CASE f \in pool
      BY ONLY Ownership, <2>1 DEF Ownership, PoolFree
    <2>2. CASE cbFiber[t] = f
      <3>1. \A u \in Threads : ~OnCpu(u, f)
        BY ONLY Ownership, <2>2, <1>2, <1>3 DEF Ownership, CbFiberRuns, OnCpu, Stacked
      <3> QED
        BY ONLY Ownership, <2>2, <3>1, <1>2, <1>3 DEF Ownership, CbFiberOwn, CbFiberRests
    <2> QED
      BY <2>1, <2>2, <1>3
  <1>8. \A u \in Threads, g \in Fibers :
          OnCpu(u, g)' <=> OnCpu(u, g) \/ (u = t /\ g = f)
    BY ONLY <1>2, <1>4, <1>6 DEF OnCpu, Cur, Stacked
  <1>9. \A u \in Threads, g \in Fibers : Holds(u, g)' <=> Holds(u, g)
    <2> TAKE u \in Threads, g \in Fibers
    <2>1. CASE u = t
      BY ONLY <2>1, g \in Fibers, <1>2, <1>3, <1>4, <1>5, <1>6 DEF Holds, Cur, Taken
    <2>2. CASE u # t /\ pc[u] = "exec"
      <3>1. Cur(u) \in Fibers /\ OnCpu(u, Cur(u))
        BY <2>2, CurrentFiber DEF Stacked
      <3>2. Cur(u)' = Cur(u)
        BY ONLY u \in Threads, <2>2, <1>4 DEF Cur
      <3> QED
        BY ONLY u \in Threads, <2>2, <3>1, <3>2, <1>4, <1>7 DEF Holds, Taken
    <2>3. CASE u # t /\ pc[u] # "exec"
      BY ONLY u \in Threads, <2>3, <1>2, <1>4 DEF Holds, Taken
    <2> QED
      BY <2>1, <2>2, <2>3
  <1>10. \A g \in Fibers : InQueue(g)' <=> InQueue(g)
    BY ONLY <1>2 DEF InQueue
  <1>11. \A g \in Fibers : Owed(g)' <=> Owed(g)
    BY ONLY <1>2, <1>9, <1>10 DEF Owed
  <1>12. Shape'
    BY ONLY SMTT(30), Ownership, <1>2, <1>3, <1>4, <1>6, ConstantsAssumption
    DEF Ownership, Shape, Stacked, Taken, Asking, Cur
  <1>13. QueueOnce' /\ ExpiredOnce'
    BY ONLY Ownership, <1>2 DEF Ownership, QueueOnce, ExpiredOnce
  <1>14. HeldOnce' /\ KindsApart'
    BY ONLY Ownership, <1>2, <1>9, <1>10 DEF Ownership, HeldOnce, KindsApart
  <1>15. OwedYielded'
    BY ONLY Ownership, <1>2, <1>4, <1>7, <1>8, <1>11 DEF Ownership, OwedYielded, OnCpu, Stacked
  <1>16. RunningExec'
    BY ONLY Ownership, <1>2, <1>4, <1>7, <1>8 DEF Ownership, RunningExec, OnCpu, Stacked
  <1>17. TakenRests'
    <2>1. \A u \in Threads : pc[u] \in Taken /\ ft[u].fiber = f => f = None
      BY ONLY <1>7 DEF Owed, Holds, Wakes
    <2> QED
      BY ONLY Ownership, TypeOK, <2>1, <1>4, <1>6, TakenFibers
      DEF Ownership, TakenRests, Taken
  <1>18. FiberExclusive'
    BY ONLY SMTT(30), Ownership, <1>7, <1>8 DEF Ownership, FiberExclusive
  <1>19. CbFiberRuns'
    BY ONLY SMTT(30), Ownership, <1>2, <1>4, <1>6, <1>7, <1>8
    DEF Ownership, CbFiberRuns, OnCpu, Stacked
  <1>20. CbFiberOwn' /\ CbFiberRests'
    BY ONLY Ownership, <1>4, <1>7, <1>8, <1>11, SMTT(30) DEF Ownership, CbFiberOwn, CbFiberRests
  <1>21. PoolFree'
    BY ONLY Ownership, <1>4, <1>8, <1>11 DEF Ownership, PoolFree
  <1>22. WakerRuns'
    BY ONLY Ownership, <1>2, <1>4, <1>8 DEF Ownership, WakerRuns
  <1> QED
    BY ONLY <1>12, <1>13, <1>14, <1>15, <1>16, <1>17, <1>18, <1>19, <1>20, <1>21, <1>22
    DEF Ownership

\* A task whose fiber has finished is dropped, or the thread had none.
LEMMA NothingOwnership ==
    ASSUME TypeOK, Ownership, NEW t \in Threads, Nothing(t)
    PROVE  Ownership'
  <1>1. /\ t \in Threads /\ pc[t] = "dispatch"
        /\ UNCHANGED <<queue, cbFiber, idleFiber, cbs, state, job, pool, timers, events>>
    BY DEF Nothing, fiberVars, waitVars
  <1>2. /\ \A u \in Threads : u # t => pc'[u] = pc[u]
        /\ pc'[t] \in {"pick", "exited", "timers"}
        /\ \A u \in Threads : ft'[u] = IF u = t THEN NoEntry ELSE ft[u]
    BY DEF Nothing, Goto, TypeOK
  <1>3. NoEntry.fiber = None /\ NoEntry.cb = None
    BY DEF NoEntry
  <1>4. Shape'
    BY ONLY Ownership, <1>1, <1>2, <1>3 DEF Ownership, Shape, Stacked, Taken, Asking, Cur
  <1>5. QueueOnce' /\ ExpiredOnce' /\ \A f \in Fibers : InQueue(f)' => InQueue(f)
    BY ONLY Ownership, <1>1 DEF Ownership, QueueOnce, ExpiredOnce, InQueue
  <1>6. \A u \in Threads, f \in Fibers : OnCpu(u, f)' <=> OnCpu(u, f)
    BY ONLY <1>1, <1>2 DEF OnCpu, Cur, Stacked
  <1>7. \A u \in Threads, f \in Fibers : Holds(u, f)' => Holds(u, f)
    BY ONLY <1>1, <1>2 DEF Holds, Cur, Taken
  <1>8. /\ \A u \in Threads : pc'[u] = "exec" <=> pc[u] = "exec"
        /\ \A u \in Threads : pc'[u] \in Taken /\ ft'[u].fiber # None =>
               pc[u] \in Taken /\ ft[u].fiber = ft'[u].fiber
        /\ \A u \in Threads, f \in Fibers : OnCpu(u, f)' => ft'[u].fiber = ft[u].fiber
    BY ONLY <1>1, <1>2, <1>3 DEF Taken, OnCpu, Stacked
  <1>9. pool \subseteq Fibers
    BY DEF TypeOK
  <1> QED
    BY ONLY Ownership, <1>1, <1>4, <1>5, <1>6, <1>7, <1>8, <1>9, QuietStep

\* The fiber that came back is queued again, kept as cb_fiber, or let go.
LEMMA SettleOwnership ==
    ASSUME TypeOK, Ownership, NEW t \in Threads, Settle(t)
    PROVE  Ownership'
  <1> DEFINE f == Cur(t)
  <1>1. /\ t \in Threads /\ pc[t] = "settle" /\ UNCHANGED <<idleFiber, cbs, timers, events>>
    BY DEF Settle, waitVars
  <1>2. /\ f \in Fibers /\ OnCpu(t, f) /\ f \notin pool
        /\ \A u \in Threads : OnCpu(u, f) => u = t
        /\ \A u \in Threads : u # t => cbFiber[u] # f
        /\ cbFiber[t] = f <=> ft[t].fiber = None
        /\ state[f] # "EXEC" => ~Owed(f)
    BY <1>1, CurrentFiber DEF Stacked
  <1>3. /\ \A u \in Threads : pc'[u] = IF u = t THEN "pick" ELSE pc[u]
        /\ \A u \in Threads : ft'[u] = IF u = t THEN NoEntry ELSE ft[u]
    BY DEF Settle, Goto, TypeOK
  <1>4. /\ \A u \in Threads : u # t => cbFiber'[u] = cbFiber[u]
        /\ cbFiber'[t] = IF ft[t].fiber = None /\ state[f] \notin Finished
                         THEN None ELSE cbFiber[t]
    BY SMTT(30) DEF Settle, ReleaseCb, TypeOK
  <1>5. /\ \A g \in Fibers : g # f => state'[g] = state[g] /\ job'[g] = job[g]
        /\ state'[f] # "EXEC" /\ (state[f] \in Finished => state'[f] = "INIT")
        /\ job'[f] \in {job[f], None}
    BY SMTT(30), <1>2 DEF Settle, TypeOK, Finished
  <1>6. /\ pool \subseteq Fibers
        /\ \A g \in pool' : g \in pool \/ (g = f /\ state[f] \in Finished /\ ft[t].fiber # None)
    BY DEF Settle, TypeOK
  <1>7. /\ QueueOnce'
        /\ \A g \in Fibers : InQueue(g)' <=> InQueue(g) \/ (state[f] = "READY" /\ g = f)
    <2>1. CASE state[f] = "READY"
      <3>1. Schedule(FiberTask(f, AnyThread))
        BY SMTT(30), <2>1 DEF Settle, Requeue
      <3>2. FiberTask(f, AnyThread) \in Task /\ Wakes(FiberTask(f, AnyThread)) = f
        BY <1>2, TaskFacts
      <3>3. ~InQueue(f)
        BY <2>1, <1>2 DEF Owed
      <3>4. queue \in Seq(Task) /\ edge \in BOOLEAN /\ idle \in Nat /\ QueueOnce
        BY DEF TypeOK, Ownership
      <3> QED
        BY ONLY SMTT(30), <2>1, <3>1, <3>2, <3>3, <3>4, ScheduleWakes
    <2>2. CASE state[f] # "READY"
      <3>1. queue' = queue
        BY SMTT(30), <2>2 DEF Settle, Requeue
      <3> QED
        BY ONLY Ownership, <2>2, <3>1 DEF InQueue, Ownership, QueueOnce
    <2> QED
      BY <2>1, <2>2
  <1>8. NoEntry.fiber = None /\ NoEntry.cb = None
    BY DEF NoEntry
  <1> HIDE DEF f
  <1>9. \A u \in Threads, g \in Fibers : OnCpu(u, g)' <=> OnCpu(u, g) /\ u # t
    BY ONLY <1>1, <1>3, <1>4 DEF OnCpu, Cur, Stacked
  <1>10. \A u \in Threads, g \in Fibers : Holds(u, g)' <=> Holds(u, g)
    <2> TAKE u \in Threads, g \in Fibers
    <2>1. CASE u = t
      BY ONLY SMTT(30), <2>1, <1>1, <1>3 DEF Holds, Taken
    <2>2. CASE u # t /\ pc[u] = "exec"
      <3>1. Cur(u) \in Fibers /\ OnCpu(u, Cur(u))
        BY <2>2, CurrentFiber DEF Stacked
      <3>2. Cur(u)' = Cur(u)
        BY ONLY SMTT(30), u \in Threads, <2>2, <1>3, <1>4 DEF Cur
      <3> QED
        BY ONLY SMTT(30), u \in Threads, <2>2, <3>1, <3>2, <1>2, <1>3, <1>5 DEF Holds, Taken
    <2>3. CASE u # t /\ pc[u] # "exec"
      BY ONLY u \in Threads, <2>3, <1>1, <1>3 DEF Holds, Taken
    <2> QED
      BY <2>1, <2>2, <2>3
  <1>11. \A g \in Fibers : Owed(g)' <=> Owed(g) \/ (state[f] = "READY" /\ g = f)
    BY ONLY SMTT(30), <1>1, <1>7, <1>10 DEF Owed
  <1>12. Shape'
    BY ONLY SMTT(30), Ownership, <1>1, <1>3, <1>4, <1>8
    DEF Ownership, Shape, Stacked, Taken, Asking, Cur
  <1>13. ExpiredOnce' /\ HeldOnce'
    BY ONLY Ownership, <1>1, <1>10 DEF Ownership, ExpiredOnce, HeldOnce
  <1>14. KindsApart'
    <2>1. state[f] = "READY" => ~Owed(f)
      BY SMTT(30), <1>2
    <2> QED
      BY ONLY Ownership, <2>1, <1>1, <1>7, <1>10 DEF Ownership, KindsApart, Owed
  <1>15. OwedYielded' /\ RunningExec'
    BY ONLY SMTT(30), Ownership, <1>2, <1>3, <1>5, <1>9, <1>11
    DEF Ownership, OwedYielded, RunningExec
  <1>16. TakenRests'
    BY ONLY Ownership, TypeOK, <1>3, <1>5, <1>8, TakenFibers
    DEF Ownership, TakenRests, Taken
  <1>17. FiberExclusive'
    BY ONLY Ownership, <1>9, SMTT(30) DEF Ownership, FiberExclusive
  <1>18. CbFiberRuns' /\ CbFiberOwn'
    <2>1. \A u \in Threads, g \in Fibers : cbFiber'[u] = g => cbFiber[u] = g
      BY ONLY <1>1, <1>4, ConstantsAssumption, SMTT(30)
    <2>2. CbFiberRuns /\ CbFiberOwn
      BY ONLY Ownership DEF Ownership
    <2>3. CbFiberOwn'
      BY ONLY <2>1, <2>2 DEF CbFiberOwn
    <2>4. \A u \in Threads : u # t => ft'[u].fiber = ft[u].fiber
      BY ONLY <1>3
    <2>5. CbFiberRuns'
      BY ONLY <2>1, <2>2, <2>4, <1>9 DEF CbFiberRuns
    <2> QED
      BY ONLY <2>3, <2>5
  <1>19. CbFiberRests'
    <2> SUFFICES ASSUME NEW u \in Threads, NEW g \in Fibers, cbFiber'[u] = g, ~OnCpu(u, g)'
                 PROVE  state'[g] = "INIT" /\ ~Owed(g)'
      BY SMTT(30) DEF CbFiberRests
    <2>1. cbFiber[u] = g
      BY ONLY SMTT(30), u \in Threads, g \in Fibers, cbFiber'[u] = g, <1>1, <1>4,
              ConstantsAssumption
    <2>2. CASE g = f
      <3>1. u = t /\ state[f] \in Finished
        BY ONLY SMTT(30), u \in Threads, g \in Fibers, cbFiber'[u] = g, <2>1, <2>2, <1>2, <1>4,
                ConstantsAssumption
      <3> QED
        BY ONLY SMTT(30), <3>1, <2>2, <1>2, <1>5, <1>11 DEF Finished
    <2>3. CASE g # f
      <3>1. ~OnCpu(u, g)
        <4>1. OnCpu(t, g) => g = f
          BY DEF f, OnCpu
        <4> QED
          BY <4>1, <2>3, <1>9
      <3> QED
        BY ONLY Ownership, u \in Threads, g \in Fibers, <3>1, <2>1, <2>3, <1>5, <1>11
        DEF Ownership, CbFiberRests
    <2> QED
      BY <2>2, <2>3, Zenon
  <1>20. PoolFree'
    <2> SUFFICES ASSUME NEW g \in pool'
                 PROVE  ~Owed(g)' /\ \A u \in Threads : ~OnCpu(u, g)' /\ cbFiber'[u] # g
      BY SMTT(30) DEF PoolFree
    <2>1. CASE g \in pool
      BY ONLY Ownership, <2>1, <1>1, <1>2, <1>4, <1>6, <1>9, <1>11, ConstantsAssumption, SMTT(30)
      DEF Ownership, PoolFree
    <2>2. CASE g = f /\ state[f] \in Finished /\ ft[t].fiber # None
      BY ONLY <2>2, <1>1, <1>2, <1>4, <1>9, <1>11, Zenon DEF Finished
    <2> QED
      BY <2>1, <2>2, <1>6
  <1>21. WakerRuns'
    <2> SUFFICES ASSUME NEW g \in Fibers, job'[g] \in Fibers
                 PROVE  \E u \in Threads : OnCpu(u, g)' /\ pc'[u] = "exec"
      BY Zenon DEF WakerRuns
    <2>1. WakerRuns
      BY DEF Ownership
    <2>2. job[f] \notin Fibers
      BY ONLY <2>1, <1>1, <1>2 DEF WakerRuns
    <2>3. g # f /\ job'[g] = job[g]
      BY ONLY g \in Fibers, job'[g] \in Fibers, <2>2, <1>5, ConstantsAssumption, SMTT(30)
    <2>4. PICK u \in Threads : OnCpu(u, g) /\ pc[u] = "exec"
      BY ONLY g \in Fibers, job'[g] \in Fibers, <2>1, <2>3, Zenon DEF WakerRuns
    <2>5. u # t
      BY ONLY <2>4, <1>1
    <2> QED
      BY ONLY g \in Fibers, u \in Threads, <2>4, <2>5, <1>3, <1>9, Zenon
  <1> QED
    BY ONLY <1>7, <1>12, <1>13, <1>14, <1>15, <1>16, <1>17, <1>18, <1>19, <1>20, <1>21
    DEF Ownership

=============================================================================
