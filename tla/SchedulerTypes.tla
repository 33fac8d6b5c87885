--------------------------- MODULE SchedulerTypes ---------------------------
(***************************************************************************)
(* Lemmas about module Scheduler: the counters stay exact and the          *)
(* variables in their types.                                               *)
(***************************************************************************)
EXTENDS SchedulerWakes, FiniteSetTheorems

-----------------------------------------------------------------------------
(* The counters.                                                           *)

\* Two sets that differ at most in one element.
LEMMA SetChange ==
    ASSUME NEW A, NEW B, NEW x, IsFiniteSet(A), A \ {x} = B \ {x}
    PROVE  /\ IsFiniteSet(B) /\ Cardinality(A) \in Nat /\ Cardinality(B) \in Nat
           /\ x \in B /\ x \notin A => Cardinality(B) = Cardinality(A) + 1
           /\ x \notin B /\ x \in A => Cardinality(B) = Cardinality(A) - 1
           /\ (x \in A <=> x \in B) => Cardinality(B) = Cardinality(A)
  <1>1. CASE x \in B /\ x \notin A
    <2>1. B = A \cup {x}
      BY <1>1
    <2> QED
      BY <2>1, <1>1, FS_AddElement, FS_CardinalityType
  <1>2. CASE x \notin B /\ x \in A
    <2>1. B = A \ {x}
      BY <1>2
    <2> QED
      BY <2>1, <1>2, FS_RemoveElement, FS_CardinalityType
  <1>3. CASE x \in A <=> x \in B
    <2>1. A = B
      BY <1>3
    <2> QED
      BY <2>1, FS_CardinalityType
  <1> QED
    BY <1>1, <1>2, <1>3

\* The sets that the counters count are finite.
LEMMA CountedFinite ==
    ASSUME TypeOK
    PROVE  /\ IsFiniteSet(Busy) /\ IsFiniteSet(Idling) /\ IsFiniteSet(Counting)
           /\ IsFiniteSet(events)
  <1>1. Busy \subseteq Threads /\ Idling \subseteq Threads /\ Counting \subseteq Threads
    BY DEF Busy, Idling, Counting
  <1>2. events \subseteq Fibers
    BY DEF TypeOK
  <1> QED
    BY <1>1, <1>2, ConstantsAssumption, FS_Subset

\* What a step of thread t does to m_activeThreadCount and m_idleThreadCount:
\* each follows t's entering or leaving the set it counts.
Tallied(t) ==
    /\ \A u \in Threads : u # t =>
           pc'[u] = pc[u] /\ ft'[u] = ft[u] /\ idleFiber'[u] = idleFiber[u]
    /\ t \in Busy' /\ t \notin Busy => active' = active + 1
    /\ t \notin Busy' /\ t \in Busy => active' = active - 1
    /\ (t \in Busy <=> t \in Busy') => active' = active
    /\ t \in Idling' /\ t \notin Idling => idle' = idle + 1
    /\ t \notin Idling' /\ t \in Idling => idle' = idle - 1
    /\ (t \in Idling <=> t \in Idling') => idle' = idle

\* Then both counters stay exact.
LEMMA TalliedCounts ==
    ASSUME TypeOK, CountersExact, NEW t \in Threads, Tallied(t)
    PROVE  /\ active' \in Nat /\ active' = Cardinality(Busy')
           /\ idle' \in Nat /\ idle' = Cardinality(Idling')
           /\ Counting \ {t} = Counting' \ {t}
  <1>1. /\ Busy \ {t} = Busy' \ {t} /\ Idling \ {t} = Idling' \ {t}
        /\ Counting \ {t} = Counting' \ {t}
    BY DEF Busy, Idling, Counting, Tallied
  <1>2. active = Cardinality(Busy) /\ idle = Cardinality(Idling)
    BY DEF CountersExact
  <1>3. active' = Cardinality(Busy') /\ active' \in Nat
    BY <1>1, <1>2, CountedFinite, SetChange DEF Tallied
  <1>4. idle' = Cardinality(Idling') /\ idle' \in Nat
    BY <1>1, <1>2, CountedFinite, SetChange DEF Tallied
  <1> QED
    BY <1>1, <1>3, <1>4

\* The steps of run() are tallied,
LEMMA RunTallied ==
    ASSUME TypeOK, Ownership, NEW t \in Threads, RunStep(t)
    PROVE  Tallied(t) /\ events' = events /\ pending' = pending
           /\ pc[t] # "decrement" /\ pc'[t] # "decrement"
  <1>1. /\ pc \in [Threads -> Pcs] /\ ft \in [Threads -> Task \cup {NoEntry}]
        /\ idleFiber \in [Threads -> {"none", "live", "term"}]
        /\ active \in Nat /\ idle \in Nat
    BY DEF TypeOK
  <1>2. /\ pc[t] \notin Stacked \cup Taken => ft[t] = NoEntry
        /\ pc[t] \notin Asking \cup {"new", "exited"} => idleFiber[t] # "none"
    BY DEF Ownership, Shape
  <1> USE DEF Busy, Idling, Tallied, Goto, Taken, Asking, Stacked, waitVars, queueVars
  <1>3. CASE Take(t)
    <2>1. PICK i \in DOMAIN queue :
            /\ ft' = [ft EXCEPT ![t] = queue[i]]
            /\ pc' = [pc EXCEPT ![t] = IF PassedOther(t, i) \/ i < Len(queue)
                                      THEN "tickle" ELSE "dispatch"]
      BY <1>3, Zenon DEF Take
    <2>2. queue[i] # NoEntry
      BY TakenFibers, ConstantsAssumption DEF Task, NoEntry
    <2> QED
      BY <2>1, <2>2, <1>1, <1>2, <1>3 DEF Take, CountActive
  <1>4. CASE TakeNothing(t)
    BY <1>1, <1>2, <1>4 DEF TakeNothing
  <1>5. CASE TickleOthers(t)
    BY <1>1, <1>2, <1>5 DEF TickleOthers
  <1>6. CASE SwapInFiber(t)
    BY <1>1, <1>2, <1>6 DEF SwapInFiber, NoEntry
  <1>7. CASE SwapInCb(t)
    BY <1>1, <1>2, <1>7 DEF SwapInCb, NoEntry
  <1>8. CASE Nothing(t)
    BY <1>1, <1>2, <1>8 DEF Nothing
  <1>9. CASE SwapOut(t)
    BY <1>1, <1>2, <1>9 DEF SwapOut
  <1>10. CASE Decrement(t)
    BY <1>1, <1>2, <1>10 DEF Decrement
  <1>11. CASE Settle(t)
    BY <1>1, <1>2, <1>11 DEF Settle
  <1> QED
    BY <1>3, <1>4, <1>5, <1>6, <1>7, <1>8, <1>9, <1>10, <1>11, Zenon DEF RunStep

\* those of user code,
LEMMA UserTallied ==
    ASSUME TypeOK, NEW t \in Threads, UserStep(t)
    PROVE  /\ Tallied(t) /\ pc[t] # "decrement" /\ pc'[t] # "decrement"
           /\ WaitEvent(t) \/ (events' = events /\ pending' = pending)
  <1>1. /\ pc \in [Threads -> Pcs] /\ active \in Nat /\ idle \in Nat
    BY DEF TypeOK
  <1> USE DEF Busy, Idling, Tallied, Goto, Taken, Asking, waitVars, queueVars, Runs
  <1>2. CASE Sleep(t)
    BY <1>1, <1>2 DEF Sleep
  <1>3. CASE WaitEvent(t)
    BY <1>1, <1>3 DEF WaitEvent
  <1>4. CASE YieldToReady(t)
    BY <1>1, <1>4 DEF YieldToReady
  <1>5. CASE Spawn(t)
    BY <1>1, <1>5 DEF Spawn
  <1>6. CASE \E th \in Threads : SwitchTo(t, th)
    BY <1>1, <1>6 DEF SwitchTo
  <1>7. CASE Return(t)
    BY SMTT(30), <1>1, <1>7 DEF Return
  <1>8. CASE WakeSleeper(t)
    BY <1>1, <1>8 DEF WakeSleeper
  <1> QED
    BY <1>2, <1>3, <1>4, <1>5, <1>6, <1>7, <1>8, Zenon DEF UserStep

\* and those of idle(), stopping() and stop().
LEMMA IdleTallied ==
    ASSUME TypeOK, Ownership, NEW t \in Threads, IdleStep(t) \/ RootCall(t)
    PROVE  /\ Tallied(t)
           /\ \/ \E f \in Fibers : TriggerEvent(t, f)
              \/ EventDone(t)
              \/ /\ events' = events /\ pending' = pending
                 /\ pc[t] # "decrement" /\ pc'[t] # "decrement"
  <1>1. /\ pc \in [Threads -> Pcs] /\ active \in Nat /\ idle \in Nat
        /\ idleFiber \in [Threads -> {"none", "live", "term"}]
    BY DEF TypeOK
  <1>2. pc[t] = "new" => idleFiber[t] = "none"
    BY DEF Ownership, Shape
  <1> USE DEF Busy, Idling, Tallied, Goto, Taken, Asking, waitVars, queueVars
  <1>3. CASE NoTimer(t)
    BY <1>1, <1>3 DEF NoTimer, GoOn
  <1>4. CASE NoPending(t)
    BY <1>1, <1>4 DEF NoPending, GoOn
  <1>5. CASE Stopping(t)
    BY <1>1, <1>5 DEF Stopping, GoOn
  <1>6. CASE EpollWait(t)
    <2>1. \E l \in {"events", "schedule"} : pc' = [pc EXCEPT ![t] = l]
      BY <1>6, Zenon DEF EpollWait, ListExpiredCb
    <2> QED
      BY <2>1, <1>1, <1>6 DEF EpollWait
  <1>7. CASE ScheduleCbs(t)
    BY <1>1, <1>7 DEF ScheduleCbs
  <1>8. CASE EventDone(t)
    BY <1>1, <1>8 DEF EventDone
  <1>9. CASE IdleOut(t)
    BY <1>1, <1>9 DEF IdleOut
  <1>10. CASE \E f \in Fibers : TriggerEvent(t, f)
    BY <1>1, <1>10 DEF TriggerEvent
  <1>11. CASE RootCall(t)
    BY <1>1, <1>2, <1>11 DEF RootCall
  <1> QED
    BY <1>3, <1>4, <1>5, <1>6, <1>7, <1>8, <1>9, <1>10, <1>11, Zenon DEF IdleStep

\* Every step of a thread keeps the three counters exact: an event is counted
\* in m_pendingEventCount until the thread that triggered it has counted it off.
LEMMA StepCounters ==
    ASSUME TypeOK, Ownership, CountersExact, NEW t \in Threads, Step(t)
    PROVE  CountersExact' /\ active' \in Nat /\ idle' \in Nat /\ pending' \in Nat
  <1>1. Tallied(t) /\ \/ WaitEvent(t)
                      \/ \E f \in Fibers : TriggerEvent(t, f)
                      \/ EventDone(t)
                      \/ /\ events' = events /\ pending' = pending
                         /\ pc[t] # "decrement" /\ pc'[t] # "decrement"
    BY RunTallied, UserTallied, IdleTallied, Zenon DEF Step
  <1>2. /\ active' \in Nat /\ active' = Cardinality(Busy')
        /\ idle' \in Nat /\ idle' = Cardinality(Idling')
        /\ Counting \ {t} = Counting' \ {t}
    BY <1>1, TalliedCounts
  <1>3. /\ pending = Cardinality(events) + Cardinality(Counting) /\ pending \in Nat
        /\ IsFiniteSet(events) /\ IsFiniteSet(Counting)
    BY CountedFinite DEF CountersExact, TypeOK
  <1>4. Cardinality(events) \in Nat /\ Cardinality(Counting) \in Nat
    BY <1>3, FS_CardinalityType
  <1>5. pending' = Cardinality(events') + Cardinality(Counting') /\ pending' \in Nat
    <2>1. CASE WaitEvent(t)
      <3>1. Cur(t) \notin events
        BY <2>1, CurrentFiber DEF WaitEvent, Runs, Stacked, Owed
      <3>2. Cardinality(events') = Cardinality(events) + 1
        BY <2>1, <3>1, <1>3, FS_AddElement, Zenon DEF WaitEvent
      <3>3. Counting' = Counting
        BY <2>1 DEF WaitEvent, Runs, Goto, Counting, TypeOK
      <3>4. pending' = pending + 1
        BY <2>1 DEF WaitEvent
      <3> QED
        BY ONLY <3>2, <3>3, <3>4, <1>3, <1>4
    <2>2. CASE \E f \in Fibers : TriggerEvent(t, f)
      <3>1. PICK f \in Fibers : TriggerEvent(t, f)
        BY <2>2
      <3>2. Cardinality(events') = Cardinality(events) - 1
        BY <3>1, <1>3, FS_RemoveElement, Zenon DEF TriggerEvent
      <3>3. t \notin Counting /\ t \in Counting'
        BY <3>1 DEF TriggerEvent, Goto, Counting, TypeOK
      <3>4. Cardinality(Counting') = Cardinality(Counting) + 1
        BY ONLY <3>3, <1>2, <1>3, SetChange
      <3>5. pending' = pending
        BY <3>1 DEF TriggerEvent
      <3> QED
        BY ONLY <3>2, <3>4, <3>5, <1>3, <1>4
    <2>3. CASE EventDone(t)
      <3>1. t \in Counting /\ t \notin Counting'
        BY <2>3 DEF EventDone, Goto, Counting, TypeOK
      <3>2. Cardinality(Counting') = Cardinality(Counting) - 1 /\ Cardinality(Counting') \in Nat
        BY ONLY <3>1, <1>2, <1>3, SetChange
      <3>3. pending' = pending - 1 /\ events' = events
        BY <2>3 DEF EventDone
      <3> QED
        BY ONLY <3>2, <3>3, <1>3, <1>4
    <2>4. CASE /\ events' = events /\ pending' = pending
               /\ pc[t] # "decrement" /\ pc'[t] # "decrement"
      <3>1. Counting' = Counting
        BY <2>4, <1>2 DEF Counting
      <3> QED
        BY ONLY <2>4, <3>1, <1>3
    <2> QED
      BY <1>1, <2>1, <2>2, <2>3, <2>4
  <1> QED
    BY ONLY <1>2, <1>5 DEF CountersExact

-----------------------------------------------------------------------------
(* Types.                                                                  *)

\* Where a step may leave the run queue and the tickle pipe.
QueueTyped == queue' \in Seq(Task) /\ edge' \in BOOLEAN

\* By schedule(),
LEMMA ScheduleTyped ==
    ASSUME TypeOK, NEW e \in Task, Schedule(e)
    PROVE  QueueTyped
  BY ScheduleWakes DEF TypeOK, QueueTyped

\* and by a step that does not change the queue.
LEMMA EdgeTyped ==
    ASSUME TypeOK, queue' = queue, edge' \in {edge, Tickled, FALSE}
    PROVE  QueueTyped
  <1>1. Tickled \in BOOLEAN
    BY Zenon DEF Tickled, TypeOK
  <1> QED
    BY <1>1, Zenon DEF TypeOK, QueueTyped

\* run() keeps every variable in its type.
LEMMA RunTypes ==
    ASSUME TypeOK, Ownership, NEW t \in Threads, RunStep(t),
           active' \in Nat, idle' \in Nat, pending' \in Nat
    PROVE  TypeOK'
  <1>1. /\ ft[t] \in Task \cup {NoEntry} /\ ft[t].fiber \in Fibers \cup {None}
        /\ ft[t].cb \in Fibers \cup {User, None}
    BY TakenFibers, SMTT(30) DEF TypeOK, Task, NoEntry
  <1>2. pc[t] \in Stacked => Cur(t) \in Fibers
    BY SMTT(30), CurrentFiber
  <1> USE DEF queueVars, fiberVars, waitVars, Goto, Pcs, FiberState
  <1>3. CASE Take(t)
    <2>1. PICK i \in DOMAIN queue :
            /\ ft' = [ft EXCEPT ![t] = queue[i]]
            /\ queue' = Erase(queue, i)
            /\ pc' = [pc EXCEPT ![t] = IF PassedOther(t, i) \/ i < Len(queue)
                                      THEN "tickle" ELSE "dispatch"]
      BY <1>3, Zenon DEF Take
    <2>2. queue[i] \in Task /\ queue' \in Seq(Task)
      BY <2>1, TakenFibers, EraseFacts DEF TypeOK
    <2> QED
      BY <2>1, <2>2, <1>3 DEF Take, TypeOK
  <1>4. CASE TakeNothing(t)
    BY <1>4 DEF TakeNothing, TypeOK
  <1>5. CASE TickleOthers(t)
    <2>1. QueueTyped
      BY SMTT(30), <1>5, EdgeTyped DEF TickleOthers
    <2> QED
      BY <2>1, <1>5 DEF TickleOthers, TypeOK, QueueTyped
  <1>6. CASE SwapInFiber(t)
    BY <1>1, <1>6, SMTT(30) DEF SwapInFiber, TypeOK
  <1>7. CASE SwapInCb(t)
    <2>1. PICK f \in IF cbFiber[t] # None THEN {cbFiber[t]} ELSE pool :
            /\ cbFiber' = [cbFiber EXCEPT ![t] = f]
            /\ pool' = pool \ {f}
            /\ job' = [job EXCEPT ![f] = ft[t].cb]
            /\ state' = [state EXCEPT ![f] = "EXEC"]
      BY <1>7, Zenon DEF SwapInCb
    <2>2. f \in Fibers
      BY <2>1 DEF TypeOK
    <2> QED
      BY <2>1, <2>2, <1>1, <1>7 DEF SwapInCb, TypeOK
  <1>8. CASE Nothing(t)
    BY <1>8, Zenon DEF Nothing, TypeOK
  <1>9. CASE SwapOut(t)
    BY SMTT(30), <1>9 DEF SwapOut, TypeOK
  <1>10. CASE Decrement(t)
    BY <1>10, SMTT(30) DEF Decrement, TypeOK
  <1>11. CASE Settle(t)
    <2>1. Cur(t) \in Fibers
      BY <1>2, <1>11 DEF Settle, Stacked
    <2>2. QueueTyped
      <3>1. FiberTask(Cur(t), AnyThread) \in Task
        BY <2>1, TaskFacts
      <3>2. CASE Schedule(FiberTask(Cur(t), AnyThread))
        BY <3>1, <3>2, ScheduleTyped
      <3>3. CASE UNCHANGED <<queue, edge>>
        BY <3>3, EdgeTyped, SMTT(30)
      <3> QED
        BY <3>2, <3>3, <1>11, Zenon DEF Settle, Requeue
    <2>3. cbFiber' \in [Threads -> Fibers \cup {None}]
      BY <1>11, SMTT(30) DEF Settle, ReleaseCb, TypeOK
    <2>4. pool' \subseteq Fibers
      BY <2>1, <1>11, SMTT(30) DEF Settle, TypeOK
    <2>5. /\ state' \in [Fibers -> FiberState]
          /\ job' \in [Fibers -> Fibers \cup {User, None}]
      BY <2>1, <1>11 DEF Settle, TypeOK
    <2> QED
      BY SMTT(30), <2>2, <2>3, <2>4, <2>5, <1>11 DEF Settle, TypeOK, QueueTyped
  <1> QED
    BY <1>3, <1>4, <1>5, <1>6, <1>7, <1>8, <1>9, <1>10, <1>11, Zenon DEF RunStep

\* So does user code.
LEMMA UserTypes ==
    ASSUME TypeOK, Ownership, NEW t \in Threads, UserStep(t),
           active' \in Nat, idle' \in Nat, pending' \in Nat
    PROVE  TypeOK'
  <1>1. pc[t] = "exec"
    BY Zenon DEF UserStep, Sleep, WaitEvent, YieldToReady, Spawn, SwitchTo, Return,
                 WakeSleeper, Runs
  <1>2. Cur(t) \in Fibers
    BY SMTT(30), <1>1, CurrentFiber DEF Stacked
  <1> USE DEF queueVars, fiberVars, waitVars, Goto, Pcs, FiberState
  <1>3. CASE Sleep(t)
    <2>1. QueueTyped
      BY <1>3, EdgeTyped, Zenon DEF Sleep
    <2> QED
      BY <2>1, <1>2, <1>3 DEF Sleep, TypeOK, QueueTyped
  <1>4. CASE WaitEvent(t)
    BY SMTT(30), <1>2, <1>4 DEF WaitEvent, TypeOK
  <1>5. CASE YieldToReady(t)
    BY SMTT(30), <1>2, <1>5 DEF YieldToReady, TypeOK
  <1>6. CASE Spawn(t)
    <2>1. QueueTyped
      BY SMTT(30), <1>6, TaskFacts, ScheduleTyped DEF Spawn
    <2> QED
      BY <2>1, <1>6 DEF Spawn, TypeOK, QueueTyped
  <1>7. CASE \E th \in Threads : SwitchTo(t, th)
    <2>1. PICK th \in Threads : SwitchTo(t, th)
      BY <1>7
    <2>2. QueueTyped
      BY SMTT(30), <2>1, <1>2, TaskFacts, ScheduleTyped DEF SwitchTo
    <2> QED
      BY <2>1, <2>2 DEF SwitchTo, TypeOK, QueueTyped
  <1>8. CASE Return(t)
    BY SMTT(30), <1>2, <1>8 DEF Return, TypeOK, Finished
  <1>9. CASE WakeSleeper(t)
    <2>1. QueueTyped
      BY <1>9, TaskFacts, ScheduleTyped DEF WakeSleeper
    <2> QED
      BY <2>1, <1>2, <1>9 DEF WakeSleeper, TypeOK, QueueTyped
  <1> QED
    BY <1>3, <1>4, <1>5, <1>6, <1>7, <1>8, <1>9, Zenon DEF UserStep

\* So do idle(), stopping() and stop().
LEMMA IdleTypes ==
    ASSUME TypeOK, Ownership, NEW t \in Threads, IdleStep(t) \/ RootCall(t),
           active' \in Nat, idle' \in Nat, pending' \in Nat
    PROVE  TypeOK'
  <1> USE DEF queueVars, fiberVars, waitVars, Goto, Pcs
  <1>1. CASE NoTimer(t)
    BY <1>1, Zenon DEF NoTimer, GoOn, TypeOK
  <1>2. CASE NoPending(t)
    BY <1>2, Zenon DEF NoPending, GoOn, TypeOK
  <1>3. CASE Stopping(t)
    BY <1>3, Zenon DEF Stopping, GoOn, TypeOK
  <1>4. CASE EpollWait(t)
    <2>1. QueueTyped
      BY <1>4, EdgeTyped, Zenon DEF EpollWait
    <2>2. PICK due \in SUBSET timers : \E s \in Orders(due) :
            /\ timers' = timers \ due
            /\ cbs' = [cbs EXCEPT ![t] = s]
            /\ pc' = [pc EXCEPT ![t] = IF s = <<>> THEN "events" ELSE "schedule"]
      BY <1>4, Zenon DEF EpollWait, ListExpiredCb
    <2>3. PICK s \in Orders(due) :
            /\ timers' = timers \ due
            /\ cbs' = [cbs EXCEPT ![t] = s]
            /\ pc' = [pc EXCEPT ![t] = IF s = <<>> THEN "events" ELSE "schedule"]
      BY <2>2, Zenon
    <2>4. s \in Seq(Fibers)
      <3>1. Cardinality(due) \in Nat
        <4>1. IsFiniteSet(due)
          BY ConstantsAssumption, FS_Subset DEF TypeOK
        <4> QED
          BY SMTT(30), <4>1, FS_CardinalityType
      <3>2. s \in [1..Cardinality(due) -> Fibers]
        BY SMTT(30) DEF Orders, TypeOK
      <3> QED
        BY ONLY <3>1, <3>2
    <2> QED
      BY <2>1, <2>3, <2>4, <1>4 DEF EpollWait, TypeOK, QueueTyped
  <1>5. CASE ScheduleCbs(t)
    <2>1. cbs[t] \in Seq(Fibers) /\ queue \in Seq(Task) /\ edge \in BOOLEAN
      BY DEF TypeOK
    <2>2. [i \in DOMAIN cbs[t] |-> CbTask(cbs[t][i])] \in Seq(Task)
      BY SMTT(30), <2>1, TaskFacts
    <2>3. queue' \in Seq(Task)
      BY <2>1, <2>2, <1>5, ConcatFacts DEF ScheduleCbs
    <2>4. Tickled \in BOOLEAN
      BY <2>1, Zenon DEF Tickled
    <2> QED
      BY <2>1, <2>3, <2>4, <1>5 DEF ScheduleCbs, TypeOK
  <1>6. CASE EventDone(t)
    BY SMTT(30), <1>6 DEF EventDone, TypeOK
  <1>7. CASE IdleOut(t)
    BY SMTT(30), <1>7 DEF IdleOut, TypeOK
  <1>8. CASE \E f \in Fibers : TriggerEvent(t, f)
    <2>1. PICK f \in Fibers : TriggerEvent(t, f)
      BY <1>8
    <2>2. QueueTyped
      BY SMTT(30), <2>1, TaskFacts, ScheduleTyped DEF TriggerEvent
    <2> QED
      BY <2>1, <2>2 DEF TriggerEvent, TypeOK, QueueTyped
  <1>9. CASE RootCall(t)
    BY <1>9 DEF RootCall, TypeOK
  <1> QED
    BY <1>1, <1>2, <1>3, <1>4, <1>5, <1>6, <1>7, <1>8, <1>9, Zenon DEF IdleStep

\* So do the threads outside the pool, who touch no counter.
LEMMA SubmitTypes ==
    ASSUME TypeOK, CountersExact, Submit \/ StopCalled
    PROVE  TypeOK' /\ CountersExact'
  <1> USE DEF queueVars, fiberVars, waitVars
  <1>1. CASE SubmitCb
    <2>1. QueueTyped
      BY <1>1, TaskFacts, ScheduleTyped, SMTT(30) DEF SubmitCb
    <2> QED
      BY <2>1, <1>1 DEF SubmitCb, TypeOK, QueueTyped, CountersExact, Busy, Idling, Counting
  <1>2. CASE \E f \in Fibers, th \in Threads \cup {AnyThread} : SubmitFiber(f, th)
    <2>1. PICK f \in Fibers, th \in Threads \cup {AnyThread} : SubmitFiber(f, th)
      BY SMTT(30), <1>2
    <2>2. QueueTyped
      BY SMTT(30), <2>1, TaskFacts, ScheduleTyped DEF SubmitFiber
    <2>3. TypeOK'
      BY <2>1, <2>2, SMTT(30) DEF SubmitFiber, TypeOK, QueueTyped, FiberState
    <2> QED
      BY <2>1, <2>3 DEF SubmitFiber, CountersExact, Busy, Idling, Counting
  <1>3. CASE StopCalled
    <2>1. QueueTyped
      BY <1>3, EdgeTyped DEF StopCalled
    <2> QED
      BY <2>1, <1>3 DEF StopCalled, TypeOK, QueueTyped, CountersExact, Busy, Idling, Counting
  <1> QED
    BY <1>1, <1>2, <1>3, Zenon DEF Submit

=============================================================================
