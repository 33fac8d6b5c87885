--------------------------- MODULE SchedulerWakes ---------------------------
(***************************************************************************)
(* Lemmas about module Scheduler: the run queue as a set of wake-ups,      *)
(* the steps that change no fiber's owner and the submissions.             *)
(***************************************************************************)
EXTENDS Scheduler, TLAPS

-----------------------------------------------------------------------------
(* Lists of tasks.                                                         *)

\* Erasing one element of a list (run() erasing the task it takes).
LEMMA EraseFacts ==
    ASSUME NEW S, NEW q \in Seq(S), NEW i \in DOMAIN q
    PROVE  /\ Erase(q, i) \in Seq(S)
           /\ DOMAIN Erase(q, i) = 1..Len(q)-1
           /\ \A k \in 1..Len(q)-1 :
                Erase(q, i)[k] = IF k < i THEN q[k] ELSE q[k+1]
  <1>1. Erase(q, i) \in [1..Len(q)-1 -> S] /\ Len(q)-1 \in Nat
    BY DEF Erase
  <1> QED
    BY <1>1 DEF Erase

\* Appending one (schedule).
LEMMA AppendFacts ==
    ASSUME NEW S, NEW q \in Seq(S), NEW e \in S
    PROVE  /\ Append(q, e) \in Seq(S)
           /\ DOMAIN q = 1..Len(q) /\ Len(q) \in Nat
           /\ DOMAIN Append(q, e) = 1..Len(q) + 1
           /\ \A k \in 1..Len(q) : Append(q, e)[k] = q[k]
           /\ Append(q, e)[Len(q) + 1] = e
  OBVIOUS

\* Appending several (schedule(begin, end)).
LEMMA ConcatFacts ==
    ASSUME NEW S, NEW q \in Seq(S), NEW d \in Seq(S)
    PROVE  /\ q \o d \in Seq(S)
           /\ DOMAIN (q \o d) = 1..Len(q) + Len(d)
           /\ \A k \in 1..Len(q) : (q \o d)[k] = q[k]
           /\ \A k \in 1..Len(d) : (q \o d)[Len(q) + k] = d[k]
  OBVIOUS

\* The elements of a list.
LEMMA ElementFacts ==
    ASSUME NEW S, NEW q \in Seq(S)
    PROVE  /\ DOMAIN q = 1..Len(q) /\ Len(q) \in Nat
           /\ \A k \in DOMAIN q : q[k] \in S
  OBVIOUS

-----------------------------------------------------------------------------
(* Wake-ups in the run queue.                                              *)

\* The fiber that each kind of task wakes.
LEMMA TaskFacts ==
    /\ \A e \in Task \cup {NoEntry} : Wakes(e) \in Fibers \cup {None}
    /\ Wakes(NoEntry) = None
    /\ \A f \in Fibers, th \in Threads \cup {AnyThread} :
         FiberTask(f, th) \in Task /\ Wakes(FiberTask(f, th)) = f
    /\ CbTask(User) \in Task /\ Wakes(CbTask(User)) = None
    /\ \A f \in Fibers : CbTask(f) \in Task /\ Wakes(CbTask(f)) = f
  BY ConstantsAssumption DEF Task, NoEntry, FiberTask, CbTask, Wakes

\* schedule() adds the wake-up of the task it queues, and no other.
LEMMA ScheduleWakes ==
    ASSUME queue \in Seq(Task), edge \in BOOLEAN, idle \in Nat,
           NEW e \in Task, Schedule(e)
    PROVE  /\ queue' \in Seq(Task) /\ edge' \in BOOLEAN
           /\ \A f \in Fibers : InQueue(f)' <=> InQueue(f) \/ Wakes(e) = f
           /\ QueueOnce /\ (Wakes(e) \in Fibers => ~InQueue(Wakes(e))) => QueueOnce'
  <1>1. queue' = Append(queue, e)
    BY DEF Schedule
  <1>2. /\ queue' \in Seq(Task) /\ Len(queue) \in Nat
        /\ DOMAIN queue = 1..Len(queue)
        /\ DOMAIN queue' = 1..Len(queue) + 1
        /\ \A k \in 1..Len(queue) : queue'[k] = queue[k]
        /\ queue'[Len(queue) + 1] = e
    BY <1>1, AppendFacts
  <1>3. edge' \in BOOLEAN
    BY Zenon DEF Schedule, Tickled
  <1>4. \A f \in Fibers : InQueue(f)' <=> InQueue(f) \/ Wakes(e) = f
    BY <1>2 DEF InQueue
  <1>5. ASSUME QueueOnce, Wakes(e) \in Fibers => ~InQueue(Wakes(e))
        PROVE  QueueOnce'
    <2> SUFFICES ASSUME NEW i \in DOMAIN queue', NEW j \in DOMAIN queue',
                        Wakes(queue'[i]) # None, Wakes(queue'[i]) = Wakes(queue'[j])
                 PROVE  i = j
      BY DEF QueueOnce
    <2>1. Wakes(e) \in Fibers \cup {None}
      BY TaskFacts
    <2>2. \A k \in DOMAIN queue : Wakes(e) # None => Wakes(queue[k]) # Wakes(e)
      BY <1>5, <2>1 DEF InQueue
    <2> QED
      BY <1>2, <1>5, <2>2 DEF QueueOnce
  <1> QED
    BY <1>2, <1>3, <1>4, <1>5

\* run() removes the wake-up of the task it takes, and no other.
LEMMA TakeWakes ==
    ASSUME queue \in Seq(Task), QueueOnce, NEW i \in DOMAIN queue,
           queue' = Erase(queue, i)
    PROVE  /\ queue' \in Seq(Task) /\ QueueOnce'
           /\ \A f \in Fibers : InQueue(f)' <=> InQueue(f) /\ Wakes(queue[i]) # f
  <1>1. /\ Len(queue) \in Nat /\ DOMAIN queue = 1..Len(queue)
        /\ queue' \in Seq(Task) /\ DOMAIN queue' = 1..Len(queue)-1
        /\ \A k \in 1..Len(queue)-1 :
             queue'[k] = IF k < i THEN queue[k] ELSE queue[k+1]
    BY EraseFacts, ElementFacts
  <1> DEFINE src(k) == IF k < i THEN k ELSE k + 1
  <1>2. \A k \in DOMAIN queue' : src(k) \in DOMAIN queue /\ src(k) # i
                                 /\ queue'[k] = queue[src(k)]
    BY <1>1
  <1>3. \A k, l \in DOMAIN queue' : src(k) = src(l) => k = l
    BY <1>1
  <1>4. \A k \in DOMAIN queue \ {i} : \E l \in DOMAIN queue' : k = src(l)
    <2> TAKE k \in DOMAIN queue \ {i}
    <2>1. CASE k < i
      <3>1. k \in DOMAIN queue'
        BY <2>1, <1>1
      <3> QED
        BY <2>1, <3>1
    <2>2. CASE ~(k < i)
      <3>1. k - 1 \in DOMAIN queue' /\ ~(k - 1 < i) /\ (k - 1) + 1 = k
        BY <2>2, <1>1
      <3> QED
        BY <3>1
    <2> QED
      BY <2>1, <2>2
  <1>5. \A k \in DOMAIN queue : queue[k] \in Task
    BY ElementFacts
  <1> HIDE DEF src
  <1>6. QueueOnce'
    BY <1>2, <1>3 DEF QueueOnce
  <1>7. ASSUME NEW f \in Fibers
        PROVE  InQueue(f)' <=> InQueue(f) /\ Wakes(queue[i]) # f
    <2>1. f # None
      BY ConstantsAssumption
    <2>2. ASSUME InQueue(f)' PROVE InQueue(f) /\ Wakes(queue[i]) # f
      BY <1>2, <2>1, <2>2 DEF InQueue, QueueOnce
    <2>3. ASSUME InQueue(f), Wakes(queue[i]) # f PROVE InQueue(f)'
      BY <1>2, <1>4, <2>3 DEF InQueue
    <2> QED
      BY <2>2, <2>3
  <1> QED
    BY <1>1, <1>6, <1>7

\* schedule(begin, end) adds the wake-ups of the callbacks it queues.
LEMMA BatchWakes ==
    ASSUME queue \in Seq(Task), QueueOnce, NEW c \in Seq(Fibers),
           \A i, j \in DOMAIN c : c[i] = c[j] => i = j,
           \A i \in DOMAIN c : ~InQueue(c[i]),
           queue' = queue \o [i \in DOMAIN c |-> CbTask(c[i])]
    PROVE  /\ queue' \in Seq(Task) /\ QueueOnce'
           /\ \A f \in Fibers : InQueue(f)' <=>
                InQueue(f) \/ \E i \in DOMAIN c : c[i] = f
  <1> DEFINE d == [i \in DOMAIN c |-> CbTask(c[i])]
             n == Len(queue)
  <1>1. /\ n \in Nat /\ DOMAIN queue = 1..n
        /\ Len(c) \in Nat /\ DOMAIN c = 1..Len(c)
        /\ \A i \in DOMAIN c : c[i] \in Fibers
    BY ElementFacts
  <1>2. \A i \in 1..Len(c) : CbTask(c[i]) \in Task /\ Wakes(CbTask(c[i])) = c[i]
    BY <1>1, TaskFacts
  <1>3. d \in Seq(Task) /\ Len(d) = Len(c) /\ DOMAIN d = 1..Len(c)
    <2>1. d \in [1..Len(c) -> Task]
      BY <1>1, <1>2
    <2> QED
      BY <2>1, <1>1
  <1>4. \A i \in 1..Len(c) : Wakes(d[i]) = c[i]
    BY <1>1, <1>2
  <1> HIDE DEF d
  <1>5. queue' = queue \o d
    BY DEF d
  <1>6. /\ queue' \in Seq(Task) /\ DOMAIN queue' = 1..n + Len(c)
        /\ \A i \in 1..n : queue'[i] = queue[i]
        /\ \A i \in 1..Len(c) : queue'[n + i] = d[i]
    <2>1. /\ queue \o d \in Seq(Task) /\ DOMAIN (queue \o d) = 1..Len(queue) + Len(d)
          /\ \A i \in 1..Len(queue) : (queue \o d)[i] = queue[i]
          /\ \A i \in 1..Len(d) : (queue \o d)[Len(queue) + i] = d[i]
      BY <1>3, ConcatFacts
    <2> QED
      BY <2>1, <1>3, <1>5
  <1>7. /\ DOMAIN queue' = 1..n + Len(c)
        /\ \A i \in 1..n : queue'[i] = queue[i]
        /\ \A i \in 1..Len(c) : n + i \in 1..n + Len(c) /\ queue'[n + i] = d[i]
    BY <1>1, <1>6
  <1>8. \A k \in DOMAIN queue' : k \in 1..n \/ \E i \in 1..Len(c) : k = n + i
    <2> TAKE k \in DOMAIN queue'
    <2>1. CASE k \in 1..n
      BY <2>1
    <2>2. CASE k \notin 1..n
      <3>1. k - n \in 1..Len(c) /\ k = n + (k - n)
        BY <1>1, <1>7, <2>2
      <3> QED
        BY <3>1
    <2> QED
      BY <2>1, <2>2
  <1>9. \A f \in Fibers : InQueue(f)' <=>
             InQueue(f) \/ \E i \in DOMAIN c : c[i] = f
    <2> TAKE f \in Fibers
    <2>1. ASSUME NEW k \in DOMAIN queue', Wakes(queue'[k]) = f
          PROVE  InQueue(f) \/ \E i \in DOMAIN c : c[i] = f
      <3>1. CASE k \in 1..n
        BY <3>1, <2>1, <1>1, <1>7 DEF InQueue
      <3>2. CASE \E i \in 1..Len(c) : k = n + i
        <4> PICK i \in 1..Len(c) : k = n + i
          BY <3>2
        <4> QED
          BY <2>1, <1>1, <1>4, <1>7, Zenon
      <3> QED
        BY <3>1, <3>2, <1>8
    <2>2. ASSUME InQueue(f) PROVE InQueue(f)'
      <3> PICK k \in DOMAIN queue : Wakes(queue[k]) = f
        BY <2>2 DEF InQueue
      <3>1. k \in DOMAIN queue' /\ queue'[k] = queue[k]
        BY <1>1, <1>7
      <3> QED
        BY <3>1, Zenon DEF InQueue
    <2>3. ASSUME NEW i \in DOMAIN c, c[i] = f PROVE InQueue(f)'
      <3>1. n + i \in DOMAIN queue' /\ Wakes(queue'[n + i]) = f
        BY <2>3, <1>1, <1>4, <1>7
      <3> QED
        BY <3>1, Zenon DEF InQueue
    <2> QED
      BY <2>1, <2>2, <2>3, Zenon DEF InQueue
  <1>10. QueueOnce'
    <2> SUFFICES ASSUME NEW k \in DOMAIN queue', NEW l \in DOMAIN queue',
                        Wakes(queue'[k]) # None, Wakes(queue'[k]) = Wakes(queue'[l])
                 PROVE  k = l
      BY Zenon DEF QueueOnce
    <2>1. \A i \in 1..n, j \in 1..Len(c) : Wakes(queue[i]) # c[j]
      BY <1>1, Zenon DEF InQueue
    <2>2. CASE k \in 1..n /\ l \in 1..n
      BY <2>2, <1>1, <1>7 DEF QueueOnce
    <2>3. CASE k \in 1..n /\ l \notin 1..n
      <3> PICK j \in 1..Len(c) : l = n + j
        BY <2>3, <1>8
      <3>1. Wakes(queue'[l]) = c[j] /\ queue'[k] = queue[k]
        BY <2>3, <1>4, <1>7, Zenon
      <3> QED
        BY <3>1, <2>1, <2>3
    <2>4. CASE k \notin 1..n /\ l \in 1..n
      <3> PICK i \in 1..Len(c) : k = n + i
        BY <2>4, <1>8
      <3>1. Wakes(queue'[k]) = c[i] /\ queue'[l] = queue[l]
        BY <2>4, <1>4, <1>7, Zenon
      <3> QED
        BY <3>1, <2>1, <2>4
    <2>5. CASE k \notin 1..n /\ l \notin 1..n
      <3> PICK i \in 1..Len(c) : k = n + i
        BY <2>5, <1>8
      <3> PICK j \in 1..Len(c) : l = n + j
        BY <2>5, <1>8
      <3>1. Wakes(queue'[k]) = c[i] /\ Wakes(queue'[l]) = c[j]
        BY <1>4, <1>7, Zenon
      <3> QED
        BY <3>1, <1>1, Zenon
    <2> QED
      BY <2>2, <2>3, <2>4, <2>5
  <1> QED
    BY <1>6, <1>9, <1>10

\* The fibers of tasks and of wake-ups are fibers.
LEMMA TakenFibers ==
    ASSUME TypeOK
    PROVE  /\ \A u \in Threads : ft[u].fiber \in Fibers \cup {None}
           /\ \A i \in DOMAIN queue : queue[i] \in Task
  <1>1. \A u \in Threads : ft[u] \in Task \cup {NoEntry}
    BY DEF TypeOK
  <1>2. \A e \in Task \cup {NoEntry} : e.fiber \in Fibers \cup {None}
    BY DEF Task, NoEntry
  <1>3. \A i \in DOMAIN queue : queue[i] \in Task
    BY ElementFacts DEF TypeOK
  <1> QED
    BY <1>1, <1>2, <1>3

-----------------------------------------------------------------------------
(* Ownership is preserved ...                                              *)

\* ... by a step that moves no fiber to or from a thread and wakes no fiber that
\* had no wake-up on its way,
LEMMA FrameStep ==
    ASSUME Ownership, Shape', QueueOnce', ExpiredOnce', HeldOnce', KindsApart',
           \A f \in Fibers : Owed(f)' => Owed(f),
           \A u \in Threads, f \in Fibers : OnCpu(u, f)' <=> OnCpu(u, f),
           \A u \in Threads : pc'[u] = "exec" <=> pc[u] = "exec",
           \A u \in Threads : pc'[u] \in Taken /\ ft'[u].fiber # None =>
               pc[u] \in Taken /\ ft[u].fiber = ft'[u].fiber,
           \A u \in Threads, f \in Fibers : OnCpu(u, f)' => ft'[u].fiber = ft[u].fiber,
           UNCHANGED <<cbFiber, pool, state, job>>,
           pool \subseteq Fibers
    PROVE  Ownership'
  <1>1. FiberExclusive' /\ WakerRuns'
    BY DEF Ownership, FiberExclusive, WakerRuns
  <1>2. OwedYielded' /\ RunningExec' /\ TakenRests'
    BY DEF Ownership, OwedYielded, RunningExec, TakenRests
  <1>3. CbFiberRuns' /\ CbFiberOwn' /\ CbFiberRests'
    BY DEF Ownership, CbFiberRuns, CbFiberOwn, CbFiberRests
  <1>4. PoolFree'
    BY DEF Ownership, PoolFree
  <1> QED
    BY <1>1, <1>2, <1>3, <1>4 DEF Ownership

\* by one that adds no wake-up at all,
LEMMA QuietStep ==
    ASSUME Ownership, Shape', QueueOnce', ExpiredOnce',
           \A f \in Fibers : InQueue(f)' => InQueue(f),
           \A u \in Threads, f \in Fibers : Holds(u, f)' => Holds(u, f),
           \A u \in Threads, f \in Fibers : OnCpu(u, f)' <=> OnCpu(u, f),
           \A u \in Threads : pc'[u] = "exec" <=> pc[u] = "exec",
           \A u \in Threads : pc'[u] \in Taken /\ ft'[u].fiber # None =>
               pc[u] \in Taken /\ ft[u].fiber = ft'[u].fiber,
           \A u \in Threads, f \in Fibers : OnCpu(u, f)' => ft'[u].fiber = ft[u].fiber,
           UNCHANGED <<timers, events, cbFiber, pool, state, job>>,
           pool \subseteq Fibers
    PROVE  Ownership'
  <1>1. \A f \in Fibers : Owed(f)' => Owed(f)
    BY DEF Owed
  <1>2. HeldOnce' /\ KindsApart'
    BY DEF Ownership, HeldOnce, KindsApart
  <1> QED
    BY <1>1, <1>2, FrameStep

\* What Ownership says of the fiber that thread t is running.
LEMMA CurrentFiber ==
    ASSUME TypeOK, Ownership, NEW t \in Threads, pc[t] \in Stacked
    PROVE  /\ Cur(t) \in Fibers /\ OnCpu(t, Cur(t))
           /\ \A u \in Threads : OnCpu(u, Cur(t)) => u = t
           /\ \A u \in Threads : u # t => cbFiber[u] # Cur(t)
           /\ cbFiber[t] = Cur(t) <=> ft[t].fiber = None
           /\ Cur(t) \notin pool
           /\ pc[t] = "exec" => ~Owed(Cur(t)) /\ state[Cur(t)] = "EXEC"
           /\ state[Cur(t)] # "EXEC" => ~Owed(Cur(t))
  <1>1. Cur(t) \in Fibers /\ OnCpu(t, Cur(t))
    BY DEF TypeOK, Ownership, Shape, Cur, OnCpu, Task, NoEntry
  <1>2. \A u \in Threads : OnCpu(u, Cur(t)) => u = t
    BY <1>1 DEF Ownership, FiberExclusive
  <1>3. /\ \A u \in Threads : u # t => cbFiber[u] # Cur(t)
        /\ cbFiber[t] = Cur(t) => ft[t].fiber = None
    BY <1>1 DEF Ownership, CbFiberRuns
  <1>4. ft[t].fiber = None => cbFiber[t] = Cur(t)
    BY DEF Cur
  <1>5. Cur(t) \notin pool
    BY <1>1 DEF Ownership, PoolFree
  <1>6. /\ pc[t] = "exec" => ~Owed(Cur(t)) /\ state[Cur(t)] = "EXEC"
        /\ state[Cur(t)] # "EXEC" => ~Owed(Cur(t))
    BY SMTT(30), <1>1 DEF Ownership, OwedYielded, RunningExec
  <1> QED
    BY <1>1, <1>2, <1>3, <1>4, <1>5, <1>6

\* and by a thread that goes on, without a change to fibers or wake-ups.
LEMMA PcStep ==
    ASSUME TypeOK, Ownership, NEW t \in Threads, NEW l \in Pcs,
           pc' = [pc EXCEPT ![t] = l], Shape',
           UNCHANGED <<queue, ft, cbFiber, cbs, state, job, pool, timers, events>>,
           \/ pc[t] \in {"swapout", "back"} /\ l \in {"back", "settle"}
           \/ pc[t] = "tickle" /\ l = "dispatch"
           \/ /\ pc[t] \notin Stacked /\ pc[t] \notin Taken /\ pc[t] # "schedule"
              /\ l \notin Stacked /\ l # "schedule"
    PROVE  Ownership'
  <1>1. \A u \in Threads : pc'[u] = IF u = t THEN l ELSE pc[u]
    BY DEF TypeOK
  <1>2. QueueOnce' /\ ExpiredOnce' /\ \A f \in Fibers : InQueue(f)' <=> InQueue(f)
    BY DEF Ownership, QueueOnce, ExpiredOnce, InQueue
  <1>3. \A u \in Threads, f \in Fibers : OnCpu(u, f)' <=> OnCpu(u, f)
    BY <1>1 DEF OnCpu, Cur, Stacked, Taken
  <1>4. pc[t] \notin Stacked /\ pc[t] \notin Taken =>
          ft[t].fiber = None /\ Wakes(ft[t]) = None
    BY ONLY SMTT(30), Ownership, TaskFacts DEF Ownership, Shape, NoEntry
  <1>5. \A u \in Threads, f \in Fibers : Holds(u, f)' => Holds(u, f)
    BY <1>1, <1>4, ConstantsAssumption DEF Holds, Cur, Taken, Stacked
  <1>6. \A u \in Threads : pc'[u] = "exec" <=> pc[u] = "exec"
    BY <1>1 DEF Stacked
  <1>7. \A u \in Threads : pc'[u] \in Taken /\ ft'[u].fiber # None =>
               pc[u] \in Taken /\ ft[u].fiber = ft'[u].fiber
    BY <1>1, <1>4, SMTT(30) DEF Stacked, Taken
  <1> QED
    BY <1>2, <1>3, <1>5, <1>6, <1>7, QuietStep DEF TypeOK

-----------------------------------------------------------------------------
\* The submissions of schedule() keep Ownership.

\* By scheduling a function, which is no fiber's wake-up.
LEMMA ScheduleCbOwnership ==
    ASSUME TypeOK, Ownership, Schedule(CbTask(User)),
           UNCHANGED <<pc, ft, cbFiber, idleFiber, cbs, state, job, pool, timers, events>>
    PROVE  Ownership'
  <1>1. /\ pc' = pc /\ ft' = ft /\ cbFiber' = cbFiber /\ idleFiber' = idleFiber
        /\ cbs' = cbs /\ state' = state /\ job' = job /\ pool' = pool
        /\ timers' = timers /\ events' = events /\ Schedule(CbTask(User))
    OBVIOUS
  <1>2. /\ queue \in Seq(Task) /\ edge \in BOOLEAN /\ idle \in Nat /\ pool \subseteq Fibers
        /\ QueueOnce /\ CbTask(User) \in Task /\ Wakes(CbTask(User)) = None
    BY TaskFacts DEF TypeOK, Ownership
  <1>3. QueueOnce' /\ \A g \in Fibers : InQueue(g)' <=> InQueue(g)
    BY ONLY <1>1, <1>2, ScheduleWakes, ConstantsAssumption
  <1>4. \A u \in Threads, g \in Fibers :
          (OnCpu(u, g)' <=> OnCpu(u, g)) /\ (Holds(u, g)' <=> Holds(u, g))
    BY ONLY <1>1 DEF OnCpu, Holds, Cur
  <1>5. Shape' /\ ExpiredOnce'
    BY ONLY Ownership, <1>1 DEF Ownership, Shape, ExpiredOnce, Cur
  <1> QED
    BY ONLY Ownership, <1>1, <1>2, <1>3, <1>4, <1>5, QuietStep, Zenon

\* By scheduling a fiber that was just made.
LEMMA SubmitFiberOwnership ==
    ASSUME TypeOK, Ownership, NEW f \in Fibers, NEW th \in Threads \cup {AnyThread},
           SubmitFiber(f, th)
    PROVE  Ownership'
  <1>1. /\ f \in Fibers /\ f \in pool /\ Schedule(FiberTask(f, th))
        /\ UNCHANGED <<pc, ft, cbFiber, idleFiber, cbs, timers, events>>
    BY DEF SubmitFiber, waitVars
  <1>2. /\ \A g \in Fibers : state'[g] = IF g = f THEN "INIT" ELSE state[g]
        /\ \A g \in Fibers : job'[g] = IF g = f THEN User ELSE job[g]
        /\ pool' = pool \ {f} /\ pool \subseteq Fibers
        /\ queue \in Seq(Task) /\ edge \in BOOLEAN /\ idle \in Nat
    BY DEF SubmitFiber, TypeOK
  <1>3. FiberTask(f, th) \in Task /\ Wakes(FiberTask(f, th)) = f
    BY TaskFacts
  <1>4. ~Owed(f) /\ \A u \in Threads : ~OnCpu(u, f) /\ cbFiber[u] # f
    BY ONLY Ownership, <1>1 DEF Ownership, PoolFree
  <1>5. QueueOnce' /\ \A g \in Fibers : InQueue(g)' <=> InQueue(g) \/ g = f
    <2>1. QueueOnce /\ ~InQueue(f)
      BY <1>4 DEF Ownership, Owed
    <2> QED
      BY ONLY <2>1, <1>1, <1>2, <1>3, ScheduleWakes
  <1>6. \A u \in Threads, g \in Fibers : OnCpu(u, g)' <=> OnCpu(u, g)
    BY ONLY <1>1 DEF OnCpu, Cur
  <1>7. \A u \in Threads, g \in Fibers : Holds(u, g)' <=> Holds(u, g)
    <2> TAKE u \in Threads, g \in Fibers
    <2>1. CASE pc[u] = "exec"
      <3>1. Cur(u) \in Fibers /\ OnCpu(u, Cur(u))
        BY <2>1, CurrentFiber DEF Stacked
      <3>2. Cur(u)' = Cur(u)
        BY ONLY <1>1 DEF Cur
      <3> QED
        BY ONLY u \in Threads, <2>1, <3>1, <3>2, <1>1, <1>2, <1>4 DEF Holds, Taken
    <2>2. CASE pc[u] # "exec"
      BY ONLY <2>2, <1>1 DEF Holds
    <2> QED
      BY <2>1, <2>2
  <1>8. \A g \in Fibers : Owed(g)' <=> Owed(g) \/ g = f
    BY ONLY <1>1, <1>5, <1>7 DEF Owed
  <1>9. Shape' /\ ExpiredOnce'
    <2>1. /\ Shape /\ ExpiredOnce
          /\ UNCHANGED <<pc, ft, cbFiber, idleFiber, cbs>>
      BY <1>1 DEF Ownership
    <2> QED
      BY ONLY <2>1 DEF Shape, ExpiredOnce, Cur
  <1>10. HeldOnce' /\ KindsApart'
    BY ONLY SMTT(30), Ownership, <1>1, <1>4, <1>5, <1>7 DEF Ownership, HeldOnce, KindsApart, Owed
  <1>11. OwedYielded' /\ RunningExec'
    BY ONLY Ownership, <1>1, <1>2, <1>4, <1>6, <1>8 DEF Ownership, OwedYielded, RunningExec
  <1>12. TakenRests'
    BY ONLY Ownership, TypeOK, <1>1, <1>2, TakenFibers, Zenon DEF Ownership, TakenRests
  <1>13. FiberExclusive' /\ CbFiberRuns' /\ CbFiberOwn'
    BY ONLY Ownership, <1>1, <1>6 DEF Ownership, FiberExclusive, CbFiberRuns, CbFiberOwn
  <1>14. CbFiberRests' /\ PoolFree'
    BY ONLY Ownership, <1>1, <1>2, <1>4, <1>6, <1>8, Zenon DEF Ownership, CbFiberRests, PoolFree
  <1>15. WakerRuns'
    BY ONLY Ownership, <1>1, <1>2, <1>6, ConstantsAssumption, Zenon DEF Ownership, WakerRuns
  <1> QED
    BY ONLY <1>5, <1>9, <1>10, <1>11, <1>12, <1>13, <1>14, <1>15, Zenon DEF Ownership

=============================================================================
