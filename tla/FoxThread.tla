----------------------------- MODULE FoxThread -----------------------------
(***************************************************************************)
(* FoxThread and FoxThreadPool (db/fox_thread.cc): callbacks are appended  *)
(* to a thread's list and a byte is sent to wake it; the thread takes the  *)
(* whole list at once. A pool of the "advance" kind keeps its own list and *)
(* gives a callback to a free thread; the thread is free again when the    *)
(* last copy of the shared pointer in the callback is gone.                *)
(***************************************************************************)
EXTENDS Naturals, FiniteSets, SequencesExt

CONSTANTS FoxSize,     \* bound: the largest pool
          FoxUsers,    \* who calls dispatch()
          FoxJobs,     \* the callbacks
          Boss,        \* who starts and stops the pool
          SockCap      \* bound: bytes a socket pair holds

ASSUME FoxAssumption == FoxSize \in Nat /\ SockCap \in Nat \ {0} /\ Boss \notin FoxUsers

\* m_threads; a pool has the first m_size of them.
FoxThreads == 1..FoxSize

VARIABLES size,     \* m_size
          cbs,      \* m_callbacks of each thread: <<callback, for the pool?>>
          bytes,    \* bytes in its socket
          loop,     \* its place in the event loop
          batch,    \* the list read_cb has taken
          held,     \* the list holds a copy of the pool's pointer
          live,     \* m_start of each thread
          wait,     \* m_callbacks of the pool
          free,     \* m_freeFoxThreads
          started,  \* m_start of the pool
          copies,   \* copies of the pool's pointer to each thread
          act,      \* where each caller of dispatch() or check() is
          ran       \* how often each callback ran

foxVars == <<size, cbs, bytes, loop, batch, held, live, wait, free, started, copies, act, ran>>
threadVars == <<loop, batch, held, live, ran>>
poolVars == <<size, wait, free, started, copies>>

Actors == FoxThreads \cup FoxUsers \cup {Boss}
StopCb == <<"stop", FALSE>>
Is(a, place) == act[a].at = place
At(place, t) == [at |-> place, thread |-> t, pool |-> FALSE, cb |-> "none"]
Rest == At("idle", "none")

FoxInit ==
    /\ size \in 1..FoxSize
    /\ cbs = [t \in FoxThreads |-> <<>>] /\ batch = cbs
    /\ bytes = [t \in FoxThreads |-> 0] /\ copies = bytes
    /\ loop = [t \in FoxThreads |-> "new"]
    /\ held = [t \in FoxThreads |-> FALSE] /\ live = held
    /\ wait = <<>> /\ free = <<>> /\ started = "no"
    /\ act = [a \in Actors |-> Rest]
    /\ ran = [j \in FoxJobs |-> 0]

-----------------------------------------------------------------------------
\* dispatch() and batchDispatch() of a thread: the callbacks are appended,
\* the lock given up, and one byte sent.
Push(t, js, ofPool) == [cbs EXCEPT ![t] = @ \o [i \in DOMAIN js |-> <<js[i], ofPool>>]]

Given == UNION {{cbs[t][i][1] : i \in DOMAIN cbs[t]} : t \in FoxThreads} \cup ToSet(wait)
             \cup {act[a].cb : a \in Actors}
             \cup UNION {{batch[t][i][1] : i \in DOMAIN batch[t]} : t \in FoxThreads}
Fresh(js) == \A i \in DOMAIN js : ran[js[i]] = 0 /\ js[i] \notin Given

Dispatch(u, t, js) ==
    /\ Is(u, "idle") /\ Fresh(js)
    /\ cbs' = Push(t, js, FALSE)
    /\ act' = [act EXCEPT ![u] = At("send", t)]
    /\ UNCHANGED <<bytes, threadVars, poolVars>>

Signal(t) == [bytes EXCEPT ![t] = IF @ < SockCap THEN @ + 1 ELSE @]

\* Mutant: no byte is sent to a thread that is busy.
SendOnce(a) ==
    /\ Is(a, "send")
    /\ bytes' = IF loop[act[a].thread] = "loop" THEN Signal(act[a].thread) ELSE bytes
    /\ act' = [act EXCEPT ![a] = IF @.pool THEN [@ EXCEPT !.at = "drop"] ELSE Rest]
    /\ UNCHANGED <<cbs, threadVars, poolVars>>

\* A full socket makes dispatch() answer false; the callback stays.
Send(a) ==
    /\ Is(a, "send")
    /\ bytes' = Signal(act[a].thread)
    /\ act' = [act EXCEPT ![a] = IF @.pool THEN [@ EXCEPT !.at = "drop"] ELSE Rest]
    /\ UNCHANGED <<cbs, threadVars, poolVars>>

Stopped(t) == StopCb \in ToSet(cbs[t] \o batch[t]) \/ loop[t] \in {"break", "off"}

\* stop() of a thread appends the null callback and sends under the lock.
StopThread(t) ==
    /\ started = "stopping" /\ t <= size /\ ~Stopped(t) /\ \A s \in 1..(t - 1) : Stopped(s)
    /\ cbs' = [cbs EXCEPT ![t] = Append(@, StopCb)]
    /\ bytes' = Signal(t)
    /\ UNCHANGED <<threadVars, poolVars, act>>

-----------------------------------------------------------------------------
\* read_cb(): recv() takes the bytes, then the list is swapped ...
Recv(t) ==
    /\ loop[t] = "loop" /\ bytes[t] > 0 /\ Is(t, "idle")
    /\ bytes' = [bytes EXCEPT ![t] = 0]
    /\ loop' = [loop EXCEPT ![t] = "swap"]
    /\ UNCHANGED <<cbs, batch, held, live, ran, poolVars, act>>

Swap(t) ==
    /\ loop[t] = "swap"
    /\ batch' = [batch EXCEPT ![t] = cbs[t]]
    /\ cbs' = [cbs EXCEPT ![t] = <<>>]
    /\ held' = [held EXCEPT ![t] = \E i \in DOMAIN cbs[t] : cbs[t][i][2]]
    /\ loop' = [loop EXCEPT ![t] = "run"]
    /\ UNCHANGED <<bytes, live, ran, poolVars, act>>

\* Mutant: a callback that throws is tried again.
RunAgain(t) ==
    /\ loop[t] = "run" /\ batch[t] # <<>>
    /\ \/ batch' = [batch EXCEPT ![t] = Tail(@)] \/ UNCHANGED batch
    /\ IF Head(batch[t]) = StopCb
       THEN UNCHANGED ran
       ELSE ran' = [ran EXCEPT ![Head(batch[t])[1]] = @ + 1]
    /\ UNCHANGED <<cbs, bytes, loop, held, live, poolVars, act>>

\* ... and each callback called, up to a null one, which ends the loop and
\* drops those behind it. An exception of a callback is caught.
Run(t) ==
    /\ loop[t] = "run" /\ batch[t] # <<>>
    /\ IF Head(batch[t]) = StopCb
       THEN /\ batch' = [batch EXCEPT ![t] = <<>>]
            /\ loop' = [loop EXCEPT ![t] = "break"]
            /\ live' = [live EXCEPT ![t] = FALSE]
            /\ UNCHANGED ran
       ELSE /\ batch' = [batch EXCEPT ![t] = Tail(@)]
            /\ ran' = [ran EXCEPT ![Head(batch[t])[1]] = @ + 1]
            /\ UNCHANGED <<loop, live>>
    /\ UNCHANGED <<cbs, bytes, held, poolVars, act>>

\* One copy of the pool's pointer to t goes; with the last one
\* releaseFoxThread() makes t free.
Released(t) ==
    /\ copies' = [copies EXCEPT ![t] = @ - 1]
    /\ free' = IF copies[t] = 1 THEN Append(free, t) ELSE free

\* The list is destroyed at the end of read_cb, with the copies in it.
EndBatch(t) ==
    /\ \/ loop[t] = "run" /\ batch[t] = <<>> /\ loop' = [loop EXCEPT ![t] = "loop"]
       \/ loop[t] = "break" /\ loop' = [loop EXCEPT ![t] = "off"]
    /\ IF held[t]
       THEN /\ Released(t)
            /\ act' = IF copies[t] = 1 THEN [act EXCEPT ![t] = At("check", t)] ELSE act
       ELSE UNCHANGED <<copies, free, act>>
    /\ held' = [held EXCEPT ![t] = FALSE]
    /\ UNCHANGED <<size, cbs, bytes, batch, live, ran, wait, started>>

-----------------------------------------------------------------------------
\* start() of the pool, thread by thread, then check().
StartThread(t) ==
    /\ t <= size /\ loop[t] = "new" /\ \A s \in 1..(t - 1) : loop[s] # "new"
    /\ loop' = [loop EXCEPT ![t] = "loop"] /\ live' = [live EXCEPT ![t] = TRUE]
    /\ free' = Append(free, t)
    /\ UNCHANGED <<size, cbs, bytes, batch, held, wait, started, copies, act, ran>>

PoolStart ==
    /\ started = "no" /\ \A t \in 1..size : loop[t] # "new"
    /\ started' = "yes" /\ act' = [act EXCEPT ![Boss] = At("check", "none")]
    /\ UNCHANGED <<size, cbs, bytes, threadVars, wait, free, copies>>

\* stop() of the pool stops the threads first, then clears m_start.
PoolStop ==
    /\ Is(Boss, "idle")
    /\ \/ started = "yes" /\ started' = "stopping"
       \/ started = "stopping" /\ (\A t \in 1..size : Stopped(t)) /\ started' = "stopped"
    /\ UNCHANGED <<size, cbs, bytes, threadVars, wait, free, copies, act>>

\* dispatch() and batchDispatch() of an "advance" pool; the other kind is
\* dispatch() of one of its threads.
PoolDispatch(u, js) ==
    /\ Is(u, "idle") /\ Fresh(js)
    /\ wait' = wait \o js
    /\ act' = [act EXCEPT ![u] = At("check", "none")]
    /\ UNCHANGED <<size, cbs, bytes, threadVars, free, started, copies>>

\* check(): a free thread and a callback are taken under the lock. The check()
\* that releaseFoxThread() calls inside another is one with its loop.
Check(a) ==
    /\ Is(a, "check")
    /\ IF started \notin {"yes", "stopping"} \/ free = <<>> \/ wait = <<>>
       THEN act' = [act EXCEPT ![a] = Rest] /\ UNCHANGED <<wait, free, copies>>
       ELSE /\ act' = [act EXCEPT ![a] = [at |-> "taken", thread |-> Head(free), pool |-> TRUE, cb |-> Head(wait)]]
            /\ wait' = Tail(wait) /\ free' = Tail(free)
            /\ copies' = [copies EXCEPT ![Head(free)] = 1]
    /\ UNCHANGED <<size, cbs, bytes, threadVars, started>>

\* isStart(), without a lock: if the thread has stopped, the callback goes back
\* to the front.
IfStarted(a) ==
    /\ Is(a, "taken")
    /\ IF live[act[a].thread]
       THEN act' = [act EXCEPT ![a] = [@ EXCEPT !.at = "give"]] /\ UNCHANGED wait
       ELSE /\ wait' = <<act[a].cb>> \o wait
            /\ act' = [act EXCEPT ![a] = [@ EXCEPT !.at = "drop", !.cb = "none"]]
    /\ UNCHANGED <<size, cbs, bytes, threadVars, free, started, copies>>

\* Mutant: the callback does not keep a copy of the pointer.
HandOverBare(a) ==
    /\ Is(a, "give")
    /\ cbs' = Push(act[a].thread, <<act[a].cb>>, TRUE)
    /\ act' = [act EXCEPT ![a] = [@ EXCEPT !.at = "send", !.cb = "none"]]
    /\ UNCHANGED <<bytes, threadVars, poolVars>>

\* dispatch() of a thread that was started, and may have stopped since: the
\* callback goes into its list with a copy of the pointer.
HandOver(a) ==
    /\ Is(a, "give")
    /\ cbs' = Push(act[a].thread, <<act[a].cb>>, TRUE)
    /\ copies' = [copies EXCEPT ![act[a].thread] = 2]
    /\ act' = [act EXCEPT ![a] = [@ EXCEPT !.at = "send", !.cb = "none"]]
    /\ UNCHANGED <<size, bytes, threadVars, wait, free, started>>

\* The end of the loop's body: check()'s own copy goes.
Drop(a) ==
    /\ Is(a, "drop")
    /\ Released(act[a].thread)
    /\ act' = [act EXCEPT ![a] = At("check", "none")]
    /\ UNCHANGED <<size, cbs, bytes, threadVars, wait, started>>

-----------------------------------------------------------------------------
Acts(a) == Send(a) \/ Check(a) \/ IfStarted(a) \/ HandOver(a) \/ Drop(a)
Loops(t) == Recv(t) \/ Swap(t) \/ Run(t) \/ EndBatch(t)

\* Bound: one or two callbacks at a time, in a fixed order.
Lists == {<<j>> : j \in FoxJobs} \cup {SetToSeq(FoxJobs)}

FoxNext ==
    \/ \E a \in Actors : Acts(a)
    \/ \E t \in FoxThreads : Loops(t) \/ StartThread(t) \/ StopThread(t)
    \/ PoolStart \/ PoolStop
    \/ \E u \in FoxUsers, js \in Lists : PoolDispatch(u, js) \/ \E t \in 1..size : Dispatch(u, t, js)

\* stop() goes on, thread by thread.
Stops == started = "stopping" /\ (PoolStop \/ \E t \in FoxThreads : StopThread(t))

\* Every thread of the process goes on with what it is at; the one that starts
\* or stops the pool finishes that.
FoxFair ==
    /\ \A t \in FoxThreads : WF_foxVars(Acts(t) \/ Loops(t))
    /\ \A u \in FoxUsers : WF_foxVars(Acts(u))
    /\ WF_foxVars(Acts(Boss) \/ PoolStart \/ Stops \/ \E t \in FoxThreads : StartThread(t))

-----------------------------------------------------------------------------
Queued(t, j) == \E p \in BOOLEAN : <<j, p>> \in ToSet(cbs[t]) \cup ToSet(batch[t])

\* A callback is in one place at a time and runs at most once, although
\* dispatch() may answer false for one that is queued.
JobOnce ==
    \A j \in FoxJobs :
        /\ ran[j] <= 1
        /\ Cardinality({t \in FoxThreads : Queued(t, j)}) + Cardinality({a \in Actors : act[a].cb = j})
             + (IF j \in ToSet(wait) THEN 1 ELSE 0) + ran[j] <= 1

\* A thread is in the free list once, and only when no callback of the pool
\* is queued or running there.
FreeIsFree ==
    /\ IsInjective(free)
    /\ \A t \in ToSet(free) : ~held[t] /\ copies[t] = 0 /\ \A i \in DOMAIN cbs[t] : ~cbs[t][i][2]

\* Until stop(), every callback that was dispatched runs; and every call of
\* dispatch() returns, although its check() takes a stopped thread again and
\* again until stop() has cleared m_start.
JobRuns ==
    FoxFair =>
        /\ \A j \in FoxJobs :
             j \in ToSet(wait) \/ (\E t \in FoxThreads : Queued(t, j))
                 ~> ran[j] > 0 \/ started \in {"stopping", "stopped"}
        /\ \A u \in FoxUsers : ~Is(u, "idle") ~> Is(u, "idle")
=============================================================================
