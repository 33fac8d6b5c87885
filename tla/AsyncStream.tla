---------------------------- MODULE AsyncStream ----------------------------
(***************************************************************************)
(* AsyncSocketStream (streams/async_socket_stream.cc) with the requests of *)
(* RockStream (rock/rock_stream.cc): one fiber reads, one writes, and      *)
(* start() runs when both have ended. An answer, a timeout and a closed    *)
(* connection race to complete a request. The fibers wait on the           *)
(* semaphores of SemOps; a fiber that waits is entered there under the     *)
(* place where it goes on.                                                 *)
(***************************************************************************)
EXTENDS SemOps, FiniteSets, SequencesExt

CONSTANTS Reqs,        \* calls of request() and sendMessage()
          Plain,       \* those of sendMessage(): nobody waits for an answer
          MaxStarts,   \* bound: how often start() runs
          Autos        \* m_autoConnect, as the stream was made

ASSUME AsyncAssumption == Plain \subseteq Reqs /\ MaxStarts \in Nat /\ Autos \subseteq BOOLEAN

VARIABLES up,        \* isConnected()
          auto,      \* m_autoConnect
          waitSem, sendSem,            \* m_waitSem, m_sem
          starter, reader, writer,     \* start(), doRead(), doWrite()
          starts,    \* how often start() ran
          retry,     \* the pending start() is m_timer, which close() cancels
          closing,   \* the step of innerClose() each of the three is in
          queue, batch, ctxs,          \* m_queue, the list doWrite sends, m_ctxs
          sent,      \* requests the peer has and may answer
          req,       \* the Ctx of each request, and its caller's place
          tasks,     \* <<who, request, step>>: completions under way
          closed,    \* the progress of a user's close()
          clash      \* a loop was started while the last one still ran

linkVars == <<up, auto, starts, retry, closed, clash>>
loopVars == <<starter, reader, writer, waitSem>>
reqVars == <<ctxs, req, tasks>>
sendVars == <<queue, batch, sent>>
asyncVars == <<linkVars, loopVars, reqVars, sendVars, sendSem, closing>>

Closers == {"starter", "reader", "writer"}

AsyncInit ==
    /\ up \in BOOLEAN /\ auto \in Autos
    /\ waitSem = SemNew(2) /\ sendSem = SemNew(0)
    /\ starter = "wait1" /\ reader = "off" /\ writer = "off"
    /\ starts = 1 /\ retry = FALSE
    /\ closing = [p \in Closers |-> "no"]
    /\ queue = <<>> /\ batch = <<>> /\ ctxs = {} /\ sent = {}
    /\ req = [r \in Reqs |-> [pc |-> "new", scheduler |-> TRUE, timer |-> "no",
                              timed |-> FALSE, result |-> "ok", response |-> FALSE, wakes |-> 0, got |-> <<>>]]
    /\ tasks = {}
    /\ closed = "no" /\ clash = FALSE

-----------------------------------------------------------------------------
\* m_waitSem.notify() and m_sem.notify(): the fiber that waits goes on.
NotifyWait ==
    /\ waitSem' = SemNotify(waitSem)
    /\ starter' = IF waitSem.waiters = <<>> THEN starter ELSE Head(waitSem.waiters)

NotifySend ==
    /\ sendSem' = SemNotify(sendSem)
    /\ writer' = IF sendSem.waiters = <<>> THEN writer ELSE Head(sendSem.waiters)

Step(r, field, v) == [req EXCEPT ![r] = [@ EXCEPT ![field] = v]]

\* request() of RockStream: isConnected(), addCtx, addTimer, enqueue, yield;
\* sendMessage() only enqueues.
Call(r) ==
    /\ req[r].pc = "new"
    /\ req' = Step(r, "pc", CASE ~up -> "done" [] r \in Plain -> "push" [] OTHER -> "add")
    /\ UNCHANGED <<linkVars, loopVars, ctxs, tasks, sendVars, sendSem, closing>>

AddCtx(r) ==
    /\ req[r].pc = "add"
    /\ ctxs' = ctxs \cup {r}
    /\ req' = Step(r, "pc", "arm")
    /\ UNCHANGED <<linkVars, loopVars, tasks, sendVars, sendSem, closing>>

\* Mutant: the request has no timer.
AddNoTimer(r) ==
    /\ req[r].pc = "arm"
    /\ req' = Step(r, "pc", "push")
    /\ UNCHANGED <<linkVars, loopVars, ctxs, tasks, sendVars, sendSem, closing>>

AddTimer(r) ==
    /\ req[r].pc = "arm"
    /\ req' = [req EXCEPT ![r] = [@ EXCEPT !.pc = "push", !.timer = "set"]]
    /\ UNCHANGED <<linkVars, loopVars, ctxs, tasks, sendVars, sendSem, closing>>

After(r) == IF r \in Plain THEN "done" ELSE "held"

\* enqueue(): the writer is told only if the queue was empty.
Enqueue(r) ==
    /\ req[r].pc = "push"
    /\ queue' = Append(queue, r)
    /\ req' = Step(r, "pc", IF queue = <<>> THEN "tell" ELSE After(r))
    /\ UNCHANGED <<linkVars, loopVars, ctxs, tasks, batch, sent, sendSem, closing>>

Tell(r) ==
    /\ req[r].pc = "tell"
    /\ NotifySend
    /\ req' = Step(r, "pc", After(r))
    /\ UNCHANGED <<linkVars, starter, reader, waitSem, ctxs, tasks, sendVars, closing>>

\* The fiber, scheduled by doRsp(), reads result and response.
Return(r) ==
    /\ req[r].pc = "held" /\ req[r].wakes > 0
    /\ req' = [req EXCEPT ![r] = [@ EXCEPT !.pc = "done", !.got = <<req[r].result, req[r].response>>]]
    /\ UNCHANGED <<linkVars, loopVars, ctxs, tasks, sendVars, sendSem, closing>>

\* onTimeOut(): the timer is due, and its callback erases the Ctx.
OnTimeOut(r) ==
    /\ req[r].timer = "set"
    /\ ctxs' = ctxs \ {r}
    /\ req' = Step(r, "timer", "fired")
    /\ tasks' = tasks \cup {<<"timer", r, "mark">>}
    /\ UNCHANGED <<linkVars, loopVars, sendVars, sendSem, closing>>

\* What each completer stores before doRsp(): the timeout its mark,
\* innerClose an error, doRecv the result and then the response.
Mark(who, r) ==
    /\ <<who, r, "mark">> \in tasks
    /\ req' = CASE who = "timer" -> Step(r, "timed", TRUE)
                [] who = "reader" -> Step(r, "result", "ok")
                [] OTHER -> Step(r, "result", "error")
    /\ tasks' = (tasks \ {<<who, r, "mark">>})
                  \cup {<<who, r, IF who = "reader" THEN "answer" ELSE "rsp">>}
    /\ UNCHANGED <<linkVars, loopVars, ctxs, sendVars, sendSem, closing>>

Answer(r) ==
    /\ <<"reader", r, "answer">> \in tasks
    /\ req' = Step(r, "response", TRUE)
    /\ tasks' = (tasks \ {<<"reader", r, "answer">>}) \cup {<<"reader", r, "rsp">>}
    /\ UNCHANGED <<linkVars, loopVars, ctxs, sendVars, sendSem, closing>>

\* Mutant: doRsp() tests the scheduler and clears it later.
ClaimLate(who, r) ==
    /\ <<who, r, "rsp">> \in tasks
    /\ UNCHANGED req
    /\ tasks' = (tasks \ {<<who, r, "rsp">>})
                  \cup (IF req[r].scheduler THEN {<<who, r, "wake">>} ELSE {})
    /\ UNCHANGED <<linkVars, loopVars, ctxs, sendVars, sendSem, closing>>

\* doRsp(): the compare-and-swap of scheduler ...
Claim(who, r) ==
    /\ <<who, r, "rsp">> \in tasks
    /\ req' = Step(r, "scheduler", FALSE)
    /\ tasks' = (tasks \ {<<who, r, "rsp">>})
                  \cup (IF req[r].scheduler THEN {<<who, r, "wake">>} ELSE {})
    /\ UNCHANGED <<linkVars, loopVars, ctxs, sendVars, sendSem, closing>>

\* ... then the timer is cancelled, the mark read and the fiber scheduled.
Wake(who, r) ==
    /\ <<who, r, "wake">> \in tasks
    /\ req' = [req EXCEPT ![r] = [@ EXCEPT
                 !.timer = IF @ = "set" THEN "off" ELSE @,
                 !.result = IF req[r].timed THEN "timeout" ELSE @,
                 !.scheduler = FALSE,
                 !.wakes = @ + 1]]
    /\ tasks' = tasks \ {<<who, r, "wake">>}
    /\ UNCHANGED <<linkVars, loopVars, ctxs, sendVars, sendSem, closing>>

Complete(who, r) == Mark(who, r) \/ Claim(who, r) \/ Wake(who, r)

-----------------------------------------------------------------------------
\* innerClose(): the socket is closed and the writer told, then the requests
\* taken, the queue cleared, and each request completed.
CloseSocket(p) ==
    /\ closing[p] = "socket"
    /\ up' = FALSE /\ sent' = {}
    /\ NotifySend
    /\ closing' = [closing EXCEPT ![p] = "take"]
    /\ UNCHANGED <<auto, starts, retry, closed, clash, starter, reader, waitSem, reqVars, queue, batch>>

\* Mutant: IO_ERROR is not stored.
CloseUnset(p) ==
    /\ closing[p] = "take"
    /\ tasks' = tasks \cup {<<p, r, "rsp">> : r \in ctxs}
    /\ ctxs' = {}
    /\ closing' = [closing EXCEPT ![p] = "clear"]
    /\ UNCHANGED <<linkVars, loopVars, req, sendVars, sendSem>>

CloseTake(p) ==
    /\ closing[p] = "take"
    /\ tasks' = tasks \cup {<<p, r, "mark">> : r \in ctxs}
    /\ ctxs' = {}
    /\ closing' = [closing EXCEPT ![p] = "clear"]
    /\ UNCHANGED <<linkVars, loopVars, req, sendVars, sendSem>>

CloseClear(p) ==
    /\ closing[p] = "clear"
    /\ queue' = <<>>
    /\ closing' = [closing EXCEPT ![p] = "no"]
    /\ UNCHANGED <<linkVars, loopVars, reqVars, batch, sent, sendSem>>

InnerClose(p) == CloseSocket(p) \/ CloseTake(p) \/ CloseClear(p)

\* p is not inside innerClose() or doRsp().
Idle(p) == closing[p] = "no" /\ ~\E t \in tasks : t[1] = p

-----------------------------------------------------------------------------
\* doRead(): while connected, doRecv().
ReadLoop ==
    /\ reader = "loop" /\ Idle("reader")
    /\ reader' = IF up THEN "recv" ELSE "note"
    /\ closing' = IF up THEN closing ELSE [closing EXCEPT !["reader"] = "socket"]
    /\ UNCHANGED <<linkVars, starter, writer, waitSem, reqVars, sendVars, sendSem>>

\* doRecv() gets an answer: getAndDelCtx finds its request, or it is late.
Receive(r) ==
    /\ reader = "recv" /\ up /\ r \in sent
    /\ IF r \in ctxs
       THEN ctxs' = ctxs \ {r} /\ tasks' = tasks \cup {<<"reader", r, "mark">>}
       ELSE UNCHANGED <<ctxs, tasks>>
    /\ reader' = "loop"
    /\ UNCHANGED <<linkVars, starter, writer, waitSem, req, sendVars, sendSem, closing>>

\* doRecv() gets no message: the peer or this side has closed.
ReceiveFails ==
    /\ reader = "recv"
    /\ closing' = [closing EXCEPT !["reader"] = "socket"]
    /\ reader' = "loop"
    /\ UNCHANGED <<linkVars, starter, writer, waitSem, reqVars, sendVars, sendSem>>

\* Mutant: the timer is added without a look at m_autoConnect.
ReadNoteAlways ==
    /\ reader = "note" /\ Idle("reader")
    /\ waitSem' = SemNotify(waitSem)
    /\ reader' = "rearm"
    /\ UNCHANGED <<linkVars, starter, writer, reqVars, sendVars, sendSem, closing>>

\* At the end m_waitSem.notify() and a look at m_autoConnect, which no lock
\* protects; no start() can be waiting before ...
ReadNote ==
    /\ reader = "note" /\ Idle("reader")
    /\ waitSem' = SemNotify(waitSem)
    /\ reader' = IF auto THEN "rearm" ELSE "off"
    /\ UNCHANGED <<linkVars, starter, writer, reqVars, sendVars, sendSem, closing>>

\* ... the timer of 10 ms that starts it all again.
ReadTimer ==
    /\ reader = "rearm"
    /\ reader' = "off" /\ starter' = "timer" /\ retry' = FALSE
    /\ UNCHANGED <<up, auto, starts, closed, clash, writer, waitSem, reqVars, sendVars, sendSem, closing>>

\* doWrite(): while connected, wait for the queue ...
WriteLoop ==
    /\ writer = "loop" /\ Idle("writer")
    /\ \/ ~up /\ writer' = "out" /\ UNCHANGED sendSem
       \/ up /\ SemFree(sendSem) /\ sendSem' = SemTake(sendSem) /\ writer' = "swap"
       \/ up /\ ~SemFree(sendSem) /\ sendSem' = SemEnqueue(sendSem, "swap") /\ writer' = "wait"
    /\ UNCHANGED <<linkVars, starter, reader, waitSem, reqVars, sendVars, closing>>

\* Mutant: one item is taken for one permit.
WriteTakesOne ==
    /\ writer = "swap"
    /\ IF queue = <<>> THEN batch' = <<>> /\ UNCHANGED queue
                       ELSE batch' = <<Head(queue)>> /\ queue' = Tail(queue)
    /\ writer' = "send"
    /\ UNCHANGED <<linkVars, starter, reader, waitSem, reqVars, sent, sendSem, closing>>

\* ... take it and send what it held.
WriteSwap ==
    /\ writer = "swap"
    /\ batch' = queue /\ queue' = <<>>
    /\ writer' = "send"
    /\ UNCHANGED <<linkVars, starter, reader, waitSem, reqVars, sent, sendSem, closing>>

WriteSend ==
    /\ writer = "send"
    /\ \/ batch = <<>> /\ writer' = "loop" /\ UNCHANGED <<batch, sent, closing>>
       \/ /\ batch # <<>> /\ up
          /\ batch' = Tail(batch) /\ sent' = sent \cup ({Head(batch)} \ Plain)
          /\ UNCHANGED <<writer, closing>>
       \/ /\ batch # <<>>
          /\ batch' = <<>> /\ writer' = "loop"
          /\ closing' = [closing EXCEPT !["writer"] = "socket"]
          /\ UNCHANGED sent
    /\ UNCHANGED <<linkVars, starter, reader, waitSem, reqVars, queue, sendSem>>

\* Mutant: the writer does not give its permit back.
WriteOutSilent ==
    /\ writer = "out"
    /\ queue' = <<>> /\ writer' = "off"
    /\ UNCHANGED <<linkVars, starter, reader, waitSem, reqVars, batch, sent, sendSem, closing>>

\* At the end the queue is cleared and m_waitSem told.
WriteOut ==
    /\ writer = "out"
    /\ queue' = <<>> /\ writer' = "off"
    /\ NotifyWait
    /\ UNCHANGED <<linkVars, reader, reqVars, batch, sent, sendSem, closing>>

-----------------------------------------------------------------------------
\* start(), called by its timer.
TimerFires ==
    /\ starter = "timer" /\ starts < MaxStarts
    /\ starter' = "wait1" /\ starts' = starts + 1
    /\ UNCHANGED <<up, auto, retry, closed, clash, reader, writer, waitSem, reqVars, sendVars, sendSem, closing>>

\* Mutant: waitFiber() waits for one fiber.
WaitOneFiber ==
    /\ starter = "wait1"
    /\ IF SemFree(waitSem)
       THEN waitSem' = SemTake(waitSem) /\ starter' = "connect"
       ELSE waitSem' = SemEnqueue(waitSem, "connect") /\ starter' = "parked"
    /\ UNCHANGED <<linkVars, reader, writer, reqVars, sendVars, sendSem, closing>>

\* waitFiber(): twice m_waitSem.wait().
WaitFiber ==
    \E s \in {<<"wait1", "wait2">>, <<"wait2", "connect">>} :
        /\ starter = s[1]
        /\ IF SemFree(waitSem)
           THEN waitSem' = SemTake(waitSem) /\ starter' = s[2]
           ELSE waitSem' = SemEnqueue(waitSem, s[2]) /\ starter' = "parked"
        /\ UNCHANGED <<linkVars, reader, writer, reqVars, sendVars, sendSem, closing>>

\* reconnect() and m_connectCb, either of which may fail.
Connect ==
    /\ starter = "connect"
    /\ \/ /\ up' \in (IF up THEN {TRUE} ELSE BOOLEAN)
          /\ starter' = IF up' THEN "read" ELSE "fail"
          /\ closing' = IF up' THEN closing ELSE [closing EXCEPT !["starter"] = "socket"]
       \/ /\ up' = TRUE /\ starter' = "fail"
          /\ closing' = [closing EXCEPT !["starter"] = "socket"]
    /\ retry' = FALSE
    /\ UNCHANGED <<auto, starts, closed, clash, reader, writer, waitSem, reqVars, sendVars, sendSem>>

\* startRead(), then startWrite(); the new reader may end in between.
StartRead ==
    /\ starter = "read"
    /\ reader' = "loop" /\ writer' = "start" /\ starter' = "off"
    /\ clash' = (clash \/ reader # "off" \/ writer # "off")
    /\ UNCHANGED <<up, auto, starts, retry, closed, waitSem, reqVars, sendVars, sendSem, closing>>

StartWrite ==
    /\ writer = "start"
    /\ writer' = "loop"
    /\ UNCHANGED <<linkVars, starter, reader, waitSem, reqVars, sendVars, sendSem, closing>>

\* After a failure both permits go back; if m_autoConnect is still set ...
StartFails ==
    /\ starter = "fail" /\ Idle("starter")
    /\ waitSem' = SemNotify(SemNotify(waitSem))
    /\ starter' = IF auto THEN "again" ELSE "off"
    /\ UNCHANGED <<linkVars, reader, writer, reqVars, sendVars, sendSem, closing>>

\* ... m_timer is added and tries again.
StartTimer ==
    /\ starter = "again"
    /\ starter' = "timer" /\ retry' = TRUE
    /\ UNCHANGED <<up, auto, starts, closed, clash, reader, writer, waitSem, reqVars, sendVars, sendSem, closing>>

\* close() of the user: m_autoConnect is cleared at once; in the stream's
\* IOManager m_timer is cancelled and the socket closed.
UserClose ==
    /\ \/ closed = "no" /\ closed' = "asked" /\ auto' = FALSE
          /\ UNCHANGED <<up, sent, starter, retry>>
       \/ /\ closed = "asked" /\ closed' = "done"
          /\ up' = FALSE /\ sent' = {}
          /\ retry' = FALSE
          /\ starter' = IF starter = "timer" /\ retry THEN "off" ELSE starter
          /\ UNCHANGED auto
    /\ UNCHANGED <<starts, clash, reader, writer, waitSem, reqVars, queue, batch, sendSem, closing>>

-----------------------------------------------------------------------------
Callers(r) == AddCtx(r) \/ AddTimer(r) \/ Enqueue(r) \/ Tell(r) \/ Return(r)
Completers(r) == Answer(r) \/ \E who \in Closers \cup {"timer"} : Complete(who, r)
Reads == ReadLoop \/ ReadNote \/ ReadTimer
Writes == WriteLoop \/ WriteSwap \/ WriteSend \/ WriteOut \/ StartWrite
Starts == TimerFires \/ WaitFiber \/ Connect \/ StartRead \/ StartFails \/ StartTimer

\* What is done without the peer, the user and the clock.
Work ==
    \/ \E r \in Reqs : Callers(r) \/ Completers(r)
    \/ \E p \in Closers : InnerClose(p)
    \/ Writes \/ Starts

AsyncNext ==
    \/ Work \/ Reads
    \/ \E r \in Reqs : Call(r) \/ OnTimeOut(r) \/ Receive(r)
    \/ ReceiveFails \/ UserClose

\* Fibers that can run do, timers expire, and a reader on a closed socket is
\* resumed. Of the peer and the user nothing is assumed. Only a reader can
\* be busy for ever, so the rest of the work needs one condition.
AsyncFair ==
    /\ WF_asyncVars(Work) /\ WF_asyncVars(Reads)
    /\ WF_asyncVars(\E r \in Reqs : OnTimeOut(r))
    /\ WF_asyncVars(~up /\ ReceiveFails)

-----------------------------------------------------------------------------
\* start() starts a reader and a writer only when the last ones have ended:
\* m_waitSem has its two permits exactly when nobody reads, writes or starts.
OneLoopEach ==
    /\ ~clash
    /\ starter \in {"connect", "read", "fail"} => reader = "off" /\ writer = "off"

\* doRsp() schedules the caller of request() once, and a caller that is held
\* has been scheduled or will be: by its timer, or by who has claimed it.
\* A request that answers OK has its response, unless its timeout ran while
\* doRecv() was storing them.
CompletedOnce ==
    \A r \in Reqs : /\ req[r].wakes <= 1
                    /\ req[r].pc = "held" => \/ req[r].wakes = 1 \/ req[r].timer = "set"
                                             \/ \E t \in tasks : t[2] = r
                    /\ req[r].got = <<"ok", FALSE>> => req[r].timed

\* A queue with something in it is on its way to a writer: a permit is
\* there, or will be given by the caller that found the queue empty, or the
\* writer has taken one. enqueue() tells nobody when the queue is not empty.
QueueServed ==
    queue # <<>> => \/ sendSem.concurrency > 0 \/ writer \in {"swap", "out"}
                    \/ \E r \in Reqs : req[r].pc = "tell"

\* After close() start() is called at most once more: by a timer of 10 ms that
\* was pending, which close() does not cancel, or by one that doRead() or
\* start() adds although close() came after its look at m_autoConnect.  Once that
\* start() has been called no timer is pending again, however it and its loops end.
StaysClosed ==
    \A n \in 1..(MaxStarts - 1) :
        [](closed = "done" /\ starts = n => [](starts > n => starter # "timer"))

\* Every request ends.
RequestEnds ==
    AsyncFair => \A r \in Reqs : req[r].pc # "new" ~> req[r].pc = "done"

\* A connection that was lost is tried again: both fibers end, whatever they
\* were waiting for, and start() gets their permits.
Reconnects ==
    AsyncFair => (~up /\ starts < MaxStarts ~> starter = "connect" \/ ~auto \/ up)
=============================================================================
