---------------------------- MODULE HookTimeouts ----------------------------
(***************************************************************************)
(* Proof that a hooked call with a timeout stays guarded by its timer      *)
(* (TimeoutKept of HookIO).                                                *)
(***************************************************************************)
EXTENDS HookIOProofs

\* A call that is about to wait, or waits, and was not marked has its timer or a
\* queued callback.
Armed ==
    \A f \in Waiters :
        call[f].at \in {"add", "held"} /\ call[f].timed /\ ~call[f].cancelled =>
            call[f].timer \/ call[f].queued > 0

\* epoll watches for what is waited for; after the number was given to a new
\* socket it may watch for nothing, and then who waits means an older socket.
Watching ==
    /\ \A f \in Waiters : call[f].sock <= opens
    /\ ~open => interest = {}
    /\ open /\ Alive =>
         \/ interest = events
         \/ interest = {} /\ \A f \in Waiters : Waits(f) => call[f].sock < opens

\* What a step is to the call of one fiber.
CallStep(f) ==
    LET c == call[f]  d == call'[f] IN
    \/ d = c /\ firing'[f] = firing[f]
    \/ d = c /\ FireCancel(f)
    \/ d.at \notin {"add", "held"} /\ (d.sock = c.sock \/ (c.at # "held" /\ d.sock \in {1, opens}))
    \/ /\ c.at = "add" /\ d.at = "held" /\ firing'[f] = firing[f]
       /\ d.dir = c.dir /\ d.timed = c.timed /\ d.sock = c.sock
       /\ d.timer = c.timer /\ d.queued = c.queued /\ d.cancelled = c.cancelled
    \/ c.at # "held" /\ d.at = "add" /\ d.sock = c.sock /\ (~d.timed \/ d.timer)
    \/ /\ d.at = c.at /\ d.dir = c.dir /\ d.timed = c.timed /\ d.sock = c.sock
       /\ \/ d.cancelled = c.cancelled /\ d.queued > 0 /\ firing'[f] = firing[f]
          \/ d.cancelled /\ firing[f] = "no" /\ firing'[f] = IF c.cancelled THEN "no" ELSE c.dir

\* The fields of a call after a step that changes it.
LEMMA CallFields ==
    ASSUME HookTypes, NEW f \in Waiters
    PROVE  /\ NoCall.at = "out" /\ NoCall.sock = 1
           /\ \A a : LET d == [call[f] EXCEPT !.at = a] IN
                /\ d.at = a /\ d.dir = call[f].dir /\ d.timed = call[f].timed /\ d.sock = call[f].sock
                /\ d.timer = call[f].timer /\ d.queued = call[f].queued
                /\ d.cancelled = call[f].cancelled
           /\ \A a, t : LET d == [call[f] EXCEPT !.at = a, !.timer = t] IN
                d.at = a /\ d.timed = call[f].timed /\ d.sock = call[f].sock /\ d.timer = t
           /\ \A e, b, t : LET d == [NoCall EXCEPT !.at = "try", !.dir = e, !.connects = b,
                                                  !.timed = t, !.sock = opens] IN
                d.at = "try" /\ d.sock = opens
           /\ \A t, q : LET d == [call[f] EXCEPT !.timer = t, !.queued = q] IN
                /\ d.at = call[f].at /\ d.dir = call[f].dir /\ d.timed = call[f].timed
                /\ d.sock = call[f].sock /\ d.queued = q /\ d.cancelled = call[f].cancelled
           /\ \A t, q : LET d == [call[f] EXCEPT !.queued = q, !.cancelled = t] IN
                /\ d.at = call[f].at /\ d.dir = call[f].dir /\ d.timed = call[f].timed
                /\ d.sock = call[f].sock /\ d.cancelled = t
<1>1. call[f] \in Calls
  BY DEF HookTypes
<1> QED BY <1>1, Zenon DEF Calls, NoCall

\* A step of another fiber is none to this one.
LEMMA OwnSteps ==
    ASSUME HookTypes, NEW g \in Waiters, NEW f \in Waiters, g # f,
           \/ FiberStep(g) \/ Expire(g) \/ RunCb(g) \/ FireCancel(g)
           \/ \E d \in Dirs, hasTimeout \in Timeouts : Start(g, d, hasTimeout)
    PROVE  call'[f] = call[f] /\ firing'[f] = firing[f]
<1>1. \A c : [call EXCEPT ![g] = c][f] = call[f]
  BY DEF HookTypes
<1>2. \A c : [firing EXCEPT ![g] = c][f] = firing[f]
  BY DEF HookTypes
<1>3. call' = call \/ \E c : call' = [call EXCEPT ![g] = c]
  <2>1. CASE FiberStep(g)
    BY <2>1, Zenon DEF FiberStep, TryDone, TryAgain, Arm, Add, Fail, Resumed, Check, Result, Returns, Goes
  <2>2. CASE ~FiberStep(g)
    BY <2>2, Zenon DEF Expire, RunCb, FireCancel, Start
  <2> QED BY <2>1, <2>2
<1>4. firing'[f] = firing[f]
  BY <1>2, Zenon DEF FiberStep, TryDone, TryAgain, Arm, Add, Resumed, Check, Result,
                     Expire, RunCb, FireCancel, Start
<1> QED BY <1>1, <1>3, <1>4, Zenon

\* Every step is one of these to the call of a fiber.
LEMMA CallSteps ==
    ASSUME HookTypes, NEW f \in Waiters, HookNext
    PROVE  CallStep(f)
<1>0. call \in [Waiters -> Calls] /\ call[f] \in Calls /\ \A c : [call EXCEPT ![f] = c][f] = c
  BY DEF HookTypes
<1>1. CASE TryDone(f) \/ Result(f) \/ (Check(f) /\ call[f].cancelled)
  <2>1. call'[f] = NoCall /\ call[f].at # "held"
    BY <1>0, <1>1, SMTT(30) DEF TryDone, Result, Check, Returns
  <2> QED BY <2>1, CallFields DEF CallStep
<1>2. CASE TryAgain(f) \/ (Check(f) /\ ~call[f].cancelled)
  <2>1. PICK a : call' = [call EXCEPT ![f] = [call[f] EXCEPT !.at = a]] /\ call[f].at # "held"
                 /\ (a \in {"arm", "result", "try"} \/ (a = "add" /\ ~call[f].timed))
    <3>1. CASE TryAgain(f) /\ call[f].timed
      BY <3>1 DEF TryAgain, Goes
    <3>2. CASE TryAgain(f) /\ ~call[f].timed
      BY <3>2 DEF TryAgain, Goes
    <3>3. CASE Check(f) /\ ~call[f].cancelled
      BY <3>3 DEF Check, Goes
    <3> QED BY <1>2, <3>1, <3>2, <3>3
  <2>2. call'[f] = [call[f] EXCEPT !.at = a]
    BY <1>0, <2>1, Zenon
  <2>3. call'[f].at = a /\ call'[f].sock = call[f].sock /\ call'[f].timed = call[f].timed
    BY ONLY <1>0, <2>2, Zenon DEF Calls
  <2> QED BY <2>1, <2>3, Zenon DEF CallStep
<1>3. CASE Arm(f)
  <2>1. call'[f] = [call[f] EXCEPT !.at = "add", !.timer = TRUE] /\ call[f].at = "arm"
    BY <1>0, <1>3, Zenon DEF Arm
  <2>2. call'[f].at = "add" /\ call'[f].sock = call[f].sock /\ call'[f].timer
    BY ONLY <1>0, <2>1, Zenon DEF Calls
  <2> QED BY ONLY <2>1, <2>2 DEF CallStep
<1>4. CASE Resumed(f)
  <2>1. call'[f] = [call[f] EXCEPT !.at = "check", !.timer = FALSE]
    BY <1>0, <1>4, Zenon DEF Resumed
  <2>2. call'[f].at = "check" /\ call'[f].sock = call[f].sock
    BY ONLY <1>0, <2>1, Zenon DEF Calls
  <2> QED BY <2>2, Zenon DEF CallStep
<1>5. CASE Add(f)
  <2>1. call[f].at = "add" /\ UNCHANGED firing
    BY <1>5, Zenon DEF Add
  <2>2. CASE Goes(f, "held")
    <3>1. call'[f] = [call[f] EXCEPT !.at = "held"]
      BY <1>0, <2>2, Zenon DEF Goes
    <3> DEFINE c == call[f]  d == call'[f]
    <3>2. /\ d.at = "held" /\ d.dir = c.dir /\ d.timed = c.timed /\ d.sock = c.sock
          /\ d.timer = c.timer /\ d.queued = c.queued /\ d.cancelled = c.cancelled
      BY ONLY <1>0, <3>1, Zenon DEF Calls
    <3> QED BY <2>1, <3>2, Zenon DEF CallStep
  <2>3. CASE Fail(f) /\ call[f].connects
    <3>1. call'[f] = [call[f] EXCEPT !.at = "result", !.timer = FALSE]
      BY <1>0, <2>3, Zenon DEF Fail
    <3>2. call'[f].at = "result" /\ call'[f].sock = call[f].sock
      BY ONLY <1>0, <3>1, Zenon DEF Calls
    <3> QED BY <3>2, Zenon DEF CallStep
  <2>4. CASE Fail(f) /\ ~call[f].connects
    <3>1. call'[f] = NoCall
      BY <1>0, <2>4, Zenon DEF Fail, Returns
    <3> QED BY <2>1, <3>1, CallFields DEF CallStep
  <2>5. CASE UNCHANGED call
    BY <2>1, <2>5 DEF CallStep
  <2> QED BY <1>5, <2>2, <2>3, <2>4, <2>5, Zenon DEF Add
<1>6. CASE Expire(f)
  <2>1. call'[f] = [call[f] EXCEPT !.timer = FALSE, !.queued = call[f].queued + 1] /\ UNCHANGED firing
    BY <1>0, <1>6, Zenon DEF Expire
  <2>2. /\ call'[f].at = call[f].at /\ call'[f].dir = call[f].dir /\ call'[f].timed = call[f].timed
        /\ call'[f].sock = call[f].sock /\ call'[f].cancelled = call[f].cancelled
        /\ call'[f].queued = call[f].queued + 1
    BY ONLY <1>0, <2>1, Zenon DEF Calls
  <2>3. call[f].queued + 1 > 0
    BY <1>0 DEF Calls
  <2> QED BY <2>1, <2>2, <2>3 DEF CallStep
<1>7. CASE RunCb(f)
  <2>1. /\ call'[f] = [call[f] EXCEPT !.queued = call[f].queued - 1, !.cancelled = TRUE]
        /\ firing[f] = "no"
    BY <1>0, <1>7, Zenon DEF RunCb
  <2>2. /\ call'[f].at = call[f].at /\ call'[f].dir = call[f].dir /\ call'[f].timed = call[f].timed
        /\ call'[f].sock = call[f].sock /\ call'[f].cancelled
    BY ONLY <1>0, <2>1, Zenon DEF Calls
  <2>3. firing'[f] = IF call[f].cancelled THEN "no" ELSE call[f].dir
    BY <1>7 DEF RunCb, HookTypes
  <2> QED BY <2>1, <2>2, <2>3, Zenon DEF CallStep
<1>8. CASE FireCancel(f)
  BY <1>8 DEF FireCancel, CallStep
<1>9. ASSUME NEW e \in Dirs, NEW hasTimeout \in Timeouts, Start(f, e, hasTimeout) PROVE CallStep(f)
  <2>1. /\ call[f].at = "out"
        /\ call'[f] = [NoCall EXCEPT !.at = "try", !.dir = e, !.connects = ~linked,
                                     !.timed = hasTimeout, !.sock = opens]
    BY <1>0, <1>9, Zenon DEF Start
  <2>2. call'[f].at = "try" /\ call'[f].sock = opens
    BY <2>1, CallFields
  <2> QED BY ONLY <2>1, <2>2 DEF CallStep
<1>10. ASSUME NEW g \in Waiters, g # f,
              \/ FiberStep(g) \/ Expire(g) \/ RunCb(g) \/ FireCancel(g)
              \/ \E d \in Dirs, hasTimeout \in Timeouts : Start(g, d, hasTimeout)
       PROVE  CallStep(f)
  BY <1>10, OwnSteps, Zenon DEF CallStep
<1>11. ASSUME UNCHANGED <<call, firing>> PROVE CallStep(f)
  BY <1>11 DEF CallStep
<1>12. CASE \/ CloseCancels \/ CloseDel \/ CloseEnds \/ Reopen \/ Hangs \/ UserCancel
            \/ (\E t \in Threads : Idle(t)) \/ \E d \in Dirs : Arrives(d)
  BY <1>11, <1>12, Zenon DEF CloseCancels, CloseDel, CloseEnds, Reopen, Hangs, UserCancel, Idle, Arrives
<1>13. FiberStep(f) => CallStep(f)
  BY <1>1, <1>2, <1>3, <1>4, <1>5, Zenon DEF FiberStep
<1> QED BY <1>6, <1>7, <1>8, <1>9, <1>10, <1>12, <1>13, Zenon DEF HookNext

-----------------------------------------------------------------------------
\* Timers stay armed until they have marked the call.
LEMMA ArmedKept ==
    ASSUME HookTypes, Armed, HookNext
    PROVE  Armed'
<1> SUFFICES ASSUME NEW f \in Waiters
             PROVE  call'[f].at \in {"add", "held"} /\ call'[f].timed /\ ~call'[f].cancelled =>
                        call'[f].timer \/ call'[f].queued > 0
  BY DEF Armed
<1>1. CallStep(f)
  BY CallSteps
<1>2. call[f].at \in {"add", "held"} /\ call[f].timed /\ ~call[f].cancelled =>
          call[f].timer \/ call[f].queued > 0
  BY DEF Armed
<1> QED BY <1>1, <1>2, Zenon DEF CallStep

\* triggerEvent and the like register nobody.
LEMMA Unregisters ==
    ASSUME CtxTypes, NEW f \in Waiters, NEW ds, waiter' = TakeWaiters(ds), Waits(f)'
    PROVE  Waits(f)
<1>1. PICK d \in Dirs : waiter'[d] = f
  BY DEF Waits
<1>2. waiter[d] = f
  BY <1>1, FdContextAssumption DEF TakeWaiters
<1> QED BY <1>2 DEF Waits

\* Only addEvent of the fiber itself registers it.
LEMMA RegistersItself ==
    ASSUME CtxTypes, HookTypes, NEW f \in Waiters, HookNext, Waits(f)'
    PROVE  Waits(f) \/ call[f].at = "add"
<1>1. ASSUME UNCHANGED waiter PROVE Waits(f)
  BY <1>1 DEF Waits
<1>2. ASSUME NEW g \in Waiters, Add(g) PROVE Waits(f) \/ call[f].at = "add"
  <2>1. CASE g = f
    BY <1>2, <2>1 DEF Add
  <2>2. CASE g # f /\ AddEvent(call[g].dir, g)
    <3>1. PICK d \in Dirs : waiter'[d] = f
      BY DEF Waits
    <3>2. waiter[d] = f
      BY <2>2, <3>1 DEF AddEvent, CtxTypes
    <3> QED BY <3>2 DEF Waits
  <2>3. CASE ~AddEvent(call[g].dir, g)
    BY <1>1, <1>2, <2>3, Zenon DEF Add, AddEventFails, AddEventAsserts, fdVars, ctxVars
  <2> QED BY <2>1, <2>2, <2>3
<1>3. ASSUME NEW g \in Waiters, FiberStep(g) \/ Expire(g) \/ RunCb(g), ~Add(g) PROVE Waits(f)
  BY <1>1, <1>3, Zenon DEF FiberStep, TryDone, TryAgain, Arm, Resumed, Resume, Check, Result, Expire, RunCb,
                           fdVars, ctxVars
<1>4. ASSUME (\E d \in Dirs : CancelEvent(d)) \/ CancelAll PROVE Waits(f)
  BY <1>4, Unregisters, Zenon DEF CancelEvent, CancelAll, Trigger
<1>5. CASE \E g \in Waiters : FireCancel(g)
  <2>1. PICK g \in Waiters : FireCancel(g)
    BY <1>5
  <2>2. firing[g] \in Dirs
    BY <2>1 DEF FireCancel, HookTypes
  <2> QED BY <1>1, <1>4, <2>1, <2>2, Zenon DEF FireCancel, CancelIfThere, fdVars, ctxVars
<1>6. CASE CloseCancels \/ UserCancel
  BY <1>1, <1>4, <1>6, Zenon DEF CloseCancels, CancelAllIfAny, UserCancel, fdVars, ctxVars
<1>7. CASE \E t \in Threads : Idle(t)
  <2>1. PICK t \in Threads : EpollWait(t) \/ HandleEvent(t)
    BY <1>7 DEF Idle
  <2>2. UNCHANGED waiter \/ \E ds : waiter' = TakeWaiters(ds)
    BY <2>1, Zenon DEF EpollWait, HandleEvent, Trigger, ctxVars
  <2> QED BY <1>1, <2>2, Unregisters
<1>8. CASE \/ \E g \in Waiters, d \in Dirs, hasTimeout \in Timeouts : Start(g, d, hasTimeout)
           \/ CloseDel \/ CloseEnds \/ Reopen \/ Hangs \/ \E d \in Dirs : Arrives(d)
  BY <1>1, <1>8, Zenon DEF Start, CloseDel, CloseEnds, CloseFd, Reopen, ReopenFd, Hangs, HangUp, Arrives,
                           Arrive, fdVars, ctxVars
<1> QED BY <1>2, <1>3, <1>5, <1>6, <1>7, <1>8 DEF HookNext

-----------------------------------------------------------------------------
\* What an operation tells epoll is what is waited for afterwards.
LEMMA OperationWatches ==
    ASSUME CtxTypes, Operation
    PROVE  /\ UNCHANGED open
           /\ \/ open /\ (~Alive' \/ interest' = events')
              \/ UNCHANGED <<interest, events, waiter, failed>>
<1>1. CASE \E d \in Dirs, w \in Waiters : AddEvent(d, w)
  BY <1>1 DEF AddEvent, AddMask, CtlOk, Ctl, socketVars
<1>2. CASE \E d \in Dirs : DelEvent(d) \/ CancelEvent(d)
  BY <1>2, Zenon DEF DelEvent, CancelEvent, Trigger, CtlOk, Ctl, socketVars
<1>3. CASE CancelAll
  <2>1. events \ events = {}
    OBVIOUS
  <2> QED BY <1>3, <2>1, Zenon DEF CancelAll, Trigger, CtlOk, Ctl, socketVars
<1>4. CASE \E t \in Threads : HandleEvent(t)
  <2>1. PICK t \in Threads : HandleEvent(t)
    BY <1>4
  <2>2. UNCHANGED open
    BY <2>1 DEF HandleEvent, socketVars
  <2>3. (open /\ (~Alive' \/ interest' = events')) \/ UNCHANGED <<interest, events, waiter, failed>>
    BY <2>1, Zenon DEF HandleEvent, CtlOk, Ctl, Trigger, Alive, ctxVars
  <2> QED BY <2>2, <2>3
<1> QED BY <1>1, <1>2, <1>3, <1>4 DEF Operation

\* Outside Reopen a step leaves epoll and the context alone, or they agree after
\* it, or the fd is closed.
LEMMA WatchSteps ==
    ASSUME CtxTypes, HookTypes, HookNext, ~Reopen
    PROVE  \/ open /\ open' /\ (~Alive' \/ interest' = events')
           \/ UNCHANGED <<open, interest>> /\ (~Alive' \/ UNCHANGED <<events, waiter, failed>>)
           \/ ~open' /\ interest' = {}
<1>1. CASE CloseEnds
  BY <1>1 DEF CloseEnds, CloseFd
<1>2. CASE Operation
  BY <1>2, OperationWatches
<1>3. CASE ~CloseEnds /\ ~Operation
  <2>1. Other \/ UNCHANGED fdVars \/ (\E d \in Dirs : AddEventAsserts(d))
        \/ UNCHANGED <<ctxVars, open, hup, interest, signalled, got, failed>>
    <3>1. ASSUME NEW f \in Waiters, FiberStep(f), ~Operation
          PROVE  \/ Other \/ UNCHANGED fdVars \/ (\E d \in Dirs : AddEventAsserts(d))
                 \/ UNCHANGED <<ctxVars, open, hup, interest, signalled, got, failed>>
      <4>1. call[f].dir \in Dirs
        BY DEF HookTypes, Calls
      <4> QED BY <3>1, <4>1, Zenon DEF FiberStep, TryDone, TryAgain, Arm, Add, AddEventFails, Resumed,
                                       Check, Result, Operation, Other
    <3>2. ASSUME NEW f \in Waiters, FireCancel(f) PROVE UNCHANGED fdVars
      <4>1. firing[f] \in Dirs
        BY <3>2 DEF FireCancel, HookTypes
      <4> QED BY <1>3, <3>2, <4>1, Zenon DEF FireCancel, CancelIfThere, Operation
    <3>3. CASE \/ \E f \in Waiters : Expire(f) \/ RunCb(f)
               \/ \E f \in Waiters, d \in Dirs, hasTimeout \in Timeouts : Start(f, d, hasTimeout)
               \/ CloseCancels \/ CloseDel \/ UserCancel
      BY <1>3, <3>3, Zenon DEF Expire, RunCb, Start, CloseCancels, CancelAllIfAny, CloseDel, UserCancel,
                               Operation
    <3>4. CASE Hangs \/ (\E t \in Threads : Idle(t)) \/ \E d \in Dirs : Arrives(d)
      BY <1>3, <3>4, Zenon DEF Hangs, Idle, Arrives, Other, Operation
    <3> QED BY <1>3, <3>1, <3>2, <3>3, <3>4, Zenon DEF HookNext
  <2>2. CASE Other
    BY <2>2, Zenon DEF Other, Arrive, Consume, HangUp, EpollWait, Resume, ctxVars, socketVars
  <2>3. CASE \E d \in Dirs : AddEventAsserts(d)
    BY <2>3 DEF AddEventAsserts, Alive, socketVars
  <2>4. CASE UNCHANGED fdVars \/ UNCHANGED <<ctxVars, open, hup, interest, signalled, got, failed>>
    BY <2>4 DEF fdVars, ctxVars, socketVars
  <2> QED BY <2>1, <2>2, <2>3, <2>4
<1> QED BY <1>1, <1>2, <1>3

\* The calls mean this socket or an older one.
LEMMA SocksKept ==
    ASSUME HookTypes, Watching, HookNext, NEW f \in Waiters
    PROVE  /\ call'[f].sock <= opens'
           /\ call[f].at = "held" => call'[f].sock = call[f].sock
           /\ opens' = IF Reopen THEN opens + 1 ELSE opens
<1>1. CallStep(f)
  BY CallSteps
<1>2. opens' = IF Reopen THEN opens + 1 ELSE opens
  <2>1. CASE Reopen
    BY <2>1 DEF Reopen
  <2>2. CASE ~Reopen
    BY <2>2, Zenon DEF HookNext, FiberStep, TryDone, TryAgain, Arm, Add, Resumed, Check, Result, Expire,
                RunCb, FireCancel, Start, CloseCancels, CloseDel, CloseEnds, Hangs, UserCancel, Idle,
                Arrives, socketLife
  <2> QED BY <2>1, <2>2
<1>3. /\ call'[f].sock \in {call[f].sock, 1, opens}
      /\ call[f].at = "held" => call'[f].sock = call[f].sock
  BY <1>1, Zenon DEF CallStep
<1>4. call[f].sock <= opens /\ opens \in Nat /\ 1 <= opens /\ call[f].sock \in Nat
  BY HookAssumption DEF Watching, HookTypes, Calls
<1> QED BY <1>2, <1>3, <1>4

\* epoll watches for what is waited for, or for nothing of an older socket.
LEMMA WatchingKept ==
    ASSUME CtxTypes, HookTypes, Held, Watching, HookNext
    PROVE  Watching'
<1>1. \A f \in Waiters : call'[f].sock <= opens'
  BY SocksKept
<1>2. CASE Reopen
  <2>1. ~open /\ interest' = interest /\ open' /\ opens' = opens + 1 /\ call' = call
    BY <1>2 DEF Reopen, ReopenFd
  <2>2. ASSUME NEW f \in Waiters PROVE call'[f].sock < opens'
    <3>1. call[f].sock <= opens /\ call[f].sock \in Nat /\ opens \in Nat
      BY HookAssumption DEF Watching, HookTypes, Calls
    <3> QED BY <2>1, <3>1
  <2>3. interest' = {}
    BY <2>1 DEF Watching
  <2> QED BY <1>1, <2>1, <2>2, <2>3 DEF Watching
<1>3. CASE ~Reopen /\ UNCHANGED <<open, interest, events, waiter, failed>>
  <2>1. ASSUME NEW f \in Waiters, Waits(f)', call[f].sock < opens PROVE call'[f].sock < opens'
    <3>1. Waits(f)
      BY <1>3, <2>1 DEF Waits
    <3>2. call[f].at = "held"
      BY <3>1 DEF Held
    <3> QED BY <1>3, <2>1, <3>2, SocksKept
  <2>2. ASSUME NEW f \in Waiters, Waits(f)' PROVE Waits(f)
    BY <1>3, <2>2 DEF Waits
  <2> QED BY <1>1, <1>3, <2>1, <2>2 DEF Watching, Alive
<1>4. CASE ~Reopen /\ \/ open /\ open' /\ (~Alive' \/ interest' = events')
                      \/ UNCHANGED <<open, interest>> /\ ~Alive'
  BY <1>1, <1>4 DEF Watching
<1>5. CASE ~Reopen /\ ~open' /\ interest' = {}
  BY <1>1, <1>5 DEF Watching
<1> QED BY <1>2, <1>3, <1>4, <1>5, WatchSteps

-----------------------------------------------------------------------------
\* A callback that goes on to cancelEvent ends the wait, unless the socket of the
\* call was closed.
LEMMA CancelEndsWait ==
    ASSUME CtxTypes, Counted, HookTypes, Held, Watching, NEW f \in Waiters,
           FireCancel(f), firing[f] = call[f].dir, Waits(f), Waits(f)'
    PROVE  ~open \/ call[f].sock # opens
<1> DEFINE d == call[f].dir
<1>1. d \in Dirs /\ call[f].sock \in Nat /\ opens \in Nat
  BY HookAssumption DEF HookTypes, Calls
<1>2. waiter[d] = f /\ \A e \in Dirs : waiter[e] = f => e = d
  BY DEF Held, Waits
<1>3. d \in events
  BY <1>1, <1>2, FdContextAssumption DEF Counted
<1>4. ~CancelEvent(d)
  <2> SUFFICES ASSUME CancelEvent(d) PROVE FALSE
    OBVIOUS
  <2>1. PICK e \in Dirs : waiter'[e] = f
    BY DEF Waits
  <2>2. waiter'[e] = IF e = d THEN None ELSE waiter[e]
    BY DEF CancelEvent, Trigger, TakeWaiters
  <2> QED BY <1>2, <2>1, <2>2, FdContextAssumption
<1>5. ~CtlOk(Op(events \ {d}))
  BY <1>3, <1>4 DEF FireCancel, CancelIfThere
<1>6. Alive /\ (~open \/ interest = {})
  BY <1>5 DEF CtlOk, Op, FireCancel
<1>7. interest # events \/ ~open
  BY <1>3, <1>6
<1> QED BY <1>1, <1>6, <1>7 DEF Watching

\* A waiting fiber loses its guard in no step but the two.
LEMMA GuardKept ==
    ASSUME CtxTypes, Counted, HookTypes, Held, Armed, Watching, Held', HookNext,
           NEW f \in Waiters, Unguarded(f)'
    PROVE  /\ Unguarded(f) \/ call[f].at = "add" \/ ~open \/ call[f].sock # opens
           /\ call[f].cancelled
<1> DEFINE c == call[f]  d == call'[f]
<1>1. /\ d.timed /\ d.at = "held" /\ firing'[f] # d.dir
      /\ d.cancelled \/ (~d.timer /\ ~(d.queued > 0))
  BY DEF Unguarded, Guarded, Held
<1>2. c.at \in {"add", "held"} /\ c.timed /\ ~c.cancelled => c.timer \/ c.queued > 0
  BY DEF Armed
<1>3. Waits(f) \/ c.at = "add"
  BY RegistersItself DEF Unguarded
<1>4. CASE d = c /\ firing'[f] = firing[f]
  BY <1>1, <1>2, <1>3, <1>4, Zenon DEF Unguarded, Guarded
<1>5. CASE d = c /\ FireCancel(f)
  <2>1. Waits(f) /\ Waits(f)' /\ c.cancelled /\ c.timed
    BY <1>1, <1>2, <1>3, <1>5 DEF Unguarded
  <2>2. CASE firing[f] = c.dir
    BY <1>5, <2>1, <2>2, CancelEndsWait
  <2>3. CASE firing[f] # c.dir
    BY <2>1, <2>3 DEF Unguarded, Guarded
  <2> QED BY <2>1, <2>2, <2>3
<1>6. CASE /\ c.at = "add" /\ d.at = "held" /\ firing'[f] = firing[f]
           /\ d.dir = c.dir /\ d.timed = c.timed /\ d.sock = c.sock
           /\ d.timer = c.timer /\ d.queued = c.queued /\ d.cancelled = c.cancelled
  BY <1>1, <1>2, <1>6, Zenon
<1>7. CASE /\ d.at = c.at /\ d.dir = c.dir /\ d.timed = c.timed
           /\ d.cancelled = c.cancelled /\ d.queued > 0 /\ firing'[f] = firing[f]
  BY <1>1, <1>3, <1>7, Zenon DEF Unguarded, Guarded
<1>8. CASE /\ d.at = c.at /\ d.dir = c.dir /\ d.timed = c.timed
           /\ d.cancelled /\ firing[f] = "no" /\ firing'[f] = IF c.cancelled THEN "no" ELSE c.dir
  BY <1>1, <1>3, <1>8, Zenon DEF Unguarded, Guarded
<1>9. CallStep(f)
  BY CallSteps
<1> QED BY <1>1, <1>4, <1>5, <1>6, <1>7, <1>8, <1>9, Zenon DEF CallStep

\* For any threads, fibers, timeouts and reuses of the fd, a hooked call with a
\* timeout that waits is guarded by its timer until it is resumed, unless the
\* callback ran before addEvent or the socket was closed.
THEOREM HookTimeoutKept == HookSpec => TimeoutKept
<1>1. HookInit => Armed /\ Watching
  <2> SUFFICES ASSUME HookInit PROVE Armed /\ Watching
    OBVIOUS
  <2>1. \A f \in Waiters : call[f].at = "out" /\ call[f].sock = 1
    BY DEF HookInit, NoCall
  <2> QED BY <2>1 DEF HookInit, FdInit, Armed, Watching
<1>2. HookInv /\ Armed /\ Watching /\ [HookNext]_hookVars => (Armed /\ Watching)'
  <2> SUFFICES ASSUME HookInv, Armed, Watching, [HookNext]_hookVars PROVE (Armed /\ Watching)'
    OBVIOUS
  <2>1. CASE HookNext
    BY <2>1, ArmedKept, WatchingKept DEF HookInv
  <2>2. CASE UNCHANGED hookVars
    <3>1. Armed'
      BY <2>2 DEF hookVars, Armed
    <3>2. Watching'
      BY <2>2 DEF hookVars, fdVars, ctxVars, socketVars, socketLife, Watching, Alive, Waits
    <3> QED BY <3>1, <3>2
  <2> QED BY <2>1, <2>2
<1>3. /\ HookInv /\ Armed /\ Watching /\ HookInv' /\ [HookNext]_hookVars
      => [\A f \in Waiters : Unguarded(f)' =>
            /\ Unguarded(f) \/ call[f].at = "add" \/ ~open \/ call[f].sock # opens
            /\ call[f].cancelled]_hookVars
  BY GuardKept DEF HookInv
<1> QED BY <1>1, <1>2, <1>3, HookInductive, PTL DEF HookSpec, TimeoutKept
=============================================================================
