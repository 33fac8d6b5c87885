--------------------------- MODULE HookIOProofs ----------------------------
(***************************************************************************)
(* Proofs about the fd context (FdContext) and the hooked calls that wait  *)
(* on it (HookIO), for all sets of threads and fibers and every bound.     *)
(***************************************************************************)
EXTENDS HookIO, TLAPS

Count(E) == (IF "READ" \in E THEN 1 ELSE 0) + (IF "WRITE" \in E THEN 1 ELSE 0)

\* The part of Registered that does not depend on the kernel.
Counted ==
    /\ \A d \in Dirs : d \in events <=> waiter[d] # None
    /\ pending = Count(events)

CtxTypes ==
    /\ events \subseteq Dirs /\ waiter \in [Dirs -> Waiters \cup {None}]
    /\ pending \in Nat /\ wakes \in [Waiters -> Nat]

KernelTypes ==
    /\ interest \subseteq Dirs /\ ready \subseteq Dirs
    /\ open \in BOOLEAN /\ hup \in BOOLEAN /\ signalled \in BOOLEAN
    /\ got \in [Threads -> SUBSET (Dirs \cup {HUP})]
    /\ failed \in {"none", "addEvent", "triggerEvent"}

\* The type invariant of FdContext in its two halves.
LEMMA FdTypesSplit == FdTypeOK <=> CtxTypes /\ KernelTypes
BY DEF FdTypeOK, CtxTypes, KernelTypes

-----------------------------------------------------------------------------
(* What the operations do to the context.                                  *)

\* addEvent keeps the context in order.
LEMMA AddKeeps ==
    ASSUME CtxTypes, Counted, NEW d \in Dirs, NEW w \in Waiters, AddEvent(d, w)
    PROVE  CtxTypes' /\ Counted'
<1>1. CtxTypes'
  BY DEF AddEvent, CtxTypes, Dirs
<1>2. ASSUME NEW e \in Dirs PROVE (e \in events <=> waiter[e] # None)'
  BY <1>2, FdContextAssumption DEF AddEvent, CtxTypes, Counted
<1>3. pending' = Count(events')
  BY DEF AddEvent, CtxTypes, Counted, Count, Dirs
<1> QED BY <1>1, <1>2, <1>3 DEF Counted

\* A set of directions that are waited for is one of three.
LEMMA Directions ==
    ASSUME NEW ds \in SUBSET Dirs, ds # {}
    PROVE  ds = {"READ"} \/ ds = {"WRITE"} \/ ds = Dirs
BY Zenon DEF Dirs

\* triggerEvent, called for directions that are waited for, does too.
LEMMA TriggerKeeps ==
    ASSUME CtxTypes, Counted, NEW ds \in SUBSET events, ds # {}, Trigger(ds)
    PROVE  CtxTypes' /\ Counted'
<1>0. ds \subseteq Dirs /\ (ds = {"READ"} \/ ds = {"WRITE"} \/ ds = Dirs)
  BY Directions DEF CtxTypes
<1>1. pending' = Count(events') /\ pending' \in Nat
  BY <1>0 DEF Trigger, CountDown, CtxTypes, Counted, Count, Dirs
<1>2. waiter' \in [Dirs -> Waiters \cup {None}]
  BY DEF Trigger, TakeWaiters, CtxTypes
<1>3. wakes' \in [Waiters -> Nat]
  <2>1. ASSUME NEW w \in Waiters
        PROVE  wakes[w] + (IF \E d \in ds : waiter[d] = w THEN 1 ELSE 0) \in Nat
    BY DEF CtxTypes
  <2> QED BY <2>1 DEF Trigger
<1>4. ASSUME NEW e \in Dirs PROVE (e \in events <=> waiter[e] # None)'
  BY <1>4 DEF Trigger, TakeWaiters, CtxTypes, Counted
<1>5. events' \subseteq Dirs
  BY DEF Trigger, CtxTypes
<1> QED BY <1>1, <1>2, <1>3, <1>4, <1>5 DEF CtxTypes, Counted

\* The operations of the context, each with the state it may find.
Operation ==
    \/ \E d \in Dirs, w \in Waiters : AddEvent(d, w)
    \/ \E d \in Dirs : DelEvent(d) \/ CancelEvent(d)
    \/ CancelAll
    \/ \E t \in Threads : HandleEvent(t)

\* delEvent keeps the context in order.
LEMMA DelKeeps ==
    ASSUME CtxTypes, Counted, NEW d \in Dirs, DelEvent(d)
    PROVE  CtxTypes' /\ Counted'
<1>1. CtxTypes' /\ pending' = Count(events')
  BY DEF DelEvent, CtxTypes, Counted, Count, Dirs
<1>2. ASSUME NEW e \in Dirs PROVE (e \in events <=> waiter[e] # None)'
  BY <1>2 DEF DelEvent, CtxTypes, Counted
<1> QED BY <1>1, <1>2 DEF Counted

\* An idle thread that handles an answer leaves the context alone or triggers
\* what is waited for.
LEMMA HandleCases ==
    ASSUME NEW t \in Threads, HandleEvent(t)
    PROVE  \/ UNCHANGED ctxVars
           \/ /\ RealEvents(t) \subseteq events /\ RealEvents(t) # {}
              /\ Trigger(RealEvents(t))
BY DEF HandleEvent, AllGone, ctxVars

\* So every operation keeps the context in order.
LEMMA OperationKeeps ==
    ASSUME CtxTypes, Counted, Operation
    PROVE  CtxTypes' /\ Counted'
<1>1. CASE \E d \in Dirs, w \in Waiters : AddEvent(d, w)
  BY <1>1, AddKeeps
<1>2. CASE \E d \in Dirs : DelEvent(d)
  BY <1>2, DelKeeps
<1>3. CASE \E d \in Dirs : CancelEvent(d)
  <2>1. PICK d \in Dirs : CancelEvent(d)
    BY <1>3
  <2>2. {d} \in SUBSET events /\ {d} # {} /\ Trigger({d})
    BY <2>1 DEF CancelEvent
  <2> QED BY <2>2, TriggerKeeps
<1>4. CASE CancelAll
  BY <1>4, TriggerKeeps DEF CancelAll
<1>5. CASE \E t \in Threads : HandleEvent(t)
  <2>1. PICK t \in Threads : HandleEvent(t)
    BY <1>5
  <2>2. CASE UNCHANGED ctxVars
    BY <2>2 DEF ctxVars, CtxTypes, Counted, Count
  <2>3. CASE RealEvents(t) \subseteq events /\ RealEvents(t) # {} /\ Trigger(RealEvents(t))
    BY <2>3, TriggerKeeps
  <2> QED BY <2>1, <2>2, <2>3, HandleCases
<1> QED BY <1>1, <1>2, <1>3, <1>4, <1>5 DEF Operation

\* The operations keep the kernel's half in type.
LEMMA OperationKernel ==
    ASSUME CtxTypes, KernelTypes, Operation
    PROVE  KernelTypes'
<1>1. ASSUME NEW mask \in SUBSET Dirs, Ctl(mask)
      PROVE  interest' \subseteq Dirs /\ signalled' \in BOOLEAN
  BY <1>1 DEF Ctl
<1>2. CASE \E d \in Dirs, w \in Waiters : AddEvent(d, w)
  BY <1>1, <1>2 DEF AddEvent, AddMask, CtxTypes, KernelTypes, socketVars
<1>3. CASE \E d \in Dirs : DelEvent(d) \/ CancelEvent(d)
  BY <1>1, <1>3 DEF DelEvent, CancelEvent, CtxTypes, KernelTypes, socketVars
<1>4. CASE CancelAll
  BY <1>1, <1>4 DEF CancelAll, KernelTypes, socketVars
<1>5. CASE \E t \in Threads : HandleEvent(t)
  <2>1. PICK t \in Threads : HandleEvent(t)
    BY <1>5
  <2>2. got' \in [Threads -> SUBSET (Dirs \cup {HUP})] /\ UNCHANGED socketVars
    BY <2>1 DEF HandleEvent, KernelTypes
  <2>3. interest' \subseteq Dirs /\ signalled' \in BOOLEAN
    <3>1. events \ RealEvents(t) \in SUBSET Dirs
      BY DEF CtxTypes
    <3> QED BY <1>1, <2>1, <3>1 DEF HandleEvent, KernelTypes
  <2>4. failed' \in {"none", "addEvent", "triggerEvent"}
    BY <2>1 DEF HandleEvent, KernelTypes
  <2> QED BY <2>2, <2>3, <2>4 DEF KernelTypes, socketVars
<1> QED BY <1>2, <1>3, <1>4, <1>5 DEF Operation

-----------------------------------------------------------------------------
(* FdContext by itself.                                                    *)

\* epoll watches for what is waited for, while the process lives.
Watched == open /\ (Alive => interest = events)

FdInv == CtxTypes /\ KernelTypes /\ Counted /\ Watched /\ WokenOnce /\ NoEdgeLost

\* The steps of FdNext that are not operations of the context.
Other ==
    \/ \E d \in Dirs : Arrive(d) \/ Consume(d)
    \/ HangUp
    \/ \E t \in Threads : EpollWait(t)
    \/ \E w \in Waiters : Resume(w)

LEMMA FdNextCases == FdNext => Operation \/ Other
BY DEF FdNext, Register, Operation, Other

\* They keep the types and leave registrations alone.
LEMMA OtherKeeps ==
    ASSUME CtxTypes, KernelTypes, Counted, Other
    PROVE  CtxTypes' /\ KernelTypes' /\ Counted'
<1>1. CASE \E d \in Dirs : Arrive(d) \/ Consume(d)
  <2>1. PICK d \in Dirs : Arrive(d) \/ Consume(d)
    BY <1>1
  <2>2. UNCHANGED <<ctxVars, open, hup, interest, got, failed>> /\ ready' \subseteq Dirs
    BY <2>1 DEF Arrive, Consume, KernelTypes
  <2>3. signalled' \in BOOLEAN
    BY <2>1 DEF Arrive, Consume, KernelTypes
  <2> QED BY <2>2, <2>3 DEF ctxVars, CtxTypes, KernelTypes, Counted, Count
<1>2. CASE HangUp
  BY <1>2 DEF HangUp, ctxVars, CtxTypes, KernelTypes, Counted, Count
<1>3. CASE \E t \in Threads : EpollWait(t)
  <2>1. PICK t \in Threads : EpollWait(t)
    BY <1>3
  <2>2. got' \in [Threads -> SUBSET (Dirs \cup {HUP})]
    BY <2>1 DEF EpollWait, KernelTypes
  <2> QED BY <2>1, <2>2, Zenon DEF EpollWait, ctxVars, socketVars, CtxTypes, KernelTypes, Counted, Count
<1>4. CASE \E w \in Waiters : Resume(w)
  <2>1. PICK w \in Waiters : Resume(w)
    BY <1>4
  <2>2. wakes' \in [Waiters -> Nat]
    BY <2>1 DEF Resume, CtxTypes
  <2> QED BY <2>1, <2>2 DEF Resume, socketVars, CtxTypes, KernelTypes, Counted, Count
<1> QED BY <1>1, <1>2, <1>3, <1>4 DEF Other

\* What is waited for stays what is watched.
LEMMA WatchedKept ==
    ASSUME CtxTypes, Watched, Operation \/ Other
    PROVE  Watched'
<1>1. CASE \E d \in Dirs, w \in Waiters : AddEvent(d, w)
  BY <1>1 DEF AddEvent, Ctl, AddMask, Watched, socketVars
<1>2. CASE \E d \in Dirs : DelEvent(d) \/ CancelEvent(d)
  BY <1>2, Zenon DEF DelEvent, CancelEvent, Trigger, Ctl, Watched, socketVars
<1>3. CASE CancelAll
  BY <1>3 DEF CancelAll, Trigger, Ctl, Watched, socketVars
<1>4. CASE \E t \in Threads : HandleEvent(t)
  <2>1. PICK t \in Threads : HandleEvent(t)
    BY <1>4
  <2>2. CASE UNCHANGED <<ctxVars, interest, failed>>
    BY <2>1, <2>2 DEF HandleEvent, Watched, Alive, socketVars, ctxVars
  <2>3. CASE Ctl(events \ RealEvents(t)) /\ Trigger(RealEvents(t))
    BY <2>1, <2>3 DEF HandleEvent, Ctl, Trigger, Watched, socketVars
  <2>4. CASE failed' = "triggerEvent"
    BY <2>1, <2>4 DEF HandleEvent, Watched, Alive, socketVars
  <2> QED BY <2>1, <2>2, <2>3, <2>4 DEF HandleEvent
<1>5. CASE Other
  BY <1>5, Zenon DEF Other, Arrive, Consume, HangUp, EpollWait, Resume, Watched, Alive, ctxVars, socketVars
<1> QED BY <1>1, <1>2, <1>3, <1>4, <1>5 DEF Operation

\* A waiter that is triggered was registered and not scheduled.
LEMMA TriggerOnce ==
    ASSUME CtxTypes, WokenOnce, NEW ds \in SUBSET Dirs, Trigger(ds)
    PROVE  WokenOnce'
<1>1. ASSUME NEW w \in Waiters
      PROVE  /\ wakes'[w] = wakes[w] + (IF \E d \in ds : waiter[d] = w THEN 1 ELSE 0)
             /\ wakes[w] \in Nat /\ w # None
  BY FdContextAssumption DEF Trigger, CtxTypes
<1>2. ASSUME NEW d \in Dirs PROVE waiter'[d] = IF d \in ds THEN None ELSE waiter[d]
  BY DEF Trigger, TakeWaiters
<1>3. ASSUME NEW w \in Waiters
      PROVE  wakes'[w] <= 1 /\ (Waits(w)' => wakes'[w] = 0)
  <2>1. CASE \E d \in ds : waiter[d] = w
    <3>1. wakes[w] = 0 /\ wakes'[w] = 1
      BY <1>1, <2>1 DEF WokenOnce, Waits
    <3>2. ~Waits(w)'
      BY <1>1, <1>2, <2>1 DEF WokenOnce, Waits, Dirs
    <3> QED BY <3>1, <3>2
  <2>2. CASE ~ \E d \in ds : waiter[d] = w
    <3>1. wakes'[w] = wakes[w]
      BY <1>1, <2>2
    <3>2. Waits(w)' => Waits(w)
      BY <1>1, <1>2 DEF Waits
    <3> QED BY <3>1, <3>2 DEF WokenOnce
  <2> QED BY <2>1, <2>2
<1>4. ASSUME NEW w \in Waiters PROVE waiter'["READ"] = w => waiter'["WRITE"] # w
  BY <1>1, <1>2 DEF WokenOnce, Dirs
<1> QED BY <1>3, <1>4 DEF WokenOnce

\* No step of FdNext wakes a waiter twice.
LEMMA WokenKept ==
    ASSUME CtxTypes, Counted, WokenOnce, FdNext
    PROVE  WokenOnce'
<1>1. CASE \E d \in Dirs, w \in Waiters : Register(d, w)
  <2>1. PICK d \in Dirs, w \in Waiters : Register(d, w)
    BY <1>1
  <2>2. wakes' = wakes /\ wakes[w] = 0 /\ ~Waits(w) /\ waiter' = [waiter EXCEPT ![d] = w]
    BY <2>1 DEF Register, AddEvent
  <2>3. ASSUME NEW v \in Waiters PROVE Waits(v)' => Waits(v) \/ v = w
    BY <2>2 DEF Waits, CtxTypes
  <2>4. ASSUME NEW v \in Waiters PROVE waiter'["READ"] = v => waiter'["WRITE"] # v
    BY <2>2 DEF WokenOnce, Waits, CtxTypes, Dirs
  <2> QED BY <2>2, <2>3, <2>4 DEF WokenOnce
<1>2. CASE \E d \in Dirs : DelEvent(d)
  <2>1. PICK d \in Dirs : DelEvent(d)
    BY <1>2
  <2>2. wakes' = wakes /\ waiter' = [waiter EXCEPT ![d] = None]
    BY <2>1 DEF DelEvent
  <2>3. ASSUME NEW v \in Waiters
        PROVE  (Waits(v)' => Waits(v)) /\ (waiter'["READ"] = v => waiter'["WRITE"] # v)
    BY <2>2, FdContextAssumption DEF WokenOnce, Waits, CtxTypes, Dirs
  <2> QED BY <2>2, <2>3 DEF WokenOnce
<1>3. CASE \E d \in Dirs : CancelEvent(d)
  <2>1. PICK d \in Dirs : CancelEvent(d)
    BY <1>3
  <2>2. {d} \in SUBSET Dirs /\ Trigger({d})
    BY <2>1 DEF CancelEvent
  <2> QED BY <2>2, TriggerOnce
<1>4. CASE CancelAll
  BY <1>4, TriggerOnce DEF CancelAll, CtxTypes
<1>5. CASE \E t \in Threads : HandleEvent(t)
  <2>1. PICK t \in Threads : HandleEvent(t)
    BY <1>5
  <2>2. CASE UNCHANGED ctxVars
    BY <2>2 DEF ctxVars, WokenOnce, Waits
  <2>3. CASE RealEvents(t) \subseteq events /\ Trigger(RealEvents(t))
    BY <2>3, TriggerOnce DEF CtxTypes
  <2> QED BY <2>1, <2>2, <2>3, HandleCases
<1>6. CASE \E w \in Waiters : Resume(w)
  <2>1. PICK w \in Waiters : Resume(w)
    BY <1>6
  <2>2. waiter' = waiter /\ wakes' = [wakes EXCEPT ![w] = @ - 1] /\ wakes[w] > 0
    BY <2>1 DEF Resume
  <2>3. ASSUME NEW v \in Waiters
        PROVE  wakes'[v] <= 1 /\ (Waits(v) => wakes'[v] = 0)
    BY <2>2 DEF WokenOnce, CtxTypes
  <2> QED BY <2>2, <2>3 DEF WokenOnce, Waits
<1>7. CASE UNCHANGED ctxVars
  BY <1>7 DEF ctxVars, WokenOnce, Waits
<1> QED BY <1>1, <1>2, <1>3, <1>4, <1>5, <1>6, <1>7
        DEF FdNext, Arrive, Consume, HangUp, EpollWait

\* After epoll_ctl with the events that are left, news of them is signalled.
LEMMA CtlSignals ==
    ASSUME NEW mask, Ctl(mask), ready' = ready, events' = mask
    PROVE  NoEdgeLost'
BY Zenon DEF Ctl, NoEdgeLost

\* No step of FdNext loses an edge.
LEMMA EdgeKept ==
    ASSUME CtxTypes, KernelTypes, Watched, NoEdgeLost, Operation \/ Other
    PROVE  NoEdgeLost'
<1>1. CASE \E d \in Dirs, w \in Waiters : AddEvent(d, w)
  BY <1>1, CtlSignals DEF AddEvent, AddMask, socketVars
<1>2. CASE \E d \in Dirs : DelEvent(d) \/ CancelEvent(d)
  BY <1>2, CtlSignals DEF DelEvent, CancelEvent, Trigger, socketVars
<1>3. CASE CancelAll
  <2>1. events' = {}
    BY <1>3 DEF CancelAll, Trigger
  <2> QED BY <2>1 DEF NoEdgeLost
<1>4. CASE \E t \in Threads : HandleEvent(t)
  <2>1. PICK t \in Threads : HandleEvent(t)
    BY <1>4
  <2>2. ready' = ready /\ open' = open
    BY <2>1 DEF HandleEvent, socketVars
  <2>3. CASE failed' = "triggerEvent"
    BY <2>3 DEF NoEdgeLost, Alive
  <2>4. CASE Ctl(events \ RealEvents(t)) /\ Trigger(RealEvents(t))
    BY <2>2, <2>4, CtlSignals DEF Trigger
  <2>5. CASE AllGone(RealEvents(t)) /\ UNCHANGED <<ctxVars, interest, signalled, failed>>
    <3>1. ASSUME NEW d \in events PROVE d \notin got[t] /\ HUP \notin got[t]
      BY <2>5 DEF AllGone, RealEvents, CtxTypes
    <3>2. ASSUME NEW u \in Threads, u # t PROVE got'[u] = got[u]
      BY <2>1, <3>2 DEF HandleEvent, KernelTypes
    <3>3. events' = events /\ signalled' = signalled /\ failed' = failed
      BY <2>5 DEF ctxVars
    <3> QED BY <2>2, <3>1, <3>2, <3>3 DEF NoEdgeLost, Alive
  <2>6. CASE ~CtlOk(Op(events \ RealEvents(t))) /\ ~AllGone(RealEvents(t))
    <3>1. interest = events /\ open /\ events # {}
      BY <2>1, <2>6 DEF HandleEvent, Watched, AllGone
    <3> QED BY <2>6, <3>1 DEF CtlOk, Op
  <2> QED BY <2>1, <2>3, <2>4, <2>5, <2>6 DEF HandleEvent
<1>5. CASE \E d \in Dirs : Arrive(d)
  BY <1>5, Zenon DEF Arrive, NoEdgeLost, Watched, Alive, ctxVars
<1>6. CASE \E d \in Dirs : Consume(d)
  BY <1>6 DEF Consume, NoEdgeLost, Alive, ctxVars
<1>7. CASE HangUp
  BY <1>7, Zenon DEF HangUp, NoEdgeLost, Watched, Alive, ctxVars
<1>8. CASE \E t \in Threads : EpollWait(t)
  <2>1. PICK t \in Threads : EpollWait(t)
    BY <1>8
  <2>2. interest \cap ready \subseteq got'[t] /\ events' = events /\ ready' = ready /\ interest = events
    BY <2>1 DEF EpollWait, KernelTypes, Watched, ctxVars, socketVars
  <2> QED BY <2>2 DEF NoEdgeLost
<1>9. CASE \E w \in Waiters : Resume(w)
  BY <1>9 DEF Resume, NoEdgeLost, Alive, socketVars
<1> QED BY <1>1, <1>2, <1>3, <1>4, <1>5, <1>6, <1>7, <1>8, <1>9 DEF Operation, Other

\* The conjunction is inductive for the fd context with callers that keep the
\* rule of addEvent.
THEOREM FdInductive == FdSpec => []FdInv
<1>1. FdInit => FdInv
  <2> SUFFICES ASSUME FdInit PROVE FdInv
    OBVIOUS
  <2>1. CtxTypes /\ KernelTypes
    BY Zenon DEF FdInit, CtxTypes, KernelTypes
  <2>2. Counted /\ Watched
    BY DEF FdInit, Counted, Count, Watched, Dirs
  <2>3. WokenOnce /\ NoEdgeLost
    BY FdContextAssumption DEF FdInit, WokenOnce, Waits, NoEdgeLost, Dirs
  <2> QED BY <2>1, <2>2, <2>3 DEF FdInv
<1>2. FdInv /\ [FdNext]_fdVars => FdInv'
  <2> SUFFICES ASSUME FdInv, [FdNext]_fdVars PROVE FdInv'
    OBVIOUS
  <2>1. CASE FdNext
    <3>1. Operation \/ Other
      BY <2>1, FdNextCases
    <3>2. CtxTypes' /\ KernelTypes' /\ Counted'
      BY <3>1, OperationKeeps, OperationKernel, OtherKeeps DEF FdInv
    <3>3. Watched' /\ WokenOnce' /\ NoEdgeLost'
      BY <2>1, <3>1, WatchedKept, WokenKept, EdgeKept DEF FdInv
    <3> QED BY <3>2, <3>3 DEF FdInv
  <2>2. CASE UNCHANGED fdVars
    BY <2>2 DEF fdVars, ctxVars, socketVars, FdInv, CtxTypes, KernelTypes, Counted, Count,
                Watched, WokenOnce, Waits, NoEdgeLost, Alive
  <2> QED BY <2>1, <2>2
<1> QED BY <1>1, <1>2, PTL DEF FdSpec

\* epoll watches for what is waited for, and the count of pending events that
\* stopping() reads is exact.
THEOREM FdRegistered == FdSpec => []Registered
<1>1. FdInv => Registered
  BY DEF FdInv, Counted, Count, Watched, Registered
<1> QED BY <1>1, FdInductive, PTL

\* A waiter is woken once for a registration.
THEOREM FdWokenOnce == FdSpec => []WokenOnce
<1>1. FdInv => WokenOnce
  BY DEF FdInv
<1> QED BY <1>1, FdInductive, PTL

\* No edge of the edge-triggered registration is lost.
THEOREM FdNoEdgeLost == FdSpec => []NoEdgeLost
<1>1. FdInv => NoEdgeLost
  BY DEF FdInv
<1> QED BY <1>1, FdInductive, PTL

-----------------------------------------------------------------------------
(* The hooked calls.                                                       *)

HookTypes ==
    /\ call \in [Waiters -> Calls] /\ firing \in [Waiters -> Dirs \cup {"no"}]
    /\ linked \in BOOLEAN /\ opens \in 1..MaxOpens /\ fdctx \in BOOLEAN
    /\ closing \in {"no", "del", "close"}

\* The life of a socket: a closed fd, or one being closed, leaves room for the
\* next socket, and FdManager does not have an fd that is closed.
Life ==
    /\ ~open => closing = "no" /\ ~fdctx /\ opens < MaxOpens
    /\ closing = "del" => open /\ opens < MaxOpens
    /\ closing = "close" => open /\ ~fdctx /\ opens < MaxOpens

\* Parked, and a fiber is registered for the event of its call.
Held ==
    \A f \in Waiters :
        /\ wakes[f] <= 1
        /\ call[f].at = "held" <=> Waits(f) \/ wakes[f] > 0
        /\ \A d \in Dirs : waiter[d] = f => call[f].dir = d /\ wakes[f] = 0

HookInv == CtxTypes /\ KernelTypes /\ Counted /\ HookTypes /\ Life /\ Held

\* What a step of HookNext is to the context and the kernel.
ContextStep ==
    \/ Operation \/ Other \/ UNCHANGED fdVars
    \/ \E d \in Dirs : AddEventAsserts(d)
    \/ CloseFd \/ ReopenFd
    \/ ready' \subseteq ready /\ UNCHANGED <<ctxVars, open, hup, interest, signalled, got, failed>>

\* A fiber's step is one of these.
LEMMA FiberContext ==
    ASSUME HookTypes, NEW f \in Waiters, FiberStep(f)
    PROVE  ContextStep
<1>0. call[f].dir \in Dirs
  BY SMTT(30) DEF HookTypes, Calls
<1>1. CASE TryDone(f)
  BY <1>1 DEF TryDone, ContextStep
<1>2. CASE TryAgain(f) \/ Arm(f) \/ Check(f) \/ Result(f)
  BY <1>2 DEF TryAgain, Arm, Check, Result, ContextStep
<1>3. CASE Add(f)
  BY <1>0, <1>3, Zenon DEF Add, AddEventFails, ContextStep, Operation
<1>4. CASE Resumed(f)
  BY <1>4 DEF Resumed, ContextStep, Other
<1> QED BY <1>1, <1>2, <1>3, <1>4 DEF FiberStep

\* And so is every step.
LEMMA HookContext ==
    ASSUME HookTypes, HookNext
    PROVE  ContextStep
<1>1. CASE \E f \in Waiters : FiberStep(f)
  BY <1>1, FiberContext
<1>2. CASE \E f \in Waiters : Expire(f) \/ RunCb(f)
  BY <1>2 DEF Expire, RunCb, ContextStep
<1>3. CASE \E f \in Waiters : FireCancel(f)
  <2>1. PICK f \in Waiters : FireCancel(f)
    BY <1>3
  <2>2. firing[f] \in Dirs
    BY <2>1 DEF FireCancel, HookTypes
  <2> QED BY <2>1, <2>2 DEF FireCancel, CancelIfThere, ContextStep, Operation
<1>4. CASE \E f \in Waiters, d \in Dirs, hasTimeout \in Timeouts : Start(f, d, hasTimeout)
  BY <1>4 DEF Start, ContextStep
<1>5. CASE CloseCancels \/ CloseDel \/ CloseEnds \/ Reopen
  BY <1>5 DEF CloseCancels, CancelAllIfAny, CloseDel, CloseEnds, Reopen, ContextStep, Operation
<1>6. CASE Hangs \/ UserCancel \/ (\E t \in Threads : Idle(t)) \/ \E d \in Dirs : Arrives(d)
  BY <1>6 DEF Hangs, UserCancel, Idle, Arrives, ContextStep, Operation, Other
<1> QED BY <1>1, <1>2, <1>3, <1>4, <1>5, <1>6 DEF HookNext

\* The context stays in order through all of them.
LEMMA ContextKeeps ==
    ASSUME CtxTypes, KernelTypes, Counted, ContextStep
    PROVE  CtxTypes' /\ KernelTypes' /\ Counted'
<1>1. CASE Operation
  BY <1>1, OperationKeeps, OperationKernel
<1>2. CASE Other
  BY <1>2, OtherKeeps
<1>3. CASE ~Operation /\ ~Other
  <2>1. UNCHANGED ctxVars
    BY <1>3 DEF ContextStep, fdVars, AddEventAsserts, CloseFd, ReopenFd
  <2>2. CtxTypes' /\ Counted'
    BY <2>1 DEF ctxVars, CtxTypes, Counted, Count
  <2>3. KernelTypes'
    BY <1>3, Zenon DEF ContextStep, fdVars, socketVars, AddEventAsserts, CloseFd, ReopenFd, KernelTypes
  <2> QED BY <2>2, <2>3
<1> QED BY <1>1, <1>2, <1>3

-----------------------------------------------------------------------------
\* A change of one call keeps the type of all.
LEMMA CallTypes ==
    ASSUME call \in [Waiters -> Calls], NEW f \in Waiters, NEW c \in Calls,
           call' = [call EXCEPT ![f] = c]
    PROVE  call' \in [Waiters -> Calls]
OBVIOUS

\* The changes a step makes to a call.
LEMMA CallChanges ==
    ASSUME HookTypes, NEW f \in Waiters
    PROVE  /\ NoCall \in Calls
           /\ \A a \in {"out", "try", "arm", "add", "held", "check", "result"}, t \in BOOLEAN :
                /\ [call[f] EXCEPT !.at = a] \in Calls
                /\ [call[f] EXCEPT !.at = a, !.timer = t] \in Calls
           /\ \A d \in Dirs, b, t \in BOOLEAN :
                [NoCall EXCEPT !.at = "try", !.dir = d, !.connects = b, !.timed = t, !.sock = opens]
                    \in Calls
           /\ call[f].queued < MaxLate =>
                [call[f] EXCEPT !.timer = FALSE, !.queued = call[f].queued + 1] \in Calls
           /\ call[f].queued > 0 =>
                [call[f] EXCEPT !.queued = call[f].queued - 1, !.cancelled = TRUE] \in Calls
<1>1. call[f] \in Calls /\ opens \in 1..MaxOpens
  BY DEF HookTypes
<1>2. NoCall \in Calls
  BY HookAssumption DEF NoCall, Calls, Dirs
<1>3. \A a \in {"out", "try", "arm", "add", "held", "check", "result"}, t \in BOOLEAN :
        /\ [call[f] EXCEPT !.at = a] \in Calls
        /\ [call[f] EXCEPT !.at = a, !.timer = t] \in Calls
  BY <1>1, Zenon DEF Calls
<1>4. \A d \in Dirs, b, t \in BOOLEAN :
        [NoCall EXCEPT !.at = "try", !.dir = d, !.connects = b, !.timed = t, !.sock = opens]
            \in Calls
  BY <1>1, <1>2, Zenon DEF Calls
<1>5. call[f].queued < MaxLate => [call[f] EXCEPT !.timer = FALSE, !.queued = call[f].queued + 1] \in Calls
  <2>1. call[f].queued < MaxLate => call[f].queued + 1 \in 0..MaxLate
    BY <1>1, HookAssumption DEF Calls
  <2> QED BY <1>1, <2>1, Zenon DEF Calls
<1>6. call[f].queued > 0 => [call[f] EXCEPT !.queued = call[f].queued - 1, !.cancelled = TRUE] \in Calls
  <2>1. call[f].queued > 0 => call[f].queued - 1 \in 0..MaxLate
    BY <1>1, HookAssumption DEF Calls
  <2> QED BY <1>1, <2>1, Zenon DEF Calls
<1> QED BY <1>2, <1>3, <1>4, <1>5, <1>6, Zenon

\* The types of the hooked calls.
LEMMA HookTypesKept ==
    ASSUME HookTypes, Life, HookNext
    PROVE  HookTypes'
<1>1. ASSUME NEW f \in Waiters, FiberStep(f) \/ Expire(f)
      PROVE  call' \in [Waiters -> Calls] /\ UNCHANGED <<firing, socketLife>>
  <2>0. call \in [Waiters -> Calls]
    BY DEF HookTypes
  <2>1. CASE TryDone(f) \/ Result(f)
    BY <2>0, <2>1, CallChanges, CallTypes, Zenon DEF TryDone, Result, Returns
  <2>2. CASE TryAgain(f)
    BY <2>0, <2>2, CallChanges, CallTypes, Zenon DEF TryAgain, Goes
  <2>3. CASE Arm(f) \/ Resumed(f)
    BY <2>0, <2>3, CallChanges, CallTypes, Zenon DEF Arm, Resumed
  <2>4. CASE Add(f)
    BY <2>0, <2>4, CallChanges, CallTypes, Zenon DEF Add, Goes, Fail, Returns
  <2>5. CASE Check(f)
    BY <2>0, <2>5, CallChanges, CallTypes, Zenon DEF Check, Goes, Returns
  <2>6. CASE Expire(f)
    BY <2>0, <2>6, CallChanges, CallTypes, Zenon DEF Expire
  <2> QED BY <1>1, <2>1, <2>2, <2>3, <2>4, <2>5, <2>6 DEF FiberStep
<1>2. ASSUME NEW f \in Waiters, RunCb(f)
      PROVE  HookTypes'
  <2>1. call' \in [Waiters -> Calls] /\ UNCHANGED socketLife
    BY <1>2, CallChanges, CallTypes, Zenon DEF RunCb, HookTypes
  <2>2. firing' \in [Waiters -> Dirs \cup {"no"}]
    <3>1. call[f].dir \in Dirs
      BY DEF HookTypes, Calls
    <3> QED BY <1>2, <3>1 DEF RunCb, HookTypes
  <2> QED BY <2>1, <2>2 DEF HookTypes, socketLife
<1>3. ASSUME NEW f \in Waiters, FireCancel(f)
      PROVE  HookTypes'
  BY <1>3 DEF FireCancel, HookTypes, socketLife
<1>4. ASSUME NEW f \in Waiters, NEW d \in Dirs, NEW hasTimeout \in Timeouts, Start(f, d, hasTimeout)
      PROVE  HookTypes'
  <2>1. hasTimeout \in BOOLEAN /\ (~linked) \in BOOLEAN /\ call \in [Waiters -> Calls]
    BY HookAssumption, Zenon DEF HookTypes
  <2>2. [NoCall EXCEPT !.at = "try", !.dir = d, !.connects = ~linked,
                       !.timed = hasTimeout, !.sock = opens] \in Calls
    BY <2>1, CallChanges, Zenon
  <2>3. call' \in [Waiters -> Calls]
    BY <1>4, <2>1, <2>2, CallTypes, Zenon DEF Start
  <2> QED BY <1>4, <2>3 DEF Start, HookTypes, socketLife
<1>5. CASE CloseCancels \/ CloseDel \/ CloseEnds \/ Reopen
  <2>1. opens' \in 1..MaxOpens
    BY <1>5, HookAssumption
       DEF CloseCancels, CloseDel, CloseEnds, Reopen, ReopenFd, HookTypes, Life
  <2>2. linked' \in BOOLEAN /\ fdctx' \in BOOLEAN
    BY <1>5, HookAssumption, Zenon DEF CloseCancels, CloseDel, CloseEnds, Reopen, HookTypes
  <2>3. UNCHANGED <<call, firing>> /\ closing' \in {"no", "del", "close"}
    BY <1>5 DEF CloseCancels, CloseDel, CloseEnds, Reopen, HookTypes
  <2> QED BY <2>1, <2>2, <2>3 DEF HookTypes
<1>6. CASE Hangs \/ UserCancel \/ (\E t \in Threads : Idle(t)) \/ \E d \in Dirs : Arrives(d)
  BY <1>6, Zenon DEF Hangs, UserCancel, Idle, Arrives, HookTypes, socketLife
<1>7. CASE \E f \in Waiters : FiberStep(f) \/ Expire(f)
  BY <1>1, <1>7 DEF HookTypes, socketLife
<1> QED BY <1>2, <1>3, <1>4, <1>5, <1>6, <1>7 DEF HookNext

\* The life of the socket.
LEMMA LifeKept ==
    ASSUME HookTypes, Life, HookNext
    PROVE  Life'
<1>1. CASE CloseCancels
  <2>1. open' = open
    BY <1>1 DEF CloseCancels, CancelAllIfAny, CancelAll, fdVars, socketVars
  <2> QED BY <1>1, <2>1 DEF CloseCancels, HookTypes, Life
<1>2. CASE CloseDel
  BY <1>2 DEF CloseDel, Life, fdVars, socketVars
<1>3. CASE CloseEnds
  BY <1>3 DEF CloseEnds, CloseFd, Life
<1>4. CASE Reopen
  BY <1>4 DEF Reopen, ReopenFd, Life
<1>5. CASE ~CloseCancels /\ ~CloseDel /\ ~CloseEnds /\ ~Reopen
  <2>1. UNCHANGED <<opens, fdctx, closing>>
    BY <1>5, Zenon DEF HookNext, FiberStep, TryDone, TryAgain, Arm, Add, Resumed, Check, Result, Expire,
                RunCb, FireCancel, Start, Hangs, UserCancel, Idle, Arrives, socketLife
  <2>2. UNCHANGED open
    BY <1>5, Zenon DEF HookNext, FiberStep, TryDone, TryAgain, Arm, Add, AddEvent, AddEventFails,
                AddEventAsserts, Resumed, Resume, Check, Result, Expire, RunCb, FireCancel,
                CancelIfThere, CancelEvent, CancelAll, Start, Hangs, HangUp, UserCancel, Idle,
                EpollWait, HandleEvent, Arrives, Arrive, fdVars, socketVars
  <2> QED BY <2>1, <2>2 DEF Life
<1> QED BY <1>1, <1>2, <1>3, <1>4, <1>5

-----------------------------------------------------------------------------
(* Who is suspended.                                                       *)

\* The place and the event of a call after a step that changes it.
LEMMA CallMoves ==
    ASSUME HookTypes, NEW f \in Waiters
    PROVE  /\ NoCall.at = "out"
           /\ \A a, t : /\ [call[f] EXCEPT !.at = a].at = a
                        /\ [call[f] EXCEPT !.at = a].dir = call[f].dir
                        /\ [call[f] EXCEPT !.at = a, !.timer = t].at = a
                        /\ [call[f] EXCEPT !.at = a, !.timer = t].dir = call[f].dir
           /\ \A d, b, t :
                [NoCall EXCEPT !.at = "try", !.dir = d, !.connects = b, !.timed = t, !.sock = opens].at
                    = "try"
           /\ \A t, q : /\ [call[f] EXCEPT !.timer = t, !.queued = q].at = call[f].at
                        /\ [call[f] EXCEPT !.timer = t, !.queued = q].dir = call[f].dir
                        /\ [call[f] EXCEPT !.queued = q, !.cancelled = t].at = call[f].at
                        /\ [call[f] EXCEPT !.queued = q, !.cancelled = t].dir = call[f].dir
<1>1. call[f] \in Calls
  BY DEF HookTypes
<1> QED BY <1>1, Zenon DEF Calls, NoCall

\* A step that wakes and registers nobody, and moves no call to or from "held".
LEMMA HeldFrame ==
    ASSUME Held, UNCHANGED <<waiter, wakes>>,
           \A g \in Waiters : /\ call'[g].at = "held" <=> call[g].at = "held"
                              /\ call[g].at = "held" => call'[g].dir = call[g].dir
    PROVE  Held'
<1>1. ASSUME NEW g \in Waiters
      PROVE  /\ wakes'[g] = wakes[g] /\ (Waits(g)' <=> Waits(g))
             /\ \A d \in Dirs : waiter'[d] = waiter[d]
  BY DEF Waits
<1>2. ASSUME NEW g \in Waiters, NEW d \in Dirs, waiter[d] = g
      PROVE  call[g].at = "held"
  BY <1>2, SMTT(30) DEF Held, Waits
<1> QED BY <1>1, <1>2, SMTT(30) DEF Held

\* triggerEvent wakes the fibers that are registered, once.
LEMMA TriggerHeld ==
    ASSUME CtxTypes, Held, NEW ds \in SUBSET Dirs, Trigger(ds), UNCHANGED call
    PROVE  Held'
<1>1. ASSUME NEW w \in Waiters
      PROVE  /\ wakes'[w] = wakes[w] + (IF \E d \in ds : waiter[d] = w THEN 1 ELSE 0)
             /\ wakes[w] \in Nat /\ w # None
  BY FdContextAssumption, SMTT(30) DEF Trigger, CtxTypes
<1>2. ASSUME NEW d \in Dirs PROVE waiter'[d] = IF d \in ds THEN None ELSE waiter[d]
  BY SMTT(30) DEF Trigger, TakeWaiters
<1>3. ASSUME NEW w \in Waiters
      PROVE  /\ wakes'[w] <= 1
             /\ call'[w].at = "held" <=> Waits(w)' \/ wakes'[w] > 0
             /\ \A d \in Dirs : waiter'[d] = w => call'[w].dir = d /\ wakes'[w] = 0
  <2>1. CASE \E d \in ds : waiter[d] = w
    <3>1. PICK d \in ds : waiter[d] = w
      BY <2>1, SMTT(30)
    <3>2. wakes[w] = 0 /\ wakes'[w] = 1 /\ call[w].at = "held" /\ call[w].dir = d
      BY <1>1, <3>1, SMTT(30) DEF Held, Waits
    <3>3. ASSUME NEW e \in Dirs PROVE waiter'[e] # w
      BY <1>1, <1>2, <3>1, <3>2, SMTT(30) DEF Held
    <3> QED BY <3>2, <3>3
  <2>2. CASE ~ \E d \in ds : waiter[d] = w
    <3>1. wakes'[w] = wakes[w]
      BY <1>1, <2>2, SMTT(30)
    <3>2. Waits(w)' <=> Waits(w)
      BY <1>1, <1>2, <2>2 DEF Waits
    <3>3. ASSUME NEW e \in Dirs PROVE waiter'[e] = w => waiter[e] = w
      BY <1>1, <1>2, SMTT(30)
    <3> QED BY <3>1, <3>2, <3>3, SMTT(30) DEF Held
  <2> QED BY <2>1, <2>2
<1> QED BY <1>3 DEF Held

\* A fiber that registers is suspended, and nobody else.
LEMMA AddHeld ==
    ASSUME CtxTypes, Counted, HookTypes, Held, NEW f \in Waiters,
           call[f].at = "add", AddEvent(call[f].dir, f), Goes(f, "held")
    PROVE  Held'
<1> DEFINE d == call[f].dir
<1>0. d \in Dirs /\ call \in [Waiters -> Calls]
  BY SMTT(30) DEF HookTypes, Calls
<1>1. wakes' = wakes /\ waiter' = [waiter EXCEPT ![d] = f] /\ waiter[d] = None
  BY <1>0 DEF AddEvent, Counted
<1>2. call'[f].at = "held" /\ call'[f].dir = d
  BY <1>0, CallMoves DEF Goes
<1>3. ASSUME NEW g \in Waiters, g # f PROVE call'[g] = call[g]
  BY <1>0, <1>3, SMTT(30) DEF Goes
<1>4. wakes[f] = 0 /\ ~Waits(f)
  BY SMTT(30) DEF Held, CtxTypes
<1>5. ASSUME NEW e \in Dirs PROVE waiter'[e] = IF e = d THEN f ELSE waiter[e]
  BY <1>1, SMTT(30) DEF CtxTypes
<1> HIDE DEF d
<1>6. ASSUME NEW g \in Waiters
      PROVE  /\ wakes'[g] <= 1
             /\ call'[g].at = "held" <=> Waits(g)' \/ wakes'[g] > 0
             /\ \A e \in Dirs : waiter'[e] = g => call'[g].dir = e /\ wakes'[g] = 0
  <2>1. CASE g = f
    BY <1>0, <1>1, <1>2, <1>4, <1>5, <2>1, SMTT(30) DEF Waits
  <2>2. CASE g # f
    <3>1. Waits(g)' <=> Waits(g)
      BY <1>0, <1>1, <1>5, <2>2, FdContextAssumption DEF Waits
    <3> QED BY <1>1, <1>3, <1>5, <2>2, <3>1 DEF Held
  <2> QED BY <2>1, <2>2, SMTT(30)
<1> QED BY <1>6 DEF Held

\* The other steps of a fiber and its timer.
LEMMA FiberHeld ==
    ASSUME CtxTypes, Counted, HookTypes, Held, NEW f \in Waiters,
           FiberStep(f) \/ Expire(f) \/ RunCb(f)
    PROVE  Held'
<1>0. call \in [Waiters -> Calls] /\ call[f] \in Calls
  BY DEF HookTypes
<1>1. ASSUME NEW c, call' = [call EXCEPT ![f] = c]
      PROVE  call'[f] = c /\ \A g \in Waiters : g # f => call'[g] = call[g]
  BY <1>0, <1>1, SMTT(30)
<1>2. ASSUME UNCHANGED <<waiter, wakes>>, \A g \in Waiters : g # f => call'[g] = call[g],
             \/ call[f].at # "held" /\ call'[f].at # "held"
             \/ call'[f].at = call[f].at /\ call'[f].dir = call[f].dir
      PROVE  Held'
  BY <1>2, HeldFrame
<1>3. CASE TryDone(f) \/ Result(f)
  <2>1. call'[f] = NoCall /\ \A g \in Waiters : g # f => call'[g] = call[g]
    BY <1>1, <1>3, SMTT(30) DEF TryDone, Result, Returns
  <2>2. call[f].at # "held" /\ UNCHANGED <<waiter, wakes>>
    BY <1>3, SMTT(30) DEF TryDone, Result, fdVars, ctxVars
  <2> QED BY <1>2, <2>1, <2>2, CallMoves
<1>4. CASE TryAgain(f) \/ (Check(f) /\ ~call[f].cancelled)
  <2>1. PICK a \in {"arm", "add", "result", "try"} : Goes(f, a)
    BY <1>4 DEF TryAgain, Check
  <2>2. call'[f] = [call[f] EXCEPT !.at = a] /\ \A g \in Waiters : g # f => call'[g] = call[g]
    BY <1>1, <2>1, Zenon DEF Goes
  <2>3. call'[f].at = a
    BY ONLY <1>0, <2>2, Zenon DEF Calls
  <2>4. call[f].at # "held" /\ UNCHANGED <<waiter, wakes>>
    BY <1>4 DEF TryAgain, Check, fdVars, ctxVars
  <2>5. call'[f].at # "held" /\ \A g \in Waiters : g # f => call'[g] = call[g]
    BY <2>2, <2>3
  <2> QED BY ONLY <1>2, <2>4, <2>5, SMTT(30)
<1>5. CASE Check(f) /\ call[f].cancelled
  <2>1. call'[f] = NoCall /\ \A g \in Waiters : g # f => call'[g] = call[g]
    BY <1>1, <1>5, SMTT(30) DEF Check, Returns
  <2>2. call[f].at # "held" /\ UNCHANGED <<waiter, wakes>>
    BY <1>5 DEF Check, fdVars, ctxVars
  <2> QED BY <1>2, <2>1, <2>2, CallMoves
<1>6. CASE Arm(f) \/ Expire(f) \/ RunCb(f)
  <2>1. UNCHANGED <<waiter, wakes>>
    BY <1>6 DEF Arm, Expire, RunCb, fdVars, ctxVars
  <2>2. CASE Arm(f)
    <3>1. /\ call'[f] = [call[f] EXCEPT !.at = "add", !.timer = TRUE]
          /\ \A g \in Waiters : g # f => call'[g] = call[g]
      BY <1>1, <2>2, Zenon DEF Arm
    <3>2. call'[f].at = "add" /\ call[f].at = "arm"
      BY ONLY <1>0, <2>2, <3>1, Zenon DEF Arm, Calls
    <3>3. \A g \in Waiters : g # f => call'[g] = call[g]
      BY <3>1, SMTT(30)
    <3> QED BY ONLY <1>2, <2>1, <3>2, <3>3
  <2>3. CASE Expire(f)
    <3>1. /\ call'[f] = [call[f] EXCEPT !.timer = FALSE, !.queued = call[f].queued + 1]
          /\ \A g \in Waiters : g # f => call'[g] = call[g]
      BY <1>1, <2>3, Zenon DEF Expire
    <3>2. call'[f].at = call[f].at /\ call'[f].dir = call[f].dir
      BY ONLY <1>0, <3>1, Zenon DEF Calls
    <3>3. \A g \in Waiters : g # f => call'[g] = call[g]
      BY <3>1
    <3> QED BY ONLY <1>2, <2>1, <3>2, <3>3
  <2>4. CASE RunCb(f)
    <3>1. /\ call'[f] = [call[f] EXCEPT !.queued = call[f].queued - 1, !.cancelled = TRUE]
          /\ \A g \in Waiters : g # f => call'[g] = call[g]
      BY <1>1, <2>4, Zenon DEF RunCb
    <3>2. call'[f].at = call[f].at /\ call'[f].dir = call[f].dir
      BY ONLY <1>0, <3>1, Zenon DEF Calls
    <3>3. \A g \in Waiters : g # f => call'[g] = call[g]
      BY <3>1
    <3> QED BY ONLY <1>2, <2>1, <3>2, <3>3
  <2> QED BY <1>6, <2>2, <2>3, <2>4
<1>7. CASE Add(f)
  <2>1. CASE AddEvent(call[f].dir, f) /\ Goes(f, "held")
    BY <1>7, <2>1, AddHeld DEF Add
  <2>2. CASE AddEventFails(call[f].dir) /\ Fail(f)
    <3>1. UNCHANGED <<waiter, wakes>> /\ call[f].at = "add"
      BY <1>7, <2>2, SMTT(30) DEF Add, AddEventFails, fdVars, ctxVars
    <3>2. CASE call[f].connects
      <4>1. /\ call'[f] = [call[f] EXCEPT !.at = "result", !.timer = FALSE]
            /\ \A g \in Waiters : g # f => call'[g] = call[g]
        BY <1>1, <2>2, <3>2, Zenon DEF Fail
      <4>2. call'[f].at = "result"
        BY ONLY <1>0, <4>1, Zenon DEF Calls
      <4>3. \A g \in Waiters : g # f => call'[g] = call[g]
        BY <4>1
      <4> QED BY ONLY <1>2, <3>1, <4>2, <4>3
    <3>3. CASE ~call[f].connects
      <4>1. call'[f] = NoCall /\ \A g \in Waiters : g # f => call'[g] = call[g]
        BY <1>1, <2>2, <3>3, SMTT(30) DEF Fail, Returns
      <4> QED BY <1>2, <3>1, <4>1, CallMoves
    <3> QED BY <3>2, <3>3, SMTT(30)
  <2>3. CASE AddEventAsserts(call[f].dir) /\ UNCHANGED call
    BY <2>3, HeldFrame, SMTT(30) DEF AddEventAsserts, ctxVars
  <2> QED BY <1>7, <2>1, <2>2, <2>3, SMTT(30) DEF Add
<1>8. CASE Resumed(f)
  <2>1. /\ waiter' = waiter /\ wakes' = [wakes EXCEPT ![f] = @ - 1] /\ wakes[f] > 0
        /\ call' = [call EXCEPT ![f] = [call[f] EXCEPT !.at = "check", !.timer = FALSE]]
    BY <1>8 DEF Resumed, Resume
  <2>2. wakes[f] = 1 /\ wakes'[f] = 0 /\ ~Waits(f)
    BY <2>1 DEF Held, Waits, CtxTypes
  <2>3. call'[f].at = "check"
    BY ONLY <1>0, <1>1, <2>1, Zenon DEF Calls
  <2>4. ASSUME NEW g \in Waiters, g # f PROVE call'[g] = call[g] /\ wakes'[g] = wakes[g]
    BY <1>0, <2>1, <2>4 DEF CtxTypes
  <2>5. ASSUME NEW g \in Waiters PROVE Waits(g)' <=> Waits(g)
    BY <2>1, SMTT(30) DEF Waits
  <2>6. ASSUME NEW g \in Waiters
        PROVE  /\ wakes'[g] <= 1
               /\ call'[g].at = "held" <=> Waits(g)' \/ wakes'[g] > 0
               /\ \A e \in Dirs : waiter'[e] = g => call'[g].dir = e /\ wakes'[g] = 0
    <3>1. CASE g = f
      BY <2>1, <2>2, <2>3, <2>5, <3>1 DEF Waits
    <3>2. CASE g # f
      BY <2>1, <2>4, <2>5, <3>2 DEF Held
    <3> QED BY <3>1, <3>2
  <2> QED BY <2>6 DEF Held
<1> QED BY <1>3, <1>4, <1>5, <1>6, <1>7, <1>8 DEF FiberStep

\* No step suspends a fiber without a registration, or leaves one behind.
LEMMA HeldKept ==
    ASSUME CtxTypes, Counted, HookTypes, Held, HookNext
    PROVE  Held'
<1>1. CASE \E f \in Waiters : FiberStep(f) \/ Expire(f) \/ RunCb(f)
  BY <1>1, FiberHeld
<1>2. CASE \E f \in Waiters, d \in Dirs, hasTimeout \in Timeouts : Start(f, d, hasTimeout)
  <2>1. PICK f \in Waiters, d \in Dirs, hasTimeout \in Timeouts : Start(f, d, hasTimeout)
    BY <1>2
  <2>2. ASSUME NEW g \in Waiters
        PROVE  IF g = f THEN call[g].at = "out" /\ call'[g].at = "try" ELSE call'[g] = call[g]
    BY <2>1, CallMoves DEF Start, HookTypes
  <2> QED BY <2>1, <2>2, HeldFrame DEF Start, fdVars, ctxVars
<1>3. ASSUME NEW d \in Dirs, CancelEvent(d), UNCHANGED call PROVE Held'
  BY <1>3, TriggerHeld DEF CancelEvent
<1>4. ASSUME CancelAll, UNCHANGED call PROVE Held'
  BY <1>4, TriggerHeld, SMTT(30) DEF CancelAll, CtxTypes
<1>5. ASSUME UNCHANGED <<ctxVars, call>> PROVE Held'
  BY <1>5, HeldFrame DEF ctxVars
<1>6. CASE \E f \in Waiters : FireCancel(f)
  <2>1. PICK f \in Waiters : FireCancel(f)
    BY <1>6
  <2>2. firing[f] \in Dirs
    BY <2>1 DEF FireCancel, HookTypes
  <2> QED BY <1>3, <1>5, <2>1, <2>2 DEF FireCancel, CancelIfThere, fdVars
<1>7. CASE CloseCancels
  BY <1>4, <1>5, <1>7, SMTT(30) DEF CloseCancels, CancelAllIfAny, fdVars
<1>8. CASE CloseDel \/ CloseEnds \/ Reopen \/ Hangs \/ \E d \in Dirs : Arrives(d)
  BY <1>5, <1>8 DEF CloseDel, CloseEnds, CloseFd, Reopen, ReopenFd, Hangs, HangUp, Arrives, Arrive, fdVars
<1>9. CASE UserCancel
  BY <1>3, <1>4, <1>9 DEF UserCancel
<1>10. CASE \E t \in Threads : Idle(t)
  <2>1. PICK t \in Threads : Idle(t)
    BY <1>10
  <2>2. CASE EpollWait(t)
    BY <1>5, <2>1, <2>2 DEF Idle, EpollWait
  <2>3. CASE HandleEvent(t)
    BY <1>5, <2>1, <2>3, HandleCases, TriggerHeld DEF Idle, CtxTypes
  <2> QED BY <2>1, <2>2, <2>3 DEF Idle
<1> QED BY <1>1, <1>2, <1>6, <1>7, <1>8, <1>9, <1>10 DEF HookNext

\* The invariant of the hooked calls is inductive.
THEOREM HookInductive == HookSpec => []HookInv
<1>1. HookInit => HookInv
  <2> SUFFICES ASSUME HookInit PROVE HookInv
    OBVIOUS
  <2>1. CtxTypes /\ KernelTypes
    BY Zenon DEF HookInit, FdInit, CtxTypes, KernelTypes
  <2>2. Counted
    BY DEF HookInit, FdInit, Counted, Count, Dirs
  <2>3. NoCall \in Calls /\ NoCall.at = "out"
    BY HookAssumption, SMTT(30) DEF NoCall, Calls, Dirs
  <2>4. linked \in BOOLEAN
    BY HookAssumption, Zenon DEF HookInit
  <2>5. HookTypes
    BY <2>3, <2>4, HookAssumption DEF HookInit, HookTypes
  <2>6. Life
    BY DEF HookInit, FdInit, Life
  <2>7. Held
    BY <2>3, FdContextAssumption DEF HookInit, FdInit, Held, Waits
  <2> QED BY <2>1, <2>2, <2>5, <2>6, <2>7 DEF HookInv
<1>2. HookInv /\ [HookNext]_hookVars => HookInv'
  <2> SUFFICES ASSUME HookInv, [HookNext]_hookVars PROVE HookInv'
    OBVIOUS
  <2>1. CASE HookNext
    <3>1. CtxTypes' /\ KernelTypes' /\ Counted'
      BY <2>1, HookContext, ContextKeeps DEF HookInv
    <3>2. HookTypes' /\ Life' /\ Held'
      BY <2>1, HookTypesKept, LifeKept, HeldKept DEF HookInv
    <3> QED BY <3>1, <3>2 DEF HookInv
  <2>2. CASE UNCHANGED hookVars
    <3>1. CtxTypes' /\ KernelTypes' /\ Counted'
      BY <2>2, ContextKeeps, SMTT(30) DEF hookVars, ContextStep, HookInv
    <3>2. HookTypes' /\ Life'
      BY <2>2, SMTT(30) DEF hookVars, fdVars, socketVars, socketLife, HookTypes, Life, HookInv
    <3>3. Held'
      BY <2>2, HeldFrame DEF hookVars, fdVars, ctxVars, HookInv
    <3> QED BY <3>1, <3>2, <3>3 DEF HookInv
  <2> QED BY <2>1, <2>2
<1> QED BY <1>1, <1>2, PTL DEF HookSpec

\* Type correctness of the hooked calls and the context under them.
THEOREM HookTypeCorrect == HookSpec => []HookTypeOK
<1>1. HookInv => HookTypeOK
  BY FdTypesSplit, SMTT(30) DEF HookInv, HookTypes, HookTypeOK
<1> QED BY <1>1, HookInductive, PTL

\* A fiber in do_io or connect_with_timeout is suspended exactly as long as it is
\* registered or scheduled, and never both.
THEOREM HookParked == HookSpec => []Parked
<1>1. HookInv => Parked
  BY DEF HookInv, Held, Parked, Waits, CtxTypes
<1> QED BY <1>1, HookInductive, PTL
=============================================================================
