-------------------------- MODULE TimersSyncProofs --------------------------
(***************************************************************************)
(* Theorems about the timers and about the synchronisation of fibers, for  *)
(* every value of the constants.                                           *)
(*                                                                         *)
(* Timers, for any threads, timers and intervals and however the clock     *)
(* moves: the set of timers and the end of a one-shot timer.               *)
(*                                                                         *)
(* FiberSemaphore, for any fibers and number of permits: its parking is    *)
(* right, and it implements Semaphore.                                     *)
(***************************************************************************)
EXTENDS Timers, FiberSemaphore, FiniteSetTheorems, TLAPS

\* What the other invariants need of a timer's own fields: m_next - m_ms in
\* reset() does not wrap, and a timer that addTimer has not inserted yet has had
\* no end.
Fields ==
    \A x \in Timers :
        /\ ms[x] <= next[x]
        /\ stage[x] # "shared" => handed[x] = 0 /\ ~cancelled[x]
        /\ stage[x] = "made" => armed[x]

\* The inductive invariant.
TimersInv == TypeOK /\ SetMatches /\ Fields /\ OneEnd

\* The timers with a callback, each under its present m_next.
InSet(x, n) == stage[x] = "shared" /\ armed[x] /\ n = next[x]

-----------------------------------------------------------------------------
(* The set, entry by entry.                                                *)

\* SetMatches says of each pair of a time and a timer whether it is in m_timers,
LEMMA EntryWise ==
    ASSUME TypeOK, SetMatches
    PROVE  \A x \in Timers, n \in Nat : <<n, x>> \in timers <=> InSet(x, n)
  BY DEF TypeOK, SetMatches, Entry, InSet

\* and it is enough to know that of each pair.
LEMMA FromPoints ==
    ASSUME next \in [Timers -> Nat], timers \subseteq Nat \X Timers,
           \A x \in Timers, n \in Nat : <<n, x>> \in timers <=> InSet(x, n)
    PROVE  SetMatches
  <1>1. ASSUME NEW e \in timers
        PROVE  e \in {Entry(x) : x \in {y \in Timers : stage[y] = "shared" /\ armed[y]}}
    <2>1. PICK n \in Nat, x \in Timers : e = <<n, x>>
      OBVIOUS
    <2> QED
      BY <2>1 DEF Entry, InSet
  <1>2. ASSUME NEW x \in Timers, stage[x] = "shared", armed[x]
        PROVE  Entry(x) \in timers
    BY <1>2 DEF Entry, InSet
  <1> QED
    BY <1>1, <1>2 DEF SetMatches

\* The same in the state after a step.
LEMMA FromPointsNext ==
    ASSUME next' \in [Timers -> Nat], timers' \subseteq Nat \X Timers,
           \A x \in Timers, n \in Nat : <<n, x>> \in timers' <=> InSet(x, n)'
    PROVE  SetMatches'
  <1>1. ASSUME NEW e \in timers'
        PROVE  e \in {Entry(x)' : x \in {y \in Timers : stage'[y] = "shared" /\ armed'[y]}}
    <2>1. PICK n \in Nat, x \in Timers : e = <<n, x>>
      OBVIOUS
    <2> QED
      BY <2>1 DEF Entry, InSet
  <1>2. ASSUME NEW x \in Timers, stage'[x] = "shared", armed'[x]
        PROVE  Entry(x)' \in timers'
    BY <1>2 DEF Entry, InSet
  <1> QED
    BY <1>1, <1>2 DEF SetMatches

-----------------------------------------------------------------------------
(* One lemma for each action that touches a timer.                         *)

\* A new timer is in no set yet.
LEMMA NewTimerInv ==
    ASSUME TimersInv, TimersAssumption, NEW x \in Timers, NEW m \in Periods,
           NEW r \in BOOLEAN, NewTimer(x, m, r)
    PROVE  TimersInv'
  <1>1. m \in Nat
    BY DEF TimersAssumption
  <1>2. TypeOK'
    BY <1>1 DEF TimersInv, TypeOK, NewTimer, threadVars, pastVars
  <1>3. Fields' /\ OneEnd'
    BY <1>1 DEF TimersInv, TypeOK, Fields, OneEnd, NewTimer, pastVars
  <1>4. \A y \in Timers, n \in Nat : <<n, y>> \in timers' <=> InSet(y, n)'
    <2>1. \A y \in Timers, n \in Nat : <<n, y>> \in timers <=> InSet(y, n)
      BY EntryWise, Zenon DEF TimersInv
    <2>2. /\ stage[x] = "none" /\ stage'[x] = "made" /\ timers' = timers
          /\ \A y \in Timers : y # x => /\ stage'[y] = stage[y] /\ armed'[y] = armed[y]
                                        /\ next'[y] = next[y]
      BY DEF TimersInv, TypeOK, NewTimer
    <2> QED
      BY ONLY <2>1, <2>2, Zenon DEF InSet
  <1> QED
    BY <1>2, <1>3, <1>4, FromPointsNext DEF TimersInv, TypeOK

\* Inserting under its m_next a timer that is out of the set.
LEMMA InsertSet ==
    ASSUME TypeOK, NEW x \in Timers, NEW n \in Nat, NEW s \in SUBSET (Nat \X Timers),
           Insert(x, n, s)
    PROVE  /\ timers' = s \cup {<<n, x>>} /\ timers' \subseteq Nat \X Timers
           /\ tickled' \in BOOLEAN /\ announcing' \subseteq Timers
  BY DEF TypeOK, Insert

\* addTimer puts the timer in under the m_next of its constructor.
LEMMA AddTimerInv ==
    ASSUME TimersInv, NEW x \in Timers, AddTimer(x)
    PROVE  TimersInv'
  <1>1. /\ timers' = timers \cup {<<next[x], x>>} /\ timers' \subseteq Nat \X Timers
        /\ tickled' \in BOOLEAN /\ announcing' \subseteq Timers
    BY InsertSet DEF TimersInv, TypeOK, AddTimer
  <1>2. TypeOK'
    BY <1>1 DEF TimersInv, TypeOK, AddTimer, threadVars, pastVars
  <1>3. Fields' /\ OneEnd'
    BY DEF TimersInv, TypeOK, Fields, OneEnd, AddTimer, pastVars
  <1>4. \A y \in Timers, n \in Nat : <<n, y>> \in timers' <=> InSet(y, n)'
    <2>1. \A y \in Timers, n \in Nat : <<n, y>> \in timers <=> InSet(y, n)
      BY EntryWise, Zenon DEF TimersInv
    <2>2. /\ stage[x] = "made" /\ stage'[x] = "shared" /\ armed[x]
          /\ UNCHANGED <<armed, next>>
          /\ \A y \in Timers : y # x => stage'[y] = stage[y]
      BY DEF TimersInv, TypeOK, Fields, AddTimer
    <2> QED
      BY ONLY <1>1, <2>1, <2>2, Zenon DEF InSet
  <1> QED
    BY <1>2, <1>3, <1>4, FromPointsNext DEF TimersInv, TypeOK

\* cancel() finds the timer where its m_next says.
LEMMA CancelInv ==
    ASSUME TimersInv, NEW x \in Timers, Cancel(x)
    PROVE  TimersInv'
  <1>1. TypeOK'
    BY DEF TimersInv, TypeOK, Cancel, threadVars
  <1>2. Fields' /\ OneEnd'
    BY DEF TimersInv, TypeOK, Fields, OneEnd, Cancel
  <1>3. \A y \in Timers, n \in Nat : <<n, y>> \in timers' <=> InSet(y, n)'
    <2>1. \A y \in Timers, n \in Nat : <<n, y>> \in timers <=> InSet(y, n)
      BY EntryWise, Zenon DEF TimersInv
    <2>2. /\ timers' = timers \ {<<next[x], x>>} /\ ~armed'[x]
          /\ UNCHANGED <<stage, next>>
          /\ \A y \in Timers : y # x => armed'[y] = armed[y]
      BY DEF TimersInv, TypeOK, Cancel, Entry
    <2> QED
      BY ONLY <2>1, <2>2, Zenon DEF InSet
  <1> QED
    BY <1>1, <1>2, <1>3, FromPointsNext DEF TimersInv, TypeOK

\* refresh() moves the timer with its m_next.
LEMMA RefreshInv ==
    ASSUME TimersInv, NEW x \in Timers, Refresh(x)
    PROVE  TimersInv'
  <1>1. next'[x] \in Nat /\ next'[x] = clock + ms[x] /\ next' \in [Timers -> Nat]
    BY DEF TimersInv, TypeOK, Refresh
  <1>2. timers' = (timers \ {<<next[x], x>>}) \cup {<<next'[x], x>>}
    BY DEF Refresh, Entry
  <1>3. TypeOK'
    BY <1>1, <1>2 DEF TimersInv, TypeOK, Refresh, threadVars, pastVars
  <1>4. Fields' /\ OneEnd'
    BY <1>1 DEF TimersInv, TypeOK, Fields, OneEnd, Refresh, pastVars
  <1>5. \A y \in Timers, n \in Nat : <<n, y>> \in timers' <=> InSet(y, n)'
    <2>1. \A y \in Timers, n \in Nat : <<n, y>> \in timers <=> InSet(y, n)
      BY EntryWise, Zenon DEF TimersInv
    <2>2. /\ stage[x] = "shared" /\ armed[x]
          /\ UNCHANGED <<stage, armed>>
          /\ \A y \in Timers : y # x => next'[y] = next[y]
      BY DEF TimersInv, TypeOK, Refresh
    <2> QED
      BY ONLY <1>2, <2>1, <2>2, Zenon DEF InSet
  <1> QED
    BY <1>3, <1>4, <1>5, FromPointsNext DEF TimersInv, TypeOK

\* So does reset(), whose start never wraps below zero.
LEMMA ResetInv ==
    ASSUME TimersInv, TimersAssumption, NEW x \in Timers, NEW m \in Periods,
           NEW from_now \in BOOLEAN, Reset(x, m, from_now)
    PROVE  TimersInv'
  <1>1. StartOf(x, m, from_now) \in Nat
    BY DEF TimersInv, TypeOK, Fields, StartOf
  <1>2. m \in Nat
    BY DEF TimersAssumption
  <1> DEFINE v == StartOf(x, m, from_now) + m
  <1>3. v \in Nat /\ m <= v
    BY <1>1, <1>2
  <1>4. next' = [next EXCEPT ![x] = v] /\ next'[x] = v /\ next' \in [Timers -> Nat]
    BY <1>3 DEF TimersInv, TypeOK, Reset
  <1> HIDE DEF v
  <1>5. Insert(x, v, timers \ {<<next[x], x>>})
    BY <1>4 DEF Reset, Entry
  <1>6. /\ timers' = (timers \ {<<next[x], x>>}) \cup {<<v, x>>}
        /\ timers' \subseteq Nat \X Timers
        /\ tickled' \in BOOLEAN /\ announcing' \subseteq Timers
    BY <1>3, <1>5, InsertSet DEF TimersInv, TypeOK
  <1>7. TypeOK'
    BY <1>2, <1>4, <1>6 DEF TimersInv, TypeOK, Reset, threadVars, pastVars
  <1>8. Fields' /\ OneEnd'
    BY <1>2, <1>3, <1>4 DEF TimersInv, TypeOK, Fields, OneEnd, Reset, pastVars
  <1>9. \A y \in Timers, n \in Nat : <<n, y>> \in timers' <=> InSet(y, n)'
    <2>1. \A y \in Timers, n \in Nat : <<n, y>> \in timers <=> InSet(y, n)
      BY EntryWise, Zenon DEF TimersInv
    <2>2. /\ stage[x] = "shared" /\ armed[x]
          /\ UNCHANGED <<stage, armed>>
      BY DEF Reset
    <2>3. \A y \in Timers : y # x => next'[y] = next[y]
      BY <1>4 DEF TimersInv, TypeOK
    <2> QED
      BY ONLY <1>4, <1>6, <2>1, <2>2, <2>3, Zenon DEF InSet
  <1> QED
    BY <1>7, <1>8, <1>9, FromPointsNext DEF TimersInv, TypeOK

\* listExpiredCb takes each expired timer once; a recurring one goes back under
\* its new m_next, a one-shot one loses its callback.
LEMMA ListExpiredCbInv ==
    ASSUME TimersInv, NEW t \in Threads, ListExpiredCb(t)
    PROVE  TimersInv'
  <1> DEFINE n  == now[t]
             ex == Expired(n, timers # {} /\ Rollover(n))
             xs == {e[2] : e \in ex}
  <1>1. n \in Nat /\ ex \subseteq timers
    BY DEF TimersInv, TypeOK, Expired
  <1>2. xs \subseteq Timers
    BY <1>1 DEF TimersInv, TypeOK
  <1>3. \A x \in Timers, k \in Nat :
          <<k, x>> \in ex <=> x \in xs /\ k = next[x]
    <2>1. ASSUME NEW x \in Timers, NEW k \in Nat, <<k, x>> \in ex
          PROVE  x \in xs /\ k = next[x]
      BY <1>1, <2>1, EntryWise DEF TimersInv, InSet
    <2>2. ASSUME NEW x \in xs
          PROVE  x \in Timers /\ <<next[x], x>> \in ex
      <3>1. PICK e \in ex : x = e[2]
        OBVIOUS
      <3>2. PICK j \in Nat, y \in Timers : e = <<j, y>>
        BY <1>1 DEF TimersInv, TypeOK
      <3> QED
        BY <1>1, <3>1, <3>2, EntryWise DEF TimersInv, InSet
    <2> QED
      BY <2>1, <2>2, Zenon
  <1>4. \A x \in xs : stage[x] = "shared" /\ armed[x]
    <2> TAKE x \in xs
    <2>1. x \in Timers /\ next[x] \in Nat
      BY <1>2, SMTT(30) DEF TimersInv, TypeOK
    <2> QED
      BY <1>1, <1>3, <2>1, EntryWise, Zenon DEF TimersInv, InSet
  <1>5. /\ next' = [x \in Timers |-> IF x \in xs /\ recurring[x] THEN n + ms[x] ELSE next[x]]
        /\ armed' = [x \in Timers |-> armed[x] /\ (x \in xs => recurring[x])]
        /\ handed' = [x \in Timers |-> IF x \in xs /\ ~recurring[x] THEN handed[x] + 1
                                                                   ELSE handed[x]]
        /\ timers' = (timers \ ex) \cup {<<next'[x], x>> : x \in {y \in xs : recurring[y]}}
        /\ UNCHANGED <<clock, stage, ms, recurring, tickled, announcing, cancelled>>
    BY DEF ListExpiredCb
  <1> HIDE DEF xs, ex, n
  <1>6. next' \in [Timers -> Nat]
    BY <1>1, <1>5 DEF TimersInv, TypeOK
  <1>7. timers' \subseteq Nat \X Timers
    BY <1>2, <1>5, <1>6 DEF TimersInv, TypeOK
  <1>8. TypeOK'
    <2>1. previous' \in Nat
      BY DEF TimersInv, TypeOK, ListExpiredCb
    <2>2. armed' \in [Timers -> BOOLEAN] /\ handed' \in [Timers -> Nat]
      BY <1>5 DEF TimersInv, TypeOK
    <2>3. /\ pc' \in [Threads -> {"busy", "ask", "wait", "read", "list", "drain"}]
          /\ now' \in [Threads -> Nat]
          /\ UNCHANGED <<deadline, told, edge, wentBack>>
      BY DEF TimersInv, TypeOK, ListExpiredCb
    <2> QED
      BY <1>5, <1>6, <1>7, <2>1, <2>2, <2>3, SMTT(30) DEF TimersInv, TypeOK
  <1>9. Fields'
    BY <1>1, <1>4, <1>5 DEF TimersInv, TypeOK, Fields
  <1>10. OneEnd'
    BY <1>4, <1>5 DEF TimersInv, TypeOK, OneEnd
  <1>11. \A x \in Timers, k \in Nat : <<k, x>> \in timers' <=> InSet(x, k)'
    <2> TAKE x \in Timers, k \in Nat
    <2>1. <<k, x>> \in timers' <=> \/ <<k, x>> \in timers /\ <<k, x>> \notin ex
                                   \/ x \in xs /\ recurring[x] /\ k = next'[x]
      <3> DEFINE back == {<<next'[y], y>> : y \in {z \in xs : recurring[z]}}
      <3>1. timers' = (timers \ ex) \cup back
        BY <1>5
      <3>2. <<k, x>> \in back <=> x \in xs /\ recurring[x] /\ k = next'[x]
        OBVIOUS
      <3> HIDE DEF back
      <3> QED
        BY ONLY <3>1, <3>2, Zenon
    <2>2. <<k, x>> \in timers <=> InSet(x, k)
      BY EntryWise DEF TimersInv
    <2> QED
      BY <1>3, <1>4, <1>5, <2>1, <2>2, Zenon DEF InSet
  <1> QED
    BY <1>6, <1>7, <1>8, <1>9, <1>10, <1>11, FromPointsNext DEF TimersInv

-----------------------------------------------------------------------------
(* The theorems.                                                           *)

\* The remaining actions touch the threads, the pipe and the clock only.
LEMMA OtherInv ==
    ASSUME TimersInv, TimersAssumption,
           \/ UNCHANGED vars \/ StopAsks \/ Tick \/ SetBack
           \/ \E x \in Timers : OnTimerInsertedAtFront(x)
           \/ \E t \in Threads : \/ GoIdle(t) \/ GetNextTimer(t) \/ EpollWait(t)
                                 \/ ReadNow(t) \/ ReadPipe(t)
    PROVE  TimersInv'
  <1>1. UNCHANGED <<timerVars, timers, handed, cancelled>>
    BY DEF vars, StopAsks, Tick, SetBack, OnTimerInsertedAtFront, GoIdle, GetNextTimer,
           EpollWait, ReadNow, ReadPipe, pastVars
  <1>2. SetMatches' /\ Fields' /\ OneEnd'
    BY <1>1, ZenonT(30) DEF TimersInv, SetMatches, Entry, Fields, OneEnd, timerVars
  <1>3. TypeOK'
    <2> USE <1>1 DEF TimersInv, TypeOK, timerVars
    <2>1. CASE UNCHANGED vars
      BY <2>1 DEF vars, threadVars, pastVars
    <2>2. CASE StopAsks
      BY <2>2, Zenon DEF StopAsks, ClearTickled, threadVars, pastVars
    <2>3. CASE Tick
      BY <2>3 DEF Tick, TimersAssumption, threadVars, pastVars
    <2>4. CASE SetBack
      <3>1. PICK d \in Backs :
              /\ clock > Hour + d /\ clock' = clock - d
              /\ deadline' = [t \in Threads |-> IF deadline[t] = NoLimit THEN NoLimit
                                                ELSE IF deadline[t] > d THEN deadline[t] - d ELSE 1]
        BY <2>4 DEF SetBack
      <3>2. clock' \in Nat /\ deadline' \in [Threads -> Nat]
        BY <3>1, TimersAssumption DEF TimersAssumption, NoLimit
      <3> QED
        BY <2>4, <3>2 DEF SetBack
    <2>5. CASE \E x \in Timers : OnTimerInsertedAtFront(x)
      BY <2>5 DEF OnTimerInsertedAtFront, threadVars, pastVars
    <2>6. ASSUME NEW t \in Threads, GoIdle(t) \/ EpollWait(t) \/ ReadNow(t) \/ ReadPipe(t)
          PROVE  TypeOK'
      <3>1. CASE GoIdle(t)
        BY <3>1 DEF GoIdle, pastVars
      <3>2. CASE EpollWait(t)
        BY <3>2, Zenon DEF EpollWait, pastVars
      <3>3. CASE ReadNow(t)
        BY <3>3 DEF ReadNow, pastVars
      <3>4. CASE ReadPipe(t)
        BY <3>4, ZenonT(30) DEF ReadPipe, pastVars
      <3> QED
        BY <2>6, <3>1, <3>2, <3>3, <3>4, ZenonT(30)
    <2>7. ASSUME NEW t \in Threads, GetNextTimer(t)
          PROVE  TypeOK'
      <3>1. \A v \in Nat : Deadline(v) \in Nat
        BY DEF Deadline, NoLimit, TimersAssumption
      <3>2. \A e \in timers : e[1] \in Nat
        OBVIOUS
      <3>3. deadline' \in [Threads -> Nat]
        BY <2>7, <3>1, <3>2, TimersAssumption DEF GetNextTimer, TimersAssumption
      <3> QED
        BY <2>7, <3>3, Zenon DEF GetNextTimer, ClearTickled, pastVars
    <2> QED
      BY <2>1, <2>2, <2>3, <2>4, <2>5, <2>6, <2>7, SMTT(30)
  <1> QED
    BY <1>2, <1>3 DEF TimersInv

\* The invariant holds in every reachable state.
THEOREM TimersInductive == Spec => []TimersInv
  <1>1. Init => TimersInv
    <2> SUFFICES ASSUME Init
                 PROVE  TimersInv
      OBVIOUS
    <2>1. TypeOK
      BY TimersAssumption, Zenon DEF Init, TypeOK, TimersAssumption
    <2>2. SetMatches
      BY DEF Init, SetMatches, Entry
    <2>3. Fields /\ OneEnd
      BY DEF Init, Fields, OneEnd
    <2> QED
      BY <2>1, <2>2, <2>3 DEF TimersInv
  <1>2. TimersInv /\ [Next]_vars => TimersInv'
    <2> SUFFICES ASSUME TimersInv, [Next]_vars
                 PROVE  TimersInv'
      OBVIOUS
    <2>1. CASE \E x \in Timers : UserStep(x)
      BY <2>1, TimersAssumption, NewTimerInv, AddTimerInv, CancelInv, RefreshInv, ResetInv,
         OtherInv, Zenon DEF UserStep
    <2>2. CASE \E t \in Threads : IdleStep(t)
      BY <2>2, TimersAssumption, ListExpiredCbInv, OtherInv, Zenon DEF IdleStep
    <2> QED
      BY <2>1, <2>2, TimersAssumption, OtherInv, Zenon DEF Next
  <1> QED
    BY <1>1, <1>2, PTL DEF Spec

\* Type correctness; no time wraps below zero.
THEOREM TimersTypes == Spec => []TypeOK
  BY TimersInductive, PTL DEF TimersInv

\* m_timers holds each timer that has a callback, once and at its place: erase()
\* in cancel() never gets the end of the set.
THEOREM TimersSetMatches == Spec => []SetMatches
  BY TimersInductive, PTL DEF TimersInv

\* A one-shot timer is armed, cancelled or handed over once: exactly one of them.
THEOREM TimersOneEnd == Spec => []OneEnd
  BY TimersInductive, PTL DEF TimersInv

-----------------------------------------------------------------------------
(* FiberSemaphore: its inductive invariant.                                *)

SemInv == SemTypeOK /\ SemParked

\* The waiters after one was appended.
LEMMA AppendRange ==
    ASSUME NEW s \in Seq(Fibers), NEW f \in Fibers
    PROVE  /\ Append(s, f) \in Seq(Fibers)
           /\ {Append(s, f)[i] : i \in 1..Len(Append(s, f))} = {s[i] : i \in 1..Len(s)} \cup {f}
           /\ (\A i, j \in 1..Len(s) : s[i] = s[j] => i = j) /\ f \notin {s[i] : i \in 1..Len(s)}
              => \A i, j \in 1..Len(Append(s, f)) : Append(s, f)[i] = Append(s, f)[j] => i = j
  OBVIOUS

\* The waiters after the first was taken away.
LEMMA TailRange ==
    ASSUME NEW s \in Seq(Fibers), s # <<>>,
           \A i, j \in 1..Len(s) : s[i] = s[j] => i = j
    PROVE  /\ Tail(s) \in Seq(Fibers) /\ Head(s) \in Fibers
           /\ {Tail(s)[i] : i \in 1..Len(Tail(s))} = {s[i] : i \in 1..Len(s)} \ {Head(s)}
           /\ Head(s) \in {s[i] : i \in 1..Len(s)}
           /\ \A i, j \in 1..Len(Tail(s)) : Tail(s)[i] = Tail(s)[j] => i = j
  <1>1. Len(s) >= 1 /\ Head(s) = s[1]
    OBVIOUS
  <1>2. \A i \in 1..Len(Tail(s)) : Tail(s)[i] = s[i + 1] /\ i + 1 \in 1..Len(s)
    OBVIOUS
  <1>3. Len(Tail(s)) = Len(s) - 1
    OBVIOUS
  <1>4. \A i \in 1..Len(s) : i # 1 => i - 1 \in 1..Len(Tail(s)) /\ Tail(s)[i - 1] = s[i]
    BY <1>2, <1>3
  <1>5. {Tail(s)[i] : i \in 1..Len(Tail(s))} = {s[i] : i \in 1..Len(s)} \ {Head(s)}
    <2>1. ASSUME NEW i \in 1..Len(Tail(s))
          PROVE  Tail(s)[i] \in {s[k] : k \in 1..Len(s)} \ {Head(s)}
      BY <1>1, <1>2, <1>3
    <2>2. ASSUME NEW k \in 1..Len(s), s[k] # Head(s)
          PROVE  s[k] \in {Tail(s)[i] : i \in 1..Len(Tail(s))}
      BY <2>2, <1>1, <1>4, SMTT(30)
    <2> QED
      BY <2>1, <2>2
  <1>6. \A i, j \in 1..Len(Tail(s)) : Tail(s)[i] = Tail(s)[j] => i = j
    BY <1>2, <1>3
  <1> QED
    BY <1>1, <1>5, <1>6

\* The invariant holds at first.
LEMMA SemInitial == SemInit => SemInv
  BY SemaphoreAssumption DEF SemInit, SemNew, SemInv, SemTypeOK, SemParked, Waiting

\* wait(), of the fibers that find a permit and of those that do not.
LEMMA WaitKeeps ==
    ASSUME SemInv, NEW f \in Fibers, Wait(f)
    PROVE  SemInv'
  <1>1. CASE SemFree(sem)
    BY <1>1 DEF SemInv, SemTypeOK, SemParked, Waiting, Wait, SemFree, SemTake
  <1>2. CASE ~SemFree(sem)
    <2>1. /\ sem' = [concurrency |-> sem.concurrency, waiters |-> Append(sem.waiters, f)]
          /\ place' = [place EXCEPT ![f] = "yield"] /\ woken' = woken /\ place[f] = "run"
      BY <1>2 DEF SemInv, SemTypeOK, Wait, SemEnqueue, SemFree
    <2>2. f \notin Waiting /\ f \notin woken
      BY <2>1 DEF SemInv, SemParked
    <2>3. /\ sem'.waiters \in Seq(Fibers)
          /\ Waiting' = Waiting \cup {f}
          /\ \A i, j \in 1..Len(sem'.waiters) : sem'.waiters[i] = sem'.waiters[j] => i = j
      BY <2>1, <2>2, AppendRange, SMTT(30) DEF SemInv, SemTypeOK, SemParked, Waiting
    <2>4. SemTypeOK'
      BY <2>1, <2>3 DEF SemInv, SemTypeOK
    <2>5. ~(sem'.concurrency > 0)
      BY <1>2, <2>1 DEF SemInv, SemTypeOK, SemFree
    <2>6. (Waiting \cup woken = {g \in Fibers : place[g] # "run"})'
      BY <2>1, <2>3 DEF SemInv, SemTypeOK, SemParked
    <2>7. Waiting' \cap woken' = {}
      BY <2>1, <2>2, <2>3 DEF SemInv, SemParked
    <2> QED
      BY <2>3, <2>4, <2>5, <2>6, <2>7 DEF SemInv, SemParked
  <1> QED
    BY <1>1, <1>2

\* notify(): the first waiter becomes a scheduled fiber, or a permit is kept.
LEMMA NotifyKeeps ==
    ASSUME SemInv, Notify
    PROVE  SemInv'
  <1>1. CASE sem.waiters = <<>>
    BY <1>1 DEF SemInv, SemTypeOK, SemParked, Waiting, Notify, SemNotify, SemWakes
  <1>2. CASE sem.waiters # <<>>
    <2>1. /\ sem' = [concurrency |-> sem.concurrency, waiters |-> Tail(sem.waiters)]
          /\ woken' = woken \cup {Head(sem.waiters)} /\ place' = place
      BY <1>2, ZenonT(30) DEF SemInv, SemTypeOK, Notify, SemNotify, SemWakes
    <2>2. /\ sem'.waiters \in Seq(Fibers) /\ Head(sem.waiters) \in Fibers
          /\ Waiting' = Waiting \ {Head(sem.waiters)} /\ Head(sem.waiters) \in Waiting
          /\ \A i, j \in 1..Len(sem'.waiters) : sem'.waiters[i] = sem'.waiters[j] => i = j
      <3>1. /\ sem.waiters \in Seq(Fibers)
            /\ \A i, j \in 1..Len(sem.waiters) : sem.waiters[i] = sem.waiters[j] => i = j
        BY DEF SemInv, SemTypeOK, SemParked
      <3>2. sem'.waiters = Tail(sem.waiters)
        BY <2>1
      <3> DEFINE s == sem.waiters
      <3>3. /\ Tail(s) \in Seq(Fibers) /\ Head(s) \in Fibers
            /\ {Tail(s)[i] : i \in 1..Len(Tail(s))} = {s[i] : i \in 1..Len(s)} \ {Head(s)}
            /\ Head(s) \in {s[i] : i \in 1..Len(s)}
            /\ \A i, j \in 1..Len(Tail(s)) : Tail(s)[i] = Tail(s)[j] => i = j
        <4> HIDE DEF s
        <4> QED
          BY <1>2, <3>1, TailRange, ZenonT(30) DEF s
      <3> QED
        BY ONLY <3>2, <3>3, ZenonT(30) DEF Waiting
    <2>3. SemTypeOK'
      BY <2>1, <2>2 DEF SemInv, SemTypeOK
    <2>4. ~(sem'.concurrency > 0)
      BY <1>2, <2>1 DEF SemInv, SemTypeOK, SemParked
    <2>5. Waiting' \cap woken' = {} /\ Waiting' \cup woken' = {g \in Fibers : place'[g] # "run"}
      BY <2>1, <2>2 DEF SemInv, SemParked
    <2> QED
      BY <2>2, <2>3, <2>4, <2>5 DEF SemInv, SemParked
  <1> QED
    BY <1>1, <1>2

\* Every step keeps the invariant.
LEMMA SemStep == SemInv /\ [SemNext]_semVars => SemInv'
  <1> SUFFICES ASSUME SemInv, [SemNext]_semVars PROVE SemInv'
    OBVIOUS
  <1>1. ASSUME NEW f \in Fibers, Yield(f) PROVE SemInv'
    BY <1>1 DEF SemInv, SemTypeOK, SemParked, Waiting, Yield
  <1>2. ASSUME NEW f \in Fibers, TryWait(f) PROVE SemInv'
    BY <1>2 DEF SemInv, SemTypeOK, SemParked, Waiting, TryWait, SemTake, SemFree
  <1>3. ASSUME NEW f \in Fibers, Resume(f) PROVE SemInv'
    BY <1>3 DEF SemInv, SemTypeOK, SemParked, Waiting, Resume
  <1>4. CASE UNCHANGED semVars
    BY <1>4 DEF SemInv, SemTypeOK, SemParked, Waiting, semVars
  <1> QED
    BY <1>1, <1>2, <1>3, <1>4, WaitKeeps, NotifyKeeps, SMTT(30) DEF SemNext

\* For any fibers and permits, a fiber inside wait() is a waiter or scheduled,
\* never both and never twice, and no permit is kept while one waits.
THEOREM SemParkedAlways == SemSpec => []SemParked
  <1>1. SemInv => SemParked
    BY DEF SemInv
  <1> QED
    BY <1>1, SemInitial, SemStep, PTL DEF SemSpec

\* What the steps are for the promise of a semaphore, with avail and want
\* standing for their values in the refinement.
Avail == sem.concurrency + Cardinality(woken)
Want == Waiting \cup woken

\* wait() takes a permit or asks for one.
LEMMA WaitRefines ==
    ASSUME SemInv, NEW f \in Fibers, Wait(f)
    PROVE  \/ Avail > 0 /\ Avail' = Avail - 1 /\ Want' = Want \ {f}
           \/ f \notin Want /\ Want' = Want \cup {f} /\ Avail' = Avail
  <1>1. Cardinality(woken) \in Nat /\ sem.concurrency \in Nat /\ woken' = woken /\ place[f] = "run"
    BY FS_Subset, FS_CardinalityType, SemaphoreAssumption, SMTT(30) DEF SemInv, SemTypeOK, Wait
  <1>2. f \notin Want
    BY <1>1 DEF SemInv, SemParked, Want
  <1>3. CASE SemFree(sem)
    <2>1. sem'.concurrency = sem.concurrency - 1 /\ sem'.waiters = sem.waiters
      BY <1>3 DEF SemInv, SemTypeOK, Wait, SemFree, SemTake
    <2>2. Waiting' = Waiting
      BY <2>1 DEF Waiting
    <2> QED
      BY <1>1, <1>2, <1>3, <2>1, <2>2 DEF Avail, Want, SemFree
  <1>4. CASE ~SemFree(sem)
    <2>1. sem'.concurrency = sem.concurrency /\ sem'.waiters = Append(sem.waiters, f)
      BY <1>4 DEF SemInv, SemTypeOK, Wait, SemEnqueue, SemFree
    <2>2. Waiting' = Waiting \cup {f}
      BY <2>1, AppendRange DEF SemInv, SemTypeOK, Waiting
    <2> QED
      BY <1>1, <1>2, <2>1, <2>2 DEF Avail, Want
  <1> QED
    BY <1>3, <1>4

\* notify() gives a permit back, to a waiter or to the semaphore.
LEMMA NotifyRefines ==
    ASSUME SemInv, Notify
    PROVE  Avail' = Avail + 1 /\ Want' = Want
  <1>0. IsFiniteSet(woken) /\ Cardinality(woken) \in Nat /\ sem.concurrency \in Nat
    BY FS_Subset, FS_CardinalityType, SemaphoreAssumption, SMTT(30) DEF SemInv, SemTypeOK
  <1>1. CASE sem.waiters = <<>>
    <2>1. sem'.concurrency = sem.concurrency + 1 /\ sem'.waiters = sem.waiters /\ woken' = woken
      BY <1>1 DEF SemInv, SemTypeOK, Notify, SemNotify, SemWakes
    <2> QED
      BY <1>0, <2>1 DEF Avail, Want, Waiting
  <1>2. CASE sem.waiters # <<>>
    <2> DEFINE s == sem.waiters
    <2>1. /\ sem'.concurrency = sem.concurrency /\ sem'.waiters = Tail(s)
          /\ woken' = woken \cup {Head(s)}
      BY <1>2 DEF SemInv, SemTypeOK, Notify, SemNotify, SemWakes
    <2>2. /\ {Tail(s)[i] : i \in 1..Len(Tail(s))} = {s[i] : i \in 1..Len(s)} \ {Head(s)}
          /\ Head(s) \in {s[i] : i \in 1..Len(s)}
      <3>1. s \in Seq(Fibers) /\ s # <<>> /\ \A i, j \in 1..Len(s) : s[i] = s[j] => i = j
        BY <1>2 DEF SemInv, SemTypeOK, SemParked
      <3> HIDE DEF s
      <3> QED
        BY <3>1, TailRange
    <2>3. Waiting' = Waiting \ {Head(s)} /\ Head(s) \in Waiting
      BY <2>1, <2>2 DEF Waiting
    <2>4. Head(s) \notin woken
      BY <2>3 DEF SemInv, SemParked
    <2>5. Cardinality(woken') = Cardinality(woken) + 1
      BY <1>0, <2>1, <2>4, FS_AddElement, SMTT(30)
    <2> QED
      BY <1>0, <2>1, <2>3, <2>5 DEF Avail, Want
  <1> QED
    BY <1>1, <1>2

\* A scheduled fiber that resumes takes the permit it was given.
LEMMA ResumeRefines ==
    ASSUME SemInv, NEW f \in Fibers, Resume(f)
    PROVE  Avail > 0 /\ Avail' = Avail - 1 /\ Want' = Want \ {f}
  <1>1. IsFiniteSet(woken) /\ Cardinality(woken) \in Nat /\ sem.concurrency \in Nat
    BY FS_Subset, FS_CardinalityType, SemaphoreAssumption DEF SemInv, SemTypeOK
  <1>2. f \in woken /\ woken' = woken \ {f} /\ sem' = sem
    BY DEF Resume
  <1>3. Cardinality(woken') = Cardinality(woken) - 1 /\ Cardinality(woken) > 0
    BY <1>1, <1>2, FS_RemoveElement, FS_EmptySet, SMTT(30)
  <1>4. f \notin Waiting /\ Waiting' = Waiting
    BY <1>2 DEF SemInv, SemParked, Waiting
  <1> QED
    BY <1>1, <1>2, <1>3, <1>4 DEF Avail, Want

\* For any fibers and permits, FiberSemaphore implements a counting semaphore.
THEOREM SemImplements == SemSpec => SemIsSemaphore
  <1>1. SemInit => Promise!Init
    BY FS_EmptySet, SemaphoreAssumption DEF SemInit, SemNew, Promise!Init, Waiting
  <1>2. SemInv /\ [SemNext]_semVars => [Promise!Next]_<<sem.concurrency + Cardinality(woken), Waiting \cup woken>>
    <2> SUFFICES ASSUME SemInv, [SemNext]_semVars
                 PROVE  [Promise!Next]_<<Avail, Want>>
      BY DEF Avail, Want
    <2>1. ASSUME NEW f \in Fibers, Wait(f) PROVE Promise!Next
      BY <2>1, WaitRefines DEF Promise!Next, Promise!Ask, Promise!Acquire, Avail, Want
    <2>2. ASSUME NEW f \in Fibers, Yield(f) PROVE UNCHANGED <<Avail, Want>>
      BY <2>2 DEF Yield, Avail, Want, Waiting
    <2>3. ASSUME NEW f \in Fibers, TryWait(f) PROVE Promise!Next
      <3>1. Wait(f)
        BY <2>3 DEF TryWait, Wait
      <3> QED
        BY <3>1, <2>1
    <2>4. ASSUME NEW f \in Fibers, Resume(f) PROVE Promise!Next
      BY <2>4, ResumeRefines DEF Promise!Next, Promise!Acquire, Avail, Want
    <2>5. ASSUME Notify PROVE Promise!Next
      BY <2>5, NotifyRefines DEF Promise!Next, Promise!Release, Avail, Want
    <2>6. CASE UNCHANGED semVars
      BY <2>6 DEF semVars, Avail, Want, Waiting
    <2> QED
      BY <2>1, <2>2, <2>3, <2>4, <2>5, <2>6 DEF SemNext
  <1> QED
    BY <1>1, <1>2, SemInitial, SemStep, PTL DEF SemSpec, SemIsSemaphore, Promise!Spec
=============================================================================
