---------------------------- MODULE HolderStats ----------------------------
(***************************************************************************)
(* HolderStatsSet (streams/load_balance.cc), the statistics of an item for *)
(* the last seconds, and the request() of RockSDLoadBalance that counts in *)
(* it (rock/rock_stream.cc). Nothing of it is locked: the counters are     *)
(* atomic, m_lastUpdateTime and the clearing of old slots are not.         *)
(***************************************************************************)
EXTENDS Integers, FiniteSets

CONSTANTS StatSize,    \* m_stats.size()
          Callers,     \* who calls request() or getWeight()
          MaxSec,      \* bound: the clock, in seconds
          MaxCalls     \* bound: requests of one second

ASSUME StatAssumption == StatSize \in Nat \ {0} /\ MaxSec \in Nat

Modulus == 8           \* 2^32 of uint32_t, with room for all that is counted

VARIABLES sec,         \* time(0)
          lastSec,     \* m_lastUpdateTime
          slot,        \* m_stats
          call,        \* where each caller is
          begun,       \* requests of each second that have counted themselves
          mixed        \* two init() went on at once, or a slot was cleared under
                       \* a request that was using it

statVars == <<sec, lastSec, slot, call, begun, mixed>>

Empty == [total |-> 0, doing |-> 0]
NoCall == [at |-> "idle", now |-> 0, t |-> 0, i |-> 0, reads |-> FALSE]
SlotOf(s) == s % StatSize

StatInit ==
    /\ sec = 1 /\ lastSec = 0 /\ mixed = FALSE
    /\ slot = [k \in 0..(StatSize - 1) |-> Empty]
    /\ call = [c \in Callers |-> NoCall]
    /\ begun = [s \in 1..MaxSec |-> 0]

-----------------------------------------------------------------------------
\* request() or getWeight() reads the clock and calls init().
Enter(c, reads) ==
    /\ call[c].at = "idle" /\ (reads \/ begun[sec] < MaxCalls)
    /\ call' = [call EXCEPT ![c] = [NoCall EXCEPT !.at = "init", !.now = sec, !.reads = reads]]
    /\ UNCHANGED <<sec, lastSec, slot, begun, mixed>>

Clearing == \E c \in Callers : call[c].at = "clear"

\* init() compares the time with m_lastUpdateTime.
InitTest(c) ==
    /\ call[c].at = "init"
    /\ call' = [call EXCEPT ![c] = IF lastSec < @.now THEN [@ EXCEPT !.at = "clear", !.t = lastSec + 1]
                                                      ELSE [@ EXCEPT !.at = "use"]]
    /\ mixed' = (mixed \/ (lastSec < call[c].now /\ Clearing))
    /\ UNCHANGED <<sec, lastSec, slot, begun>>

Using(k) == \E c \in Callers : call[c].at \in {"use", "total", "runs"} /\ SlotOf(call[c].now) = k

\* Mutant: the second that begins is not cleared.
ClearShort(c) ==
    LET r == call[c] IN
    /\ r.at = "clear"
    /\ IF r.t < r.now /\ r.i < StatSize
       THEN /\ slot' = [slot EXCEPT ![SlotOf(r.t)] = Empty]
            /\ mixed' = (mixed \/ Using(SlotOf(r.t)))
            /\ call' = [call EXCEPT ![c].t = @ + 1, ![c].i = @ + 1]
            /\ UNCHANGED lastSec
       ELSE /\ lastSec' = r.now
            /\ call' = [call EXCEPT ![c].at = "use", ![c].t = 0, ![c].i = 0]
            /\ UNCHANGED <<slot, mixed>>
    /\ UNCHANGED <<sec, begun>>

\* One turn of its loop: the slots of the seconds that have passed are
\* cleared, and m_lastUpdateTime is written last.
Clear(c) ==
    LET r == call[c] IN
    /\ r.at = "clear"
    /\ IF r.t <= r.now /\ r.i < StatSize
       THEN /\ slot' = [slot EXCEPT ![SlotOf(r.t)] = Empty]
            /\ mixed' = (mixed \/ Using(SlotOf(r.t)))
            /\ call' = [call EXCEPT ![c].t = @ + 1, ![c].i = @ + 1]
            /\ UNCHANGED lastSec
       ELSE /\ lastSec' = r.now
            /\ call' = [call EXCEPT ![c].at = "use", ![c].t = 0, ![c].i = 0]
            /\ UNCHANGED <<slot, mixed>>
    /\ UNCHANGED <<sec, begun>>

Leave(c) == call' = [call EXCEPT ![c] = NoCall]

\* getWeight() only reads; request() counts itself in the slot of its second,
\* to which it keeps a reference ...
Use(c) ==
    /\ call[c].at = "use"
    /\ IF call[c].reads
       THEN Leave(c) /\ UNCHANGED <<slot, mixed>>
       ELSE /\ slot' = [slot EXCEPT ![SlotOf(call[c].now)].doing = (@ + 1) % Modulus]
            /\ mixed' = (mixed \/ call[c].now <= sec - StatSize)
            /\ call' = [call EXCEPT ![c].at = "total"]
    /\ UNCHANGED <<sec, lastSec, begun>>

CountTotal(c) ==
    /\ call[c].at = "total"
    /\ slot' = [slot EXCEPT ![SlotOf(call[c].now)].total = (@ + 1) % Modulus]
    /\ begun' = [begun EXCEPT ![call[c].now] = @ + 1]
    /\ call' = [call EXCEPT ![c].at = "runs"]
    /\ UNCHANGED <<sec, lastSec, mixed>>

\* ... and takes itself out of the same slot when the answer is there,
\* whatever the slot has become.
Finish(c) ==
    /\ call[c].at = "runs"
    /\ slot' = [slot EXCEPT ![SlotOf(call[c].now)].doing = (@ + Modulus - 1) % Modulus]
    /\ Leave(c)
    /\ UNCHANGED <<sec, lastSec, begun, mixed>>

SecTick ==
    /\ sec < MaxSec
    /\ sec' = sec + 1
    /\ UNCHANGED <<lastSec, slot, call, begun, mixed>>

StatNext ==
    \/ \E c \in Callers : \/ Enter(c, TRUE) \/ Enter(c, FALSE)
                         \/ InitTest(c) \/ Clear(c) \/ Use(c) \/ CountTotal(c) \/ Finish(c)
    \/ SecTick

-----------------------------------------------------------------------------
Running(s) == {c \in Callers : call[c].now = s /\ call[c].at \in {"total", "runs"}}

\* The slots of the last seconds hold what these seconds saw: the requests
\* begun in each, and those of them that still run; nothing of an older
\* second is left. It holds until two init() overlap or a request outlives
\* the window, whose slot is then another second's.
WindowExact ==
    ~mixed /\ ~Clearing =>
        \A s \in {x \in 1..lastSec : lastSec - x < StatSize} :
            /\ slot[SlotOf(s)].doing = Cardinality(Running(s))
            /\ slot[SlotOf(s)].total = begun[s]
=============================================================================
