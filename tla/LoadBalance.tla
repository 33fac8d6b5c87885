---------------------------- MODULE LoadBalance ----------------------------
(***************************************************************************)
(* LoadBalance with its two kinds, RoundRobinLoadBalance and               *)
(* WeightLoadBalance (streams/load_balance.cc): m_items holds the          *)
(* connected items of m_datas as they were at the last initNolock(), and   *)
(* get() walks it from an item drawn by weight to the first one that is    *)
(* connected. Any caller of get() may find the list too old and rebuild it.*)
(***************************************************************************)
EXTENDS Integers, FiniteSets, SequencesExt

CONSTANTS LbItems,     \* the items, by id
          LbGetters,   \* who calls get()
          RawWeights,  \* m_weight * m_stats.getWeight() of an item: any number
          LbGrace,     \* 500 ms
          LbMaxTime    \* bound: the clock

ASSUME LbAssumption == LbGrace \in Nat /\ LbMaxTime \in Nat /\ RawWeights \subseteq Int

VARIABLES lbDatas,     \* m_datas
          lbItems,     \* m_items
          lbWeights,   \* m_weights
          lastInit,    \* m_lastInitTime
          lbNow,       \* the clock
          connected,   \* m_stream->isConnected() of each item
          since,       \* since when it has been
          getter       \* where each caller of get() is

lbVars == <<lbDatas, lbItems, lbWeights, lastInit, lbNow, connected, since, getter>>
lbEnv == <<lbNow, connected, since>>

NoGet == [at |-> "idle", ts |-> 0, idx |-> 0, seen |-> 0, answer |-> "none"]

\* The clock starts later than LbGrace; m_lastInitTime is 0.
LbInit ==
    /\ lbDatas = {} /\ lbItems = <<>> /\ lbWeights = <<>>
    /\ lastInit = 0 /\ lbNow = LbGrace + 1
    /\ connected \in [LbItems -> BOOLEAN] /\ since = [i \in LbItems |-> 0]
    /\ getter = [g \in LbGetters |-> NoGet]

-----------------------------------------------------------------------------
\* getWeight() of a FairLoadBalanceItem: never below 1. That of the other kind
\* is the 10000 that onServiceChange() gives it.
GetWeight(i, raw) == IF connected[i] /\ raw > 1 THEN raw ELSE 1

PrefixSums(ws) == [k \in DOMAIN ws |-> FoldLeft(+, 0, SubSeq(ws, 1, k))]

\* initNolock(): the connected items in the order of the hash map, and the
\* running sums of their weights.
InitNolock(datas) ==
    \E order \in SetToSeqs({i \in datas : connected[i]}), raw \in [datas -> RawWeights] :
        /\ lbItems' = order
        /\ lbWeights' = PrefixSums([k \in DOMAIN order |-> GetWeight(order[k], raw[order[k]])])

\* Nobody holds m_mutex for reading.
Unlocked == \A g \in LbGetters : getter[g].at # "walk"

\* add(), del(), update() and set().
Update(datas) ==
    /\ Unlocked
    /\ lbDatas' = datas
    /\ InitNolock(datas)
    /\ UNCHANGED <<lastInit, lbEnv, getter>>

\* ts - m_lastInitTime > 500; the difference of unsigned numbers wraps.
Outdated(ts) == ts < lastInit \/ ts - lastInit > LbGrace

\* Mutant: m_lastInitTime is written before init() is called.
CheckInitFirst(g) ==
    /\ getter[g].at = "idle"
    /\ getter' = [getter EXCEPT ![g] = [NoGet EXCEPT !.at = IF Outdated(lbNow) THEN "init" ELSE "pick",
                                                      !.ts = lbNow]]
    /\ lastInit' = IF Outdated(lbNow) THEN lbNow ELSE lastInit
    /\ UNCHANGED <<lbDatas, lbItems, lbWeights, lbEnv>>

\* checkInit() reads the clock and m_lastInitTime ...
CheckInit(g) ==
    /\ getter[g].at = "idle"
    /\ getter' = [getter EXCEPT ![g] = [NoGet EXCEPT !.at = IF Outdated(lbNow) THEN "init" ELSE "pick",
                                                      !.ts = lbNow]]
    /\ UNCHANGED <<lbDatas, lbItems, lbWeights, lastInit, lbEnv>>

\* ... init() rebuilds the list under the lock ...
Reinit(g) ==
    /\ getter[g].at = "init" /\ Unlocked
    /\ InitNolock(lbDatas)
    /\ getter' = [getter EXCEPT ![g].at = "store"]
    /\ UNCHANGED <<lbDatas, lastInit, lbEnv>>

\* ... and m_lastInitTime is written without it.
StoreTime(g) ==
    /\ getter[g].at = "store"
    /\ lastInit' = getter[g].ts
    /\ getter' = [getter EXCEPT ![g].at = "pick"]
    /\ UNCHANGED <<lbDatas, lbItems, lbWeights, lbEnv>>

Total == Last(lbWeights)

\* Mutant: lower_bound instead of upper_bound.
GetIdxLower(dis) == CHOOSE k \in DOMAIN lbWeights : lbWeights[k] >= dis /\ \A j \in 1..(k - 1) : lbWeights[j] < dis

\* getIdx(): upper_bound of a number below the total.
GetIdx(dis) == CHOOSE k \in DOMAIN lbWeights : lbWeights[k] > dis /\ \A j \in 1..(k - 1) : lbWeights[j] <= dis

Answer(g, a) == getter' = [getter EXCEPT ![g] = [NoGet EXCEPT !.answer = a]]

\* get() takes the lock for reading and draws an item; the round robin kind
\* draws one without weights.
Pick(g) ==
    /\ getter[g].at = "pick"
    /\ IF lbItems = <<>>
       THEN Answer(g, "null")
       ELSE \E dis \in 0..(Total - 1) : getter' = [getter EXCEPT ![g].at = "walk", ![g].idx = GetIdx(dis)]
    /\ UNCHANGED <<lbDatas, lbItems, lbWeights, lastInit, lbEnv>>

\* One turn of the loop: the item is looked at, whose stream may come and go.
Walk(g) ==
    LET n == Len(lbItems)
        h == lbItems[((getter[g].idx - 1 + getter[g].seen) % n) + 1]
    IN  /\ getter[g].at = "walk"
        /\ CASE connected[h]                -> Answer(g, h)
             [] getter[g].seen + 1 < n      -> getter' = [getter EXCEPT ![g].seen = @ + 1]
             [] OTHER                       -> Answer(g, "null")
        /\ UNCHANGED <<lbDatas, lbItems, lbWeights, lastInit, lbEnv>>

-----------------------------------------------------------------------------
\* A stream connects or loses its connection; time passes.
Flip(i) ==
    /\ connected' = [connected EXCEPT ![i] = ~@]
    /\ since' = [since EXCEPT ![i] = IF connected[i] THEN 0 ELSE lbNow]
    /\ UNCHANGED <<lbDatas, lbItems, lbWeights, lastInit, lbNow, getter>>

LbTick ==
    /\ lbNow < LbMaxTime
    /\ lbNow' = lbNow + 1
    /\ UNCHANGED <<lbDatas, lbItems, lbWeights, lastInit, connected, since, getter>>

LbNext ==
    \/ \E datas \in SUBSET LbItems : Update(datas)
    \/ \E g \in LbGetters : CheckInit(g) \/ Reinit(g) \/ StoreTime(g) \/ Pick(g) \/ Walk(g)
    \/ LbTick \/ \E i \in LbItems : Flip(i)

-----------------------------------------------------------------------------
\* get() answers null only if no item of m_datas has been connected for more
\* than 500 ms at the time of the call: whoever skips init() can rely on the
\* one who wrote m_lastInitTime.
FindsConnected ==
    [][\A g \in LbGetters : getter[g].at \in {"pick", "walk"} /\ getter'[g].answer = "null" =>
           \A i \in lbDatas : connected[i] => since[i] >= getter[g].ts - LbGrace]_lbVars

\* Each item is drawn by as many of the numbers below the total as its weight
\* says, and by one at least, so getIdx() finds an item for each of them.
WeightShare ==
    /\ Len(lbWeights) = Len(lbItems) /\ ToSet(lbItems) \subseteq lbDatas
    /\ \A k \in DOMAIN lbWeights :
           LET own == lbWeights[k] - (IF k = 1 THEN 0 ELSE lbWeights[k - 1]) IN
           own >= 1 /\ Cardinality({dis \in 0..(Total - 1) : GetIdx(dis) = k}) = own
=============================================================================
