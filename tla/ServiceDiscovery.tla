-------------------------- MODULE ServiceDiscovery --------------------------
(***************************************************************************)
(* ZKServiceDiscovery (streams/service_discovery.cc) with SDLoadBalance    *)
(* (streams/load_balance.cc) on top of it, for one service. ZooKeeper      *)
(* calls back on a thread of its own; every 60 s a timer asks again. Each  *)
(* list of children replaces m_datas, and the difference to the one before *)
(* is applied to the load balance later, under another lock.               *)
(***************************************************************************)
EXTENDS Integers, FiniteSets, Sequences

CONSTANTS Servers,      \* the providers of the service that come and go
          Nameless,     \* those whose address may fail to be looked up
          MaxChanges,   \* bound: changes of the providers
          MaxFaults     \* bound: failed calls, lost connections and sessions

ASSUME SdAssumption == Nameless \subseteq Servers /\ MaxChanges \in Nat /\ MaxFaults \in Nat

VARIABLES zk,        \* the children of the providers' path
          session,   \* the client's session
          watch,     \* a watch is set on the path
          zkEvents,  \* events on their way to onWatch()
          announced, \* which of its own ephemeral nodes the process has
          table,     \* m_datas of the service
          lbCur,     \* the load balance SDLoadBalance has for it, 0: none
          lbSet,     \* m_datas of each load balance that was made
          conns,     \* open connections to each server
          task,      \* where onWatch() and the timer are
          changes, faults, \* counted for the bounds
          overlap    \* two differences were on their way to the load balance

zkVars == <<zk, session, watch, zkEvents, changes, faults>>
sdLbVars == <<lbCur, lbSet, conns>>
sdVars == <<zkVars, announced, table, sdLbVars, task, overlap>>

Tasks == {"onWatch", "timer"}
NoTask == [at |-> "idle", vals |-> {}, old |-> {}, lb |-> 0]
OwnNodes == {"provider", "consumer"}
Made == 1..Cardinality(Tasks)

\* start(): the client is made and not yet connected.
SdInit ==
    /\ zk \in SUBSET Servers /\ session = "connecting" /\ watch = FALSE
    /\ zkEvents = <<>> /\ announced = {}
    /\ table = {} /\ lbCur = 0 /\ lbSet = [l \in Made |-> {}]
    /\ conns = [s \in Servers |-> 0]
    /\ task = [k \in Tasks |-> NoTask]
    /\ changes = 0 /\ faults = 0 /\ overlap = FALSE

Goto(k, place) == task' = [task EXCEPT ![k].at = place]
Finished(k) == task' = [task EXCEPT ![k] = NoTask]
Fault == faults < MaxFaults /\ faults' = faults + 1

-----------------------------------------------------------------------------
\* ZooKeeper: a provider comes or goes, and a watch fires once.
ZkChange(s) ==
    /\ changes < MaxChanges /\ changes' = changes + 1
    /\ zk' = IF s \in zk THEN zk \ {s} ELSE zk \cup {s}
    /\ watch' = FALSE
    /\ zkEvents' = IF watch THEN Append(zkEvents, "child") ELSE zkEvents
    /\ UNCHANGED <<session, faults, announced, table, sdLbVars, task, overlap>>

ZkConnect ==
    /\ session = "connecting" /\ session' = "up"
    /\ zkEvents' = Append(zkEvents, "connected")
    /\ UNCHANGED <<zk, watch, changes, faults, announced, table, sdLbVars, task, overlap>>

\* The session expires with its watches and its ephemeral nodes, or only the
\* connection is lost and comes back.
ZkLoss ==
    /\ session = "up" /\ Fault
    /\ \/ /\ session' = "expired" /\ watch' = FALSE /\ announced' = {}
          /\ zkEvents' = Append(zkEvents, "expired")
       \/ session' = "connecting" /\ UNCHANGED <<watch, announced, zkEvents>>
    /\ UNCHANGED <<zk, changes, table, sdLbVars, task, overlap>>

-----------------------------------------------------------------------------
\* onWatch(): onZKConnect, onZKChild, or onZKExpiredSession, which calls
\* ZKClient::reconnect(); the events of the old handle are dropped.
OnWatch ==
    /\ task["onWatch"].at = "idle" /\ zkEvents # <<>>
    /\ \/ /\ Head(zkEvents) = "connected" /\ Goto("onWatch", "register")
          /\ zkEvents' = Tail(zkEvents) /\ UNCHANGED session
       \/ /\ Head(zkEvents) = "child" /\ Goto("onWatch", "ask")
          /\ zkEvents' = Tail(zkEvents) /\ UNCHANGED session
       \/ /\ Head(zkEvents) = "expired" /\ session' = "connecting"
          /\ zkEvents' = <<>> /\ UNCHANGED task
    /\ UNCHANGED <<zk, watch, changes, faults, announced, table, sdLbVars, overlap>>

\* Mutant: the timer does nothing once the process is registered.
OnTimerUnregistered ==
    /\ task["timer"].at = "idle"
    /\ IF announced = OwnNodes THEN UNCHANGED task ELSE Goto("timer", "register")
    /\ UNCHANGED <<zkVars, announced, table, sdLbVars, overlap>>

\* The recurring timer of start() calls onZKConnect.
OnTimer ==
    /\ task["timer"].at = "idle"
    /\ Goto("timer", "register")
    /\ UNCHANGED <<zkVars, announced, table, sdLbVars, overlap>>

\* A node is created, or was there (ZNODEEXISTS), or the call fails: no
\* session, a connection lost meanwhile, or a parent path that another
\* client creates between exists() and create(). The next step comes anyway.
CreateNode(k, place, node, next) ==
    /\ task[k].at = place
    /\ \/ session = "up" /\ announced' = announced \cup {node} /\ UNCHANGED faults
       \/ session # "up" /\ UNCHANGED <<announced, faults>>
       \/ session = "up" /\ Fault /\ UNCHANGED announced
    /\ Goto(k, next)
    /\ UNCHANGED <<zk, session, watch, zkEvents, changes, table, sdLbVars, overlap>>

RegisterInfo(k) == CreateNode(k, "register", "provider", "query")
QueryInfo(k) == CreateNode(k, "query", "consumer", "ask")

\* getChildren(): ZooKeeper answers with the children and sets the watch, or
\* the call fails, and nothing more is done.
GetChildren(k) ==
    /\ task[k].at = "ask"
    /\ \/ /\ session = "up" /\ watch' = TRUE
          /\ task' = [task EXCEPT ![k] = [NoTask EXCEPT !.at = "swap", !.vals = zk]]
          /\ UNCHANGED faults
       \/ session # "up" /\ Finished(k) /\ UNCHANGED <<watch, faults>>
       \/ session = "up" /\ Fault /\ Finished(k) /\ UNCHANGED watch
    /\ UNCHANGED <<zk, session, zkEvents, changes, announced, table, sdLbVars, overlap>>

Applies(k) == task[k].at \in {"look", "create", "apply"}

\* m_datas is swapped with the new list; the old list goes to m_cb().
Swap(k) ==
    /\ task[k].at = "swap"
    /\ table' = task[k].vals
    /\ task' = [task EXCEPT ![k].at = "look", ![k].old = table]
    /\ overlap' = (overlap \/ \E m \in Tasks : Applies(m))
    /\ UNCHANGED <<zkVars, announced, sdLbVars>>

\* SDLoadBalance::get(domain, service, true) looks for the load balance ...
GetLb(k) ==
    /\ task[k].at = "look"
    /\ task' = [task EXCEPT ![k].at = IF lbCur = 0 THEN "create" ELSE "apply", ![k].lb = lbCur]
    /\ UNCHANGED <<zkVars, announced, table, sdLbVars, overlap>>

\* ... and puts a new one in its place, over one that came meanwhile.
CreateLb(k) ==
    /\ task[k].at = "create"
    /\ lbCur' = lbCur + 1
    /\ task' = [task EXCEPT ![k].at = "apply", ![k].lb = lbCur + 1]
    /\ UNCHANGED <<zkVars, announced, table, lbSet, conns, overlap>>

\* Mutant: every server that is gone is closed, found in the load balance or not.
GoneBlind(k) == task[k].old \ task[k].vals

\* del_infos as LoadBalance::update() leaves it: what it took out of m_datas.
Gone(k) == (task[k].old \ task[k].vals) \cap lbSet[task[k].lb]

\* onServiceChange(): a connection for each new server whose address is
\* found, update(), and close() of what was taken out. An item that is
\* replaced is not closed.
OnServiceChange(k) ==
    /\ task[k].at = "apply"
    /\ \E failed \in SUBSET (Nameless \cap (task[k].vals \ task[k].old)) :
         LET l == task[k].lb
             adds == (task[k].vals \ task[k].old) \ failed
         IN  /\ lbSet' = [lbSet EXCEPT ![l] = (@ \ Gone(k)) \cup adds]
             /\ conns' = [s \in Servers |-> conns[s] + (IF s \in adds THEN 1 ELSE 0)
                                                     - (IF s \in Gone(k) THEN 1 ELSE 0)]
    /\ Finished(k)
    /\ UNCHANGED <<zkVars, announced, table, lbCur, overlap>>

TaskStep(k) == \/ RegisterInfo(k) \/ QueryInfo(k) \/ GetChildren(k)
               \/ Swap(k) \/ GetLb(k) \/ CreateLb(k) \/ OnServiceChange(k)

SdNext ==
    \/ \E s \in Servers : ZkChange(s)
    \/ ZkConnect \/ ZkLoss \/ OnWatch \/ OnTimer
    \/ \E k \in Tasks : TaskStep(k)

\* Both threads go on, the timer recurs, and ZooKeeper can be reached again.
SdFair ==
    /\ WF_sdVars(ZkConnect)
    /\ WF_sdVars(OnWatch \/ TaskStep("onWatch"))
    /\ WF_sdVars(OnTimer \/ TaskStep("timer"))

-----------------------------------------------------------------------------
\* Once the providers stay as they are and calls no longer fail, m_datas is
\* and stays the list ZooKeeper has, and the process is registered: whatever
\* watch, answer or node was lost on the way, the timer of start() makes good.
SdSettles == SdFair => <>[](table = zk /\ announced = OwnNodes)

\* As long as no two calls of onServiceChange() overlapped, the load balance
\* of the service holds, whenever none is under way, the servers of m_datas
\* and no other, save those whose address was not found; and there is one
\* open connection to each of its servers and none to any other, so that
\* update() and close() neither leak a connection nor close one in use.
SdServes ==
    (~overlap /\ \A k \in Tasks : ~Applies(k)) =>
        LET serving == IF lbCur = 0 THEN {} ELSE lbSet[lbCur]
        IN  /\ serving \subseteq table /\ table \ serving \subseteq Nameless
            /\ \A s \in Servers : conns[s] = (IF s \in serving THEN 1 ELSE 0)
=============================================================================
