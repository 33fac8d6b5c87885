----------------------------- MODULE NameServer -----------------------------
(***************************************************************************)
(* NameServerModule (ns/name_server_module.cc) and its directory           *)
(* (ns/ns_protocol.cc): clients register the domains they serve, and what  *)
(* a disconnected client had is taken out. Requests are handled in fibers, *)
(* several at once; set() changes the directory piece by piece, each piece *)
(* under a lock of its own. Each domain has one command here.              *)
(***************************************************************************)
EXTENDS Naturals, FiniteSets, SequencesExt

CONSTANTS Clients,   \* the streams, each with a node of its own
          Domains,
          Weights,   \* the weights of a node
          Handlers,  \* the fibers that run set()
          MaxSets    \* bound: calls of set()

ASSUME NsAssumption == IsFiniteSet(Domains) /\ MaxSets \in Nat

VARIABLES linked,   \* the clients that are connected
          sessions, \* m_sessions: what a client has registered
          domObj,   \* NSDomainSet::m_datas: the object of each domain
          setObj,   \* NSDomain::m_datas: the NSNodeSet of each domain object
          members,  \* NSNodeSet::m_datas: client's node and weight
          hnd,      \* the calls of set()
          sets,     \* counted for the bound
          raced     \* two calls met on a client or a domain

dirVars == <<domObj, setObj, members>>
nsVars == <<linked, sessions, dirVars, hnd, sets, raced>>

NoObj == 0
Nothing == [doms |-> {}, weight |-> 0]
Infos == {Nothing} \cup [doms : SUBSET Domains \ {{}}, weight : Weights]
NoSet == [at |-> "idle", client |-> NoObj, old |-> Nothing, new |-> Nothing,
          todo |-> <<>>, dom |-> NoObj, set |-> NoObj, closes |-> FALSE]

NsInit ==
    /\ linked = Clients /\ sessions = [c \in Clients |-> Nothing]
    /\ domObj = [d \in Domains |-> NoObj] /\ setObj = <<>> /\ members = <<>>
    /\ hnd = [h \in Handlers |-> NoSet] /\ sets = 0 /\ raced = FALSE

Touches(h) == hnd[h].old.doms \cup hnd[h].new.doms

Enters(h, c, info, closes) ==
    /\ hnd[h].at = "idle" /\ sets < MaxSets /\ sets' = sets + 1
    /\ hnd' = [hnd EXCEPT ![h] = [NoSet EXCEPT !.at = "get", !.client = c, !.new = info,
                                             !.closes = closes]]
    /\ raced' = (raced \/ \E g \in Handlers : hnd[g].client = c)
    /\ UNCHANGED <<linked, sessions, dirVars>>

\* handleRegister(): a request may be handled after its stream is gone, and
\* set() begins by looking.
HandleRegister(h, c, info) == Enters(h, c, IF c \in linked THEN info ELSE Nothing, FALSE)

\* innerClose() calls onDisconnect(), which is set(stream, nullptr), while the
\* stream still counts as connected, and closes the socket after it.
OnDisconnect(h, c) == c \in linked /\ Enters(h, c, Nothing, TRUE)

CloseSocket(h) ==
    /\ hnd[h].at = "close" /\ linked' = linked \ {hnd[h].client}
    /\ hnd' = [hnd EXCEPT ![h] = NoSet]
    /\ UNCHANGED <<sessions, dirVars, sets, raced>>

Ops(op, doms) == [i \in 1..Cardinality(doms) |-> <<op, SetToSeq(doms)[i]>>]

\* Mutant: a changed weight is not passed on.
DiffNoWeight(old, new) == Ops("del", old.doms \ new.doms) \o Ops("add", new.doms \ old.doms)

\* diff(), and what set() does about dels, news and comms, in this order.
Diff(old, new) ==
    Ops("del", old.doms \ new.doms) \o Ops("add", new.doms \ old.doms)
      \o (IF old.weight # new.weight THEN Ops("add", old.doms \cap new.doms) ELSE <<>>)

Begin(todo) == IF todo = <<>> THEN "save" ELSE "dom"
Moves(h, place) == hnd' = [hnd EXCEPT ![h].at = place]
NextOp(h) == hnd' = [hnd EXCEPT ![h].at = Begin(Tail(hnd[h].todo)), ![h].todo = Tail(@)]

\* get(rs) and diff().
GetOld(h) ==
    /\ hnd[h].at = "get"
    /\ LET todo == Diff(sessions[hnd[h].client], hnd[h].new)
       IN  hnd' = [hnd EXCEPT ![h].at = Begin(todo), ![h].todo = todo,
                              ![h].old = sessions[hnd[h].client]]
    /\ raced' = (raced \/ \E g \in Handlers \ {h} :
                     (sessions[hnd[h].client].doms \cup hnd[h].new.doms) \cap Touches(g) # {})
    /\ UNCHANGED <<linked, sessions, dirVars, sets>>

At(h, place) == hnd[h].at = place
Op(h) == Head(hnd[h].todo)[1]
Domain(h) == Head(hnd[h].todo)[2]
Node(h) == hnd[h].client

\* m_domains->get(): without the domain there is nothing to delete.
GetDomain(h) ==
    /\ At(h, "dom")
    /\ LET d == domObj[Domain(h)]
       IN  IF d # NoObj THEN hnd' = [hnd EXCEPT ![h].at = "set", ![h].dom = d]
           ELSE IF Op(h) = "add" THEN Moves(h, "newdom") ELSE NextOp(h)
    /\ UNCHANGED <<linked, sessions, dirVars, sets, raced>>

\* m_domains->add() of a new domain.
AddDomain(h) ==
    /\ At(h, "newdom") /\ setObj' = Append(setObj, NoObj)
    /\ domObj' = [domObj EXCEPT ![Domain(h)] = Len(setObj')]
    /\ hnd' = [hnd EXCEPT ![h].at = "set", ![h].dom = Len(setObj')]
    /\ UNCHANGED <<linked, sessions, members, sets, raced>>

\* NSDomain::get(cmd), first step of add() and of del().
GetSet(h) ==
    /\ At(h, "set")
    /\ LET s == setObj[hnd[h].dom]
       IN  IF s # NoObj
           THEN hnd' = [hnd EXCEPT ![h].at = IF Op(h) = "add" THEN "insert" ELSE "erase", ![h].set = s]
           ELSE IF Op(h) = "add" THEN Moves(h, "newset") ELSE NextOp(h)
    /\ UNCHANGED <<linked, sessions, dirVars, sets, raced>>

\* NSDomain::add() of a new set of nodes.
AddSet(h) ==
    /\ At(h, "newset") /\ members' = Append(members, {})
    /\ setObj' = [setObj EXCEPT ![hnd[h].dom] = Len(members')]
    /\ hnd' = [hnd EXCEPT ![h].at = "insert", ![h].set = Len(members')]
    /\ UNCHANGED <<linked, sessions, domObj, sets, raced>>

Without(c, nodes) == {n \in nodes : n[1] # c}

\* NSNodeSet::add()
InsertNode(h) ==
    /\ At(h, "insert")
    /\ members' = [members EXCEPT ![hnd[h].set] =
                     Without(Node(h), @) \cup {<<Node(h), hnd[h].new.weight>>}]
    /\ NextOp(h)
    /\ UNCHANGED <<linked, sessions, domObj, setObj, sets, raced>>

\* NSNodeSet::del()
EraseNode(h) ==
    /\ At(h, "erase")
    /\ members' = [members EXCEPT ![hnd[h].set] = Without(Node(h), @)]
    /\ Moves(h, "size")
    /\ UNCHANGED <<linked, sessions, domObj, setObj, sets, raced>>

\* An empty set of nodes is dropped, but in a step of its own.
CheckSize(h) ==
    /\ At(h, "size")
    /\ IF members[hnd[h].set] = {} THEN Moves(h, "drop") ELSE NextOp(h)
    /\ UNCHANGED <<linked, sessions, dirVars, sets, raced>>

DropSet(h) ==
    /\ At(h, "drop") /\ setObj' = [setObj EXCEPT ![hnd[h].dom] = NoObj]
    /\ NextOp(h)
    /\ UNCHANGED <<linked, sessions, domObj, members, sets, raced>>

\* The last step of set(): m_sessions.
Save(h) ==
    /\ At(h, "save")
    /\ sessions' = [sessions EXCEPT ![Node(h)] = hnd[h].new]
    /\ hnd' = [hnd EXCEPT ![h] =
                 IF @.closes THEN [NoSet EXCEPT !.at = "close", !.client = Node(h)] ELSE NoSet]
    /\ UNCHANGED <<linked, dirVars, sets, raced>>

NsNext ==
    \E h \in Handlers :
         \/ \E c \in Clients : OnDisconnect(h, c) \/ \E info \in Infos : HandleRegister(h, c, info)
         \/ GetOld(h) \/ GetDomain(h) \/ AddDomain(h) \/ GetSet(h) \/ AddSet(h)
         \/ InsertNode(h) \/ EraseNode(h) \/ CheckSize(h) \/ DropSet(h) \/ Save(h)
         \/ CloseSocket(h)

-----------------------------------------------------------------------------
\* What handleQuery() answers for a domain.
Listed(d) ==
    IF domObj[d] = NoObj \/ setObj[domObj[d]] = NoObj THEN {} ELSE members[setObj[domObj[d]]]

\* As long as no two calls met on one client or one domain, however they met
\* on different ones, a query answers with exactly the clients that
\* serve the domain, each with the weight it registered last, whenever no call
\* is under way; and nothing is left of a client that is gone.
DirectoryExact ==
    (~raced /\ \A h \in Handlers : hnd[h].at = "idle") =>
        /\ \A d \in Domains :
             Listed(d) = {<<c, sessions[c].weight>> : c \in {x \in Clients : d \in sessions[x].doms}}
        /\ \A c \in Clients \ linked : sessions[c] = Nothing
=============================================================================
