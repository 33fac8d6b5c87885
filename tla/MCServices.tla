----------------------------- MODULE MCServices -----------------------------
(***************************************************************************)
(* TLC instance of the parts around services. A behaviour is about one of: *)
(* a load balance, the statistics of one of its items, the discovery of    *)
(* servers with the load balance that follows it, the name server's        *)
(* directory, a ByteArray, the pool of HTTP connections or that of MySQL   *)
(* connections. Three of them are followed up to the first overlap of two  *)
(* calls that no lock keeps apart: their properties say nothing after it.  *)
(***************************************************************************)
EXTENDS LoadBalance, HolderStats, ServiceDiscovery, NameServer, ByteArray, HttpPool, SqlPool, TLC

VARIABLE part

poolVars == <<httpVars, sqlVars>>
allVars == <<part, lbVars, statVars, sdVars, nsVars, baVars, poolVars>>

Init ==
    /\ part \in {"balance", "stats", "discovery", "directory", "bytes", "http", "sql"}
    /\ LbInit /\ StatInit /\ SdInit /\ NsInit /\ BaInit /\ HttpInit /\ SqlInit
    /\ part # "balance" => \A i \in LbItems : connected[i]
    /\ part # "discovery" => zk = {}
    /\ part # "bytes" => \A j \in Bytes : ba.nodes[1][0] <= j

Services ==
    \/ part = "balance" /\ LbNext /\ UNCHANGED <<statVars, sdVars, nsVars, baVars>>
    \/ part = "stats" /\ ~mixed /\ StatNext /\ UNCHANGED <<lbVars, sdVars, nsVars, baVars>>
    \/ part = "discovery" /\ ~overlap /\ SdNext /\ UNCHANGED <<lbVars, statVars, nsVars, baVars>>
    \/ part = "directory" /\ ~raced /\ NsNext /\ UNCHANGED <<lbVars, statVars, sdVars, baVars>>
    \/ part = "bytes" /\ BaNext /\ UNCHANGED <<lbVars, statVars, sdVars, nsVars>>

Pools ==
    \/ part = "http" /\ HttpNext /\ UNCHANGED sqlVars
    \/ part = "sql" /\ SqlNext /\ UNCHANGED httpVars

Next ==
    /\ UNCHANGED part
    /\ \/ Services /\ UNCHANGED poolVars
       \/ Pools /\ UNCHANGED <<lbVars, statVars, sdVars, nsVars, baVars>>

Spec == Init /\ [][Next]_allVars

\* The items of a load balance are interchangeable, and so are its callers.
Symmetry == Permutations(LbItems) \cup Permutations(LbGetters)
=============================================================================
