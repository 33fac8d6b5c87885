----------------------------- MODULE MCStreams -----------------------------
(***************************************************************************)
(* TLC instance of FdContext and of AsyncStream. A behaviour is about the  *)
(* events of one fd, about the restarts of a stream with requests, about   *)
(* the races of requests and plain messages on one connection, or about    *)
(* close() and restarts.                                                   *)
(***************************************************************************)
EXTENDS FdContext, AsyncStream

VARIABLE part

Init ==
    /\ part \in {"restart", "race", "close", "fd"}
    /\ FdInit /\ AsyncInit
    /\ up /\ auto = (part # "race")

Next ==
    /\ UNCHANGED part
    /\ \/ /\ part # "fd" /\ AsyncNext /\ UNCHANGED fdVars
          /\ part = "restart" => \A r \in Plain : req'[r].pc = "new"
          /\ part = "close" => \A r \in Reqs : req'[r].pc = "new"
          /\ part # "close" => closed' = "no"
       \/ part = "fd" /\ FdNext /\ UNCHANGED asyncVars

Spec == Init /\ [][Next]_<<part, fdVars, asyncVars>>
=============================================================================
