------------------------------- MODULE MCSync -------------------------------
(***************************************************************************)
(* TLC instance of FiberSemaphore, on its own and under a WorkerGroup, and *)
(* of FoxThread: a behaviour is one of the three.                          *)
(***************************************************************************)
EXTENDS WorkerGroup, FoxThread

VARIABLE part

Init == part \in {"semaphore", "group", "fox"} /\ GroupInit /\ FoxInit

Next ==
    /\ \/ part = "semaphore" /\ SemNext /\ UNCHANGED <<job, hand, finish, left, foxVars>>
       \/ part = "group" /\ GroupNext /\ UNCHANGED foxVars
       \/ part = "fox" /\ FoxNext /\ UNCHANGED groupVars
    /\ UNCHANGED part

Spec == Init /\ [][Next]_<<part, groupVars, foxVars>>
=============================================================================
