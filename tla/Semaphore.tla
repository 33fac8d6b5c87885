----------------------------- MODULE Semaphore -----------------------------
(***************************************************************************)
(* What a counting semaphore promises: a number of permits, fibers that    *)
(* want one, and a fiber goes on only when it has been given one.          *)
(***************************************************************************)
EXTENDS Naturals

CONSTANTS Fibers, Permits

VARIABLES avail,   \* permits nobody holds
          want     \* fibers that wait for one

Init == avail = Permits /\ want = {}

Ask(f) == f \notin want /\ want' = want \cup {f} /\ UNCHANGED avail

\* A fiber that asked before, or just now, gets a permit.
Acquire(f) == avail > 0 /\ avail' = avail - 1 /\ want' = want \ {f}

Release == avail' = avail + 1 /\ UNCHANGED want

Next == Release \/ \E f \in Fibers : Ask(f) \/ Acquire(f)

Spec == Init /\ [][Next]_<<avail, want>>
=============================================================================
