------------------------------ MODULE MCTimers ------------------------------
(* Instances of Timers for TLC. *)
EXTENDS Timers, TLC

\* Threads are interchangeable, and so are timers.
Symmetry == Permutations(Threads) \cup Permutations(Timers)
=============================================================================
