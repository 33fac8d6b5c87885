------------------------------ MODULE MCHookIO ------------------------------
(* Instances of HookIO for TLC. *)
EXTENDS HookIO, TLC

\* Threads are interchangeable, and so are fibers.
Symmetry == Permutations(Threads) \cup Permutations(Waiters)
=============================================================================
