---------------------------- MODULE MCScheduler ----------------------------
(* Instances of Scheduler for TLC. *)
EXTENDS Scheduler, TLC

\* Fibers are interchangeable, and so are threads when none is a root.
FiberSymmetry == Permutations(Fibers)
Symmetry == Permutations(Fibers) \cup Permutations(Threads)
=============================================================================
