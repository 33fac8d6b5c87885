------------------------------- MODULE SemOps -------------------------------
(***************************************************************************)
(* The members of a FiberSemaphore (mutex.h, mutex.cc), m_concurrency and  *)
(* m_waiters, as a value, and what its operations do with them under       *)
(* m_mutex.                                                                *)
(***************************************************************************)
EXTENDS Naturals, Sequences

SemNew(n) == [concurrency |-> n, waiters |-> <<>>]

SemFree(s) == s.concurrency > 0

SemTake(s) == [s EXCEPT !.concurrency = s.concurrency - 1]

SemEnqueue(s, f) == [s EXCEPT !.waiters = Append(s.waiters, f)]

\* Mutant: the permit is added although it is handed to a waiter.
SemNotifyBoth(s) ==
    [concurrency |-> s.concurrency + 1,
     waiters |-> IF s.waiters = <<>> THEN <<>> ELSE Tail(s.waiters)]

\* notify(): the permit goes to the waiter that came first, if there is one.
SemNotify(s) ==
    IF s.waiters # <<>>
    THEN [s EXCEPT !.waiters = Tail(s.waiters)]
    ELSE [s EXCEPT !.concurrency = s.concurrency + 1]

\* The fiber that notify() schedules, if any.
SemWakes(s) == IF s.waiters # <<>> THEN {Head(s.waiters)} ELSE {}
=============================================================================
