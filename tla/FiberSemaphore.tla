--------------------------- MODULE FiberSemaphore ---------------------------
(***************************************************************************)
(* FiberSemaphore (mutex.cc) and the fibers that use it. A fiber that      *)
(* finds no permit enters m_waiters under the lock, gives the lock up and  *)
(* only then yields: notify() may schedule it while it still runs, and     *)
(* run() then passes over it until it has left its stack.                  *)
(***************************************************************************)
EXTENDS SemOps, FiniteSets

CONSTANTS Fibers,       \* the fibers that use the semaphore
          Permits,      \* initial_concurrency
          MaxPermits    \* bound: notify() is called up to this concurrency

ASSUME SemaphoreAssumption ==
    Permits \in Nat /\ MaxPermits \in Nat /\ IsFiniteSet(Fibers)

VARIABLES sem,      \* m_concurrency, m_waiters
          place,    \* a fiber runs, is about to yield, or is held
          woken     \* fibers that notify() scheduled and that have not resumed

semVars == <<sem, place, woken>>

SemInit ==
    /\ sem = SemNew(Permits)
    /\ place = [f \in Fibers |-> "run"]
    /\ woken = {}

\* wait(), up to the end of the locked block.
Wait(f) ==
    /\ place[f] = "run"
    /\ \/ SemFree(sem) /\ sem' = SemTake(sem) /\ UNCHANGED place
       \/ ~SemFree(sem) /\ sem' = SemEnqueue(sem, f)
          /\ place' = [place EXCEPT ![f] = "yield"]
    /\ UNCHANGED woken

\* Fiber::YieldToHold().
Yield(f) ==
    /\ place[f] = "yield"
    /\ place' = [place EXCEPT ![f] = "hold"]
    /\ UNCHANGED <<sem, woken>>

\* tryWait() takes a permit; when it answers false it changes nothing.
TryWait(f) ==
    /\ place[f] = "run" /\ SemFree(sem)
    /\ sem' = SemTake(sem)
    /\ UNCHANGED <<place, woken>>

Notify ==
    /\ sem' = SemNotify(sem)
    /\ woken' = woken \cup SemWakes(sem)
    /\ UNCHANGED place

\* Mutant: the scheduler does not look at the state of the fiber.
ResumeEarly(f) ==
    /\ f \in woken
    /\ place' = [place EXCEPT ![f] = IF place[f] = "yield" THEN "yield" ELSE "run"]
    /\ woken' = woken \ {f}
    /\ UNCHANGED sem

\* run() resumes a scheduled fiber that has yielded.
Resume(f) ==
    /\ f \in woken /\ place[f] = "hold"
    /\ place' = [place EXCEPT ![f] = "run"]
    /\ woken' = woken \ {f}
    /\ UNCHANGED sem

SemNext ==
    \/ \E f \in Fibers : Wait(f) \/ Yield(f) \/ TryWait(f) \/ Resume(f)
    \/ (\E f \in Fibers : place[f] = "run") /\ sem.concurrency < MaxPermits /\ Notify

SemSpec == SemInit /\ [][SemNext]_semVars

-----------------------------------------------------------------------------
Waiting == {sem.waiters[i] : i \in 1..Len(sem.waiters)}

\* The types of the members and of the fibers' places.
SemTypeOK ==
    /\ sem \in [concurrency : Nat, waiters : Seq(Fibers)]
    /\ place \in [Fibers -> {"run", "yield", "hold"}]
    /\ woken \subseteq Fibers

\* A fiber that has left wait() by neither door is in m_waiters once or
\* scheduled once, never both, and a permit is never kept while one waits:
\* this is what makes a suspended fiber's wake-up neither lost nor doubled.
SemParked ==
    /\ sem.concurrency > 0 => sem.waiters = <<>>
    /\ \A i, j \in 1..Len(sem.waiters) : sem.waiters[i] = sem.waiters[j] => i = j
    /\ Waiting \cap woken = {}
    /\ Waiting \cup woken = {f \in Fibers : place[f] # "run"}

\* A scheduled fiber holds its permit, though it has not resumed yet.
Promise == INSTANCE Semaphore WITH
              avail <- sem.concurrency + Cardinality(woken),
              want <- Waiting \cup woken

\* FiberSemaphore is a counting semaphore: no permit is made up or lost by
\* the hand-over in notify(), and wait() goes on only with a permit.
SemIsSemaphore == Promise!Spec
=============================================================================
