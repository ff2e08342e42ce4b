------------------------------ MODULE SemQueue ------------------------------
(***************************************************************************)
(* The philosophers over the kernel semaphores as they block and wake.     *)
(*                                                                         *)
(* Philosophers lets a thread's take go ahead whenever the count is        *)
(* positive.  The kernel is more specific: k_sem_take(Forever) on a zero   *)
(* count parks the thread on the semaphore's wait queue, and k_sem_give    *)
(* with a waiter hands the unit to the first waiter, which then resumes    *)
(* with its take done, and leaves the count at 0; only a give with no      *)
(* waiter raises the count (up to the limit).  semsync (take is            *)
(* k_sem_take(Forever), release is k_sem_give) is not among the sources,   *)
(* so these steps are modelled from the spec (4.3) and the kernel's        *)
(* documented semaphore semantics.  The philosopher loop is lib.rs's.      *)
(*                                                                         *)
(* The module is shown to implement Philosophers: a thread woken by a give *)
(* but not yet resumed counts as a unit still on the semaphore.            *)
(***************************************************************************)
EXTENDS Naturals, Sequences

CONSTANT NUM_PHIL

ASSUME NumPhilAssumption == NUM_PHIL \in Nat /\ NUM_PHIL >= 2

VARIABLES
    pc,        \* pc[n]: where thread n is in phil_thread
    sem,       \* sem[f]: the count of the semaphore of fork f
    spawned,   \* how many threads rust_main has spawned so far
    waitq,     \* waitq[f]: the threads parked in k_sem_take on fork f
    woken      \* the threads a give has handed a unit to, not yet resumed

vars == <<pc, sem, spawned, waitq, woken>>

\* The sample's fork assignment and loop, over this module's variables.
P == INSTANCE Philosophers

Phils == P!Phils
ForkIds == P!ForkIds

\* Thread n is parked on the wait queue of some fork.
Parked(n) == \E f \in ForkIds : \E i \in 1 .. Len(waitq[f]) : waitq[f][i] = n

\* Thread n is at a take call and running (neither parked nor woken).
AtTake(n) ==
    /\ pc[n] \in {"hungry", "left"}
    /\ ~Parked(n)
    /\ n \notin woken

\* Where phil_thread goes once the take it is in returns.
AfterTake(n) == IF pc[n] = "hungry" THEN "left" ELSE "eating"

TypeOK ==
    /\ P!TypeOK
    /\ waitq \in [ForkIds -> Seq(Phils)]
    /\ woken \in SUBSET Phils

Init ==
    /\ P!Init
    /\ waitq = [f \in ForkIds |-> <<>>]
    /\ woken = {}

\* k_sem_take(Forever) on a positive count: take a unit and return.
TakeNow(n) ==
    /\ AtTake(n)
    /\ sem[P!Wanted(n)] > 0
    /\ sem' = [sem EXCEPT ![P!Wanted(n)] = @ - 1]
    /\ pc' = [pc EXCEPT ![n] = AfterTake(n)]
    /\ UNCHANGED <<spawned, waitq, woken>>

\* k_sem_take(Forever) on a zero count: park at the end of the wait queue.
TakePend(n) ==
    /\ AtTake(n)
    /\ sem[P!Wanted(n)] = 0
    /\ waitq' = [waitq EXCEPT ![P!Wanted(n)] = Append(@, n)]
    /\ UNCHANGED <<pc, sem, spawned, woken>>

\* A woken thread runs again: its take returns with the unit it was given.
TakeResume(n) ==
    /\ n \in woken
    /\ woken' = woken \ {n}
    /\ pc' = [pc EXCEPT ![n] = AfterTake(n)]
    /\ UNCHANGED <<sem, spawned, waitq>>

\* k_sem_give: hand the unit to the first waiter if there is one, else
\* raise the count up to the limit.
Give(f) ==
    IF waitq[f] /= <<>>
    THEN /\ woken' = woken \cup {Head(waitq[f])}
         /\ waitq' = [waitq EXCEPT ![f] = Tail(@)]
         /\ UNCHANGED sem
    ELSE /\ sem' = [sem EXCEPT ![f] = IF @ < P!SEM_LIMIT THEN @ + 1 ELSE @]
         /\ UNCHANGED <<waitq, woken>>

\* Mutant: the first release names forks.0 instead of forks.1.
ReleaseRightWrongFork(n) ==
    /\ pc[n] = "eating"
    /\ Give(P!forks(n)[1])
    /\ pc' = [pc EXCEPT ![n] = "putting"]
    /\ UNCHANGED spawned

\* The eating sleep ends; syncer.release(forks.1).
ReleaseRight(n) ==
    /\ pc[n] = "eating"
    /\ Give(P!forks(n)[2])
    /\ pc' = [pc EXCEPT ![n] = "putting"]
    /\ UNCHANGED spawned

\* Mutant: the thread forgets to release its first fork.
ReleaseLeftLeak(n) ==
    /\ pc[n] = "putting"
    /\ pc' = [pc EXCEPT ![n] = "thinking"]
    /\ UNCHANGED <<sem, spawned, waitq, woken>>

\* syncer.release(forks.0); the thread then sleeps while thinking.
ReleaseLeft(n) ==
    /\ pc[n] = "putting"
    /\ Give(P!forks(n)[1])
    /\ pc' = [pc EXCEPT ![n] = "thinking"]
    /\ UNCHANGED spawned

\* Mutant: the spawn loop runs over 0..=NUM_PHIL.
SpawnOffByOne == P!SpawnOffByOne /\ UNCHANGED <<waitq, woken>>

\* Spawning and the thinking sleep touch no semaphore.
Spawn == P!Spawn /\ UNCHANGED <<waitq, woken>>
Think(n) == P!Think(n) /\ UNCHANGED <<waitq, woken>>

Phil(n) ==
    \/ TakeNow(n)
    \/ TakePend(n)
    \/ TakeResume(n)
    \/ ReleaseRight(n)
    \/ ReleaseLeft(n)
    \/ Think(n)

Next == Spawn \/ \E n \in Phils : Phil(n)

\* As in Philosophers, the scheduler eventually runs a thread that stays
\* ready; a parked thread is not ready, a woken one is.
Fairness == WF_vars(Spawn) /\ \A n \in Phils : WF_vars(Phil(n))

Spec == Init /\ [][Next]_vars
FairSpec == Spec /\ Fairness

-----------------------------------------------------------------------------
(* Properties.                                                             *)

\* The count Philosophers sees: a unit handed to a woken thread that has
\* not resumed yet is still on the semaphore.
AbsSem ==
    [f \in ForkIds |->
        sem[f] + (IF \E w \in woken : P!Wanted(w) = f THEN 1 ELSE 0)]

Abs == INSTANCE Philosophers WITH sem <- AbsSem

\* Refinement: every behaviour of the threads over blocking semaphores is a
\* behaviour of Philosophers, fairness included, so Philosophers' exclusion
\* and progress carry over to the kernel's take and give.
AbsSpec == Abs!FairSpec

\* Shape of the wait queues, a conjunct of the inductive invariant of
\* SemQueueProofs (not a run's property: it restates the guards of the
\* kernel's take and give): a parked thread is in a take of the fork whose
\* queue holds it, once, not woken, and only while the count is 0.
WaitQueueSound ==
    \A f \in ForkIds :
        /\ waitq[f] /= <<>> => sem[f] = 0
        /\ \A i \in 1 .. Len(waitq[f]) :
            /\ pc[waitq[f][i]] \in {"hungry", "left"}
            /\ P!Wanted(waitq[f][i]) = f
            /\ waitq[f][i] \notin woken
            /\ \A j \in 1 .. Len(waitq[f]) : waitq[f][j] = waitq[f][i] => i = j

\* Starvation freedom (spec 8: every actor completes cycle after cycle):
\* with the hand-off to the first waiter, every philosopher eats again and
\* again under weak fairness alone.
StarvationFree == \A n \in Phils : []<>(pc[n] = "eating")

=============================================================================
