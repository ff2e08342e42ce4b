---------------------------- MODULE Philosophers ----------------------------
(***************************************************************************)
(* The dining philosophers sample (samples/philosophers/src/lib.rs): the   *)
(* main thread spawns NUM_PHIL philosopher threads one after another, and  *)
(* each runs phil_thread forever: take forks.0, take forks.1, eat, release *)
(* forks.1, release forks.0, think.  The last philosopher's pair is        *)
(* reversed to (0, n) so that every thread takes its lower fork first.     *)
(*                                                                         *)
(* The forks are the ForkSync of the semsync module: one kernel semaphore  *)
(* per fork, created with count 1 and limit 1; take is k_sem_take with no  *)
(* timeout (blocks while the count is 0) and release is k_sem_give (adds   *)
(* one up to the limit).  The semsync module is not among the sources, so *)
(* SemTake and SemGive are modelled from the spec (4.3).  The sleeps and   *)
(* prints between the calls change no shared state; the time a thread      *)
(* spends in them is the scheduler's freedom to run it later.              *)
(***************************************************************************)
EXTENDS Naturals

CONSTANT NUM_PHIL

ASSUME NumPhilAssumption == NUM_PHIL \in Nat /\ NUM_PHIL >= 2

Phils == 0 .. NUM_PHIL - 1
ForkIds == 0 .. NUM_PHIL - 1

\* Semaphore::new(1, 1) in semsync: initial count and limit of each fork.
SEM_INIT == 1
SEM_LIMIT == 1

\* The program counter of a philosopher thread.
PcValues == {"unspawned", "hungry", "left", "eating", "putting", "thinking"}

VARIABLES
    pc,        \* pc[n]: where thread n is in phil_thread
    sem,       \* sem[f]: the count of the semaphore of fork f
    spawned    \* how many threads rust_main has spawned so far

vars == <<pc, sem, spawned>>

\* Mutant: no Dijkstra reversal, every philosopher takes (n, n+1 mod N).
forksNoReversal(n) == <<n, (n + 1) % NUM_PHIL>>

\* The two forks of philosopher n, in the order phil_thread takes them.
forks(n) == IF n = NUM_PHIL - 1 THEN <<0, n>> ELSE <<n, n + 1>>

TypeOK ==
    /\ pc \in [Phils -> PcValues]
    /\ sem \in [ForkIds -> 0 .. SEM_LIMIT]
    /\ spawned \in 0 .. NUM_PHIL

Init ==
    /\ pc = [n \in Phils |-> "unspawned"]
    /\ sem = [f \in ForkIds |-> SEM_INIT]
    /\ spawned = 0

\* ForkSync::take of semsync: k_sem_take(fork, Forever), enabled only when
\* the count is positive (the thread is blocked otherwise).
SemTake(f) ==
    /\ sem[f] > 0
    /\ sem' = [sem EXCEPT ![f] = @ - 1]

\* ForkSync::release of semsync: k_sem_give(fork), saturating at the limit.
SemGive(f) ==
    sem' = [sem EXCEPT ![f] = IF @ < SEM_LIMIT THEN @ + 1 ELSE @]

\* Mutant: the spawn loop runs over 0..=NUM_PHIL.
SpawnOffByOne ==
    /\ spawned <= NUM_PHIL
    /\ pc' = [pc EXCEPT ![spawned] = "hungry"]
    /\ spawned' = spawned + 1
    /\ UNCHANGED sem

\* One iteration of rust_main's spawn loop: threads[i].spawn(phil_thread).
Spawn ==
    /\ spawned < NUM_PHIL
    /\ pc' = [pc EXCEPT ![spawned] = "hungry"]
    /\ spawned' = spawned + 1
    /\ UNCHANGED sem

\* syncer.take(forks.0)
TakeLeft(n) ==
    /\ pc[n] = "hungry"
    /\ SemTake(forks(n)[1])
    /\ pc' = [pc EXCEPT ![n] = "left"]
    /\ UNCHANGED spawned

\* syncer.take(forks.1); the thread then sleeps while eating.
TakeRight(n) ==
    /\ pc[n] = "left"
    /\ SemTake(forks(n)[2])
    /\ pc' = [pc EXCEPT ![n] = "eating"]
    /\ UNCHANGED spawned

\* Mutant: the first release names forks.0 instead of forks.1.
ReleaseRightWrongFork(n) ==
    /\ pc[n] = "eating"
    /\ SemGive(forks(n)[1])
    /\ pc' = [pc EXCEPT ![n] = "putting"]
    /\ UNCHANGED spawned

\* The eating sleep ends; syncer.release(forks.1).
ReleaseRight(n) ==
    /\ pc[n] = "eating"
    /\ SemGive(forks(n)[2])
    /\ pc' = [pc EXCEPT ![n] = "putting"]
    /\ UNCHANGED spawned

\* Mutant: the thread forgets to release its first fork.
ReleaseLeftLeak(n) ==
    /\ pc[n] = "putting"
    /\ pc' = [pc EXCEPT ![n] = "thinking"]
    /\ UNCHANGED <<sem, spawned>>

\* syncer.release(forks.0); the thread then sleeps while thinking.
ReleaseLeft(n) ==
    /\ pc[n] = "putting"
    /\ SemGive(forks(n)[1])
    /\ pc' = [pc EXCEPT ![n] = "thinking"]
    /\ UNCHANGED spawned

\* The thinking sleep ends and the loop starts over, hungry.
Think(n) ==
    /\ pc[n] = "thinking"
    /\ pc' = [pc EXCEPT ![n] = "hungry"]
    /\ UNCHANGED <<sem, spawned>>

Phil(n) ==
    \/ TakeLeft(n)
    \/ TakeRight(n)
    \/ ReleaseRight(n)
    \/ ReleaseLeft(n)
    \/ Think(n)

Next == Spawn \/ \E n \in Phils : Phil(n)

\* The kernel's preemptive scheduler runs every ready thread eventually: a
\* thread whose next call can go ahead (the semaphore it waits on has a
\* positive count, or it is sleeping or running) steps.  No strong fairness:
\* a thread woken by a give may lose the count to another taker.
Fairness == WF_vars(Spawn) /\ \A n \in Phils : WF_vars(Phil(n))

Spec == Init /\ [][Next]_vars
FairSpec == Spec /\ Fairness

-----------------------------------------------------------------------------
(* Properties.                                                             *)

\* Philosopher n holds fork f: it has taken it and not yet released it.
Holds(n, f) ==
    \/ pc[n] \in {"left", "eating", "putting"} /\ f = forks(n)[1]
    \/ pc[n] = "eating" /\ f = forks(n)[2]

\* The fork philosopher n is blocked on, when it is in a take call.
Wanted(n) == IF pc[n] = "hungry" THEN forks(n)[1] ELSE forks(n)[2]

\* The wait-for graph: a waits for b when a is in a take call on a fork
\* that b holds.
WaitsFor(a, b) == pc[a] \in {"hungry", "left"} /\ Holds(b, Wanted(a))

\* Mutual exclusion (spec 4.3, 8) and its agreement with the semaphores:
\* every fork is held by at most one thread, and the semaphore's count is 1
\* exactly when nobody holds the fork, so a take can only succeed on a free
\* fork and no give is lost to the limit.
ForkExclusion ==
    \A f \in ForkIds :
        /\ \A a, b \in Phils : Holds(a, f) /\ Holds(b, f) => a = b
        /\ sem[f] = IF \E n \in Phils : Holds(n, f) THEN 0 ELSE 1

\* No circular wait (spec 4.4): the reversed pair of the last philosopher
\* keeps the wait-for graph acyclic in every reachable state.  A finite
\* graph has a cycle exactly when some non-empty set of nodes has every
\* member waiting for a member of the set.
NoCircularWait ==
    ~\E S \in SUBSET Phils :
        /\ S /= {}
        /\ \A a \in S : \E b \in S : WaitsFor(a, b)

\* Deadlock freedom (spec 8): the system as a whole keeps making progress,
\* some philosopher eats again and again.
SomeoneEats == []<>(\E n \in Phils : pc[n] = "eating")

=============================================================================
