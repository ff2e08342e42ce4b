------------------------- MODULE PhilosophersProofs -------------------------
(***************************************************************************)
(* Proof that the semaphore forks give mutual exclusion for any number of  *)
(* philosophers NUM_PHIL >= 2.                                             *)
(*                                                                         *)
(* ForkExclusion is inductive together with TypeOK: it already ties each   *)
(* semaphore's count to whether its fork is held, which is what a take     *)
(* needs (a positive count means nobody holds the fork) and what a give    *)
(* needs (the giver is the only holder, so the count goes from 0 to 1 and  *)
(* the limit never swallows it).  The one fact about the fork assignment   *)
(* it rests on is that a philosopher's two forks are two distinct forks.   *)
(*                                                                         *)
(* NoCircularWait needs no invariant beyond the type: if a waits for b and *)
(* b is waiting too, b is between its takes, holds its lower fork and      *)
(* wants its higher one, so the wanted fork strictly increases along every *)
(* wait-for edge between waiting threads.  In a set where every member     *)
(* waits for a member, the one wanting the highest fork would wait for one *)
(* wanting a higher fork still; the maximum comes from the well-foundedness *)
(* of < on Nat.                                                            *)
(***************************************************************************)
EXTENDS Philosophers, WellFoundedInduction, TLAPS

\* The pair of forks of every philosopher is two distinct forks, taken in
\* increasing order (the reversal for the last philosopher in phil_thread).
LEMMA ForksLemma ==
    ASSUME NEW n \in Phils
    PROVE  /\ forks(n)[1] \in ForkIds
           /\ forks(n)[2] \in ForkIds
           /\ forks(n)[1] < forks(n)[2]
BY NumPhilAssumption DEF forks, Phils, ForkIds

\* rust_main spawns the threads in index order, once each.
SpawnedPrefix == \A n \in Phils : pc[n] = "unspawned" <=> n >= spawned

Inv == TypeOK /\ SpawnedPrefix /\ ForkExclusion

LEMMA InitInv == Init => Inv
BY NumPhilAssumption DEF Init, Inv, TypeOK, SpawnedPrefix, ForkExclusion, Holds, Phils,
   ForkIds, PcValues, SEM_INIT, SEM_LIMIT

LEMMA NextInv == Inv /\ [Next]_vars => Inv'
<1> SUFFICES ASSUME Inv, [Next]_vars PROVE Inv'
    OBVIOUS
<1> USE NumPhilAssumption DEF Inv, TypeOK, SpawnedPrefix, ForkExclusion, Holds, Phils,
        ForkIds, PcValues, SEM_LIMIT
<1>1. CASE Spawn
    <2>1. spawned \in Phils /\ pc[spawned] = "unspawned"
        BY <1>1 DEF Spawn
    <2>2. \A m \in Phils, f \in ForkIds : Holds(m, f)' <=> Holds(m, f)
        BY <1>1, <2>1 DEF Spawn
    <2>3. TypeOK'
        BY <1>1, <2>1 DEF Spawn
    <2>. QED
        BY <1>1, <2>2, <2>3 DEF Spawn
<1>2. ASSUME NEW n \in Phils, TakeLeft(n) PROVE Inv'
    <2> DEFINE f1 == forks(n)[1]
    <2>1. f1 \in ForkIds /\ forks(n)[2] /= f1
        BY ForksLemma
    <2>2. sem[f1] = 1 /\ \A m \in Phils : ~Holds(m, f1)
        BY <1>2, <2>1 DEF TakeLeft, SemTake
    <2>3. sem' = [sem EXCEPT ![f1] = 0]
        BY <1>2, <2>2 DEF TakeLeft, SemTake
    <2>4. \A m \in Phils, f \in ForkIds :
              Holds(m, f)' <=> Holds(m, f) \/ (m = n /\ f = f1)
        BY <1>2, <2>1 DEF TakeLeft
    <2>5. TypeOK' /\ SpawnedPrefix'
        BY <1>2, <2>1, <2>3 DEF TakeLeft
    <2>6. ASSUME NEW f \in ForkIds
          PROVE  /\ \A a, b \in Phils : Holds(a, f)' /\ Holds(b, f)' => a = b
                 /\ sem'[f] = IF \E m \in Phils : Holds(m, f)' THEN 0 ELSE 1
        <3>1. CASE f = f1
            BY <2>2, <2>3, <2>4, <3>1
        <3>2. CASE f /= f1
            BY <2>3, <2>4, <3>2
        <3>. QED
            BY <3>1, <3>2
    <2>. QED
        BY <2>5, <2>6
<1>3. ASSUME NEW n \in Phils, TakeRight(n) PROVE Inv'
    <2> DEFINE f2 == forks(n)[2]
    <2>1. f2 \in ForkIds /\ forks(n)[1] /= f2
        BY ForksLemma
    <2>2. sem[f2] = 1 /\ \A m \in Phils : ~Holds(m, f2)
        BY <1>3, <2>1 DEF TakeRight, SemTake
    <2>3. sem' = [sem EXCEPT ![f2] = 0]
        BY <1>3, <2>2 DEF TakeRight, SemTake
    <2>4. \A m \in Phils, f \in ForkIds :
              Holds(m, f)' <=> Holds(m, f) \/ (m = n /\ f = f2)
        BY <1>3, <2>1 DEF TakeRight
    <2>5. TypeOK' /\ SpawnedPrefix'
        BY <1>3, <2>1, <2>3 DEF TakeRight
    <2>6. ASSUME NEW f \in ForkIds
          PROVE  /\ \A a, b \in Phils : Holds(a, f)' /\ Holds(b, f)' => a = b
                 /\ sem'[f] = IF \E m \in Phils : Holds(m, f)' THEN 0 ELSE 1
        <3>1. CASE f = f2
            BY <2>2, <2>3, <2>4, <3>1
        <3>2. CASE f /= f2
            BY <2>3, <2>4, <3>2
        <3>. QED
            BY <3>1, <3>2
    <2>. QED
        BY <2>5, <2>6
<1>4. ASSUME NEW n \in Phils, ReleaseRight(n) PROVE Inv'
    <2> DEFINE f2 == forks(n)[2]
    <2>1. f2 \in ForkIds /\ forks(n)[1] /= f2
        BY ForksLemma
    <2>2. sem[f2] = 0
        BY <1>4, <2>1 DEF ReleaseRight
    <2>3. sem' = [sem EXCEPT ![f2] = 1]
        BY <1>4, <2>2 DEF ReleaseRight, SemGive
    <2>4. \A m \in Phils, f \in ForkIds :
              Holds(m, f)' <=> Holds(m, f) /\ ~(m = n /\ f = f2)
        BY <1>4, <2>1 DEF ReleaseRight
    <2>5. TypeOK'
        BY <1>4, <2>1, <2>3 DEF ReleaseRight
    <2>. QED
        BY <2>1, <2>3, <2>4, <2>5, <1>4 DEF ReleaseRight
<1>5. ASSUME NEW n \in Phils, ReleaseLeft(n) PROVE Inv'
    <2> DEFINE f1 == forks(n)[1]
    <2>1. f1 \in ForkIds /\ forks(n)[2] /= f1
        BY ForksLemma
    <2>2. sem[f1] = 0
        BY <1>5, <2>1 DEF ReleaseLeft
    <2>3. sem' = [sem EXCEPT ![f1] = 1]
        BY <1>5, <2>2 DEF ReleaseLeft, SemGive
    <2>4. \A m \in Phils, f \in ForkIds :
              Holds(m, f)' <=> Holds(m, f) /\ ~(m = n /\ f = f1)
        BY <1>5, <2>1 DEF ReleaseLeft
    <2>5. TypeOK'
        BY <1>5, <2>1, <2>3 DEF ReleaseLeft
    <2>. QED
        BY <2>1, <2>3, <2>4, <2>5, <1>5 DEF ReleaseLeft
<1>6. ASSUME NEW n \in Phils, Think(n) PROVE Inv'
    BY <1>6 DEF Think
<1>7. CASE UNCHANGED vars
    BY <1>7 DEF vars
<1>8. QED
    BY <1>1, <1>2, <1>3, <1>4, <1>5, <1>6, <1>7 DEF Next, Phil

\* For every NUM_PHIL >= 2, no fork is ever held by two philosophers, and
\* each fork's semaphore count says whether it is free (semsync's take and
\* release as phil_thread calls them).
THEOREM ForkExclusionHolds == Spec => []ForkExclusion
BY InitInv, NextInv, PTL DEF Spec, Inv

\* Type correctness of the philosophers for every NUM_PHIL >= 2.
THEOREM PhilTypeCorrect == Spec => []TypeOK
BY InitInv, NextInv, PTL DEF Spec, Inv

-----------------------------------------------------------------------------

\* A wait-for edge between two waiting threads goes to a higher fork.
LEMMA WaitsForIncreases ==
    ASSUME TypeOK, NEW a \in Phils, NEW b \in Phils, WaitsFor(a, b),
           pc[b] \in {"hungry", "left"}
    PROVE  Wanted(a) < Wanted(b)
BY ForksLemma DEF WaitsFor, Holds, Wanted

LEMMA TypeNoCircularWait == TypeOK => NoCircularWait
<1> SUFFICES ASSUME TypeOK, NEW S \in SUBSET Phils, S /= {},
                    \A a \in S : \E b \in S : WaitsFor(a, b)
             PROVE  FALSE
    BY DEF NoCircularWait
<1> DEFINE key(a) == NUM_PHIL - Wanted(a)
           T == {key(a) : a \in S}
<1>1. \A a \in S : Wanted(a) \in ForkIds
    BY ForksLemma DEF Wanted
<1>2. T \subseteq Nat /\ T /= {}
    BY <1>1, NumPhilAssumption DEF ForkIds
<1>3. PICK x \in T : \A y \in T : ~(<<y, x>> \in OpToRel(<, Nat))
    <2>1. IsWellFoundedOn(OpToRel(<, Nat), Nat)
        BY NatLessThanWellFounded
    <2>. QED
        BY <1>2, <2>1, WFMin
<1>4. PICK a \in S : x = key(a)
    OBVIOUS
<1>5. PICK b \in S : WaitsFor(a, b)
    OBVIOUS
<1>6. pc[b] \in {"hungry", "left"}
    BY DEF WaitsFor
<1>7. Wanted(a) < Wanted(b)
    BY <1>5, <1>6, WaitsForIncreases
<1>8. key(b) \in T /\ key(b) < x /\ x \in Nat
    BY <1>1, <1>2, <1>4, <1>7, NumPhilAssumption DEF ForkIds
<1>9. <<key(b), x>> \in OpToRel(<, Nat)
    BY <1>2, <1>8 DEF OpToRel
<1>. QED
    BY <1>3, <1>8, <1>9

\* For every NUM_PHIL >= 2, the wait-for graph of the philosophers never
\* has a cycle: the reversed pair of the last thread (phil_thread's fork
\* assignment) makes every thread take its forks in increasing order.
THEOREM NoCircularWaitHolds == Spec => []NoCircularWait
BY PhilTypeCorrect, TypeNoCircularWait, PTL

=============================================================================
