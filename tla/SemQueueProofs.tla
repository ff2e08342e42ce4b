--------------------------- MODULE SemQueueProofs ---------------------------
(***************************************************************************)
(* Proofs that the kernel's blocking take and handing give keep the wait   *)
(* queues sound and implement the semaphore forks of Philosophers, for any *)
(* NUM_PHIL >= 2.                                                          *)
(*                                                                         *)
(* The inductive invariant QInv is the mutual exclusion of Philosophers    *)
(* read through the refinement mapping (the count AbsSem, which counts a   *)
(* woken thread's unit as still on the semaphore), the soundness of the    *)
(* wait queues, and two facts on woken threads: each is between its takes *)
(* and no two were handed the same fork.  Exclusion is what makes a give   *)
(* map to an abstract give: the giver holds the fork, so its abstract      *)
(* count is 0, nobody else is woken on it and the semaphore is at 0.       *)
(***************************************************************************)
EXTENDS SemQueue, TLAPS

\* rust_main spawns the threads in index order, once each.
SpawnedPrefix == \A n \in Phils : pc[n] = "unspawned" <=> n >= spawned

\* The threads a give has woken are still in a take call, each on its own
\* fork.
WokenSound ==
    /\ \A w \in woken : pc[w] \in {"hungry", "left"}
    /\ \A w1, w2 \in woken : P!Wanted(w1) = P!Wanted(w2) => w1 = w2

\* The i-th thread parked on fork g is parked soundly (WaitQueueSound).
ParkedOK(g, i) ==
    /\ pc[waitq[g][i]] \in {"hungry", "left"}
    /\ P!Wanted(waitq[g][i]) = g
    /\ waitq[g][i] \notin woken
    /\ \A j \in 1 .. Len(waitq[g]) : waitq[g][j] = waitq[g][i] => i = j

QInv ==
    /\ TypeOK
    /\ SpawnedPrefix
    /\ WaitQueueSound
    /\ WokenSound
    /\ Abs!ForkExclusion

-----------------------------------------------------------------------------

\* A philosopher's two forks are distinct forks, in increasing order.
LEMMA ForksQ ==
    ASSUME NEW n \in Phils
    PROVE  /\ P!forks(n)[1] \in ForkIds
           /\ P!forks(n)[2] \in ForkIds
           /\ P!forks(n)[1] < P!forks(n)[2]
BY NumPhilAssumption DEF P!forks, Phils, ForkIds, P!Phils, P!ForkIds

\* The fork a thread in a take call wants is a fork.
LEMMA WantedType ==
    ASSUME NEW n \in Phils
    PROVE  P!Wanted(n) \in ForkIds
BY ForksQ DEF P!Wanted

LEMMA InitQInv == Init => QInv
<1> SUFFICES ASSUME Init PROVE QInv
    OBVIOUS
<1> USE NumPhilAssumption DEF Init, P!Init, Phils, ForkIds, P!Phils, P!ForkIds
<1>1. TypeOK /\ SpawnedPrefix
    BY DEF TypeOK, P!TypeOK, SpawnedPrefix, P!PcValues, P!SEM_INIT, P!SEM_LIMIT
<1>2. WaitQueueSound /\ WokenSound
    BY DEF WaitQueueSound, WokenSound
<1>3. AbsSem = sem
    BY DEF AbsSem
<1>4. Abs!ForkExclusion
    BY <1>3 DEF Abs!ForkExclusion, Abs!Holds, P!SEM_INIT
<1>. QED
    BY <1>1, <1>2, <1>4 DEF QInv

\* What the mapped count tells: a holder or a woken thread on f leaves
\* nothing else for f, and a count of 1 means nobody has f.
LEMMA ForkFacts ==
    ASSUME QInv, NEW f \in ForkIds
    PROVE  /\ sem[f] \in 0 .. 1
           /\ (\E m \in Phils : Abs!Holds(m, f)) =>
                 sem[f] = 0 /\ ~\E w \in woken : P!Wanted(w) = f
           /\ (\E w \in woken : P!Wanted(w) = f) =>
                 sem[f] = 0 /\ ~\E m \in Phils : Abs!Holds(m, f)
           /\ sem[f] = 1 =>
                 (~\E w \in woken : P!Wanted(w) = f) /\ ~\E m \in Phils : Abs!Holds(m, f)
<1>1. sem[f] \in 0 .. 1
    BY DEF QInv, TypeOK, P!TypeOK, P!SEM_LIMIT, ForkIds, P!ForkIds
<1>2. AbsSem[f] = IF \E m \in Phils : Abs!Holds(m, f) THEN 0 ELSE 1
    BY DEF QInv, Abs!ForkExclusion, Phils, ForkIds, P!Phils, P!ForkIds, Abs!Phils, Abs!ForkIds
<1>3. AbsSem[f] = sem[f] + (IF \E w \in woken : P!Wanted(w) = f THEN 1 ELSE 0)
    BY DEF AbsSem
<1>. QED
    BY <1>1, <1>2, <1>3

\* A thread in a take call, parked or woken, is not its own frame: these
\* are the threads whose pc a step of another thread leaves alone.
LEMMA WaitingThreads ==
    ASSUME QInv
    PROVE  /\ \A w \in woken : pc[w] \in {"hungry", "left"}
           /\ \A f \in ForkIds : \A i \in 1 .. Len(waitq[f]) :
                 /\ waitq[f][i] \in Phils
                 /\ pc[waitq[f][i]] \in {"hungry", "left"}
BY DEF QInv, WokenSound, WaitQueueSound, TypeOK

LEMMA SpawnQInv == QInv /\ Spawn => QInv' /\ Abs!Spawn
<1> SUFFICES ASSUME QInv, Spawn PROVE QInv' /\ Abs!Spawn
    OBVIOUS
<1> USE NumPhilAssumption DEF Phils, ForkIds, P!Phils, P!ForkIds
<1>1. spawned \in Phils /\ pc[spawned] = "unspawned"
    BY DEF Spawn, P!Spawn, QInv, SpawnedPrefix, TypeOK, P!TypeOK
<1>2. /\ pc' = [pc EXCEPT ![spawned] = "hungry"]
      /\ spawned' = spawned + 1
      /\ UNCHANGED <<sem, waitq, woken>>
    BY DEF Spawn, P!Spawn
<1>3. \A w \in woken : pc'[w] = pc[w]
    BY <1>1, <1>2, WaitingThreads DEF QInv, TypeOK
<1>4. \A f \in ForkIds : \A i \in 1 .. Len(waitq[f]) : pc'[waitq[f][i]] = pc[waitq[f][i]]
    BY <1>1, <1>2, WaitingThreads
<1>5. \A m \in Phils, f \in ForkIds : Abs!Holds(m, f)' <=> Abs!Holds(m, f)
    BY <1>1, <1>2 DEF Abs!Holds
<1>6. AbsSem' = AbsSem
    BY <1>2, <1>3 DEF AbsSem, P!Wanted
<1>7. TypeOK' /\ SpawnedPrefix'
    BY <1>1, <1>2 DEF QInv, TypeOK, P!TypeOK, P!PcValues, SpawnedPrefix
<1>8. WaitQueueSound' /\ WokenSound'
    BY <1>2, <1>3, <1>4 DEF QInv, WaitQueueSound, WokenSound, P!Wanted
<1>9. Abs!ForkExclusion'
    BY <1>5, <1>6 DEF QInv, Abs!ForkExclusion, Abs!Phils, Abs!ForkIds
<1>10. Abs!Spawn
    BY <1>2, <1>6 DEF Spawn, P!Spawn, Abs!Spawn
<1>. QED
    BY <1>7, <1>8, <1>9, <1>10 DEF QInv

LEMMA ThinkQInv ==
    ASSUME QInv, NEW n \in Phils, Think(n) PROVE QInv' /\ Abs!Think(n)
<1> USE NumPhilAssumption DEF Phils, ForkIds, P!Phils, P!ForkIds
<1>1. pc[n] = "thinking" /\ pc' = [pc EXCEPT ![n] = "hungry"]
      /\ UNCHANGED <<sem, spawned, waitq, woken>>
    BY DEF Think, P!Think
<1>2. \A w \in woken : pc'[w] = pc[w]
    BY <1>1, WaitingThreads DEF QInv, TypeOK
<1>3. \A f \in ForkIds : \A i \in 1 .. Len(waitq[f]) : pc'[waitq[f][i]] = pc[waitq[f][i]]
    BY <1>1, WaitingThreads
<1>4. \A m \in Phils, f \in ForkIds : Abs!Holds(m, f)' <=> Abs!Holds(m, f)
    BY <1>1 DEF Abs!Holds
<1>5. AbsSem' = AbsSem
    BY <1>1, <1>2 DEF AbsSem, P!Wanted
<1>6. TypeOK' /\ SpawnedPrefix'
    BY <1>1 DEF QInv, TypeOK, P!TypeOK, P!PcValues, SpawnedPrefix
<1>7. WaitQueueSound' /\ WokenSound'
    BY <1>1, <1>2, <1>3 DEF QInv, WaitQueueSound, WokenSound, P!Wanted
<1>8. Abs!ForkExclusion'
    BY <1>4, <1>5 DEF QInv, Abs!ForkExclusion, Abs!Phils, Abs!ForkIds
<1>9. Abs!Think(n)
    BY <1>1, <1>5 DEF Abs!Think
<1>. QED
    BY <1>6, <1>7, <1>8, <1>9 DEF QInv

LEMMA TakePendQInv ==
    ASSUME QInv, NEW n \in Phils, TakePend(n) PROVE QInv' /\ UNCHANGED Abs!vars
<1> USE NumPhilAssumption DEF Phils, ForkIds, P!Phils, P!ForkIds
<1> DEFINE wf == P!Wanted(n)
<1>1. wf \in ForkIds
    BY WantedType
<1>2. /\ AtTake(n) /\ sem[wf] = 0
      /\ waitq' = [waitq EXCEPT ![wf] = Append(@, n)]
      /\ UNCHANGED <<pc, sem, spawned, woken>>
    BY DEF TakePend
<1>3. waitq[wf] \in Seq(Phils)
    BY <1>1 DEF QInv, TypeOK
<1>4. /\ Len(waitq'[wf]) = Len(waitq[wf]) + 1
      /\ waitq'[wf][Len(waitq[wf]) + 1] = n
      /\ \A i \in 1 .. Len(waitq[wf]) : waitq'[wf][i] = waitq[wf][i]
      /\ \A g \in ForkIds \ {wf} : waitq'[g] = waitq[g]
    BY <1>1, <1>2, <1>3 DEF QInv, TypeOK
<1>5. /\ pc[n] \in {"hungry", "left"} /\ n \notin woken
      /\ \A g \in ForkIds : \A i \in 1 .. Len(waitq[g]) : waitq[g][i] /= n
    BY <1>2 DEF AtTake, Parked
<1>6. TypeOK'
    BY <1>1, <1>2, <1>3 DEF QInv, TypeOK, P!TypeOK
<1>7. \A m \in Phils : P!Wanted(m)' = P!Wanted(m)
    BY <1>2 DEF P!Wanted
<1>8. WaitQueueSound'
    <2> SUFFICES ASSUME NEW g \in ForkIds
                 PROVE  /\ waitq'[g] /= <<>> => sem'[g] = 0
                        /\ \A i \in 1 .. Len(waitq'[g]) : ParkedOK(g, i)'
        BY DEF WaitQueueSound, ParkedOK
    <2>1. \A k \in 1 .. Len(waitq[wf]) : ParkedOK(wf, k) /\ waitq[wf][k] /= n
        BY <1>1, <1>5 DEF QInv, WaitQueueSound, ParkedOK
    <2>2. CASE g = wf
        <3>1. waitq'[g] /= <<>> => sem'[g] = 0
            BY <1>2, <2>2
        <3>2. ASSUME NEW i \in 1 .. Len(waitq'[g]) PROVE ParkedOK(g, i)'
            <4>1. CASE i \in 1 .. Len(waitq[wf])
                <5>0. PICK x \in Phils : x = waitq[wf][i]
                    BY <1>3, <4>1
                <5>1. waitq'[g][i] = x /\ x /= n /\ ParkedOK(wf, i)
                    BY <1>4, <2>1, <2>2, <4>1, <5>0
                <5>2. pc[x] \in {"hungry", "left"} /\ P!Wanted(x) = wf /\ x \notin woken
                    BY <5>0, <5>1 DEF ParkedOK
                <5>3. pc'[x] \in {"hungry", "left"} /\ P!Wanted(x)' = g /\ x \notin woken'
                    BY <1>2, <1>7, <2>2, <5>2
                <5>4. ASSUME NEW j \in 1 .. Len(waitq'[g]), waitq'[g][j] = x PROVE i = j
                    <6>1. CASE j \in 1 .. Len(waitq[wf])
                        BY <1>4, <2>2, <5>0, <5>1, <5>4, <6>1 DEF ParkedOK
                    <6>2. CASE j = Len(waitq[wf]) + 1
                        BY <1>4, <2>2, <5>1, <5>4, <6>2
                    <6>. QED
                        BY <1>3, <1>4, <2>2, <6>1, <6>2
                <5>. QED
                    BY <5>1, <5>3, <5>4 DEF ParkedOK
            <4>2. CASE i = Len(waitq[wf]) + 1
                BY <1>2, <1>3, <1>4, <1>5, <1>7, <2>1, <2>2, <4>2 DEF ParkedOK
            <4>. QED
                BY <1>3, <1>4, <2>2, <4>1, <4>2
        <3>. QED
            BY <3>1, <3>2
    <2>3. CASE g /= wf
        <3>1. waitq'[g] = waitq[g]
            BY <1>4, <2>3
        <3>. QED
            BY <1>2, <1>7, <3>1, <2>3 DEF QInv, TypeOK, WaitQueueSound, ParkedOK
    <2>. QED
        BY <2>2, <2>3
<1>9. AbsSem' = AbsSem
    BY <1>2, <1>7 DEF AbsSem, QInv, TypeOK
<1>10. \A m \in Phils, g \in ForkIds : Abs!Holds(m, g)' <=> Abs!Holds(m, g)
    BY <1>2 DEF Abs!Holds
<1>11. Abs!ForkExclusion'
    BY <1>9, <1>10 DEF QInv, Abs!ForkExclusion, Abs!Phils, Abs!ForkIds
<1>12. SpawnedPrefix' /\ WokenSound'
    BY <1>2, <1>7 DEF QInv, TypeOK, SpawnedPrefix, WokenSound
<1>13. UNCHANGED Abs!vars
    BY <1>2, <1>9 DEF Abs!vars
<1>. QED
    BY <1>6, <1>8, <1>11, <1>12, <1>13 DEF QInv

\* A take that returns makes n the holder of the fork it wanted, the only
\* change to Holds: hungry becomes left with forks.0, left becomes eating
\* with forks.1 as well.
LEMMA TakeHolds ==
    ASSUME NEW n \in Phils, pc[n] \in {"hungry", "left"},
           pc' = [pc EXCEPT ![n] = AfterTake(n)], pc \in [Phils -> P!PcValues]
    PROVE  \A m \in Phils, g \in ForkIds :
              Abs!Holds(m, g)' <=> Abs!Holds(m, g) \/ (m = n /\ g = P!Wanted(n))
BY ForksQ DEF Abs!Holds, AfterTake, P!Wanted, Abs!forks, P!forks

\* Exclusion survives a take of a free fork wf by n: n becomes its only
\* holder and the mapped count goes to 0.
LEMMA TakeExclusion ==
    ASSUME Abs!ForkExclusion, NEW n \in Phils, NEW wf \in ForkIds,
           AbsSem \in [ForkIds -> Nat],
           ~\E m \in Phils : Abs!Holds(m, wf),
           \A m \in Phils, g \in ForkIds :
              Abs!Holds(m, g)' <=> Abs!Holds(m, g) \/ (m = n /\ g = wf),
           AbsSem' = [AbsSem EXCEPT ![wf] = 0]
    PROVE  Abs!ForkExclusion'
<1> USE NumPhilAssumption DEF Phils, ForkIds, P!Phils, P!ForkIds, Abs!Phils, Abs!ForkIds
<1> SUFFICES ASSUME NEW g \in ForkIds
             PROVE  /\ \A a, b \in Phils : Abs!Holds(a, g)' /\ Abs!Holds(b, g)' => a = b
                    /\ AbsSem'[g] = IF \E m \in Phils : Abs!Holds(m, g)' THEN 0 ELSE 1
    BY DEF Abs!ForkExclusion
<1>1. CASE g = wf
    BY <1>1
<1>2. CASE g /= wf
    BY <1>2 DEF Abs!ForkExclusion
<1>. QED
    BY <1>1, <1>2

\* Exclusion survives a give of fork f by its holder n: nobody holds it
\* any more and the mapped count goes to 1.
LEMMA GiveExclusion ==
    ASSUME Abs!ForkExclusion, NEW n \in Phils, NEW f \in ForkIds,
           AbsSem \in [ForkIds -> Nat],
           \A m \in Phils, g \in ForkIds :
              Abs!Holds(m, g)' <=> Abs!Holds(m, g) /\ ~(m = n /\ g = f),
           Abs!Holds(n, f),
           AbsSem' = [AbsSem EXCEPT ![f] = 1]
    PROVE  Abs!ForkExclusion'
<1> USE NumPhilAssumption DEF Phils, ForkIds, P!Phils, P!ForkIds, Abs!Phils, Abs!ForkIds
<1> SUFFICES ASSUME NEW g \in ForkIds
             PROVE  /\ \A a, b \in Phils : Abs!Holds(a, g)' /\ Abs!Holds(b, g)' => a = b
                    /\ AbsSem'[g] = IF \E m \in Phils : Abs!Holds(m, g)' THEN 0 ELSE 1
    BY DEF Abs!ForkExclusion
<1>1. CASE g = f
    BY <1>1 DEF Abs!ForkExclusion
<1>2. CASE g /= f
    BY <1>2 DEF Abs!ForkExclusion
<1>. QED
    BY <1>1, <1>2

LEMMA TakeNowQInv ==
    ASSUME QInv, NEW n \in Phils, TakeNow(n)
    PROVE  QInv' /\ (Abs!TakeLeft(n) \/ Abs!TakeRight(n))
<1> USE NumPhilAssumption DEF Phils, ForkIds, P!Phils, P!ForkIds
<1> DEFINE wf == P!Wanted(n)
<1>1. wf \in ForkIds
    BY WantedType
<1>2. /\ AtTake(n) /\ sem[wf] > 0
      /\ sem' = [sem EXCEPT ![wf] = @ - 1]
      /\ pc' = [pc EXCEPT ![n] = AfterTake(n)]
      /\ UNCHANGED <<spawned, waitq, woken>>
    BY DEF TakeNow
<1>3. /\ pc[n] \in {"hungry", "left"} /\ n \notin woken
      /\ \A g \in ForkIds : \A i \in 1 .. Len(waitq[g]) : waitq[g][i] /= n
    BY <1>2 DEF AtTake, Parked
<1>4. sem[wf] = 1 /\ (~\E w \in woken : P!Wanted(w) = wf) /\ ~\E m \in Phils : Abs!Holds(m, wf)
    BY <1>1, <1>2, ForkFacts
<1>5. \A m \in Phils, g \in ForkIds :
          Abs!Holds(m, g)' <=> Abs!Holds(m, g) \/ (m = n /\ g = wf)
    BY <1>2, <1>3, TakeHolds DEF QInv, TypeOK, P!TypeOK
<1>6. \A w \in woken : pc'[w] = pc[w]
    BY <1>2, <1>3 DEF QInv, TypeOK
<1>7. \A g \in ForkIds : \A i \in 1 .. Len(waitq[g]) : pc'[waitq[g][i]] = pc[waitq[g][i]]
    BY <1>2, <1>3, WaitingThreads
<1>8. AbsSem' = [AbsSem EXCEPT ![wf] = 0]
    <2>1. \A w \in woken : P!Wanted(w)' = P!Wanted(w)
        BY <1>6 DEF P!Wanted
    <2>2. sem \in [ForkIds -> 0 .. 1]
        BY DEF QInv, TypeOK, P!TypeOK, P!SEM_LIMIT
    <2>3. \A g \in ForkIds : AbsSem'[g] = IF g = wf THEN 0 ELSE AbsSem[g]
        BY <1>2, <1>4, <2>1, <2>2 DEF AbsSem
    <2>. QED
        BY <1>1, <2>3 DEF AbsSem
<1>9. TypeOK' /\ SpawnedPrefix'
    <2>1. AfterTake(n) \in P!PcValues \ {"unspawned"}
        BY DEF AfterTake, P!PcValues
    <2>2. TypeOK'
        BY <1>1, <1>2, <1>4, <2>1 DEF QInv, TypeOK, P!TypeOK, P!SEM_LIMIT
    <2>3. SpawnedPrefix'
        BY <1>2, <1>3, <2>1 DEF QInv, SpawnedPrefix
    <2>. QED
        BY <2>2, <2>3
<1>10. WaitQueueSound' /\ WokenSound'
    <2>1. \A g \in ForkIds : waitq[g] /= <<>> => g /= wf
        BY <1>4 DEF QInv, WaitQueueSound
    <2>. QED
        BY <1>2, <2>1, <1>6, <1>7 DEF QInv, WaitQueueSound, WokenSound, P!Wanted
<1>11. Abs!ForkExclusion'
    <2>1. AbsSem \in [ForkIds -> Nat]
        BY DEF QInv, TypeOK, P!TypeOK, AbsSem
    <2>2. Abs!ForkExclusion
        BY DEF QInv
    <2>. QED
        BY <1>1, <1>4, <1>5, <1>8, <2>1, <2>2, TakeExclusion
<1>12. AbsSem[wf] = 1
    BY <1>1, <1>4 DEF AbsSem
<1>13. Abs!TakeLeft(n) \/ Abs!TakeRight(n)
    <2>1. CASE pc[n] = "hungry"
        <3>1. wf = Abs!forks(n)[1]
            BY <2>1 DEF P!Wanted, Abs!forks, P!forks
        <3>2. AbsSem' = [AbsSem EXCEPT ![wf] = AbsSem[wf] - 1]
            BY <1>8, <1>12
        <3>3. pc' = [pc EXCEPT ![n] = "left"] /\ UNCHANGED spawned
            BY <1>2, <2>1 DEF AfterTake
        <3>. QED
            BY <1>12, <2>1, <3>1, <3>2, <3>3 DEF Abs!TakeLeft, Abs!SemTake
    <2>2. CASE pc[n] = "left"
        <3>1. wf = Abs!forks(n)[2]
            BY <2>2 DEF P!Wanted, Abs!forks, P!forks
        <3>2. AbsSem' = [AbsSem EXCEPT ![wf] = AbsSem[wf] - 1]
            BY <1>8, <1>12
        <3>3. pc' = [pc EXCEPT ![n] = "eating"] /\ UNCHANGED spawned
            BY <1>2, <2>2 DEF AfterTake
        <3>. QED
            BY <1>12, <2>2, <3>1, <3>2, <3>3 DEF Abs!TakeRight, Abs!SemTake
    <2>. QED
        BY <1>3, <2>1, <2>2
<1>. QED
    BY <1>9, <1>10, <1>11, <1>13 DEF QInv

LEMMA TakeResumeQInv ==
    ASSUME QInv, NEW n \in Phils, TakeResume(n)
    PROVE  QInv' /\ (Abs!TakeLeft(n) \/ Abs!TakeRight(n))
<1> USE NumPhilAssumption DEF Phils, ForkIds, P!Phils, P!ForkIds
<1> DEFINE wf == P!Wanted(n)
<1>1. wf \in ForkIds
    BY WantedType
<1>2. /\ n \in woken /\ woken' = woken \ {n}
      /\ pc' = [pc EXCEPT ![n] = AfterTake(n)]
      /\ UNCHANGED <<sem, spawned, waitq>>
    BY DEF TakeResume
<1>3. /\ pc[n] \in {"hungry", "left"}
      /\ \A g \in ForkIds : \A i \in 1 .. Len(waitq[g]) : waitq[g][i] /= n
      /\ \A w \in woken : P!Wanted(w) = wf => w = n
    BY <1>2 DEF QInv, WokenSound, WaitQueueSound
<1>4. sem[wf] = 0 /\ ~\E m \in Phils : Abs!Holds(m, wf)
    BY <1>1, <1>2, ForkFacts
<1>5. \A m \in Phils, g \in ForkIds :
          Abs!Holds(m, g)' <=> Abs!Holds(m, g) \/ (m = n /\ g = wf)
    BY <1>3, <1>2, TakeHolds DEF QInv, TypeOK, P!TypeOK
<1>6. \A w \in woken' : pc'[w] = pc[w] /\ P!Wanted(w)' = P!Wanted(w)
    BY <1>2 DEF QInv, TypeOK, P!Wanted
<1>7. \A g \in ForkIds : \A i \in 1 .. Len(waitq[g]) : pc'[waitq[g][i]] = pc[waitq[g][i]]
    BY <1>2, <1>3, WaitingThreads
<1>8. AbsSem' = [AbsSem EXCEPT ![wf] = 0]
    <2>1. \A g \in ForkIds : (\E w \in woken' : P!Wanted(w)' = g)
                             <=> (\E w \in woken : P!Wanted(w) = g) /\ g /= wf
        BY <1>2, <1>3, <1>6
    <2>2. sem \in [ForkIds -> 0 .. 1]
        BY DEF QInv, TypeOK, P!TypeOK, P!SEM_LIMIT
    <2>3. \A g \in ForkIds : AbsSem'[g] = IF g = wf THEN 0 ELSE AbsSem[g]
        <3> SUFFICES ASSUME NEW g \in ForkIds
                     PROVE  AbsSem'[g] = IF g = wf THEN 0 ELSE AbsSem[g]
            OBVIOUS
        <3>1. AbsSem'[g] = sem[g] + (IF \E w \in woken' : P!Wanted(w)' = g THEN 1 ELSE 0)
            BY <1>2 DEF AbsSem
        <3>2. CASE g = wf
            BY <1>4, <2>1, <3>1, <3>2
        <3>3. CASE g /= wf
            BY <2>1, <3>1, <3>3 DEF AbsSem
        <3>. QED
            BY <3>2, <3>3
    <2>. QED
        BY <1>1, <2>3 DEF AbsSem
<1>9. TypeOK' /\ SpawnedPrefix'
    <2>1. AfterTake(n) \in P!PcValues \ {"unspawned"}
        BY DEF AfterTake, P!PcValues
    <2>. QED
        BY <1>2, <1>3, <2>1 DEF QInv, TypeOK, P!TypeOK, SpawnedPrefix
<1>10. WaitQueueSound'
    <2> SUFFICES ASSUME NEW g \in ForkIds
                 PROVE  /\ waitq'[g] /= <<>> => sem'[g] = 0
                        /\ \A i \in 1 .. Len(waitq'[g]) : ParkedOK(g, i)'
        BY DEF WaitQueueSound, ParkedOK
    <2>1. \A i \in 1 .. Len(waitq[g]) : waitq[g][i] \in Phils /\ waitq[g][i] /= n
        BY <1>3 DEF QInv, TypeOK
    <2>2. \A m \in Phils \ {n} : P!Wanted(m)' = P!Wanted(m)
        BY <1>2 DEF P!Wanted
    <2>. QED
        BY <1>2, <1>7, <2>1, <2>2 DEF QInv, WaitQueueSound, ParkedOK
<1>12. WokenSound'
    BY <1>2, <1>6 DEF QInv, WokenSound
<1>11. Abs!ForkExclusion'
    <2>1. AbsSem \in [ForkIds -> Nat]
        BY DEF QInv, TypeOK, P!TypeOK, AbsSem
    <2>2. Abs!ForkExclusion
        BY DEF QInv
    <2>. QED
        BY <1>1, <1>4, <1>5, <1>8, <2>1, <2>2, TakeExclusion
<1>13. AbsSem[wf] = 1
    BY <1>1, <1>2, <1>4 DEF AbsSem
<1>14. Abs!TakeLeft(n) \/ Abs!TakeRight(n)
    <2>1. CASE pc[n] = "hungry"
        <3>1. wf = Abs!forks(n)[1]
            BY <2>1 DEF P!Wanted, Abs!forks, P!forks
        <3>2. AbsSem' = [AbsSem EXCEPT ![wf] = AbsSem[wf] - 1]
            BY <1>8, <1>13
        <3>3. pc' = [pc EXCEPT ![n] = "left"] /\ UNCHANGED spawned
            BY <1>2, <2>1 DEF AfterTake
        <3>. QED
            BY <1>13, <2>1, <3>1, <3>2, <3>3 DEF Abs!TakeLeft, Abs!SemTake
    <2>2. CASE pc[n] = "left"
        <3>1. wf = Abs!forks(n)[2]
            BY <2>2 DEF P!Wanted, Abs!forks, P!forks
        <3>2. AbsSem' = [AbsSem EXCEPT ![wf] = AbsSem[wf] - 1]
            BY <1>8, <1>13
        <3>3. pc' = [pc EXCEPT ![n] = "eating"] /\ UNCHANGED spawned
            BY <1>2, <2>2 DEF AfterTake
        <3>. QED
            BY <1>13, <2>2, <3>1, <3>2, <3>3 DEF Abs!TakeRight, Abs!SemTake
    <2>. QED
        BY <1>3, <2>1, <2>2
<1>. QED
    BY <1>9, <1>10, <1>11, <1>12, <1>14 DEF QInv


\* The mapped count is a count.
LEMMA AbsSemType ==
    ASSUME TypeOK PROVE AbsSem \in [ForkIds -> Nat]
<1>1. \A f \in ForkIds : sem[f] \in Nat
    BY DEF TypeOK, P!TypeOK, P!SEM_LIMIT, ForkIds
<1>. QED
    BY <1>1 DEF AbsSem

\* A give of fork f by its holder n, who moves on to `to`: either the first
\* waiter is woken with the unit or, with nobody waiting, the count goes
\* back to 1.
LEMMA GiveQInv ==
    ASSUME QInv, NEW n \in Phils, NEW f \in ForkIds, NEW to \in {"putting", "thinking"},
           pc[n] \in {"eating", "putting"}, Abs!Holds(n, f),
           \A m \in Phils, g \in ForkIds :
              Abs!Holds(m, g)' <=> Abs!Holds(m, g) /\ ~(m = n /\ g = f),
           pc' = [pc EXCEPT ![n] = to], Give(f), UNCHANGED spawned
    PROVE  QInv' /\ AbsSem' = [AbsSem EXCEPT ![f] = 1]
<1> USE NumPhilAssumption DEF Phils, ForkIds, P!Phils, P!ForkIds
<1>0. /\ pc \in [Phils -> P!PcValues]
      /\ sem \in [ForkIds -> 0 .. 1]
      /\ waitq \in [ForkIds -> Seq(Phils)]
      /\ woken \subseteq Phils
      /\ spawned \in 0 .. NUM_PHIL
    BY DEF QInv, TypeOK, P!TypeOK, P!SEM_LIMIT
<1>1. sem[f] = 0 /\ ~\E w \in woken : P!Wanted(w) = f
    BY ForkFacts
<1>2. /\ n \notin woken
      /\ \A g \in ForkIds : \A i \in 1 .. Len(waitq[g]) : waitq[g][i] /= n
    BY WaitingThreads
<1>3. \A m \in Phils \ {n} : P!Wanted(m)' = P!Wanted(m) /\ pc'[m] = pc[m]
    BY <1>0 DEF P!Wanted
<1>4. AbsSem \in [ForkIds -> Nat] /\ Abs!ForkExclusion
    BY AbsSemType DEF QInv
<1>5. TypeOK' /\ SpawnedPrefix'
    <2>1. pc' \in [Phils -> P!PcValues] /\ SpawnedPrefix'
        BY <1>0 DEF QInv, SpawnedPrefix, P!PcValues
    <2>2. waitq' \in [ForkIds -> Seq(Phils)] /\ woken' \in SUBSET Phils
          /\ sem' \in [ForkIds -> 0 .. P!SEM_LIMIT]
        <3>1. CASE waitq[f] /= <<>>
            <4>1. Head(waitq[f]) \in Phils /\ Tail(waitq[f]) \in Seq(Phils)
                BY <1>0, <3>1
            <4>. QED
                BY <1>0, <3>1, <4>1 DEF Give, P!SEM_LIMIT
        <3>2. CASE waitq[f] = <<>>
            <4>1. sem' = [sem EXCEPT ![f] = 1] /\ UNCHANGED <<waitq, woken>>
                BY <1>0, <1>1, <3>2 DEF Give, P!SEM_LIMIT
            <4>. QED
                BY <1>0, <4>1 DEF P!SEM_LIMIT
        <3>. QED
            BY <3>1, <3>2
    <2>. QED
        BY <1>0, <2>1, <2>2 DEF TypeOK, P!TypeOK
<1>6. CASE waitq[f] /= <<>>
    <2>1. PICK h \in Phils : h = Head(waitq[f])
        BY <1>0, <1>6
    <2>2. /\ woken' = woken \cup {h}
          /\ waitq' = [waitq EXCEPT ![f] = Tail(waitq[f])]
          /\ sem' = sem
        BY <1>6, <2>1 DEF Give
    <2>3. /\ h = waitq[f][1] /\ h /= n
          /\ pc[h] \in {"hungry", "left"} /\ P!Wanted(h) = f /\ h \notin woken
          /\ \A j \in 1 .. Len(waitq[f]) : waitq[f][j] = h => j = 1
        BY <1>0, <1>2, <1>6, <2>1 DEF QInv, WaitQueueSound
    <2>4. /\ Len(waitq'[f]) = Len(waitq[f]) - 1
          /\ \A i \in 1 .. Len(waitq[f]) - 1 : waitq'[f][i] = waitq[f][i + 1]
          /\ \A g \in ForkIds \ {f} : waitq'[g] = waitq[g]
        BY <1>0, <1>6, <2>2
    <2>5. \A w \in woken' : /\ w \in Phils \ {n}
                            /\ pc'[w] = pc[w] /\ P!Wanted(w)' = P!Wanted(w)
                            /\ pc[w] \in {"hungry", "left"}
        BY <1>0, <1>2, <1>3, <2>2, <2>3 DEF QInv, WokenSound
    <2>6. WaitQueueSound'
        <3> SUFFICES ASSUME NEW g \in ForkIds
                     PROVE  /\ waitq'[g] /= <<>> => sem'[g] = 0
                            /\ \A i \in 1 .. Len(waitq'[g]) : ParkedOK(g, i)'
            BY DEF WaitQueueSound, ParkedOK
        <3>1. CASE g = f
            <4>1. ASSUME NEW i \in 1 .. Len(waitq[f]) - 1 PROVE ParkedOK(f, i)'
                <5>1. i + 1 \in 1 .. Len(waitq[f]) /\ waitq'[f][i] = waitq[f][i + 1]
                    BY <2>4
                <5>2. PICK x \in Phils : x = waitq[f][i + 1]
                    BY <5>1, WaitingThreads
                <5>3. ParkedOK(f, i + 1)
                    BY <5>1 DEF QInv, WaitQueueSound, ParkedOK
                <5>4. x /= n /\ x /= h
                    BY <1>2, <2>3, <5>1, <5>2
                <5>5. pc'[x] \in {"hungry", "left"} /\ P!Wanted(x)' = f /\ x \notin woken'
                    BY <1>3, <2>2, <5>2, <5>3, <5>4 DEF ParkedOK
                <5>6. \A j \in 1 .. Len(waitq'[f]) : waitq'[f][j] = x => i = j
                    BY <2>4, <5>1, <5>2, <5>3 DEF ParkedOK
                <5>. QED
                    BY <5>1, <5>2, <5>5, <5>6 DEF ParkedOK
            <4>. QED
                BY <1>1, <2>2, <2>4, <3>1, <4>1
        <3>2. CASE g /= f
            <4>1. ASSUME NEW i \in 1 .. Len(waitq[g]) PROVE ParkedOK(g, i)'
                <5>1. PICK x \in Phils : x = waitq[g][i]
                    BY WaitingThreads
                <5>2. ParkedOK(g, i)
                    BY DEF QInv, WaitQueueSound, ParkedOK
                <5>3. x /= n /\ x /= h
                    BY <1>2, <2>3, <3>2, <5>1, <5>2 DEF ParkedOK
                <5>4. pc'[x] \in {"hungry", "left"} /\ P!Wanted(x)' = g /\ x \notin woken'
                    BY <1>3, <2>2, <5>1, <5>2, <5>3 DEF ParkedOK
                <5>. QED
                    BY <2>4, <3>2, <5>1, <5>2, <5>4 DEF ParkedOK
            <4>2. waitq'[g] /= <<>> => sem'[g] = 0
                BY <2>2, <2>4, <3>2 DEF QInv, WaitQueueSound
            <4>. QED
                BY <2>4, <3>2, <4>1, <4>2
        <3>. QED
            BY <3>1, <3>2
    <2>7. WokenSound'
        <3>1. \A w1, w2 \in woken' : P!Wanted(w1) = P!Wanted(w2) => w1 = w2
            BY <1>1, <2>2, <2>3 DEF QInv, WokenSound
        <3>. QED
            BY <2>5, <3>1 DEF WokenSound
    <2>8. AbsSem' = [AbsSem EXCEPT ![f] = 1]
        <3>1. \A g \in ForkIds : (\E w \in woken' : P!Wanted(w)' = g)
                                 <=> (\E w \in woken : P!Wanted(w) = g) \/ g = f
            BY <2>2, <2>3, <2>5
        <3>2. \A g \in ForkIds : AbsSem'[g] = IF g = f THEN 1 ELSE AbsSem[g]
            <4> SUFFICES ASSUME NEW g \in ForkIds
                         PROVE  AbsSem'[g] = IF g = f THEN 1 ELSE AbsSem[g]
                OBVIOUS
            <4>1. AbsSem'[g] = sem[g] + (IF \E w \in woken' : P!Wanted(w)' = g THEN 1 ELSE 0)
                BY <2>2 DEF AbsSem
            <4>2. CASE g = f
                BY <1>1, <3>1, <4>1, <4>2
            <4>3. CASE g /= f
                BY <3>1, <4>1, <4>3 DEF AbsSem
            <4>. QED
                BY <4>2, <4>3
        <3>. QED
            BY <3>2 DEF AbsSem
    <2>9. Abs!ForkExclusion'
        BY <1>4, <2>8, GiveExclusion
    <2>. QED
        BY <1>5, <2>6, <2>7, <2>8, <2>9 DEF QInv
<1>7. CASE waitq[f] = <<>>
    <2>1. sem' = [sem EXCEPT ![f] = 1] /\ UNCHANGED <<waitq, woken>>
        BY <1>0, <1>1, <1>7 DEF Give, P!SEM_LIMIT
    <2>2. \A w \in woken : w \in Phils \ {n} /\ pc'[w] = pc[w] /\ P!Wanted(w)' = P!Wanted(w)
        BY <1>0, <1>2, <1>3
    <2>3. WaitQueueSound'
        <3> SUFFICES ASSUME NEW g \in ForkIds
                     PROVE  /\ waitq'[g] /= <<>> => sem'[g] = 0
                            /\ \A i \in 1 .. Len(waitq'[g]) : ParkedOK(g, i)'
            BY DEF WaitQueueSound, ParkedOK
        <3>1. ASSUME NEW i \in 1 .. Len(waitq[g]) PROVE ParkedOK(g, i)'
            <4>1. PICK x \in Phils : x = waitq[g][i]
                BY WaitingThreads
            <4>2. ParkedOK(g, i) /\ x /= n
                BY <1>2, <4>1 DEF QInv, WaitQueueSound, ParkedOK
            <4>. QED
                BY <1>3, <2>1, <4>1, <4>2 DEF ParkedOK
        <3>2. waitq'[g] /= <<>> => sem'[g] = 0
            BY <1>7, <2>1 DEF QInv, WaitQueueSound
        <3>. QED
            BY <2>1, <3>1, <3>2
    <2>4. WokenSound'
        BY <2>1, <2>2 DEF QInv, WokenSound
    <2>5. AbsSem' = [AbsSem EXCEPT ![f] = 1]
        <3>1. \A g \in ForkIds : AbsSem'[g] = IF g = f THEN 1 ELSE AbsSem[g]
            <4> SUFFICES ASSUME NEW g \in ForkIds
                         PROVE  AbsSem'[g] = IF g = f THEN 1 ELSE AbsSem[g]
                OBVIOUS
            <4>1. (\E w \in woken' : P!Wanted(w)' = g) <=> (\E w \in woken : P!Wanted(w) = g)
                BY <2>1, <2>2
            <4>2. AbsSem'[g] = sem'[g] + (IF \E w \in woken : P!Wanted(w) = g THEN 1 ELSE 0)
                BY <4>1 DEF AbsSem
            <4>. QED
                BY <1>0, <1>1, <2>1, <4>2 DEF AbsSem
        <3>. QED
            BY <3>1 DEF AbsSem
    <2>6. Abs!ForkExclusion'
        BY <1>4, <2>5, GiveExclusion
    <2>. QED
        BY <1>5, <2>3, <2>4, <2>5, <2>6 DEF QInv
<1>. QED
    BY <1>6, <1>7


LEMMA ReleaseRightQInv ==
    ASSUME QInv, NEW n \in Phils, ReleaseRight(n) PROVE QInv' /\ Abs!ReleaseRight(n)
<1> USE NumPhilAssumption DEF Phils, ForkIds, P!Phils, P!ForkIds
<1>1. pc[n] = "eating" /\ pc' = [pc EXCEPT ![n] = "putting"]
      /\ Give(P!forks(n)[2]) /\ UNCHANGED spawned
    BY DEF ReleaseRight
<1>2. pc \in [Phils -> P!PcValues]
    BY DEF QInv, TypeOK, P!TypeOK
<1>3. \A m \in Phils, g \in ForkIds :
         Abs!Holds(m, g)' <=> Abs!Holds(m, g) /\ ~(m = n /\ g = P!forks(n)[2])
    BY <1>1, <1>2, ForksQ DEF Abs!Holds, Abs!forks, P!forks
<1>4. Abs!Holds(n, P!forks(n)[2])
    BY <1>1 DEF Abs!Holds, Abs!forks, P!forks
<1>5. AbsSem[P!forks(n)[2]] = 0
    BY <1>4, ForksQ DEF QInv, Abs!ForkExclusion, Abs!Phils, Abs!ForkIds
<1>6. QInv' /\ AbsSem' = [AbsSem EXCEPT ![P!forks(n)[2]] = 1]
    BY <1>1, <1>3, <1>4, ForksQ, GiveQInv
<1>7. Abs!ReleaseRight(n)
    BY <1>1, <1>5, <1>6 DEF Abs!ReleaseRight, Abs!SemGive, Abs!SEM_LIMIT, Abs!forks, P!forks
<1>. QED
    BY <1>6, <1>7

LEMMA ReleaseLeftQInv ==
    ASSUME QInv, NEW n \in Phils, ReleaseLeft(n) PROVE QInv' /\ Abs!ReleaseLeft(n)
<1> USE NumPhilAssumption DEF Phils, ForkIds, P!Phils, P!ForkIds
<1>1. pc[n] = "putting" /\ pc' = [pc EXCEPT ![n] = "thinking"]
      /\ Give(P!forks(n)[1]) /\ UNCHANGED spawned
    BY DEF ReleaseLeft
<1>2. pc \in [Phils -> P!PcValues]
    BY DEF QInv, TypeOK, P!TypeOK
<1>3. \A m \in Phils, g \in ForkIds :
         Abs!Holds(m, g)' <=> Abs!Holds(m, g) /\ ~(m = n /\ g = P!forks(n)[1])
    BY <1>1, <1>2, ForksQ DEF Abs!Holds, Abs!forks, P!forks
<1>4. Abs!Holds(n, P!forks(n)[1])
    BY <1>1 DEF Abs!Holds, Abs!forks, P!forks
<1>5. AbsSem[P!forks(n)[1]] = 0
    BY <1>4, ForksQ DEF QInv, Abs!ForkExclusion, Abs!Phils, Abs!ForkIds
<1>6. QInv' /\ AbsSem' = [AbsSem EXCEPT ![P!forks(n)[1]] = 1]
    BY <1>1, <1>3, <1>4, ForksQ, GiveQInv
<1>7. Abs!ReleaseLeft(n)
    BY <1>1, <1>5, <1>6 DEF Abs!ReleaseLeft, Abs!SemGive, Abs!SEM_LIMIT, Abs!forks, P!forks
<1>. QED
    BY <1>6, <1>7

LEMMA NextQInv == QInv /\ [Next]_vars => QInv'
<1> SUFFICES ASSUME QInv, [Next]_vars PROVE QInv'
    OBVIOUS
<1>1. CASE Spawn
    BY <1>1, SpawnQInv
<1>2. ASSUME NEW n \in Phils, Phil(n) PROVE QInv'
    BY <1>2, TakeNowQInv, TakePendQInv, TakeResumeQInv, ReleaseRightQInv,
       ReleaseLeftQInv, ThinkQInv DEF Phil
<1>3. CASE UNCHANGED vars
    <2>1. pc' = pc /\ sem' = sem /\ spawned' = spawned /\ waitq' = waitq /\ woken' = woken
        BY <1>3 DEF vars
    <2>2. TypeOK' /\ SpawnedPrefix'
        BY <2>1 DEF QInv, TypeOK, P!TypeOK, SpawnedPrefix
    <2>3. WaitQueueSound' /\ WokenSound'
        BY <2>1 DEF QInv, WaitQueueSound, WokenSound, P!Wanted
    <2>4. AbsSem' = AbsSem
        BY <2>1 DEF AbsSem, P!Wanted
    <2>5. Abs!ForkExclusion'
        BY <2>1, <2>4 DEF QInv, Abs!ForkExclusion, Abs!Holds
    <2>. QED
        BY <2>2, <2>3, <2>5 DEF QInv
<1>. QED
    BY <1>1, <1>2, <1>3 DEF Next

\* Every step of the blocking model is a step of Philosophers over the
\* mapped count, or leaves the threads, the mapped count and spawned alone.
LEMMA NextAbs == QInv /\ [Next]_vars => [Abs!Next]_Abs!vars
<1> SUFFICES ASSUME QInv, [Next]_vars PROVE [Abs!Next]_Abs!vars
    OBVIOUS
<1> USE DEF Phils, P!Phils, Abs!Phils
<1>1. CASE Spawn
    BY <1>1, SpawnQInv DEF Abs!Next
<1>2. ASSUME NEW n \in Phils, Phil(n) PROVE [Abs!Next]_Abs!vars
    <2>1. CASE TakeNow(n) \/ TakeResume(n)
        BY <2>1, TakeNowQInv, TakeResumeQInv DEF Abs!Next, Abs!Phil
    <2>2. CASE TakePend(n)
        BY <2>2, TakePendQInv
    <2>3. CASE ReleaseRight(n) \/ ReleaseLeft(n) \/ Think(n)
        BY <2>3, ReleaseRightQInv, ReleaseLeftQInv, ThinkQInv DEF Abs!Next, Abs!Phil
    <2>. QED
        BY <1>2, <2>1, <2>2, <2>3 DEF Phil
<1>3. CASE UNCHANGED vars
    BY <1>3 DEF vars, Abs!vars, AbsSem, P!Wanted
<1>. QED
    BY <1>1, <1>2, <1>3 DEF Next

\* The kernel's blocking take and handing give implement the semaphore
\* forks of Philosophers (the safety part of AbsSpec): with a woken thread's
\* unit counted as still on the semaphore, every behaviour of SemQueue is
\* one of Philosophers, so ForkExclusion and NoCircularWait carry over.
THEOREM SemQueueRefines == Spec => Abs!Spec
<1>1. Init => Abs!Init
    <2> SUFFICES ASSUME Init PROVE Abs!Init
        OBVIOUS
    <2>1. AbsSem = [f \in ForkIds |-> P!SEM_INIT]
        BY DEF Init, P!Init, AbsSem, ForkIds, P!ForkIds, P!SEM_INIT
    <2>. QED
        BY <2>1 DEF Init, P!Init, Abs!Init, Abs!SEM_INIT, P!SEM_INIT, Phils, ForkIds, P!Phils, P!ForkIds, Abs!Phils, Abs!ForkIds
<1>. QED
    BY InitQInv, NextQInv, NextAbs, <1>1, PTL DEF Spec, Abs!Spec

\* Type correctness of the blocking model.
THEOREM SemQueueTypeCorrect == Spec => []TypeOK
<1>1. QInv => TypeOK
    BY DEF QInv
<1>. QED
    BY InitQInv, NextQInv, <1>1, PTL DEF Spec

=============================================================================
