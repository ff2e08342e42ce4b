---------------------------- MODULE DiningProofs ----------------------------
(***************************************************************************)
(* Proofs that rust_main's start-up never panics, for every NUM_PHIL >= 2 *)
(* (Calls follows NUM_PHIL the way the hand-unrolled array must).          *)
(*                                                                         *)
(* The inductive invariant DInv ties the state word of every static to     *)
(* main's place in Calls: the calls before `next` are INITIALIZED, the     *)
(* current one is INITING while main is inside init_once, the later ones   *)
(* are UNINITIALIZED.  With CallsInjective (no static is called twice)     *)
(* this makes every CAS of main a winning one, hence every unwrap sees     *)
(* Some.                                                                   *)
(***************************************************************************)
EXTENDS Dining, SequenceTheorems, TLAPS

\* The k-th call of main has returned Some and its static is INITIALIZED.
CallDone(k) ==
    \/ k < next
    \/ mpc = "spawning"
    \/ k = next /\ mpc = "unwrap" /\ ipc[Main] = "idle"

\* The state word of every static follows main's progress through Calls.
CallsState ==
    \A k \in 1 .. Len(Calls) :
        init[Calls[k]] =
            IF CallDone(k) THEN KO!KOBJ_INITIALIZED
            ELSE IF k = next /\ mpc = "unwrap" THEN KO!KOBJ_INITING
            ELSE KO!KOBJ_UNINITIALIZED

DInv ==
    /\ TypeOK
    /\ mpc /= "panicked"
    /\ CallsState
    /\ ipc[Main] /= "idle" => mpc = "unwrap" /\ cur[Main] = Calls[next]
    /\ mpc = "unwrap" /\ ipc[Main] = "idle" => ret[Main] = KO!Some
    /\ mpc = "spawning" => next = Len(Calls)
    /\ mpc /= "spawning" => spawned = 0 /\ \A n \in Phils : pc[n] = "unspawned"


-----------------------------------------------------------------------------
(* The calls of rust_main.                                                 *)

\* What the k-th init_once call of rust_main is on.
LEMMA CallsAt ==
    /\ Calls \in Seq(Statics)
    /\ Len(Calls) = 3 * NUM_PHIL
    /\ \A k \in 1 .. NUM_PHIL : Calls[k] = Sem(k - 1)
    /\ \A n \in Phils : /\ Calls[NUM_PHIL + 2 * n + 1] = Stack(n)
                        /\ Calls[NUM_PHIL + 2 * n + 2] = Thread(n)
<1> USE NumPhilAssumption DEF Phils, P!Phils, P!ForkIds
<1> DEFINE G == ArrayCalls
<1>1. SyncerCalls \in Seq(Statics) /\ Len(SyncerCalls) = NUM_PHIL
    BY DEF SyncerCalls, Statics, Sem
<1>2. \A k \in 1 .. 2 * NUM_PHIL :
         IF k % 2 = 1 THEN (k - 1) \div 2 \in Phils ELSE (k - 2) \div 2 \in Phils
    OBVIOUS
<1>3. G \in Seq(Statics) /\ Len(G) = 2 * NUM_PHIL
    <2>1. G \in [1 .. 2 * NUM_PHIL -> Statics]
        BY <1>2 DEF ArrayCalls, Statics, Stack, Thread
    <2>. QED
        BY <2>1
<1>4. Calls = SyncerCalls \o G
    BY DEF Calls
<1>5. /\ Calls \in Seq(Statics) /\ Len(Calls) = 3 * NUM_PHIL
      /\ \A k \in 1 .. 3 * NUM_PHIL :
            Calls[k] = IF k <= NUM_PHIL THEN SyncerCalls[k] ELSE G[k - NUM_PHIL]
    <2>1. /\ SyncerCalls \o G \in Seq(Statics)
          /\ Len(SyncerCalls \o G) = Len(SyncerCalls) + Len(G)
          /\ \A k \in 1 .. Len(SyncerCalls) + Len(G) : (SyncerCalls \o G)[k] =
                IF k <= Len(SyncerCalls) THEN SyncerCalls[k] ELSE G[k - Len(SyncerCalls)]
        BY <1>1, <1>3, ConcatProperties
    <2>. QED
        BY <1>1, <1>3, <1>4, <2>1
<1>7. \A k \in 1 .. NUM_PHIL : Calls[k] = Sem(k - 1)
    BY <1>5 DEF SyncerCalls
<1>8. ASSUME NEW n \in Phils
      PROVE  Calls[NUM_PHIL + 2 * n + 1] = Stack(n) /\ Calls[NUM_PHIL + 2 * n + 2] = Thread(n)
    <2>1. (2 * n + 1) % 2 = 1 /\ (2 * n + 1 - 1) \div 2 = n
          /\ (2 * n + 2) % 2 = 0 /\ (2 * n + 2 - 2) \div 2 = n
        OBVIOUS
    <2>2. G[2 * n + 1] = Stack(n) /\ G[2 * n + 2] = Thread(n)
        BY <2>1 DEF ArrayCalls
    <2>. QED
        BY <1>5, <2>2
<1>. QED
    BY <1>5, <1>7, <1>8

\* Every static is touched by one call of rust_main and by one only.
LEMMA CallsInjective ==
    \A i, j \in 1 .. Len(Calls) : Calls[i] = Calls[j] => i = j
<1> USE NumPhilAssumption DEF Phils, P!Phils, P!ForkIds
<1> SUFFICES ASSUME NEW i \in 1 .. 3 * NUM_PHIL, NEW j \in 1 .. 3 * NUM_PHIL,
                    Calls[i] = Calls[j]
             PROVE  i = j
    BY CallsAt
<1>1. \A k \in 1 .. 3 * NUM_PHIL :
         \/ k <= NUM_PHIL /\ Calls[k] = Sem(k - 1)
         \/ \E n \in Phils : k = NUM_PHIL + 2 * n + 1 /\ Calls[k] = Stack(n)
         \/ \E n \in Phils : k = NUM_PHIL + 2 * n + 2 /\ Calls[k] = Thread(n)
    <2> SUFFICES ASSUME NEW k \in 1 .. 3 * NUM_PHIL PROVE
         \/ k <= NUM_PHIL /\ Calls[k] = Sem(k - 1)
         \/ \E n \in Phils : k = NUM_PHIL + 2 * n + 1 /\ Calls[k] = Stack(n)
         \/ \E n \in Phils : k = NUM_PHIL + 2 * n + 2 /\ Calls[k] = Thread(n)
        OBVIOUS
    <2>1. CASE k <= NUM_PHIL
        BY <2>1, CallsAt
    <2>2. CASE k > NUM_PHIL /\ (k - NUM_PHIL) % 2 = 1
        <3>1. (k - NUM_PHIL - 1) \div 2 \in Phils /\ k = NUM_PHIL + 2 * ((k - NUM_PHIL - 1) \div 2) + 1
            BY <2>2
        <3>. QED
            BY <3>1, CallsAt
    <2>3. CASE k > NUM_PHIL /\ (k - NUM_PHIL) % 2 = 0
        <3>1. (k - NUM_PHIL - 2) \div 2 \in Phils /\ k = NUM_PHIL + 2 * ((k - NUM_PHIL - 2) \div 2) + 2
            BY <2>3
        <3>. QED
            BY <3>1, CallsAt
    <2>. QED
        BY <2>1, <2>2, <2>3
<1>. QED
    BY <1>1 DEF Sem, Stack, Thread


\* A philosopher's two forks are forks.
LEMMA ForksD ==
    ASSUME NEW n \in Phils
    PROVE  P!forks(n)[1] \in P!ForkIds /\ P!forks(n)[2] \in P!ForkIds
BY NumPhilAssumption DEF P!forks, Phils, P!Phils, P!ForkIds

\* A philosopher's step keeps the philosophers in their types, and only a
\* spawned thread steps.
LEMMA PhilType ==
    ASSUME P!TypeOK, NEW n \in Phils, P!Phil(n)
    PROVE  P!TypeOK' /\ pc[n] /= "unspawned"
<1> USE NumPhilAssumption DEF Phils, P!Phils, P!ForkIds
<1>1. P!forks(n)[1] \in P!ForkIds /\ P!forks(n)[2] \in P!ForkIds
    BY ForksD
<1>. QED
    BY <1>1 DEF P!Phil, P!TypeOK, P!TakeLeft, P!TakeRight, P!ReleaseRight,
       P!ReleaseLeft, P!Think, P!SemTake, P!SemGive, P!SEM_LIMIT, P!PcValues

-----------------------------------------------------------------------------
(* The inductive invariant.                                                *)

LEMMA NoStaticFresh == NoStatic \notin Statics
BY DEF NoStatic, Statics, Sem, Stack, Thread

LEMMA InitDInv == Init => DInv
<1> SUFFICES ASSUME Init PROVE DInv
    OBVIOUS
<1> USE NumPhilAssumption DEF Phils, P!Phils, P!ForkIds, kvars, mvars, pvars,
        KO!KOBJ_UNINITIALIZED, KO!KOBJ_INITING, KO!KOBJ_INITIALIZED
<1>1. Calls \in Seq(Statics) /\ Len(Calls) = 3 * NUM_PHIL
    BY CallsAt
<1>2. TypeOK
    BY <1>1 DEF Init, KO!Init, P!Init, TypeOK, KO!TypeOK, P!TypeOK, KO!ZEROED,
       KO!NoResult, KO!None, KO!Some, P!PcValues, P!SEM_INIT, P!SEM_LIMIT
<1>3. CallsState
    BY <1>1 DEF Init, KO!Init, CallsState, CallDone
<1>. QED
    BY <1>2, <1>3 DEF Init, KO!Init, P!Init, DInv

\* The CAS on the next static wins: it is UNINITIALIZED, no earlier call
\* touched it (CallsInjective), so Err cannot happen.
LEMMA MainInitOnceDInv ==
    ASSUME DInv, MainInitOnce PROVE DInv'
<1> USE NumPhilAssumption DEF Phils, P!Phils, P!ForkIds, kvars, mvars, pvars,
        KO!KOBJ_UNINITIALIZED, KO!KOBJ_INITING, KO!KOBJ_INITIALIZED
<1>1. Calls \in Seq(Statics) /\ Len(Calls) = 3 * NUM_PHIL
    BY CallsAt
<1>2. mpc = "call" /\ ipc[Main] = "idle" /\ next \in 1 .. Len(Calls)
    BY DEF MainInitOnce, DInv, TypeOK
<1>3. init[Calls[next]] = KO!KOBJ_UNINITIALIZED
    BY <1>2 DEF DInv, CallsState, CallDone
<1>4. /\ init' = [init EXCEPT ![Calls[next]] = KO!KOBJ_INITING]
      /\ ipc' = [ipc EXCEPT ![Main] = "wrap"]
      /\ cur' = [cur EXCEPT ![Main] = Calls[next]]
      /\ UNCHANGED <<value, ret, minted, next, pvars>>
      /\ mpc' = "unwrap"
    BY <1>3 DEF MainInitOnce, KO!CompareExchangeOk, KO!CompareExchangeErr
<1>5. TypeOK'
    BY <1>1, <1>2, <1>4 DEF DInv, TypeOK, KO!TypeOK, P!TypeOK
<1>6. CallsState'
    <2> SUFFICES ASSUME NEW k \in 1 .. Len(Calls)
                 PROVE  init'[Calls[k]] =
                           IF CallDone(k)' THEN KO!KOBJ_INITIALIZED
                           ELSE IF k = next' /\ mpc' = "unwrap" THEN KO!KOBJ_INITING
                           ELSE KO!KOBJ_UNINITIALIZED
        BY DEF CallsState
    <2>1. CallDone(k)' <=> k < next
        BY <1>4 DEF CallDone, DInv, TypeOK, KO!TypeOK
    <2>2. CASE k = next
        BY <1>1, <1>2, <1>4, <2>1, <2>2 DEF DInv, TypeOK, KO!TypeOK
    <2>3. CASE k /= next
        <3>1. Calls[k] /= Calls[next] /\ Calls[k] \in Statics
            BY <1>1, <1>2, <2>3, CallsInjective
        <3>2. init'[Calls[k]] = init[Calls[k]]
            BY <1>4, <3>1 DEF DInv, TypeOK, KO!TypeOK
        <3>. QED
            BY <1>2, <1>4, <2>1, <2>3, <3>2 DEF DInv, CallsState, CallDone
    <2>. QED
        BY <2>2, <2>3
<1>. QED
    BY <1>2, <1>4, <1>5, <1>6 DEF DInv, TypeOK, KO!TypeOK

\* get_wrapped and the store of main's call: the store publishes exactly the
\* static main is working on, and the call returns Some.
LEMMA MainFinishDInv ==
    ASSUME DInv, MainFinish PROVE DInv'
<1> USE NumPhilAssumption DEF Phils, P!Phils, P!ForkIds, kvars, mvars, pvars,
        KO!KOBJ_UNINITIALIZED, KO!KOBJ_INITING, KO!KOBJ_INITIALIZED
<1>1. Calls \in Seq(Statics) /\ Len(Calls) = 3 * NUM_PHIL
    BY CallsAt
<1>2. UNCHANGED <<mvars, pvars>>
    BY DEF MainFinish
<1>3. CASE KO!GetWrapped(Main)
    <2>1. /\ ipc[Main] = "wrap" /\ mpc = "unwrap" /\ cur[Main] = Calls[next]
          /\ next \in 1 .. Len(Calls)
        BY <1>3 DEF KO!GetWrapped, DInv, TypeOK
    <2>2. /\ value' = [value EXCEPT ![Calls[next]] = @ + 1]
          /\ ipc' = [ipc EXCEPT ![Main] = "store"]
          /\ UNCHANGED <<init, cur, ret, minted>>
        BY <1>3, <2>1 DEF KO!GetWrapped
    <2>3. TypeOK'
        BY <1>1, <1>2, <2>1, <2>2 DEF DInv, TypeOK, KO!TypeOK, P!TypeOK
    <2>4. CallsState'
        BY <1>2, <2>1, <2>2 DEF DInv, CallsState, CallDone
    <2>. QED
        BY <1>2, <2>1, <2>2, <2>3, <2>4 DEF DInv
<1>4. CASE KO!StoreInitialized(Main)
    <2>1. /\ ipc[Main] = "store" /\ mpc = "unwrap" /\ cur[Main] = Calls[next]
          /\ next \in 1 .. Len(Calls)
        BY <1>4 DEF KO!StoreInitialized, DInv, TypeOK
    <2>2. /\ init' = [init EXCEPT ![Calls[next]] = KO!KOBJ_INITIALIZED]
          /\ minted' = [minted EXCEPT ![Calls[next]] = @ \cup {Main}]
          /\ ret' = [ret EXCEPT ![Main] = KO!Some]
          /\ ipc' = [ipc EXCEPT ![Main] = "idle"]
          /\ cur' = [cur EXCEPT ![Main] = NoStatic]
          /\ UNCHANGED value
        BY <1>4, <2>1 DEF KO!StoreInitialized
    <2>3. TypeOK'
        BY <1>1, <1>2, <2>1, <2>2 DEF DInv, TypeOK, KO!TypeOK, KO!Some, KO!None, KO!NoResult, P!TypeOK
    <2>4. CallsState'
        <3> SUFFICES ASSUME NEW k \in 1 .. Len(Calls)
                     PROVE  init'[Calls[k]] =
                               IF CallDone(k)' THEN KO!KOBJ_INITIALIZED
                               ELSE IF k = next' /\ mpc' = "unwrap" THEN KO!KOBJ_INITING
                               ELSE KO!KOBJ_UNINITIALIZED
            BY DEF CallsState
        <3>1. CallDone(k)' <=> k <= next
            BY <1>2, <2>1, <2>2 DEF CallDone, DInv, TypeOK, KO!TypeOK
        <3>2. CASE k = next
            BY <1>1, <1>2, <2>1, <2>2, <3>1, <3>2 DEF DInv, TypeOK, KO!TypeOK
        <3>3. CASE k /= next
            <4>1. Calls[k] /= Calls[next] /\ Calls[k] \in Statics
                BY <1>1, <2>1, <3>3, CallsInjective
            <4>2. init'[Calls[k]] = init[Calls[k]]
                BY <2>2, <4>1 DEF DInv, TypeOK, KO!TypeOK
            <4>. QED
                BY <1>2, <2>1, <3>1, <3>3, <4>2 DEF DInv, CallsState, CallDone
        <3>. QED
            BY <3>2, <3>3
    <2>. QED
        BY <1>2, <2>1, <2>2, <2>3, <2>4 DEF DInv, TypeOK, KO!TypeOK
<1>. QED
    BY <1>3, <1>4 DEF MainFinish, KO!Finish


\* The unwrap after a call: the call returned Some, so main goes on to the
\* next call, or to the spawn loop after the last one.
LEMMA MainUnwrapDInv ==
    ASSUME DInv, MainUnwrap PROVE DInv'
<1> USE NumPhilAssumption DEF Phils, P!Phils, P!ForkIds, kvars, mvars, pvars,
        KO!KOBJ_UNINITIALIZED, KO!KOBJ_INITING, KO!KOBJ_INITIALIZED
<1>1. Calls \in Seq(Statics) /\ Len(Calls) = 3 * NUM_PHIL
    BY CallsAt
<1>2. /\ mpc = "unwrap" /\ ipc[Main] = "idle" /\ ret[Main] = KO!Some
      /\ next \in 1 .. Len(Calls)
      /\ UNCHANGED <<kvars, pvars>>
    BY DEF MainUnwrap, DInv, TypeOK
<1>3. /\ next' = IF next < Len(Calls) THEN next + 1 ELSE next
      /\ mpc' = IF next < Len(Calls) THEN "call" ELSE "spawning"
    BY <1>2 DEF MainUnwrap
<1>4. \A k \in 1 .. Len(Calls) : CallDone(k) <=> k <= next
    BY <1>2 DEF CallDone
<1>5. \A k \in 1 .. Len(Calls) : CallDone(k)' <=> k <= next
    BY <1>2, <1>3 DEF CallDone
<1>6. CallsState'
    BY <1>2, <1>3, <1>4, <1>5 DEF DInv, CallsState
<1>7. TypeOK'
    BY <1>1, <1>2, <1>3 DEF DInv, TypeOK, KO!TypeOK, P!TypeOK
<1>. QED
    BY <1>2, <1>3, <1>6, <1>7 DEF DInv

\* A spawn happens only in the spawn loop, after every call.
LEMMA SpawnDInv ==
    ASSUME DInv, Spawn PROVE DInv'
<1> USE NumPhilAssumption DEF Phils, P!Phils, P!ForkIds, kvars, mvars, pvars
<1>1. /\ mpc = "spawning" /\ UNCHANGED <<kvars, mvars>>
      /\ spawned < NUM_PHIL /\ pc' = [pc EXCEPT ![spawned] = "hungry"]
      /\ spawned' = spawned + 1 /\ UNCHANGED sem
    BY DEF Spawn, P!Spawn
<1>2. TypeOK'
    BY <1>1 DEF DInv, TypeOK, KO!TypeOK, P!TypeOK, P!PcValues
<1>3. CallsState'
    BY <1>1 DEF DInv, CallsState, CallDone
<1>. QED
    BY <1>1, <1>2, <1>3 DEF DInv

\* A philosopher steps only once spawned, so only in the spawn loop.
LEMMA PhilDInv ==
    ASSUME DInv, NEW n \in Phils, Phil(n) PROVE DInv'
<1> USE DEF kvars, mvars, pvars
<1>1. P!TypeOK' /\ pc[n] /= "unspawned" /\ UNCHANGED <<kvars, mvars>>
    BY PhilType DEF Phil, DInv, TypeOK
<1>2. mpc = "spawning"
    BY <1>1 DEF DInv
<1>3. TypeOK' /\ CallsState'
    BY <1>1 DEF DInv, TypeOK, KO!TypeOK, CallsState, CallDone
<1>. QED
    BY <1>1, <1>2, <1>3 DEF DInv

LEMMA NextDInv == DInv /\ [Next]_vars => DInv'
<1> SUFFICES ASSUME DInv, [Next]_vars PROVE DInv'
    OBVIOUS
<1>1. CASE MainStep
    BY <1>1, MainInitOnceDInv, MainFinishDInv, MainUnwrapDInv, SpawnDInv DEF MainStep
<1>2. CASE \E n \in Phils : Phil(n)
    BY <1>2, PhilDInv
<1>3. CASE UNCHANGED vars
    BY <1>3 DEF vars, kvars, mvars, pvars, DInv, TypeOK, KO!TypeOK, P!TypeOK,
       CallsState, CallDone
<1>. QED
    BY <1>1, <1>2, <1>3 DEF Next

-----------------------------------------------------------------------------
(* Theorems.                                                               *)

\* rust_main, init_once and the philosophers keep their variables in their
\* types for every NUM_PHIL >= 2.
THEOREM DiningTypeCorrect == Spec => []TypeOK
<1>1. DInv => TypeOK
    BY DEF DInv
<1>. QED
    BY InitDInv, NextDInv, <1>1, PTL DEF Spec

\* No .unwrap() of rust_main ever panics: each of its init_once calls is
\* the first on its static, so it wins the CAS and returns Some, whatever
\* the philosophers spawned so far do meanwhile.
THEOREM NoUnwrapPanicHolds == Spec => []NoUnwrapPanic
<1>1. DInv => NoUnwrapPanic
    BY DEF DInv, NoUnwrapPanic
<1>. QED
    BY InitDInv, NextDInv, <1>1, PTL DEF Spec

=============================================================================
