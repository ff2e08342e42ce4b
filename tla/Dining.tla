------------------------------- MODULE Dining -------------------------------
(***************************************************************************)
(* The whole sample: rust_main's start-up composed with init_once and the  *)
(* philosopher threads.                                                    *)
(*                                                                         *)
(* rust_main (lib.rs 58-88) first calls get_syncer, whose semaphore_sync   *)
(* gets one semaphore per fork from a static through init_once (semsync is *)
(* not among the sources: modelled from spec 4.3, "obtained via 4.1/4.2"). *)
(* Then it builds the threads array, unrolled by hand: for each i,         *)
(* PHIL_THREAD_i.init_once(PHIL_STACK_i.init_once(()).unwrap()).unwrap(), *)
(* the stack first because it is the argument.  Every call is the steps of *)
(* KObject for the caller "main", and every unwrap panics on None.  Then   *)
(* the spawn loop starts the threads, which run Philosophers' loop while   *)
(* main is still spawning the rest.                                        *)
(***************************************************************************)
EXTENDS Naturals, Sequences

CONSTANT NUM_PHIL

ASSUME NumPhilAssumption == NUM_PHIL \in Nat /\ NUM_PHIL >= 2

VARIABLES
    init, value, ipc, cur, ret, minted,  \* the statics and main in init_once
    mpc,       \* where main is in rust_main
    next,      \* the index in Calls of main's current init_once call
    pc, sem, spawned                     \* the philosophers

kvars == <<init, value, ipc, cur, ret, minted>>
mvars == <<mpc, next>>
pvars == <<pc, sem, spawned>>
vars == <<kvars, mvars, pvars>>

P == INSTANCE Philosophers

Phils == P!Phils

\* The statics of the sample: the fork semaphores of semsync and the
\* kobj_define! of lib.rs 141-155 (PHIL_THREAD_i and PHIL_STACK_i are
\* numbered from 1, philosopher i - 1 gets them).
Sem(f) == <<"SEM", f>>
Stack(n) == <<"STACK", n>>
Thread(n) == <<"THREAD", n>>
Statics == {Sem(f) : f \in P!ForkIds} \cup {Stack(n) : n \in Phils}
               \cup {Thread(n) : n \in Phils}

Main == "main"
NoStatic == <<"NONE", 0>>

KO == INSTANCE KObject
        WITH Slots <- Statics, Callers <- {Main}, NoSlot <- NoStatic, pc <- ipc

\* get_syncer: one init_once per fork semaphore, in index order.
SyncerCalls == [k \in 1 .. NUM_PHIL |-> Sem(k - 1)]

\* Mutant: a copy-paste slip in the unrolled array, the second thread is
\* given PHIL_STACK_1 again.
CallsCopyPaste ==
    SyncerCalls \o
    [k \in 1 .. 2 * NUM_PHIL |->
        IF k % 2 = 1 THEN Stack(IF k = 3 THEN 0 ELSE (k - 1) \div 2)
                     ELSE Thread((k - 2) \div 2)]

\* The hand-unrolled threads array: PHIL_STACK_i before PHIL_THREAD_i,
\* since the stack is the argument of the thread's init_once.
ArrayCalls ==
    [k \in 1 .. 2 * NUM_PHIL |->
        IF k % 2 = 1 THEN Stack((k - 1) \div 2) ELSE Thread((k - 2) \div 2)]

\* The init_once calls of rust_main in program order: get_syncer, then
\* the threads array.
Calls == SyncerCalls \o ArrayCalls

TypeOK ==
    /\ KO!TypeOK
    /\ mpc \in {"call", "unwrap", "spawning", "panicked"}
    /\ next \in 1 .. Len(Calls)
    /\ P!TypeOK

Init ==
    /\ KO!Init
    /\ mpc = "call"
    /\ next = 1
    /\ P!Init

\* main enters init_once on the next static of Calls: the CAS.
MainInitOnce ==
    /\ mpc = "call"
    /\ \/ KO!CompareExchangeOk(Main, Calls[next])
       \/ KO!CompareExchangeErr(Main, Calls[next])
    /\ mpc' = "unwrap"
    /\ UNCHANGED <<next, pvars>>

\* main inside init_once after winning the CAS: get_wrapped, then the store.
MainFinish ==
    /\ KO!Finish(Main)
    /\ UNCHANGED <<mvars, pvars>>

\* .unwrap() on what init_once returned: a None panics rust_main.
MainUnwrap ==
    /\ mpc = "unwrap"
    /\ ipc[Main] = "idle"
    /\ IF ret[Main] = KO!Some
       THEN /\ next' = IF next < Len(Calls) THEN next + 1 ELSE next
            /\ mpc' = IF next < Len(Calls) THEN "call" ELSE "spawning"
       ELSE /\ mpc' = "panicked"
            /\ UNCHANGED next
    /\ UNCHANGED <<kvars, pvars>>

\* Mutant: the spawn loop starts at 1 and never spawns philosopher 0.
SpawnSkipFirst ==
    /\ mpc = "spawning"
    /\ spawned < NUM_PHIL
    /\ pc' = [pc EXCEPT ![spawned] = IF spawned = 0 THEN "unspawned" ELSE "hungry"]
    /\ spawned' = spawned + 1
    /\ UNCHANGED <<sem, kvars, mvars>>

\* Mutant: the spawn loop runs over 0..=NUM_PHIL.
SpawnOffByOne == mpc = "spawning" /\ P!SpawnOffByOne /\ UNCHANGED <<kvars, mvars>>

\* threads[i].spawn(...) of the spawn loop, once the array is built.
Spawn == mpc = "spawning" /\ P!Spawn /\ UNCHANGED <<kvars, mvars>>

Phil(n) == P!Phil(n) /\ UNCHANGED <<kvars, mvars>>

MainStep == MainInitOnce \/ MainFinish \/ MainUnwrap \/ Spawn

Next == MainStep \/ \E n \in Phils : Phil(n)

\* main never blocks during start-up; the philosophers as in Philosophers.
Fairness == WF_vars(MainStep) /\ \A n \in Phils : WF_vars(Phil(n))

Spec == Init /\ [][Next]_vars
FairSpec == Spec /\ Fairness

-----------------------------------------------------------------------------
(* Properties.                                                             *)

\* No unwrap panics (lib.rs 69-74, spec 4.1 "one call site per static"):
\* every init_once of rust_main is the first call on its static, so it
\* returns Some, and the hand-unrolled array names each static once.
NoUnwrapPanic == mpc /= "panicked"

\* Start-up completes: main gets through all its init_once calls and
\* spawns every philosopher, however the early threads interleave with it.
StartupCompletes == <>(\A n \in Phils : pc[n] /= "unspawned")

=============================================================================
