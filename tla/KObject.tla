------------------------------ MODULE KObject ------------------------------
(***************************************************************************)
(* The one-shot initialisation of a static kernel object                   *)
(* (zephyr/src/object.rs, StaticKernelObject::init_once).                  *)
(*                                                                         *)
(* Every slot pairs the zero-filled kernel-object cell `value` with the    *)
(* atomic state word `init`.  Any number of callers may call init_once on  *)
(* any slot, any number of times, concurrently.  A call is three atomic    *)
(* steps of the calling thread:                                            *)
(*   1. compare_exchange(UNINITIALIZED, INITING) on the state word; on     *)
(*      failure the call returns None at once;                            *)
(*   2. get_wrapped(args): the kind-specific construction of the cell;     *)
(*   3. store(INITIALIZED) and return Some(wrapped).                       *)
(* The atomics are AcqRel/Acquire/Release, so the model treats each as a   *)
(* sequentially consistent step; get_wrapped writes only the cell of the   *)
(* slot whose CAS the caller won.                                          *)
(***************************************************************************)
EXTENDS Naturals

CONSTANTS
    Slots,      \* the static kernel objects declared with kobj_define!
    Callers,    \* the threads that call init_once
    NoSlot      \* the slot of a caller that is not inside init_once

ASSUME NoSlotAssumption == NoSlot \notin Slots

\* The values of the state word (object.rs, KOBJ_* constants).
KOBJ_UNINITIALIZED == 0
KOBJ_INITING == 1
KOBJ_INITIALIZED == 2

\* The cell as kobj_define! leaves a semaphore or thread static: the arms of
\* _kobj_rule emit unsafe { mem::zeroed() }, an object constructed zero
\* times (stacks go through _kobj_stack and are not this value).
ZEROED == 0

\* What the last init_once call of a caller returned.
NoResult == "none_yet"
None == "None"
Some == "Some"

VARIABLES
    init,     \* init[s]: the AtomicUsize state word of slot s
    value,    \* value[s]: how many times the cell of s has been constructed
              \* (0 is the zero-filled memory the loader leaves there)
    pc,       \* pc[c]: where caller c is in init_once
    cur,      \* cur[c]: the slot caller c is initialising
    ret,      \* ret[c]: what c's last init_once call returned
    minted    \* minted[s]: the callers that got Some(wrapped) for s

vars == <<init, value, pc, cur, ret, minted>>

TypeOK ==
    /\ init \in [Slots -> {KOBJ_UNINITIALIZED, KOBJ_INITING, KOBJ_INITIALIZED}]
    /\ value \in [Slots -> Nat]
    /\ pc \in [Callers -> {"idle", "wrap", "store"}]
    /\ cur \in [Callers -> Slots \cup {NoSlot}]
    /\ ret \in [Callers -> {NoResult, None, Some}]
    /\ minted \in [Slots -> SUBSET Callers]

\* StaticKernelObject::new and kobj_define!: zero-filled memory, state 0.
Init ==
    /\ init = [s \in Slots |-> KOBJ_UNINITIALIZED]
    /\ value = [s \in Slots |-> ZEROED]
    /\ pc = [c \in Callers |-> "idle"]
    /\ cur = [c \in Callers |-> NoSlot]
    /\ ret = [c \in Callers |-> NoResult]
    /\ minted = [s \in Slots |-> {}]

\* Mutant: the CAS only refuses a finished object, so two racing callers
\* can both pass it while the first is still INITING.
CompareExchangeOkIgnoresIniting(c, s) ==
    /\ pc[c] = "idle"
    /\ init[s] /= KOBJ_INITIALIZED
    /\ init' = [init EXCEPT ![s] = KOBJ_INITING]
    /\ pc' = [pc EXCEPT ![c] = "wrap"]
    /\ cur' = [cur EXCEPT ![c] = s]
    /\ UNCHANGED <<value, ret, minted>>

\* Mutant: the CAS installs KOBJ_INITIALIZED instead of KOBJ_INITING.
CompareExchangeOkToInitialized(c, s) ==
    /\ pc[c] = "idle"
    /\ init[s] = KOBJ_UNINITIALIZED
    /\ init' = [init EXCEPT ![s] = KOBJ_INITIALIZED]
    /\ pc' = [pc EXCEPT ![c] = "wrap"]
    /\ cur' = [cur EXCEPT ![c] = s]
    /\ UNCHANGED <<value, ret, minted>>

\* The compare_exchange succeeds: c now has the exclusive right to build s.
CompareExchangeOk(c, s) ==
    /\ pc[c] = "idle"
    /\ init[s] = KOBJ_UNINITIALIZED
    /\ init' = [init EXCEPT ![s] = KOBJ_INITING]
    /\ pc' = [pc EXCEPT ![c] = "wrap"]
    /\ cur' = [cur EXCEPT ![c] = s]
    /\ UNCHANGED <<value, ret, minted>>

\* Mutant: a failed attempt still bumps the state word, as an
\* implementation built on fetch_add would.
CompareExchangeErrBumps(c, s) ==
    /\ pc[c] = "idle"
    /\ init[s] /= KOBJ_UNINITIALIZED
    /\ init' = [init EXCEPT ![s] = @ + 1]
    /\ ret' = [ret EXCEPT ![c] = None]
    /\ UNCHANGED <<value, pc, cur, minted>>

\* Mutant: the gate is a swap(KOBJ_INITING) whose old value is checked
\* afterwards, so a failed call still writes INITING over the word.
CompareExchangeErrSwaps(c, s) ==
    /\ pc[c] = "idle"
    /\ init[s] /= KOBJ_UNINITIALIZED
    /\ init' = [init EXCEPT ![s] = KOBJ_INITING]
    /\ ret' = [ret EXCEPT ![c] = None]
    /\ UNCHANGED <<value, pc, cur, minted>>

\* The compare_exchange fails (INITING or INITIALIZED): return None.
CompareExchangeErr(c, s) ==
    /\ pc[c] = "idle"
    /\ init[s] /= KOBJ_UNINITIALIZED
    /\ ret' = [ret EXCEPT ![c] = None]
    /\ UNCHANGED <<init, value, pc, cur, minted>>

\* Mutant: the winner returns right after get_wrapped, never storing
\* KOBJ_INITIALIZED.
GetWrappedNoStore(c) ==
    /\ pc[c] = "wrap"
    /\ value' = [value EXCEPT ![cur[c]] = @ + 1]
    /\ pc' = [pc EXCEPT ![c] = "idle"]
    /\ cur' = [cur EXCEPT ![c] = NoSlot]
    /\ ret' = [ret EXCEPT ![c] = Some]
    /\ UNCHANGED <<init, minted>>

\* self.get_wrapped(args): the kernel-specific setup of the cell.
GetWrapped(c) ==
    /\ pc[c] = "wrap"
    /\ value' = [value EXCEPT ![cur[c]] = @ + 1]
    /\ pc' = [pc EXCEPT ![c] = "store"]
    /\ UNCHANGED <<init, cur, ret, minted>>

\* store(KOBJ_INITIALIZED, Release) and return Some(result).
StoreInitialized(c) ==
    /\ pc[c] = "store"
    /\ init' = [init EXCEPT ![cur[c]] = KOBJ_INITIALIZED]
    /\ minted' = [minted EXCEPT ![cur[c]] = @ \cup {c}]
    /\ ret' = [ret EXCEPT ![c] = Some]
    /\ pc' = [pc EXCEPT ![c] = "idle"]
    /\ cur' = [cur EXCEPT ![c] = NoSlot]
    /\ UNCHANGED value

\* The steps c takes once it has won the CAS.
Finish(c) == GetWrapped(c) \/ StoreInitialized(c)

Next ==
    \E c \in Callers :
        \/ \E s \in Slots : CompareExchangeOk(c, s) \/ CompareExchangeErr(c, s)
        \/ Finish(c)

\* A thread that won the CAS is not blocked by anything until it stores
\* INITIALIZED, so the scheduler eventually runs it.
Fairness == \A c \in Callers : WF_vars(Finish(c))

Spec == Init /\ [][Next]_vars
FairSpec == Spec /\ Fairness

-----------------------------------------------------------------------------
(* Properties.                                                             *)

\* A caller c is inside init_once working on slot s.
Busy(c, s) == pc[c] /= "idle" /\ cur[c] = s

\* Exactly-once (spec 4.1, 8): whatever the interleaving of callers, at most
\* one init_once call on a slot ever returns Some, and the cell is
\* constructed by get_wrapped at most once.
ExactlyOnce ==
    \A s \in Slots :
        /\ \A c1, c2 \in minted[s] : c1 = c2
        /\ value[s] <= 1

\* Publication (spec 4.1, 8 "Visibility"): a thread that reads the state
\* word as INITIALIZED finds a constructed cell, and the handle for it has
\* been handed out; no window shows INITIALIZED over zero-filled bytes.
Publication ==
    \A s \in Slots :
        init[s] = KOBJ_INITIALIZED => value[s] = 1 /\ minted[s] /= {}

\* One step on the statics: every state word stays or moves forward, and a
\* slot that is INITIALIZED keeps its cell and its handle as they are.
ForwardStep ==
    \A s \in Slots :
        /\ init'[s] >= init[s]
        /\ init[s] = KOBJ_INITIALIZED =>
              value'[s] = value[s] /\ minted'[s] = minted[s]

\* The state word never moves backwards and a published object is frozen
\* (init_once's CAS and its one store): no later init_once call, winning or
\* losing, reopens, rebuilds or re-mints a static that is INITIALIZED.
StateForward == [][ForwardStep]_vars

\* A slot never stays INITING: the CAS winner always completes the
\* initialisation (init_once never returns between the CAS and the store),
\* so later callers are not locked out of a never-built object.
InitCompletes ==
    \A s \in Slots : init[s] = KOBJ_INITING ~> init[s] = KOBJ_INITIALIZED

=============================================================================
