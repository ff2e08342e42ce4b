--------------------------- MODULE KObjectProofs ---------------------------
(***************************************************************************)
(* Proofs that init_once is exactly-once and publishes a constructed cell, *)
(* for any sets of slots and of callers.                                   *)
(*                                                                         *)
(* ExactlyOnce is not inductive: a step of a caller in the middle of       *)
(* init_once preserves it only if no other caller is in the middle of the  *)
(* same slot.  IInv ties, per slot, the state word to the callers working  *)
(* on it, to the construction count and to the handles handed out:         *)
(*   - a caller inside init_once on s only exists while s is INITING, and  *)
(*     there is at most one;                                               *)
(*   - the cell has been built once exactly when s is INITIALIZED or its   *)
(*     caller has passed get_wrapped;                                      *)
(*   - handles exist only for INITIALIZED slots, at most one per slot, and *)
(*     an INITIALIZED slot has one.                                        *)
(***************************************************************************)
EXTENDS KObject, TLAPS

IInv ==
    /\ TypeOK
    /\ \A c \in Callers : pc[c] /= "idle" => cur[c] \in Slots
    /\ \A s \in Slots :
        /\ \A c \in Callers : Busy(c, s) => init[s] = KOBJ_INITING
        /\ \A c1, c2 \in Callers : Busy(c1, s) /\ Busy(c2, s) => c1 = c2
        /\ value[s] = IF \/ init[s] = KOBJ_INITIALIZED
                         \/ \E c \in Callers : Busy(c, s) /\ pc[c] = "store"
                      THEN 1 ELSE 0
        /\ init[s] /= KOBJ_INITIALIZED => minted[s] = {}
        /\ init[s] = KOBJ_INITIALIZED => minted[s] /= {}
        /\ \A c1, c2 \in minted[s] : c1 = c2

-----------------------------------------------------------------------------

LEMMA InitIInv == Init => IInv
BY NoSlotAssumption DEF Init, IInv, TypeOK, Busy, ZEROED,
   KOBJ_UNINITIALIZED, KOBJ_INITING, KOBJ_INITIALIZED, NoResult, None, Some

LEMMA NextIInv == IInv /\ [Next]_vars => IInv'
<1> SUFFICES ASSUME IInv, [Next]_vars PROVE IInv'
    OBVIOUS
<1> USE DEF IInv, TypeOK, Busy,
            KOBJ_UNINITIALIZED, KOBJ_INITING, KOBJ_INITIALIZED,
            NoResult, None, Some
<1>1. ASSUME NEW c \in Callers, NEW s \in Slots, CompareExchangeOk(c, s)
      PROVE IInv'
    BY <1>1 DEF CompareExchangeOk
<1>2. ASSUME NEW c \in Callers, NEW s \in Slots, CompareExchangeErr(c, s)
      PROVE IInv'
    BY <1>2 DEF CompareExchangeErr
<1>3. ASSUME NEW c \in Callers, GetWrapped(c)
      PROVE IInv'
    BY <1>3 DEF GetWrapped
<1>4. ASSUME NEW c \in Callers, StoreInitialized(c)
      PROVE IInv'
    BY <1>4 DEF StoreInitialized
<1>5. CASE UNCHANGED vars
    BY <1>5 DEF vars
<1>6. QED
    BY <1>1, <1>2, <1>3, <1>4, <1>5 DEF Next, Finish

LEMMA IInvImpliesProperties == IInv => TypeOK /\ ExactlyOnce /\ Publication
BY DEF IInv, TypeOK, ExactlyOnce, Publication, Busy,
   KOBJ_UNINITIALIZED, KOBJ_INITING, KOBJ_INITIALIZED

\* Type correctness of init_once for every set of slots and callers.
THEOREM TypeCorrect == Spec => []TypeOK
BY InitIInv, NextIInv, IInvImpliesProperties, PTL DEF Spec

\* Whatever the number of threads racing init_once, no slot ever hands out
\* two handles nor is built twice (StaticKernelObject::init_once).
THEOREM ExactlyOnceHolds == Spec => []ExactlyOnce
BY InitIInv, NextIInv, IInvImpliesProperties, PTL DEF Spec

\* No thread ever sees a slot INITIALIZED whose cell get_wrapped has not
\* built (the order of get_wrapped and the Release store in init_once).
THEOREM PublicationHolds == Spec => []Publication
BY InitIInv, NextIInv, IInvImpliesProperties, PTL DEF Spec


\* Every step moves the state words forward and leaves INITIALIZED slots
\* alone: the one slot a step writes is, by IInv, UNINITIALIZED for the
\* CAS and INITING, with its builder inside init_once, for the other two.
LEMMA NextForward == IInv /\ [Next]_vars => [ForwardStep]_vars
<1> SUFFICES ASSUME IInv, [Next]_vars PROVE [ForwardStep]_vars
    OBVIOUS
<1> USE DEF IInv, TypeOK, ForwardStep,
            KOBJ_UNINITIALIZED, KOBJ_INITING, KOBJ_INITIALIZED
<1>1. ASSUME NEW c \in Callers, NEW s \in Slots, CompareExchangeOk(c, s)
      PROVE  ForwardStep
    BY <1>1 DEF CompareExchangeOk
<1>2. ASSUME NEW c \in Callers, NEW s \in Slots, CompareExchangeErr(c, s)
      PROVE  ForwardStep
    BY <1>2 DEF CompareExchangeErr
<1>3. ASSUME NEW c \in Callers, GetWrapped(c)
      PROVE  ForwardStep
    <2>1. cur[c] \in Slots /\ init[cur[c]] = KOBJ_INITING
        BY <1>3 DEF GetWrapped, Busy
    <2>. QED
        BY <1>3, <2>1 DEF GetWrapped
<1>4. ASSUME NEW c \in Callers, StoreInitialized(c)
      PROVE  ForwardStep
    <2>1. cur[c] \in Slots /\ init[cur[c]] = KOBJ_INITING
        BY <1>4 DEF StoreInitialized, Busy
    <2>. QED
        BY <1>4, <2>1 DEF StoreInitialized
<1>5. CASE UNCHANGED vars
    BY <1>5 DEF vars
<1>. QED
    BY <1>1, <1>2, <1>3, <1>4, <1>5 DEF Next, Finish

\* The state word of every static only moves forward and an INITIALIZED
\* static is never rebuilt nor handed out again, for any number of slots and
\* callers (the CAS gate and the single store of init_once).
THEOREM StateForwardHolds == Spec => StateForward
BY InitIInv, NextIInv, NextForward, PTL DEF Spec, StateForward

=============================================================================
