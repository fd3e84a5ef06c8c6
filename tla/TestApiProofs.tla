---------------------------- MODULE TestApiProofs ----------------------------
(***************************************************************************)
(* Proofs about the static-handle API of adf4377_test_api.c, for every    *)
(* set of buses and every bound on the number of inits.                   *)
(***************************************************************************)
EXTENDS TestApi, SequenceTheorems, TLAPS

\* An init keeps the state well typed, and the handle it stores (a new one
\* on success, the old one on failure) holds its bus.
LEMMA InitStep ==
  ASSUME TypeOK, DevLive, NEW b \in Bus, adf4377_test_init(b)
  PROVE  TypeOK' /\ DevLive'
<1>1. CASE /\ busOf' = Append(busOf, b)
           /\ dev' = Len(busOf) + 1
           /\ bound' = bound \cup {Len(busOf) + 1}
           /\ ret' = 0
  <2>1. busOf' \in Seq(Bus) /\ Len(busOf') = Len(busOf) + 1
    BY <1>1, AppendProperties DEF TypeOK
  <2>2. Len(busOf) < MaxInits
    BY DEF adf4377_test_init
  <2>4. call' = "init"
    BY DEF adf4377_test_init
  <2>5. Len(busOf') <= MaxInits
    BY <2>1, <2>2, MaxInitsAssumption DEF TypeOK
  <2>6. dev' \in 1 .. Len(busOf') /\ dev' \in bound'
    BY <1>1, <2>1 DEF TypeOK
  <2>7. bound' \subseteq 1 .. Len(busOf')
    <3>1. Len(busOf) \in Nat /\ bound \subseteq 1 .. Len(busOf)
      BY LenProperties DEF TypeOK, Handle
    <3>2. bound' = bound \cup {Len(busOf) + 1}
      BY <1>1
    <3>3. Len(busOf') = Len(busOf) + 1
      BY <2>1
    <3>4. 1 .. Len(busOf) \subseteq 1 .. Len(busOf')
          /\ Len(busOf) + 1 \in 1 .. Len(busOf')
      BY <3>1, <3>3
    <3>. QED
      BY <3>1, <3>2, <3>4, Zenon
  <2>8. ret' \in {0, EINVAL, ETRANSPORT} /\ call' \in Calls
    BY <1>1, <2>4 DEF Calls
  <2>. QED
    BY <2>1, <2>5, <2>6, <2>7, <2>8 DEF TypeOK, Handle, DevLive
<1>2. CASE /\ ret' \in {ETRANSPORT, EINVAL}
           /\ UNCHANGED << dev, busOf, bound >>
  <2>1. Handle' = Handle /\ call' = "init"
    BY <1>2 DEF Handle, adf4377_test_init
  <2>2. TypeOK'
    BY <1>2, <2>1 DEF TypeOK, Calls
  <2>. QED
    BY <1>2, <2>2 DEF DevLive
<1>. QED
  BY <1>1, <1>2 DEF adf4377_test_init

\* A remove leaves the static handle NULL and shrinks the bound set.
LEMMA RemoveStep ==
  ASSUME TypeOK, adf4377_test_remove
  PROVE  TypeOK' /\ dev' = NULL
<1>1. dev' = NULL /\ bound' \subseteq bound /\ busOf' = busOf
      /\ ret' \in {0, ETRANSPORT} /\ call' = "remove"
  BY DEF adf4377_test_remove, TypeOK, NULL
<1>. QED
  BY <1>1 DEF TypeOK, Handle, Calls, NULL

LEMMA TypeInit == Init => TypeOK
BY EmptySeq, MaxInitsAssumption DEF Init, TypeOK, Handle, Calls, NULL

IInv == TypeOK /\ DevLive

\* IInv holds initially: no handle, nothing bound.
LEMMA IInvInit == Init => IInv
BY TypeInit DEF Init, IInv, DevLive

\* Every API call, succeeding or failing, preserves IInv.
LEMMA IInvStep == IInv /\ [Next]_vars => IInv'
<1> SUFFICES ASSUME TypeOK, DevLive, [Next]_vars PROVE TypeOK' /\ DevLive'
  BY DEF IInv
<1>1. CASE \E b \in Bus : adf4377_test_init(b)
  BY <1>1, InitStep
<1>2. CASE Access
  BY <1>2 DEF Access, TypeOK, Handle, Calls, EINVAL, ETRANSPORT, DevLive
<1>3. CASE adf4377_test_remove
  BY <1>3, RemoveStep DEF DevLive
<1>4. CASE UNCHANGED vars
  BY <1>4 DEF vars, TypeOK, Handle, DevLive
<1>. QED
  BY <1>1, <1>2, <1>3, <1>4 DEF Next

(* Every reachable state of the API is well typed: the static handle is  *)
(* NULL or a handle some successful adf4377_init returned, and every API *)
(* function returns 0, -EINVAL or a transport error.                      *)
THEOREM TypeCorrect == Spec => []TypeOK
BY IInvInit, IInvStep, PTL DEF Spec, IInv

(* Whatever the sequence of init, accessor and remove calls, and whichever *)
(* of them fail, adf4377_dev is NULL or a device that still holds its bus: *)
(* the accessors' NULL check is enough to keep them off a freed device.   *)
(* DevLive is inductive by itself: a successful init binds the handle it *)
(* stores, a failed one keeps the old handle, and remove clears it before *)
(* anything else can use it.  It is proved with TypeOK only to share the *)
(* induction.                                                             *)
THEOREM HandleNeverDangles == Spec => []DevLive
BY IInvInit, IInvStep, PTL DEF Spec, IInv
=============================================================================
