-------------------------- MODULE Adf4382TestProofs --------------------------
(***************************************************************************)
(* Proofs about Adf4382Test for every non-empty set of processes: the     *)
(* type invariant, and that a device handle is used only while it is live. *)
(***************************************************************************)
EXTENDS Adf4382Test, RegisterCodecProofs, TLAPS

\* The addresses and data bytes init and main() send.
LEMMA CodeConstants ==
  /\ {REG0000, SCRATCHPAD} \subseteq Addr
  /\ {RESET_CMD, WireCfg, ADF4382_SPI_SCRATCHPAD_TEST, TEST_VALUE} \subseteq Byte
  BY DEF REG0000, SCRATCHPAD, Addr, RESET_CMD, WireCfg, adf4382_ip, SPI_4W_CFG,
         ADF4382_SPI_SCRATCHPAD_TEST, TEST_VALUE, Byte

(***************************************************************************)
(* Type correctness                                                       *)
(***************************************************************************)
LEMMA TypeInit == Init => TypeOK
  BY DEF Init, TypeOK, ChipState, Byte, Labels, InitLabels, LifeStates

\* The exits: init's and main()'s error returns keep the ranges.
LEMMA FailType ==
  ASSUME TypeOK, NEW p \in Proc, NEW err \in {ETRANSPORT, EINVAL},
         InitFail(p, err) \/ MainFail(p, err)
  PROVE  /\ pc' \in [Proc -> Labels] /\ life' \in [Proc -> LifeStates]
         /\ ret' \in [Proc -> {0, ETRANSPORT, EINVAL, CHECK_FAILED}]
  BY DEF InitFail, MainFail, Goto, TypeOK, Labels, LifeStates

\* A write of init or main(), successful or failed.
LEMMA WriteType ==
  ASSUME TypeOK, NEW a \in Addr, NEW v \in Byte,
         chip' \in WriteResults(a, v) \cup {chip}
  PROVE  chip' \in ChipState
  BY ChipWriteType DEF WriteResults, TypeOK

LEMMA TypeStep == TypeOK /\ [Next]_vars => TypeOK'
  <1> SUFFICES ASSUME TypeOK, [Next]_vars PROVE TypeOK'
    OBVIOUS
  <1>1. ASSUME NEW p \in Proc, SpiInit(p) PROVE TypeOK'
    BY <1>1, FailType DEF SpiInit, Goto, TypeOK, Labels, InitLabels, LifeStates
  <1>2. ASSUME NEW p \in Proc, NEW l, NEW a \in Addr, NEW v \in Byte,
               NEW next \in Labels, InitWrite(p, l, a, v, next)
        PROVE  TypeOK'
    <2>1. chip' \in ChipState
      BY <1>2, WriteType DEF InitWrite
    <2>2. QED
      BY <1>2, <2>1, FailType DEF InitWrite, Goto, TypeOK
  <1>3. ASSUME NEW p \in Proc, SoftReset(p) \/ WireMode(p) \/ ScratchWrite(p)
        PROVE  TypeOK'
    BY <1>3, <1>2, CodeConstants
    DEF SoftReset, WireMode, ScratchWrite, Labels, InitLabels
  <1>4. ASSUME NEW p \in Proc, ScratchRead(p) PROVE TypeOK'
    BY <1>4, FailType DEF ScratchRead, Goto, TypeOK, Labels, MainLabels,
                          LifeStates
  <1>5. ASSUME NEW p \in Proc, ReadScratch(p) \/ VerifyScratch(p) PROVE TypeOK'
    <2>1. ChipRead(chip, SCRATCHPAD) \in Byte
      BY ChipReadType, CodeConstants DEF TypeOK
    <2>2. CASE ReadScratch(p)
      BY <2>1, <2>2, FailType DEF ReadScratch, Goto, TypeOK, Labels, MainLabels
    <2>3. CASE VerifyScratch(p)
      <3> DEFINE v == ChipRead(chip, SCRATCHPAD)
      <3>1. CASE /\ rb' = [rb EXCEPT ![p] = v]
                 /\ ret' = [ret EXCEPT ![p] = IF v = TEST_VALUE THEN @ ELSE CHECK_FAILED]
                 /\ mismatch' = [mismatch EXCEPT ![p] = v # TEST_VALUE]
                 /\ Goto(p, "rfout") /\ UNCHANGED life
        BY <2>1, <2>3, <3>1 DEF VerifyScratch, Goto, TypeOK, Labels, MainLabels,
                                CHECK_FAILED
      <3>2. CASE MainFail(p, ETRANSPORT) /\ UNCHANGED << rb, mismatch >>
        BY <2>3, <3>2, FailType DEF VerifyScratch, TypeOK, ETRANSPORT, EINVAL
      <3>3. QED
        BY <2>3, <3>1, <3>2 DEF VerifyScratch
    <2>4. QED
      BY <1>5, <2>2, <2>3
  <1>6. ASSUME NEW p \in Proc, WriteScratch(p) PROVE TypeOK'
    <2>1. chip' \in ChipState
      BY <1>6, WriteType, CodeConstants DEF WriteScratch
    <2>2. QED
      BY <1>6, <2>1, FailType DEF WriteScratch, Goto, TypeOK, Labels, MainLabels
  <1>7. ASSUME NEW p \in Proc, GetRfout(p) \/ GetRefClk(p) \/ Remove(p)
        PROVE  TypeOK'
    BY <1>7, FailType DEF GetRfout, GetRefClk, Remove, Goto, TypeOK, Labels,
                          MainLabels, LifeStates
  <1>8. CASE UNCHANGED vars
    BY <1>8 DEF vars, TypeOK
  <1>9. QED
    BY <1>1, <1>3, <1>4, <1>5, <1>6, <1>7, <1>8 DEF Next, Step

(* The type invariant: the chip, the program counters, the handles'      *)
(* lifecycle states, ret and read_back keep their ranges in every        *)
(* reachable state of any number of programs sharing the chip.           *)
THEOREM TypeCorrect == Spec => []TypeOK
  BY TypeInit, TypeStep, PTL DEF Spec

(***************************************************************************)
(* A device handle is used only while it is live                          *)
(***************************************************************************)
\* The program counters at which the next step transfers on the bus.
BusLabels == (InitLabels \ {"spi_init"}) \cup MainLabels

IInv == TypeOK /\ UsedOnlyWhileLive

\* The per-process form of UsedOnlyWhileLive.
LiveAt(q) ==
  /\ pc[q] \in BusLabels => life[q] \in Live
  /\ life[q] \in {"released", "removed"} => pc[q] = "done"

LEMMA LiveAtAll == UsedOnlyWhileLive <=> \A q \in Proc : LiveAt(q)
  BY DEF UsedOnlyWhileLive, LiveAt, BusLabels

\* A step of process p touches only p's pc and life.
LEMMA OthersKeepLive ==
  ASSUME TypeOK, NEW p \in Proc, NEW q \in Proc \ {p}, LiveAt(q),
         pc' = [pc EXCEPT ![p] = pc'[p]], life' = [life EXCEPT ![p] = life'[p]]
  PROVE  LiveAt(q)'
  BY DEF LiveAt, TypeOK

LEMMA IInvStep == IInv /\ [Next]_vars => IInv'
  <1> SUFFICES ASSUME IInv, [Next]_vars PROVE IInv'
    OBVIOUS
  <1>1. TypeOK'
    BY TypeStep DEF IInv
  <1>2. \A q \in Proc : LiveAt(q)
    BY LiveAtAll DEF IInv
  <1>3. ASSUME NEW p \in Proc, Step(p) PROVE LiveAt(p)'
    <2>1. LiveAt(p)
      BY <1>2
    <2>2. CASE SpiInit(p)
      BY <2>2 DEF SpiInit, InitFail, Goto, LiveAt, TypeOK, IInv, BusLabels,
                  InitLabels, MainLabels, Live
    <2>3. CASE SoftReset(p) \/ WireMode(p) \/ ScratchWrite(p)
      BY <2>1, <2>3 DEF SoftReset, WireMode, ScratchWrite, InitWrite, InitFail,
                        Goto, LiveAt, TypeOK, IInv, BusLabels, InitLabels,
                        MainLabels, Live
    <2>4. CASE ScratchRead(p)
      BY <2>1, <2>4 DEF ScratchRead, InitFail, Goto, LiveAt, TypeOK, IInv,
                        BusLabels, InitLabels, MainLabels, Live
    <2>5. CASE ReadScratch(p) \/ WriteScratch(p) \/ VerifyScratch(p)
               \/ GetRfout(p) \/ GetRefClk(p)
      BY <2>1, <2>5 DEF ReadScratch, WriteScratch, VerifyScratch, GetRfout,
                        GetRefClk, MainFail, Goto, LiveAt, TypeOK, IInv,
                        BusLabels, InitLabels, MainLabels, Live
    <2>6. CASE Remove(p)
      BY <2>1, <2>6 DEF Remove, Goto, LiveAt, TypeOK, IInv, BusLabels,
                        InitLabels, MainLabels
    <2>7. QED
      BY <1>3, <2>2, <2>3, <2>4, <2>5, <2>6 DEF Step
  <1>4. ASSUME NEW p \in Proc, Step(p)
        PROVE  pc' = [pc EXCEPT ![p] = pc'[p]] /\ life' = [life EXCEPT ![p] = life'[p]]
    BY <1>4 DEF Step, SpiInit, SoftReset, WireMode, ScratchWrite, InitWrite,
                ScratchRead, ReadScratch, WriteScratch, VerifyScratch, GetRfout,
                GetRefClk, Remove, InitFail, MainFail, Goto, IInv, TypeOK
  <1>5. UsedOnlyWhileLive'
    <2>1. CASE \E p \in Proc : Step(p)
      <3>1. PICK p \in Proc : Step(p)
        BY <2>1
      <3>2. \A q \in Proc : LiveAt(q)'
        BY <1>2, <1>3, <1>4, <3>1, OthersKeepLive DEF IInv
      <3>. QED
        BY <3>2 DEF UsedOnlyWhileLive, LiveAt, BusLabels
    <2>2. CASE UNCHANGED vars
      BY <2>2 DEF vars, IInv, UsedOnlyWhileLive
    <2>3. QED
      BY <2>1, <2>2 DEF Next
  <1>6. QED
    BY <1>1, <1>5 DEF IInv

(* UsedOnlyWhileLive: every transfer of adf4382_init and of main() runs *)
(* on a bound, not yet released or removed device, and a released or    *)
(* removed device belongs to a program that has returned: no error exit *)
(* of init or main() goes on to touch the device.  For any number of    *)
(* programs sharing the chip.                                           *)
THEOREM HandleLiveness == Spec => []UsedOnlyWhileLive
  <1>1. Init => IInv
    BY TypeInit DEF Init, IInv, UsedOnlyWhileLive, InitLabels, MainLabels
  <1>2. QED
    BY <1>1, IInvStep, PTL DEF Spec, IInv

=============================================================================
