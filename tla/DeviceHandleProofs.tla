------------------------- MODULE DeviceHandleProofs -------------------------
(***************************************************************************)
(* Proofs about DeviceHandle for every set of processes and both wire     *)
(* modes: the type invariant, and that a device handle is used only while *)
(* it is live.                                                            *)
(***************************************************************************)
EXTENDS DeviceHandle, RegisterCodecProofs, TLAPS

(***************************************************************************)
(* The bus helpers, given a well-typed chip.                              *)
(***************************************************************************)
\* A read transfer's answer is the register's value at the chip.
LEMMA ReadValueIs ==
  ASSUME chip \in ChipState, NEW a \in Addr
  PROVE  ReadValue(a) = ChipRead(chip, a)
  <1>1. Xfer(chip, ReadFrame(a)) = { << <<0, 0, ChipRead(chip, a)>>, chip >> }
    BY XferRead
  <1> DEFINE resp == << <<0, 0, ChipRead(chip, a)>>, chip >>
  <1>2. (CHOOSE r \in Xfer(chip, ReadFrame(a)) : TRUE) = resp
    BY <1>1
  <1>3. resp[1][3] = ChipRead(chip, a)
    OBVIOUS
  <1>4. QED
    BY <1>2, <1>3, Zenon DEF ReadValue

LEMMA ReadValueType ==
  ASSUME chip \in ChipState, NEW a \in Addr
  PROVE  ReadValue(a) \in Byte
  BY ReadValueIs, ChipReadType

LEMMA WriteResultsType ==
  ASSUME chip \in ChipState, NEW a \in Addr, NEW v \in Byte
  PROVE  WriteResults(a, v) \subseteq ChipState
  <1>1. Xfer(chip, WriteFrame(a, v)) =
          { << <<0, 0, 0>>, c2 >> : c2 \in ChipWrite(chip, a, v) }
    BY XferWrite
  <1>2. \A r \in Xfer(chip, WriteFrame(a, v)) : r[2] \in ChipWrite(chip, a, v)
    BY <1>1
  <1>3. QED
    BY <1>2, ChipWriteType DEF WriteResults

\* Whatever a write frame does to the chip, it does not change presence.
LEMMA WriteResultsPresence ==
  ASSUME chip \in ChipState, NEW a \in Addr, NEW v \in Byte,
         NEW c2 \in WriteResults(a, v)
  PROVE  c2.present = chip.present
  <1>1. Xfer(chip, WriteFrame(a, v)) =
          { << <<0, 0, 0>>, c3 >> : c3 \in ChipWrite(chip, a, v) }
    BY XferWrite
  <1>2. c2 \in ChipWrite(chip, a, v)
    BY <1>1 DEF WriteResults
  <1>3. QED
    BY <1>2, ChipWriteKeepsPresence DEF TypeOK

\* The addresses and data bytes the init sequence and main() use.
LEMMA CodeConstants ==
  /\ {REG0000, CMOS_REG, MUXOUT_REG, SCRATCHPAD, FREQ_REG,
      VENDOR_ID_LSB_REG, VENDOR_ID_MSB_REG} \subseteq Addr
  /\ {RESET_CMD, Spi3WCfg(adf4377_ip.spi4wire), 32,
      MUXOUT(adf4377_ip.muxout_select), SPI_SCRATCHPAD_TEST, 40} \subseteq Byte
  BY Spi4WireAssumption
  DEF REG0000, CMOS_REG, MUXOUT_REG, SCRATCHPAD, FREQ_REG, VENDOR_ID_LSB_REG,
      VENDOR_ID_MSB_REG, Addr, RESET_CMD, adf4377_ip, Spi3WCfg, SPI_4W_CFG,
      MUXOUT, MUXOUT_HIGH_Z, SPI_SCRATCHPAD_TEST, Byte

\* Where a process goes after init is a label of main() or example_main().
LEMMA MainEntryLabel ==
  ASSUME NEW p PROVE MainEntry(p) \in MainLabels
  BY DEF MainEntry, MainLabels

(***************************************************************************)
(* Type correctness                                                       *)
(***************************************************************************)
LEMMA InitWriteType ==
  ASSUME TypeOK, NEW p \in Proc, NEW l, NEW a \in Addr, NEW v \in Byte,
         NEW next \in Labels, NEW lnext \in LifeStates,
         InitWrite(p, l, a, v, next, lnext)
  PROVE  TypeOK'
  <1>1. chip' \in ChipState
    BY WriteResultsType DEF InitWrite, exv, TypeOK
  <1>2. /\ pc' \in [Proc -> Labels] /\ life' \in [Proc -> LifeStates]
        /\ ret' \in [Proc -> {0, ETRANSPORT, EINVAL, CHECK_FAILED}]
    BY DEF InitWrite, InitFail, Goto, Fail, TypeOK, Labels, InitLabels,
           MainLabels, LifeStates, ETRANSPORT
  <1>3. /\ rb' \in [Proc -> Byte] /\ ioFailed' \in [Proc -> BOOLEAN]
        /\ prog' \in [Proc -> Programs]
        /\ vendor_id_lsb' \in [Proc -> Byte] /\ vendor_id_msb' \in [Proc -> Byte]
    BY DEF InitWrite, exv, InitFail, Goto, Fail, TypeOK
  <1>4. QED
    BY <1>1, <1>2, <1>3 DEF TypeOK

LEMMA MainFailType ==
  ASSUME TypeOK, NEW p \in Proc,
         NEW err \in {0, ETRANSPORT, EINVAL, CHECK_FAILED},
         MainFail(p, err)
  PROVE  pc' \in [Proc -> Labels] /\ life' \in [Proc -> LifeStates]
         /\ ret' \in [Proc -> {0, ETRANSPORT, EINVAL, CHECK_FAILED}]
  BY DEF MainFail, Goto, TypeOK, Labels, InitLabels, MainLabels,
         LifeStates

LEMMA MainReadType ==
  ASSUME TypeOK, NEW p \in Proc, NEW l, NEW next \in Labels,
         MainRead(p, l, next)
  PROVE  TypeOK'
  <1>1. ReadValue(MUXOUT_REG) \in Byte
    BY ReadValueType, CodeConstants DEF TypeOK
  <1>2. CASE /\ rb' = [rb EXCEPT ![p] = ReadValue(MUXOUT_REG)]
             /\ Goto(p, next)
             /\ UNCHANGED << life, ret, ioFailed >>
    BY <1>1, <1>2 DEF MainRead, exv, Goto, TypeOK
  <1>3. CASE MainFail(p, ETRANSPORT) /\ Fail(p) /\ UNCHANGED rb
    BY <1>3, MainFailType DEF MainRead, exv, Fail, TypeOK, ETRANSPORT
  <1>4. QED
    BY <1>2, <1>3 DEF MainRead

LEMMA TypeInit == Init => TypeOK
  BY DEF Init, TypeOK, ChipState, Byte, Labels, InitLabels, MainLabels,
         LifeStates

LEMMA TypeStep == TypeOK /\ [Next]_vars => TypeOK'
  <1> SUFFICES ASSUME TypeOK, [Next]_vars PROVE TypeOK'
    OBVIOUS
  <1>1. ASSUME NEW p \in Proc, SpiInit(p) PROVE TypeOK'
    BY <1>1 DEF SpiInit, exv, InitFail, Goto, Fail, TypeOK, Labels, InitLabels,
                MainLabels, LifeStates, ETRANSPORT
  <1>2. ASSUME NEW p \in Proc, SoftReset(p) \/ WireMode(p) \/ CmosOutput(p)
               \/ RegDefaults(p) \/ ScratchWrite(p) \/ ProgramFreq(p)
        PROVE TypeOK'
    BY <1>2, InitWriteType, CodeConstants, MainEntryLabel
    DEF SoftReset, WireMode, CmosOutput, RegDefaults, ScratchWrite,
        ProgramFreq, Labels, InitLabels, MainLabels, LifeStates
  <1>3. ASSUME NEW p \in Proc, ScratchRead(p) PROVE TypeOK'
    BY <1>3 DEF ScratchRead, exv, InitFail, Goto, Fail, TypeOK, Labels,
                InitLabels, MainLabels, LifeStates, ETRANSPORT, EINVAL
  <1>4. ASSUME NEW p \in Proc, ReadMux(p) \/ UpdateRead(p) PROVE TypeOK'
    BY <1>4, MainReadType DEF ReadMux, UpdateRead, Labels, MainLabels
  <1>5. ASSUME NEW p \in Proc, UpdateWrite(p) PROVE TypeOK'
    <2> DEFINE new == UpdateBits(rb[p], MUXOUT_MSK, MUXOUT(MUXOUT_HIGH))
    <2>0. rb[p] \in Int
      <3>1. rb[p] \in Byte
        BY DEF TypeOK
      <3>. QED
        BY <3>1 DEF Byte
    <2>1. new \in Byte
      BY <2>0, UpdateBitsType DEF MUXOUT_MSK, MUXOUT, MUXOUT_HIGH
    <2>2. chip' \in ChipState
      BY <1>5, <2>1, WriteResultsType, CodeConstants DEF UpdateWrite, exv, TypeOK
    <2>3. CASE /\ chip' \in WriteResults(MUXOUT_REG, new)
               /\ Goto(p, "verify")
               /\ UNCHANGED << life, ret, ioFailed >>
      BY <1>5, <2>2, <2>3 DEF UpdateWrite, exv, Goto, TypeOK, Labels, MainLabels
    <2>4. CASE /\ chip' \in WriteResults(MUXOUT_REG, new) \cup {chip}
               /\ MainFail(p, ETRANSPORT) /\ Fail(p)
      BY <1>5, <2>2, <2>4, MainFailType DEF UpdateWrite, exv, Fail, TypeOK,
                                            ETRANSPORT
    <2>5. QED
      BY <1>5, <2>3, <2>4 DEF UpdateWrite
  <1>6. ASSUME NEW p \in Proc, Verify(p) PROVE TypeOK'
    <2> DEFINE v == ReadValue(MUXOUT_REG)
    <2>1. v \in Byte
      BY ReadValueType, CodeConstants DEF TypeOK
    <2>2. CASE /\ rb' = [rb EXCEPT ![p] = v]
               /\ ret' = [ret EXCEPT ![p] =
                    IF MuxField(v) = MUXOUT_HIGH THEN @ ELSE CHECK_FAILED]
               /\ Goto(p, "remove")
               /\ UNCHANGED << life, ioFailed >>
      BY <1>6, <2>1, <2>2 DEF Verify, exv, Goto, TypeOK, CHECK_FAILED, Labels,
                              MainLabels
    <2>3. CASE MainFail(p, ETRANSPORT) /\ Fail(p) /\ UNCHANGED rb
      BY <1>6, <2>3, MainFailType DEF Verify, exv, Fail, TypeOK, ETRANSPORT
    <2>4. QED
      BY <1>6, <2>2, <2>3 DEF Verify
  <1>7. ASSUME NEW p \in Proc, Remove(p) PROVE TypeOK'
    BY <1>7 DEF Remove, exv, Goto, Fail, TypeOK, Labels, InitLabels, MainLabels,
                LifeStates, ETRANSPORT
  <1>8. CASE UNCHANGED vars
    BY <1>8 DEF vars, TypeOK
  <1>9. ASSUME NEW p \in Proc, ReadVendorLsb(p) \/ ReadVendorMsb(p)
        PROVE TypeOK'
    <2>1. ReadValue(VENDOR_ID_LSB_REG) \in Byte /\ ReadValue(VENDOR_ID_MSB_REG) \in Byte
      BY ReadValueType, CodeConstants DEF TypeOK
    <2>2. CASE ReadVendorLsb(p)
      <3>1. CASE MainFail(p, ETRANSPORT) /\ Fail(p) /\ UNCHANGED vendor_id_lsb
        BY <2>2, <3>1, MainFailType DEF ReadVendorLsb, Fail, TypeOK, ETRANSPORT
      <3>. QED
        BY <2>1, <2>2, <3>1 DEF ReadVendorLsb, Goto, TypeOK, Labels, MainLabels
    <2>3. CASE ReadVendorMsb(p)
      <3>1. CASE MainFail(p, ETRANSPORT) /\ Fail(p) /\ UNCHANGED vendor_id_msb
        BY <2>3, <3>1, MainFailType DEF ReadVendorMsb, Fail, TypeOK, ETRANSPORT
      <3>. QED
        BY <2>1, <2>3, <3>1 DEF ReadVendorMsb, Goto, TypeOK, Labels, MainLabels
    <2>. QED
      BY <1>9, <2>2, <2>3
  <1>10. ASSUME NEW p \in Proc, CheckVendorId(p) \/ ExampleCleanup(p)
         PROVE TypeOK'
    BY <1>10 DEF CheckVendorId, ExampleCleanup, exv, Goto, Fail, TypeOK,
                 Labels, MainLabels, LifeStates, CHECK_FAILED
  <1>11. QED
    BY <1>1, <1>2, <1>3, <1>4, <1>5, <1>6, <1>7, <1>8, <1>9, <1>10
    DEF Next, Step

(* The type invariant: chip, program counters, lifecycle states, the ret *)
(* variables and read_back keep their ranges in every reachable state of *)
(* any number of programs sharing the chip.                              *)
THEOREM TypeCorrect == Spec => []TypeOK
  BY TypeInit, TypeStep, PTL DEF Spec

(***************************************************************************)
(* A device handle is used only while it is live                          *)
(***************************************************************************)
\* The program counters at which the next step transfers on the bus.
BusLabels == (InitLabels \ {"spi_init"}) \cup MainLabels

IInv == TypeOK /\ UsedOnlyWhileLive

LEMMA InitWriteLive ==
  ASSUME IInv, NEW p \in Proc, NEW l, NEW a \in Addr, NEW v \in Byte,
         NEW next \in BusLabels, NEW lnext \in Live,
         InitWrite(p, l, a, v, next, lnext)
  PROVE  UsedOnlyWhileLive'
  <1> SUFFICES ASSUME NEW q \in Proc
               PROVE  (/\ pc[q] \in BusLabels => life[q] \in Live
                       /\ life[q] \in {"released", "removed"} => pc[q] = "done")'
    BY DEF UsedOnlyWhileLive, BusLabels
  <1>1. CASE q = p
    BY <1>1 DEF IInv, TypeOK, InitWrite, InitFail, Goto, BusLabels, Live,
                InitLabels, MainLabels
  <1>2. CASE q # p
    BY <1>2 DEF IInv, TypeOK, InitWrite, InitFail, Goto, UsedOnlyWhileLive,
                BusLabels
  <1>3. QED
    BY <1>1, <1>2

LEMMA MainFailLive ==
  ASSUME IInv, NEW p \in Proc, NEW err, MainFail(p, err)
  PROVE  UsedOnlyWhileLive'
  <1> SUFFICES ASSUME NEW q \in Proc
               PROVE  (/\ pc[q] \in BusLabels => life[q] \in Live
                       /\ life[q] \in {"released", "removed"} => pc[q] = "done")'
    BY DEF UsedOnlyWhileLive, BusLabels
  <1>1. CASE q = p
    BY <1>1 DEF IInv, TypeOK, MainFail, Goto, BusLabels, InitLabels,
                MainLabels
  <1>2. CASE q # p
    BY <1>2 DEF IInv, TypeOK, MainFail, Goto, UsedOnlyWhileLive, BusLabels
  <1>3. QED
    BY <1>1, <1>2

(* No program issues a bus transfer through a device handle that is not  *)
(* bound, or that init's error exit has released or main() has removed; *)
(* and a released or removed handle belongs to a program that has       *)
(* returned.  This holds for any number of programs and either wire mode. *)
THEOREM HandleLiveness == Spec => []UsedOnlyWhileLive
  <1>1. Init => IInv
    BY TypeInit DEF Init, IInv, UsedOnlyWhileLive, InitLabels, MainLabels
  <1>2. IInv /\ [Next]_vars => IInv'
    <2> SUFFICES ASSUME IInv, [Next]_vars PROVE IInv'
      OBVIOUS
    <2>1. TypeOK'
      BY TypeStep DEF IInv
    <2>2. ASSUME NEW p \in Proc, SpiInit(p) PROVE UsedOnlyWhileLive'
      BY <2>2 DEF IInv, TypeOK, SpiInit, InitFail, Goto, UsedOnlyWhileLive,
                  InitLabels, MainLabels, Live
    <2>3. ASSUME NEW p \in Proc, SoftReset(p) \/ WireMode(p) \/ CmosOutput(p)
                 \/ RegDefaults(p) \/ ScratchWrite(p) \/ ProgramFreq(p)
          PROVE UsedOnlyWhileLive'
      BY <2>3, InitWriteLive, CodeConstants, MainEntryLabel
      DEF SoftReset, WireMode, CmosOutput, RegDefaults, ScratchWrite,
          ProgramFreq, BusLabels, InitLabels, MainLabels, Live
    <2>4. ASSUME NEW p \in Proc, ScratchRead(p) PROVE UsedOnlyWhileLive'
      BY <2>4 DEF IInv, TypeOK, ScratchRead, InitFail, Goto, UsedOnlyWhileLive,
                  InitLabels, MainLabels, Live
    <2>5. ASSUME NEW p \in Proc, ReadMux(p) \/ UpdateRead(p) \/ UpdateWrite(p)
                 \/ Verify(p)
          PROVE UsedOnlyWhileLive'
      BY <2>5, MainFailLive DEF IInv, TypeOK, ReadMux, UpdateRead, MainRead,
         UpdateWrite, Verify, Goto, UsedOnlyWhileLive, InitLabels, MainLabels
    <2>6. ASSUME NEW p \in Proc, Remove(p) PROVE UsedOnlyWhileLive'
      BY <2>6 DEF IInv, TypeOK, Remove, Goto, UsedOnlyWhileLive, InitLabels,
                  MainLabels
    <2>7. ASSUME UNCHANGED vars PROVE UsedOnlyWhileLive'
      BY <2>7 DEF vars, IInv, UsedOnlyWhileLive
    <2>10. ASSUME NEW p \in Proc, ReadVendorLsb(p) \/ ReadVendorMsb(p)
                  \/ CheckVendorId(p)
           PROVE UsedOnlyWhileLive'
      BY <2>10, MainFailLive DEF IInv, TypeOK, ReadVendorLsb, ReadVendorMsb,
         CheckVendorId, Goto, UsedOnlyWhileLive, InitLabels, MainLabels
    <2>11. ASSUME NEW p \in Proc, ExampleCleanup(p) PROVE UsedOnlyWhileLive'
      BY <2>11 DEF IInv, TypeOK, ExampleCleanup, Goto, UsedOnlyWhileLive,
                   InitLabels, MainLabels
    <2>8. UsedOnlyWhileLive'
      BY <2>2, <2>3, <2>4, <2>5, <2>6, <2>7, <2>10, <2>11 DEF Next, Step
    <2>9. QED
      BY <2>1, <2>8 DEF IInv
  <1>3. QED
    BY <1>1, <1>2, PTL DEF Spec, IInv

(***************************************************************************)
(* Only a present chip passes init's scratchpad check                     *)
(***************************************************************************)
\* One write of the init sequence or of update_bit leaves presence alone,
\* whether it succeeds, fails after reaching the chip or fails before.
LEMMA WriteStepPresence ==
  ASSUME chip \in ChipState, NEW a \in Addr, NEW v \in Byte,
         chip' \in WriteResults(a, v) \cup {chip}
  PROVE  chip'.present = chip.present
  BY WriteResultsPresence

\* No step of any program changes whether the chip is there.
LEMMA PresenceStep == TypeOK /\ [Next]_vars => chip'.present = chip.present
  <1> SUFFICES ASSUME TypeOK, [Next]_vars PROVE chip'.present = chip.present
    OBVIOUS
  <1>1. ASSUME NEW p \in Proc, SoftReset(p) \/ WireMode(p) \/ CmosOutput(p)
               \/ RegDefaults(p) \/ ScratchWrite(p) \/ ProgramFreq(p)
        PROVE  chip'.present = chip.present
    <2>1. ASSUME NEW l, NEW a \in Addr, NEW v \in Byte, NEW next, NEW lnext,
                 InitWrite(p, l, a, v, next, lnext)
          PROVE  chip'.present = chip.present
      BY <2>1, WriteStepPresence DEF InitWrite, TypeOK
    <2>2. QED
      BY <1>1, <2>1, CodeConstants
      DEF SoftReset, WireMode, CmosOutput, RegDefaults, ScratchWrite, ProgramFreq
  <1>2. ASSUME NEW p \in Proc, UpdateWrite(p) PROVE chip'.present = chip.present
    <2> DEFINE new == UpdateBits(rb[p], MUXOUT_MSK, MUXOUT(MUXOUT_HIGH))
    <2>1. rb[p] \in Int
      <3>1. rb[p] \in Byte
        BY DEF TypeOK
      <3>. QED
        BY <3>1 DEF Byte
    <2>2. new \in Byte
      BY <2>1, UpdateBitsType DEF MUXOUT_MSK, MUXOUT, MUXOUT_HIGH
    <2>3. chip' \in WriteResults(MUXOUT_REG, new) \cup {chip}
      BY <1>2 DEF UpdateWrite
    <2>4. QED
      BY <2>2, <2>3, WriteStepPresence, CodeConstants DEF TypeOK
  <1>3. ASSUME NEW p \in Proc,
               \/ SpiInit(p) \/ ScratchRead(p) \/ ReadMux(p) \/ UpdateRead(p)
               \/ Verify(p) \/ Remove(p) \/ ReadVendorLsb(p) \/ ReadVendorMsb(p)
               \/ CheckVendorId(p) \/ ExampleCleanup(p)
        PROVE  chip' = chip
    BY <1>3 DEF SpiInit, ScratchRead, ReadMux, UpdateRead, MainRead, Verify,
                Remove, ReadVendorLsb, ReadVendorMsb, CheckVendorId, ExampleCleanup
  <1>4. CASE UNCHANGED vars
    BY <1>4 DEF vars
  <1>5. QED
    BY <1>1, <1>2, <1>3, <1>4 DEF Next, Step

\* The strengthening: against an absent chip no program gets past init's
\* scratchpad check, so none reaches the frequency program or main().
AbsentChipStaysUnverified ==
  ~chip.present =>
    \A p \in Proc : /\ life[p] \notin {"verified", "active"}
                   /\ pc[p] \notin {"freq"} \cup MainLabels

VInv == TypeOK /\ AbsentChipStaysUnverified

\* An init write that neither enters the frequency program nor main().
LEMMA InitWriteUnverified ==
  ASSUME TypeOK, NEW p \in Proc, NEW l, NEW a, NEW v,
         NEW next \in Labels \ ({"freq"} \cup MainLabels),
         NEW lnext \in {"bound", "configured"},
         InitWrite(p, l, a, v, next, lnext),
         NEW q \in Proc,
         life[q] \notin {"verified", "active"},
         pc[q] \notin {"freq"} \cup MainLabels
  PROVE  life'[q] \notin {"verified", "active"} /\ pc'[q] \notin {"freq"} \cup MainLabels
  BY DEF InitWrite, InitFail, Goto, TypeOK, Labels, InitLabels, MainLabels

LEMMA VInvStep == VInv /\ [Next]_vars => VInv'
  <1> SUFFICES ASSUME TypeOK, AbsentChipStaysUnverified, [Next]_vars,
                      ~chip'.present, NEW q \in Proc
               PROVE  life'[q] \notin {"verified", "active"}
                      /\ pc'[q] \notin {"freq"} \cup MainLabels
    BY TypeStep DEF VInv, AbsentChipStaysUnverified
  <1>1. ~chip.present
    BY PresenceStep
  <1>2. \A r \in Proc : /\ life[r] \notin {"verified", "active"}
                       /\ pc[r] \notin {"freq"} \cup MainLabels
    BY <1>1 DEF AbsentChipStaysUnverified
  <1>3. ASSUME NEW p \in Proc, SpiInit(p)
        PROVE  life'[q] \notin {"verified", "active"}
               /\ pc'[q] \notin {"freq"} \cup MainLabels
    BY <1>2, <1>3 DEF SpiInit, InitFail, Goto, TypeOK, MainLabels
  <1>4. ASSUME NEW p \in Proc, SoftReset(p) \/ WireMode(p) \/ CmosOutput(p)
               \/ RegDefaults(p) \/ ScratchWrite(p)
        PROVE  life'[q] \notin {"verified", "active"}
               /\ pc'[q] \notin {"freq"} \cup MainLabels
    BY <1>2, <1>4, InitWriteUnverified
    DEF SoftReset, WireMode, CmosOutput, RegDefaults, ScratchWrite, Labels,
        InitLabels, MainLabels
  <1>5. ASSUME NEW p \in Proc, ScratchRead(p)
        PROVE  life'[q] \notin {"verified", "active"}
               /\ pc'[q] \notin {"freq"} \cup MainLabels
    <2>1. ReadValue(SCRATCHPAD) = 0
      BY <1>1, ReadValueIs, ChipReadAbsent, CodeConstants DEF TypeOK
    <2>2. ~ScratchpadOk(ReadValue(SCRATCHPAD))
      BY <2>1 DEF ScratchpadOk, SPI_SCRATCHPAD_TEST
    <2>3. \/ InitFail(p, EINVAL)
          \/ InitFail(p, ETRANSPORT)
      BY <1>5, <2>2 DEF ScratchRead
    <2>4. QED
      BY <1>2, <2>3 DEF InitFail, Goto, TypeOK, MainLabels
  <1>6. ASSUME NEW p \in Proc,
               \/ ProgramFreq(p) \/ ReadMux(p) \/ UpdateRead(p) \/ UpdateWrite(p)
               \/ Verify(p) \/ Remove(p) \/ ReadVendorLsb(p) \/ ReadVendorMsb(p)
               \/ CheckVendorId(p) \/ ExampleCleanup(p)
        PROVE  FALSE
    <2>1. pc[p] \in {"freq"} \cup MainLabels
      BY <1>6 DEF ProgramFreq, InitWrite, ReadMux, UpdateRead, MainRead,
                  UpdateWrite, Verify, Remove, ReadVendorLsb, ReadVendorMsb,
                  CheckVendorId, ExampleCleanup, MainLabels
    <2>2. QED
      BY <1>2, <2>1
  <1>7. CASE UNCHANGED vars
    BY <1>2, <1>7 DEF vars
  <1>8. QED
    BY <1>3, <1>4, <1>5, <1>6, <1>7 DEF Next, Step

(* VerifiedMeansPresent: no device handle is verified or active unless   *)
(* the chip is really there.  The scratchpad round-trip of adf4377_init  *)
(* is what tells a present chip from an absent one, and no write of any  *)
(* program, failed or not, makes an absent chip answer it.  This holds   *)
(* for any number of programs sharing the chip and either wire mode.     *)
THEOREM VerifiedPresent == Spec => []VerifiedMeansPresent
  <1>1. Init => VInv
    BY TypeInit DEF Init, VInv, AbsentChipStaysUnverified, MainLabels
  <1>2. VInv => VerifiedMeansPresent
    BY DEF VInv, AbsentChipStaysUnverified, VerifiedMeansPresent
  <1>3. QED
    BY <1>1, <1>2, VInvStep, PTL DEF Spec

(***************************************************************************)
(* A program alone with a present chip and no I/O failure exits with 0    *)
(***************************************************************************)
\* The chip states a write transfer may lead to are ChipWrite's.
LEMMA WriteResultsIs ==
  ASSUME chip \in ChipState, NEW a \in Addr, NEW v \in Byte
  PROVE  WriteResults(a, v) = ChipWrite(chip, a, v)
  <1>1. Xfer(chip, WriteFrame(a, v)) =
          { << <<0, 0, 0>>, c2 >> : c2 \in ChipWrite(chip, a, v) }
    BY XferWrite
  <1>2. \A c2 \in ChipWrite(chip, a, v) : c2 \in WriteResults(a, v)
    <2> SUFFICES ASSUME NEW c2 \in ChipWrite(chip, a, v)
                 PROVE  c2 \in WriteResults(a, v)
      OBVIOUS
    <2>1. << <<0, 0, 0>>, c2 >> \in Xfer(chip, WriteFrame(a, v))
      BY <1>1
    <2>. QED
      BY <2>1 DEF WriteResults
  <1>3. \A c2 \in WriteResults(a, v) : c2 \in ChipWrite(chip, a, v)
    BY <1>1 DEF WriteResults
  <1>4. QED
    BY <1>2, <1>3

(* adf4377_spi_update_bit(dev, 0x1D, MUXOUT_MSK, MUXOUT(MUXOUT_HIGH))     *)
(* leaves MUXOUT = HIGH whatever REG001D held before: the merge keeps the *)
(* low nibble and replaces the field.                                    *)
LEMMA UpdateSetsMuxHigh ==
  ASSUME NEW x \in Byte
  PROVE  MuxField(UpdateBits(x, MUXOUT_MSK, MUXOUT(MUXOUT_HIGH))) = MUXOUT_HIGH
  <1> DEFINE low == Bit(x, 1) + 2 * Bit(x, 2) + 4 * Bit(x, 4) + 8 * Bit(x, 8)
  <1>0. \A w \in {1, 2, 4, 8} : Bit(x, w) \in {0, 1}
    BY BitRange DEF Byte
  <1>1. low \in 0..15
    BY <1>0
  <1>2. UpdateBits(x, MUXOUT_MSK, MUXOUT(MUXOUT_HIGH)) = low + 128
    <2> DEFINE m == MUXOUT_MSK  h == MUXOUT(MUXOUT_HIGH)
    <2>1. /\ Bit(m, 1) = 0 /\ Bit(m, 2) = 0 /\ Bit(m, 4) = 0
          /\ Bit(m, 8) = 0 /\ Bit(m, 16) = 1 /\ Bit(m, 32) = 1
          /\ Bit(m, 64) = 1 /\ Bit(m, 128) = 1
      BY DEF Bit, MUXOUT_MSK
    <2>2. /\ Bit(h, 16) = 0 /\ Bit(h, 32) = 0 /\ Bit(h, 64) = 0
          /\ Bit(h, 128) = 1
      BY DEF Bit, MUXOUT, MUXOUT_HIGH
    <2>3. QED
      BY <1>0, <2>1, <2>2 DEF UpdateBits
  <1>3. \A y \in 0..15 : ((y + 128) \div 16) % 16 = 8
    OBVIOUS
  <1>4. QED
    BY <1>1, <1>2, <1>3 DEF MuxField, MUXOUT_HIGH

\* Labels after the 4-wire configuration: SDO read-back is on.
SdoLabels == {"cmos", "defaults", "scratch_w", "scratch_r", "freq"} \cup MainLabels

\* What a program that has met no failure knows of the chip, by label.
PassAt(p) ==
  /\ ret[p] = 0
  /\ pc[p] \in SdoLabels => chip.sdo
  /\ pc[p] = "scratch_r" => chip.regs[SCRATCHPAD] = SPI_SCRATCHPAD_TEST
  /\ pc[p] = "verify" => MuxField(chip.regs[MUXOUT_REG]) = MUXOUT_HIGH
  /\ pc[p] \in {"read_msb", "check_id"} =>
       vendor_id_lsb[p] = ReadOnly[VENDOR_ID_LSB_REG]
  /\ pc[p] = "check_id" => vendor_id_msb[p] = ReadOnly[VENDOR_ID_MSB_REG]

PassInv == \A p \in Proc : chip.present /\ ~ioFailed[p] => PassAt(p)

\* The configuration common_data.c gives, and the ID the chip reports.
SingleProgram == \A p, r \in Proc : p = r
CodeConfig ==
  /\ Spi4Wire = TRUE
  /\ ADF4377_VENDOR_ID_LSB =
       VendorId(ReadOnly[VENDOR_ID_MSB_REG], ReadOnly[VENDOR_ID_LSB_REG])

\* A step that does not set ioFailed[p] took the success branch of an
\* init write.
LEMMA InitWriteSucceeds ==
  ASSUME TypeOK, NEW p \in Proc, NEW l, NEW a, NEW v, NEW next, NEW lnext,
         InitWrite(p, l, a, v, next, lnext), ~ioFailed'[p]
  PROVE  /\ chip' \in WriteResults(a, v) /\ pc[p] = l /\ pc'[p] = next
         /\ UNCHANGED << ret, ioFailed, rb, exv >>
  BY DEF InitWrite, InitFail, Fail, Goto, TypeOK

\* Likewise for the error exit of main() and example_main().
LEMMA MainFailFails ==
  ASSUME TypeOK, NEW p \in Proc, NEW err, MainFail(p, err) /\ Fail(p)
  PROVE  ioFailed'[p]
  BY DEF Fail, TypeOK


\* A failed I/O call is never forgotten: ioFailed[p] stays set.
LEMMA FailedStays ==
  ASSUME TypeOK, [Next]_vars, NEW p \in Proc, ioFailed[p]
  PROVE  ioFailed'[p]
  <1>1. ASSUME NEW r \in Proc, Step(r)
        PROVE  ioFailed' = ioFailed \/ ioFailed' = [ioFailed EXCEPT ![r] = TRUE]
    BY <1>1 DEF Step, SpiInit, SoftReset, WireMode, CmosOutput, RegDefaults,
                ScratchWrite, ProgramFreq, InitWrite, ScratchRead, ReadMux,
                UpdateRead, MainRead, UpdateWrite, Verify, Remove, ReadVendorLsb,
                ReadVendorMsb, CheckVendorId, ExampleCleanup, Fail
  <1>2. QED
    BY <1>1 DEF Next, vars, TypeOK

LEMMA PassStep ==
  ASSUME SingleProgram, CodeConfig
  PROVE  TypeOK /\ PassInv /\ [Next]_vars => PassInv'
  <1> SUFFICES ASSUME TypeOK, PassInv, [Next]_vars, NEW p \in Proc,
                      chip'.present, ~ioFailed'[p]
               PROVE  PassAt(p)'
    BY DEF PassInv
  <1>1. chip.present
    BY PresenceStep
  <1>2. PassAt(p)
    BY <1>1, FailedStays DEF PassInv
  <1>3. CASE UNCHANGED vars
    BY <1>2, <1>3 DEF vars, PassAt
  <1>4. CASE Step(p)
    <2>1. CASE SpiInit(p)
      <3>1. pc'[p] = "reset" /\ UNCHANGED << chip, ret, ioFailed >>
        BY <2>1 DEF SpiInit, InitFail, Fail, Goto, TypeOK
      <3>2. QED
        BY <1>2, <3>1 DEF PassAt, SdoLabels, MainLabels
    <2>2. CASE SoftReset(p)
      <3>1. pc'[p] = "wire" /\ UNCHANGED << ret, ioFailed >>
        BY <2>2, InitWriteSucceeds DEF SoftReset
      <3>2. QED
        BY <1>2, <3>1 DEF PassAt, SdoLabels, MainLabels
    <2>3. CASE WireMode(p)
      <3>1. Spi3WCfg(adf4377_ip.spi4wire) = SPI_4W_CFG
        BY DEF CodeConfig, Spi3WCfg, adf4377_ip
      <3>2. /\ chip' \in ChipWrite(chip, REG0000, SPI_4W_CFG)
            /\ pc'[p] = "cmos" /\ UNCHANGED << ret, ioFailed >>
        BY <2>3, <3>1, InitWriteSucceeds, WriteResultsIs, CodeConstants
        DEF WireMode, TypeOK
      <3>3. chip'.sdo
        BY <1>1, <3>2, ChipWriteWire DEF TypeOK
      <3>4. QED
        BY <1>2, <3>2, <3>3 DEF PassAt, SdoLabels, MainLabels
    <2>4. CASE CmosOutput(p) \/ RegDefaults(p) \/ ScratchWrite(p) \/ ProgramFreq(p)
      <3>1. PICK a \in Addr \ {REG0000}, v \in Byte, l \in SdoLabels,
                 next \in SdoLabels :
              /\ chip' \in ChipWrite(chip, a, v) /\ pc[p] = l /\ pc'[p] = next
              /\ UNCHANGED << ret, ioFailed >>
              /\ (l = "scratch_w" => a = SCRATCHPAD /\ v = SPI_SCRATCHPAD_TEST)
              /\ next \notin {"verify", "read_msb", "check_id"}
              /\ (next = "scratch_r" => l = "scratch_w")
        <4>1. CASE CmosOutput(p)
          BY <4>1, InitWriteSucceeds, WriteResultsIs, CodeConstants
          DEF CmosOutput, TypeOK, SdoLabels, MainLabels, REG0000, CMOS_REG
        <4>2. CASE RegDefaults(p)
          BY <4>2, InitWriteSucceeds, WriteResultsIs, CodeConstants
          DEF RegDefaults, TypeOK, SdoLabels, MainLabels, REG0000, MUXOUT_REG
        <4>3. CASE ScratchWrite(p)
          BY <4>3, InitWriteSucceeds, WriteResultsIs, CodeConstants
          DEF ScratchWrite, TypeOK, SdoLabels, MainLabels, REG0000, SCRATCHPAD
        <4>4. CASE ProgramFreq(p)
          BY <4>4, InitWriteSucceeds, WriteResultsIs, CodeConstants
          DEF ProgramFreq, MainEntry, TypeOK, SdoLabels, MainLabels, REG0000,
              FREQ_REG
        <4>5. QED
          BY <2>4, <4>1, <4>2, <4>3, <4>4
      <3>2. chip.sdo
        BY <1>2, <3>1 DEF PassAt
      <3>3. chip'.sdo /\ (a = SCRATCHPAD => chip'.regs[SCRATCHPAD] = v)
        <4>1. /\ chip'.sdo = chip.sdo
              /\ \A t \in Tracked : chip'.regs[t] = IF t = a THEN v ELSE chip.regs[t]
          BY <1>1, <3>1, ChipWriteOther DEF TypeOK
        <4>2. QED
          BY <3>2, <4>1 DEF Tracked, SCRATCHPAD
      <3>4. QED
        BY <1>2, <3>1, <3>2, <3>3 DEF PassAt
    <2>5. CASE ScratchRead(p)
      <3>1. pc[p] = "scratch_r"
        BY <2>5 DEF ScratchRead
      <3>2. chip.sdo /\ chip.regs[SCRATCHPAD] = SPI_SCRATCHPAD_TEST
        BY <1>2, <2>5, <3>1 DEF PassAt, SdoLabels
      <3>3. ReadValue(SCRATCHPAD) = SPI_SCRATCHPAD_TEST
        BY <1>1, <3>2, ReadValueIs, ChipReadPresent, CodeConstants DEF TypeOK,
           Tracked, SCRATCHPAD
      <3>4. pc'[p] = "freq" /\ UNCHANGED << chip, ret, ioFailed >>
        BY <2>5, <3>3 DEF ScratchRead, ScratchpadOk, InitFail, Fail, Goto, TypeOK
      <3>5. QED
        BY <1>2, <3>2, <3>4 DEF PassAt, SdoLabels
    <2>6. CASE ReadMux(p) \/ UpdateRead(p)
      <3>1. /\ pc[p] \in {"read_mux", "upd_r"} /\ pc'[p] \in {"upd_r", "upd_w"}
            /\ UNCHANGED << chip, ret, ioFailed >>
        BY <2>6 DEF ReadMux, UpdateRead, MainRead, MainFail, Fail, Goto, TypeOK
      <3>2. QED
        BY <1>2, <3>1 DEF PassAt, SdoLabels, MainLabels
    <2>7. CASE UpdateWrite(p)
      <3> DEFINE new == UpdateBits(rb[p], MUXOUT_MSK, MUXOUT(MUXOUT_HIGH))
      <3>0. rb[p] \in Byte /\ new \in Byte
        <4>1. rb[p] \in Byte
          BY DEF TypeOK
        <4>2. rb[p] \in Int
          BY <4>1 DEF Byte
        <4>3. QED
          BY <4>1, <4>2, UpdateBitsType DEF MUXOUT_MSK, MUXOUT, MUXOUT_HIGH
      <3>1. /\ chip' \in ChipWrite(chip, MUXOUT_REG, new) /\ pc[p] = "upd_w"
            /\ pc'[p] = "verify" /\ UNCHANGED << ret, ioFailed >>
        <4>2. QED
          BY <2>7, <3>0, WriteResultsIs, CodeConstants
          DEF UpdateWrite, MainFail, Fail, Goto, TypeOK
      <3>2. chip.sdo
        BY <1>2, <3>1 DEF PassAt, SdoLabels, MainLabels
      <3>3. MuxField(new) = MUXOUT_HIGH
        BY <3>0, UpdateSetsMuxHigh
      <3>4. chip'.sdo /\ chip'.regs[MUXOUT_REG] = new
        <4>1. /\ chip'.sdo = chip.sdo
              /\ \A t \in Tracked : chip'.regs[t] = IF t = MUXOUT_REG THEN new ELSE chip.regs[t]
          BY <1>1, <3>0, <3>1, ChipWriteOther, CodeConstants
          DEF TypeOK, MUXOUT_REG, REG0000
        <4>2. QED
          BY <3>2, <4>1 DEF Tracked, MUXOUT_REG
      <3>5. QED
        BY <1>2, <3>1, <3>2, <3>3, <3>4 DEF PassAt, SdoLabels, MainLabels

    <2>8. CASE Verify(p)
      <3>1. pc[p] = "verify"
        BY <2>8 DEF Verify
      <3>2. chip.sdo /\ MuxField(chip.regs[MUXOUT_REG]) = MUXOUT_HIGH
        BY <1>2, <3>1 DEF PassAt, SdoLabels, MainLabels
      <3>3. MuxField(ReadValue(MUXOUT_REG)) = MUXOUT_HIGH
        BY <1>1, <3>2, ReadValueIs, ChipReadPresent, CodeConstants
        DEF TypeOK, Tracked, MUXOUT_REG
      <3>4. pc'[p] = "remove" /\ UNCHANGED << chip, ret, ioFailed >>
        BY <2>8, <3>3 DEF Verify, MainFail, Fail, Goto, TypeOK
      <3>5. QED
        BY <1>2, <3>2, <3>4 DEF PassAt, SdoLabels, MainLabels
    <2>9. CASE Remove(p)
      <3>1. pc'[p] = "done" /\ ret'[p] = 0 /\ UNCHANGED << chip, ioFailed >>
        BY <2>9 DEF Remove, Fail, Goto, TypeOK
      <3>2. QED
        BY <3>1 DEF PassAt, SdoLabels, MainLabels
    <2>10. CASE ReadVendorLsb(p) \/ ReadVendorMsb(p)
      <3>1. pc[p] \in {"read_lsb", "read_msb"}
        BY <2>10 DEF ReadVendorLsb, ReadVendorMsb
      <3>2. chip.sdo
        BY <1>2, <3>1 DEF PassAt, SdoLabels, MainLabels
      <3>3. /\ ReadValue(VENDOR_ID_LSB_REG) = ReadOnly[VENDOR_ID_LSB_REG]
            /\ ReadValue(VENDOR_ID_MSB_REG) = ReadOnly[VENDOR_ID_MSB_REG]
        BY <1>1, <3>2, ReadValueIs, ChipReadPresent, CodeConstants DEF TypeOK
      <3>4. CASE ReadVendorLsb(p)
        <4>1. /\ pc'[p] = "read_msb"
              /\ vendor_id_lsb'[p] = ReadOnly[VENDOR_ID_LSB_REG]
              /\ UNCHANGED << chip, ret, ioFailed >>
          BY <3>3, <3>4 DEF ReadVendorLsb, MainFail, Fail, Goto, TypeOK
        <4>2. QED
          BY <1>2, <3>2, <4>1 DEF PassAt, SdoLabels, MainLabels
      <3>5. CASE ReadVendorMsb(p)
        <4>1. /\ pc[p] = "read_msb" /\ pc'[p] = "check_id"
              /\ vendor_id_msb'[p] = ReadOnly[VENDOR_ID_MSB_REG]
              /\ UNCHANGED << chip, ret, ioFailed, vendor_id_lsb >>
          BY <3>3, <3>5 DEF ReadVendorMsb, MainFail, Fail, Goto, TypeOK
        <4>2. QED
          BY <1>2, <3>2, <4>1 DEF PassAt, SdoLabels, MainLabels
      <3>6. QED
        BY <2>10, <3>4, <3>5
    <2>11. CASE CheckVendorId(p)
      <3>1. pc[p] = "check_id"
        BY <2>11 DEF CheckVendorId
      <3>2. VendorId(vendor_id_msb[p], vendor_id_lsb[p]) = ADF4377_VENDOR_ID_LSB
        BY <1>2, <3>1 DEF PassAt, CodeConfig
      <3>3. pc'[p] = "cleanup" /\ UNCHANGED << chip, ret, ioFailed >>
        BY <2>11, <3>2 DEF CheckVendorId, Goto, TypeOK
      <3>4. QED
        BY <1>2, <3>1, <3>3 DEF PassAt, SdoLabels, MainLabels
    <2>12. CASE ExampleCleanup(p)
      <3>1. pc'[p] = "done" /\ UNCHANGED << chip, ret, ioFailed >>
        BY <2>12 DEF ExampleCleanup, Fail, Goto, TypeOK
      <3>2. QED
        BY <1>2, <3>1 DEF PassAt, SdoLabels, MainLabels
    <2>13. QED
      BY <1>4, <2>1, <2>2, <2>3, <2>4, <2>5, <2>6, <2>7, <2>8, <2>9, <2>10,
         <2>11, <2>12 DEF Step
  <1>5. QED
    BY <1>3, <1>4 DEF Next, SingleProgram

(* PresentChipPasses: a program that runs alone against a present chip,  *)
(* with the 4-wire bus common_data.c configures and the vendor ID macro  *)
(* equal to the ID the chip reports, exits 0 unless one of its own I/O   *)
(* calls failed: soft reset and the 4-wire write make the scratchpad     *)
(* round-trip pass, update_bit sets MUXOUT to HIGH whatever REG001D held, *)
(* and the vendor ID reads return the chip's ID.                         *)
THEOREM PresentChipPassesAlone ==
  ASSUME SingleProgram, CodeConfig
  PROVE  Spec => []PresentChipPasses
  <1>1. Init => TypeOK /\ PassInv
    BY TypeInit DEF Init, PassInv, PassAt, SdoLabels, MainLabels
  <1>2. TypeOK /\ PassInv /\ [Next]_vars => (TypeOK /\ PassInv)'
    BY PassStep, TypeStep
  <1>3. TypeOK /\ PassInv => PresentChipPasses
    BY DEF PassInv, PassAt, PresentChipPasses
  <1>4. QED
    BY <1>1, <1>2, <1>3, PTL DEF Spec

=============================================================================
