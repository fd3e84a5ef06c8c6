--------------------------- MODULE DiagnosticsProofs ---------------------------
(***************************************************************************)
(* Proofs about skip_scratchpad_test.c, the diagnostic whose frames all   *)
(* do what their comments say and whose verdict is sound: the frames it   *)
(* sends, what each does to the chip, and what it concludes.  The other   *)
(* programs violate one of the two properties (runs diag_verdicts and     *)
(* diag_frames), so there is nothing to prove of them.                    *)
(***************************************************************************)
EXTENDS Diagnostics, RegisterCodecProofs, SequenceTheorems, TLAPS

\* The script of skip_scratchpad_test.c, frame by frame.
LEMMA SkipScratchpadFrames ==
  /\ Len(SkipScratchpadScript) = 11
  /\ SkipScratchpadScript[1] = Op(WriteFrame(REG0000, RESET_CMD), "reset")
  /\ SkipScratchpadScript[2] = Op(WriteFrame(61, 32), "write")
  /\ SkipScratchpadScript[3] = Op(WriteFrame(REG0000, SPI_4W_CFG), "wire4")
  /\ \A i \in 4..10 :
       SkipScratchpadScript[i] =
         Op(WriteFrame(SkipScratchpadDefaults[i - 3][1],
                       SkipScratchpadDefaults[i - 3][2]), "write")
  /\ SkipScratchpadScript[11] = Op(ReadFrame(VENDOR_ID_MSB_REG), "read")
  <1> DEFINE A == << Op(<<0, 0, 129>>, "reset"), Op(<<0, 61, 32>>, "write"),
                     Op(<<0, 0, 24>>, "wire4") >>
             B == [i \in 1..7 |-> Op(<<0, SkipScratchpadDefaults[i][1],
                                        SkipScratchpadDefaults[i][2]>>, "write")]
             C == << Op(<<128, 13, 0>>, "read") >>
             U == {A[i] : i \in 1..3} \cup {B[i] : i \in 1..7} \cup {C[1]}
  <1>1. A \in Seq(U) /\ B \in Seq(U) /\ C \in Seq(U)
    BY IsASeq
  <1>2. /\ A \o B \in Seq(U)
        /\ Len(A \o B) = 10
        /\ \A i \in 1..10 : (A \o B)[i] = IF i <= 3 THEN A[i] ELSE B[i - 3]
    BY <1>1, ConcatProperties
  <1>3. /\ Len((A \o B) \o C) = 11
        /\ \A i \in 1..11 : ((A \o B) \o C)[i] =
                              IF i <= 10 THEN (A \o B)[i] ELSE C[i - 10]
    <2>1. /\ Len((A \o B) \o C) = Len(A \o B) + Len(C)
          /\ \A i \in 1 .. Len(A \o B) + Len(C) : ((A \o B) \o C)[i] =
               IF i <= Len(A \o B) THEN (A \o B)[i] ELSE C[i - Len(A \o B)]
      BY <1>1, <1>2, ConcatProperties
    <2>2. Len(C) = 1
      OBVIOUS
    <2>3. QED
      BY <1>2, <2>1, <2>2
  <1>4. SkipScratchpadScript = (A \o B) \o C
    BY DEF SkipScratchpadScript
  <1>5. /\ WriteFrame(REG0000, RESET_CMD) = <<0, 0, 129>>
        /\ WriteFrame(61, 32) = <<0, 61, 32>>
        /\ WriteFrame(REG0000, SPI_4W_CFG) = <<0, 0, 24>>
        /\ ReadFrame(VENDOR_ID_MSB_REG) = <<128, 13, 0>>
        /\ \A i \in 1..7 :
             WriteFrame(SkipScratchpadDefaults[i][1], SkipScratchpadDefaults[i][2])
               = <<0, SkipScratchpadDefaults[i][1], SkipScratchpadDefaults[i][2]>>
    BY DEF WriteFrame, ReadFrame, REG0000, RESET_CMD, SPI_4W_CFG, SPI_READ_CMD,
           VENDOR_ID_MSB_REG, SkipScratchpadDefaults
  <1>6. \A i \in 1..11 : SkipScratchpadScript[i] =
          IF i <= 3 THEN A[i] ELSE IF i <= 10 THEN B[i - 3] ELSE C[1]
    BY <1>2, <1>3, <1>4
  <1>7. \A i \in 4..10 :
          SkipScratchpadScript[i] =
            Op(WriteFrame(SkipScratchpadDefaults[i - 3][1],
                          SkipScratchpadDefaults[i - 3][2]), "write")
    <2> SUFFICES ASSUME NEW i \in 4..10
                 PROVE  SkipScratchpadScript[i] =
                          Op(WriteFrame(SkipScratchpadDefaults[i - 3][1],
                                        SkipScratchpadDefaults[i - 3][2]), "write")
      OBVIOUS
    <2>1. i - 3 \in 1..7 /\ SkipScratchpadScript[i] = B[i - 3]
      BY <1>6
    <2>2. QED
      BY <2>1, <1>5
  <1>8. /\ SkipScratchpadScript[1] = Op(<<0, 0, 129>>, "reset")
        /\ SkipScratchpadScript[2] = Op(<<0, 61, 32>>, "write")
        /\ SkipScratchpadScript[3] = Op(<<0, 0, 24>>, "wire4")
        /\ SkipScratchpadScript[11] = Op(<<128, 13, 0>>, "read")
    BY <1>6
  <1>9. Len(SkipScratchpadScript) = 11
    BY <1>3, <1>4
  <1>10. QED
    BY <1>5, <1>7, <1>8, <1>9

\* The default table writes registers 1 to 5, 12 and 13: neither REG0000
\* nor a register whose value the chip model tracks.
LEMMA DefaultsUntracked ==
  \A i \in 1..7 :
    /\ SkipScratchpadDefaults[i][1] \in Addr \ ({REG0000} \cup Tracked)
    /\ SkipScratchpadDefaults[i][2] \in Byte
  <1> SUFFICES ASSUME NEW i \in 1..7
               PROVE  /\ SkipScratchpadDefaults[i][1] \in Addr \ ({REG0000} \cup Tracked)
                      /\ SkipScratchpadDefaults[i][2] \in Byte
    OBVIOUS
  <1>1. /\ SkipScratchpadDefaults[i][1] \in {1, 2, 3, 4, 5, 12, 13}
        /\ SkipScratchpadDefaults[i][2] \in {0, 4, 5, 6, 86}
    <2>1. CASE i = 1
      BY <2>1 DEF SkipScratchpadDefaults
    <2>2. CASE i = 2
      BY <2>2 DEF SkipScratchpadDefaults
    <2>3. CASE i = 3
      BY <2>3 DEF SkipScratchpadDefaults
    <2>4. CASE i = 4
      BY <2>4 DEF SkipScratchpadDefaults
    <2>5. CASE i = 5
      BY <2>5 DEF SkipScratchpadDefaults
    <2>6. CASE i = 6
      BY <2>6 DEF SkipScratchpadDefaults
    <2>7. CASE i = 7
      BY <2>7 DEF SkipScratchpadDefaults
    <2>8. i = 1 \/ i = 2 \/ i = 3 \/ i = 4 \/ i = 5 \/ i = 6 \/ i = 7
      OBVIOUS
    <2>9. QED
      BY <2>1, <2>2, <2>3, <2>4, <2>5, <2>6, <2>7, <2>8
  <1>2. {1, 2, 3, 4, 5, 12, 13} \subseteq Addr \ ({REG0000} \cup Tracked)
    BY DEF Addr, REG0000, Tracked, SCRATCHPAD, MUXOUT_REG
  <1>3. {0, 4, 5, 6, 86} \subseteq Byte
    BY DEF Byte
  <1>4. QED
    BY <1>1, <1>2, <1>3

\* Each of the first ten frames is a write; all but the reset and the
\* 4-wire configuration leave the chip as it is.
LEMMA SkipScratchpadWrites ==
  ASSUME NEW n \in 1..10
  PROVE  \E a \in Addr, v \in Byte :
           /\ SkipScratchpadScript[n].f = WriteFrame(a, v)
           /\ n = 1 => a = REG0000 /\ v = RESET_CMD
           /\ n = 3 => a = REG0000 /\ v = SPI_4W_CFG
           /\ n \notin {1, 3} => a \notin {REG0000} \cup Tracked
  <1>0. /\ {REG0000, 61} \subseteq Addr /\ {RESET_CMD, SPI_4W_CFG, 32} \subseteq Byte
        /\ 61 \notin {REG0000} \cup Tracked
    BY DEF Addr, Byte, REG0000, RESET_CMD, SPI_4W_CFG, Tracked, SCRATCHPAD,
           MUXOUT_REG
  <1>1. CASE n = 1
    <2>1. SkipScratchpadScript[n].f = WriteFrame(REG0000, RESET_CMD)
      BY <1>1, SkipScratchpadFrames DEF Op
    <2>2. QED
      BY <1>0, <1>1, <2>1
  <1>4. CASE n = 2
    <2>1. SkipScratchpadScript[n].f = WriteFrame(61, 32)
      BY <1>4, SkipScratchpadFrames DEF Op
    <2>2. QED
      BY <1>0, <1>4, <2>1
  <1>5. CASE n = 3
    <2>1. SkipScratchpadScript[n].f = WriteFrame(REG0000, SPI_4W_CFG)
      BY <1>5, SkipScratchpadFrames DEF Op
    <2>2. QED
      BY <1>0, <1>5, <2>1
  <1>2. CASE n \in 4..10
    <2>1. n - 3 \in 1..7
      BY <1>2
    <2>2. QED
      BY <1>2, <2>1, SkipScratchpadFrames, DefaultsUntracked DEF Op
  <1>3. QED
    BY <1>1, <1>2, <1>4, <1>5


\* Every frame of the script checks its ioctl's result.
LEMMA SkipScratchpadChecked ==
  \A n \in 1..11 : SkipScratchpadScript[n].check
  <1> SUFFICES ASSUME NEW n \in 1..11 PROVE SkipScratchpadScript[n].check
    OBVIOUS
  <1>1. CASE n \in 4..10
    <2>1. n - 3 \in 1..7
      BY <1>1
    <2>2. QED
      BY <1>1, <2>1, SkipScratchpadFrames DEF Op
  <1>2. CASE n \in {1, 2, 3, 11}
    BY <1>2, SkipScratchpadFrames DEF Op
  <1>3. QED
    BY <1>1, <1>2

(***************************************************************************)
(* The inductive invariant                                                *)
(***************************************************************************)
\* skip_scratchpad_test.c is the program that runs.
SkipOnly == Programs = {"skip_scratchpad"}

\* After the 4-wire write (frame 3) a present chip has SDO on, and once
\* the program is done rx_buffer[2] of the last read is the chip's MSB of
\* the vendor ID, or 0 if there is no chip.
DInv ==
  /\ prog = "skip_scratchpad"
  /\ chip \in ChipState
  /\ k \in 1..12 /\ rx \in Seq(Byte) /\ Len(rx) = k - 1
  /\ status \in {"run", "failed", "done"}
  /\ status = "run" => k \in 1..11
  /\ status = "done" =>
       k = 12 /\ rx[11] = IF chip.present THEN ReadOnly[VENDOR_ID_MSB_REG] ELSE 0
  /\ status = "run" /\ k >= 4 /\ chip.present => chip.sdo

LEMMA DInvInit == SkipOnly /\ Init => DInv
  BY EmptySeq DEF SkipOnly, Init, DInv, ChipState, Byte

\* The chip states one transfer of frame n may lead to are chip states.
LEMMA XferChipState ==
  ASSUME NEW c \in ChipState, NEW n \in 1..11
  PROVE  \A x \in Xfer(c, SkipScratchpadScript[n].f) :
           x[2] \in ChipState /\ x[1][3] \in Byte
  <1>1. CASE n \in 1..10
    <2>1. PICK a \in Addr, v \in Byte :
            SkipScratchpadScript[n].f = WriteFrame(a, v)
      BY <1>1, SkipScratchpadWrites
    <2>2. Xfer(c, SkipScratchpadScript[n].f) =
            { << <<0, 0, 0>>, c2 >> : c2 \in ChipWrite(c, a, v) }
      BY <2>1, XferWrite
    <2>3. QED
      BY <2>2, ChipWriteType DEF Byte
  <1>2. CASE n = 11
    <2>1. SkipScratchpadScript[n].f = ReadFrame(VENDOR_ID_MSB_REG)
      BY <1>2, SkipScratchpadFrames DEF Op
    <2>2. VENDOR_ID_MSB_REG \in Addr
      BY DEF VENDOR_ID_MSB_REG, Addr
    <2>3. Xfer(c, SkipScratchpadScript[n].f) =
            { << <<0, 0, ChipRead(c, VENDOR_ID_MSB_REG)>>, c >> }
      BY <2>1, <2>2, XferRead
    <2>4. QED
      BY <2>2, <2>3, ChipReadType
  <1>3. QED
    BY <1>1, <1>2


LEMMA DInvStep == DInv /\ [Next]_vars => DInv'
  <1> SUFFICES ASSUME DInv, [Next]_vars PROVE DInv'
    OBVIOUS
  <1> DEFINE S == SkipScratchpadScript
  <1>0. Script(prog) = S /\ Len(S) = 11
    BY SkipScratchpadFrames DEF DInv, Script
  <1>1. CASE Transfer
    <2>1. status = "run" /\ k \in 1..11 /\ prog' = prog /\ k' = k + 1
      BY <1>1 DEF Transfer, DInv
    <2>0. status' = IF k = 11 THEN "done" ELSE "run"
      <3>1. status' = IF k = Len(Script(prog)) THEN "done" ELSE "run"
        BY <1>1 DEF Transfer
      <3>2. QED
        BY <1>0, <3>1
    <2>2. PICK x \in Xfer(chip, S[k].f) :
            chip' = x[2] /\ rx' = Append(rx, x[1][3])
      BY <1>0, <1>1 DEF Transfer
    <2>3. /\ chip' \in ChipState /\ rx' \in Seq(Byte) /\ Len(rx') = k
          /\ rx'[k] = x[1][3]
      <3>1. x[2] \in ChipState /\ x[1][3] \in Byte
        BY <2>1, XferChipState DEF DInv
      <3>2. QED
        BY <2>1, <2>2, <3>1, AppendProperties DEF DInv
    <2>4. CASE k \in 1..10
      <3>1. status' = "run"
        BY <2>0, <2>4
      <3>2. PICK a \in Addr, v \in Byte :
              /\ S[k].f = WriteFrame(a, v)
              /\ k = 1 => a = REG0000 /\ v = RESET_CMD
              /\ k = 3 => a = REG0000 /\ v = SPI_4W_CFG
              /\ k \notin {1, 3} => a \notin {REG0000} \cup Tracked
        BY <2>4, SkipScratchpadWrites
      <3>3. chip' \in ChipWrite(chip, a, v)
        <4>1. Xfer(chip, S[k].f) = { << <<0, 0, 0>>, c2 >> : c2 \in ChipWrite(chip, a, v) }
          BY <3>2, XferWrite DEF DInv
        <4>2. QED
          BY <2>2, <4>1
      <3>4. k + 1 >= 4 /\ chip'.present => chip'.sdo
        <4>1. CASE k = 3
          BY <3>2, <3>3, <4>1, ChipWriteWire, ChipWriteKeepsPresence DEF DInv
        <4>2. CASE k \in 4..10
          <5>1. chip' = chip
            BY <3>2, <3>3, <4>2, ChipWriteUntracked
          <5>2. QED
            BY <2>1, <4>2, <5>1 DEF DInv
        <4>3. QED
          BY <2>4, <4>1, <4>2
      <3>5. QED
        BY <2>1, <2>3, <2>4, <3>1, <3>4 DEF DInv
    <2>5. CASE k = 11
      <3>1. status' = "done"
        BY <2>0, <2>5
      <3>2. S[k].f = ReadFrame(VENDOR_ID_MSB_REG) /\ VENDOR_ID_MSB_REG \in Addr
        BY <2>5, SkipScratchpadFrames DEF Op, VENDOR_ID_MSB_REG, Addr
      <3>3. chip' = chip /\ x[1][3] = ChipRead(chip, VENDOR_ID_MSB_REG)
        <4>1. Xfer(chip, S[k].f) = { << <<0, 0, ChipRead(chip, VENDOR_ID_MSB_REG)>>, chip >> }
          BY <3>2, XferRead DEF DInv
        <4>2. QED
          BY <2>2, <4>1
      <3>4. ChipRead(chip, VENDOR_ID_MSB_REG) =
              IF chip.present THEN ReadOnly[VENDOR_ID_MSB_REG] ELSE 0
        <4>1. CASE chip.present
          <5>1. chip.sdo
            BY <2>1, <2>5, <4>1 DEF DInv
          <5>2. QED
            BY <4>1, <5>1, ChipReadPresent
        <4>2. CASE ~chip.present
          BY <4>2, ChipReadAbsent
        <4>3. QED
          BY <4>1, <4>2
      <3>5. QED
        BY <2>1, <2>3, <2>5, <3>1, <3>3, <3>4 DEF DInv
    <2>6. QED
      BY <2>1, <2>4, <2>5
  <1>2. CASE TransferFails
    <2>1. status = "run" /\ k \in 1..11
      BY <1>2 DEF TransferFails, DInv
    <2>2. S[k].check
      BY <2>1, SkipScratchpadChecked
    <2>3. /\ status' = "failed" /\ UNCHANGED << rx, k, prog >>
          /\ chip' \in {chip} \cup {x[2] : x \in Xfer(chip, S[k].f)}
      BY <1>0, <1>2, <2>2 DEF TransferFails
    <2>4. chip' \in ChipState
      BY <2>1, <2>3, XferChipState DEF DInv
    <2>5. QED
      BY <2>3, <2>4 DEF DInv
  <1>3. CASE Finished \/ UNCHANGED vars
    BY <1>3 DEF Finished, vars, DInv
  <1>4. QED
    BY <1>1, <1>2, <1>3 DEF Next


\* Frame n does what its comment says, from any chip state.
LEMMA FrameHonoured ==
  ASSUME NEW c \in ChipState, NEW n \in 1..11
  PROVE  \A x \in Xfer(c, SkipScratchpadScript[n].f) :
           Honoured(SkipScratchpadScript[n].says, SkipScratchpadScript[n].f, c, x[2])
  <1> DEFINE S == SkipScratchpadScript
  <1>1. CASE n = 1
    <2>1. S[n].says = "reset" /\ S[n].f = WriteFrame(REG0000, RESET_CMD)
      BY <1>1, SkipScratchpadFrames DEF Op
    <2>2. Xfer(c, S[n].f) =
            { << <<0, 0, 0>>, c2 >> : c2 \in ChipWrite(c, REG0000, RESET_CMD) }
      <3>1. REG0000 \in Addr /\ RESET_CMD \in Byte
        BY DEF REG0000, RESET_CMD, Addr, Byte
      <3>2. QED
        BY <2>1, <3>1, XferWrite
    <2>3. c.present => \A c2 \in ChipWrite(c, REG0000, RESET_CMD) : c2.regs = RegDefault
      BY ChipWriteReset
    <2>4. QED
      BY <2>1, <2>2, <2>3 DEF Honoured
  <1>2. CASE n = 3
    <2>1. S[n].says = "wire4" /\ S[n].f = WriteFrame(REG0000, SPI_4W_CFG)
      BY <1>2, SkipScratchpadFrames DEF Op
    <2>2. Xfer(c, S[n].f) =
            { << <<0, 0, 0>>, c2 >> : c2 \in ChipWrite(c, REG0000, SPI_4W_CFG) }
      <3>1. REG0000 \in Addr /\ SPI_4W_CFG \in Byte
        BY DEF REG0000, SPI_4W_CFG, Addr, Byte
      <3>2. QED
        BY <2>1, <3>1, XferWrite
    <2>3. c.present => \A c2 \in ChipWrite(c, REG0000, SPI_4W_CFG) : c2.sdo
      BY ChipWriteWire
    <2>4. QED
      BY <2>1, <2>2, <2>3 DEF Honoured
  <1>3. CASE n \in {2} \cup 4..10
    <2>1. S[n].says = "write"
      <3>1. CASE n = 2
        BY <3>1, SkipScratchpadFrames DEF Op
      <3>2. CASE n \in 4..10
        <4>1. n - 3 \in 1..7
          BY <3>2
        <4>2. QED
          BY <3>2, <4>1, SkipScratchpadFrames DEF Op
      <3>3. QED
        BY <1>3, <3>1, <3>2
    <2>2. PICK a \in Addr, v \in Byte : S[n].f = WriteFrame(a, v)
      BY <1>3, SkipScratchpadWrites
    <2>3. ~IsRead(S[n].f)
      BY <2>2, WriteFrameLaw
    <2>4. QED
      BY <2>1, <2>3 DEF Honoured
  <1>4. CASE n = 11
    <2>1. S[n].says = "read" /\ S[n].f = ReadFrame(VENDOR_ID_MSB_REG)
      BY <1>4, SkipScratchpadFrames DEF Op
    <2>2. IsRead(S[n].f)
      <3>1. VENDOR_ID_MSB_REG \in Addr
        BY DEF VENDOR_ID_MSB_REG, Addr
      <3>2. QED
        BY <2>1, <3>1, ReadFrameLaw
    <2>3. QED
      BY <2>1, <2>2 DEF Honoured
  <1>5. QED
    BY <1>1, <1>2, <1>3, <1>4

(* DiagnosisSound for skip_scratchpad_test.c: from whatever state a       *)
(* previous program or a power cycle left the chip in, a run that gets to *)
(* the end reports the chip working exactly when it is there and "no     *)
(* response" exactly when it is not: the reset and the 4-wire write come *)
(* before the read of REG000D, and the default table never touches       *)
(* REG0000.                                                              *)
THEOREM SkipScratchpadSound ==
  ASSUME SkipOnly
  PROVE  Spec => []DiagnosisSound
  <1>1. DInv => DiagnosisSound
    BY DEF DInv, DiagnosisSound, Verdict, Graded, ReadOnly, VENDOR_ID_MSB_REG,
           VENDOR_ID_LSB_REG
  <1>2. QED
    BY <1>1, DInvInit, DInvStep, PTL DEF Spec

(* FramesDoWhatTheySay for skip_scratchpad_test.c: every frame it sends   *)
(* does what the comment beside it says (the 0x81 reset resets, the 0x18 *)
(* write enables SDO, the writes and the read carry the right flag),     *)
(* whatever the chip's state when the frame is sent.                     *)
THEOREM SkipScratchpadFramesHonoured ==
  ASSUME SkipOnly
  PROVE  Spec => []FramesDoWhatTheySay
  <1>1. DInv => FramesDoWhatTheySay
    <2> SUFFICES ASSUME DInv, status = "run"
                 PROVE  \A x \in Xfer(chip, SkipScratchpadScript[k].f) :
                          Honoured(SkipScratchpadScript[k].says,
                                   SkipScratchpadScript[k].f, chip, x[2])
      BY DEF FramesDoWhatTheySay, DInv, Script
    <2>. QED
      BY FrameHonoured DEF DInv
  <1>2. QED
    BY <1>1, DInvInit, DInvStep, PTL DEF Spec

=============================================================================
