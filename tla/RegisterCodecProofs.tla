------------------------- MODULE RegisterCodecProofs -------------------------
(***************************************************************************)
(* Facts about the frame codec and the chip's register interface, for     *)
(* every address and data byte: the lemmas the device-handle proofs cite. *)
(***************************************************************************)
EXTENDS RegisterCodec, TLAPS

\* The 7/8 split of a 15-bit address across frame bytes 1 and 2.
LEMMA AddrSplit ==
  ASSUME NEW a \in Addr
  PROVE  /\ a \div 256 \in 0..127
         /\ a % 256 \in Byte
         /\ (a \div 256) * 256 + (a % 256) = a
  <1>1. a \in Int /\ 0 <= a /\ a < 32768
    BY DEF Addr
  <1>2. a \div 256 \in 0..127
    BY <1>1, SMTT(30)
  <1>3. a % 256 \in 0..255
    BY DEF Addr
  <1>4. (a \div 256) * 256 + (a % 256) = a
    BY <1>1, SMTT(30)
  <1>5. QED
    BY <1>2, <1>3, <1>4 DEF Byte

(* Decoding a read frame the programs build gives back the read flag and *)
(* the whole 15-bit address: the split of the address across bytes 1    *)
(* and 2 loses nothing (adf43xx_spi_read's tx_buffer).                    *)
THEOREM ReadFrameLaw ==
  ASSUME NEW a \in Addr
  PROVE  /\ ReadFrame(a) \in Frame
         /\ IsRead(ReadFrame(a))
         /\ FrameAddr(ReadFrame(a)) = a
  <1>1. ReadFrame(a) \in Frame
    BY AddrSplit DEF ReadFrame, Frame, Byte, SPI_READ_CMD
  <1>2. IsRead(ReadFrame(a)) /\ FrameAddr(ReadFrame(a)) = a
    BY AddrSplit DEF ReadFrame, IsRead, FrameAddr, SPI_READ_CMD
  <1>3. QED
    BY <1>1, <1>2

(* A write frame never carries the read flag, and decodes to the address *)
(* and data byte it was built from (adf43xx_spi_write's tx_buffer).       *)
THEOREM WriteFrameLaw ==
  ASSUME NEW a \in Addr, NEW v \in Byte
  PROVE  /\ WriteFrame(a, v) \in Frame
         /\ ~IsRead(WriteFrame(a, v))
         /\ FrameAddr(WriteFrame(a, v)) = a
         /\ FrameData(WriteFrame(a, v)) = v
  <1>1. WriteFrame(a, v) \in Frame
    BY AddrSplit DEF WriteFrame, Frame, Byte
  <1>2. ~IsRead(WriteFrame(a, v)) /\ FrameAddr(WriteFrame(a, v)) = a
    BY AddrSplit DEF WriteFrame, IsRead, FrameAddr, SPI_READ_CMD
  <1>3. FrameData(WriteFrame(a, v)) = v
    BY DEF WriteFrame, FrameData
  <1>4. QED
    BY <1>1, <1>2, <1>3

LEMMA BitRange ==
  ASSUME NEW x \in Int, NEW w \in Nat \ {0}
  PROVE  Bit(x, w) \in {0, 1}
  BY DEF Bit

(* update_bit's merge (old & ~mask) | (value & mask) is a byte.          *)
LEMMA UpdateBitsType ==
  ASSUME NEW old \in Int, NEW mask \in Int, NEW val \in Int
  PROVE  UpdateBits(old, mask, val) \in Byte
  <1> DEFINE s(w) == IF Bit(mask, w) = 1 THEN Bit(val, w) ELSE Bit(old, w)
  <1>1. \A w \in {1, 2, 4, 8, 16, 32, 64, 128} : s(w) \in {0, 1}
    BY BitRange
  <1>2. QED
    BY <1>1 DEF UpdateBits, Byte

(* A write frame leads only to well-formed chip states.                  *)
LEMMA ChipWriteType ==
  ASSUME NEW c \in ChipState, NEW a \in Addr, NEW v \in Byte
  PROVE  ChipWrite(c, a, v) \subseteq ChipState
  <1>1. CASE ~c.present
    BY <1>1 DEF ChipWrite
  <1>2. CASE c.present /\ a = REG0000
    <2>1. RegDefault \in [Tracked -> Byte]
      BY DEF RegDefault, Byte
    <2>2. Mirrored(v, 16, 8) \subseteq BOOLEAN /\ Mirrored(v, 128, 1) \subseteq BOOLEAN
      BY DEF Mirrored
    <2>3. c.regs \in [Tracked -> Byte]
      BY DEF ChipState
    <2>4. \A s, r \in BOOLEAN :
            [present |-> TRUE, sdo |-> s,
             regs |-> IF r THEN RegDefault ELSE c.regs] \in ChipState
      BY <2>1, <2>3 DEF ChipState
    <2>5. QED
      BY <1>2, <2>2, <2>4 DEF ChipWrite
  <1>3. CASE c.present /\ a # REG0000 /\ a \in Tracked
    BY <1>3 DEF ChipWrite, ChipState
  <1>4. CASE c.present /\ a # REG0000 /\ a \notin Tracked
    BY <1>4 DEF ChipWrite
  <1>5. QED
    BY <1>1, <1>2, <1>3, <1>4

LEMMA ChipReadType ==
  ASSUME NEW c \in ChipState, NEW a \in Addr
  PROVE  ChipRead(c, a) \in Byte
  BY DEF ChipRead, ChipState, ReadOnly, Byte, VENDOR_ID_LSB_REG,
         VENDOR_ID_MSB_REG

(* One transfer of a read frame leaves the chip alone and answers with   *)
(* the register's value; one transfer of a write frame answers zeros and *)
(* moves the chip as ChipWrite says.                                     *)
LEMMA XferRead ==
  ASSUME NEW c \in ChipState, NEW a \in Addr
  PROVE  Xfer(c, ReadFrame(a)) = { << <<0, 0, ChipRead(c, a)>>, c >> }
  <1>1. IsRead(ReadFrame(a)) /\ FrameAddr(ReadFrame(a)) = a
    BY ReadFrameLaw
  <1>2. QED
    BY <1>1 DEF Xfer

LEMMA XferWrite ==
  ASSUME NEW c \in ChipState, NEW a \in Addr, NEW v \in Byte
  PROVE  Xfer(c, WriteFrame(a, v)) =
           { << <<0, 0, 0>>, c2 >> : c2 \in ChipWrite(c, a, v) }
  <1>1. /\ ~IsRead(WriteFrame(a, v))
        /\ FrameAddr(WriteFrame(a, v)) = a
        /\ FrameData(WriteFrame(a, v)) = v
    BY WriteFrameLaw
  <1>2. QED
    BY <1>1 DEF Xfer

(* No frame makes an absent chip appear or a present one vanish: a write *)
(* moves the register file and SDO, never presence.                      *)
LEMMA ChipWriteKeepsPresence ==
  ASSUME NEW c \in ChipState, NEW a \in Addr, NEW v \in Byte
  PROVE  \A c2 \in ChipWrite(c, a, v) : c2.present = c.present
  <1> SUFFICES ASSUME NEW c2 \in ChipWrite(c, a, v) PROVE c2.present = c.present
    OBVIOUS
  <1>1. CASE ~c.present
    <2>1. c2 = c
      BY <1>1 DEF ChipWrite
    <2>2. QED
      BY <2>1
  <1>2. CASE c.present /\ a = REG0000
    <2>1. PICK s \in Mirrored(v, 16, 8), r \in Mirrored(v, 128, 1) :
            c2 = [present |-> TRUE, sdo |-> s,
                  regs |-> IF r THEN RegDefault ELSE c.regs]
      BY <1>2 DEF ChipWrite
    <2>2. c.present = TRUE
      BY <1>2 DEF ChipState
    <2>3. QED
      BY <2>1, <2>2
  <1>3. CASE c.present /\ a # REG0000 /\ a \in Tracked
    <2>1. c2 = [c EXCEPT !.regs[a] = v]
      BY <1>3 DEF ChipWrite
    <2>2. QED
      BY <2>1 DEF ChipState
  <1>4. CASE c.present /\ a # REG0000 /\ a \notin Tracked
    <2>1. c2 = c
      BY <1>4 DEF ChipWrite
    <2>2. QED
      BY <2>1
  <1>5. QED
    BY <1>1, <1>2, <1>3, <1>4

\* An absent chip answers every read with zeros.
LEMMA ChipReadAbsent ==
  ASSUME NEW c, ~c.present, NEW a
  PROVE  ChipRead(c, a) = 0
  BY DEF ChipRead


(* Writing both SDO_ACTIVE bits to REG0000 enables read-back on a present *)
(* chip: the mirrored pair leaves the silicon no choice.                 *)
LEMMA ChipWriteWire ==
  ASSUME NEW c \in ChipState, c.present
  PROVE  \A c2 \in ChipWrite(c, REG0000, SPI_4W_CFG) : c2.present /\ c2.sdo
  <1>1. Mirrored(SPI_4W_CFG, 16, 8) = {TRUE}
    <2>1. Bit(SPI_4W_CFG, 16) = 1 /\ Bit(SPI_4W_CFG, 8) = 1
      BY DEF Bit, SPI_4W_CFG
    <2>2. QED
      BY <2>1, Zenon DEF Mirrored
  <1>2. SUFFICES ASSUME NEW c2 \in ChipWrite(c, REG0000, SPI_4W_CFG)
                 PROVE  c2.present /\ c2.sdo
    OBVIOUS
  <1>3. PICK s \in Mirrored(SPI_4W_CFG, 16, 8), r \in Mirrored(SPI_4W_CFG, 128, 1) :
          c2 = [present |-> TRUE, sdo |-> s,
                regs |-> IF r THEN RegDefault ELSE c.regs]
    BY DEF ChipWrite
  <1>4. QED
    BY <1>1, <1>3

(* A write to any register but REG0000 keeps a present chip present and  *)
(* its SDO setting, and sets the register written if the model tracks it. *)
LEMMA ChipWriteOther ==
  ASSUME NEW c \in ChipState, c.present, NEW a \in Addr \ {REG0000},
         NEW v \in Byte
  PROVE  \A c2 \in ChipWrite(c, a, v) :
           /\ c2.present /\ c2.sdo = c.sdo
           /\ \A t \in Tracked : c2.regs[t] = IF t = a THEN v ELSE c.regs[t]
  <1> SUFFICES ASSUME NEW c2 \in ChipWrite(c, a, v)
               PROVE  /\ c2.present /\ c2.sdo = c.sdo
                      /\ \A t \in Tracked : c2.regs[t] = IF t = a THEN v ELSE c.regs[t]
    OBVIOUS
  <1>1. CASE a \in Tracked
    <2>1. c2 = [c EXCEPT !.regs[a] = v]
      BY <1>1 DEF ChipWrite
    <2>2. QED
      BY <1>1, <2>1 DEF ChipState
  <1>2. CASE a \notin Tracked
    <2>1. c2 = c
      BY <1>2 DEF ChipWrite
    <2>2. QED
      BY <1>2, <2>1
  <1>3. QED
    BY <1>1, <1>2

(* A present chip with SDO enabled answers a read with the register's    *)
(* value: the tracked register file, or the read-only ID bytes.          *)
LEMMA ChipReadPresent ==
  ASSUME NEW c, c.present, c.sdo
  PROVE  /\ \A t \in Tracked : ChipRead(c, t) = c.regs[t]
         /\ ChipRead(c, VENDOR_ID_LSB_REG) = ReadOnly[VENDOR_ID_LSB_REG]
         /\ ChipRead(c, VENDOR_ID_MSB_REG) = ReadOnly[VENDOR_ID_MSB_REG]
  BY DEF ChipRead, Tracked, ReadOnly, VENDOR_ID_LSB_REG, VENDOR_ID_MSB_REG,
         SCRATCHPAD, MUXOUT_REG


\* A write to a register the chip model does not track changes nothing.
LEMMA ChipWriteUntracked ==
  ASSUME NEW c, NEW a, NEW v, a \notin {REG0000} \cup Tracked
  PROVE  ChipWrite(c, a, v) = {c}
  BY DEF ChipWrite


(* Writing both mirrored soft-reset bits to REG0000 resets a present     *)
(* chip's register file.                                                 *)
LEMMA ChipWriteReset ==
  ASSUME NEW c \in ChipState, c.present
  PROVE  \A c2 \in ChipWrite(c, REG0000, RESET_CMD) :
           c2.present /\ c2.regs = RegDefault
  <1>1. Mirrored(RESET_CMD, 128, 1) = {TRUE}
    <2>1. Bit(RESET_CMD, 128) = 1 /\ Bit(RESET_CMD, 1) = 1
      BY DEF Bit, RESET_CMD
    <2>2. QED
      BY <2>1, Zenon DEF Mirrored
  <1>2. SUFFICES ASSUME NEW c2 \in ChipWrite(c, REG0000, RESET_CMD)
                 PROVE  c2.present /\ c2.regs = RegDefault
    OBVIOUS
  <1>3. PICK s \in Mirrored(RESET_CMD, 16, 8), r \in Mirrored(RESET_CMD, 128, 1) :
          c2 = [present |-> TRUE, sdo |-> s,
                regs |-> IF r THEN RegDefault ELSE c.regs]
    BY DEF ChipWrite
  <1>4. QED
    BY <1>1, <1>3

=============================================================================
