--------------------------- MODULE RegisterCodec ---------------------------
(***************************************************************************)
(* The 3-byte register frame of the ADF4377 / ADF4382 / ADF4368 serial     *)
(* control port, and the chip at the far end of the wire.                  *)
(*                                                                         *)
(* Frame: byte 1 bit 7 is the read flag, byte 1 bits 6..0 and byte 2 hold  *)
(* the 15-bit register address, byte 3 is the data byte (write payload,   *)
(* or the register value in the response to a read).  The test programs   *)
(* build these frames by hand (tx_buffer[0..2]); the drivers build the     *)
(* same frames in adf43xx_spi_read / adf43xx_spi_write.                     *)
(*                                                                         *)
(* The chip is the environment, not code of the repository.  What the      *)
(* model assumes of it, and why, is in README.md: an absent or silent chip *)
(* reads as all zeros; a write of the mirrored soft-reset bits to REG0000  *)
(* resets the register file and leaves SDO (4-wire read-back) disabled;    *)
(* the SDO_ACTIVE bits of REG0000 enable read-back.                        *)
(***************************************************************************)
EXTENDS Integers

Byte == 0..255
Addr == 0..32767
Frame == Byte \X Byte \X Byte

\* Bit of x with weight w (w a power of two).
Bit(x, w) == (x \div w) % 2

(***************************************************************************)
(* Frame encoding, as the programs write it (tx_buffer[0..2]).            *)
(***************************************************************************)
SPI_READ_CMD == 128

ReadFrame(a) == << SPI_READ_CMD + a \div 256, a % 256, 0 >>
WriteFrame(a, v) == << a \div 256, a % 256, v >>

IsRead(f) == f[1] >= SPI_READ_CMD
FrameAddr(f) == (f[1] % SPI_READ_CMD) * 256 + f[2]
FrameData(f) == f[3]

(***************************************************************************)
(* Register map: the registers the models track.                          *)
(***************************************************************************)
REG0000 == 0          \* interface config: soft reset, SDO_ACTIVE
SCRATCHPAD == 10      \* REG000A, no functional effect
MUXOUT_REG == 29      \* REG001D on the ADF4377: MUXOUT in bits [7:4]
VENDOR_ID_LSB_REG == 12
VENDOR_ID_MSB_REG == 13
Tracked == {SCRATCHPAD, MUXOUT_REG}
ReadOnly == [a \in {VENDOR_ID_LSB_REG, VENDOR_ID_MSB_REG} |->
               IF a = VENDOR_ID_LSB_REG THEN 86 ELSE 4]     \* 0x56, 0x04

RESET_CMD == 129      \* 0x81: both mirrored soft-reset bits
SPI_4W_CFG == 24      \* 0x18: SDO_ACTIVE and its mirror (4-wire read-back)
RegDefault == [a \in Tracked |-> 0]

(***************************************************************************)
(* read-modify-write of a register field: (old & ~mask) | (value & mask), *)
(* one bit at a time.                                                     *)
(***************************************************************************)
UpdateBits(old, mask, val) ==
  LET s(w) == IF Bit(mask, w) = 1 THEN Bit(val, w) ELSE Bit(old, w)
  IN  s(1) + 2 * s(2) + 4 * s(4) + 8 * s(8)
        + 16 * s(16) + 32 * s(32) + 64 * s(64) + 128 * s(128)

(***************************************************************************)
(* The chip.  A chip state is [present, sdo, regs].  A write frame gives  *)
(* the set of chip states it may lead to (two only where the bits written *)
(* leave the outcome to the silicon: one of a mirrored pair set).         *)
(***************************************************************************)
ChipState == [present : BOOLEAN, sdo : BOOLEAN, regs : [Tracked -> Byte]]

Mirrored(v, hi, lo) ==
  IF Bit(v, hi) = Bit(v, lo) THEN {Bit(v, hi) = 1} ELSE BOOLEAN

ChipWrite(c, a, v) ==
  IF ~c.present THEN {c}
  ELSE IF a = REG0000
    THEN { [present |-> TRUE, sdo |-> s,
            regs |-> IF r THEN RegDefault ELSE c.regs] :
             s \in Mirrored(v, 16, 8), r \in Mirrored(v, 128, 1) }
  ELSE IF a \in Tracked THEN { [c EXCEPT !.regs[a] = v] }
  ELSE {c}

ChipRead(c, a) ==
  IF ~(c.present /\ c.sdo) THEN 0
  ELSE IF a \in Tracked THEN c.regs[a]
  ELSE IF a \in DOMAIN ReadOnly THEN ReadOnly[a]
  ELSE 0

\* The responses and successor chip states of one 3-byte transfer.
Xfer(c, f) ==
  IF IsRead(f)
    THEN { << <<0, 0, ChipRead(c, FrameAddr(f))>>, c >> }
    ELSE { << <<0, 0, 0>>, c2 >> : c2 \in ChipWrite(c, FrameAddr(f), FrameData(f)) }
=============================================================================
