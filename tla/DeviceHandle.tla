---------------------------- MODULE DeviceHandle ----------------------------
(***************************************************************************)
(* The device-handle lifecycle as the test programs drive it, with every   *)
(* program running as its own process against one shared chip.            *)
(*                                                                         *)
(* Each process runs ADF4377_Test/src/platform/linux/main.c: init the      *)
(* device, read REG001D, update its MUXOUT field to HIGH with the driver's *)
(* read-modify-write, read it back and check the field, remove the device. *)
(* Device init follows the sequence basic_example.c lays out inline (SPI   *)
(* bind, soft reset, 4-wire config, output voltage, register defaults,     *)
(* scratchpad write and read-back) and ends with the frequency program     *)
(* the driver's init applies.  Every bus transfer is one atomic step (the *)
(* kernel serialises the messages of one bus), so the steps of different  *)
(* processes interleave transfer by transfer; any transfer may fail.       *)
(*                                                                         *)
(* A process may instead run adf4377_sdz's vendor_id_example.c: the same  *)
(* init, then read REG000C and REG000D, compare (msb << 8) | lsb with      *)
(* ADF4377_VENDOR_ID_LSB (ret = -1 on a mismatch), and remove the device, *)
(* discarding remove's result.  Which program a process runs is chosen at *)
(* its start.                                                             *)
(***************************************************************************)
EXTENDS Integers, RegisterCodec

CONSTANTS
  Proc,       \* processes running the program against the same chip
  Spi4Wire,   \* init_param.spi4wire (common_data.c: true)
  ADF4377_VENDOR_ID_LSB  \* the driver header's macro (not in the repository)

ASSUME ProcAssumption == Proc # {}
ASSUME Spi4WireAssumption == Spi4Wire \in BOOLEAN
ASSUME VendorIdAssumption == ADF4377_VENDOR_ID_LSB \in 0..65535

VARIABLES
  chip,       \* the chip: [present, sdo, regs]
  pc,         \* where each process is in main() / adf4377_init()
  life,       \* the lifecycle state of each process's device handle
  ret,        \* each process's ret variable (its exit status once done)
  rb,         \* each process's read_back (and update_bit's old value)
  ioFailed,   \* history: some I/O call of the process has failed
  prog,       \* the program each process runs
  vendor_id_lsb, vendor_id_msb   \* example_main's locals

vars == << chip, pc, life, ret, rb, ioFailed, prog, vendor_id_lsb, vendor_id_msb >>

\* What only example_main changes.
exv == << prog, vendor_id_lsb, vendor_id_msb >>

(***************************************************************************)
(* Constants of the code.                                                 *)
(***************************************************************************)
ETRANSPORT == -5               \* a failed spidev transfer, propagated
EINVAL == -22                  \* scratchpad mismatch in init
CHECK_FAILED == -1             \* main.c: MUXOUT read-back mismatch
SPI_SCRATCHPAD_TEST == 90      \* 0x5A
MUXOUT_MSK == 240              \* NO_OS_GENMASK(7, 4)
MUXOUT(x) == 16 * x            \* no_os_field_prep(MUXOUT_MSK, x)
MUXOUT_HIGH == 8
MUXOUT_HIGH_Z == 0
MuxField(v) == (v \div 16) % 16  \* (read_back >> 4) & 0x0F
VendorId(msb, lsb) == msb * 256 + lsb  \* (vendor_id_msb << 8) | vendor_id_lsb
CMOS_REG == 61                 \* REG003D, output voltage (not tracked)
FREQ_REG == 16                 \* first divider register (not tracked)

\* Mutant: the enable flag inverted (spi_mode_test.c writes 0x00 as "4-wire").
Spi3WCfgInverted(en) == IF en THEN 0 ELSE SPI_4W_CFG
Spi3WCfg(en) == IF en THEN SPI_4W_CFG ELSE 0

\* common_data.c: adf4377_ip, the fields init uses.
adf4377_ip == [spi4wire |-> Spi4Wire, muxout_select |-> MUXOUT_HIGH_Z]

Programs == {"ADF4377_Test", "vendor_id_example"}

InitLabels == {"spi_init", "reset", "wire", "cmos", "defaults",
               "scratch_w", "scratch_r", "freq"}
\* main() of ADF4377_Test, then example_main() of vendor_id_example.
MainLabels == {"read_mux", "upd_r", "upd_w", "verify", "remove",
               "read_lsb", "read_msb", "check_id", "cleanup"}
Labels == InitLabels \cup MainLabels \cup {"done"}
LifeStates == {"none", "bound", "configured", "verified", "active",
               "released", "removed"}
Live == {"bound", "configured", "verified", "active"}

(***************************************************************************)
(* Bus helpers.  A failed write may or may not have reached the chip.     *)
(***************************************************************************)
WriteResults(a, v) == { r[2] : r \in Xfer(chip, WriteFrame(a, v)) }
ReadValue(a) == (CHOOSE r \in Xfer(chip, ReadFrame(a)) : TRUE)[1][3]

Goto(p, l) == pc' = [pc EXCEPT ![p] = l]
Fail(p) == ioFailed' = [ioFailed EXCEPT ![p] = TRUE]

\* adf4377_init's error exit: release the SPI descriptor, free the device.
InitFail(p, err) ==
  /\ Goto(p, "done")
  /\ life' = [life EXCEPT ![p] = "released"]
  /\ ret' = [ret EXCEPT ![p] = err]

\* Mutant: the error exit does not return and falls through to cleanup.
MainFailFallThrough(p, err) ==
  /\ Goto(p, "remove")
  /\ ret' = [ret EXCEPT ![p] = err]
  /\ life' \in { [life EXCEPT ![p] = l] : l \in {"removed", "active"} }

\* main.c's error exit after init: adf4377_remove(dev); return ret;
\* The result of remove is discarded; a failed remove leaves the device.
MainFail(p, err) ==
  /\ Goto(p, "done")
  /\ ret' = [ret EXCEPT ![p] = err]
  /\ life' \in { [life EXCEPT ![p] = l] : l \in {"removed", "active"} }

(***************************************************************************)
(* adf4377_init                                                          *)
(***************************************************************************)
SpiInit(p) ==
  /\ pc[p] = "spi_init"
  /\ \/ /\ Goto(p, "reset")
        /\ life' = [life EXCEPT ![p] = "bound"]
        /\ UNCHANGED << ret, ioFailed >>
     \/ InitFail(p, ETRANSPORT) /\ Fail(p)
  /\ UNCHANGED << chip, rb, exv >>

\* One register write of the init sequence; a failure ends init.
InitWrite(p, l, a, v, next, lnext) ==
  /\ pc[p] = l
  /\ \/ /\ chip' \in WriteResults(a, v)
        /\ Goto(p, next)
        /\ life' = [life EXCEPT ![p] = lnext]
        /\ UNCHANGED << ret, ioFailed >>
     \/ /\ chip' \in WriteResults(a, v) \cup {chip}
        /\ InitFail(p, ETRANSPORT) /\ Fail(p)
  /\ UNCHANGED << rb, exv >>

SoftReset(p) == InitWrite(p, "reset", REG0000, RESET_CMD, "wire", "bound")
WireMode(p) ==
  InitWrite(p, "wire", REG0000, Spi3WCfg(adf4377_ip.spi4wire), "cmos", "bound")
CmosOutput(p) == InitWrite(p, "cmos", CMOS_REG, 32, "defaults", "bound")
RegDefaults(p) ==
  InitWrite(p, "defaults", MUXOUT_REG, MUXOUT(adf4377_ip.muxout_select),
            "scratch_w", "configured")
ScratchWrite(p) ==
  InitWrite(p, "scratch_w", SCRATCHPAD, SPI_SCRATCHPAD_TEST, "scratch_r", "configured")
\* Where the program goes once init has returned 0.
MainEntry(p) == IF prog[p] = "ADF4377_Test" THEN "read_mux" ELSE "read_lsb"

ProgramFreq(p) == InitWrite(p, "freq", FREQ_REG, 40, MainEntry(p), "active")

\* Mutant: the scratchpad comparison dropped (basic_example2 skips it).
ScratchpadAlwaysOk(v) == TRUE

\* The scratchpad read-back: the init's check that the chip is speaking.
ScratchpadOk(v) == v = SPI_SCRATCHPAD_TEST

ScratchRead(p) ==
  /\ pc[p] = "scratch_r"
  /\ \/ /\ ScratchpadOk(ReadValue(SCRATCHPAD))
        /\ Goto(p, "freq")
        /\ life' = [life EXCEPT ![p] = "verified"]
        /\ UNCHANGED << ret, ioFailed >>
     \/ /\ ~ScratchpadOk(ReadValue(SCRATCHPAD))
        /\ InitFail(p, EINVAL)
        /\ UNCHANGED ioFailed
     \/ InitFail(p, ETRANSPORT) /\ Fail(p)
  /\ UNCHANGED << chip, rb, exv >>

(***************************************************************************)
(* main(): steps 2 to 5                                                  *)
(***************************************************************************)
\* A register read of main(); on success read_back takes the value.
MainRead(p, l, next) ==
  /\ pc[p] = l
  /\ \/ /\ rb' = [rb EXCEPT ![p] = ReadValue(MUXOUT_REG)]
        /\ Goto(p, next)
        /\ UNCHANGED << life, ret, ioFailed >>
     \/ MainFail(p, ETRANSPORT) /\ Fail(p) /\ UNCHANGED rb
  /\ UNCHANGED << chip, exv >>

ReadMux(p) == MainRead(p, "read_mux", "upd_r")
UpdateRead(p) == MainRead(p, "upd_r", "upd_w")

\* adf4377_spi_update_bit, second transfer: write back the merged value.
UpdateWrite(p) ==
  LET new == UpdateBits(rb[p], MUXOUT_MSK, MUXOUT(MUXOUT_HIGH)) IN
  /\ pc[p] = "upd_w"
  /\ \/ /\ chip' \in WriteResults(MUXOUT_REG, new)
        /\ Goto(p, "verify")
        /\ UNCHANGED << life, ret, ioFailed >>
     \/ /\ chip' \in WriteResults(MUXOUT_REG, new) \cup {chip}
        /\ MainFail(p, ETRANSPORT) /\ Fail(p)
  /\ UNCHANGED << rb, exv >>

\* Step 4: read back and check the MUXOUT field; a mismatch sets ret = -1.
Verify(p) ==
  LET v == ReadValue(MUXOUT_REG) IN
  /\ pc[p] = "verify"
  /\ \/ /\ rb' = [rb EXCEPT ![p] = v]
        /\ ret' = [ret EXCEPT ![p] =
                     IF MuxField(v) = MUXOUT_HIGH THEN @ ELSE CHECK_FAILED]
        /\ Goto(p, "remove")
        /\ UNCHANGED << life, ioFailed >>
     \/ MainFail(p, ETRANSPORT) /\ Fail(p) /\ UNCHANGED rb
  /\ UNCHANGED << chip, exv >>

\* Mutant: remove's status accumulated into ret (ret += remove(dev)).
RemoveAccumulate(p) ==
  /\ pc[p] = "remove"
  /\ Goto(p, "done")
  /\ \/ /\ UNCHANGED << ret, ioFailed >>
        /\ life' = [life EXCEPT ![p] = "removed"]
     \/ /\ ret' = [ret EXCEPT ![p] = @ + ETRANSPORT]
        /\ UNCHANGED life
        /\ Fail(p)
  /\ UNCHANGED << chip, rb, exv >>

\* Step 5: ret = adf4377_remove(dev); the exit status is this ret.
Remove(p) ==
  /\ pc[p] = "remove"
  /\ Goto(p, "done")
  /\ \/ /\ ret' = [ret EXCEPT ![p] = 0]
        /\ life' = [life EXCEPT ![p] = "removed"]
        /\ UNCHANGED ioFailed
     \/ /\ ret' = [ret EXCEPT ![p] = ETRANSPORT]
        /\ UNCHANGED life
        /\ Fail(p)
  /\ UNCHANGED << chip, rb, exv >>

(***************************************************************************)
(* vendor_id_example.c: example_main() after init                        *)
(***************************************************************************)
\* ret = adf4377_spi_read(dev, 0x0C, &vendor_id_lsb); an error removes the
\* device and returns.
ReadVendorLsb(p) ==
  /\ pc[p] = "read_lsb"
  /\ \/ /\ vendor_id_lsb' =
             [vendor_id_lsb EXCEPT ![p] = ReadValue(VENDOR_ID_LSB_REG)]
        /\ Goto(p, "read_msb")
        /\ UNCHANGED << life, ret, ioFailed >>
     \/ MainFail(p, ETRANSPORT) /\ Fail(p) /\ UNCHANGED vendor_id_lsb
  /\ UNCHANGED << chip, rb, prog, vendor_id_msb >>

\* ret = adf4377_spi_read(dev, 0x0D, &vendor_id_msb); likewise.
ReadVendorMsb(p) ==
  /\ pc[p] = "read_msb"
  /\ \/ /\ vendor_id_msb' =
             [vendor_id_msb EXCEPT ![p] = ReadValue(VENDOR_ID_MSB_REG)]
        /\ Goto(p, "check_id")
        /\ UNCHANGED << life, ret, ioFailed >>
     \/ MainFail(p, ETRANSPORT) /\ Fail(p) /\ UNCHANGED vendor_id_msb
  /\ UNCHANGED << chip, rb, prog, vendor_id_lsb >>

\* vendor_id = (msb << 8) | lsb; a value other than ADF4377_VENDOR_ID_LSB
\* sets ret = -1.
CheckVendorId(p) ==
  /\ pc[p] = "check_id"
  /\ ret' = [ret EXCEPT ![p] =
              IF VendorId(vendor_id_msb[p], vendor_id_lsb[p]) = ADF4377_VENDOR_ID_LSB
                THEN @ ELSE CHECK_FAILED]
  /\ Goto(p, "cleanup")
  /\ UNCHANGED << chip, life, rb, ioFailed, exv >>

\* adf4377_remove(dev); return ret;  remove's result is discarded.
ExampleCleanup(p) ==
  /\ pc[p] = "cleanup"
  /\ Goto(p, "done")
  /\ \/ life' = [life EXCEPT ![p] = "removed"] /\ UNCHANGED ioFailed
     \/ UNCHANGED life /\ Fail(p)
  /\ UNCHANGED << chip, ret, rb, exv >>

(***************************************************************************)
(* Specification                                                         *)
(***************************************************************************)
Init ==
  /\ chip \in [present : BOOLEAN, sdo : BOOLEAN, regs : [Tracked -> {0, 255}]]
  /\ pc = [p \in Proc |-> "spi_init"]
  /\ life = [p \in Proc |-> "none"]
  /\ ret = [p \in Proc |-> 0]
  /\ rb = [p \in Proc |-> 0]
  /\ ioFailed = [p \in Proc |-> FALSE]
  /\ prog \in [Proc -> Programs]
  /\ vendor_id_lsb = [p \in Proc |-> 0]
  /\ vendor_id_msb = [p \in Proc |-> 0]

Step(p) ==
  \/ SpiInit(p) \/ SoftReset(p) \/ WireMode(p) \/ CmosOutput(p)
  \/ RegDefaults(p) \/ ScratchWrite(p) \/ ScratchRead(p) \/ ProgramFreq(p)
  \/ ReadMux(p) \/ UpdateRead(p) \/ UpdateWrite(p) \/ Verify(p) \/ Remove(p)
  \/ ReadVendorLsb(p) \/ ReadVendorMsb(p) \/ CheckVendorId(p)
  \/ ExampleCleanup(p)

\* Every program has exited: the system stops.
Terminated == \A p \in Proc : pc[p] = "done"

Next ==
  \/ \E p \in Proc : Step(p)
  \/ Terminated /\ UNCHANGED vars

Spec == Init /\ [][Next]_vars

(***************************************************************************)
(* Properties                                                            *)
(***************************************************************************)
TypeOK ==
  /\ chip \in ChipState
  /\ pc \in [Proc -> Labels]
  /\ life \in [Proc -> LifeStates]
  /\ ret \in [Proc -> {0, ETRANSPORT, EINVAL, CHECK_FAILED}]
  /\ rb \in [Proc -> Byte]
  /\ ioFailed \in [Proc -> BOOLEAN]
  /\ prog \in [Proc -> Programs]
  /\ vendor_id_lsb \in [Proc -> Byte] /\ vendor_id_msb \in [Proc -> Byte]

(* A device handle is used only while it is live: every step that issues *)
(* a bus transfer (init's writes and reads, main's reads, update_bit and *)
(* the read-back) runs on a bound, not yet released or removed device,   *)
(* and a released or removed device is never touched again: the error   *)
(* exits of adf4377_init and of main() all return at once.               *)
UsedOnlyWhileLive ==
  \A p \in Proc :
    /\ pc[p] \in (InitLabels \ {"spi_init"}) \cup MainLabels => life[p] \in Live
    /\ life[p] \in {"released", "removed"} => pc[p] = "done"

(* The scratchpad round-trip in init is the health check that tells a    *)
(* present chip from an absent one: no device passes it (verified or     *)
(* active) unless the chip is really there, whatever other programs do   *)
(* to the chip in between.                                               *)
VerifiedMeansPresent ==
  \A p \in Proc : life[p] \in {"verified", "active"} => chip.present

(* A program that runs alone against a present chip and meets no I/O     *)
(* failure exits with status 0: the init sequence (reset, 4-wire config, *)
(* defaults, scratchpad) leaves the chip readable, update_bit sets the   *)
(* MUXOUT field the read-back checks, and the vendor ID example reads    *)
(* the ID it compares with.                                              *)
PresentChipPasses ==
  \A p \in Proc :
    (pc[p] = "done" /\ chip.present /\ ~ioFailed[p]) => ret[p] = 0

(* main.c and vendor_id_example.c: a failed check sets ret = -1 before   *)
(* the final adf4377_remove; main.c reports "Test completed              *)
(* successfully!" only when ret is 0 at the end.  An error recorded      *)
(* before the final remove must survive into the exit status.            *)
ErrorSurvivesCleanup ==
  [][\A p \in Proc :
       (pc[p] \in {"remove", "cleanup"} /\ ret[p] # 0) => ret'[p] # 0]_vars
=============================================================================
