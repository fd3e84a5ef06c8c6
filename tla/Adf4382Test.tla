----------------------------- MODULE Adf4382Test -----------------------------
(***************************************************************************)
(* ADF4382_Test/src/platform/linux/main.c, one process per running copy,  *)
(* all against one shared chip.  main() inits the device, reads REG000A,  *)
(* writes 0xAA to it, reads it back and checks it (a mismatch sets        *)
(* ret = -1), reads the output frequency and the reference clock, and     *)
(* removes the device; every error exit after init removes the device     *)
(* and returns the error.                                                 *)
(*                                                                         *)
(* adf4382_init is not in the repository and follows the spec's sequence: *)
(* bind the SPI bus, soft reset, wire mode, scratchpad write and read-back *)
(* (a mismatch fails with -EINVAL), each a transfer that may fail.  The   *)
(* transfers to registers the model does not track (output voltage,       *)
(* defaults, the frequency program) and the reads of adf4382_get_rfout   *)
(* change nothing the model tracks; their failures are the failures of   *)
(* the steps that contain them.                                           *)
(***************************************************************************)
EXTENDS Integers, RegisterCodec

CONSTANT Proc     \* processes running the program against the same chip

ASSUME ProcAssumption == Proc # {}

VARIABLES
  chip,       \* the chip: [present, sdo, regs]
  pc,         \* where each process is in main() / adf4382_init()
  life,       \* the lifecycle state of each process's device handle
  ret,        \* each process's ret (its exit status once done)
  rb,         \* each process's read_back
  mismatch    \* history: the REG000A read-back of step 4 was not 0xAA

vars == << chip, pc, life, ret, rb, mismatch >>

ETRANSPORT == -5                  \* a failed spidev transfer, propagated
EINVAL == -22                     \* init's scratchpad mismatch
CHECK_FAILED == -1                \* step 4: ret = -1
TEST_VALUE == 170                 \* 0xAA, the value main() writes
ADF4382_SPI_SCRATCHPAD_TEST == 90 \* the driver's pattern (spec: non-zero)

\* common_data.c: adf4382_ip, the field the model uses.
adf4382_ip == [spi_3wire_en |-> FALSE]

\* The driver's wire-mode byte for REG0000: SDO_ACTIVE and its mirror.
WireCfg == IF adf4382_ip.spi_3wire_en THEN 0 ELSE SPI_4W_CFG

InitLabels == {"spi_init", "reset", "wire", "scratch_w", "scratch_r"}
MainLabels == {"read", "write", "verify", "rfout", "ref_clk", "remove"}
Labels == InitLabels \cup MainLabels \cup {"done"}
LifeStates == {"none", "bound", "active", "released", "removed"}
Live == {"bound", "active"}

WriteResults(a, v) == ChipWrite(chip, a, v)

Goto(p, l) == pc' = [pc EXCEPT ![p] = l]

\* adf4382_init's error exit: release the SPI descriptor, free the device;
\* main() prints the error and returns it (no remove: there is no device).
InitFail(p, err) ==
  /\ Goto(p, "done")
  /\ life' = [life EXCEPT ![p] = "released"]
  /\ ret' = [ret EXCEPT ![p] = err]

\* Mutant: an error exit that goes on to step 7 instead of returning.
MainFailFallThrough(p, err) ==
  /\ Goto(p, "remove")
  /\ ret' = [ret EXCEPT ![p] = err]
  /\ life' \in { [life EXCEPT ![p] = l] : l \in {"removed", life[p]} }

\* main()'s error exit after init: adf4382_remove(dev); return ret;
\* remove's own result is discarded; a failed remove keeps the device.
MainFail(p, err) ==
  /\ Goto(p, "done")
  /\ ret' = [ret EXCEPT ![p] = err]
  /\ life' \in { [life EXCEPT ![p] = l] : l \in {"removed", life[p]} }

(***************************************************************************)
(* adf4382_init (spec-modelled) and main()'s step 1                       *)
(***************************************************************************)
SpiInit(p) ==
  /\ pc[p] = "spi_init"
  /\ \/ Goto(p, "reset") /\ life' = [life EXCEPT ![p] = "bound"] /\ UNCHANGED ret
     \/ InitFail(p, ETRANSPORT)
  /\ UNCHANGED << chip, rb, mismatch >>

\* One register write of init; a failed transfer may have reached the chip.
InitWrite(p, l, a, v, next) ==
  /\ pc[p] = l
  /\ \/ chip' \in WriteResults(a, v) /\ Goto(p, next) /\ UNCHANGED << life, ret >>
     \/ chip' \in WriteResults(a, v) \cup {chip} /\ InitFail(p, ETRANSPORT)
  /\ UNCHANGED << rb, mismatch >>

SoftReset(p) == InitWrite(p, "reset", REG0000, RESET_CMD, "wire")
WireMode(p) == InitWrite(p, "wire", REG0000, WireCfg, "scratch_w")
ScratchWrite(p) ==
  InitWrite(p, "scratch_w", SCRATCHPAD, ADF4382_SPI_SCRATCHPAD_TEST, "scratch_r")

ScratchRead(p) ==
  /\ pc[p] = "scratch_r"
  /\ \/ /\ ChipRead(chip, SCRATCHPAD) = ADF4382_SPI_SCRATCHPAD_TEST
        /\ Goto(p, "read") /\ life' = [life EXCEPT ![p] = "active"]
        /\ UNCHANGED ret
     \/ /\ ChipRead(chip, SCRATCHPAD) # ADF4382_SPI_SCRATCHPAD_TEST
        /\ InitFail(p, EINVAL)
     \/ InitFail(p, ETRANSPORT)
  /\ UNCHANGED << chip, rb, mismatch >>

(***************************************************************************)
(* main(): steps 2 to 7                                                  *)
(***************************************************************************)
\* Step 2: adf4382_spi_read(dev, 0x0A, &read_back).
ReadScratch(p) ==
  /\ pc[p] = "read"
  /\ \/ /\ rb' = [rb EXCEPT ![p] = ChipRead(chip, SCRATCHPAD)]
        /\ Goto(p, "write") /\ UNCHANGED << life, ret >>
     \/ MainFail(p, ETRANSPORT) /\ UNCHANGED rb
  /\ UNCHANGED << chip, mismatch >>

\* Step 3: adf4382_spi_write(dev, 0x0A, 0xAA).
WriteScratch(p) ==
  /\ pc[p] = "write"
  /\ \/ /\ chip' \in WriteResults(SCRATCHPAD, TEST_VALUE)
        /\ Goto(p, "verify") /\ UNCHANGED << life, ret >>
     \/ /\ chip' \in WriteResults(SCRATCHPAD, TEST_VALUE) \cup {chip}
        /\ MainFail(p, ETRANSPORT)
  /\ UNCHANGED << rb, mismatch >>

\* Step 4: read REG000A back; a value other than 0xAA sets ret = -1.
VerifyScratch(p) ==
  LET v == ChipRead(chip, SCRATCHPAD) IN
  /\ pc[p] = "verify"
  /\ \/ /\ rb' = [rb EXCEPT ![p] = v]
        /\ ret' = [ret EXCEPT ![p] = IF v = TEST_VALUE THEN @ ELSE CHECK_FAILED]
        /\ mismatch' = [mismatch EXCEPT ![p] = v # TEST_VALUE]
        /\ Goto(p, "rfout") /\ UNCHANGED life
     \/ MainFail(p, ETRANSPORT) /\ UNCHANGED << rb, mismatch >>
  /\ UNCHANGED chip

\* Step 5: ret = adf4382_get_rfout(dev, &freq_out); the result is stored
\* in ret whatever step 4 left there.
GetRfout(p) ==
  /\ pc[p] = "rfout"
  /\ \/ ret' = [ret EXCEPT ![p] = 0] /\ Goto(p, "ref_clk") /\ UNCHANGED life
     \/ MainFail(p, ETRANSPORT)
  /\ UNCHANGED << chip, rb, mismatch >>

\* Step 6: ret = adf4382_get_ref_clk(dev, &ref_clk).
GetRefClk(p) ==
  /\ pc[p] = "ref_clk"
  /\ \/ ret' = [ret EXCEPT ![p] = 0] /\ Goto(p, "remove") /\ UNCHANGED life
     \/ MainFail(p, ETRANSPORT)
  /\ UNCHANGED << chip, rb, mismatch >>

\* Step 7: ret = adf4382_remove(dev); return ret.
Remove(p) ==
  /\ pc[p] = "remove"
  /\ Goto(p, "done")
  /\ \/ ret' = [ret EXCEPT ![p] = 0] /\ life' = [life EXCEPT ![p] = "removed"]
     \/ ret' = [ret EXCEPT ![p] = ETRANSPORT] /\ UNCHANGED life
  /\ UNCHANGED << chip, rb, mismatch >>

(***************************************************************************)
(* Specification                                                         *)
(***************************************************************************)
Init ==
  /\ chip \in [present : BOOLEAN, sdo : BOOLEAN, regs : [Tracked -> {0, 255}]]
  /\ pc = [p \in Proc |-> "spi_init"]
  /\ life = [p \in Proc |-> "none"]
  /\ ret = [p \in Proc |-> 0]
  /\ rb = [p \in Proc |-> 0]
  /\ mismatch = [p \in Proc |-> FALSE]

Step(p) ==
  \/ SpiInit(p) \/ SoftReset(p) \/ WireMode(p) \/ ScratchWrite(p)
  \/ ScratchRead(p) \/ ReadScratch(p) \/ WriteScratch(p) \/ VerifyScratch(p)
  \/ GetRfout(p) \/ GetRefClk(p) \/ Remove(p)

\* Every program has exited: the system stops.
Terminated == \A p \in Proc : pc[p] = "done"

Next ==
  \/ \E p \in Proc : Step(p)
  \/ Terminated /\ UNCHANGED vars

\* No fairness: a transfer may block for ever (spec section 5), so nothing
\* guarantees that a copy which can step eventually does.
Spec == Init /\ [][Next]_vars

(***************************************************************************)
(* Properties                                                            *)
(***************************************************************************)
TypeOK ==
  /\ chip \in ChipState
  /\ pc \in [Proc -> Labels]
  /\ life \in [Proc -> LifeStates]
  /\ ret \in [Proc -> {0, ETRANSPORT, EINVAL, CHECK_FAILED}]
  /\ rb \in [Proc -> Byte]
  /\ mismatch \in [Proc -> BOOLEAN]

(* Every transfer main() and adf4382_init issue runs on a bound, not yet *)
(* released or removed device, and once a device is released or removed *)
(* its program never touches it again: each error exit returns at once. *)
UsedOnlyWhileLive ==
  \A p \in Proc :
    /\ pc[p] \in (InitLabels \ {"spi_init"}) \cup MainLabels => life[p] \in Live
    /\ life[p] \in {"released", "removed"} => pc[p] = "done"

(* main.c reports "Test completed successfully!" and exits 0 only when   *)
(* the scratchpad read-back of step 4 was 0xAA: the failed check's       *)
(* ret = -1 must reach the exit status.                                  *)
ScratchpadMismatchReported ==
  \A p \in Proc : (pc[p] = "done" /\ mismatch[p]) => ret[p] # 0
=============================================================================
