----------------------------- MODULE Diagnostics -----------------------------
(***************************************************************************)
(* The raw-spidev diagnostic programs of adf4382/ and adf4377_sdz/.  Each  *)
(* builds its 3-byte frames by hand (tx_buffer[0..2] = ...), sends them    *)
(* one SPI_IOC_MESSAGE at a time, and prints a conclusion about the chip  *)
(* from the bytes it received.  A program is modelled as its script: the  *)
(* literal frames it sends, each with what the code's comment says the     *)
(* frame does, and the verdict it draws from the responses.  The frames   *)
(* go through RegisterCodec's chip, which starts in any state a previous  *)
(* program or a power cycle can leave it in.                              *)
(*                                                                         *)
(* spi_mode_test runs its sequence once per SPI mode; only the SPI_MODE_0 *)
(* pass is modelled (in the other modes the chip samples on the wrong     *)
(* edge, which is electrical, not protocol, behaviour).                  *)
(***************************************************************************)
EXTENDS Integers, Sequences, RegisterCodec

CONSTANT Programs   \* the programs run (a subset of ProgramNames)

VARIABLES
  prog,     \* the program running
  chip,     \* the chip
  k,        \* index of the next frame of the script
  rx,       \* rx_buffer[2] after each transfer, in order
  status    \* "run", "failed" (returned -1 / 1 on a transfer error), "done"

vars == << prog, chip, k, rx, status >>

\* One scripted transfer: the frame, what the comment beside it says, and
\* whether the program checks the ioctl's result (if (ret < 0) return).
Op(f, says) == [f |-> f, says |-> says, check |-> TRUE]
Unchecked(f, says) == [f |-> f, says |-> says, check |-> FALSE]

(***************************************************************************)
(* The scripts                                                            *)
(***************************************************************************)
\* adf4377_sdz/simple_vendor_id_test.c: reset, then read 0x0C and 0x0D.
SimpleVendorIdScript ==
  << Op(<<0, 0, 129>>, "reset"), Op(<<128, 12, 0>>, "read"),
     Op(<<128, 13, 0>>, "read") >>

\* adf4382/simple_chip_id_test.c: reset, then read 0x03, 0x0C, 0x04.
SimpleChipIdScript ==
  << Op(<<0, 0, 129>>, "reset"), Op(<<128, 3, 0>>, "read"),
     Op(<<128, 12, 0>>, "read"), Op(<<128, 4, 0>>, "read") >>

\* adf4382/spi_mode_test.c, test_spi_mode(SPI_MODE_0).
SpiModeScript ==
  << Op(<<0, 0, 129>>, "reset"), Op(<<0, 0, 0>>, "wire4"),
     Op(<<0, 10, 90>>, "write"), Op(<<128, 10, 0>>, "read") >>

\* adf4382/vendor_id_test.c: reset, CMOS, SDO_ACTIVE (one bit), reads.
VendorIdScript ==
  << Op(<<0, 0, 129>>, "reset"), Op(<<0, 61, 32>>, "write"),
     Op(<<0, 0, 8>>, "wire4"), Op(<<128, 13, 0>>, "read"),
     Op(<<128, 12, 0>>, "read") >>

\* adf4382/skip_scratchpad_test.c: the reg_defaults[][2] table it loads.
SkipScratchpadDefaults ==
  << <<1, 0>>, <<2, 0>>, <<3, 6>>, <<4, 5>>, <<5, 5>>, <<12, 86>>, <<13, 4>> >>

\* Mutant: the 4-wire configuration sent before the reset (swapped steps).
SkipScratchpadWireFirst ==
  << Op(<<0, 0, 24>>, "wire4"), Op(<<0, 61, 32>>, "write"),
     Op(<<0, 0, 129>>, "reset") >>
  \o [i \in 1..7 |-> Op(<<0, SkipScratchpadDefaults[i][1],
                           SkipScratchpadDefaults[i][2]>>, "write")]
  \o << Op(<<128, 13, 0>>, "read") >>

\* Mutant: the soft-reset byte written 0x01, one bit of the mirrored pair.
SkipScratchpadResetLowBit ==
  << Op(<<0, 0, 1>>, "reset"), Op(<<0, 61, 32>>, "write"),
     Op(<<0, 0, 24>>, "wire4") >>
  \o [i \in 1..7 |-> Op(<<0, SkipScratchpadDefaults[i][1],
                           SkipScratchpadDefaults[i][2]>>, "write")]
  \o << Op(<<128, 13, 0>>, "read") >>

\* adf4382/skip_scratchpad_test.c: reset, CMOS, 4-wire, defaults, read 0x0D.
SkipScratchpadScript ==
  << Op(<<0, 0, 129>>, "reset"), Op(<<0, 61, 32>>, "write"),
     Op(<<0, 0, 24>>, "wire4") >>
  \o [i \in 1..7 |-> Op(<<0, SkipScratchpadDefaults[i][1],
                           SkipScratchpadDefaults[i][2]>>, "write")]
  \o << Op(<<128, 13, 0>>, "read") >>

\* adf4382/test_connections.c: slow probe, five patterns, "reset", "read reg 0";
\* it prints "FAILED" for a failed ioctl and goes on.
TestConnectionsScript ==
  << Unchecked(<<0, 0, 0>>, "any") >>
  \o [i \in 1..5 |-> Unchecked(<<0, 128 + (i - 1), 0>>, "any")]
  \o << Unchecked(<<0, 129, 0>>, "reset"), Unchecked(<<0, 0, 0>>, "read") >>

\* adf4382/spi_diagnostic.c: basic transfer, "reset (0x81)", "read reg 0x00",
\* each ioctl checked.
SpiDiagnosticScript ==
  << Op(<<0, 0, 0>>, "any"), Op(<<0, 129, 0>>, "reset"), Op(<<0, 0, 0>>, "read") >>

\* adf4377_sdz/minimal_vendor_id_test.c: adf4377_spi_read of 0x0C and 0x0D
\* on a freshly bound descriptor, with no reset and no wire-mode write.
MinimalVendorIdScript == << Op(ReadFrame(12), "read"), Op(ReadFrame(13), "read") >>

\* adf4377_sdz/vendor_id_diagnostic.c: one "NOP command".
VendorIdDiagnosticScript == << Op(<<0, 0, 0>>, "nop") >>

ProgramNames ==
  {"simple_vendor_id", "simple_chip_id", "spi_mode", "vendor_id",
   "skip_scratchpad", "test_connections", "spi_diagnostic",
   "minimal_vendor_id", "vendor_id_diagnostic"}

Script(p) ==
  CASE p = "simple_vendor_id"     -> SimpleVendorIdScript
    [] p = "simple_chip_id"       -> SimpleChipIdScript
    [] p = "spi_mode"             -> SpiModeScript
    [] p = "vendor_id"            -> VendorIdScript
    [] p = "skip_scratchpad"      -> SkipScratchpadScript
    [] p = "test_connections"     -> TestConnectionsScript
    [] p = "spi_diagnostic"       -> SpiDiagnosticScript
    [] p = "minimal_vendor_id"    -> MinimalVendorIdScript
    [] p = "vendor_id_diagnostic" -> VendorIdDiagnosticScript

(***************************************************************************)
(* The verdicts: what each program prints about the chip, from its rx     *)
(* bytes.  "working": the expected IDs; "partial": some non-zero answer;  *)
(* "silent": "no response" / "not responding" / all zeros; "none": the    *)
(* program draws no conclusion about the chip.                            *)
(***************************************************************************)
Graded(ok, any) == IF ok THEN "working" ELSE IF any THEN "partial" ELSE "silent"
AnyNonZero(s) == \E i \in DOMAIN s : s[i] # 0

Verdict(p, r) ==
  CASE p = "simple_vendor_id"  -> Graded(r[3] * 256 + r[2] = 1110, r[3] * 256 + r[2] # 0)
    [] p = "simple_chip_id"    -> Graded(FALSE, AnyNonZero(r))
    [] p = "spi_mode"          -> IF r[4] # 0 THEN "working" ELSE "silent"
    [] p = "vendor_id"         -> Graded(r[4] = 4 /\ r[5] = 86, r[4] # 0 \/ r[5] # 0)
    [] p = "skip_scratchpad"   -> Graded(r[11] = 4, r[11] # 0)
    [] p = "test_connections"  -> Graded(FALSE, AnyNonZero(r))
    [] p = "minimal_vendor_id" -> IF r[2] * 256 + r[1] = 1110 THEN "working" ELSE "silent"
    [] OTHER                   -> "none"

(***************************************************************************)
(* The transfers                                                          *)
(***************************************************************************)
\* What rx_buffer holds after a failed ioctl: what the last transfer left,
\* or, before any transfer, the uninitialised bytes of the stack array.
StaleRx(r) == IF r = << >> THEN {0, 255} ELSE {r[Len(r)]}

\* ioctl(fd, SPI_IOC_MESSAGE(1), &transfer) succeeds.
Transfer ==
  LET s == Script(prog) IN
  /\ status = "run"
  /\ \E x \in Xfer(chip, s[k].f) :
       /\ chip' = x[2]
       /\ rx' = Append(rx, x[1][3])
  /\ k' = k + 1
  /\ status' = IF k = Len(s) THEN "done" ELSE "run"
  /\ UNCHANGED prog

\* The ioctl fails (ret < 0); the frame may or may not have reached the chip.
\* A checked failure ends the program (perror, close, return -1); an
\* unchecked one, as in test_connections.c, leaves rx_buffer as it was and
\* the program goes on.
TransferFails ==
  LET s == Script(prog) IN
  /\ status = "run"
  /\ chip' \in {chip} \cup {x[2] : x \in Xfer(chip, s[k].f)}
  /\ IF ~s[k].check
       THEN /\ \E b \in StaleRx(rx) : rx' = Append(rx, b)
            /\ k' = k + 1
            /\ status' = IF k = Len(s) THEN "done" ELSE "run"
       ELSE /\ status' = "failed"
            /\ UNCHANGED << rx, k >>
  /\ UNCHANGED prog

Init ==
  /\ prog \in Programs
  /\ chip \in [present : BOOLEAN, sdo : BOOLEAN, regs : [Tracked -> {0, 255}]]
  /\ k = 1
  /\ rx = << >>
  /\ status = "run"

\* The program has returned: nothing more happens.
Finished == status # "run" /\ UNCHANGED vars

Next == Transfer \/ TransferFails \/ Finished

Spec == Init /\ [][Next]_vars

(***************************************************************************)
(* Properties                                                             *)
(***************************************************************************)
(* A program's conclusion about the chip is right: it reports the chip   *)
(* working (or answering) only when a chip is there, and reports "no     *)
(* response" only when none is.  Whether this holds depends on the order *)
(* and the bytes of the frames: a read before SDO is enabled, or a wrong *)
(* SDO_ACTIVE byte, makes a present chip look absent.                    *)
DiagnosisSound ==
  status = "done" =>
    LET v == Verdict(prog, rx) IN
    /\ v \in {"working", "partial"} => chip.present
    /\ v = "silent" => ~chip.present

\* What a frame does to the chip, against what its comment says.
Honoured(says, f, c, c2) ==
  /\ says = "read"  => IsRead(f)
  /\ says = "write" => ~IsRead(f)
  /\ says = "nop"   => c2 = c
  /\ says = "reset" => (c.present => c2.regs = RegDefault)
  /\ says = "wire4" => (c.present => c2.sdo)

(* Every frame does what the comment beside it says: a "read" carries    *)
(* the read flag, a "reset" resets a present chip, a "4-wire" write      *)
(* enables SDO, a "NOP" leaves the chip alone, whatever state earlier    *)
(* frames left the chip in.                                               *)
FramesDoWhatTheySay ==
  status = "run" =>
    LET op == Script(prog)[k] IN
    \A x \in Xfer(chip, op.f) : Honoured(op.says, op.f, chip, x[2])
=============================================================================
