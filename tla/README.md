# TLA+ models of the XMW-no-OS synthesizer control code

This directory holds TLA+ models of the register-access and device-lifecycle code in
`src/`. It has TLC configurations that check the models on small instances, and TLAPS
proofs of the central invariants for every instance.

## The system

The repository drives ADF4377, ADF4382 and ADF4368 frequency synthesizers from a
Raspberry Pi. The layers, leaf first:

- **Bus transport.** `no_os_spi_*` over Linux spidev. This is external: one
  synchronous 3-byte full-duplex transfer that may fail. spidev lets several
  processes open the same bus, and the kernel serialises their messages.
- **Register codec.** Frame layout:
  - byte 0 is `0x80 | addr_hi` for a read and `addr_hi` for a write;
  - byte 1 is `addr_lo`;
  - byte 2 is the data byte.

  `update_bit` is a read, a merge `(old & ~mask) | (val & mask)` and a write.
  The drivers that hold these functions (`adf43xx_spi_read/write/update_bit`) are
  not in the repository. The programs under `src/` build the same frames by hand in
  `tx_buffer[0..2]`.
- **Device handle.** `adf43xx_init` runs these steps in order:
  1. bind the SPI descriptor;
  2. soft reset (`0x81` to REG0000);
  3. wire mode (`ADF43xx_SPI_3W_CFG(en)` to REG0000);
  4. CMOS output voltage;
  5. the register-defaults table;
  6. the scratchpad round-trip (`0x5A` to REG000A, read it back, `-EINVAL` on a mismatch);
  7. the initial frequency program.

  `adf43xx_remove` releases the bus and frees the handle. `basic_example.c` lays
  the init sequence out inline, and that is the version modelled.
- **Test programs.**
  - `ADF4377_Test/.../main.c` runs init, reads REG001D, sets its MUXOUT field to
    HIGH with `update_bit`, reads it back, checks the field and removes the device.
  - `ADF4382_Test` does the same with the scratchpad and frequency getters.
  - `update_adf4382*.c` applies command-line parameters.
  - `adf4377_test_api.c` wraps one global handle for a Python shared library.
  - About ten raw-spidev diagnostics send fixed frame sequences.
- **Frequency model.** The divider plan and its inverse live in the drivers, which
  are not in the repository.

## Modules

| Module | Models |
|---|---|
| `RegisterCodec` | The frame encoding (`ReadFrame`, `WriteFrame`) and decoding (`IsRead`, `FrameAddr`, `FrameData`), the `update_bit` merge (`UpdateBits`), and the chip at the far end (`ChipWrite`, `ChipRead`, `Xfer`). |
| `DeviceHandle` | One process per running program against one shared chip. Each process runs `ADF4377_Test` `main()` or `adf4377_sdz/src/examples/vendor_id_example.c` `example_main()`, both through the driver's init sequence. |
| `MCDeviceHandle` | Model values and the symmetry set for TLC. |
| `TestApi`, `MCTestApi` | The shared-library API of `ADF4377_Test/so/adf4377_test_api.c`: one static handle, init, four accessors and remove. |
| `TestApiProofs` | `TypeCorrect` and `HandleNeverDangles` for the API. |
| `Diagnostics` | The raw-spidev diagnostic programs: each program's literal frames replayed through the chip, and the verdict it prints. |
| `UpdateTool`, `MCUpdateTool` | `adf4382/update_adf4382.c` and `update_adf4382_static.c` `main()`: parse, load (shared build only), init, the four update blocks, cleanup. |
| `UpdateOutcome` | What the update tool promises from outside: one atomic step from start to exit, with the chip it leaves and the exit status. `UpdateTool` refines it. |
| `Adf4382Test`, `MCAdf4382Test` | `ADF4382_Test/src/platform/linux/main.c`: one process per running copy, against one chip. |
| `UpdateToolProofs` | `ConfigAlwaysInRange` and the refinement `RefinesOutcome` for the update tool. |
| `RegisterCodecProofs` | Codec round-trip laws and typing lemmas for the chip. |
| `DeviceHandleProofs` | `TypeCorrect`, `HandleLiveness`, `VerifiedPresent` and `PresentChipPassesAlone`. |
| `Adf4382TestProofs` | `TypeCorrect` and `HandleLiveness` for the ADF4382 test program. |
| `DiagnosticsProofs` | `SkipScratchpadSound` and `SkipScratchpadFramesHonoured` for `skip_scratchpad_test.c`. |

### The chip: what the models assume of the hardware

The chip is the environment, not code of the repository. `RegisterCodec` assumes the
following, from the datasheet behaviour the programs rely on:

- An absent chip, or one whose SDO output is off, reads as `0`. The spec (section 4.2)
  says so, and `spi_loopback_test.c` tells the cases apart this way.
- A write to REG0000 sets SDO from the mirrored SDO_ACTIVE bit pair (bits 4 and 3). It
  resets the register file on the mirrored soft-reset pair (bits 7 and 0).
- When only one bit of a pair is set, the outcome is a nondeterministic choice. The
  silicon's behaviour there is undocumented.
- Registers outside the tracked set (the scratchpad, MUXOUT, the vendor ID) read as 0
  or as their fixed value.
- A transfer is atomic with respect to other processes. This matches the spidev
  message semantics.

### DeviceHandle: state and actions

Variables:

- `chip` is the shared chip.
- `pc[p]` is where process `p` is in `main()` or init.
- `life[p]` is the handle's lifecycle state: `none`, `bound`, `configured`,
  `verified`, `active`, `released` (init's error exit) or `removed`.
- `ret[p]` is the program's `ret`.
- `rb[p]` is `read_back`.
- `ioFailed[p]` is a history flag: some I/O call of `p` failed.
- `prog[p]` is the program `p` runs, chosen in `Init`.
- `vendor_id_lsb[p]` and `vendor_id_msb[p]` are `example_main`'s locals.

Init takes its wire mode and MUXOUT default from `adf4377_ip` (ADF4377_Test
`common_data.c` lines 81-95). The `adf4377_sdz` project's own `common_data.c` is not in
the repository, so the example is assumed to pass the same parameters.

Every bus transfer is one action. Every action has a failure disjunct, modelled on the
code's error path:

| Action | Code |
|---|---|
| `SpiInit` | `no_os_spi_init` (basic_example.c 74-81) |
| `SoftReset`, `WireMode`, `CmosOutput`, `RegDefaults`, `ScratchWrite` | Init writes. Each failure does `goto error_spi` (`InitFail`, lines 199-207). |
| `ScratchRead` | Read and compare, `-EINVAL` on a mismatch (lines 168-184). |
| `ProgramFreq` | The driver's initial frequency program (from the spec). |
| `ReadMux`, `UpdateRead`, `UpdateWrite`, `Verify` | main.c steps 2-4. Each failure does `adf4377_remove; return ret` (`MainFail`). The result of that remove is discarded, so the handle may stay live. |
| `Remove` | main.c step 5: `ret = adf4377_remove(dev)` (lines 150-168). |
| `ReadVendorLsb`, `ReadVendorMsb` | vendor_id_example.c lines 61-78: read REG000C and REG000D. Each failure does `adf4377_remove; return ret` (`MainFail`). |
| `CheckVendorId` | lines 81-92: `(msb << 8) \| lsb` compared with `ADF4377_VENDOR_ID_LSB`; a mismatch sets `ret = -1`. |
| `ExampleCleanup` | lines 94-98: `adf4377_remove(dev); return ret;` with remove's result discarded. |

`MainEntry` sends a process to the first step of its own program once init returns 0.

A failed write may or may not have reached the chip.

## Runs

| Run | Config | Checks | Result |
|---|---|---|---|
| `single` | one process, either program, 4-wire | `PresentChipPasses` | pass (227 states) |
| `two` | two processes, either program each, symmetry | `TypeOK`, `UsedOnlyWhileLive`, `VerifiedMeansPresent` | pass (3496 states) |
| `exit` | two processes | `ErrorSurvivesCleanup` | violation: finding below |

- **PresentChipPasses.** A program alone against a present chip exits 0 unless an I/O
  call failed. This shows that the init order is right: reset, then 4-wire, then the
  scratchpad. It also shows the wire-mode byte must be 0x18. With two processes the
  property fails, because a second program's reset undoes the first one's work. That is
  the update_bit interleaving hazard of spec section 5. The vendor-ID example meets the
  same hazard: another program's reset between its init and its reads turns SDO off, so
  it reads 0.
- **`ADF4377_VENDOR_ID_LSB`.** The macro `example_main` compares the full 16-bit ID with
  is not in the repository. The runs give it 0x0456, the value the comment at line 85
  and the messages around it name (`CodeConfig` in the proof).
- **UsedOnlyWhileLive.** Every transfer runs on a bound, live handle, and a released or
  removed handle belongs to a program that has returned.
- **VerifiedMeansPresent.** The scratchpad check is never passed without a chip, even
  while other processes reset it.
- **ErrorSurvivesCleanup** (an action property). An error recorded before the final
  remove survives into the exit status, in both programs. The example keeps its `ret`
  across its final remove, so only `main.c` breaks the property.

### Finding

In `ADF4377_Test/src/platform/linux/main.c`, line 147 sets `ret = -1` when the MUXOUT
read-back is wrong. Line 152 then sets `ret = adf4377_remove(dev)`, and
`main` prints "Test completed successfully!".

TLC shows the trace with two programs. Program 2's soft reset lands between program 1's
`update_bit` write and its read-back, so the read-back sees MUXOUT = 0. Program 1 still
exits 0. `ADF4382_Test` main.c lines 141/146 repeat the pattern (see `Adf4382Test` below).

### Bounds

- Two processes suffice for every interleaving of two actors on the shared chip,
  including reset-between-update and reset-between-scratchpad-write-and-read.
- Initial chip register values range over {0, 255}, so that a stale MUXOUT field is
  both possible and impossible to confuse with HIGH.
- `present` and `sdo` start in both values.
- No model states fairness or checks liveness. Spec section 5 lets a transfer
  block indefinitely, with no timeout, so the code does not guarantee that a
  program which can step eventually does. Once its steps are fair, the programs'
  straight-line `main()` ends by construction, so a termination property would
  show nothing.

Mutants show that each property catches a plausible bug:

| Mutant | Plausible bug | Caught by |
|---|---|---|
| inverted wire-mode flag | `spi_mode_test.c` writes 0x00 as "4-wire" | `PresentChipPasses` |
| `ret += remove()` | accumulated error codes | `TypeOK` |
| an error exit that falls through to cleanup | missing `return` | `UsedOnlyWhileLive` |
| a dropped scratchpad comparison | as in `basic_example2.c` | `VerifiedMeansPresent` |

## Diagnostics: the raw-spidev programs

About ten programs under `adf4382/` and `adf4377_sdz/` build their frames by hand in
`tx_buffer[0..2]`, send them one `SPI_IOC_MESSAGE` at a time, and print a conclusion
about the chip. `Diagnostics` models each one as a script: a sequence of
`[f, says, check]` records.

- `f` is the literal frame.
- `says` is what the comment beside it claims: `reset`, `wire4`, `write`, `read`, `nop`
  or `any`.
- `check` is whether the program tests the ioctl's result.

`Verdict(prog, rx)` is the conclusion the program prints from the `rx_buffer[2]` bytes
it received: `working`, `partial`, `silent` or `none`. The chip starts in any state a
previous program or a power cycle can leave it in, including SDO on or off.
`spi_diagnostic.c` and `vendor_id_diagnostic.c` print the bytes they receive and
draw no conclusion about the chip (`none`). `spi_diagnostic.c` reports "completed
successfully" whenever its three checked ioctls return.

Actions:

- `Transfer`: the ioctl succeeds and the frame goes through `Xfer`.
- `TransferFails`: the ioctl fails, and the frame may or may not have reached the chip.
  A checked failure ends the program. An unchecked one leaves `rx_buffer` as it was.
  In `test_connections.c` that means uninitialised stack bytes before the first
  transfer, modelled as `{0, 255}`.
- `Finished`: the program has returned.

Properties:

- **DiagnosisSound.** A program reports the chip working or answering only when it is
  present, and reports "no response" only when it is absent.
- **FramesDoWhatTheySay.** Each frame does what its comment says:
  - a read carries the read flag;
  - a reset resets a present chip;
  - a 4-wire write turns SDO on;
  - a NOP leaves the chip alone.

| Run | Programs | Checks | Result |
|---|---|---|---|
| `diag_sound` | `skip_scratchpad_test` | both | pass (222 states) |
| `diag_verdicts` | `spi_mode_test`, `vendor_id_test`, `simple_vendor_id_test`, `simple_chip_id_test` | `DiagnosisSound` | violation |
| `diag_frames` | `test_connections`, `spi_diagnostic`, `vendor_id_diagnostic` | `FramesDoWhatTheySay` | violation |

What the violations show:

- `spi_mode_test.c:87` sends 0x00 as "4-wire mode", which turns SDO off, so a present
  chip reads 0.
- `simple_vendor_id_test.c` and `simple_chip_id_test.c` read straight after the soft
  reset, which also leaves SDO off.
- `test_connections.c:75/81` and `spi_diagnostic.c:95/113` send a "reset" that is a
  write of 0 to register 0x0081, and a "read" without the read flag.
- The "NOP" of `vendor_id_diagnostic.c:107` is a write of 0 to REG0000.

`skip_scratchpad_test.c` sends reset, CMOS, 0x18 and then reads. It is the one sequence
whose conclusion is right whatever the chip's starting state and whichever transfer
fails.

Mutants for `diag_sound`:

- the 4-wire write sent before the reset: `DiagnosisSound` fails;
- the reset byte typed as 0x01: `FramesDoWhatTheySay` fails.

`spi_mode_test` is modelled for `SPI_MODE_0` only, since the other modes fail
electrically. `minimal_vendor_id_test` is modelled but no run checks it: its result
depends on the SDO state the previous program left, and it only says a failure is
"expected if no hardware is connected".

## TestApi: the static-handle API

`adf4377_test_api.c` keeps one `static struct adf4377_dev *adf4377_dev` for a Python
shared library.

State:

- `dev` is that pointer, `NULL` or a handle number.
- `busOf[h]` is the bus (`spi_device`, `spi_cs`) that handle `h` was bound to.
  Handles are numbered in allocation order.
- `bound` is the set of handles still holding their bus.
- `ret` is the last return value, and `call` the last function called (history).

Actions:

- `adf4377_test_init(b)` (lines 41-49).
- `Access` (lines 51-81): the four accessors, `-EINVAL` without a handle.
- `adf4377_test_remove` (lines 83-93).

The driver's `adf4377_init` and `adf4377_remove` are not in the repository. They are
modelled from the spec:

- On success, init allocates a new handle, binds the bus and stores the handle. On
  failure it frees its new handle and leaves `adf4377_dev` alone.
- Remove frees on success. On failure it keeps the binding.

| Run | Checks | Result |
|---|---|---|
| `api` | `TypeOK`, `DevLive` | pass (203 states) |
| `api_double_init` | `ExclusiveBus` | violation |

The `api` run uses two buses (symmetric) and `MaxInits = 3`. That is enough for init,
remove, re-init on either bus, and a failed remove followed by a re-init. What the
violation shows:

- **Double init** (line 48). A second init overwrites the live handle without removing
  it. The first handle keeps its bus, so two handles hold the same binding, against
  spec section 5. A failed remove (line 91 clears the handle anyway) leads to the
  same state.

Not run as a property: after a remove, `adf4377_test_remove` returns 0 (line 88),
where spec section 4.2 asks for `InvalidState`. This is visible in the code at once
and needs no model checker.

Mutants for `api`:

- an accessor that returns the ioctl's byte count: `TypeOK` fails;
- a remove that does not clear `adf4377_dev`: `DevLive` fails.

## Adf4382Test: the ADF4382 test program

`ADF4382_Test/src/platform/linux/main.c` does the following, in order:

1. Inits the device.
2. Reads REG000A.
3. Writes 0xAA to REG000A.
4. Reads REG000A back and checks it. A mismatch sets `ret = -1`.
5. Reads the output frequency.
6. Reads the reference clock.
7. Removes the device.

Every error exit after init removes the device and returns the error. Like
`DeviceHandle`, the model runs one process per copy of the program, all on one chip.
Each bus transfer is one step.

State, per process: `pc`, `life` (the handle's lifecycle), `ret`, `rb` (`read_back`),
and `mismatch`, a history flag set when step 4 saw a value other than 0xAA.

Actions:

- `adf4382_init` is not in the repository, so its steps are modelled from the spec
  sequence: `SpiInit`, `SoftReset`, `WireMode` (4-wire, because
  `adf4382_ip.spi_3wire_en` is false in `common_data.c`), `ScratchWrite` and
  `ScratchRead`. A read-back mismatch fails with `-EINVAL`.
- Init's writes to registers the model does not track are folded into these steps,
  and a failure there is a failure of the step. These are the output voltage, the
  defaults and the frequency program.
- `ReadScratch`, `WriteScratch`, `VerifyScratch`, `GetRfout`, `GetRefClk` and `Remove`
  are steps 2 to 7 (lines 106-185). Any of them may fail. `MainFail` is their shared
  error exit (`adf4382_remove(dev); return ret;`).

Fairness. `Spec` has none. A transfer may block indefinitely (spec section 5), and
`main()` is straight-line code with no loop or retry, so termination says nothing
once fairness is assumed. The runs check safety only.

| Run | Checks | Result |
|---|---|---|
| `adf_two` | `UsedOnlyWhileLive` | pass (976 distinct states, under the symmetry of the two copies) |
| `adf_overwrite` | `ScratchpadMismatchReported` | violation |

Both runs use two processes. One process cannot make its own check fail: init's 4-wire
write enables read-back, and a present chip returns what was written. It takes a
second copy to change REG000A in between.

What the violation shows:

- **A failed check is overwritten** (line 146). Copy 1 writes 0xAA. Copy 2's
  `adf4382_init` sends the soft reset, which clears REG000A. Copy 1 reads back 0 and
  sets `ret = -1`. Step 5 then assigns `ret = adf4382_get_rfout(...)` (0), and copy 1
  prints "Test completed successfully!" and exits 0. Steps 6 and 7 would overwrite
  the `-1` in the same way.

Mutants for `adf_two`:

- The error exit falls through to step 7 instead of returning: `UsedOnlyWhileLive`
  fails.

## UpdateTool: the parameter update tool

`adf4382/update_adf4382.c` parses `--freq`, `--cp-i`, `--bleed` and `--phase`. It
loads the driver library, runs `init_adf4382`, and then applies the given parameters
in a fixed order. On the first failure it calls `cleanup()` and exits 1.
`update_adf4382_static.c` has the same control, with the driver linked statically
and no library to load.

State:

- `chip` holds the four parameters the tool sets. Frequencies are in MHz.
- `before` is the chip as the tool found it (history).
- `given` is the set of options on the command line (`freq_set`, `cp_set`, ...).
- `arg` holds the parsed values. Options that were not given keep the defaults of
  lines 299-304.
- `pc` is where `main()` is, and `why` is its reason for returning (`"ok"` is exit 0).
- `build` is the binary that runs, `"shared"` or `"static"`, chosen in `Init`.

Actions:

- `Parse` (lines 307-346): no parameters, a failed library load, or go on.
- `ParseStatic` (`update_adf4382_static.c` lines 240-284): no parameters, or go on.
  The static build's other functions differ from the shared build's only in what they
  print, so they share its actions.
- `init_adf4382` (lines 125-162): programs `init_param`. A failure part-way leaves
  the chip reset or not.
- `set_frequency`, `set_charge_pump_current`, `set_bleed_word` and
  `set_phase_adjustment` are each one block of lines 354-381 (`SetParam`). The block
  is skipped when its option is absent. It goes to `cleanup` with `"invalid"` when
  the wrapper's check fails, writes the value on success, and on a bus error may or
  may not have written.
- `cleanup` (lines 265-276), then `Exited`.

The driver calls are not in the repository. From the spec:

- `adf4382_init` programs `init_param`.
- `adf4382_set_rfout` rejects a frequency outside 688 MHz-22 GHz before it writes.

| Run | Checks | Result |
|---|---|---|
| `upd` | `ChipConfigInRange`, `ImplementsOutcome` | pass (27204 states) |
| `upd_reject` | `RejectedWithoutSideEffects` | violation |

`ImplementsOutcome` is the refinement. `UpdateOutcome` has a single action, `Run`.
It exits 0 with the chip holding `init_param` overridden by the given values, all
legal and at least one given. Or it exits 1 with each parameter holding its old value,
its `init_param` value, or its given value when that value is legal. The refinement
mapping:

- shows the chip as `before` until `main()` returns, and as `chip` after;
- maps `done` to `pc = "exited"`;
- maps `status` to `"fail"` exactly when `main()` exits with `why # "ok"`.

Every step before the exit is therefore a stutter, and the exit is `Run`. The property
says what a caller sees: exit 0 means every given parameter was applied, and exit 1
never leaves a value nobody asked for or an illegal one.

Bounds. `MCUpdateTool` offers the following values:

- for `--freq`, one legal and one illegal frequency;
- for `--cp-i`, a legal value, 16 and -1;
- for `--bleed`, a legal value and 8192;
- for `--phase`, one value.

Both builds run. Every subset of options may be given. The chip starts in any legal state built from
those values and `init_param`. Every block can therefore be skipped, pass, be
rejected or fail on the bus, after any outcome of the blocks before it.

What the violation shows:

- **Reject after side effects** (line 198, after line 349). `upd_reject` offers
  only the legal `--freq` (`MCLegalFreqArg`), so any refusal comes from the
  wrappers' own checks, not from the driver's frequency range. TLC's trace passes
  `--cp-i -1` alone. `init_adf4382` reprograms the chip with `init_param`, then
  `set_charge_pump_current` refuses -1, and the tool exits 1 with the chip changed.
  Spec section 7 asks that invalid input be rejected before any bus activity.

Not run as a property: every run re-initialises the chip with `init_param` (line
154), so `--cp-i 10` also resets a frequency set by an earlier run.

Mutants for `upd`:

- `set_bleed_word`'s failure not followed by `return 1`: `ImplementsOutcome` fails. The
  tool goes on, and may exit 0 with the old bleed word still on the chip.
- `set_charge_pump_current`'s 0-15 check dropped: `ChipConfigInRange` fails.

`--phase` goes through `atoi` into a `uint32_t`, so a negative value wraps to a huge
phase. The model offers only non-negative phases (`ArgAssumption`). What the driver
does with a wrapped value is not in the repository.

## Proofs (TLAPS)

- `RegisterCodecProofs`:
  - `ReadFrameLaw` and `WriteFrameLaw`: for every 15-bit address and data byte,
    the frames are well formed, carry the right read flag, and decode to what they
    encode. They rest on `AddrSplit`: `(a \div 256) * 256 + a % 256 = a`.
  - Typing lemmas for `UpdateBits`, `ChipWrite` and `ChipRead`, and the shape of
    `Xfer` for read and write frames.
- `DeviceHandleProofs`:
  - `TypeCorrect`: `Spec => []TypeOK` for every process set and either wire mode.
    It uses one lemma per shape of action (`InitWriteType`, `MainReadType`,
    `MainFailType`) and the codec lemmas for the chip.
  - `HandleLiveness`: `Spec => []UsedOnlyWhileLive`. The inductive invariant is
    `IInv == TypeOK /\ UsedOnlyWhileLive`. The type part is needed because the
    EXCEPT updates of `pc` and `life` only keep other processes' entries when the
    functions have domain `Proc`.
  - `VerifiedPresent`: `Spec => []VerifiedMeansPresent`, for every process set.
    The chip's presence never changes (`PresenceStep`: no transfer changes it).
    `VerifiedMeansPresent` is not inductive by itself: a process can reach the
    check with the scratchpad value it would need. The strengthening
    `AbsentChipStaysUnverified` says that with no chip, no process has a handle
    marked verified or active, or a program counter past the scratchpad check. An
    absent chip reads 0 (`ChipReadAbsent`), so the check against 0xAA fails.
    `VInv == TypeOK /\ AbsentChipStaysUnverified`.
  - `PresentChipPassesAlone`: `Spec => []PresentChipPasses`, under two hypotheses.
    - `SingleProgram`: one process. With two, the other's reset can clear SDO or
      the scratchpad between this one's write and read. With two processes, TLC
      finds such a trace, which is why only `single` checks the property.
    - `CodeConfig`: `adf4377_ip`'s 4-wire mode, and the vendor-ID constant equal
      to what the chip's ID registers hold. Both come from `common_data.c` and
      the datasheet values the model gives `ReadOnly`.

    The inductive invariant `PassInv` says what a present chip with no failed
    transfer holds at each label: `ret = 0`, SDO is enabled past the 4-wire
    write, the scratchpad holds 0xAA at its read, MUXOUT is high at the check,
    and the vendor-ID bytes read so far are right. `UpdateSetsMuxHigh`
    evaluates the `update_bit` merge bit by bit. `ChipWriteReset`,
    `ChipWriteWire` and `ChipReadPresent` give the chip's answers.

- `Adf4382TestProofs`:
  - `TypeCorrect`: `Spec => []TypeOK` for every process set.
  - `HandleLiveness`: `Spec => []UsedOnlyWhileLive`, with `IInv == TypeOK /\
    UsedOnlyWhileLive`, for the same reason as in `DeviceHandleProofs`.
    `OthersKeepLive` shows that one process's step leaves the others' entries alone.

- `DiagnosticsProofs`: the two `diag_sound` properties, for
  `skip_scratchpad_test.c` (hypothesis `SkipOnly`, which is what `diag_sound`
  runs). They hold from every initial chip state and whichever transfers fail.
  The other programs violate them (`diag_verdicts`, `diag_frames`).
  - `SkipScratchpadFrames` unfolds the script: frame 1 is the reset, frame 2 a
    write, frame 3 the 4-wire write, frames 4-10 the default table (none of it
    at `REG0000` or a tracked register, `DefaultsUntracked`), and frame 11 the
    read of REG000D.
  - The inductive invariant `DInv` ties the frame counter `k` to the reply bytes
    collected so far (`Len(rx) = k - 1`). It says SDO is on from frame 4 while
    the chip is present. At `done`, `rx[11]` is what the chip holds in REG000D,
    or 0 when it is absent.
  - `SkipScratchpadSound`: `Spec => []DiagnosisSound`. It follows from `DInv`,
    because the verdict depends only on `rx[11]`.
  - `SkipScratchpadFramesHonoured`: `Spec => []FramesDoWhatTheySay`. It follows
    from `DInv` and `FrameHonoured`, which checks each frame against its comment
    from any chip state.

- `TestApiProofs`:
  - `TypeCorrect`: `Spec => []TypeOK`.
  - `HandleNeverDangles`: `Spec => []DevLive`, for every bus set and every
    `MaxInits`.

  Both rest on `IInv == TypeOK /\ DevLive`, through `InitStep` and `RemoveStep`.
  `DevLive` is inductive by itself. A successful init binds the handle it stores, a
  failed one keeps the old handle, and remove clears it. `SequenceTheorems`
  (`AppendProperties`, `LenProperties`) supplies the facts about the handle numbering.

- `UpdateToolProofs`:
  - `ConfigAlwaysInRange`: `Spec => []ChipConfigInRange`, for every set of
    argument values with `ArgAssumption`.

  The inductive invariant is `IInv == TypeOK /\ ArgsOK /\ ChipConfigInRange`.
  `ArgsOK` (the parsed values are integers, and the phase is non-negative) is needed
  because a block writes `arg[p]`, and `Legal("phase", _)` holds only for
  non-negative values. `SetParamSafe` shows that each update block keeps `IInv` when
  its check implies `Legal`. `init_adf4382` keeps it because `init_param` is legal
  (`InitParamLegal`).
  - `RefinesOutcome`: `Spec => ImplementsOutcome`, the refinement checked in `upd`,
    for every set of argument values and both builds.

  The refinement needs `PInv`, which says how far `main()` has got in terms of the
  chip:
  - before init, the chip is `before`;
  - at update stage `s`, and after an exit 0, the chip is `PartApplied(Earlier(s))`:
    `init_param` overridden by the given values of the blocks before `s`, all legal;
  - after a failure, every parameter holds a value `UpdateOutcome`'s `Mixture`
    allows.

  `BlockProgress` shows one update block keeps `PInv`. `BlockStep` describes the block
  by its four outcomes (skipped, rejected, written, bus error). With `RInv == IInv /\
  PInv`, `RefineStep` shows each step maps to a stutter or to `Run`. At the exit step
  it reads the outcome off `PInv` in the state after the step, so no case split on
  the action is needed there.

The following are only model-checked:
- `DiagnosisSound` and `FramesDoWhatTheySay` for the programs other than
  `skip_scratchpad`: they are false for those programs, and `diag_verdicts` and
  `diag_frames` show counterexamples.
- `ErrorSurvivesCleanup`, `ExclusiveBus`, `RejectedWithoutSideEffects` and
  `ScratchpadMismatchReported`: the code violates them, and their runs expect a
  violation.

## Not modelled (yet)

- The frequency model. It is in the drivers, not in the repository.
- `spi_loopback_test.c`: it needs a MOSI-MISO jumper, not the chip.
- libadnoos: a plugin table for another device family.
- CLI parsing and printing.
