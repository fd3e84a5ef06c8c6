------------------------------ MODULE UpdateTool ------------------------------
(***************************************************************************)
(* adf4382/update_adf4382.c (and update_adf4382_static.c, which has the  *)
(* same control without the library load): the parameter update tool.    *)
(* main() parses                                                          *)
(* --freq, --cp-i, --bleed and --phase, loads the library, runs           *)
(* init_adf4382, then applies the given parameters in a fixed order,      *)
(* each through its set_* wrapper, and on the first failure runs cleanup() *)
(* and exits 1.                                                           *)
(*                                                                         *)
(* The chip is abstracted to the four parameters the tool sets.  The      *)
(* driver calls are not in the repository and are modelled from the spec: *)
(* adf4382_init resets the chip and programs init_param (20 GHz, cp_i 15, *)
(* bleed 4903, phase 0); adf4382_set_rfout rejects a frequency outside    *)
(* the chip's range before any write; a set_* call that fails on the bus  *)
(* may or may not have written its register.  Frequencies are in MHz.    *)
(***************************************************************************)
EXTENDS Integers

CONSTANTS
  FreqArg,    \* --freq values a caller may pass (MHz, after strtoull)
  CpArg,      \* --cp-i values (after atoi)
  BleedArg,   \* --bleed values (after atoi)
  PhaseArg    \* --phase values (after atoi, non-negative: see README)

ASSUME ArgAssumption ==
  /\ FreqArg \subseteq Nat /\ CpArg \subseteq Int
  /\ BleedArg \subseteq Int /\ PhaseArg \subseteq Nat

Params == {"freq", "cp", "bleed", "phase"}

\* The variables' values before parsing: freq_hz = 0, cp_i = -1, ...
Unset == [freq |-> 0, cp |-> -1, bleed |-> -1, phase |-> 0]

\* init_param of init_adf4382, as adf4382_init programs it after the reset.
InitParam == [freq |-> 20000, cp |-> 15, bleed |-> 4903, phase |-> 0]

\* adf4382_set_rfout's range check (spec: FrequencyOutOfRange).
FreqInRange(f) == 688 <= f /\ f <= 22000

\* The values each parameter can legally hold.
Legal(p, v) ==
  CASE p = "freq"  -> FreqInRange(v)
    [] p = "cp"    -> 0 <= v /\ v <= 15
    [] p = "bleed" -> 0 <= v /\ v <= 8191
    [] p = "phase" -> v >= 0

Stages == {"parse", "init", "freq", "cp", "bleed", "phase", "cleanup", "exited"}
Reasons == {"ok", "noargs", "load", "io", "invalid"}

VARIABLES
  chip,     \* the parameters the chip holds
  before,   \* the parameters it held when the tool started (history)
  given,    \* the options on the command line (freq_set, cp_set, ...)
  arg,      \* the parsed values, Unset where not given
  pc,       \* where main() is
  why,      \* why main() returns: 0 for "ok", 1 otherwise
  build     \* which binary runs: "shared" (dlopen) or "static"

vars == << chip, before, given, arg, pc, why, build >>

\* Any state a previous run (or power-up) can leave the chip in.
Init ==
  /\ chip \in { c \in [freq : FreqArg \cup {InitParam.freq},
                     cp : CpArg \cup {InitParam.cp},
                     bleed : BleedArg \cup {InitParam.bleed},
                     phase : PhaseArg \cup {InitParam.phase}] :
                  \A p \in Params : Legal(p, c[p]) }
  /\ before = chip
  /\ given \in SUBSET Params
  /\ arg \in [freq : IF "freq" \in given THEN FreqArg ELSE {Unset.freq},
              cp : IF "cp" \in given THEN CpArg ELSE {Unset.cp},
              bleed : IF "bleed" \in given THEN BleedArg ELSE {Unset.bleed},
              phase : IF "phase" \in given THEN PhaseArg ELSE {Unset.phase}]
  /\ pc = "parse"
  /\ why = "ok"
  /\ build \in {"shared", "static"}

\* "No parameters specified", then load_adf4382_library (dlopen may fail).
Parse ==
  /\ pc = "parse" /\ build = "shared"
  /\ \/ given = {} /\ pc' = "exited" /\ why' = "noargs"
     \/ given # {} /\ pc' = "init" /\ UNCHANGED why
     \/ given # {} /\ pc' = "exited" /\ why' = "load"
  /\ UNCHANGED << chip, before, given, arg, build >>

\* update_adf4382_static.c: the same parse, and no library to load.
ParseStatic ==
  /\ pc = "parse" /\ build = "static"
  /\ \/ given = {} /\ pc' = "exited" /\ why' = "noargs"
     \/ given # {} /\ pc' = "init" /\ UNCHANGED why
  /\ UNCHANGED << chip, before, given, arg, build >>

\* init_adf4382: adf4382_init resets and programs init_param; a failure
\* part-way leaves the chip reset or not; then cleanup() and exit 1.
init_adf4382 ==
  /\ pc = "init"
  /\ \/ chip' = InitParam /\ pc' = "freq" /\ UNCHANGED why
     \/ chip' \in {chip, InitParam} /\ pc' = "cleanup" /\ why' = "io"
  /\ UNCHANGED << before, given, arg, build >>

\* One "if (p_set) { if (set_p(v) != 0) { cleanup(); return 1; } }" block:
\* ok is the check made before any write (the wrapper's, or the driver's).
SetParam(p, ok, next) ==
  /\ pc = p
  /\ \/ p \notin given /\ pc' = next /\ UNCHANGED << chip, why >>
     \/ /\ p \in given /\ ~ok
        /\ pc' = "cleanup" /\ why' = "invalid" /\ UNCHANGED chip
     \/ /\ p \in given /\ ok
        /\ chip' = [chip EXCEPT ![p] = arg[p]]
        /\ pc' = next /\ UNCHANGED why
     \/ /\ p \in given /\ ok
        /\ \E v \in {chip[p], arg[p]} : chip' = [chip EXCEPT ![p] = v]
        /\ pc' = "cleanup" /\ why' = "io"
  /\ UNCHANGED << before, given, arg, build >>

\* Mutant: a failed driver call not followed by return 1.
SetParamFallThrough(p, ok, next) ==
  /\ pc = p
  /\ \/ p \notin given /\ pc' = next /\ UNCHANGED << chip, why >>
     \/ /\ p \in given /\ ~ok
        /\ pc' = "cleanup" /\ why' = "invalid" /\ UNCHANGED chip
     \/ /\ p \in given /\ ok
        /\ \E v \in {chip[p], arg[p]} : chip' = [chip EXCEPT ![p] = v]
        /\ pc' = next /\ UNCHANGED why
  /\ UNCHANGED << before, given, arg, build >>

set_frequency == SetParam("freq", FreqInRange(arg.freq), "cp")

\* Mutant: the 0-15 range check of set_charge_pump_current dropped.
SetCpUnchecked == SetParam("cp", TRUE, "bleed")

set_charge_pump_current == SetParam("cp", 0 <= arg.cp /\ arg.cp <= 15, "bleed")

\* Mutant: set_bleed_word's error return ignored.
SetBleedFallThrough ==
  SetParamFallThrough("bleed", 0 <= arg.bleed /\ arg.bleed <= 8191, "phase")

set_bleed_word == SetParam("bleed", 0 <= arg.bleed /\ arg.bleed <= 8191, "phase")

set_phase_adjustment == SetParam("phase", TRUE, "cleanup")

\* cleanup(): adf4382_remove (result ignored) and dlclose; then return.
cleanup ==
  /\ pc = "cleanup"
  /\ pc' = "exited"
  /\ UNCHANGED << chip, before, given, arg, why, build >>

\* main() has returned.
Exited == pc = "exited" /\ UNCHANGED vars

Next ==
  \/ Parse \/ ParseStatic \/ init_adf4382
  \/ set_frequency \/ set_charge_pump_current
  \/ set_bleed_word \/ set_phase_adjustment
  \/ cleanup \/ Exited

Spec == Init /\ [][Next]_vars

(***************************************************************************)
(* Properties                                                             *)
(***************************************************************************)
TypeOK ==
  /\ chip \in [Params -> Int] /\ before \in [Params -> Int]
  /\ given \subseteq Params /\ arg \in [Params -> Int]
  /\ pc \in Stages /\ why \in Reasons

(* The chip never holds an out-of-range charge-pump current, bleed word *)
(* or frequency, whatever the caller passes: the wrappers' range checks *)
(* and set_rfout's run before the write.                                *)
ChipConfigInRange == \A p \in Params : Legal(p, chip[p])

(* Spec section 7: input the caller gives is rejected before any bus    *)
(* activity, with no partial side effects.  The tool validates --cp-i   *)
(* and --bleed only after init and the earlier updates have run.        *)
RejectedWithoutSideEffects ==
  pc = "exited" /\ why = "invalid" => chip = before


(***************************************************************************)
(* Refinement: main() implements the one-step outcome of UpdateOutcome.   *)
(* Until main() returns, the outside sees the chip as it was; the exit    *)
(* step shows the chip main() leaves and its exit status.                 *)
(***************************************************************************)
Outcome == INSTANCE UpdateOutcome WITH
  chip <- IF pc = "exited" THEN chip ELSE before,
  done <- pc = "exited",
  status <- IF pc = "exited" /\ why # "ok" THEN "fail" ELSE "ok"

(* Every run of main(), whichever options are given and whichever driver *)
(* call fails, is a run of the abstract tool: exit 0 leaves exactly       *)
(* init_param overridden by the given parameters, exit 1 a mixture of old, *)
(* init_param and legal given values.                                     *)
ImplementsOutcome == Outcome!Spec

=============================================================================
