--------------------------- MODULE UpdateToolProofs ---------------------------
(***************************************************************************)
(* Proofs about update_adf4382's main(), for every set of option values a *)
(* caller may pass.                                                       *)
(***************************************************************************)
EXTENDS UpdateTool, TLAPS

\* The parsed arguments are integers, and the phase is never negative.
ArgsOK == arg \in [Params -> Int] /\ arg.phase \in Nat

IInv == TypeOK /\ ArgsOK /\ ChipConfigInRange

\* The record sets the model draws from are sets of functions on Params.
LEMMA RecordsAreFunctions ==
  ASSUME NEW A \in SUBSET Int, NEW B \in SUBSET Int,
         NEW C \in SUBSET Int, NEW D \in SUBSET Int
  PROVE  [freq : A, cp : B, bleed : C, phase : D] \subseteq [Params -> Int]
BY DEF Params

\* The register values init_param programs are legal.
LEMMA InitParamLegal ==
  InitParam \in [Params -> Int] /\ \A p \in Params : Legal(p, InitParam[p])
<1>1. InitParam \in [Params -> Int]
  BY DEF InitParam, Params
<1>2. ASSUME NEW p \in Params PROVE Legal(p, InitParam[p])
  <2>1. CASE p = "freq"
    BY <2>1 DEF InitParam, Legal, FreqInRange
  <2>2. CASE p = "cp"
    BY <2>2 DEF InitParam, Legal
  <2>3. CASE p = "bleed"
    BY <2>3 DEF InitParam, Legal
  <2>4. CASE p = "phase"
    BY <2>4 DEF InitParam, Legal
  <2>. QED
    BY <2>1, <2>2, <2>3, <2>4 DEF Params
<1>. QED
  BY <1>1, <1>2

LEMMA IInvInit == Init => IInv
<1> SUFFICES ASSUME Init PROVE IInv
  OBVIOUS
<1>1. chip \in [Params -> Int]
  <2>1. chip \in [freq : FreqArg \cup {20000}, cp : CpArg \cup {15},
                  bleed : BleedArg \cup {4903}, phase : PhaseArg \cup {0}]
    BY DEF Init, InitParam
  <2>2. /\ FreqArg \cup {20000} \in SUBSET Int /\ CpArg \cup {15} \in SUBSET Int
        /\ BleedArg \cup {4903} \in SUBSET Int /\ PhaseArg \cup {0} \in SUBSET Int
    BY ArgAssumption
  <2>. QED
    BY <2>1, <2>2, RecordsAreFunctions
<1>2. arg \in [Params -> Int] /\ arg.phase \in Nat
  <2>1. arg \in [freq : IF "freq" \in given THEN FreqArg ELSE {0},
                 cp : IF "cp" \in given THEN CpArg ELSE {-1},
                 bleed : IF "bleed" \in given THEN BleedArg ELSE {-1},
                 phase : IF "phase" \in given THEN PhaseArg ELSE {0}]
    BY DEF Init, Unset
  <2>2. /\ (IF "freq" \in given THEN FreqArg ELSE {0}) \in SUBSET Int
        /\ (IF "cp" \in given THEN CpArg ELSE {-1}) \in SUBSET Int
        /\ (IF "bleed" \in given THEN BleedArg ELSE {-1}) \in SUBSET Int
        /\ (IF "phase" \in given THEN PhaseArg ELSE {0}) \in SUBSET Nat
    BY ArgAssumption
  <2>3. arg.phase \in Nat
    BY <2>1, <2>2
  <2>. QED
    BY <2>1, <2>2, <2>3, RecordsAreFunctions
<1>3. given \subseteq Params /\ pc \in Stages /\ why \in Reasons /\ before = chip
  BY DEF Init, Stages, Reasons
<1>4. ChipConfigInRange
  BY DEF Init, ChipConfigInRange
<1>. QED
  BY <1>1, <1>2, <1>3, <1>4 DEF IInv, TypeOK, ArgsOK

(* One update block keeps IInv, provided the check it makes before      *)
(* writing guarantees the value is legal.  The block is described by what *)
(* SetParam allows it to do, so that the lemma applies to all four.       *)
LEMMA SetParamSafe ==
  ASSUME IInv, NEW p \in Params, NEW next \in Stages,
         pc' \in {next, "cleanup"}, why' \in {why, "invalid", "io"},
         UNCHANGED << before, given, arg >>,
         \/ chip' = chip
         \/ chip' = [chip EXCEPT ![p] = chip[p]]
         \/ Legal(p, arg[p]) /\ chip' = [chip EXCEPT ![p] = arg[p]]
  PROVE  IInv'
<1>1. pc' \in Stages /\ why' \in Reasons
  BY DEF IInv, TypeOK, Stages, Reasons
<1>2. ASSUME NEW q \in Params PROVE chip'[q] \in Int /\ Legal(q, chip'[q])
  BY DEF IInv, TypeOK, ArgsOK, ChipConfigInRange
<1>3. chip' \in [Params -> Int]
  BY <1>2 DEF IInv, TypeOK
<1>. QED
  BY <1>1, <1>2, <1>3 DEF IInv, TypeOK, ArgsOK, ChipConfigInRange

\* What one of the update blocks may do, when its check implies legality.
LEMMA SetParamShape ==
  ASSUME NEW p, NEW ok, NEW next, SetParam(p, ok, next), ok => Legal(p, arg[p])
  PROVE  /\ pc' \in {next, "cleanup"} /\ why' \in {why, "invalid", "io"}
         /\ UNCHANGED << before, given, arg >>
         /\ \/ chip' = chip
            \/ chip' = [chip EXCEPT ![p] = chip[p]]
            \/ Legal(p, arg[p]) /\ chip' = [chip EXCEPT ![p] = arg[p]]
BY DEF SetParam

LEMMA IInvStep == IInv /\ [Next]_vars => IInv'
<1> SUFFICES ASSUME IInv, [Next]_vars PROVE IInv'
  OBVIOUS
<1>1. CASE Parse \/ ParseStatic
  BY <1>1 DEF Parse, ParseStatic, IInv, TypeOK, ArgsOK, ChipConfigInRange,
              Stages, Reasons
<1>2. CASE init_adf4382
  <2>1. chip' \in {chip, InitParam}
    BY <1>2 DEF init_adf4382
  <2>2. UNCHANGED << before, given, arg >> /\ pc' \in Stages /\ why' \in Reasons
    BY <1>2 DEF init_adf4382, Stages, Reasons, IInv, TypeOK
  <2>. QED
    BY <2>1, <2>2, InitParamLegal DEF IInv, TypeOK, ArgsOK, ChipConfigInRange
<1>3. CASE set_frequency
  <2>1. FreqInRange(arg.freq) => Legal("freq", arg["freq"])
    BY DEF Legal
  <2>. QED
    BY <1>3, <2>1, SetParamShape, SetParamSafe DEF set_frequency, Params, Stages
<1>4. CASE set_charge_pump_current
  <2>1. (0 <= arg.cp /\ arg.cp <= 15) => Legal("cp", arg["cp"])
    BY DEF Legal
  <2>. QED
    BY <1>4, <2>1, SetParamShape, SetParamSafe DEF set_charge_pump_current, Params, Stages
<1>5. CASE set_bleed_word
  <2>1. (0 <= arg.bleed /\ arg.bleed <= 8191) => Legal("bleed", arg["bleed"])
    BY DEF Legal
  <2>2. /\ pc' \in {"phase", "cleanup"} /\ why' \in {why, "invalid", "io"}
        /\ UNCHANGED << before, given, arg >>
        /\ \/ chip' = chip
           \/ chip' = [chip EXCEPT !["bleed"] = chip["bleed"]]
           \/ Legal("bleed", arg["bleed"]) /\ chip' = [chip EXCEPT !["bleed"] = arg["bleed"]]
    BY <1>5, <2>1 DEF set_bleed_word, SetParam
  <2>. QED
    BY <2>2, SetParamSafe DEF Params, Stages
<1>6. CASE set_phase_adjustment
  <2>1. TRUE => Legal("phase", arg["phase"])
    BY DEF IInv, ArgsOK, Legal
  <2>. QED
    BY <1>6, <2>1, SetParamShape, SetParamSafe DEF set_phase_adjustment, Params, Stages
<1>7. CASE cleanup \/ Exited \/ UNCHANGED vars
  BY <1>7 DEF cleanup, Exited, vars, IInv, TypeOK, ArgsOK, ChipConfigInRange, Stages
<1>. QED
  BY <1>1, <1>2, <1>3, <1>4, <1>5, <1>6, <1>7 DEF Next

(* Whatever options the caller passes and whichever driver call fails,  *)
(* the chip never holds an out-of-range frequency, charge-pump current  *)
(* or bleed word: set_charge_pump_current's and set_bleed_word's range  *)
(* checks, and set_rfout's, come before the write.                      *)
THEOREM ConfigAlwaysInRange == Spec => []ChipConfigInRange
<1>1. IInv => ChipConfigInRange
  BY DEF IInv
<1>. QED
  BY IInvInit, IInvStep, <1>1, PTL DEF Spec
(***************************************************************************)
(* Refinement of UpdateOutcome.  The invariant PInv says how far main()   *)
(* has got in terms of the chip: before init it is untouched; after the   *)
(* update blocks up to a stage it holds init_param overridden by the      *)
(* legal given values of the earlier blocks; after a failure each         *)
(* parameter holds one of the values UpdateOutcome's Mixture allows.      *)
(***************************************************************************)
Blocks == {"freq", "cp", "bleed", "phase"}

\* The update blocks main() has passed when it reaches stage s.
Earlier(s) ==
  CASE s = "freq"  -> {}
    [] s = "cp"    -> {"freq"}
    [] s = "bleed" -> {"freq", "cp"}
    [] s = "phase" -> {"freq", "cp", "bleed"}
    [] OTHER       -> Params

\* init_param overridden by the given values of the blocks in S.
PartApplied(S) ==
  [p \in Params |-> IF p \in S \cap given THEN arg[p] ELSE InitParam[p]]

GivenLegal(S) == \A p \in S \cap given : Legal(p, arg[p])

PInv ==
  /\ pc \in {"parse", "init"} \cup Blocks => why = "ok"
  /\ pc \in {"parse", "init"} => chip = before
  /\ pc = "init" => given # {}
  /\ pc \in Blocks \cup {"cleanup", "exited"} /\ why = "ok" =>
       /\ given # {}
       /\ chip = PartApplied(Earlier(pc))
       /\ GivenLegal(Earlier(pc))
  /\ pc \in {"cleanup", "exited"} /\ why # "ok" =>
       \A p \in Params : chip[p] \in Outcome!Mixture(p)

RInv == IInv /\ PInv

\* What an update block does, with each outcome's stage and reason.
BlockStep(p, next) ==
  /\ pc = p
  /\ UNCHANGED << before, given, arg >>
  /\ \/ p \notin given /\ pc' = next /\ chip' = chip /\ why' = why
     \/ pc' = "cleanup" /\ why' = "invalid" /\ chip' = chip
     \/ /\ p \in given /\ Legal(p, arg[p])
        /\ chip' = [chip EXCEPT ![p] = arg[p]] /\ pc' = next /\ why' = why
     \/ /\ p \in given /\ Legal(p, arg[p])
        /\ chip' \in {[chip EXCEPT ![p] = chip[p]], [chip EXCEPT ![p] = arg[p]]}
        /\ pc' = "cleanup" /\ why' = "io"

\* An update block keeps PInv: it either moves on with its own parameter
\* applied (or not given), or stops with a mixture.
LEMMA BlockProgress ==
  ASSUME IInv, PInv, NEW s \in Blocks, NEW next \in Blocks \cup {"cleanup"},
         Earlier(next) = Earlier(s) \cup {s}, s \notin Earlier(s),
         BlockStep(s, next)
  PROVE  PInv'
<1>1. /\ why = "ok" /\ given # {}
      /\ chip = PartApplied(Earlier(s)) /\ GivenLegal(Earlier(s))
      /\ s \in Params /\ chip \in [Params -> Int]
  BY DEF PInv, BlockStep, Blocks, Params, IInv, TypeOK
\* Before the block, each parameter already holds an allowed value.
<1>2. \A q \in Params : chip[q] \in Outcome!Mixture(q)
  BY <1>1 DEF PartApplied, GivenLegal, Outcome!Mixture
<1>3. pc' \notin {"parse", "init", "exited"}
  BY DEF BlockStep, Blocks
<1>4. CASE s \notin given /\ pc' = next /\ chip' = chip /\ why' = why
  <2>1. PartApplied(Earlier(s)) = PartApplied(Earlier(s) \cup {s})
    BY <1>4 DEF PartApplied
  <2>. QED
    BY <1>1, <1>3, <1>4, <2>1 DEF BlockStep, PInv, GivenLegal, PartApplied
<1>5. CASE pc' = "cleanup" /\ why' = "invalid" /\ chip' = chip
  BY <1>2, <1>5 DEF BlockStep, PInv, Blocks, Outcome!Mixture
<1>6. CASE /\ s \in given /\ Legal(s, arg[s])
           /\ chip' = [chip EXCEPT ![s] = arg[s]] /\ pc' = next /\ why' = why
  <2>1. chip' = PartApplied(Earlier(s) \cup {s})
    BY <1>1, <1>6 DEF PartApplied
  <2>2. GivenLegal(Earlier(s) \cup {s})
    BY <1>1, <1>6 DEF GivenLegal
  <2>. QED
    BY <1>1, <1>3, <1>6, <2>1, <2>2 DEF BlockStep, PInv, GivenLegal, PartApplied
<1>7. CASE /\ s \in given /\ Legal(s, arg[s])
           /\ chip' \in {[chip EXCEPT ![s] = chip[s]], [chip EXCEPT ![s] = arg[s]]}
           /\ pc' = "cleanup" /\ why' = "io"
  <2>1. arg[s] \in Outcome!Mixture(s)
    BY <1>7 DEF Outcome!Mixture
  <2>2. \A q \in Params : chip'[q] \in Outcome!Mixture(q)
    BY <1>1, <1>2, <1>7, <2>1
  <2>. QED
    BY <1>7, <2>2 DEF BlockStep, PInv, Blocks, Outcome!Mixture
<1>. QED
  BY <1>4, <1>5, <1>6, <1>7 DEF BlockStep

LEMMA PInvInit == Init => PInv
BY DEF Init, PInv, Blocks

\* Every step keeps before, the options and the parsed values.
LEMMA InputsConstant == [Next]_vars => UNCHANGED << before, given, arg >>
BY DEF Next, vars, Parse, ParseStatic, init_adf4382, set_frequency, set_charge_pump_current,
       set_bleed_word, set_phase_adjustment, SetParam, cleanup, Exited

LEMMA PInvStep == IInv /\ PInv /\ [Next]_vars => PInv'
<1> SUFFICES ASSUME IInv, PInv, [Next]_vars PROVE PInv'
  OBVIOUS
<1>1. CASE Parse \/ ParseStatic
  <2>1. pc = "parse" /\ chip = before /\ why = "ok"
    BY <1>1 DEF Parse, ParseStatic, PInv
  <2>2. UNCHANGED << chip, before, given, arg >>
    BY <1>1 DEF Parse, ParseStatic
  <2>3. CASE pc' = "init" /\ why' = why /\ given # {}
    BY <2>1, <2>2, <2>3 DEF PInv, Blocks
  <2>4. CASE pc' = "exited" /\ why' # "ok"
    <3>1. \A p \in Params : chip'[p] \in Outcome!Mixture(p)'
      BY <2>1, <2>2 DEF Outcome!Mixture
    <3>. QED
      BY <2>4, <3>1 DEF PInv, Blocks
  <2>. QED
    BY <1>1, <2>3, <2>4 DEF Parse, ParseStatic
<1>2. CASE init_adf4382
  <2>1. pc = "init" /\ chip = before /\ why = "ok" /\ given # {}
    BY <1>2 DEF init_adf4382, PInv
  <2>2. InitParam = PartApplied(Earlier("freq"))
    BY DEF PartApplied, Earlier, InitParam, Params
  <2>3. UNCHANGED << before, given, arg >>
    BY <1>2 DEF init_adf4382
  <2>4. CASE chip' = InitParam /\ pc' = "freq" /\ why' = why
    <3>1. chip' = PartApplied({})'
      <4>1. chip' = PartApplied({})
        BY <2>2, <2>4 DEF Earlier
      <4>2. PartApplied({})' = PartApplied({})
        BY <2>3 DEF PartApplied
      <4>. QED
        BY <4>1, <4>2
    <3>2. GivenLegal({})'
      BY DEF GivenLegal
    <3>. QED
      BY <2>1, <2>3, <2>4, <3>1, <3>2 DEF PInv, Blocks, Earlier
  <2>5. CASE chip' \in {chip, InitParam} /\ pc' = "cleanup" /\ why' = "io"
    <3>1. \A p \in Params : chip'[p] \in Outcome!Mixture(p)'
      BY <2>1, <2>3, <2>5 DEF Outcome!Mixture
    <3>. QED
      BY <2>5, <3>1 DEF PInv, Blocks
  <2>. QED
    BY <1>2, <2>4, <2>5 DEF init_adf4382
<1>3. CASE set_frequency
  <2>1. BlockStep("freq", "cp")
    BY <1>3 DEF set_frequency, SetParam, BlockStep, Legal
  <2>. QED
    BY <2>1, BlockProgress DEF Earlier, Blocks
<1>4. CASE set_charge_pump_current
  <2>1. BlockStep("cp", "bleed")
    BY <1>4 DEF set_charge_pump_current, SetParam, BlockStep, Legal
  <2>. QED
    BY <2>1, BlockProgress DEF Earlier, Blocks
<1>5. CASE set_bleed_word
  <2>1. BlockStep("bleed", "phase")
    BY <1>5 DEF set_bleed_word, SetParam, BlockStep, Legal
  <2>. QED
    BY <2>1, BlockProgress DEF Earlier, Blocks
<1>6. CASE set_phase_adjustment
  <2>1. BlockStep("phase", "cleanup")
    BY <1>6 DEF set_phase_adjustment, SetParam, BlockStep, Legal, IInv, ArgsOK
  <2>2. Earlier("cleanup") = Earlier("phase") \cup {"phase"}
    BY DEF Earlier, Params
  <2>. QED
    BY <2>1, <2>2, BlockProgress DEF Earlier, Blocks
<1>7. CASE cleanup
  BY <1>7 DEF cleanup, PInv, Blocks, Earlier, PartApplied, GivenLegal,
              Outcome!Mixture
<1>8. CASE Exited \/ UNCHANGED vars
  BY <1>8 DEF Exited, vars, PInv, PartApplied, GivenLegal, Outcome!Mixture
<1>. QED
  BY <1>1, <1>2, <1>3, <1>4, <1>5, <1>6, <1>7, <1>8 DEF Next

\* Under the mapping, a step of main() is a stutter until its exit, and
\* the exit is UpdateOutcome's Run: PInv, true in the state after the
\* exit, says which outcome.
LEMMA RefineStep ==
  RInv /\ RInv' /\ [Next]_vars => [Outcome!Run]_Outcome!vars
<1> SUFFICES ASSUME RInv, RInv', [Next]_vars PROVE [Outcome!Run]_Outcome!vars
  OBVIOUS
<1>1. UNCHANGED << before, given, arg >>
  BY InputsConstant
<1>2. CASE pc = "exited"
  <2>1. UNCHANGED vars
    BY <1>2 DEF Next, Parse, ParseStatic, init_adf4382, set_frequency, set_charge_pump_current,
                set_bleed_word, set_phase_adjustment, SetParam, cleanup, Exited
  <2>. QED
    BY <2>1 DEF vars, Outcome!vars
<1>3. CASE pc # "exited" /\ pc' # "exited"
  BY <1>1, <1>3 DEF Outcome!vars
<1>4. CASE pc # "exited" /\ pc' = "exited"
  <2>1. CASE why' = "ok"
    <3>1. (given # {} /\ chip = PartApplied(Params) /\ GivenLegal(Params))'
      BY <1>4, <2>1 DEF RInv, PInv, Earlier, Blocks
    <3>2. chip' = Outcome!Applied
      BY <1>1, <3>1 DEF PartApplied, Outcome!Applied, RInv, IInv, TypeOK
    <3>3. \A p \in given : Legal(p, arg[p])
      BY <1>1, <3>1 DEF GivenLegal, RInv, IInv, TypeOK
    <3>. QED
      BY <1>1, <1>4, <2>1, <3>1, <3>2, <3>3 DEF Outcome!Run
  <2>2. CASE why' # "ok"
    <3>1. \A p \in Params : chip'[p] \in Outcome!Mixture(p)
      BY <1>1, <1>4, <2>2 DEF RInv, PInv, Outcome!Mixture
    <3>2. DOMAIN chip' = Params
      BY DEF RInv, IInv, TypeOK
    <3>. QED
      BY <1>1, <1>4, <2>2, <3>1, <3>2 DEF Outcome!Run
  <2>. QED
    BY <2>1, <2>2
<1>. QED
  BY <1>2, <1>3, <1>4

(* Every run of update_adf4382's main(), for every set of option values, *)
(* is a run of UpdateOutcome: nothing is visible until main() returns;   *)
(* exit 0 leaves init_param overridden by the given parameters, all      *)
(* legal; exit 1 leaves each parameter old, init_param or a legal given   *)
(* value.                                                                 *)
THEOREM RefinesOutcome == Spec => ImplementsOutcome
<1>1. Init => RInv
  BY IInvInit, PInvInit DEF RInv
<1>2. RInv /\ [Next]_vars => RInv'
  BY IInvStep, PInvStep DEF RInv
<1>3. Init => Outcome!Init
  BY DEF Init, Outcome!Init
<1>. QED
  BY <1>1, <1>2, <1>3, RefineStep, PTL DEF Spec, ImplementsOutcome, Outcome!Spec
=============================================================================
