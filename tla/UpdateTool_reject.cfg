\* An out-of-range --cp-i or --bleed given with an in-range --freq.
CONSTANTS
  FreqArg <- MCLegalFreqArg
  CpArg <- MCCpArg
  BleedArg <- MCBleedArg
  PhaseArg <- MCPhaseArg
SPECIFICATION Spec
INVARIANT RejectedWithoutSideEffects
