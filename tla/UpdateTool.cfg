\* Every combination of options, in-range and out-of-range, any call failing.
CONSTANTS
  FreqArg <- MCFreqArg
  CpArg <- MCCpArg
  BleedArg <- MCBleedArg
  PhaseArg <- MCPhaseArg
SPECIFICATION Spec
INVARIANT ChipConfigInRange
PROPERTY ImplementsOutcome
