\* skip_scratchpad_test against every initial chip state, with failures.
CONSTANT Programs = {"skip_scratchpad"}
SPECIFICATION Spec
INVARIANTS DiagnosisSound FramesDoWhatTheySay
