----------------------------- MODULE MCUpdateTool -----------------------------
EXTENDS UpdateTool

\* --freq 15000000000 (in range) and 30000000000 (above 22 GHz).
MCFreqArg == {15000, 30000}
\* --freq 15000000000 only: the frequencies the driver accepts, so that a
\* refusal can only come from the wrappers' own checks of --cp-i and --bleed.
MCLegalFreqArg == {15000}
\* --cp-i 10, 16 (above 15) and -1.
MCCpArg == {10, 16, -1}
\* --bleed 4000 and 8192 (above 8191).
MCBleedArg == {4000, 8192}
\* --phase 100.
MCPhaseArg == {100}
=============================================================================
