--------------------------- MODULE MCDeviceHandle ---------------------------
(* Model-checking instance of DeviceHandle: processes are model values,   *)
(* interchangeable, so their permutations form a symmetry set.            *)
EXTENDS DeviceHandle, TLC

CONSTANTS p1, p2

MCProcSymmetry == Permutations(Proc)
=============================================================================
