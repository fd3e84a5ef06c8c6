--------------------------- MODULE MCAdf4382Test ---------------------------
(* Model-checking instance of Adf4382Test: the processes are model values, *)
(* interchangeable copies of one program, so their permutations form a     *)
(* symmetry set (the runs check safety properties only).                  *)
EXTENDS Adf4382Test, TLC

CONSTANTS p1, p2

MCProcSymmetry == Permutations(Proc)
=============================================================================
