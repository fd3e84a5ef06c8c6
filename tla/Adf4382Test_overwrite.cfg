\* Two copies of ADF4382_Test: does a failed scratchpad check reach the exit status?
CONSTANTS
  p1 = p1
  p2 = p2
  Proc = {p1, p2}
SPECIFICATION Spec
SYMMETRY MCProcSymmetry
INVARIANT ScratchpadMismatchReported
