\* Two copies of ADF4382_Test against one chip, any transfer failing.
CONSTANTS
  p1 = p1
  p2 = p2
  Proc = {p1, p2}
SPECIFICATION Spec
SYMMETRY MCProcSymmetry
INVARIANT UsedOnlyWhileLive
