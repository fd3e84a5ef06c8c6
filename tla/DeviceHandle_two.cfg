\* Two instances of the program against one chip.
CONSTANTS
  p1 = p1
  p2 = p2
  Proc = {p1, p2}
  Spi4Wire = TRUE
  ADF4377_VENDOR_ID_LSB = 1110
SYMMETRY MCProcSymmetry
SPECIFICATION Spec
INVARIANT TypeOK
INVARIANT UsedOnlyWhileLive
INVARIANT VerifiedMeansPresent
