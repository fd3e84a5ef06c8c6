\* Two instances of the program: does a failed MUXOUT check reach the exit status?
CONSTANTS
  p1 = p1
  p2 = p2
  Proc = {p1, p2}
  Spi4Wire = TRUE
  ADF4377_VENDOR_ID_LSB = 1110
SPECIFICATION Spec
PROPERTY ErrorSurvivesCleanup
