\* One program against the chip, 4-wire bus as common_data.c configures it.
CONSTANTS
  p1 = p1
  p2 = p2
  Proc = {p1}
  Spi4Wire = TRUE
  ADF4377_VENDOR_ID_LSB = 1110
SPECIFICATION Spec
INVARIANT PresentChipPasses
