------------------------------ MODULE MCTestApi ------------------------------
EXTENDS TestApi, TLC

CONSTANTS b1, b2    \* two (spi_device, spi_cs) pairs

MCBusSymmetry == Permutations({b1, b2})
=============================================================================
