\* Programs whose verdict depends on the wire-mode byte they send, or on
\* reading before any wire-mode write: spi_mode_test, vendor_id_test,
\* simple_vendor_id_test and simple_chip_id_test.
CONSTANT Programs = {"spi_mode", "vendor_id", "simple_vendor_id", "simple_chip_id"}
SPECIFICATION Spec
INVARIANT DiagnosisSound
