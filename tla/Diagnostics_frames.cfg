\* The hand-built frames of test_connections, spi_diagnostic and
\* vendor_id_diagnostic.
CONSTANT Programs = {"test_connections", "spi_diagnostic", "vendor_id_diagnostic"}
SPECIFICATION Spec
INVARIANT FramesDoWhatTheySay
