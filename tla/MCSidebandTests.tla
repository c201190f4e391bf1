--------------------------- MODULE MCSidebandTests --------------------------
EXTENDS SidebandTests
=============================================================================
