--------------------------- MODULE MCStreamTest2 ---------------------------
EXTENDS StreamTest2
=============================================================================
