--------------------------- MODULE MCApplications ---------------------------
EXTENDS Applications, MCClientMain
=============================================================================
