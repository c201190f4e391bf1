-------------------------- MODULE MCParallelStreams --------------------------
EXTENDS ParallelStreams
=============================================================================
