---------------------------- MODULE MCEchoStream ----------------------------
EXTENDS EchoStream
=============================================================================
