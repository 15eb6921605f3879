--------------------------- MODULE MCDirectReceive ---------------------------
EXTENDS DirectReceive, MCStreams
=============================================================================
