-------------------------- MODULE MCBufferedReceive --------------------------
EXTENDS BufferedReceiveInv, MCStreams
=============================================================================
