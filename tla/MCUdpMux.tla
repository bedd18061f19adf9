------------------------------ MODULE MCUdpMux ------------------------------
EXTENDS UdpMux, TLC
CONSTANTS t1, t2, s1, s2
MCDelay == t1 :> 0 @@ t2 :> 1
MCPeriod == t1 :> 2 @@ t2 :> 1
=============================================================================
