---------------------------- MODULE MCUdpServer ----------------------------
(* Small instances of the datagram server for TLC. *)
EXTENDS UdpServer, TLC

CONSTANTS m1, m2, m3, m4

\* the first client sends two requests, one of them of another size
MCSender == (m1 :> "a") @@ (m2 :> "b") @@ (m3 :> "a") @@ (m4 :> "c")
MCSize == (m1 :> 1) @@ (m2 :> 1) @@ (m3 :> 2) @@ (m4 :> 1)
=============================================================================
