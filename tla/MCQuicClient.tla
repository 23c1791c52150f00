---------------------------- MODULE MCQuicClient ----------------------------
(* Bounds for checking UdpClient and QuicClient with TLC.                  *)
EXTENDS QuicClient

MCTwoPeers == 1 .. 2
MCRemoteSessions == {"r1", "r2"}
MCOwnSessions == {"s1"}

=============================================================================
