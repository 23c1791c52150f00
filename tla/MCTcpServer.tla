---------------------------- MODULE MCTcpServer ----------------------------
(* Bounds for checking TcpServer with TLC.                                 *)
EXTENDS TcpServer

CONSTANTS H1, H2, H3, S1, S2

MCHandlers == {H1, H2, H3}
MCOneSession == {S1}
MCTwoSessions == {S1, S2}

=============================================================================
