---------------------------- MODULE MCTcpClients ----------------------------
(* Bounds for checking TcpClients with TLC: a service and a connector.  The *)
(* connector has two connections, so that it can call again while the       *)
(* server still serves the call before.  A tick is 750 ms: the values in    *)
(* the configuration are the code's, rounded up.                            *)
EXTENDS TcpClients

CONSTANTS S, C, s1, c1, c2, session

MCServices == {S}
MCConnectors == {C}
MCHandlers == {s1, c1, c2}
MCOwner == [h \in MCHandlers |-> IF h = s1 THEN S ELSE C]
MCSessions == {session}
MCSessionOf == [x \in MCServices |-> session]

=============================================================================
