---------------------------- MODULE MCUdpServer ----------------------------
(* Model values and bounds for checking UdpServer with TLC.                *)
EXTENDS UdpServer, FiniteSets, TLC

CONSTANTS A, B, C,      \* three clients
          a1, a2, b1, c1 \* the addresses their requests come from

MCKeys == {A, B, C}
MCAddrs == {a1, a2, b1, c1}
MCSessions == {1, 2}
\* The oldest timestamp that passes the replay check, and one that does not.
MCAges == {1, 2}

\* A moves to a new socket with its new session; B and C happen to have drawn the
\* session ids that A uses.
MCOrigins == {<<A, a1, 1>>, <<A, a2, 2>>, <<B, b1, 2>>, <<C, c1, 1>>}

\* With these two lists every pair of clients can ask for each other, and every
\* client can list itself.
MCPeerLists == {<<B>>, <<A, C>>}

=============================================================================
