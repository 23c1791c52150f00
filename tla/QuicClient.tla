----------------------------- MODULE QuicClient -----------------------------
(***************************************************************************)
(* The QUIC establisher (UdpQuicConnectionEstablisher,                     *)
(* src/src/udp/client.rs, and src/src/udp/quic.rs) on top of the UDP       *)
(* establisher: poll_accept turns the punched socket into a QUIC           *)
(* connection before it returns, and gives the peer back to discovery when *)
(* that fails.                                                             *)
(*                                                                         *)
(* The listener of the match connects: its handshake has quinn's timeouts. *)
(* The other side waits for an incoming connection, without a deadline.    *)
(*                                                                         *)
(* Definitions whose comment starts with "Variant" are plausible mistakes. *)
(* No action uses them; each takes the place of the definition after it    *)
(* when one wants to see that a property notices.                          *)
(***************************************************************************)
EXTENDS UdpClient

VARIABLE layer  \* the establisher in use: "udp" or "quic"

quicVars == <<vars, layer>>

\* Variant: return the error only.
ReturnError ==
    /\ Return
    /\ UNCHANGED <<stateVars, asked, historyVars>>

\* The endpoint or the handshake failed: report the connection closed to the inner
\* establisher and return the error.
GiveBack ==
    /\ trusted_remotes' = Reenabled(current.peer)
    /\ Return
    /\ UNCHANGED <<last_request, session_id, last_trusted_peer_offset, asked,
                   historyVars>>

\* make_quin_endpoint fails, in either role.
EndpointFails == pc = "connected" /\ GiveBack

\* establish_server_quic_connection: connect to the punched address.
ConnectSucceeds == pc = "connected" /\ current.is_listener /\ HandOver
ConnectFails == pc = "connected" /\ current.is_listener /\ GiveBack

\* establish_client_quic_connection: the peer's connection arrives and is accepted, or
\* its handshake fails.
AcceptSucceeds == pc = "connected" /\ ~current.is_listener /\ HandOver
AcceptFails == pc = "connected" /\ ~current.is_listener /\ GiveBack

\* poll_accept of the QUIC establisher.
QuicPoll ==
    \/ EndpointFails
    \/ ConnectSucceeds \/ ConnectFails
    \/ AcceptSucceeds \/ AcceptFails

QuicInit == Init /\ layer \in {"udp", "quic"}

\* Either establisher; they differ in what they do with a punched socket.
QuicNext ==
    /\ \/ Application \/ Poll \/ Answer \/ NothingUsable
       \/ PunchFails \/ PunchSucceeds
       \/ layer = "udp" /\ ReturnConnection
       \/ layer = "quic" /\ QuicPoll
       \/ Tick
    /\ UNCHANGED layer

QuicSpec == QuicInit /\ [][QuicNext]_quicVars

\* The application keeps polling, the wait for the server, the hole punch and an
\* outgoing handshake have deadlines, and time passes.  Nothing is assumed of the
\* server, nor that a peer connects to an endpoint that waits for it.
QuicFairSpec ==
    /\ QuicSpec
    /\ WF_quicVars(Poll /\ UNCHANGED layer)
    /\ WF_quicVars(NothingUsable /\ UNCHANGED layer)
    /\ WF_quicVars((PunchFails \/ PunchSucceeds) /\ UNCHANGED layer)
    /\ WF_quicVars(layer = "udp" /\ ReturnConnection /\ UNCHANGED layer)
    /\ WF_quicVars(layer = "quic" /\ (ConnectSucceeds \/ ConnectFails) /\ UNCHANGED layer)
    /\ WF_quicVars(Tick /\ UNCHANGED layer)

----------------------------------------------------------------------------
(* Properties *)

\* A trusted peer without a connection is asked for again and again, whatever punches
\* and handshakes fail and whichever answers come, as long as calls return: backoff
\* and rotation only delay it.  Calls of the plain establisher always return.
EveryPeerIsAskedFor ==
    (layer = "udp" \/ []<>(pc = "idle")) =>
        \A p \in Peers : Undiscovered(p) ~> p \in placed \/ ~Undiscovered(p)

\* "Block for `dur`, returning a fully established QUIC connection or an error"
\* (client.rs:508): a call of poll_accept returns.
PollAcceptReturns == layer = "quic" => (pc = "receiving" ~> pc = "idle")

=============================================================================
