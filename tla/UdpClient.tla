----------------------------- MODULE UdpClient -----------------------------
(***************************************************************************)
(* The UDP connection establisher of one client (UdpConnectionEstablisher, *)
(* src/src/udp/client.rs): which peers it asks the server for, when, and   *)
(* what it does with the answers.                                          *)
(*                                                                         *)
(* The application calls poll_accept in a loop and changes the trusted     *)
(* list between calls.  All operations take &mut self, so they exclude     *)
(* each other, but poll_accept waits inside: for the server's answer and   *)
(* for the hole punch.  Time passes meanwhile.  pc says where a call is.   *)
(*                                                                         *)
(* The server, the network and the hole punch are the environment here:    *)
(* an answer names a peer that was asked for on the current socket, with   *)
(* any remote session, any number of times; a punch succeeds or fails.     *)
(* Instants are modelled by the time that is left or has passed, in ticks. *)
(*                                                                         *)
(* Definitions whose comment starts with "Variant" are plausible mistakes. *)
(* No action uses them; each takes the place of the definition after it    *)
(* when one wants to see that a property notices.                          *)
(***************************************************************************)
EXTENDS Integers, FiniteSets

CONSTANTS
    Peers,           \* public keys, ordered as in the BTreeMap
    RemoteSessions,  \* session ids the server reports for peers
    NoSession,       \* None
    OwnSessions,     \* values of random()
    BATCH,           \* most peers in one request (10 in the code)
    REQUEST_PLACEMENT_INTERVAL,
    INITIAL_TIMEOUT, \* HOLE_PUNCH_FAILED_INITIAL_TIMEOUT_MS
    TIMEOUT_STEP,    \* most that one failure adds (1 s)
    MAX_TIMEOUT,     \* HOLE_PUNCH_FAILED_MAX_TIMEOUT_MS
    MaxConns         \* bound on connections to one peer that are open at a time

ASSUME PeersAssumption == IsFiniteSet(Peers) /\ Peers \subseteq Nat \ {0}
ASSUME SessionsAssumption ==
    RemoteSessions # {} /\ OwnSessions # {} /\ NoSession \notin RemoteSessions
ASSUME BoundsAssumption ==
    /\ BATCH \in Nat \ {0}
    /\ REQUEST_PLACEMENT_INTERVAL \in Nat
    /\ INITIAL_TIMEOUT \in Nat \ {0}
    /\ TIMEOUT_STEP \in Nat
    /\ MAX_TIMEOUT \in Nat /\ INITIAL_TIMEOUT <= MAX_TIMEOUT
    /\ MaxConns \in Nat \ {0}

VARIABLES
    trusted_remotes,          \* peer -> PeerState
    last_request,             \* ticks since the last request, or Never
    session_id,
    last_trusted_peer_offset, \* key at which the next request's list starts
    pc,       \* "idle", or where poll_accept waits: "receiving", "punching", "connected"
    current,  \* the accepted match poll_accept works on, when punching or connected
    asked,    \* peers requested from the current socket
    placed,   \* history: the list of the request the running call has sent
    skipped,  \* history: peer -> requests in a row that could have listed it but did not
    conns,    \* peer -> connections the application holds
    revoked   \* history: peers dropped from the list while connected

stateVars == <<trusted_remotes, last_request, session_id, last_trusted_peer_offset>>
historyVars == <<skipped, conns, revoked>>
vars == <<stateVars, pc, current, asked, placed, historyVars>>

Never == -1
NoMatch == [peer |-> 0, is_listener |-> FALSE]

----------------------------------------------------------------------------
(* PeerState *)

PeerState ==
    [kind : {"ConnectionActive", "Enabled", "DisabledUntil"},
     wait : 0 .. MAX_TIMEOUT,                     \* time left of DisabledUntil
     failure_retry_timeout : INITIAL_TIMEOUT .. MAX_TIMEOUT,
     last_accepted_session_id : RemoteSessions \cup {NoSession}]

DefaultPeerState ==
    [kind |-> "Enabled", wait |-> 0, failure_retry_timeout |-> INITIAL_TIMEOUT,
     last_accepted_session_id |-> NoSession]

\* Variant: a connected peer counts as enabled.
is_discovery_enabled_always(s) == s.wait = 0

\* Variant: a pause does not end by itself.
is_discovery_enabled_once(s) == s.kind = "Enabled"

is_discovery_enabled(s) ==
    \/ s.kind = "Enabled"
    \/ s.kind = "DisabledUntil" /\ s.wait = 0

\* Variant: no cap.
NextTimeoutUncapped(t) == t + (IF t < TIMEOUT_STEP THEN t ELSE TIMEOUT_STEP)

\* The wait after the next failure: doubled up to a limit on the increase, then capped.
NextTimeout(t) ==
    LET increased == t + (IF t < TIMEOUT_STEP THEN t ELSE TIMEOUT_STEP)
    IN  IF increased < MAX_TIMEOUT THEN increased ELSE MAX_TIMEOUT

\* entry(key).or_default() for every key of ks.
WithDefaults(ks) ==
    [p \in DOMAIN trusted_remotes \cup ks |->
        IF p \in DOMAIN trusted_remotes THEN trusted_remotes[p] ELSE DefaultPeerState]

Only(f, ks) == [p \in DOMAIN f \cap ks |-> f[p]]

----------------------------------------------------------------------------
(* new_available_remotes_list *)

Available == {p \in DOMAIN trusted_remotes : is_discovery_enabled(trusted_remotes[p])}

\* Variant: the offset is not used.
BeforeFromStart(j, k) == j < k

\* The order of range(offset..) followed by range(..offset).
Before(j, k) ==
    LET wrapped(x) == x < last_trusted_peer_offset IN
    \/ ~wrapped(j) /\ wrapped(k)
    \/ (wrapped(j) <=> wrapped(k)) /\ j < k

\* The first BATCH available peers in that order.
RemotesList ==
    {p \in Available : Cardinality({q \in Available : Before(q, p)}) < BATCH}

\* Variant: the next request starts at the last peer listed.
NextOffsetAtLast == CHOOSE p \in RemotesList : \A q \in RemotesList \ {p} : Before(q, p)

\* The trusted peer after the last one listed, or the first one of all.
NextOffset ==
    LET last == CHOOSE p \in RemotesList : \A q \in RemotesList \ {p} : Before(q, p)
        after == {p \in DOMAIN trusted_remotes : p > last}
        candidates == IF after # {} THEN after ELSE DOMAIN trusted_remotes
    IN  CHOOSE p \in candidates : \A q \in candidates : p <= q

----------------------------------------------------------------------------
(* Calls of the application between polls *)

Init ==
    /\ trusted_remotes = [p \in {} |-> DefaultPeerState]
    /\ last_request = Never
    /\ session_id \in OwnSessions
    /\ last_trusted_peer_offset = 0
    /\ pc = "idle"
    /\ current = NoMatch
    /\ asked = {}
    /\ placed = {}
    /\ skipped = [p \in Peers |-> 0]
    /\ conns = [p \in Peers |-> 0]
    /\ revoked = {}

add_trusted_remote(p) ==
    /\ pc = "idle"
    /\ trusted_remotes' = WithDefaults({p})
    /\ UNCHANGED <<last_request, session_id, last_trusted_peer_offset, pc, current,
                   asked, placed, historyVars>>

\* History: connections of dropped peers stay with the application.
Revoke(ps) == revoked' = revoked \cup {p \in ps : conns[p] > 0}

remove_trusted_remote(p) ==
    /\ pc = "idle"
    /\ trusted_remotes' = Only(trusted_remotes, Peers \ {p})
    /\ Revoke({p})
    /\ UNCHANGED <<last_request, session_id, last_trusted_peer_offset, pc, current,
                   asked, placed, skipped, conns>>

set_trusted_remote_list(ps) ==
    /\ pc = "idle"
    /\ trusted_remotes' = Only(WithDefaults(ps), ps)
    /\ Revoke(Peers \ ps)
    /\ UNCHANGED <<last_request, session_id, last_trusted_peer_offset, pc, current,
                   asked, placed, skipped, conns>>

\* Variant: entry().or_default() without the assignment.
NotReenabled(p) == WithDefaults({p})

\* Enabled again, whatever it was, and trusted again if it was dropped.
Reenabled(p) == [WithDefaults({p}) EXCEPT ![p].kind = "Enabled", ![p].wait = 0]

\* The application reports that a connection it holds was closed.
on_connection_closed(p) ==
    /\ pc = "idle"
    /\ conns[p] > 0
    /\ trusted_remotes' = Reenabled(p)
    /\ conns' = [conns EXCEPT ![p] = @ - 1]
    /\ revoked' = IF conns[p] = 1 THEN revoked \ {p} ELSE revoked
    /\ UNCHANGED <<last_request, session_id, last_trusted_peer_offset, pc, current,
                   asked, placed, skipped>>

----------------------------------------------------------------------------
(* poll_accept *)

\* A new request is due.
RequestDue == last_request = Never \/ last_request > REQUEST_PLACEMENT_INTERVAL

\* The interface check: a change replaces the socket, and nothing asked for on the old
\* one can be answered on the new one.
AskedAfterCheck(changed) == IF changed THEN {} ELSE asked

\* Nobody to ask for: sleep and return.
PollWithoutPeers(changed) ==
    /\ pc = "idle"
    /\ RequestDue
    /\ RemotesList = {}
    /\ asked' = AskedAfterCheck(changed)
    /\ UNCHANGED <<stateVars, pc, current, placed, historyVars>>

\* History: numbers of skips from MaxSkips on are not told apart.
MaxSkips == Cardinality(Peers)
OneMore(n) == IF n < MaxSkips THEN n + 1 ELSE n

\* Place a request, then wait for the server.
PollPlacing(changed) ==
    /\ pc = "idle"
    /\ RequestDue
    /\ RemotesList # {}
    /\ last_trusted_peer_offset' = NextOffset
    /\ last_request' = 0
    /\ asked' = AskedAfterCheck(changed) \cup RemotesList
    /\ placed' = RemotesList
    /\ skipped' = [p \in Peers |-> IF p \in Available \ RemotesList THEN OneMore(skipped[p])
                                   ELSE 0]
    /\ pc' = "receiving"
    /\ UNCHANGED <<trusted_remotes, session_id, current, conns, revoked>>

\* The last request is recent: wait for the server.
PollReceiving(changed) ==
    /\ pc = "idle"
    /\ ~RequestDue
    /\ asked' = AskedAfterCheck(changed)
    /\ pc' = "receiving"
    /\ UNCHANGED <<stateVars, current, placed, historyVars>>

Return == pc' = "idle" /\ current' = NoMatch /\ placed' = {}

\* Timeout, receive error, or a datagram from elsewhere or that does not parse.
NothingUsable ==
    /\ pc = "receiving"
    /\ Return
    /\ UNCHANGED <<stateVars, asked, historyVars>>

\* Which InitiateConnectionRequest is acted on: a trusted peer's, while discovery is
\* enabled for it, with another session than the last one accepted.
Acceptable(p, s) ==
    /\ p \in DOMAIN trusted_remotes
    /\ is_discovery_enabled(trusted_remotes[p])
    /\ trusted_remotes[p].last_accepted_session_id # s

IgnoreInitiate(p, s) ==
    /\ pc = "receiving" /\ p \in asked
    /\ ~Acceptable(p, s)
    /\ Return
    /\ UNCHANGED <<stateVars, asked, historyVars>>

\* The match is accepted: its socket goes to the hole punch, a new one and a new
\* session replace it.
AcceptInitiate(p, s, is_listener) ==
    /\ pc = "receiving" /\ p \in asked
    /\ Acceptable(p, s)
    /\ conns[p] < MaxConns
    /\ trusted_remotes' = [trusted_remotes EXCEPT ![p].last_accepted_session_id = s]
    /\ asked' = {}
    /\ session_id' \in OwnSessions
    /\ pc' = "punching"
    /\ current' = [peer |-> p, is_listener |-> is_listener]
    /\ UNCHANGED <<last_request, last_trusted_peer_offset, placed, historyVars>>

LostConnectionRequest ==
    /\ pc = "receiving" /\ asked # {}
    /\ session_id' \in OwnSessions
    /\ Return
    /\ UNCHANGED <<trusted_remotes, last_request, last_trusted_peer_offset, asked,
                   historyVars>>

\* hole_punch returned Err: pause discovery of this peer, longer each time.
PunchFails ==
    /\ pc = "punching"
    /\ trusted_remotes' =
         [trusted_remotes EXCEPT
            ![current.peer].kind = "DisabledUntil",
            ![current.peer].wait = trusted_remotes[current.peer].failure_retry_timeout,
            ![current.peer].failure_retry_timeout = NextTimeout(@)]
    /\ last_request' = Never
    /\ Return
    /\ UNCHANGED <<session_id, last_trusted_peer_offset, asked, historyVars>>

PunchSucceeds ==
    /\ pc = "punching"
    /\ trusted_remotes' =
         [trusted_remotes EXCEPT
            ![current.peer].kind = "ConnectionActive",
            ![current.peer].wait = 0,
            ![current.peer].failure_retry_timeout = INITIAL_TIMEOUT]
    /\ last_request' = Never
    /\ pc' = "connected"
    /\ UNCHANGED <<session_id, last_trusted_peer_offset, current, asked, placed,
                   historyVars>>

\* The application gets the connection.
HandOver ==
    /\ conns' = [conns EXCEPT ![current.peer] = @ + 1]
    /\ Return
    /\ UNCHANGED <<stateVars, asked, skipped, revoked>>

\* poll_accept of the plain UDP establisher returns the punched socket as it is.
ReturnConnection == pc = "connected" /\ HandOver

\* A tick of the clock.  Ages beyond the interval are not told apart.
Tick ==
    /\ trusted_remotes' =
         [p \in DOMAIN trusted_remotes |->
            IF trusted_remotes[p].wait > 0
            THEN [trusted_remotes[p] EXCEPT !.wait = @ - 1] ELSE trusted_remotes[p]]
    /\ last_request' = IF last_request \in 0 .. REQUEST_PLACEMENT_INTERVAL
                       THEN last_request + 1 ELSE last_request
    /\ UNCHANGED <<session_id, last_trusted_peer_offset, pc, current, asked, placed,
                   historyVars>>

----------------------------------------------------------------------------

Application ==
    \/ \E p \in Peers :
         add_trusted_remote(p) \/ remove_trusted_remote(p) \/ on_connection_closed(p)
    \/ \E ps \in SUBSET Peers : set_trusted_remote_list(ps)

Poll ==
    \E changed \in BOOLEAN :
        PollWithoutPeers(changed) \/ PollPlacing(changed) \/ PollReceiving(changed)

Answer ==
    \/ \E p \in Peers, s \in RemoteSessions :
         \/ IgnoreInitiate(p, s)
         \/ \E is_listener \in BOOLEAN : AcceptInitiate(p, s, is_listener)
    \/ LostConnectionRequest

Next ==
    \/ Application \/ Poll \/ Answer \/ NothingUsable
    \/ PunchFails \/ PunchSucceeds \/ ReturnConnection
    \/ Tick

Spec == Init /\ [][Next]_vars

----------------------------------------------------------------------------
(* Properties *)

\* Every field of the establisher holds a value of its type.
TypeOK ==
    /\ DOMAIN trusted_remotes \subseteq Peers
    /\ \A p \in DOMAIN trusted_remotes : trusted_remotes[p] \in PeerState
    /\ last_request \in {Never} \cup 0 .. REQUEST_PLACEMENT_INTERVAL + 1
    /\ session_id \in OwnSessions
    /\ last_trusted_peer_offset \in Peers \cup {0}
    /\ pc \in {"idle", "receiving", "punching", "connected"}
    /\ current \in [peer : Peers \cup {0}, is_listener : BOOLEAN]
    /\ asked \subseteq Peers /\ placed \subseteq Peers
    /\ skipped \in [Peers -> 0 .. MaxSkips]
    /\ conns \in [Peers -> 0 .. MaxConns]
    /\ revoked \subseteq Peers

\* The rotation of new_available_remotes_list skips nobody for long: with more trusted
\* peers than fit into a request, however they are enabled, disabled, added and
\* removed meanwhile, a peer that can be asked for is left out of at most
\* (n - 1) / BATCH requests in a row.
NobodyIsSkippedForLong ==
    \A p \in Peers : skipped[p] * BATCH < Cardinality(Peers)

\* The client opens no second connection to a peer while the application still holds
\* one, unless it took the peer off the list meanwhile (which forgets the first).
OneConnectionPerPeer ==
    \A p \in Peers : conns[p] > 1 => p \in revoked

\* A peer is excluded from discovery as ConnectionActive only while a connection to it
\* exists or is being set up: otherwise nothing would ever enable it again.
ActiveMeansConnected ==
    \A p \in DOMAIN trusted_remotes :
        trusted_remotes[p].kind = "ConnectionActive" =>
            conns[p] > 0 \/ (pc = "connected" /\ current.peer = p)

\* p is to be asked for: it is trusted and no connection to it is known.
Undiscovered(p) ==
    p \in DOMAIN trusted_remotes /\ trusted_remotes[p].kind # "ConnectionActive"

=============================================================================
