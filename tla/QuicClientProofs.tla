-------------------------- MODULE QuicClientProofs --------------------------
(***************************************************************************)
(* Proofs about the UDP and the QUIC establisher, for any finite set of    *)
(* peers and any limits: what keeps the states of the peers, the accepted  *)
(* match and the connections of the application in step; and that the      *)
(* rotation of new_available_remotes_list skips nobody for long.           *)
(***************************************************************************)
EXTENDS QuicClient, WellFoundedInduction, FiniteSetTheorems, TLAPS

----------------------------------------------------------------------------
(* The inductive invariant *)

\* A connection that was not taken from the establisher by dropping its peer is known.
ConnectionIsKnown ==
    \A p \in Peers : conns[p] > 0 /\ p \notin revoked =>
        p \in DOMAIN trusted_remotes /\ trusted_remotes[p].kind = "ConnectionActive"

\* The peer of the match that poll_accept works on is trusted, has no connection that is
\* known, and is excluded from discovery once it is punched.
MatchIsOfTrustedPeer ==
    pc \in {"punching", "connected"} =>
        /\ current.peer \in DOMAIN trusted_remotes
        /\ conns[current.peer] < MaxConns
        /\ conns[current.peer] > 0 => current.peer \in revoked
        /\ pc = "punching" => trusted_remotes[current.peer].kind # "ConnectionActive"
        /\ pc = "connected" => trusted_remotes[current.peer].kind = "ConnectionActive"

IInv ==
    /\ TypeOK
    /\ ConnectionIsKnown
    /\ MatchIsOfTrustedPeer
    /\ OneConnectionPerPeer
    /\ ActiveMeansConnected

----------------------------------------------------------------------------
(* Operators on the list of peers *)

LEMMA WithDefaultsType ==
    ASSUME TypeOK, NEW ks \in SUBSET Peers
    PROVE  /\ DOMAIN WithDefaults(ks) = DOMAIN trusted_remotes \cup ks
           /\ \A p \in DOMAIN WithDefaults(ks) : WithDefaults(ks)[p] \in PeerState
<1>1. DefaultPeerState \in PeerState
  BY SessionsAssumption, BoundsAssumption DEF DefaultPeerState, PeerState
<1>2. QED
  BY <1>1 DEF WithDefaults, TypeOK

\* p is enabled, the others stay what they are.
LEMMA ReenabledIsEnabled ==
    ASSUME TypeOK, NEW p \in Peers
    PROVE  /\ DOMAIN Reenabled(p) = DOMAIN trusted_remotes \cup {p}
           /\ \A q \in DOMAIN Reenabled(p) : Reenabled(p)[q] \in PeerState
           /\ \A q \in DOMAIN trusted_remotes \ {p} : Reenabled(p)[q] = trusted_remotes[q]
           /\ Reenabled(p)[p].kind = "Enabled"
<1> DEFINE w == WithDefaults({p})
           x == [w[p] EXCEPT !.kind = "Enabled", !.wait = 0]
<1>1. /\ DOMAIN w = DOMAIN trusted_remotes \cup {p}
      /\ \A q \in DOMAIN w : w[q] \in PeerState
  BY WithDefaultsType
<1>2. \A q \in DOMAIN trusted_remotes : w[q] = trusted_remotes[q]
  BY DEF WithDefaults
<1>3. w = [q \in DOMAIN w |-> w[q]]
  BY DEF WithDefaults
<1> HIDE DEF w
<1>4. Reenabled(p) = [w EXCEPT ![p] = x]
  BY <1>1, <1>3 DEF Reenabled, w
<1>5. x \in PeerState /\ x.kind = "Enabled"
  <2>1. w[p] \in PeerState
    BY <1>1
  <2>2. 0 \in 0 .. MAX_TIMEOUT
    BY BoundsAssumption
  <2>3. QED
    BY <2>1, <2>2 DEF PeerState
<1> HIDE DEF x
<1>6. QED
  BY <1>1, <1>2, <1>3, <1>4, <1>5

\* Natural numbers have a smallest one.
LEMMA HasMinimum ==
    ASSUME NEW T, T \subseteq Nat, T # {}
    PROVE  \E x \in T : \A y \in T : x <= y
<1> DEFINE R == {ss \in Nat \X Nat : ss[1] < ss[2]}
<1>1. IsWellFoundedOn(R, Nat)
  BY NatLessThanWellFounded, Zenon DEF OpToRel
<1>2. PICK x \in T : \A y \in T : <<y, x>> \notin R
  <2> HIDE DEF R
  <2> QED  BY <1>1, WFMin
<1>3. ASSUME NEW y \in T PROVE ~ (y < x)
  <2>1. <<y, x>> \in Nat \X Nat /\ <<y, x>>[1] = y /\ <<y, x>>[2] = x
    OBVIOUS
  <2>2. QED
    BY <1>2, <2>1, Zenon
<1>4. QED
  BY <1>3

\* The next request starts at a trusted peer.
LEMMA NextOffsetIsTrusted ==
    ASSUME TypeOK, RemotesList # {}
    PROVE  NextOffset \in DOMAIN trusted_remotes
<1> DEFINE last == CHOOSE p \in RemotesList : \A q \in RemotesList \ {p} : Before(q, p)
           after == {p \in DOMAIN trusted_remotes : p > last}
           candidates == IF after # {} THEN after ELSE DOMAIN trusted_remotes
<1>1. candidates \subseteq DOMAIN trusted_remotes
  BY SMT
<1>2. candidates # {}
  BY DEF RemotesList, Available
<1>3. candidates \subseteq Nat
  BY <1>1, PeersAssumption DEF TypeOK
<1>4. NextOffset = CHOOSE p \in candidates : \A q \in candidates : p <= q
  BY DEF NextOffset
<1> HIDE DEF candidates
<1>5. \E p \in candidates : \A q \in candidates : p <= q
  BY <1>2, <1>3, HasMinimum
<1>6. QED
  BY <1>1, <1>4, <1>5, Zenon

LEMMA MaxSkipsIsNat == MaxSkips \in Nat
  BY PeersAssumption, FS_CardinalityType DEF MaxSkips

----------------------------------------------------------------------------
(* Calls of the application *)

LEMMA add_trusted_remoteKeeps ==
    ASSUME IInv, NEW p \in Peers, add_trusted_remote(p)
    PROVE  IInv'
<1>1. TypeOK'
  <2>1. /\ DOMAIN trusted_remotes' = DOMAIN trusted_remotes \cup {p}
        /\ \A q \in DOMAIN trusted_remotes' : trusted_remotes'[q] \in PeerState
    <3>1. {p} \in SUBSET Peers
      OBVIOUS
    <3>2. QED
      BY <3>1, WithDefaultsType, Zenon DEF IInv, add_trusted_remote
  <2>2. QED
    BY <2>1 DEF IInv, TypeOK, add_trusted_remote, historyVars
<1>2. ConnectionIsKnown'
  BY DEF IInv, ConnectionIsKnown, add_trusted_remote, WithDefaults, historyVars
<1>3. MatchIsOfTrustedPeer'
  BY DEF MatchIsOfTrustedPeer, add_trusted_remote
<1>4. OneConnectionPerPeer'
  BY DEF IInv, OneConnectionPerPeer, add_trusted_remote, historyVars
<1>5. ActiveMeansConnected'
  BY DEF IInv, ActiveMeansConnected, add_trusted_remote, WithDefaults, DefaultPeerState,
         historyVars
<1>6. QED
  BY <1>1, <1>2, <1>3, <1>4, <1>5 DEF IInv

LEMMA remove_trusted_remoteKeeps ==
    ASSUME IInv, NEW p \in Peers, remove_trusted_remote(p)
    PROVE  IInv'
<1>1. TypeOK'
  BY DEF IInv, TypeOK, remove_trusted_remote, Only, Revoke
<1>2. ConnectionIsKnown'
  BY DEF IInv, ConnectionIsKnown, remove_trusted_remote, Only, Revoke
<1>3. MatchIsOfTrustedPeer'
  BY DEF MatchIsOfTrustedPeer, remove_trusted_remote
<1>4. OneConnectionPerPeer'
  BY DEF IInv, OneConnectionPerPeer, remove_trusted_remote, Revoke
<1>5. ActiveMeansConnected'
  BY DEF IInv, ActiveMeansConnected, remove_trusted_remote, Only
<1>6. QED
  BY <1>1, <1>2, <1>3, <1>4, <1>5 DEF IInv

LEMMA set_trusted_remote_listKeeps ==
    ASSUME IInv, NEW ps \in SUBSET Peers, set_trusted_remote_list(ps)
    PROVE  IInv'
<1>1. TypeOK'
  BY WithDefaultsType DEF IInv, TypeOK, set_trusted_remote_list, Only, Revoke
<1>2. ConnectionIsKnown'
  BY DEF IInv, ConnectionIsKnown, set_trusted_remote_list, Only, WithDefaults, Revoke
<1>3. MatchIsOfTrustedPeer'
  BY DEF MatchIsOfTrustedPeer, set_trusted_remote_list
<1>4. OneConnectionPerPeer'
  BY DEF IInv, OneConnectionPerPeer, set_trusted_remote_list, Revoke
<1>5. ActiveMeansConnected'
  BY DEF IInv, ActiveMeansConnected, set_trusted_remote_list, Only, WithDefaults,
         DefaultPeerState
<1>6. QED
  BY <1>1, <1>2, <1>3, <1>4, <1>5 DEF IInv

LEMMA on_connection_closedKeeps ==
    ASSUME IInv, NEW p \in Peers, on_connection_closed(p)
    PROVE  IInv'
<1>1. /\ DOMAIN trusted_remotes' = DOMAIN trusted_remotes \cup {p}
      /\ \A q \in DOMAIN trusted_remotes' : trusted_remotes'[q] \in PeerState
      /\ \A q \in DOMAIN trusted_remotes \ {p} : trusted_remotes'[q] = trusted_remotes[q]
      /\ trusted_remotes'[p].kind = "Enabled"
  BY ReenabledIsEnabled DEF IInv, on_connection_closed
<1>2. conns[p] \in 0 .. MaxConns /\ conns' = [conns EXCEPT ![p] = @ - 1] /\ conns[p] > 0
  BY DEF IInv, TypeOK, on_connection_closed
<1>3. TypeOK'
  BY <1>1, <1>2, BoundsAssumption DEF IInv, TypeOK, on_connection_closed
<1>4. ConnectionIsKnown'
  <2>1. ASSUME NEW q \in Peers \ {p}, conns'[q] > 0, q \notin revoked'
        PROVE  q \in DOMAIN trusted_remotes' /\ trusted_remotes'[q].kind = "ConnectionActive"
    BY <1>1, <1>2, <2>1 DEF IInv, TypeOK, ConnectionIsKnown, on_connection_closed
  <2>2. ~ (conns'[p] > 0 /\ p \notin revoked')
    BY <1>2 DEF IInv, TypeOK, OneConnectionPerPeer, on_connection_closed
  <2>3. QED
    BY <2>1, <2>2 DEF ConnectionIsKnown
<1>5. MatchIsOfTrustedPeer'
  BY DEF MatchIsOfTrustedPeer, on_connection_closed
<1>6. OneConnectionPerPeer'
  BY <1>2 DEF IInv, TypeOK, OneConnectionPerPeer, on_connection_closed
<1>7. ActiveMeansConnected'
  BY <1>1, <1>2 DEF IInv, TypeOK, ActiveMeansConnected, on_connection_closed
<1>8. QED
  BY <1>3, <1>4, <1>5, <1>6, <1>7 DEF IInv

----------------------------------------------------------------------------
(* poll_accept up to the punched socket *)

LEMMA PollPlacingType ==
    ASSUME IInv, NEW changed \in BOOLEAN, PollPlacing(changed)
    PROVE  TypeOK'
<1>1. NextOffset \in Peers
  BY NextOffsetIsTrusted DEF IInv, TypeOK, PollPlacing
<1>2. RemotesList \subseteq Peers
  BY DEF IInv, TypeOK, RemotesList, Available
<1>3. skipped' \in [Peers -> 0 .. MaxSkips]
  BY MaxSkipsIsNat DEF IInv, TypeOK, PollPlacing, OneMore
<1>4. QED
  BY <1>1, <1>2, <1>3, BoundsAssumption DEF IInv, TypeOK, PollPlacing, AskedAfterCheck

LEMMA WaitingKeeps ==
    ASSUME IInv,
           \/ \E changed \in BOOLEAN :
                PollWithoutPeers(changed) \/ PollPlacing(changed) \/ PollReceiving(changed)
           \/ NothingUsable
           \/ \E p \in Peers, s \in RemoteSessions : IgnoreInitiate(p, s)
           \/ LostConnectionRequest
    PROVE  IInv'
<1>1. /\ UNCHANGED <<trusted_remotes, conns, revoked>>
      /\ pc # "connected" /\ pc' \notin {"punching", "connected"}
  BY DEF PollWithoutPeers, PollPlacing, PollReceiving, NothingUsable, IgnoreInitiate,
         LostConnectionRequest, Return, stateVars, historyVars
<1>2. TypeOK'
  <2>1. CASE \E changed \in BOOLEAN : PollPlacing(changed)
    BY <2>1, PollPlacingType
  <2>2. CASE \E changed \in BOOLEAN : PollWithoutPeers(changed) \/ PollReceiving(changed)
    BY <2>2 DEF IInv, TypeOK, PollWithoutPeers, PollReceiving, AskedAfterCheck, stateVars,
                historyVars
  <2>3. NoMatch \in [peer : Peers \cup {0}, is_listener : BOOLEAN]
    BY DEF NoMatch
  <2>4. CASE \/ NothingUsable
             \/ \E p \in Peers, s \in RemoteSessions : IgnoreInitiate(p, s)
    BY <2>3, <2>4 DEF IInv, TypeOK, NothingUsable, IgnoreInitiate, Return, stateVars,
                      historyVars
  <2>5. CASE LostConnectionRequest
    BY <2>3, <2>5 DEF IInv, TypeOK, LostConnectionRequest, Return, historyVars
  <2>6. QED
    BY <2>1, <2>2, <2>4, <2>5
<1>3. ConnectionIsKnown'
  BY <1>1 DEF IInv, ConnectionIsKnown
<1>4. MatchIsOfTrustedPeer'
  BY <1>1 DEF MatchIsOfTrustedPeer
<1>5. OneConnectionPerPeer'
  BY <1>1 DEF IInv, OneConnectionPerPeer
<1>6. ActiveMeansConnected'
  BY <1>1 DEF IInv, ActiveMeansConnected
<1>7. QED
  BY <1>2, <1>3, <1>4, <1>5, <1>6 DEF IInv

\* Only a peer without a known connection is accepted: discovery is enabled for it.
LEMMA AcceptInitiateKeeps ==
    ASSUME IInv, NEW p \in Peers, NEW s \in RemoteSessions, NEW is_listener \in BOOLEAN,
           AcceptInitiate(p, s, is_listener)
    PROVE  IInv'
<1>1. p \in DOMAIN trusted_remotes /\ trusted_remotes[p].kind # "ConnectionActive"
  BY DEF AcceptInitiate, Acceptable, is_discovery_enabled
<1>2. /\ DOMAIN trusted_remotes' = DOMAIN trusted_remotes
      /\ \A q \in DOMAIN trusted_remotes : trusted_remotes'[q].kind = trusted_remotes[q].kind
  BY DEF IInv, TypeOK, PeerState, AcceptInitiate
<1>3. TypeOK'
  BY DEF IInv, TypeOK, PeerState, AcceptInitiate, historyVars
<1>4. ConnectionIsKnown'
  BY <1>2 DEF IInv, ConnectionIsKnown, AcceptInitiate, historyVars
<1>5. MatchIsOfTrustedPeer'
  BY <1>1, <1>2 DEF IInv, ConnectionIsKnown, MatchIsOfTrustedPeer, AcceptInitiate, historyVars
<1>6. OneConnectionPerPeer'
  BY DEF IInv, OneConnectionPerPeer, AcceptInitiate, historyVars
<1>7. ActiveMeansConnected'
  BY <1>2 DEF IInv, ActiveMeansConnected, AcceptInitiate, historyVars
<1>8. QED
  BY <1>3, <1>4, <1>5, <1>6, <1>7 DEF IInv

LEMMA PunchFailsKeeps ==
    ASSUME IInv, PunchFails
    PROVE  IInv'
<1>1. TypeOK'
  BY BoundsAssumption
     DEF IInv, TypeOK, PeerState, MatchIsOfTrustedPeer, PunchFails, NextTimeout, Return,
         NoMatch, historyVars
<1>2. ConnectionIsKnown'
  BY DEF IInv, TypeOK, PeerState, ConnectionIsKnown, MatchIsOfTrustedPeer, PunchFails,
         historyVars
<1>3. MatchIsOfTrustedPeer'
  BY DEF MatchIsOfTrustedPeer, PunchFails, Return
<1>4. OneConnectionPerPeer'
  BY DEF IInv, OneConnectionPerPeer, PunchFails, historyVars
<1>5. ActiveMeansConnected'
  BY DEF IInv, TypeOK, PeerState, MatchIsOfTrustedPeer, ActiveMeansConnected, PunchFails,
         historyVars
<1>6. QED
  BY <1>1, <1>2, <1>3, <1>4, <1>5 DEF IInv

LEMMA PunchSucceedsKeeps ==
    ASSUME IInv, PunchSucceeds
    PROVE  IInv'
<1>1. TypeOK'
  BY BoundsAssumption
     DEF IInv, TypeOK, PeerState, MatchIsOfTrustedPeer, PunchSucceeds, historyVars
<1>2. ConnectionIsKnown'
  BY DEF IInv, TypeOK, PeerState, ConnectionIsKnown, MatchIsOfTrustedPeer, PunchSucceeds,
         historyVars
<1>3. MatchIsOfTrustedPeer'
  BY DEF IInv, TypeOK, PeerState, MatchIsOfTrustedPeer, PunchSucceeds, historyVars
<1>4. OneConnectionPerPeer'
  BY DEF IInv, OneConnectionPerPeer, PunchSucceeds, historyVars
<1>5. ActiveMeansConnected'
  BY DEF IInv, TypeOK, PeerState, MatchIsOfTrustedPeer, ActiveMeansConnected, PunchSucceeds,
         historyVars
<1>6. QED
  BY <1>1, <1>2, <1>3, <1>4, <1>5 DEF IInv

LEMMA TickKeeps ==
    ASSUME IInv, Tick
    PROVE  IInv'
<1>1. TypeOK'
  BY BoundsAssumption DEF IInv, TypeOK, PeerState, Tick, Never, historyVars
<1>2. /\ DOMAIN trusted_remotes' = DOMAIN trusted_remotes
      /\ \A p \in DOMAIN trusted_remotes : trusted_remotes'[p].kind = trusted_remotes[p].kind
      /\ UNCHANGED <<pc, current, conns, revoked>>
  BY DEF IInv, TypeOK, PeerState, Tick, historyVars
<1>3. ConnectionIsKnown'
  BY <1>2 DEF IInv, ConnectionIsKnown
<1>4. MatchIsOfTrustedPeer'
  BY <1>2 DEF IInv, MatchIsOfTrustedPeer
<1>5. OneConnectionPerPeer'
  BY <1>2 DEF IInv, OneConnectionPerPeer
<1>6. ActiveMeansConnected'
  BY <1>2 DEF IInv, ActiveMeansConnected
<1>7. QED
  BY <1>1, <1>3, <1>4, <1>5, <1>6 DEF IInv

----------------------------------------------------------------------------
(* What becomes of the punched socket *)

LEMMA HandOverKeeps ==
    ASSUME IInv, pc = "connected", HandOver
    PROVE  IInv'
<1> DEFINE p == current.peer
<1>1. /\ p \in DOMAIN trusted_remotes /\ p \in Peers
      /\ trusted_remotes[p].kind = "ConnectionActive"
      /\ conns[p] \in 0 .. MaxConns /\ conns[p] < MaxConns
      /\ conns[p] > 0 => p \in revoked
  BY DEF IInv, TypeOK, MatchIsOfTrustedPeer
<1>2. /\ conns' = [conns EXCEPT ![p] = conns[p] + 1]
      /\ pc' = "idle" /\ current' = NoMatch /\ placed' = {}
      /\ UNCHANGED <<stateVars, asked, skipped, revoked>>
  BY DEF HandOver, Return
<1> HIDE DEF p
<1>3. TypeOK'
  <2>1. conns' \in [Peers -> 0 .. MaxConns]
    BY <1>1, <1>2, BoundsAssumption DEF IInv, TypeOK
  <2>2. QED
    BY <1>2, <2>1 DEF IInv, TypeOK, stateVars, NoMatch
<1>4. ConnectionIsKnown'
  BY <1>1, <1>2 DEF IInv, TypeOK, ConnectionIsKnown, stateVars
<1>5. MatchIsOfTrustedPeer'
  BY <1>2 DEF MatchIsOfTrustedPeer
<1>6. OneConnectionPerPeer'
  BY <1>1, <1>2 DEF IInv, TypeOK, OneConnectionPerPeer
<1>7. ActiveMeansConnected'
  BY <1>1, <1>2 DEF IInv, TypeOK, ActiveMeansConnected, stateVars, p
<1>8. QED
  BY <1>3, <1>4, <1>5, <1>6, <1>7 DEF IInv

LEMMA GiveBackKeeps ==
    ASSUME IInv, pc = "connected", GiveBack
    PROVE  IInv'
<1> DEFINE p == current.peer
<1>1. p \in DOMAIN trusted_remotes /\ p \in Peers /\ (conns[p] > 0 => p \in revoked)
  BY DEF IInv, TypeOK, MatchIsOfTrustedPeer
<1>2. /\ DOMAIN trusted_remotes' = DOMAIN trusted_remotes
      /\ \A q \in DOMAIN trusted_remotes : trusted_remotes'[q] \in PeerState
      /\ \A q \in DOMAIN trusted_remotes \ {p} : trusted_remotes'[q] = trusted_remotes[q]
      /\ trusted_remotes'[p].kind = "Enabled"
  BY <1>1, ReenabledIsEnabled DEF IInv, GiveBack
<1>3. /\ pc' = "idle" /\ current' = NoMatch /\ placed' = {}
      /\ UNCHANGED <<last_request, session_id, last_trusted_peer_offset, asked, skipped,
                     conns, revoked>>
  BY DEF GiveBack, Return, historyVars
<1>4. TypeOK'
  BY <1>2, <1>3 DEF IInv, TypeOK, NoMatch
<1>5. ConnectionIsKnown'
  BY <1>1, <1>2, <1>3 DEF IInv, ConnectionIsKnown
<1>6. MatchIsOfTrustedPeer'
  BY <1>3 DEF MatchIsOfTrustedPeer
<1>7. OneConnectionPerPeer'
  BY <1>3 DEF IInv, OneConnectionPerPeer
<1>8. ActiveMeansConnected'
  BY <1>2, <1>3 DEF IInv, ActiveMeansConnected
<1>9. QED
  BY <1>4, <1>5, <1>6, <1>7, <1>8 DEF IInv

----------------------------------------------------------------------------
(* The specification *)

LEMMA InitIInv == QuicInit => IInv
<1> SUFFICES ASSUME QuicInit
             PROVE  IInv
  OBVIOUS
<1>1. TypeOK
  BY MaxSkipsIsNat, BoundsAssumption DEF QuicInit, Init, TypeOK, Never, NoMatch
<1>2. ConnectionIsKnown /\ MatchIsOfTrustedPeer /\ OneConnectionPerPeer /\ ActiveMeansConnected
  BY DEF QuicInit, Init, ConnectionIsKnown, MatchIsOfTrustedPeer, OneConnectionPerPeer,
         ActiveMeansConnected
<1>3. QED
  BY <1>1, <1>2 DEF IInv

LEMMA NextIInv == IInv /\ [QuicNext]_quicVars => IInv'
<1> SUFFICES ASSUME IInv, [QuicNext]_quicVars
             PROVE  IInv'
  OBVIOUS
<1>1. CASE Application
  BY <1>1, add_trusted_remoteKeeps, remove_trusted_remoteKeeps, set_trusted_remote_listKeeps,
     on_connection_closedKeeps DEF Application
<1>2. CASE Poll \/ NothingUsable
  BY <1>2, WaitingKeeps DEF Poll
<1>3. CASE Answer
  BY <1>3, WaitingKeeps, AcceptInitiateKeeps DEF Answer
<1>4. CASE PunchFails \/ PunchSucceeds
  BY <1>4, PunchFailsKeeps, PunchSucceedsKeeps
<1>5. CASE ReturnConnection \/ QuicPoll
  BY <1>5, HandOverKeeps, GiveBackKeeps
     DEF ReturnConnection, QuicPoll, EndpointFails, ConnectSucceeds, ConnectFails,
         AcceptSucceeds, AcceptFails
<1>6. CASE Tick
  BY <1>6, TickKeeps
<1>7. CASE UNCHANGED quicVars
  BY <1>7 DEF quicVars, vars, stateVars, historyVars, IInv, TypeOK, ConnectionIsKnown,
              MatchIsOfTrustedPeer, OneConnectionPerPeer, ActiveMeansConnected
<1>8. QED
  BY <1>1, <1>2, <1>3, <1>4, <1>5, <1>6, <1>7 DEF QuicNext

LEMMA SpecIInv == QuicSpec => []IInv
  BY InitIInv, NextIInv, PTL DEF QuicSpec

\* The fields of an establisher, plain or QUIC, always have their types; the backoff of
\* a peer in particular stays within its limits.
THEOREM TypeCorrect == QuicSpec => []TypeOK
  BY SpecIInv, PTL DEF IInv

\* Neither establisher opens a second connection to a peer while the application holds
\* one, unless the application dropped the peer meanwhile.
THEOREM NoSecondConnection == QuicSpec => []OneConnectionPerPeer
  BY SpecIInv, PTL DEF IInv

\* No peer is left excluded from discovery without a connection, on whatever path
\* poll_accept of either establisher returns.
THEOREM NobodyIsLeftDisabled == QuicSpec => []ActiveMeansConnected
  BY SpecIInv, PTL DEF IInv

----------------------------------------------------------------------------
(* The rotation: the inductive invariant *)

\* The peers, trusted or not, that a list which starts at the offset takes before p.
Ahead(p) == {q \in Peers : Before(q, p)}

\* Each request that leaves p out lists BATCH of them, which are behind p from then on.
FewAhead ==
    \A p \in Peers : skipped[p] * BATCH + Cardinality(Ahead(p)) < Cardinality(Peers)

----------------------------------------------------------------------------
(* The rotation: the order of the list *)

LEMMA PeersAreNat == IsFiniteSet(Peers) /\ \A p \in Peers : p \in Nat
BY PeersAssumption

LEMMA BeforeIsOrder ==
    ASSUME TypeOK, NEW p \in Peers, NEW q \in Peers, NEW r \in Peers
    PROVE  /\ ~ Before(p, p)
           /\ Before(p, q) => ~ Before(q, p)
           /\ p # q => Before(p, q) \/ Before(q, p)
           /\ Before(p, q) /\ Before(q, r) => Before(p, r)
<1>1. last_trusted_peer_offset \in Nat /\ p \in Nat /\ q \in Nat /\ r \in Nat
  BY PeersAssumption DEF TypeOK
<1>2. QED
  BY <1>1 DEF Before

\* Subsets of the peers are finite.
LEMMA Card ==
    ASSUME NEW S \in SUBSET Peers
    PROVE  IsFiniteSet(S) /\ Cardinality(S) \in Nat
BY PeersAreNat, FS_Subset, FS_CardinalityType

LEMMA CardMonotone ==
    ASSUME NEW S \in SUBSET Peers, NEW R \in SUBSET S
    PROVE  /\ Cardinality(R) <= Cardinality(S)
           /\ R # S => Cardinality(R) < Cardinality(S)
<1>1. IsFiniteSet(S) /\ Cardinality(S) \in Nat /\ Cardinality(R) \in Nat
  BY Card
<1>2. Cardinality(R) <= Cardinality(S) /\ (Cardinality(S) = Cardinality(R) => S = R)
  BY <1>1, FS_Subset
<1>3. QED
  BY <1>1, <1>2

\* The number of peers of S that come before p.
Rank(S, p) == Cardinality({q \in S : Before(q, p)})

LEMMA RankIsMonotone ==
    ASSUME TypeOK, NEW S \in SUBSET Peers, NEW p \in S, NEW q \in S, Before(p, q)
    PROVE  Rank(S, p) \in Nat /\ Rank(S, q) \in Nat /\ Rank(S, p) < Rank(S, q)
<1> DEFINE P == {x \in S : Before(x, p)}
           Q == {x \in S : Before(x, q)}
<1>1. P \in SUBSET Q /\ Q \in SUBSET Peers /\ P # Q
  <2>1. \A x \in S : Before(x, p) => Before(x, q)
    BY BeforeIsOrder
  <2>2. p \in Q /\ p \notin P
    BY BeforeIsOrder
  <2>3. QED
    BY <2>1, <2>2
<1> HIDE DEF P, Q
<1>2. Cardinality(P) < Cardinality(Q) /\ Cardinality(P) \in Nat /\ Cardinality(Q) \in Nat
  <2>1. P \in SUBSET Peers
    BY <1>1
  <2>2. QED
    BY <1>1, <2>1, CardMonotone, Card
<1>3. QED
  BY <1>2 DEF P, Q, Rank

\* Every non-empty set of peers has a first one.
LEMMA HasFirst ==
    ASSUME TypeOK, NEW S \in SUBSET Peers, S # {}
    PROVE  \E p \in S : \A q \in S \ {p} : Before(p, q)
<1> DEFINE T == {Rank(S, p) : p \in S}
<1>1. \A p \in S : Rank(S, p) \in Nat
  <2> TAKE p \in S
  <2>1. {q \in S : Before(q, p)} \in SUBSET Peers
    OBVIOUS
  <2>2. QED
    BY <2>1, Card DEF Rank
<1>2. PICK p \in S : \A q \in S : Rank(S, p) <= Rank(S, q)
  <2>1. T # {} /\ T \subseteq Nat
    BY <1>1
  <2>2. \E t \in T : \A u \in T : t <= u
    <3> HIDE DEF T
    <3>1. QED
      BY <2>1, HasMinimum
  <2>3. QED
    BY <2>2
<1>3. ASSUME NEW q \in S \ {p} PROVE Before(p, q)
  <2>1. SUFFICES ASSUME Before(q, p) PROVE FALSE
    BY BeforeIsOrder
  <2>2. Rank(S, q) < Rank(S, p) /\ Rank(S, q) \in Nat /\ Rank(S, p) \in Nat
    BY <2>1, RankIsMonotone
  <2>3. QED
    BY <1>2, <2>2
<1>4. QED
  BY <1>3

\* And a last one.
LEMMA HasLast ==
    ASSUME TypeOK, NEW S \in SUBSET Peers, S # {}
    PROVE  \E p \in S : \A q \in S \ {p} : Before(q, p)
<1> DEFINE n == Cardinality(Peers)
           T == {n - Rank(S, p) : p \in S}
<1>1. \A p \in S : Rank(S, p) \in Nat /\ Rank(S, p) <= n /\ n \in Nat
  <2> TAKE p \in S
  <2>1. {q \in S : Before(q, p)} \in SUBSET Peers /\ Peers \in SUBSET Peers
    OBVIOUS
  <2>2. QED
    BY <2>1, Card, CardMonotone DEF Rank
<1> HIDE DEF n
<1>2. PICK p \in S : \A q \in S : n - Rank(S, p) <= n - Rank(S, q)
  <2>1. T # {} /\ T \subseteq Nat
    BY <1>1
  <2>2. \E t \in T : \A u \in T : t <= u
    <3> HIDE DEF T
    <3>1. QED
      BY <2>1, HasMinimum
  <2>3. QED
    BY <2>2
<1>3. ASSUME NEW q \in S \ {p} PROVE Before(q, p)
  <2>1. SUFFICES ASSUME Before(p, q) PROVE FALSE
    BY BeforeIsOrder
  <2>2. Rank(S, p) < Rank(S, q) /\ Rank(S, q) \in Nat /\ Rank(S, p) \in Nat
    BY <2>1, RankIsMonotone
  <2>3. QED
    BY <1>1, <1>2, <2>2
<1>4. QED
  BY <1>3

----------------------------------------------------------------------------
(* The list of a request *)

LEMMA ListIsOfPeers ==
    ASSUME TypeOK
    PROVE  /\ RemotesList \subseteq Available
           /\ Available \subseteq DOMAIN trusted_remotes
           /\ DOMAIN trusted_remotes \subseteq Peers
BY DEF RemotesList, Available, TypeOK

\* Whoever is left out comes after everybody listed.
LEMMA ListedComeFirst ==
    ASSUME TypeOK, NEW p \in Available \ RemotesList, NEW q \in RemotesList
    PROVE  Before(q, p)
<1>1. Available \in SUBSET Peers /\ p \in Available /\ q \in Available /\ p # q
  BY ListIsOfPeers
<1>2. SUFFICES ASSUME Before(p, q) PROVE FALSE
  BY <1>1, BeforeIsOrder
<1>3. Rank(Available, p) < Rank(Available, q) /\ Rank(Available, q) < BATCH
  BY <1>1, <1>2, RankIsMonotone DEF RemotesList, Rank
<1>4. Rank(Available, p) \in Nat /\ Rank(Available, q) \in Nat /\ BATCH \in Nat
  BY <1>1, <1>2, RankIsMonotone, BoundsAssumption
<1>5. Rank(Available, p) < BATCH
  BY <1>3, <1>4
<1>6. QED
  BY <1>5 DEF RemotesList, Rank

\* Somebody is left out only of a full list.
LEMMA ListIsFull ==
    ASSUME TypeOK, Available \ RemotesList # {}
    PROVE  Cardinality(RemotesList) >= BATCH
<1> DEFINE Out == Available \ RemotesList
<1>1. RemotesList \in SUBSET Peers /\ Out \in SUBSET Peers
  BY ListIsOfPeers
<1>2. PICK p \in Out : \A q \in Out \ {p} : Before(p, q)
  <2> HIDE DEF Out
  <2>1. Out # {}
    BY DEF Out
  <2>2. QED
    BY <1>1, <2>1, HasFirst
<1> DEFINE P == {q \in Available : Before(q, p)}
<1>3. P \subseteq RemotesList
  <2> SUFFICES ASSUME NEW q \in P, q \in Out PROVE FALSE
    OBVIOUS
  <2>1. p \in Peers /\ q \in Peers /\ q # p
    BY <1>1, BeforeIsOrder
  <2>2. QED
    BY <1>2, <2>1, BeforeIsOrder
<1>4. ~ (Cardinality(P) < BATCH)
  BY <1>2 DEF RemotesList
<1> HIDE DEF P
<1>5. Cardinality(P) <= Cardinality(RemotesList)
  BY <1>1, <1>3, CardMonotone
<1>6. /\ Cardinality(P) \in Nat /\ Cardinality(RemotesList) \in Nat
      /\ BATCH \in Nat
  <2>1. P \in SUBSET Peers
    BY <1>1, <1>3
  <2>2. QED
    BY <1>1, <2>1, Card, BoundsAssumption
<1>7. QED
  BY <1>4, <1>5, <1>6

\* The last peer listed, and the trusted peer after it where the next list starts.
LEMMA NextOffsetFollowsLast ==
    ASSUME TypeOK, RemotesList # {}
    PROVE  \E last \in RemotesList :
             /\ \A q \in RemotesList \ {last} : Before(q, last)
             /\ NextOffset \in DOMAIN trusted_remotes
             /\ LET after == {q \in DOMAIN trusted_remotes : q > last} IN
                IF after # {} THEN NextOffset > last /\ \A q \in after : NextOffset <= q
                ELSE \A q \in DOMAIN trusted_remotes : NextOffset <= q
<1> DEFINE last == CHOOSE p \in RemotesList : \A q \in RemotesList \ {p} : Before(q, p)
           after == {p \in DOMAIN trusted_remotes : p > last}
           candidates == IF after # {} THEN after ELSE DOMAIN trusted_remotes
<1>1. last \in RemotesList /\ \A q \in RemotesList \ {last} : Before(q, last)
  <2>1. \E p \in RemotesList : \A q \in RemotesList \ {p} : Before(q, p)
    BY ListIsOfPeers, HasLast
  <2>2. QED
    BY <2>1, Zenon
<1>2. candidates \subseteq DOMAIN trusted_remotes /\ candidates # {}
  BY ListIsOfPeers, <1>1
<1>3. candidates \subseteq Nat
  BY <1>2, PeersAssumption DEF TypeOK
<1>4. NextOffset = CHOOSE p \in candidates : \A q \in candidates : p <= q
  BY DEF NextOffset
<1>5. NextOffset \in candidates /\ \A q \in candidates : NextOffset <= q
  <2> HIDE DEF candidates
  <2>1. \E p \in candidates : \A q \in candidates : p <= q
    BY <1>2, <1>3, HasMinimum
  <2>2. QED
    BY <1>4, <2>1, Zenon
<1> HIDE DEF last
<1>6. IF after # {} THEN NextOffset > last /\ \A q \in after : NextOffset <= q
      ELSE \A q \in DOMAIN trusted_remotes : NextOffset <= q
  BY <1>5
<1>7. QED
  BY <1>1, <1>2, <1>5, <1>6

\* From the next offset on nobody is ahead of a peer that was left out who was not ahead
\* before, and those who were listed are ahead no more.
LEMMA ListedFallBehind ==
    ASSUME TypeOK, TypeOK', RemotesList # {}, last_trusted_peer_offset' = NextOffset,
           NEW p \in Available \ RemotesList
    PROVE  Ahead(p)' \subseteq Ahead(p) \ RemotesList
<1>1. PICK last \in RemotesList :
             /\ \A q \in RemotesList \ {last} : Before(q, last)
             /\ NextOffset \in DOMAIN trusted_remotes
             /\ LET after == {q \in DOMAIN trusted_remotes : q > last} IN
                IF after # {} THEN NextOffset > last /\ \A q \in after : NextOffset <= q
                ELSE \A q \in DOMAIN trusted_remotes : NextOffset <= q
  BY NextOffsetFollowsLast
<1>2. Before(last, p)
  BY ListedComeFirst
<1>3. /\ last \in Nat /\ p \in Nat /\ p \in DOMAIN trusted_remotes
      /\ NextOffset \in Nat /\ last_trusted_peer_offset \in Nat
  <2>1. last \in Peers /\ p \in Peers /\ p \in DOMAIN trusted_remotes /\ NextOffset \in Peers
    BY <1>1, ListIsOfPeers
  <2>2. \A q \in Peers \cup {0} : q \in Nat
    BY PeersAssumption
  <2>3. QED
    BY <2>1, <2>2 DEF TypeOK
<1>4. /\ NextOffset > last => (p > last => NextOffset <= p)
      /\ ~ (NextOffset > last) => NextOffset <= p /\ ~ (p > last)
  BY <1>1, <1>3
<1> DEFINE o == last_trusted_peer_offset
           n == NextOffset
           Later(j, k) == \/ j >= n /\ k < n
                          \/ (j < n <=> k < n) /\ j < k
<1>5. ASSUME NEW q \in Peers, Before(q, p)'
      PROVE  Before(q, p) /\ Before(last, q)
  <2>1. q \in Nat
    BY PeersAssumption
  <2>2. Later(q, p)
    BY <1>3, <1>5, <2>1 DEF Before
  <2> HIDE DEF n
  <2>3. n \in Nat /\ o \in Nat
    BY <1>3 DEF n
  <2>4. QED
    BY <1>2, <1>3, <1>4, <2>1, <2>2, <2>3 DEF Before, n
<1>6. ASSUME NEW q \in RemotesList, Before(last, q)
      PROVE  FALSE
  <2>1. q \in Peers /\ last \in Peers
    BY ListIsOfPeers
  <2>2. QED
    BY <1>1, <1>6, <2>1, BeforeIsOrder
<1>7. QED
  BY <1>5, <1>6 DEF Ahead

----------------------------------------------------------------------------
(* The invariant is kept *)

\* At least p itself is not ahead of p.
NotAllAhead ==
    \A p \in Peers :
        Cardinality(Ahead(p)) \in Nat /\ Cardinality(Ahead(p)) < Cardinality(Peers)

LEMMA AheadOfItself == TypeOK => NotAllAhead
<1> SUFFICES ASSUME TypeOK, NEW p \in Peers
             PROVE  /\ Cardinality(Ahead(p)) \in Nat
                    /\ Cardinality(Ahead(p)) < Cardinality(Peers)
  BY DEF NotAllAhead
<1>1. Ahead(p) \in SUBSET Peers /\ Peers \in SUBSET Peers /\ p \notin Ahead(p)
  BY BeforeIsOrder DEF Ahead
<1>2. Ahead(p) # Peers
  BY <1>1
<1>3. QED
  BY <1>1, <1>2, Card, CardMonotone

LEMMA InitFewAhead == QuicInit => FewAhead
<1> SUFFICES ASSUME QuicInit, NEW p \in Peers
             PROVE  skipped[p] * BATCH + Cardinality(Ahead(p)) < Cardinality(Peers)
  BY DEF FewAhead
<1>1. TypeOK
  BY InitIInv DEF IInv
<1>2. skipped[p] = 0 /\ BATCH \in Nat
  BY BoundsAssumption DEF QuicInit, Init
<1>3. Cardinality(Ahead(p)) \in Nat /\ Cardinality(Ahead(p)) < Cardinality(Peers)
  BY <1>1, AheadOfItself DEF NotAllAhead
<1>4. skipped[p] * BATCH = 0
  BY <1>2
<1>5. QED
  BY <1>3, <1>4

LEMMA PollPlacingKeepsFewAhead ==
    ASSUME TypeOK, TypeOK', FewAhead, NEW changed, PollPlacing(changed)
    PROVE  FewAhead'
<1> SUFFICES ASSUME NEW p \in Peers
             PROVE  (skipped[p] * BATCH + Cardinality(Ahead(p)) < Cardinality(Peers))'
  BY DEF FewAhead
<1>1. /\ RemotesList # {} /\ last_trusted_peer_offset' = NextOffset
      /\ skipped' = [q \in Peers |-> IF q \in Available \ RemotesList
                                      THEN OneMore(skipped[q]) ELSE 0]
  BY DEF PollPlacing
<1>2. /\ Cardinality(Ahead(p)') \in Nat /\ Cardinality(Ahead(p)') < Cardinality(Peers)
  <2>1. (TypeOK => NotAllAhead)'
    BY AheadOfItself, PTL
  <2>2. QED
    BY <2>1 DEF NotAllAhead
<1>3. BATCH \in Nat /\ skipped[p] \in Nat /\ Cardinality(Peers) \in Nat
  BY BoundsAssumption, MaxSkipsIsNat DEF TypeOK, MaxSkips
<1>4. CASE p \notin Available \ RemotesList
  <2>1. skipped'[p] = 0 /\ 0 * BATCH = 0
    BY <1>1, <1>3, <1>4
  <2>2. QED
    BY <1>2, <2>1
<1>5. CASE p \in Available \ RemotesList
  <2>1. Ahead(p) \in SUBSET Peers /\ RemotesList \in SUBSET Ahead(p)
    BY <1>5, ListIsOfPeers, ListedComeFirst DEF Ahead
  <2>2. Ahead(p)' \in SUBSET (Ahead(p) \ RemotesList)
    BY <1>1, <1>5, ListedFallBehind
  <2>3. /\ IsFiniteSet(Ahead(p)) /\ Cardinality(Ahead(p)) \in Nat
        /\ Cardinality(RemotesList) \in Nat
    BY <2>1, Card
  <2>4. Cardinality(Ahead(p) \ RemotesList) = Cardinality(Ahead(p)) - Cardinality(RemotesList)
    <3>1. Ahead(p) \cap RemotesList = RemotesList
      BY <2>1
    <3>2. QED
      BY <2>3, <3>1, FS_Difference
  <2>5. Cardinality(Ahead(p)') <= Cardinality(Ahead(p) \ RemotesList)
    <3>1. Ahead(p) \ RemotesList \in SUBSET Peers
      BY <2>1
    <3>2. QED
      BY <2>2, <3>1, CardMonotone
  <2>6. Cardinality(RemotesList) >= BATCH
    BY <1>5, ListIsFull
  <2>7. skipped'[p] * BATCH <= skipped[p] * BATCH + BATCH
    <3>1. skipped'[p] = skipped[p] \/ skipped'[p] = skipped[p] + 1
      BY <1>1, <1>5 DEF OneMore
    <3>2. (skipped[p] + 1) * BATCH = skipped[p] * BATCH + BATCH
      BY <1>3
    <3>3. skipped[p] * BATCH \in Nat
      BY <1>3
    <3>4. QED
      BY <1>3, <3>1, <3>2, <3>3
  <2>8. skipped[p] * BATCH + Cardinality(Ahead(p)) < Cardinality(Peers)
    BY DEF FewAhead
  <2>9. skipped'[p] * BATCH \in Nat /\ skipped[p] * BATCH \in Nat
    <3>1. skipped'[p] \in Nat
      BY MaxSkipsIsNat DEF TypeOK
    <3>2. QED
      BY <1>3, <3>1
  <2>10. QED
    BY <1>2, <1>3, <2>3, <2>4, <2>5, <2>6, <2>7, <2>8, <2>9
<1>6. QED
  BY <1>4, <1>5

\* Nothing else moves the offset or counts a skip.
LEMMA OthersKeepFewAhead ==
    ASSUME FewAhead, UNCHANGED <<last_trusted_peer_offset, skipped>>
    PROVE  FewAhead'
BY DEF FewAhead, Ahead, Before

LEMMA OthersLeaveTheOffset ==
    ASSUME [QuicNext]_quicVars, ~ \E changed \in BOOLEAN : PollPlacing(changed)
    PROVE  UNCHANGED <<last_trusted_peer_offset, skipped>>
<1>1. CASE Application
  BY <1>1 DEF Application, add_trusted_remote, remove_trusted_remote, on_connection_closed,
              set_trusted_remote_list, historyVars
<1>2. CASE Poll
  BY <1>2 DEF Poll, PollWithoutPeers, PollReceiving, stateVars, historyVars
<1>3. CASE Answer \/ NothingUsable
  BY <1>3 DEF Answer, IgnoreInitiate, AcceptInitiate, LostConnectionRequest, NothingUsable,
              stateVars, historyVars
<1>4. CASE PunchFails \/ PunchSucceeds \/ Tick
  BY <1>4 DEF PunchFails, PunchSucceeds, Tick, historyVars
<1>5. CASE ReturnConnection \/ QuicPoll
  BY <1>5 DEF ReturnConnection, QuicPoll, EndpointFails, ConnectSucceeds, ConnectFails,
              AcceptSucceeds, AcceptFails, HandOver, GiveBack, stateVars, historyVars
<1>6. CASE UNCHANGED quicVars
  BY <1>6 DEF quicVars, vars, stateVars, historyVars
<1>7. QED
  BY <1>1, <1>2, <1>3, <1>4, <1>5, <1>6 DEF QuicNext

LEMMA NextFewAhead == IInv /\ FewAhead /\ [QuicNext]_quicVars => IInv' /\ FewAhead'
<1> SUFFICES ASSUME IInv, FewAhead, [QuicNext]_quicVars
             PROVE  IInv' /\ FewAhead'
  OBVIOUS
<1>1. IInv' /\ TypeOK /\ TypeOK'
  BY NextIInv DEF IInv
<1>2. CASE \E changed \in BOOLEAN : PollPlacing(changed)
  BY <1>1, <1>2, PollPlacingKeepsFewAhead
<1>3. CASE ~ \E changed \in BOOLEAN : PollPlacing(changed)
  BY <1>1, <1>3, OthersLeaveTheOffset, OthersKeepFewAhead
<1>4. QED
  BY <1>2, <1>3

\* However peers are enabled, disabled, added and removed, new_available_remotes_list
\* leaves a peer that can be asked for out of at most (n - 1) / BATCH requests in a row.
THEOREM RotationIsFair == QuicSpec => []NobodyIsSkippedForLong
<1>1. IInv /\ FewAhead => NobodyIsSkippedForLong
  <2> SUFFICES ASSUME IInv, FewAhead, NEW p \in Peers
               PROVE  skipped[p] * BATCH < Cardinality(Peers)
    BY DEF NobodyIsSkippedForLong
  <2>1. skipped[p] \in Nat /\ BATCH \in Nat /\ Cardinality(Peers) \in Nat
    BY BoundsAssumption, MaxSkipsIsNat DEF IInv, TypeOK, MaxSkips
  <2>2. skipped[p] * BATCH \in Nat
    BY <2>1
  <2>3. Cardinality(Ahead(p)) \in Nat
    BY AheadOfItself DEF NotAllAhead, IInv
  <2>4. skipped[p] * BATCH + Cardinality(Ahead(p)) < Cardinality(Peers)
    BY DEF FewAhead
  <2>5. QED
    BY <2>1, <2>2, <2>3, <2>4
<1>2. QED
  BY <1>1, InitIInv, InitFewAhead, NextFewAhead, PTL DEF QuicSpec

=============================================================================
