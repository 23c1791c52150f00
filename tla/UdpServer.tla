----------------------------- MODULE UdpServer -----------------------------
(***************************************************************************)
(* The UDP rendezvous server (src/src/server/udp.rs).                      *)
(*                                                                         *)
(* A client that wants to reach other clients sends one signed datagram    *)
(* that lists their public keys.  The server keeps a slot for every listed *)
(* key; when a request arrives from a client for which one of the listed   *)
(* peers already holds a slot, the two are matched and each is told the    *)
(* other's address, key and session id.                                    *)
(*                                                                         *)
(* The server is one task: a handler runs to completion before the next    *)
(* datagram is read, so one action is one call of the handler.  Datagrams  *)
(* come from a network that loses, repeats, delays and reorders them: any  *)
(* well-formed datagram may arrive at any time.  Time is in whole seconds, *)
(* the resolution of both comparisons in the code.                         *)
(*                                                                         *)
(* Definitions whose comment starts with "Variant" are plausible mistakes. *)
(* No action uses them; each takes the place of the definition after it    *)
(* when one wants to see that a property notices.                          *)
(***************************************************************************)
EXTENDS Integers, Sequences, Functions

CONSTANTS
    Keys,               \* public keys of the clients
    Addrs,              \* IPv4 socket addresses
    Sessions,           \* session ids (u32 chosen at random by the clients)
    Origins,            \* <<key, address, session>> triples requests come with
    PeerLists,          \* the lists of keys a request may carry
    Ages,               \* arrival time minus signing time; < 0: sender's clock is ahead
    REQUEST_TIMEOUT_S,  \* life of a slot
    SIGNED_MSG_VALID_S, \* tolerated distance of a timestamp from now
    MaxNow              \* bound on the clock

ASSUME OriginsAssumption == Origins \subseteq Keys \X Addrs \X Sessions
ASSUME PeerListsAssumption == PeerLists \subseteq Seq(Keys) /\ <<>> \notin PeerLists
ASSUME AgesAssumption == Ages \subseteq Int
ASSUME TimeoutsAssumption ==
    /\ REQUEST_TIMEOUT_S \in Nat \ {0}
    /\ SIGNED_MSG_VALID_S \in Nat
    /\ MaxNow \in Nat

VARIABLES
    requests,          \* requester -> (target -> slot); UdpState.requests
    last_session_ids,  \* key -> session remembered at its last match
    now,               \* the server's clock
    sent,              \* datagrams the last handler call handed to the socket
    latest             \* history: key -> its last request that was placed or matched

serverVars == <<requests, last_session_ids>>
vars == <<requests, last_session_ids, now, sent, latest>>

----------------------------------------------------------------------------
(* Data *)

PendingRequest ==
    [requester_pubkey : Keys, requester_addr : Addrs,
     requester_session_id : Sessions, tm : Int]

ActiveSession ==
    [session_id : Sessions, remote_addr : Addrs, remote_peer : Keys]

\* A ConnectionRequest as try_parse returns it, with the datagram's source address.
ConnectionRequest ==
    [sender : Keys, addr : Addrs, session : Sessions, peers : PeerLists, tm : Int]

\* A request with the time at which the server acted on it.
Arrival ==
    [sender : Keys, addr : Addrs, session : Sessions, peers : PeerLists,
     tm : Int, at : Int]

\* What the server tells one side of a match about the other side.
InitiateConnectionRequest ==
    [type : {"Initiate"}, to : Addrs, peer_pubkey : Keys, peer_address : Addrs,
     remote_session_id : Sessions, is_listener : BOOLEAN]

LostConnectionRequest ==
    [type : {"Lost"}, to : Addrs, peer_pubkey : Keys, peer_address : Addrs]

\* HashMaps are functions whose domain is the set of keys present.
IsMap(f, K, V) == DOMAIN f \subseteq K /\ f \in [DOMAIN f -> V]
Insert(f, k, v) == [x \in DOMAIN f \cup {k} |-> IF x = k THEN v ELSE f[x]]
Remove(f, k) == Restrict(f, DOMAIN f \ {k})

----------------------------------------------------------------------------
(* The steps of the handler *)

\* Replay protection: the signed timestamp is neither too old nor too far ahead.
TimestampValid(d) ==
    /\ now - d.tm <= SIGNED_MSG_VALID_S
    /\ d.tm - now <= SIGNED_MSG_VALID_S

\* Variant: nothing expires.
UnexpiredAll(reqs, a) == DOMAIN reqs[a]

\* UdpState::cleanup: drop the expired slots, then the requesters left without any.
Unexpired(reqs, a) ==
    {b \in DOMAIN reqs[a] : now - reqs[a][b].tm < REQUEST_TIMEOUT_S}

Cleanup(reqs) ==
    [a \in {k \in DOMAIN reqs : Unexpired(reqs, k) # {}} |->
        Restrict(reqs[a], Unexpired(reqs, a))]

HasSlot(reqs, a, b) == a \in DOMAIN reqs /\ b \in DOMAIN reqs[a]

\* The sender repeats the session id the server remembers for it.
RepeatsActiveSession(d) ==
    /\ d.sender \in DOMAIN last_session_ids
    /\ last_session_ids[d.sender].session_id = d.session

\* The loop over peer_pubkeys stops at the first peer that holds a slot for the sender.
FirstMatch(reqs, d, i) ==
    /\ i \in DOMAIN d.peers
    /\ HasSlot(reqs, d.peers[i], d.sender)
    /\ \A j \in DOMAIN d.peers : HasSlot(reqs, d.peers[j], d.sender) => i <= j

\* Variant: the empty inner map stays.
TakeSlotLeavingEmpty(reqs, a, b) == [reqs EXCEPT ![a] = Remove(@, b)]

\* Variant: the slot is read (get instead of remove).
TakeSlotKept(reqs, a, b) == reqs

\* inner_map.remove(&sender), and the requester's entry goes with its last slot.
TakeSlot(reqs, a, b) ==
    IF DOMAIN reqs[a] = {b}
    THEN Remove(reqs, a)
    ELSE [reqs EXCEPT ![a] = Remove(@, b)]

\* The slots a request that found no match leaves behind, one per listed key.
SlotsOf(d) ==
    [p \in Range(d.peers) |->
        [requester_pubkey |-> d.sender, requester_addr |-> d.addr,
         requester_session_id |-> d.session, tm |-> now]]

\* The two notifications of a match: to the holder of the slot, and to the sender.
ToOriginal(d, pending) ==
    [type |-> "Initiate", to |-> pending.requester_addr, peer_pubkey |-> d.sender,
     peer_address |-> d.addr, remote_session_id |-> d.session, is_listener |-> FALSE]

ToNew(d, pending) ==
    [type |-> "Initiate", to |-> d.addr, peer_pubkey |-> pending.requester_pubkey,
     peer_address |-> pending.requester_addr,
     remote_session_id |-> pending.requester_session_id, is_listener |-> TRUE]

\* What is remembered about the sender of the request that completed a match.
RememberedSession(d, pending) ==
    [session_id |-> pending.requester_session_id,
     remote_addr |-> pending.requester_addr, remote_peer |-> pending.requester_pubkey]

\* History only: the request as it was acted on.
Arrived(d) ==
    [sender |-> d.sender, addr |-> d.addr, session |-> d.session,
     peers |-> d.peers, tm |-> d.tm, at |-> now]

----------------------------------------------------------------------------
(* Actions *)

Init ==
    /\ requests = [k \in {} |-> {}]
    /\ last_session_ids = [k \in {} |-> {}]
    /\ now = 0
    /\ sent = {}
    /\ latest = [k \in {} |-> {}]

\* The session was matched before: notify and leave the slots as cleanup left them.
ReportLost(d) ==
    /\ TimestampValid(d)
    /\ RepeatsActiveSession(d)
    /\ requests' = Cleanup(requests)
    /\ sent' = {[type |-> "Lost", to |-> d.addr,
                 peer_pubkey |-> last_session_ids[d.sender].remote_peer,
                 peer_address |-> last_session_ids[d.sender].remote_addr]}
    /\ UNCHANGED <<last_session_ids, now, latest>>

\* A listed peer holds a slot for the sender: consume it and notify both sides.
MatchRequest(d) ==
    LET live == Cleanup(requests) IN
    /\ TimestampValid(d)
    /\ ~RepeatsActiveSession(d)
    /\ \E i \in DOMAIN d.peers :
         LET p == d.peers[i]
             pending == live[p][d.sender]
         IN  /\ FirstMatch(live, d, i)
             /\ sent' = {ToOriginal(d, pending), ToNew(d, pending)}
             /\ last_session_ids' =
                    Insert(last_session_ids, d.sender, RememberedSession(d, pending))
             /\ requests' = Remove(TakeSlot(live, p, d.sender), d.sender)
             /\ latest' = Insert(latest, d.sender, Arrived(d))
    /\ UNCHANGED now

\* Variant: only the first listed peer is searched for a slot.
PlaceRequestUnsearched(d) ==
    LET live == Cleanup(requests) IN
    /\ TimestampValid(d)
    /\ ~RepeatsActiveSession(d)
    /\ ~HasSlot(live, d.peers[1], d.sender)
    /\ requests' = Insert(live, d.sender, SlotsOf(d))
    /\ sent' = {}
    /\ latest' = Insert(latest, d.sender, Arrived(d))
    /\ UNCHANGED <<last_session_ids, now>>

\* Variant: the new slots join the ones the sender had.
PlaceRequestMerging(d) ==
    LET live == Cleanup(requests)
        kept == {p \in Keys \ Range(d.peers) : HasSlot(live, d.sender, p)}
    IN
    /\ TimestampValid(d)
    /\ ~RepeatsActiveSession(d)
    /\ \A i \in DOMAIN d.peers : ~HasSlot(live, d.peers[i], d.sender)
    /\ requests' = Insert(live, d.sender,
                          [p \in Range(d.peers) \cup kept |->
                              IF p \in kept THEN live[d.sender][p] ELSE SlotsOf(d)[p]])
    /\ sent' = {}
    /\ latest' = Insert(latest, d.sender, Arrived(d))
    /\ UNCHANGED <<last_session_ids, now>>

\* No listed peer waits for the sender: its slots replace the ones it had.
PlaceRequest(d) ==
    LET live == Cleanup(requests) IN
    /\ TimestampValid(d)
    /\ ~RepeatsActiveSession(d)
    /\ \A i \in DOMAIN d.peers : ~HasSlot(live, d.peers[i], d.sender)
    /\ requests' = Insert(live, d.sender, SlotsOf(d))
    /\ sent' = {}
    /\ latest' = Insert(latest, d.sender, Arrived(d))
    /\ UNCHANGED <<last_session_ids, now>>

\* The handler of a datagram that parses and passes the replay check.
Handle(d) == ReportLost(d) \/ MatchRequest(d) \/ PlaceRequest(d)

\* The datagrams that can arrive now.
Datagrams ==
    {[sender |-> o[1], addr |-> o[2], session |-> o[3], peers |-> l, tm |-> now - a] :
        o \in Origins, l \in PeerLists, a \in Ages}

Tick ==
    /\ now < MaxNow
    /\ now' = now + 1
    /\ sent' = {}
    /\ UNCHANGED <<requests, last_session_ids, latest>>

Next ==
    \/ \E d \in Datagrams : Handle(d)
    \/ Tick

Spec == Init /\ [][Next]_vars

----------------------------------------------------------------------------
(* Properties *)

\* Every variable holds a value of the Rust type it models.  A requester has a slot: it
\* leaves the map with its last one, whether that expires (cleanup) or is consumed.
TypeOK ==
    /\ DOMAIN requests \subseteq Keys
    /\ \A a \in DOMAIN requests :
         IsMap(requests[a], Keys, PendingRequest) /\ DOMAIN requests[a] # {}
    /\ IsMap(last_session_ids, Keys, ActiveSession)
    /\ now \in Nat
    /\ sent \subseteq InitiateConnectionRequest \cup LostConnectionRequest
    /\ IsMap(latest, Keys, Arrival)

\* Two clients never wait for each other: whichever request came second must have
\* been matched by the handler's loop instead of being stored.
NoMutualSlots ==
    \A a, b \in Keys :
        HasSlot(requests, a, b) /\ HasSlot(requests, b, a) => a = b

\* "All previous requests are invalidated on receiving this message"
\* (udp/messages.rs:108): every slot of a requester belongs to its latest request
\* that the server placed or matched, and carries that request's address, session
\* and arrival time.
SlotsFromLatestRequest ==
    \A a \in DOMAIN requests :
        /\ a \in DOMAIN latest
        /\ DOMAIN requests[a] \subseteq Range(latest[a].peers)
        /\ \A b \in DOMAIN requests[a] :
             /\ requests[a][b].requester_pubkey = a
             /\ requests[a][b].requester_addr = latest[a].addr
             /\ requests[a][b].requester_session_id = latest[a].session
             /\ requests[a][b].tm = latest[a].at

\* The notification m describes the latest request of the client it names, and that
\* request listed key k, arrived within the slot life, and was signed recently.
DescribesRequestFor(m, k) ==
    /\ m.peer_pubkey \in DOMAIN latest
    /\ LET r == latest[m.peer_pubkey] IN
         /\ k \in Range(r.peers)
         /\ m.peer_address = r.addr
         /\ m.remote_session_id = r.session
         /\ now - r.at < REQUEST_TIMEOUT_S
         /\ now - r.tm < SIGNED_MSG_VALID_S + REQUEST_TIMEOUT_S

\* The two notifications of a match introduce two clients that asked for each other:
\* each carries the address and session of the other's own latest request, each goes
\* to the address the other one is told, and exactly one side is the listener.  (A
\* client that lists its own key is matched with its own previous request.)
MatchIsMutualAndFresh ==
    \A m \in sent : m.type = "Initiate" =>
        \E o \in sent :
            /\ o.type = "Initiate"
            /\ o.to = m.peer_address
            /\ m.to = o.peer_address
            /\ o.is_listener # m.is_listener
            /\ m.peer_pubkey # o.peer_pubkey =>
                 /\ DescribesRequestFor(m, o.peer_pubkey)
                 /\ DescribesRequestFor(o, m.peer_pubkey)

\* The wants and introductions that the slots and the notifications stand for.
Wants == {w \in Keys \X Keys : HasSlot(requests, w[1], w[2])}
Introductions ==
    {<<n.peer_pubkey, o.peer_pubkey>> :
        o \in {m \in sent : m.type = "Initiate" /\ ~m.is_listener},
        n \in {m \in sent : m.type = "Initiate" /\ m.is_listener}}

Promise == INSTANCE Matchmaker
               WITH Clients <- Keys, wants <- Wants, introduced <- Introductions

\* The handler keeps the promise of Matchmaker: it introduces a client only to one that
\* waits for it, never lets two clients wait for each other, and voids what a client
\* asked for before.
KeepsPromise == Promise!Spec

=============================================================================
