-------------------------- MODULE UdpServerProofs --------------------------
(***************************************************************************)
(* Proofs about the UDP rendezvous server, for every set of keys,          *)
(* addresses, sessions and request lists and every value of the timeouts.  *)
(*                                                                         *)
(* Every handler only removes slots (cleanup, a match) or replaces the     *)
(* sender's slots (a request without a match).  The first kind of change   *)
(* is a SubMap of the slots before; the lemmas below say what a SubMap     *)
(* preserves, so the argument for each action is short.                    *)
(***************************************************************************)
EXTENDS UdpServer, TLAPS

\* r is l with some slots removed, and no requester of r is left without slots.
SubMap(r, l) ==
    /\ DOMAIN r \subseteq DOMAIN l
    /\ \A a \in DOMAIN r :
         /\ DOMAIN r[a] # {}
         /\ DOMAIN r[a] \subseteq DOMAIN l[a]
         /\ r[a] = [b \in DOMAIN r[a] |-> l[a][b]]

SlotsTypeOK(reqs) ==
    /\ DOMAIN reqs \subseteq Keys
    /\ \A a \in DOMAIN reqs :
         IsMap(reqs[a], Keys, PendingRequest) /\ DOMAIN reqs[a] # {}

\* A datagram has the type of a parsed request.
LEMMA DatagramType ==
    ASSUME TypeOK, NEW d \in Datagrams
    PROVE  /\ d \in ConnectionRequest
           /\ Range(d.peers) \subseteq Keys
           /\ Range(d.peers) # {}
<1>1. d \in ConnectionRequest
  BY OriginsAssumption, AgesAssumption DEF Datagrams, ConnectionRequest, TypeOK
<1>2. d.peers \in Seq(Keys) /\ d.peers # <<>>
  BY <1>1, PeerListsAssumption DEF ConnectionRequest
<1>3. d.peers \in [1 .. Len(d.peers) -> Keys] /\ Len(d.peers) \in Nat /\ Len(d.peers) # 0
  BY <1>2
<1>4. 1 \in DOMAIN d.peers
  BY <1>3
<1>5. QED
  BY <1>1, <1>3, <1>4 DEF Range

\* Slots that survive cleanup were there before and are not expired.
LEMMA CleanupSubMap ==
    /\ SubMap(Cleanup(requests), requests)
    /\ \A a, b : HasSlot(Cleanup(requests), a, b) =>
         /\ HasSlot(requests, a, b)
         /\ Cleanup(requests)[a][b] = requests[a][b]
         /\ now - requests[a][b].tm < REQUEST_TIMEOUT_S
  BY DEF Cleanup, Unexpired, SubMap, HasSlot, Restrict

\* Removing slots keeps the type of the map.
LEMMA SubMapType ==
    ASSUME NEW r, NEW l, SubMap(r, l), SlotsTypeOK(l)
    PROVE  SlotsTypeOK(r)
  BY DEF SubMap, SlotsTypeOK, IsMap

\* Consuming one slot and then dropping a requester is a removal of slots.
LEMMA TakeSlotSubMap ==
    ASSUME NEW l, NEW a, NEW b, NEW k, SubMap(l, requests), HasSlot(l, a, b)
    PROVE  /\ SubMap(Remove(TakeSlot(l, a, b), k), l)
           /\ k \notin DOMAIN Remove(TakeSlot(l, a, b), k)
           /\ ~HasSlot(Remove(TakeSlot(l, a, b), k), a, b)
<1>1. DOMAIN l[a] = {b} => SubMap(TakeSlot(l, a, b), l)
  BY DEF SubMap, TakeSlot, Remove, Restrict, HasSlot
<1>2. DOMAIN l[a] # {b} => SubMap(TakeSlot(l, a, b), l)
  BY DEF SubMap, TakeSlot, Remove, Restrict, HasSlot
<1>3. ~HasSlot(TakeSlot(l, a, b), a, b)
  BY DEF TakeSlot, Remove, Restrict, HasSlot
<1>4. QED
  BY <1>1, <1>2, <1>3 DEF SubMap, Remove, Restrict, HasSlot

----------------------------------------------------------------------------
(* The inductive invariant *)

\* The replay check: the requests the slots come from were signed recently.
LatestSignedRecently ==
    \A k \in DOMAIN latest : latest[k].at - latest[k].tm <= SIGNED_MSG_VALID_S

\* Type correctness and the two facts about the slots need each other: the entry of
\* a requester in latest exists because it has slots, and a match finds the request
\* its slot came from there.
IInv ==
    /\ TypeOK
    /\ NoMutualSlots
    /\ SlotsFromLatestRequest
    /\ LatestSignedRecently

\* Removing slots creates no mutual pair.
LEMMA SubMapMutual ==
    ASSUME NoMutualSlots, NEW r, SubMap(r, requests), requests' = r
    PROVE  NoMutualSlots'
  BY DEF NoMutualSlots, SubMap, HasSlot

\* Removing slots keeps the others tied to the request they came from, as long as
\* the history still holds that request's data for every requester that remains.
LEMMA SubMapLatest ==
    ASSUME SlotsFromLatestRequest, NEW r, SubMap(r, requests), requests' = r,
           DOMAIN latest \subseteq DOMAIN latest',
           \A a \in DOMAIN r : /\ latest'[a].peers = latest[a].peers
                               /\ latest'[a].addr = latest[a].addr
                               /\ latest'[a].session = latest[a].session
                               /\ latest'[a].at = latest[a].at
    PROVE  SlotsFromLatestRequest'
<1> SUFFICES ASSUME NEW a \in DOMAIN r
             PROVE  /\ a \in DOMAIN latest'
                    /\ DOMAIN r[a] \subseteq Range(latest'[a].peers)
                    /\ \A b \in DOMAIN r[a] :
                         /\ r[a][b].requester_pubkey = a
                         /\ r[a][b].requester_addr = latest'[a].addr
                         /\ r[a][b].requester_session_id = latest'[a].session
                         /\ r[a][b].tm = latest'[a].at
  BY DEF SlotsFromLatestRequest
<1>1. /\ a \in DOMAIN requests
      /\ DOMAIN r[a] \subseteq DOMAIN requests[a]
      /\ \A b \in DOMAIN r[a] : r[a][b] = requests[a][b]
  BY DEF SubMap
<1>2. QED
  BY <1>1 DEF SlotsFromLatestRequest

----------------------------------------------------------------------------
(* One lemma per action *)

LEMMA InitIInv == Init => IInv
  BY TimeoutsAssumption
  DEF Init, IInv, TypeOK, NoMutualSlots, SlotsFromLatestRequest, LatestSignedRecently,
      IsMap, HasSlot

LEMMA TickIInv ==
    ASSUME IInv, Tick
    PROVE  IInv'
<1>1. TypeOK'
  BY DEF IInv, Tick, TypeOK
<1>2. NoMutualSlots' /\ SlotsFromLatestRequest' /\ LatestSignedRecently'
  BY DEF IInv, Tick, NoMutualSlots, HasSlot, SlotsFromLatestRequest, LatestSignedRecently
<1>3. QED
  BY <1>1, <1>2 DEF IInv

LEMMA ReportLostIInv ==
    ASSUME IInv, NEW d \in Datagrams, ReportLost(d)
    PROVE  IInv'
<1>1. SubMap(Cleanup(requests), requests) /\ requests' = Cleanup(requests)
  BY CleanupSubMap DEF ReportLost
<1>2. SlotsTypeOK(requests')
  BY <1>1, SubMapType DEF IInv, TypeOK, SlotsTypeOK
<1>3. sent' \subseteq LostConnectionRequest
  <2>1. last_session_ids[d.sender] \in ActiveSession
    BY DEF ReportLost, RepeatsActiveSession, IInv, TypeOK, IsMap
  <2>2. d.addr \in Addrs
    BY DatagramType DEF IInv, ConnectionRequest
  <2>3. QED
    BY <2>1, <2>2 DEF ReportLost, LostConnectionRequest, ActiveSession
<1>4. TypeOK'
  BY <1>2, <1>3 DEF ReportLost, IInv, TypeOK, SlotsTypeOK
<1>5. NoMutualSlots'
  BY <1>1, SubMapMutual DEF IInv
<1>6. SlotsFromLatestRequest'
  BY <1>1, SubMapLatest DEF IInv, ReportLost
<1>7. LatestSignedRecently'
  BY DEF IInv, ReportLost, LatestSignedRecently
<1>8. QED
  BY <1>4, <1>5, <1>6, <1>7 DEF IInv

LEMMA PlaceRequestIInv ==
    ASSUME IInv, NEW d \in Datagrams, PlaceRequest(d)
    PROVE  IInv'
<1> DEFINE live == Cleanup(requests)
<1>1. /\ d \in ConnectionRequest
      /\ Range(d.peers) \subseteq Keys
      /\ Range(d.peers) # {}
  BY DatagramType DEF IInv
<1>2. SubMap(live, requests) /\ SlotsTypeOK(live)
  BY CleanupSubMap, SubMapType DEF IInv, TypeOK, SlotsTypeOK
<1>3. /\ DOMAIN requests' = DOMAIN live \cup {d.sender}
      /\ requests'[d.sender] = SlotsOf(d)
      /\ \A a \in DOMAIN live : a # d.sender => requests'[a] = live[a]
  BY DEF PlaceRequest, Insert
<1>4. /\ DOMAIN latest' = DOMAIN latest \cup {d.sender}
      /\ latest'[d.sender] = Arrived(d)
      /\ \A k \in DOMAIN latest : k # d.sender => latest'[k] = latest[k]
      /\ latest' = [k \in DOMAIN latest' |-> latest'[k]]
  BY DEF PlaceRequest, Insert
<1>5. TypeOK'
  <2>1. IsMap(SlotsOf(d), Keys, PendingRequest) /\ DOMAIN SlotsOf(d) # {}
    BY <1>1 DEF SlotsOf, IsMap, PendingRequest, ConnectionRequest, IInv, TypeOK
  <2>2. SlotsTypeOK(requests')
    BY <1>1, <1>2, <1>3, <2>1 DEF SlotsTypeOK, ConnectionRequest
  <2>3. Arrived(d) \in Arrival
    BY <1>1 DEF Arrived, Arrival, ConnectionRequest, IInv, TypeOK
  <2>4. IsMap(latest', Keys, Arrival)
    BY <1>1, <1>4, <2>3 DEF IsMap, ConnectionRequest, IInv, TypeOK
  <2>5. QED
    BY <2>2, <2>4 DEF PlaceRequest, IInv, TypeOK, SlotsTypeOK
<1>6. NoMutualSlots'
  <2>1. ASSUME NEW b \in Keys, HasSlot(requests', d.sender, b), b # d.sender
        PROVE  ~HasSlot(requests', b, d.sender)
    <3>1. PICK i \in DOMAIN d.peers : b = d.peers[i]
      BY <1>3, <2>1 DEF HasSlot, SlotsOf, Range
    <3>2. ~HasSlot(live, b, d.sender)
      BY <3>1 DEF PlaceRequest
    <3>3. QED
      BY <3>2, <2>1, <1>3 DEF HasSlot
  <2>2. ASSUME NEW a \in Keys, NEW b \in Keys, a # b, a # d.sender, b # d.sender,
               HasSlot(requests', a, b), HasSlot(requests', b, a)
        PROVE  FALSE
    BY <2>2, <1>2, <1>3 DEF HasSlot, SubMap, IInv, NoMutualSlots
  <2>3. QED
    BY <2>1, <2>2 DEF NoMutualSlots
<1>7. SlotsFromLatestRequest'
  <2> SUFFICES ASSUME NEW a \in DOMAIN requests'
               PROVE  /\ a \in DOMAIN latest'
                      /\ DOMAIN requests'[a] \subseteq Range(latest'[a].peers)
                      /\ \A b \in DOMAIN requests'[a] :
                           /\ requests'[a][b].requester_pubkey = a
                           /\ requests'[a][b].requester_addr = latest'[a].addr
                           /\ requests'[a][b].requester_session_id = latest'[a].session
                           /\ requests'[a][b].tm = latest'[a].at
    BY DEF SlotsFromLatestRequest
  <2>1. CASE a = d.sender
    BY <2>1, <1>1, <1>3, <1>4 DEF SlotsOf, Arrived
  <2>2. CASE a # d.sender
    BY <2>2, <1>2, <1>3, <1>4 DEF SubMap, IInv, SlotsFromLatestRequest
  <2>3. QED
    BY <2>1, <2>2
<1>8. LatestSignedRecently'
  <2>1. Arrived(d).at - Arrived(d).tm <= SIGNED_MSG_VALID_S
    BY DEF Arrived, PlaceRequest, TimestampValid
  <2>2. QED
    BY <1>4, <2>1 DEF LatestSignedRecently, IInv
<1>9. QED
  BY <1>5, <1>6, <1>7, <1>8 DEF IInv

\* What a match does, with the index of the matched peer and the slot it consumes named.
LEMMA MatchRequestTakes ==
    ASSUME NEW d, MatchRequest(d)
    PROVE  \E p, pending :
             /\ HasSlot(requests, p, d.sender)
             /\ pending = requests[p][d.sender]
             /\ p \in Range(d.peers)
             /\ now - pending.tm < REQUEST_TIMEOUT_S
             /\ sent' = {ToOriginal(d, pending), ToNew(d, pending)}
             /\ last_session_ids' =
                    Insert(last_session_ids, d.sender, RememberedSession(d, pending))
             /\ SubMap(requests', requests)
             /\ d.sender \notin DOMAIN requests'
             /\ ~HasSlot(requests', p, d.sender)
             /\ latest' = Insert(latest, d.sender, Arrived(d))
<1> DEFINE live == Cleanup(requests)
<1>1. PICK i \in DOMAIN d.peers :
        /\ FirstMatch(live, d, i)
        /\ sent' = {ToOriginal(d, live[d.peers[i]][d.sender]),
                    ToNew(d, live[d.peers[i]][d.sender])}
        /\ last_session_ids' = Insert(last_session_ids, d.sender,
                                  RememberedSession(d, live[d.peers[i]][d.sender]))
        /\ requests' = Remove(TakeSlot(live, d.peers[i], d.sender), d.sender)
        /\ latest' = Insert(latest, d.sender, Arrived(d))
  BY DEF MatchRequest
<1> DEFINE p == d.peers[i]
<1>2. HasSlot(live, p, d.sender)
  BY <1>1 DEF FirstMatch
<1>3. /\ HasSlot(requests, p, d.sender)
      /\ live[p][d.sender] = requests[p][d.sender]
      /\ now - requests[p][d.sender].tm < REQUEST_TIMEOUT_S
  BY <1>2, CleanupSubMap
<1>4. /\ SubMap(live, requests)
      /\ SubMap(requests', live)
      /\ d.sender \notin DOMAIN requests'
      /\ ~HasSlot(requests', p, d.sender)
  BY <1>1, <1>2, CleanupSubMap, TakeSlotSubMap
<1>5. SubMap(requests', requests)
  BY <1>4 DEF SubMap
<1>6. p \in Range(d.peers)
  BY DEF Range
<1>7. QED
  BY <1>1, <1>3, <1>4, <1>5, <1>6

\* And with the types of what it takes.
LEMMA MatchRequestEffect ==
    ASSUME IInv, NEW d \in Datagrams, MatchRequest(d)
    PROVE  \E p \in Keys, pending \in PendingRequest :
             /\ HasSlot(requests, p, d.sender)
             /\ pending = requests[p][d.sender]
             /\ p \in Range(d.peers)
             /\ now - pending.tm < REQUEST_TIMEOUT_S
             /\ sent' = {ToOriginal(d, pending), ToNew(d, pending)}
             /\ last_session_ids' =
                    Insert(last_session_ids, d.sender, RememberedSession(d, pending))
             /\ SubMap(requests', requests)
             /\ d.sender \notin DOMAIN requests'
             /\ latest' = Insert(latest, d.sender, Arrived(d))
<1>1. PICK p, pending :
        /\ HasSlot(requests, p, d.sender)
        /\ pending = requests[p][d.sender]
        /\ p \in Range(d.peers)
        /\ now - pending.tm < REQUEST_TIMEOUT_S
        /\ sent' = {ToOriginal(d, pending), ToNew(d, pending)}
        /\ last_session_ids' =
               Insert(last_session_ids, d.sender, RememberedSession(d, pending))
        /\ SubMap(requests', requests)
        /\ d.sender \notin DOMAIN requests'
        /\ latest' = Insert(latest, d.sender, Arrived(d))
  BY MatchRequestTakes
<1>2. p \in Keys
  BY <1>1, DatagramType DEF IInv
<1>3. pending \in PendingRequest
  BY <1>1 DEF IInv, TypeOK, IsMap, HasSlot
<1>4. QED
  BY <1>1, <1>2, <1>3

LEMMA MatchRequestIInv ==
    ASSUME IInv, NEW d \in Datagrams, MatchRequest(d)
    PROVE  IInv' /\ MatchIsMutualAndFresh'
<1>1. PICK p \in Keys, pending \in PendingRequest :
        /\ HasSlot(requests, p, d.sender)
        /\ pending = requests[p][d.sender]
        /\ p \in Range(d.peers)
        /\ now - pending.tm < REQUEST_TIMEOUT_S
        /\ sent' = {ToOriginal(d, pending), ToNew(d, pending)}
        /\ last_session_ids' =
               Insert(last_session_ids, d.sender, RememberedSession(d, pending))
        /\ SubMap(requests', requests)
        /\ d.sender \notin DOMAIN requests'
        /\ latest' = Insert(latest, d.sender, Arrived(d))
  BY MatchRequestEffect
<1>2. d \in ConnectionRequest
  BY DatagramType DEF IInv
<1>3. pending \in PendingRequest
  OBVIOUS
<1>4. /\ p \in DOMAIN latest
      /\ d.sender \in Range(latest[p].peers)
      /\ pending.requester_pubkey = p
      /\ pending.requester_addr = latest[p].addr
      /\ pending.requester_session_id = latest[p].session
      /\ pending.tm = latest[p].at
  BY <1>1 DEF HasSlot, IInv, SlotsFromLatestRequest
<1>5. latest \in [DOMAIN latest -> Arrival] /\ DOMAIN latest \subseteq Keys
  BY DEF IInv, TypeOK, IsMap
\* The history keeps the other clients' requests.
<1>6. /\ DOMAIN latest' = DOMAIN latest \cup {d.sender}
      /\ latest' = [k \in DOMAIN latest' |-> latest'[k]]
      /\ latest'[d.sender] = Arrived(d)
      /\ \A k \in DOMAIN latest : k # d.sender =>
           latest'[k] = latest[k] /\ latest[k] \in Arrival
  BY <1>1, <1>5 DEF Insert
<1>7. now' = now /\ now \in Nat
  BY DEF MatchRequest, IInv, TypeOK
<1>8. TypeOK'
  <2>1. SlotsTypeOK(requests')
    BY <1>1, SubMapType DEF IInv, TypeOK, SlotsTypeOK
  <2>2. RememberedSession(d, pending) \in ActiveSession
    BY <1>3 DEF RememberedSession, ActiveSession, PendingRequest
  <2>3. IsMap(last_session_ids', Keys, ActiveSession)
    BY <1>1, <1>2, <2>2 DEF Insert, IsMap, ConnectionRequest, IInv, TypeOK
  <2>4. sent' \subseteq InitiateConnectionRequest
    BY <1>1, <1>2, <1>3
    DEF ToOriginal, ToNew, InitiateConnectionRequest, ConnectionRequest, PendingRequest
  <2>5. Arrived(d) \in Arrival
    BY <1>2, <1>7 DEF Arrived, Arrival, ConnectionRequest
  <2>6. IsMap(latest', Keys, Arrival)
    BY <1>2, <1>5, <1>6, <2>5 DEF IsMap, ConnectionRequest
  <2>7. QED
    BY <1>7, <2>1, <2>3, <2>4, <2>6 DEF TypeOK, SlotsTypeOK
<1>9. NoMutualSlots'
  BY <1>1, SubMapMutual DEF IInv
<1>10. SlotsFromLatestRequest'
  <2>1. \A a \in DOMAIN requests' : a # d.sender /\ a \in DOMAIN latest
    BY <1>1 DEF SubMap, IInv, SlotsFromLatestRequest
  <2>2. QED
    BY <1>1, <1>6, <2>1, SubMapLatest DEF IInv
<1>11. LatestSignedRecently'
  <2>1. Arrived(d).at - Arrived(d).tm <= SIGNED_MSG_VALID_S
    BY DEF Arrived, MatchRequest, TimestampValid
  <2>2. QED
    BY <1>6, <2>1 DEF LatestSignedRecently, IInv
<1>12. MatchIsMutualAndFresh'
  <2> DEFINE m == ToOriginal(d, pending)
             o == ToNew(d, pending)
  \* What the holder of the slot is told describes the sender's request.
  <2>1. p # d.sender => DescribesRequestFor(m, p)'
    <3>1. /\ m.peer_pubkey = d.sender
          /\ m.peer_address = d.addr
          /\ m.remote_session_id = d.session
      BY DEF ToOriginal
    <3>2. /\ latest'[d.sender].peers = d.peers
          /\ latest'[d.sender].addr = d.addr
          /\ latest'[d.sender].session = d.session
          /\ latest'[d.sender].at = now
          /\ latest'[d.sender].tm = d.tm
      BY <1>6 DEF Arrived
    <3>3. now - now < REQUEST_TIMEOUT_S
      BY <1>7, TimeoutsAssumption
    <3>4. now - d.tm < SIGNED_MSG_VALID_S + REQUEST_TIMEOUT_S
      BY <1>2, <1>7, TimeoutsAssumption
      DEF MatchRequest, TimestampValid, ConnectionRequest
    <3>5. QED
      BY <1>1, <1>6, <1>7, <3>1, <3>2, <3>3, <3>4 DEF DescribesRequestFor
  \* What the sender is told describes the request the slot came from.
  <2>2. p # d.sender => DescribesRequestFor(o, d.sender)'
    <3>1. /\ o.peer_pubkey = p
          /\ o.peer_address = latest[p].addr
          /\ o.remote_session_id = latest[p].session
      BY <1>4 DEF ToNew
    <3>2. now - latest[p].at < REQUEST_TIMEOUT_S
      BY <1>1, <1>4
    <3>3. now - latest[p].tm < SIGNED_MSG_VALID_S + REQUEST_TIMEOUT_S
      <4>1. latest[p].at \in Int /\ latest[p].tm \in Int
        BY <1>4, <1>5 DEF Arrival
      <4>2. latest[p].at - latest[p].tm <= SIGNED_MSG_VALID_S
        BY <1>4 DEF IInv, LatestSignedRecently
      <4>3. QED
        BY <1>7, <3>2, <4>1, <4>2, TimeoutsAssumption
    <3>4. QED
      BY <1>4, <1>6, <1>7, <3>1, <3>2, <3>3 DEF DescribesRequestFor
  <2>3. /\ m.type = "Initiate" /\ o.type = "Initiate"
        /\ m.to = o.peer_address /\ o.to = m.peer_address
        /\ m.is_listener # o.is_listener
        /\ m.peer_pubkey = d.sender /\ o.peer_pubkey = p
    BY <1>4 DEF ToOriginal, ToNew
  <2>4. sent' = {m, o}
    BY <1>1
  <2> HIDE DEF m, o
  <2>5. QED
    BY <2>1, <2>2, <2>3, <2>4 DEF MatchIsMutualAndFresh
<1>13. QED
  BY <1>8, <1>9, <1>10, <1>11, <1>12 DEF IInv

----------------------------------------------------------------------------
(* Theorems *)

\* A handler that sends no Initiate satisfies the match property trivially.
LEMMA QuietSteps ==
    ASSUME NEW d \in Datagrams, ReportLost(d) \/ PlaceRequest(d)
    PROVE  MatchIsMutualAndFresh'
<1>1. CASE ReportLost(d)
  <2> DEFINE lost == [type |-> "Lost", to |-> d.addr,
                      peer_pubkey |-> last_session_ids[d.sender].remote_peer,
                      peer_address |-> last_session_ids[d.sender].remote_addr]
  <2>1. sent' = {lost}
    BY <1>1 DEF ReportLost
  <2>2. lost.type # "Initiate"
    OBVIOUS
  <2> HIDE DEF lost
  <2>3. QED
    BY <2>1, <2>2 DEF MatchIsMutualAndFresh
<1>2. CASE PlaceRequest(d)
  BY <1>2 DEF PlaceRequest, MatchIsMutualAndFresh
<1>3. QED
  BY <1>1, <1>2

LEMMA NextIInv ==
    ASSUME IInv, MatchIsMutualAndFresh, [Next]_vars
    PROVE  IInv' /\ MatchIsMutualAndFresh'
<1>1. ASSUME NEW d \in Datagrams, ReportLost(d)
      PROVE  IInv' /\ MatchIsMutualAndFresh'
  BY <1>1, ReportLostIInv, QuietSteps
<1>2. ASSUME NEW d \in Datagrams, MatchRequest(d)
      PROVE  IInv' /\ MatchIsMutualAndFresh'
  BY <1>2, MatchRequestIInv
<1>3. ASSUME NEW d \in Datagrams, PlaceRequest(d)
      PROVE  IInv' /\ MatchIsMutualAndFresh'
  BY <1>3, PlaceRequestIInv, QuietSteps
<1>4. ASSUME Tick
      PROVE  IInv' /\ MatchIsMutualAndFresh'
  BY <1>4, TickIInv DEF Tick, MatchIsMutualAndFresh
<1>5. ASSUME UNCHANGED vars
      PROVE  IInv' /\ MatchIsMutualAndFresh'
  BY <1>5 DEF vars, IInv, TypeOK, NoMutualSlots, HasSlot, SlotsFromLatestRequest,
              LatestSignedRecently, MatchIsMutualAndFresh, DescribesRequestFor
<1>6. QED
  BY <1>1, <1>2, <1>3, <1>4, <1>5 DEF Next, Handle

LEMMA SpecIInv == Spec => [](IInv /\ MatchIsMutualAndFresh)
<1>1. Init => IInv /\ MatchIsMutualAndFresh
  BY InitIInv DEF Init, MatchIsMutualAndFresh
<1>2. IInv /\ MatchIsMutualAndFresh /\ [Next]_vars => (IInv /\ MatchIsMutualAndFresh)'
  BY NextIInv
<1>3. QED
  BY <1>1, <1>2, PTL DEF Spec

\* The server's maps always hold well-formed slots, sessions and notifications,
\* whatever datagrams the network delivers.
THEOREM TypeCorrect == Spec => []TypeOK
  BY SpecIInv, PTL DEF IInv

\* The handler's search loop never leaves two clients waiting for each other.
THEOREM MutualRequestsAreMatched == Spec => []NoMutualSlots
  BY SpecIInv, PTL DEF IInv

\* Inserting the sender's inner map replaces every slot of its earlier requests, and
\* a match drops the sender's slots: what is stored comes from the latest request.
THEOREM EarlierRequestsAreInvalidated == Spec => []SlotsFromLatestRequest
  BY SpecIInv, PTL DEF IInv

\* Every match introduces two clients that asked for each other, with the addresses
\* and sessions of requests that had not expired.
THEOREM MatchesAreMutualAndFresh == Spec => []MatchIsMutualAndFresh
  BY SpecIInv, PTL

----------------------------------------------------------------------------
(* The server implements Matchmaker: one lemma per action *)

\* Removing slots removes wants.
LEMMA SubMapWants ==
    ASSUME SubMap(requests', requests)
    PROVE  Wants' \subseteq Wants
  BY DEF SubMap, Wants, HasSlot

\* A handler that removes slots and introduces nobody forgets.
LEMMA Forgets ==
    ASSUME SubMap(requests', requests),
           \A m \in sent' : m.type # "Initiate"
    PROVE  Promise!Forget
<1>1. Introductions' = {}
  BY DEF Introductions
<1>2. QED
  BY <1>1, SubMapWants DEF Promise!Forget

LEMMA ReportLostForgets ==
    ASSUME NEW d, ReportLost(d)
    PROVE  Promise!Forget
<1> DEFINE lost == [type |-> "Lost", to |-> d.addr,
                    peer_pubkey |-> last_session_ids[d.sender].remote_peer,
                    peer_address |-> last_session_ids[d.sender].remote_addr]
<1>1. sent' = {lost} /\ requests' = Cleanup(requests)
  BY DEF ReportLost
<1>2. lost.type # "Initiate"
  OBVIOUS
<1> HIDE DEF lost
<1>3. QED
  BY <1>1, <1>2, CleanupSubMap, Forgets

LEMMA PlaceRequestAsks ==
    ASSUME NEW d, d.sender \in Keys, PlaceRequest(d)
    PROVE  Promise!Ask(d.sender, Range(d.peers) \cap Keys)
<1> DEFINE live == Cleanup(requests)
           a == d.sender
           ps == Range(d.peers) \cap Keys
<1>1. a \in Keys /\ ps \subseteq Keys
  OBVIOUS
<1>2. /\ DOMAIN requests' = DOMAIN live \cup {a}
      /\ DOMAIN requests'[a] = Range(d.peers)
      /\ \A k \in DOMAIN live : k # a => requests'[k] = live[k]
  BY DEF PlaceRequest, Insert, SlotsOf
<1>3. \A k \in Keys : HasSlot(requests', a, k) <=> k \in ps
  BY <1>2 DEF HasSlot
<1>4. \A k, m : k # a => (HasSlot(requests', k, m) <=> HasSlot(live, k, m))
  BY <1>2 DEF HasSlot
<1>5. {a} \X ps \subseteq Wants'
  BY <1>1, <1>3 DEF Wants
<1>6. Wants' \subseteq (Wants \ Promise!WantsOf(a)) \cup ({a} \X ps)
  <2> SUFFICES ASSUME NEW k \in Keys, NEW m \in Keys, HasSlot(requests', k, m)
               PROVE  \/ <<k, m>> \in Wants \ Promise!WantsOf(a)
                      \/ <<k, m>> \in {a} \X ps
    BY DEF Wants
  <2>1. CASE k = a
    BY <2>1, <1>3
  <2>2. CASE k # a
    BY <2>2, <1>4, CleanupSubMap DEF Wants, Promise!WantsOf
  <2>3. QED
    BY <2>1, <2>2
<1>7. ASSUME NEW p \in ps \ {a}
      PROVE  <<p, a>> \notin Wants'
  <2>1. PICK i \in DOMAIN d.peers : p = d.peers[i]
    BY DEF Range
  <2>2. ~HasSlot(live, p, a)
    BY <2>1 DEF PlaceRequest
  <2>3. QED
    BY <2>2, <1>4 DEF Wants
<1>8. Introductions' = {}
  BY DEF PlaceRequest, Introductions
<1>9. QED
  BY <1>5, <1>6, <1>7, <1>8 DEF Promise!Ask

\* A slot says whose it is.
SlotsAreOwn ==
    \A a \in DOMAIN requests :
        a \in Keys /\ \A b \in DOMAIN requests[a] : requests[a][b].requester_pubkey = a

LEMMA MatchRequestIntroduces ==
    ASSUME SlotsAreOwn, NEW d, d.sender \in Keys, MatchRequest(d)
    PROVE  \E p \in Keys : Promise!Introduce(p, d.sender)
<1>1. PICK p, pending :
        /\ HasSlot(requests, p, d.sender)
        /\ pending = requests[p][d.sender]
        /\ sent' = {ToOriginal(d, pending), ToNew(d, pending)}
        /\ SubMap(requests', requests)
        /\ d.sender \notin DOMAIN requests'
        /\ ~HasSlot(requests', p, d.sender)
  BY MatchRequestTakes
<1>2. d.sender \in Keys /\ p \in Keys
  BY <1>1 DEF HasSlot, SlotsAreOwn
<1>3. pending.requester_pubkey = p
  BY <1>1 DEF HasSlot, SlotsAreOwn
<1>4. <<p, d.sender>> \in Wants
  BY <1>1, <1>2 DEF Wants
<1>5. Wants' \subseteq Wants \ (Promise!WantsOf(d.sender) \cup {<<p, d.sender>>})
  <2>1. Wants' \subseteq Wants
    BY <1>1, SubMapWants
  <2>2. <<p, d.sender>> \notin Wants'
    BY <1>1 DEF Wants
  <2>3. \A w \in Wants' : w[1] # d.sender
    BY <1>1 DEF Wants, HasSlot
  <2>4. QED
    BY <2>1, <2>2, <2>3 DEF Promise!WantsOf
<1>6. Introductions' = {<<p, d.sender>>}
  <2> DEFINE m == ToOriginal(d, pending)
             o == ToNew(d, pending)
  <2>1. /\ m.type = "Initiate" /\ ~m.is_listener /\ m.peer_pubkey = d.sender
        /\ o.type = "Initiate" /\ o.is_listener /\ o.peer_pubkey = p
    BY <1>3 DEF ToOriginal, ToNew
  <2>2. sent' = {m, o}
    BY <1>1
  <2> HIDE DEF m, o
  <2>3. /\ {x \in sent' : x.type = "Initiate" /\ ~x.is_listener} = {m}
        /\ {x \in sent' : x.type = "Initiate" /\ x.is_listener} = {o}
    BY <2>1, <2>2
  <2>4. QED
    BY <2>1, <2>3 DEF Introductions
<1>7. QED
  BY <1>2, <1>4, <1>5, <1>6 DEF Promise!Introduce

\* Every call of the handler keeps the promise.
LEMMA HandleKeepsPromise ==
    ASSUME SlotsAreOwn, NEW d, d.sender \in Keys, Handle(d)
    PROVE  Promise!Next
<1>1. CASE ReportLost(d)
  BY <1>1, ReportLostForgets DEF Promise!Next
<1>2. CASE MatchRequest(d)
  BY <1>2, MatchRequestIntroduces DEF Promise!Next
<1>3. CASE PlaceRequest(d)
  BY <1>3, PlaceRequestAsks DEF Promise!Next
<1>4. QED
  BY <1>1, <1>2, <1>3 DEF Handle

LEMMA NextKeepsPromise ==
    ASSUME IInv, [Next]_vars
    PROVE  [Promise!Next]_(Promise!vars)
<1>1. SlotsAreOwn
  BY DEF IInv, TypeOK, SlotsFromLatestRequest, SlotsAreOwn
<1>2. ASSUME NEW d \in Datagrams, Handle(d)
      PROVE  Promise!Next
  <2>1. d.sender \in Keys
    BY DatagramType DEF IInv, ConnectionRequest
  <2>2. QED
    BY <1>1, <1>2, <2>1, HandleKeepsPromise
<1>3. ASSUME Tick
      PROVE  Promise!Next
  <2>1. Wants' = Wants /\ Introductions' = {}
    BY <1>3 DEF Tick, Wants, HasSlot, Introductions
  <2>2. QED
    BY <2>1 DEF Promise!Next, Promise!Forget
<1>4. ASSUME UNCHANGED vars
      PROVE  UNCHANGED Promise!vars
  BY <1>4 DEF vars, Promise!vars, Wants, HasSlot, Introductions
<1>5. QED
  BY <1>2, <1>3, <1>4 DEF Next

\* The handler implements Matchmaker: every datagram, whatever its age, origin and
\* order, asks, introduces two clients one of which waited for the other, or only
\* forgets; expiry and the clock only forget.
THEOREM ServerKeepsPromise == Spec => KeepsPromise
<1>1. Init => Promise!Init
  BY DEF Init, Promise!Init, Wants, HasSlot, Introductions
<1>2. IInv /\ [Next]_vars => [Promise!Next]_(Promise!vars)
  BY NextKeepsPromise
<1>3. QED
  BY <1>1, <1>2, SpecIInv, PTL DEF Spec, KeepsPromise, Promise!Spec

=============================================================================
