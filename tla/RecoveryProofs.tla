--------------------------- MODULE RecoveryProofs ---------------------------
(***************************************************************************)
(* Proof that two clients that trust each other are connected again within *)
(* a fixed time after the last disturbance, for any durations and any      *)
(* number of disturbances, except notifications that come late or never.   *)
(*                                                                         *)
(* The way there: every variable has its type (SystemTypeCorrect), nobody  *)
(* is mistaken about who is behind an address or a session                 *)
(* (AddressesAreNotMixedUp), a hole punch that begins on one side begins   *)
(* on the other too (BothFollow), every wait has a bound                   *)
(* (WaitsAreBounded), and from then on the two pass through the stages of  *)
(* Recovering, while TimeLeft covers what the stage may still take.        *)
(***************************************************************************)
EXTENDS UdpSystemProofs, FiniteSetTheorems

TwoClients == \E a, b : a # b /\ Clients = {a, b}

\* Addresses and sessions do not run out, and the other constants are what they stand for.
SystemAssumption ==
    /\ TwoClients /\ Clients \subseteq PublicKeys
    /\ Ids \subseteq Nat /\ ~IsFiniteSet(Ids)
    /\ Ids \subseteq Addrs /\ Ids \subseteq Sessions
    /\ \A c \in Clients : <<Other(c)>> \in PeerLists
    /\ MAX_PUBKEYS \in Nat \ {0}
    /\ RequestInterval \in Nat \ {0} /\ PunchTime \in Nat \ {0} /\ DetectTime \in Nat
    /\ MaxFaults \in Nat /\ RecoveryTime \in Nat

LEMMA Others ==
    ASSUME SystemAssumption, NEW c \in Clients
    PROVE  /\ Other(c) \in Clients /\ Other(c) # c /\ Other(Other(c)) = c
           /\ \A e \in Clients : e = c \/ e = Other(c)
<1>1. PICK a, b : a # b /\ Clients = {a, b}
  BY DEF SystemAssumption, TwoClients
<1>2. \A x \in Clients : Other(x) \in Clients /\ Other(x) # x
  BY <1>1 DEF Other
<1>3. QED
  BY <1>1, <1>2

LEMMA ClientsAreFinite == ASSUME SystemAssumption PROVE IsFiniteSet(Clients)
<1>1. PICK a, b : Clients = {a, b}
  BY DEF SystemAssumption, TwoClients
<1>2. IsFiniteSet({a}) /\ {a} \cup {b} = {a, b}
  BY FS_Singleton
<1>3. QED
  BY <1>1, <1>2, FS_AddElement

----------------------------------------------------------------------------
(* The state: slots, datagrams, clients *)

\* A client can only wait for the other one.
Waits(c) == HasSlot(requests, c, Other(c))
Slot(c) == requests[c][Other(c)]

SlotData(r, c) ==
    /\ SlotOf(r, c)
    /\ r.requester_addr \in Ids /\ r.requester_session_id \in Ids
    /\ r.tm \in Int /\ r.tm <= 0

SlotsAreOrdinary ==
    /\ DOMAIN requests \subseteq Clients
    /\ \A c \in DOMAIN requests :
         /\ requests[c] = [b \in DOMAIN requests[c] |-> requests[c][b]]
         /\ DOMAIN requests[c] \subseteq {Other(c)}
         /\ \A b \in DOMAIN requests[c] : SlotData(requests[c][b], c)

RememberedIsOther ==
    /\ DOMAIN last_session_ids \subseteq Clients
    /\ last_session_ids = [c \in DOMAIN last_session_ids |-> last_session_ids[c]]
    /\ \A c \in DOMAIN last_session_ids :
         LET r == last_session_ids[c] IN
         /\ r = [session_id |-> r.session_id, remote_addr |-> r.remote_addr,
                 remote_peer |-> Other(c)]
         /\ r.session_id \in Ids /\ r.remote_addr \in Ids

\* A notification: to an address, about a client at an address, under a session.
Note(to, about, at, under, flag) ==
    [to |-> "client", addr |-> to, garbled |-> FALSE, bytes |-> <<1, about, at, under, flag>>]
About(n) == n.bytes[2]
At(n) == n.bytes[3]
Under(n) == n.bytes[4]

IsNote(n) ==
    \E to \in Ids, about \in Clients, at \in Ids, under \in Ids, flag \in {0, 1} :
        n = Note(to, about, at, under, flag)

\* A request: from a client, under a session, signed at a time.
From(m) == m.bytes[5]
FromSession(m) == m.bytes[7]
SignedAt(m) == m.bytes[3]

AskData(m) ==
    /\ m.addr \in Ids /\ FromSession(m) \in Ids
    /\ SignedAt(m) \in Int /\ SignedAt(m) <= 0

OnTheWay == wire \cup delayed
IsAsk(m) == m.to = "server" /\ ~m.garbled

DatagramsAreOrdinary ==
    /\ \A m \in OnTheWay :
         /\ m.to # "server" => IsNote(m)
         /\ IsAsk(m) => AskData(m)
    /\ IsFiniteSet(wire) /\ IsFiniteSet(delayed)

ClientsAreOrdinary ==
    /\ mode \in [Clients -> {"off", "polling", "punching", "connected"}]
    /\ socket \in [Clients -> {Never} \cup Ids]
    /\ session \in [Clients -> {NoSession} \cup Ids]
    /\ accepted \in [Clients -> {NoSession} \cup Ids]
    /\ \A c \in Clients :
         IF mode[c] = "off" THEN socket[c] = Never /\ session[c] = NoSession
                            ELSE socket[c] \in Ids /\ session[c] \in Ids
    /\ last \in [Clients -> {Never} \cup 0 .. RequestInterval]
    /\ retry \in [Clients -> 1 .. 50]
    /\ wait \in [Clients -> Nat]
    /\ match \in [Clients -> [own : {Never} \cup Ids, remote : {Never} \cup Ids]]
    /\ faults \in 0 .. MaxFaults /\ calm \in Nat

Ordinary ==
    /\ now = 0
    /\ SlotsAreOrdinary /\ RememberedIsOther
    /\ Authentic /\ DatagramsAreOrdinary
    /\ ClientsAreOrdinary

LEMMA NoteFields ==
    ASSUME NEW n, IsNote(n)
    PROVE  /\ n.to = "client" /\ ~n.garbled /\ n.addr \in Ids
           /\ About(n) \in Clients /\ At(n) \in Ids /\ Under(n) \in Ids
           /\ IsInitiate(n.bytes)
           /\ ParseInitiate(n.bytes).peer_pubkey = About(n)
           /\ ParseInitiate(n.bytes).peer_address = At(n)
           /\ ParseInitiate(n.bytes).remote_session_id = Under(n)
           /\ 3 \in DOMAIN n.bytes /\ 4 \in DOMAIN n.bytes
<1>1. PICK to \in Ids, about \in Clients, at \in Ids, under \in Ids, flag \in {0, 1} :
        n = Note(to, about, at, under, flag)
  BY DEF IsNote
<1>2. PICK b : b = <<1, about, at, under, flag>>
  OBVIOUS
<1>3. /\ Len(b) = 5 /\ b[1] = 1 /\ b[2] = about /\ b[3] = at /\ b[4] = under
      /\ 3 \in DOMAIN b /\ 4 \in DOMAIN b
  BY <1>2
<1>4. n = [to |-> "client", addr |-> to, garbled |-> FALSE, bytes |-> b]
  BY <1>1, <1>2 DEF Note
<1>5. /\ n.to = "client" /\ ~n.garbled /\ n.addr = to /\ n.bytes = b
  BY <1>4
<1>6. About(n) = about /\ At(n) = at /\ Under(n) = under /\ IsInitiate(n.bytes)
  <2>1. Len(b) >= 5
    BY <1>3
  <2>2. QED
    BY <1>3, <1>5, <2>1, Zenon DEF About, At, Under, IsInitiate
<1>7. PICK i : i = ParseInitiate(n.bytes)
  OBVIOUS
<1>8. i.peer_pubkey = About(n) /\ i.peer_address = At(n) /\ i.remote_session_id = Under(n)
  BY <1>7 DEF ParseInitiate, About, At, Under
<1>9. QED
  BY <1>3, <1>5, <1>6, <1>7, <1>8

\* to_bytes and try_parse of an InitiateConnectionRequest: what the server writes is what
\* the client reads.
THEOREM NotificationsAreRead ==
    ASSUME NEW m \in InitiateConnectionRequest
    PROVE  LET b == EncodeNotification(m) IN
           /\ IsInitiate(b)
           /\ ParseInitiate(b) =
                [peer_pubkey |-> m.peer_pubkey, peer_address |-> m.peer_address,
                 remote_session_id |-> m.remote_session_id, is_listener |-> m.is_listener]
<1>1. PICK flag : flag = IF m.is_listener THEN 1 ELSE 0
  OBVIOUS
<1>2. PICK b : b = <<1, m.peer_pubkey, m.peer_address, m.remote_session_id, flag>>
  OBVIOUS
<1>3. EncodeNotification(m) = b
  BY <1>1, <1>2 DEF EncodeNotification, InitiateConnectionRequest
<1>4. /\ Len(b) = 5 /\ b[1] = 1 /\ b[2] = m.peer_pubkey /\ b[3] = m.peer_address
      /\ b[4] = m.remote_session_id /\ b[5] = flag
  BY <1>2
<1>5. (b[5] = 1) = m.is_listener
  BY <1>1, <1>4 DEF InitiateConnectionRequest
<1>6. QED
  BY <1>3, <1>4, <1>5 DEF IsInitiate, ParseInitiate

\* An intact request has nine fields, and its sender is a client.
LEMMA AskLength ==
    ASSUME Authentic, NEW m \in OnTheWay, IsAsk(m)
    PROVE  /\ Intact(m.bytes) /\ IsMessage(m) /\ From(m) \in Clients
           /\ \E S : m.bytes \in Seq(S)
           /\ Len(m.bytes) = 9 /\ 7 \in DOMAIN m.bytes
<1>1. Intact(m.bytes) /\ IsMessage(m)
  BY DEF OnTheWay, IsAsk, Authentic, WireIsAuthentic, DelayedIsAuthentic
<1>2. PICK b : b = m.bytes
  OBVIOUS
<1>3. PICK K, peers : peers \in Seq(K) /\ Len(peers) = 1 /\ peers = <<Other(b[5])>>
  <2>1. <<Other(b[5])>> \in Seq({Other(b[5])}) /\ Len(<<Other(b[5])>>) = 1
    OBVIOUS
  <2>2. QED
    BY <2>1, Zenon
<1>4. HasFields(b, b[5], b[3], b[7], peers)
  <2>1. b = EncodeRequest(b[5], b[3], b[7], peers)
    BY <1>1, <1>2, <1>3, Zenon DEF Intact
  <2>2. QED
    BY <1>3, <2>1, EncodedFields, Zenon
<1>5. (\E S : b \in Seq(S)) /\ Len(b) = 9
  BY <1>3, <1>4 DEF HasFields
<1>6. 7 \in DOMAIN b
  BY <1>5
<1>7. QED
  BY <1>1, <1>2, <1>5, <1>6 DEF From, Intact

----------------------------------------------------------------------------
(* What is drawn at random is new *)

LEMMA ImageIsFinite ==
    ASSUME NEW S, IsFiniteSet(S), NEW f, NEW T, T \subseteq {f[x] : x \in S}
    PROVE  IsFiniteSet(T)
<1> DEFINE R == {f[x] : x \in S}
           g == [x \in S |-> f[x]]
<1>1. g \in Surjection(S, R)
  BY DEF Surjection
<1>2. IsFiniteSet(R)
  BY <1>1, FS_Surjection, Zenon
<1>3. QED
  BY <1>2, FS_Subset

LEMMA SpareId ==
    ASSUME SystemAssumption, NEW E, IsFiniteSet(E)
    PROVE  \E i \in Ids : i \notin E
<1>1. SUFFICES ASSUME Ids \subseteq E PROVE FALSE
  OBVIOUS
<1>2. IsFiniteSet(Ids)
  BY <1>1, FS_Subset
<1>3. QED
  BY <1>2 DEF SystemAssumption

LEMMA SlotsOfClients ==
    ASSUME SlotsAreOrdinary
    PROVE  /\ \A r \in Slots : \E c \in Clients : Waits(c) /\ r = Slot(c)
           /\ \A c \in Clients : Waits(c) => Slot(c) \in Slots
<1>1. ASSUME NEW r \in Slots PROVE \E c \in Clients : Waits(c) /\ r = Slot(c)
  <2>1. PICK a \in DOMAIN requests : r \in Range(requests[a])
    BY DEF Slots
  <2>2. PICK b \in DOMAIN requests[a] : r = requests[a][b]
    BY <2>1 DEF Range
  <2>3. a \in Clients /\ b = Other(a)
    BY <2>2 DEF SlotsAreOrdinary
  <2>4. QED
    BY <2>2, <2>3 DEF Waits, Slot, HasSlot
<1>2. ASSUME NEW c \in Clients, Waits(c) PROVE Slot(c) \in Slots
  <2>1. c \in DOMAIN requests /\ Slot(c) \in Range(requests[c])
    BY <1>2 DEF Waits, Slot, HasSlot, Range
  <2>2. QED
    BY <2>1 DEF Slots
<1>3. QED
  BY <1>1, <1>2

LEMMA FieldsAreFinite ==
    ASSUME DatagramsAreOrdinary, NEW to, NEW i
    PROVE  IsFiniteSet(Fields(to, i))
<1>1. IsFiniteSet(wire \cup delayed)
  BY FS_Union DEF DatagramsAreOrdinary
<1>2. PICK f : f = [m \in wire \cup delayed |-> m.bytes[i]]
  OBVIOUS
<1>3. Fields(to, i) \subseteq {f[m] : m \in wire \cup delayed}
  BY <1>2 DEF Fields
<1>4. QED
  BY <1>1, <1>3, ImageIsFinite

\* A session drawn at random is one that no client, slot or datagram has.
LEMMA SessionIsNew ==
    ASSUME SystemAssumption, Ordinary
    PROVE  /\ NewSession \in Ids
           /\ \A c \in Clients : session[c] # NewSession /\ accepted[c] # NewSession
           /\ \A c \in Clients : Waits(c) => Slot(c).requester_session_id # NewSession
           /\ \A c \in DOMAIN last_session_ids : last_session_ids[c].session_id # NewSession
           /\ \A m \in OnTheWay :
                /\ IsAsk(m) => FromSession(m) # NewSession
                /\ m.to # "server" => Under(m) # NewSession
<1> DEFINE E1 == Range(session)
           E2 == Range(accepted)
           E3 == {r.requester_session_id : r \in Slots}
           E4 == {r.session_id : r \in Range(last_session_ids)}
           E5 == Fields("server", 7)
           E6 == Fields("client", 4)
           E == E1 \cup E2 \cup E3 \cup E4 \cup E5 \cup E6
<1>1. IsFiniteSet(E1) /\ IsFiniteSet(E2)
  <2>1. E1 \subseteq {session[c] : c \in Clients} /\ E2 \subseteq {accepted[c] : c \in Clients}
    BY DEF Range, Ordinary, ClientsAreOrdinary
  <2>2. QED
    BY <2>1, ImageIsFinite, ClientsAreFinite
<1>2. IsFiniteSet(E3)
  <2>1. PICK f : f = [c \in Clients |-> Slot(c).requester_session_id]
    OBVIOUS
  <2>2. E3 \subseteq {f[c] : c \in Clients}
    BY <2>1, SlotsOfClients DEF Ordinary
  <2>3. QED
    BY <2>2, ImageIsFinite, ClientsAreFinite
<1>3. IsFiniteSet(E4)
  <2>1. PICK f : f = [c \in Clients |-> last_session_ids[c].session_id]
    OBVIOUS
  <2>2. E4 \subseteq {f[c] : c \in Clients}
    BY <2>1 DEF Range, Ordinary, RememberedIsOther
  <2>3. QED
    BY <2>2, ImageIsFinite, ClientsAreFinite
<1>4. IsFiniteSet(E5) /\ IsFiniteSet(E6)
  BY FieldsAreFinite DEF Ordinary
<1>5. IsFiniteSet(E)
  <2> HIDE DEF E1, E2, E3, E4, E5, E6
  <2>1. IsFiniteSet(E1 \cup E2)
    BY <1>1, FS_Union
  <2>2. IsFiniteSet(E1 \cup E2 \cup E3)
    BY <1>2, <2>1, FS_Union
  <2>3. IsFiniteSet(E1 \cup E2 \cup E3 \cup E4)
    BY <1>3, <2>2, FS_Union
  <2>4. IsFiniteSet(E1 \cup E2 \cup E3 \cup E4 \cup E5)
    BY <1>4, <2>3, FS_Union
  <2>5. QED
    BY <1>4, <2>4, FS_Union
<1>6. NewSession \in Ids /\ NewSession \notin E
  <2>1. NewSession = CHOOSE s \in Ids : s \notin E
    BY DEF NewSession
  <2> HIDE DEF E
  <2>2. QED
    BY <1>5, <2>1, SpareId
<1>7. \A c \in Clients : session[c] \in E1 /\ accepted[c] \in E2
  BY DEF Range, Ordinary, ClientsAreOrdinary
<1>8. \A c \in Clients : Waits(c) => Slot(c).requester_session_id \in E3
  BY SlotsOfClients DEF Ordinary
<1>9. \A c \in DOMAIN last_session_ids : last_session_ids[c].session_id \in E4
  BY DEF Range
<1>10. ASSUME NEW m \in OnTheWay, IsAsk(m) PROVE FromSession(m) \in E5
  <2>1. m \in wire \cup delayed /\ m.to = "server" /\ 7 \in DOMAIN m.bytes
    BY <1>10, AskLength DEF OnTheWay, IsAsk, Ordinary
  <2>2. QED
    BY <2>1 DEF Fields, FromSession
<1>11. ASSUME NEW m \in OnTheWay, m.to # "server" PROVE Under(m) \in E6
  <2>1. m \in wire \cup delayed /\ m.to = "client" /\ 4 \in DOMAIN m.bytes
    BY <1>11, NoteFields DEF OnTheWay, Ordinary, DatagramsAreOrdinary
  <2>2. QED
    BY <2>1 DEF Fields, Under
<1> HIDE DEF E1, E2, E3, E4, E5, E6
<1>12. QED
  BY <1>6, <1>7, <1>8, <1>9, <1>10, <1>11

\* The address of a new socket is one that nobody has.
LEMMA SocketIsNew ==
    ASSUME SystemAssumption, Ordinary
    PROVE  /\ NewSocket \in Ids
           /\ \A c \in Clients : /\ socket[c] # NewSocket
                                 /\ match[c].own # NewSocket /\ match[c].remote # NewSocket
           /\ \A c \in Clients : Waits(c) => Slot(c).requester_addr # NewSocket
           /\ \A c \in DOMAIN last_session_ids : last_session_ids[c].remote_addr # NewSocket
           /\ \A m \in OnTheWay :
                /\ m.addr # NewSocket
                /\ m.to # "server" => At(m) # NewSocket
<1> DEFINE E1 == Range(socket)
           E2 == UNION {{m.own, m.remote} : m \in Range(match)}
           E3 == {r.requester_addr : r \in Slots}
           E4 == {r.remote_addr : r \in Range(last_session_ids)}
           E5 == {m.addr : m \in wire \cup delayed}
           E6 == Fields("client", 3)
           E == E1 \cup E2 \cup E3 \cup E4 \cup E5 \cup E6
<1>1. IsFiniteSet(E1) /\ IsFiniteSet(E2)
  <2>1. PICK f, g : /\ f = [c \in Clients |-> match[c].own]
                    /\ g = [c \in Clients |-> match[c].remote]
    OBVIOUS
  <2>2. /\ E1 \subseteq {socket[c] : c \in Clients}
        /\ E2 \subseteq {f[c] : c \in Clients} \cup {g[c] : c \in Clients}
    BY <2>1 DEF Range, Ordinary, ClientsAreOrdinary
  <2>3. IsFiniteSet({f[c] : c \in Clients}) /\ IsFiniteSet({g[c] : c \in Clients})
    BY ImageIsFinite, ClientsAreFinite
  <2>4. IsFiniteSet({f[c] : c \in Clients} \cup {g[c] : c \in Clients})
    BY <2>3, FS_Union
  <2>5. IsFiniteSet(E2)
    BY <2>2, <2>4, FS_Subset
  <2>6. QED
    BY <2>2, <2>5, ImageIsFinite, ClientsAreFinite
<1>2. IsFiniteSet(E3)
  <2>1. PICK f : f = [c \in Clients |-> Slot(c).requester_addr]
    OBVIOUS
  <2>2. E3 \subseteq {f[c] : c \in Clients}
    BY <2>1, SlotsOfClients DEF Ordinary
  <2>3. QED
    BY <2>2, ImageIsFinite, ClientsAreFinite
<1>3. IsFiniteSet(E4)
  <2>1. PICK f : f = [c \in Clients |-> last_session_ids[c].remote_addr]
    OBVIOUS
  <2>2. E4 \subseteq {f[c] : c \in Clients}
    BY <2>1 DEF Range, Ordinary, RememberedIsOther
  <2>3. QED
    BY <2>2, ImageIsFinite, ClientsAreFinite
<1>4. IsFiniteSet(E5) /\ IsFiniteSet(E6)
  <2>1. IsFiniteSet(wire \cup delayed)
    BY FS_Union DEF Ordinary, DatagramsAreOrdinary
  <2>2. PICK f : f = [m \in wire \cup delayed |-> m.addr]
    OBVIOUS
  <2>3. E5 \subseteq {f[m] : m \in wire \cup delayed}
    BY <2>2
  <2>4. QED
    BY <2>1, <2>3, ImageIsFinite, FieldsAreFinite DEF Ordinary
<1>5. IsFiniteSet(E)
  <2> HIDE DEF E1, E2, E3, E4, E5, E6
  <2>1. IsFiniteSet(E1 \cup E2)
    BY <1>1, FS_Union
  <2>2. IsFiniteSet(E1 \cup E2 \cup E3)
    BY <1>2, <2>1, FS_Union
  <2>3. IsFiniteSet(E1 \cup E2 \cup E3 \cup E4)
    BY <1>3, <2>2, FS_Union
  <2>4. IsFiniteSet(E1 \cup E2 \cup E3 \cup E4 \cup E5)
    BY <1>4, <2>3, FS_Union
  <2>5. QED
    BY <1>4, <2>4, FS_Union
<1>6. NewSocket \in Ids /\ NewSocket \notin E
  <2>1. NewSocket = CHOOSE s \in Ids : s \notin E
    BY DEF NewSocket
  <2> HIDE DEF E
  <2>2. QED
    BY <1>5, <2>1, SpareId
<1>7. \A c \in Clients : socket[c] \in E1 /\ match[c].own \in E2 /\ match[c].remote \in E2
  BY DEF Range, Ordinary, ClientsAreOrdinary
<1>8. \A c \in Clients : Waits(c) => Slot(c).requester_addr \in E3
  BY SlotsOfClients DEF Ordinary
<1>9. \A c \in DOMAIN last_session_ids : last_session_ids[c].remote_addr \in E4
  BY DEF Range
<1>10. \A m \in OnTheWay : m.addr \in E5
  BY DEF OnTheWay
<1>11. ASSUME NEW m \in OnTheWay, m.to # "server" PROVE At(m) \in E6
  <2>1. m \in wire \cup delayed /\ m.to = "client" /\ 3 \in DOMAIN m.bytes
    BY <1>11, NoteFields DEF OnTheWay, Ordinary, DatagramsAreOrdinary
  <2>2. QED
    BY <2>1 DEF Fields, At
<1> HIDE DEF E1, E2, E3, E4, E5, E6
<1>12. QED
  BY <1>6, <1>7, <1>8, <1>9, <1>10, <1>11


----------------------------------------------------------------------------
(* What the server does with a request *)

\* The server reads what the client wrote.
LEMMA AskIsRead ==
    ASSUME SystemAssumption, Ordinary, NEW m \in OnTheWay, IsAsk(m)
    PROVE  /\ IsRequest(m.bytes)
           /\ ParseRequest(m.bytes, m.addr) =
                [sender |-> From(m), addr |-> m.addr, session |-> FromSession(m),
                 peers |-> <<Other(From(m))>>, tm |-> SignedAt(m)]
<1>1. From(m) \in Clients /\ Intact(m.bytes)
  BY AskLength DEF Ordinary
<1>2. From(m) \in PublicKeys /\ Other(From(m)) \in PublicKeys /\ SignedAt(m) \in Int
  BY <1>1, Others DEF SystemAssumption, Ordinary, DatagramsAreOrdinary, AskData
<1>3. PICK peers : peers = <<Other(From(m))>>
  OBVIOUS
<1>4. peers \in Seq(PublicKeys) /\ CanEncode(peers)
  BY <1>2, <1>3 DEF CanEncode, SystemAssumption
<1>5. m.bytes = EncodeRequest(From(m), SignedAt(m), FromSession(m), peers)
  BY <1>1, <1>3, Zenon DEF Intact, From, SignedAt, FromSession
<1>6. /\ IsRequest(m.bytes)
      /\ ParseRequest(m.bytes, m.addr) =
           [sender |-> From(m), addr |-> m.addr, session |-> FromSession(m),
            peers |-> peers, tm |-> SignedAt(m)]
  <2>1. PICK key \in PublicKeys, tm \in Int : key = From(m) /\ tm = SignedAt(m)
    BY <1>2
  <2>2. PICK sid, b : sid = FromSession(m) /\ b = m.bytes
    OBVIOUS
  <2>3. b = EncodeRequest(key, tm, sid, peers)
    BY <1>5, <2>1, <2>2
  <2>4. /\ IsRequest(b)
        /\ ParseRequest(b, m.addr) = [sender |-> key, addr |-> m.addr, session |-> sid,
                                      peers |-> peers, tm |-> tm]
    <3>1. /\ IsRequest(EncodeRequest(key, tm, sid, peers))
          /\ ParseRequest(EncodeRequest(key, tm, sid, peers), m.addr) =
               [sender |-> key, addr |-> m.addr, session |-> sid, peers |-> peers, tm |-> tm]
      BY <1>4, RequestsAreRead
    <3>2. QED
      BY <2>3, <3>1, Zenon
  <2>5. QED
    BY <2>1, <2>2, <2>4, Zenon
<1>7. QED
  BY <1>3, <1>6

\* The server never finds that a client repeats the session it remembers for it.
NothingIsRepeated ==
    \A m \in OnTheWay : IsAsk(m) /\ From(m) \in DOMAIN last_session_ids =>
        last_session_ids[From(m)].session_id # FromSession(m)

\* The slot of the other client is there and has not expired.
Matches(d) == Waits(d) /\ now - Slot(d).tm < REQUEST_TIMEOUT_S

\* The two are introduced to each other.
Introduce(m, c, d) ==
    /\ Matches(d)
    /\ Notifications =
         {Note(Slot(d).requester_addr, c, m.addr, FromSession(m), 0),
          Note(m.addr, d, Slot(d).requester_addr, Slot(d).requester_session_id, 1)}
    /\ SubMap(requests', requests)
    /\ ~Waits(c)' /\ ~Waits(d)'
    /\ last_session_ids' =
         Insert(last_session_ids, c, [session_id |-> Slot(d).requester_session_id,
                                      remote_addr |-> Slot(d).requester_addr,
                                      remote_peer |-> d])

\* The client waits for the other one.
WaitFor(m, c, d) ==
    /\ ~Matches(d)
    /\ Notifications = {}
    /\ \A a \in DOMAIN requests' : a = c \/ (a \in DOMAIN requests /\
           DOMAIN requests'[a] # {} /\ DOMAIN requests'[a] \subseteq DOMAIN requests[a] /\
           requests'[a] = [b \in DOMAIN requests'[a] |-> requests[a][b]])
    /\ c \in DOMAIN requests'
    /\ requests'[c] =
         [b \in {d} |-> [requester_pubkey |-> c, requester_addr |-> m.addr,
                         requester_session_id |-> FromSession(m), tm |-> now]]
    /\ ~Waits(d)'
    /\ last_session_ids' = last_session_ids

Served(m, c, d) ==
    /\ wire' = (wire \ {m}) \cup Notifications
    /\ UNCHANGED <<now, clientVars, delayed, faults, calm>>
    /\ Introduce(m, c, d) \/ WaitFor(m, c, d)

LEMMA ServeEffect ==
    ASSUME SystemAssumption, Ordinary, NothingIsRepeated, NEW m \in wire, Serve(m)
    PROVE  /\ IsAsk(m) /\ From(m) \in Clients
           /\ Served(m, From(m), Other(From(m)))
<1>1. IsAsk(m) /\ m \in OnTheWay
  <2>1. ~m.garbled
    BY DEF Serve, Ordinary, Authentic, WireIsAuthentic
  <2>2. QED
    BY <2>1 DEF Serve, IsAsk, OnTheWay
<1>2. PICK c \in Clients, d \in Clients : c = From(m) /\ d = Other(c) /\ c # d /\ c = Other(d)
  BY <1>1, AskLength, Others DEF Ordinary
<1>3. PICK r : r = ParseRequest(m.bytes, m.addr)
  OBVIOUS
<1>4. /\ r.sender = c /\ r.addr = m.addr /\ r.session = FromSession(m)
      /\ r.peers = <<d>> /\ DOMAIN r.peers = {1} /\ r.peers[1] = d /\ Range(r.peers) = {d}
  <2>1. r = [sender |-> c, addr |-> m.addr, session |-> FromSession(m),
             peers |-> <<d>>, tm |-> SignedAt(m)]
    BY <1>1, <1>2, <1>3, AskIsRead, Zenon
  <2>2. r.sender = c /\ r.addr = m.addr /\ r.session = FromSession(m) /\ r.peers = <<d>>
    BY <2>1
  <2>3. DOMAIN <<d>> = {1} /\ <<d>>[1] = d /\ Range(<<d>>) = {d}
    BY DEF Range
  <2>4. QED
    BY <2>2, <2>3
<1>5. Handle(r) /\ wire' = (wire \ {m}) \cup Notifications
      /\ UNCHANGED <<clientVars, delayed, faults, calm>>
  BY <1>3 DEF Serve
<1>6. now' = now
  BY <1>5 DEF Handle, ReportLost, MatchRequest, PlaceRequest
<1>7. ~ReportLost(r)
  BY <1>1, <1>2, <1>4 DEF ReportLost, RepeatsActiveSession, NothingIsRepeated
<1>8. CASE MatchRequest(r)
  <2>1. PICK p, pending :
             /\ HasSlot(requests, p, r.sender)
             /\ pending = requests[p][r.sender]
             /\ p \in Range(r.peers)
             /\ now - pending.tm < REQUEST_TIMEOUT_S
             /\ sent' = {ToOriginal(r, pending), ToNew(r, pending)}
             /\ last_session_ids' =
                    Insert(last_session_ids, r.sender, RememberedSession(r, pending))
             /\ SubMap(requests', requests)
             /\ r.sender \notin DOMAIN requests'
             /\ ~HasSlot(requests', p, r.sender)
    BY <1>8, MatchRequestTakes, Zenon
  <2>2. p = d /\ pending = Slot(d) /\ Matches(d)
    BY <1>2, <1>4, <2>1 DEF Matches, Waits, Slot
  <2>3. ~Waits(c)' /\ ~Waits(d)'
    BY <1>2, <1>4, <2>1, <2>2 DEF Waits, HasSlot
  <2>4. pending.requester_pubkey = d
    <3>1. SlotOf(pending, d)
      BY <1>2, <2>2 DEF Matches, Waits, Slot, HasSlot, Ordinary, SlotsAreOrdinary, SlotData
    <3>2. QED
      BY <3>1 DEF SlotOf
  <2>5. PICK s, t :
          /\ s = [type |-> "Initiate", to |-> pending.requester_addr, peer_pubkey |-> c,
                  peer_address |-> m.addr, remote_session_id |-> FromSession(m),
                  is_listener |-> FALSE]
          /\ t = [type |-> "Initiate", to |-> m.addr, peer_pubkey |-> d,
                  peer_address |-> pending.requester_addr,
                  remote_session_id |-> pending.requester_session_id, is_listener |-> TRUE]
    OBVIOUS
  <2>6. sent' = {s, t}
    BY <1>4, <2>1, <2>4, <2>5 DEF ToOriginal, ToNew
  <2>7. /\ s.to = pending.requester_addr /\ t.to = m.addr
        /\ EncodeNotification(s) = <<1, c, m.addr, FromSession(m), 0>>
        /\ EncodeNotification(t) = <<1, d, pending.requester_addr,
                                     pending.requester_session_id, 1>>
    BY <2>5 DEF EncodeNotification
  <2>8. Notifications =
          {[to |-> "client", addr |-> s.to, garbled |-> FALSE, bytes |-> EncodeNotification(s)],
           [to |-> "client", addr |-> t.to, garbled |-> FALSE, bytes |-> EncodeNotification(t)]}
    BY <2>6 DEF Notifications
  <2>9. Notifications =
          {Note(Slot(d).requester_addr, c, m.addr, FromSession(m), 0),
           Note(m.addr, d, Slot(d).requester_addr, Slot(d).requester_session_id, 1)}
    BY <2>2, <2>7, <2>8, Zenon DEF Note
  <2>10. RememberedSession(r, pending) = [session_id |-> Slot(d).requester_session_id,
                                          remote_addr |-> Slot(d).requester_addr,
                                          remote_peer |-> d]
    BY <2>2, <2>4 DEF RememberedSession
  <2>11. Introduce(m, c, d)
    BY <1>4, <2>1, <2>2, <2>3, <2>9, <2>10 DEF Introduce
  <2>12. QED
    BY <1>1, <1>2, <1>5, <1>6, <2>11 DEF Served
<1>9. CASE PlaceRequest(r)
  <2>1. PICK live : live = Cleanup(requests)
    OBVIOUS
  <2>2. /\ requests' = Insert(live, c, SlotsOf(r)) /\ sent' = {}
        /\ ~HasSlot(live, d, c) /\ last_session_ids' = last_session_ids
    BY <1>4, <1>9, <2>1 DEF PlaceRequest
  <2>3. ~Matches(d)
    BY <1>2, <2>1, <2>2 DEF Matches, Waits, Slot, HasSlot, Cleanup, Unexpired, Restrict
  <2>4. Notifications = {}
    BY <2>2 DEF Notifications
  <2>5. SubMap(live, requests)
    BY <2>1, CleanupSubMap
  <2>6. /\ DOMAIN requests' = DOMAIN live \cup {c} /\ requests'[c] = SlotsOf(r)
        /\ \A a \in DOMAIN live : a # c => requests'[a] = live[a]
    BY <2>2 DEF Insert
  <2>7. SlotsOf(r) =
         [b \in {d} |-> [requester_pubkey |-> c, requester_addr |-> m.addr,
                         requester_session_id |-> FromSession(m), tm |-> now]]
    BY <1>4 DEF SlotsOf
  <2>8. ~Waits(d)'
    BY <1>2, <2>2, <2>6 DEF Waits, HasSlot
  <2>9. WaitFor(m, c, d)
    <3>1. ASSUME NEW a \in DOMAIN requests', a # c
          PROVE  /\ a \in DOMAIN requests
                 /\ DOMAIN requests'[a] # {} /\ DOMAIN requests'[a] \subseteq DOMAIN requests[a]
                 /\ requests'[a] = [b \in DOMAIN requests'[a] |-> requests[a][b]]
      BY <2>5, <2>6, <3>1 DEF SubMap
    <3>2. QED
      BY <2>2, <2>3, <2>4, <2>6, <2>7, <2>8, <3>1 DEF WaitFor
  <2>10. QED
    BY <1>1, <1>2, <1>5, <1>6, <2>9 DEF Served
<1>10. QED
  BY <1>5, <1>7, <1>8, <1>9 DEF Handle

----------------------------------------------------------------------------
(* Ordinary is kept: the server *)

LEMMA InitIsOrdinary ==
    ASSUME SystemAssumption, SysInit
    PROVE  Ordinary
<1>1. now = 0 /\ requests = [k \in {} |-> {}] /\ last_session_ids = [k \in {} |-> {}]
  BY DEF SysInit, Init
<1>2. SlotsAreOrdinary /\ RememberedIsOther
  BY <1>1 DEF SlotsAreOrdinary, RememberedIsOther
<1>3. DatagramsAreOrdinary
  BY FS_EmptySet DEF SysInit, DatagramsAreOrdinary, OnTheWay
<1>4. ClientsAreOrdinary
  <2>1. NoMatch \in [own : {Never} \cup Ids, remote : {Never} \cup Ids]
    BY DEF NoMatch
  <2>2. QED
    BY <2>1 DEF SysInit, ClientsAreOrdinary, SystemAssumption
<1>5. QED
  BY <1>1, <1>2, <1>3, <1>4, InitIsAuthentic DEF Ordinary

LEMMA SlotsOrdinaryRecord ==
    ASSUME NEW c, NEW a \in Ids, NEW s \in Ids
    PROVE  SlotData([requester_pubkey |-> c, requester_addr |-> a,
                     requester_session_id |-> s, tm |-> 0], c)
<1>1. PICK r : r = [requester_pubkey |-> c, requester_addr |-> a,
                    requester_session_id |-> s, tm |-> 0]
  OBVIOUS
<1>2. /\ r.requester_pubkey = c /\ r.requester_addr = a /\ r.requester_session_id = s
      /\ r.tm = 0
  BY <1>1
<1>3. SlotData(r, c)
  BY <1>1, <1>2 DEF SlotData, SlotOf
<1>4. QED
  BY <1>1, <1>3

LEMMA ServeKeepsServer ==
    ASSUME SystemAssumption, Ordinary, NEW m \in wire, IsAsk(m),
           NEW c \in Clients, c = From(m), Served(m, c, Other(c))
    PROVE  SlotsAreOrdinary' /\ RememberedIsOther'
<1>1. PICK d \in Clients : d = Other(c)
  BY Others
<1>2. m.addr \in Ids /\ FromSession(m) \in Ids /\ now = 0
  BY DEF Ordinary, DatagramsAreOrdinary, AskData, OnTheWay
<1>3. CASE Introduce(m, c, d)
  <2>1. Slot(d).requester_addr \in Ids /\ Slot(d).requester_session_id \in Ids
    BY <1>1, <1>3
       DEF Introduce, Matches, Waits, Slot, HasSlot, Ordinary, SlotsAreOrdinary, SlotData
  <2>2. SlotsAreOrdinary'
    <3>1. SubMap(requests', requests)
      BY <1>3 DEF Introduce
    <3>2. SlotsAreOrdinary
      BY DEF Ordinary
    <3>3. QED
      BY <3>1, <3>2 DEF SubMap, SlotsAreOrdinary, SlotData, SlotOf
  <2>3. PICK r : r = [session_id |-> Slot(d).requester_session_id,
                      remote_addr |-> Slot(d).requester_addr, remote_peer |-> d]
    OBVIOUS
  <2>4. r.session_id \in Ids /\ r.remote_addr \in Ids
        /\ r = [session_id |-> r.session_id, remote_addr |-> r.remote_addr, remote_peer |-> d]
    BY <2>1, <2>3
  <2>5. last_session_ids' = Insert(last_session_ids, c, r)
    BY <1>3, <2>3 DEF Introduce
  <2>6. RememberedIsOther'
    BY <1>1, <2>4, <2>5 DEF Ordinary, RememberedIsOther, Insert
  <2>7. QED
    BY <2>2, <2>6
<1>4. CASE WaitFor(m, c, d)
  <2>1. PICK r : r = [requester_pubkey |-> c, requester_addr |-> m.addr,
                      requester_session_id |-> FromSession(m), tm |-> 0]
    OBVIOUS
  <2>2. SlotData(r, c)
    BY <1>2, <2>1, SlotsOrdinaryRecord
  <2>3. requests'[c] = [b \in {d} |-> r]
    BY <1>2, <1>4, <2>1 DEF WaitFor
  <2>4. ASSUME NEW a \in DOMAIN requests', a # c
        PROVE  /\ a \in Clients
               /\ requests'[a] = [b \in DOMAIN requests'[a] |-> requests'[a][b]]
               /\ DOMAIN requests'[a] \subseteq {Other(a)}
               /\ \A b \in DOMAIN requests'[a] : SlotData(requests'[a][b], a)
    BY <1>4, <2>4 DEF WaitFor, Ordinary, SlotsAreOrdinary
  <2>5. SlotsAreOrdinary'
    <3>1. ASSUME NEW a \in DOMAIN requests'
          PROVE  /\ a \in Clients
                 /\ requests'[a] = [b \in DOMAIN requests'[a] |-> requests'[a][b]]
                 /\ DOMAIN requests'[a] \subseteq {Other(a)}
                 /\ \A b \in DOMAIN requests'[a] : SlotData(requests'[a][b], a)
      <4>1. CASE a = c
        BY <1>1, <2>2, <2>3, <4>1
      <4>2. QED
        BY <2>4, <4>1
    <3>2. QED
      BY <3>1 DEF SlotsAreOrdinary, SlotData, SlotOf
  <2>6. RememberedIsOther'
    BY <1>4 DEF WaitFor, Ordinary, RememberedIsOther
  <2>7. QED
    BY <2>5, <2>6
<1>5. QED
  BY <1>1, <1>3, <1>4 DEF Served

LEMMA TickKeepsServer ==
    ASSUME SystemAssumption, Ordinary, SysTick
    PROVE  /\ SlotsAreOrdinary' /\ RememberedIsOther'
           /\ \A c \in Clients :
                /\ Waits(c)' <=> Waits(c)
                /\ Waits(c) =>
                     /\ Slot(c)'.requester_addr = Slot(c).requester_addr
                     /\ Slot(c)'.requester_session_id = Slot(c).requester_session_id
                     /\ Slot(c)'.tm = Earlier(Slot(c).tm, REQUEST_TIMEOUT_S - 1)
<1>1. /\ DOMAIN requests' = DOMAIN requests
      /\ \A a \in DOMAIN requests :
           /\ requests'[a] = [b \in DOMAIN requests[a] |->
                 [requests[a][b] EXCEPT !.tm = Earlier(@, REQUEST_TIMEOUT_S - 1)]]
  BY DEF SysTick
<1>2. ASSUME NEW r, NEW a, SlotData(r, a), NEW s,
             s = [r EXCEPT !.tm = Earlier(@, REQUEST_TIMEOUT_S - 1)]
      PROVE  /\ SlotData(s, a) /\ s.requester_addr = r.requester_addr
             /\ s.requester_session_id = r.requester_session_id
             /\ s.tm = Earlier(r.tm, REQUEST_TIMEOUT_S - 1)
  <2>1. PICK addr \in Ids, session_id \in Ids, tm \in Int :
          r = [requester_pubkey |-> a, requester_addr |-> addr,
               requester_session_id |-> session_id, tm |-> tm]
    BY <1>2 DEF SlotData, SlotOf
  <2>2. PICK t : t = Earlier(r.tm, REQUEST_TIMEOUT_S - 1)
    OBVIOUS
  <2>3. s = [requester_pubkey |-> a, requester_addr |-> addr,
             requester_session_id |-> session_id, tm |-> t]
    BY <1>2, <2>1, <2>2
  <2>4. t \in Int /\ t <= 0
    <3>1. r.tm \in Int /\ r.tm <= 0
      BY <1>2 DEF SlotData
    <3>2. QED
      BY <2>2, <3>1 DEF Earlier
  <2>5. QED
    BY <2>1, <2>2, <2>3, <2>4 DEF SlotData, SlotOf
<1>3. ASSUME NEW a \in DOMAIN requests, NEW b \in DOMAIN requests[a]
      PROVE  /\ SlotData(requests'[a][b], a)
             /\ requests'[a][b].requester_addr = requests[a][b].requester_addr
             /\ requests'[a][b].requester_session_id = requests[a][b].requester_session_id
             /\ requests'[a][b].tm = Earlier(requests[a][b].tm, REQUEST_TIMEOUT_S - 1)
  <2>1. SlotData(requests[a][b], a)
    BY DEF Ordinary, SlotsAreOrdinary
  <2>2. requests'[a][b] = [requests[a][b] EXCEPT !.tm = Earlier(@, REQUEST_TIMEOUT_S - 1)]
    BY <1>1
  <2>3. QED
    BY <1>2, <2>1, <2>2
<1>4. SlotsAreOrdinary'
  <2>1. ASSUME NEW a \in DOMAIN requests
        PROVE  /\ a \in Clients
               /\ requests'[a] = [b \in DOMAIN requests'[a] |-> requests'[a][b]]
               /\ DOMAIN requests'[a] \subseteq {Other(a)}
               /\ \A b \in DOMAIN requests'[a] : SlotData(requests'[a][b], a)
    <3>1. DOMAIN requests'[a] = DOMAIN requests[a]
      BY <1>1
    <3>2. \A b \in DOMAIN requests'[a] : SlotData(requests'[a][b], a)
      BY <1>3, <3>1
    <3>3. QED
      BY <1>1, <3>1, <3>2 DEF Ordinary, SlotsAreOrdinary
  <2>2. DOMAIN requests' = DOMAIN requests
    BY <1>1
  <2>3. QED
    BY <2>1, <2>2 DEF SlotsAreOrdinary, SlotData, SlotOf
<1>5. RememberedIsOther'
  BY DEF SysTick, Ordinary, RememberedIsOther
<1>6. ASSUME NEW c \in Clients
      PROVE  /\ Waits(c)' <=> Waits(c)
             /\ Waits(c) =>
                  /\ Slot(c)'.requester_addr = Slot(c).requester_addr
                  /\ Slot(c)'.requester_session_id = Slot(c).requester_session_id
                  /\ Slot(c)'.tm = Earlier(Slot(c).tm, REQUEST_TIMEOUT_S - 1)
  BY <1>1, <1>3 DEF Waits, Slot, HasSlot
<1>7. QED
  BY <1>4, <1>5, <1>6

----------------------------------------------------------------------------
(* Ordinary is kept: the datagrams *)

LEMMA NoteIsOrdinary ==
    ASSUME NEW to \in Ids, NEW about \in Clients, NEW at \in Ids, NEW under \in Ids,
           NEW flag \in {0, 1}, NEW n, n = Note(to, about, at, under, flag)
    PROVE  /\ IsNote(n) /\ n.to = "client" /\ ~n.garbled /\ n.addr = to
           /\ About(n) = about /\ At(n) = at /\ Under(n) = under
<1>1. PICK b : b = <<1, about, at, under, flag>>
  OBVIOUS
<1>2. b[2] = about /\ b[3] = at /\ b[4] = under
  BY <1>1
<1>3. n = [to |-> "client", addr |-> to, garbled |-> FALSE, bytes |-> b]
  BY <1>1 DEF Note
<1>4. n.to = "client" /\ ~n.garbled /\ n.addr = to /\ n.bytes = b
  BY <1>3
<1>5. QED
  BY <1>2, <1>4 DEF IsNote, About, At, Under

LEMMA NewDatagramsAreOrdinary ==
    ASSUME DatagramsAreOrdinary, IsFiniteSet(wire'), IsFiniteSet(delayed'),
           \A m \in wire' \cup delayed' :
             \/ m \in OnTheWay
             \/ (m.to # "server" => IsNote(m)) /\ (IsAsk(m) => AskData(m))
    PROVE  DatagramsAreOrdinary'
<1>1. \A m \in wire' \cup delayed' :
        (m.to # "server" => IsNote(m)) /\ (IsAsk(m) => AskData(m))
  BY DEF DatagramsAreOrdinary
<1>2. QED
  BY <1>1 DEF DatagramsAreOrdinary, OnTheWay, IsNote, Note, IsAsk, AskData, FromSession, SignedAt

LEMMA FewerAreOrdinary ==
    ASSUME DatagramsAreOrdinary, wire' \subseteq wire, delayed' \subseteq delayed
    PROVE  DatagramsAreOrdinary'
BY FS_Subset, NewDatagramsAreOrdinary DEF DatagramsAreOrdinary, OnTheWay

LEMMA PlaceKeepsDatagrams ==
    ASSUME Ordinary, NEW c \in Clients, PlaceConnectionRequest(c)
    PROVE  /\ DatagramsAreOrdinary'
           /\ \E m : /\ wire' = wire \cup {m} /\ IsAsk(m) /\ IsMessage(m)
                     /\ From(m) = c /\ m.addr = socket[c]
                     /\ FromSession(m) = session[c] /\ SignedAt(m) = 0
<1>1. PICK b : b = EncodeRequest(c, now, session[c], <<Other(c)>>)
  OBVIOUS
<1>2. PICK m : m = [to |-> "server", addr |-> socket[c], garbled |-> FALSE, bytes |-> b]
  OBVIOUS
<1>3. wire' = wire \cup {m} /\ delayed' = delayed
  BY <1>1, <1>2 DEF PlaceConnectionRequest
<1>4. PICK K, peers : peers \in Seq(K) /\ Len(peers) = 1 /\ peers = <<Other(c)>>
  <2>1. <<Other(c)>> \in Seq({Other(c)}) /\ Len(<<Other(c)>>) = 1
    OBVIOUS
  <2>2. QED
    BY <2>1, Zenon
<1>5. HasFields(b, c, now, session[c], peers)
  BY <1>1, <1>4, EncodedFields, Zenon
<1>6. b[5] = c /\ b[3] = 0 /\ b[7] = session[c]
  BY <1>5 DEF HasFields, Ordinary
<1>7. m.to = "server" /\ m.addr = socket[c] /\ ~m.garbled /\ m.bytes = b /\ IsMessage(m)
  BY <1>2 DEF IsMessage
<1>8. /\ IsAsk(m) /\ From(m) = c /\ FromSession(m) = session[c] /\ SignedAt(m) = 0
  BY <1>6, <1>7 DEF IsAsk, From, FromSession, SignedAt
<1>9. AskData(m)
  BY <1>7, <1>8 DEF AskData, PlaceConnectionRequest, Discovers, Ordinary, ClientsAreOrdinary
<1>10. DatagramsAreOrdinary'
  <2>1. DatagramsAreOrdinary /\ IsFiniteSet(wire') /\ IsFiniteSet(delayed')
    BY <1>3, FS_AddElement DEF Ordinary, DatagramsAreOrdinary
  <2>2. QED
    BY <1>3, <1>7, <1>9, <2>1, NewDatagramsAreOrdinary DEF OnTheWay
<1>11. QED
  BY <1>3, <1>7, <1>8, <1>10

LEMMA ServeKeepsDatagrams ==
    ASSUME SystemAssumption, Ordinary, NEW m \in wire, IsAsk(m),
           NEW c \in Clients, c = From(m), Served(m, c, Other(c))
    PROVE  DatagramsAreOrdinary'
<1>1. PICK d \in Clients : d = Other(c)
  BY Others
<1>2. m.addr \in Ids /\ FromSession(m) \in Ids
  BY DEF Ordinary, DatagramsAreOrdinary, AskData, OnTheWay
<1>3. wire' = (wire \ {m}) \cup Notifications /\ delayed' = delayed
  BY DEF Served
<1>4. IsFiniteSet(Notifications) /\ \A n \in Notifications : IsNote(n) /\ n.to = "client"
  <2>1. CASE Introduce(m, c, d)
    <3>1. Slot(d).requester_addr \in Ids /\ Slot(d).requester_session_id \in Ids
      BY <1>1, <2>1
         DEF Introduce, Matches, Waits, Slot, HasSlot, Ordinary, SlotsAreOrdinary, SlotData
    <3>2. PICK n1, n2 :
            /\ n1 = Note(Slot(d).requester_addr, c, m.addr, FromSession(m), 0)
            /\ n2 = Note(m.addr, d, Slot(d).requester_addr, Slot(d).requester_session_id, 1)
      OBVIOUS
    <3>3. IsNote(n1) /\ n1.to = "client" /\ IsNote(n2) /\ n2.to = "client"
      BY <1>2, <3>1, <3>2, NoteIsOrdinary
    <3>4. Notifications = {n1, n2}
      BY <2>1, <3>2 DEF Introduce
    <3>5. IsFiniteSet({n1, n2})
      <4>1. IsFiniteSet({n1}) /\ {n1} \cup {n2} = {n1, n2}
        BY FS_Singleton
      <4>2. QED
        BY <4>1, FS_AddElement
    <3>6. QED
      BY <3>3, <3>4, <3>5
  <2>2. CASE WaitFor(m, c, d)
    BY <2>2, FS_EmptySet DEF WaitFor
  <2>3. QED
    BY <1>1, <2>1, <2>2 DEF Served
<1>5. DatagramsAreOrdinary /\ IsFiniteSet(wire') /\ IsFiniteSet(delayed')
  <2>1. IsFiniteSet(wire) /\ IsFiniteSet(delayed) /\ IsFiniteSet(wire \ {m})
    BY FS_Subset DEF Ordinary, DatagramsAreOrdinary
  <2>2. QED
    BY <1>3, <1>4, <2>1, FS_Union DEF Ordinary
<1>6. QED
  BY <1>3, <1>4, <1>5, NewDatagramsAreOrdinary DEF OnTheWay, IsAsk

LEMMA NetworkKeepsDatagrams ==
    ASSUME Ordinary,
           \/ \E m \in wire : Delay(m) \/ Repeat(m) \/ Garble(m)
           \/ \E m \in delayed : ArriveLate(m)
    PROVE  DatagramsAreOrdinary'
<1>1. DatagramsAreOrdinary /\ IsFiniteSet(wire) /\ IsFiniteSet(delayed)
  BY DEF Ordinary, DatagramsAreOrdinary
<1>2. CASE \E m \in wire : Delay(m) \/ Repeat(m)
  <2>1. PICK m \in wire : Delay(m) \/ Repeat(m)
    BY <1>2
  <2>2. wire' \subseteq wire /\ delayed' = delayed \cup {m}
    BY <2>1 DEF Delay, Repeat
  <2>3. IsFiniteSet(wire') /\ IsFiniteSet(delayed')
    BY <1>1, <2>2, FS_Subset, FS_AddElement
  <2>4. QED
    BY <1>1, <2>2, <2>3, NewDatagramsAreOrdinary DEF OnTheWay
<1>3. CASE \E m \in delayed : ArriveLate(m)
  <2>1. PICK m \in delayed : wire' = wire \cup {m} /\ delayed' = delayed \ {m}
    BY <1>3 DEF ArriveLate
  <2>2. IsFiniteSet(wire') /\ IsFiniteSet(delayed')
    BY <1>1, <2>1, FS_Subset, FS_AddElement
  <2>3. QED
    BY <1>1, <2>1, <2>2, NewDatagramsAreOrdinary DEF OnTheWay
<1>4. CASE \E m \in wire : Garble(m)
  <2>1. PICK m, b : /\ m \in wire /\ m.to = "server" /\ delayed' = delayed
                    /\ wire' = (wire \ {m}) \cup {[m EXCEPT !.bytes = b, !.garbled = TRUE]}
    BY <1>4 DEF Garble
  <2>2. PICK n : n = [m EXCEPT !.bytes = b, !.garbled = TRUE]
    OBVIOUS
  <2>3. m = [to |-> m.to, addr |-> m.addr, garbled |-> m.garbled, bytes |-> m.bytes]
    BY <2>1 DEF Ordinary, Authentic, WireIsAuthentic, IsMessage
  <2>4. n.to = "server" /\ n.garbled
    BY <2>1, <2>2, <2>3
  <2>5. IsFiniteSet(wire \ {m})
    BY <1>1, FS_Subset
  <2>6. IsFiniteSet(wire')
    BY <2>1, <2>5, FS_AddElement
  <2>7. QED
    BY <1>1, <2>1, <2>2, <2>4, <2>6, NewDatagramsAreOrdinary DEF OnTheWay, IsAsk
<1>5. QED
  BY <1>2, <1>3, <1>4

\* A tick changes nothing of a datagram but the time a request was signed at.
LEMMA AgedFields ==
    ASSUME Ordinary, NEW m \in delayed
    PROVE  /\ m.to # "server" => Aged(m) = m
           /\ m.to = "server" =>
                /\ IsAsk(m) /\ IsAsk(Aged(m)) /\ Aged(m).addr = m.addr
                /\ From(Aged(m)) = From(m) /\ FromSession(Aged(m)) = FromSession(m)
                /\ SignedAt(Aged(m)) = Earlier(SignedAt(m), SIGNED_MSG_VALID_S)
<1>1. IsMessage(m) /\ ~m.garbled /\ m \in OnTheWay
  BY DEF Ordinary, Authentic, DelayedIsAuthentic, OnTheWay
<1>2. m.to # "server" => m.to = "client"
  BY <1>1, NoteFields DEF Ordinary, DatagramsAreOrdinary
<1>3. ASSUME m.to = "server"
      PROVE  /\ IsAsk(m) /\ IsAsk(Aged(m)) /\ Aged(m).addr = m.addr
             /\ From(Aged(m)) = From(m) /\ FromSession(Aged(m)) = FromSession(m)
             /\ SignedAt(Aged(m)) = Earlier(SignedAt(m), SIGNED_MSG_VALID_S)
  <2>1. IsAsk(m)
    BY <1>1, <1>3 DEF IsAsk
  <2>2. PICK S : m.bytes \in Seq(S)
    BY <1>1, <2>1, AskLength DEF Ordinary
  <2>3. Len(m.bytes) = 9
    BY <1>1, <2>1, AskLength DEF Ordinary
  <2>4. PICK tm, x : /\ tm = Earlier(m.bytes[3], SIGNED_MSG_VALID_S)
                     /\ x = Sign(m.bytes[5], <<tm>> \o Payload(m.bytes))
    OBVIOUS
  <2>5. PICK b : b = [m.bytes EXCEPT ![3] = tm, ![4] = x]
    OBVIOUS
  <2>6. b[3] = tm /\ b[5] = m.bytes[5] /\ b[7] = m.bytes[7]
    BY <2>2, <2>3, <2>5
  <2>7. PICK n : n = [m EXCEPT !.bytes[3] = tm, !.bytes[4] = x]
    OBVIOUS
  <2>8. Aged(m) = n
    BY <1>3, <2>4, <2>7 DEF Aged
  <2>9. n = [to |-> m.to, addr |-> m.addr, garbled |-> m.garbled, bytes |-> b]
    BY <1>1, <2>5, <2>7 DEF IsMessage
  <2>10. n.to = "server" /\ ~n.garbled /\ n.addr = m.addr /\ n.bytes = b
    BY <1>1, <1>3, <2>9
  <2>11. QED
    BY <2>1, <2>4, <2>6, <2>8, <2>10 DEF IsAsk, From, FromSession, SignedAt
<1>4. QED
  BY <1>2, <1>3 DEF Aged

LEMMA TickKeepsDatagrams ==
    ASSUME Ordinary, SysTick
    PROVE  DatagramsAreOrdinary'
<1>1. wire' = {} /\ delayed' = {Aged(m) : m \in delayed}
  BY DEF SysTick
<1>2. DatagramsAreOrdinary /\ IsFiniteSet(wire') /\ IsFiniteSet(delayed)
  BY <1>1, FS_EmptySet DEF Ordinary, DatagramsAreOrdinary
<1>3. IsFiniteSet(delayed')
  <2>1. PICK f : f = [m \in delayed |-> Aged(m)]
    OBVIOUS
  <2>2. delayed' \subseteq {f[m] : m \in delayed}
    BY <1>1, <2>1
  <2>3. QED
    BY <1>2, <2>2, ImageIsFinite
<1>4. ASSUME NEW n \in delayed'
      PROVE  n \in OnTheWay \/ ((n.to # "server" => IsNote(n)) /\ (IsAsk(n) => AskData(n)))
  <2>1. PICK m \in delayed : n = Aged(m)
    BY <1>1
  <2>2. m \in OnTheWay
    BY DEF OnTheWay
  <2>3. CASE m.to # "server"
    BY <2>1, <2>2, <2>3, AgedFields
  <2>4. CASE m.to = "server"
    <3>1. /\ IsAsk(m) /\ IsAsk(n) /\ n.addr = m.addr
          /\ FromSession(n) = FromSession(m)
          /\ SignedAt(n) = Earlier(SignedAt(m), SIGNED_MSG_VALID_S)
      BY <2>1, <2>4, AgedFields
    <3>2. AskData(m)
      BY <2>2, <3>1 DEF Ordinary, DatagramsAreOrdinary
    <3>3. SignedAt(n) \in Int /\ SignedAt(n) <= 0
      BY <3>1, <3>2, TimeoutsAssumption DEF AskData, Earlier
    <3>4. QED
      BY <3>1, <3>2, <3>3 DEF AskData, IsAsk
  <2>5. QED
    BY <2>3, <2>4
<1>5. QED
  BY <1>1, <1>2, <1>3, <1>4, NewDatagramsAreOrdinary

----------------------------------------------------------------------------
(* Ordinary is kept: the clients *)

LEMMA EstablisherIsOrdinary ==
    ASSUME SystemAssumption, Ordinary, NEW c \in Clients, NewEstablisher(c),
           wait' \in [Clients -> Nat], faults' \in 0 .. MaxFaults, calm' \in Nat
    PROVE  ClientsAreOrdinary'
<1>1. NewSocket \in Ids /\ NewSession \in Ids
  BY SessionIsNew, SocketIsNew
<1>2. NoMatch \in [own : {Never} \cup Ids, remote : {Never} \cup Ids]
  BY DEF NoMatch
<1>3. ClientsAreOrdinary
  BY DEF Ordinary
<1>4. /\ mode' = [mode EXCEPT ![c] = "polling"]
      /\ session' = [session EXCEPT ![c] = NewSession]
      /\ socket' = [socket EXCEPT ![c] = NewSocket]
      /\ last' = [last EXCEPT ![c] = Never]
      /\ accepted' = [accepted EXCEPT ![c] = NoSession]
      /\ retry' = [retry EXCEPT ![c] = 1]
      /\ match' = [match EXCEPT ![c] = NoMatch]
  BY DEF NewEstablisher
<1>5. QED
  BY <1>1, <1>2, <1>3, <1>4 DEF ClientsAreOrdinary

LEMMA LeaveType ==
    ASSUME SystemAssumption, NEW c, NEW w \in [Clients -> Nat], wait \in [Clients -> Nat], Leave(c, w)
    PROVE  wait' \in [Clients -> Nat]
BY DEF Leave, SystemAssumption

LEMMA FaultType ==
    ASSUME SystemAssumption, Ordinary, NEW k, Fault(k)
    PROVE  faults' \in 0 .. MaxFaults /\ calm' \in Nat
<1>1. MaxFaults \in Nat /\ faults \in 0 .. MaxFaults
  BY DEF SystemAssumption, Ordinary, ClientsAreOrdinary
<1>2. faults > 0 /\ faults' = faults - 1 /\ calm' = 0
  BY DEF Fault, Disturb
<1>3. QED
  BY <1>1, <1>2

LEMMA StartsKeepClients ==
    ASSUME SystemAssumption, Ordinary, NEW c \in Clients, Start(c) \/ Restart(c)
    PROVE  ClientsAreOrdinary'
<1>1. wait \in [Clients -> Nat] /\ [wait EXCEPT ![c] = 0] \in [Clients -> Nat]
  BY DEF Ordinary, ClientsAreOrdinary
<1>2. wait' \in [Clients -> Nat]
  BY <1>1, LeaveType DEF Start, Restart
<1>3. faults' \in 0 .. MaxFaults /\ calm' \in Nat
  <2>1. CASE Start(c)
    BY <2>1 DEF Start, Disturb, Ordinary, ClientsAreOrdinary
  <2>2. CASE Restart(c)
    BY <2>2, FaultType DEF Restart
  <2>3. QED
    BY <2>1, <2>2
<1>4. QED
  BY <1>2, <1>3, EstablisherIsOrdinary DEF Start, Restart

LEMMA AcceptKeepsClients ==
    ASSUME SystemAssumption, Ordinary, NEW m \in wire, NEW c \in Clients, AcceptInitiate(c, m)
    PROVE  /\ ClientsAreOrdinary'
           /\ IsNote(m) /\ m.addr = socket[c] /\ Discovers(c) /\ ~Due(c)
           /\ About(m) = Other(c) /\ accepted[c] # Under(m)
           /\ accepted' = [accepted EXCEPT ![c] = Under(m)]
           /\ match' = [match EXCEPT ![c] = [own |-> socket[c], remote |-> At(m)]]
           /\ match[c]' = [own |-> socket[c], remote |-> At(m)]
<1>1. IsNote(m)
  BY DEF AcceptInitiate, Receives, Ordinary, DatagramsAreOrdinary, OnTheWay
<1>2. PICK i : /\ i = ParseInitiate(m.bytes) /\ i.peer_pubkey = About(m)
               /\ i.peer_address = At(m) /\ i.remote_session_id = Under(m)
               /\ Under(m) \in Ids /\ At(m) \in Ids
  BY <1>1, NoteFields
<1>3. ClientsAreOrdinary
  BY DEF Ordinary
<1>4. /\ accepted' = [accepted EXCEPT ![c] = Under(m)]
      /\ mode' = [mode EXCEPT ![c] = "punching"]
      /\ match' = [match EXCEPT ![c] = [own |-> socket[c], remote |-> At(m)]]
      /\ wait' = [wait EXCEPT ![c] = PunchTime]
      /\ socket' = [socket EXCEPT ![c] = NewSocket]
      /\ session' = [session EXCEPT ![c] = NewSession]
      /\ last' = last /\ retry' = retry /\ faults' = faults /\ calm' = calm
      /\ m.addr = socket[c] /\ Discovers(c) /\ ~Due(c)
      /\ About(m) = Other(c) /\ accepted[c] # Under(m)
  BY <1>2 DEF AcceptInitiate, Acceptable, Receives
<1>5. NewSocket \in Ids /\ NewSession \in Ids /\ PunchTime \in Nat
  BY SessionIsNew, SocketIsNew DEF SystemAssumption
<1>6. PICK p : p = [own |-> socket[c], remote |-> At(m)]
  OBVIOUS
<1>7. p \in [own : {Never} \cup Ids, remote : {Never} \cup Ids]
  BY <1>2, <1>3, <1>6 DEF ClientsAreOrdinary
<1>8. match[c]' = p
  BY <1>3, <1>4, <1>6 DEF ClientsAreOrdinary
<1>9. ClientsAreOrdinary'
  BY <1>2, <1>3, <1>4, <1>5, <1>6, <1>7 DEF ClientsAreOrdinary
<1>10. QED
  BY <1>1, <1>4, <1>6, <1>8, <1>9

LEMMA RetryType ==
    ASSUME NEW t \in 1 .. 50
    PROVE  NextRetry(t) \in 1 .. 50 /\ InTicks(t) \in 1 .. 5
BY DEF NextRetry, InTicks

LEMMA PunchedKeepsClients ==
    ASSUME Ordinary, NEW cs \in SUBSET Clients, NEW ok \in SUBSET cs, NEW w \in Nat,
           Punched(cs, ok, w), faults' \in 0 .. MaxFaults, calm' \in Nat,
           \A c \in cs : mode[c] # "off"
    PROVE  ClientsAreOrdinary'
<1>1. ClientsAreOrdinary
  BY DEF Ordinary
<1>2. \A c \in Clients : NextRetry(retry[c]) \in 1 .. 50 /\ InTicks(retry[c]) \in Nat
  <2>1. \A c \in Clients : retry[c] \in 1 .. 50
    BY <1>1 DEF ClientsAreOrdinary
  <2>2. \A t \in 1 .. 50 : NextRetry(t) \in 1 .. 50 /\ InTicks(t) \in Nat
    <3> TAKE t \in 1 .. 50
    <3>1. NextRetry(t) \in 1 .. 50 /\ InTicks(t) \in 1 .. 5
      BY RetryType
    <3>2. QED
      BY <3>1
  <2>3. QED
    BY <2>1, <2>2
<1>3. NoMatch \in [own : {Never} \cup Ids, remote : {Never} \cup Ids]
  BY DEF NoMatch
<1>4. retry' \in [Clients -> 1 .. 50] /\ wait' \in [Clients -> Nat]
  BY <1>1, <1>2 DEF Punched, ClientsAreOrdinary
<1>5. /\ mode' \in [Clients -> {"off", "polling", "punching", "connected"}]
      /\ last' \in [Clients -> {Never} \cup 0 .. RequestInterval]
      /\ match' \in [Clients -> [own : {Never} \cup Ids, remote : {Never} \cup Ids]]
  BY <1>1, <1>3 DEF Punched, ClientsAreOrdinary
<1>6. \A c \in Clients : mode'[c] = "off" <=> mode[c] = "off"
  BY <1>1 DEF Punched, ClientsAreOrdinary
<1>7. UNCHANGED <<socket, session, accepted>>
  BY DEF Punched
<1>8. QED
  BY <1>1, <1>4, <1>5, <1>6, <1>7 DEF ClientsAreOrdinary

LEMMA ClosedKeepsClients ==
    ASSUME Ordinary, NEW c \in Clients, on_connection_closed(c), mode[c] # "off",
           wait' \in [Clients -> Nat], faults' \in 0 .. MaxFaults, calm' \in Nat
    PROVE  ClientsAreOrdinary'
<1>1. ClientsAreOrdinary
  BY DEF Ordinary
<1>2. NoMatch \in [own : {Never} \cup Ids, remote : {Never} \cup Ids]
  BY DEF NoMatch
<1>3. /\ mode' = [mode EXCEPT ![c] = "polling"]
      /\ match' = [match EXCEPT ![c] = NoMatch]
      /\ UNCHANGED <<socket, session, last, accepted, retry>>
  BY DEF on_connection_closed
<1>4. QED
  BY <1>1, <1>2, <1>3 DEF ClientsAreOrdinary

LEMMA PlaceKeepsClients ==
    ASSUME SystemAssumption, Ordinary, NEW c \in Clients, PlaceConnectionRequest(c)
    PROVE  ClientsAreOrdinary'
<1>1. ClientsAreOrdinary
  BY DEF Ordinary
<1>2. /\ last' = [last EXCEPT ![c] = 0]
      /\ UNCHANGED <<mode, socket, session, accepted, retry, wait, match, faults, calm>>
  BY DEF PlaceConnectionRequest
<1>3. 0 \in 0 .. RequestInterval
  BY DEF SystemAssumption
<1>4. QED
  BY <1>1, <1>2, <1>3 DEF ClientsAreOrdinary

LEMMA TickKeepsClients ==
    ASSUME SystemAssumption, Ordinary, SysTick
    PROVE  ClientsAreOrdinary'
<1>1. ClientsAreOrdinary
  BY DEF Ordinary
<1>2. /\ wait' = [c \in Clients |-> Minus1(wait[c])]
      /\ last' = [c \in Clients |-> IF last[c] = Never \/ last[c] = RequestInterval
                                    THEN last[c] ELSE last[c] + 1]
      /\ calm' = (IF calm > RecoveryTime THEN calm ELSE calm + 1)
      /\ UNCHANGED <<mode, socket, session, accepted, retry, match, faults>>
  BY DEF SysTick
<1>3. wait' \in [Clients -> Nat]
  BY <1>1, <1>2 DEF ClientsAreOrdinary, Minus1
<1>4. last' \in [Clients -> {Never} \cup 0 .. RequestInterval]
  <2>1. RequestInterval \in Nat
    BY DEF SystemAssumption
  <2>2. ASSUME NEW t \in {Never} \cup 0 .. RequestInterval
        PROVE  (IF t = Never \/ t = RequestInterval THEN t ELSE t + 1)
                   \in {Never} \cup 0 .. RequestInterval
    BY <2>1, <2>2
  <2>3. \A c \in Clients : last[c] \in {Never} \cup 0 .. RequestInterval
    BY <1>1 DEF ClientsAreOrdinary
  <2>4. QED
    BY <1>2, <2>2, <2>3
<1>5. calm' \in Nat
  BY <1>1, <1>2 DEF ClientsAreOrdinary
<1>6. QED
  BY <1>1, <1>2, <1>3, <1>4, <1>5 DEF ClientsAreOrdinary

LEMMA StepKeepsClients ==
    ASSUME SystemAssumption, Ordinary, NothingIsRepeated, [SysNext]_sysVars
    PROVE  ClientsAreOrdinary'
<1>1. ClientsAreOrdinary
  BY DEF Ordinary
<1>2. ASSUME UNCHANGED clientVars, faults' \in 0 .. MaxFaults, calm' \in Nat
      PROVE  ClientsAreOrdinary'
  BY <1>1, <1>2 DEF ClientsAreOrdinary, clientVars
<1>3. ASSUME NEW c \in Clients, CanMeet(c)
      PROVE  /\ {c, Other(c)} \subseteq Clients
             /\ \A x \in {c, Other(c)} : mode[x] # "off"
  BY <1>3, Others DEF CanMeet
<1>4. 0 \in Nat /\ DetectTime \in Nat /\ faults \in 0 .. MaxFaults /\ calm \in Nat
  BY <1>1 DEF SystemAssumption, ClientsAreOrdinary
<1>5. ASSUME NEW c \in Clients, Run(c) PROVE ClientsAreOrdinary'
  <2>1. CASE PunchSucceeds(c)
    BY <1>3, <1>4, <2>1, PunchedKeepsClients DEF PunchSucceeds
  <2>2. CASE PunchFails(c)
    BY <1>4, <2>2, PunchedKeepsClients DEF PunchFails
  <2>3. CASE NoticeDead(c)
    <3>1. wait' \in [Clients -> Nat] /\ mode[c] # "off"
      BY <1>1, <2>3 DEF NoticeDead, ClientsAreOrdinary, IsDead
    <3>2. QED
      BY <1>4, <2>3, <3>1, ClosedKeepsClients DEF NoticeDead
  <2>4. QED
    BY <1>5, <2>1, <2>2, <2>3, PlaceKeepsClients DEF Run
<1>6. CASE Arrive
  <2>1. ASSUME NEW m \in wire, Serve(m) \/ Reject(m) \/ Vanishes(m) PROVE ClientsAreOrdinary'
    BY <1>2, <1>4, <2>1 DEF Serve, Reject, Vanishes
  <2>2. ASSUME NEW m \in wire, NEW c \in Clients, IgnoreInitiate(c, m)
        PROVE  ClientsAreOrdinary'
    BY <1>2, <1>4, <2>2 DEF IgnoreInitiate, Receives
  <2>3. QED
    BY <1>6, <2>1, <2>2, AcceptKeepsClients DEF Arrive
<1>7. CASE Disturbance
  <2>1. ASSUME NEW m, Delay(m) \/ Repeat(m) \/ Garble(m) PROVE ClientsAreOrdinary'
    <3>1. faults' \in 0 .. MaxFaults /\ calm' \in Nat
      BY <2>1, FaultType DEF Delay, Repeat, Garble
    <3>2. QED
      BY <1>2, <2>1, <3>1 DEF Delay, Repeat, Garble
  <2>2. ASSUME NEW m, ArriveLate(m) PROVE ClientsAreOrdinary'
    BY <1>2, <1>4, <2>2 DEF ArriveLate, Disturb
  <2>3. ASSUME NEW c \in Clients, OnlyOneSucceeds(c) PROVE ClientsAreOrdinary'
    <3>1. faults' \in 0 .. MaxFaults /\ calm' \in Nat
      BY <2>3, FaultType DEF OnlyOneSucceeds
    <3>2. CanMeet(c) /\ Punched({c, Other(c)}, {c}, DetectTime)
      BY <2>3 DEF OnlyOneSucceeds
    <3>3. QED
      BY <1>3, <1>4, <3>1, <3>2, PunchedKeepsClients
  <2>4. ASSUME NEW c \in Clients, Break(c) PROVE ClientsAreOrdinary'
    <3>1. faults' \in 0 .. MaxFaults /\ calm' \in Nat
      BY <2>4, FaultType DEF Break
    <3>2. on_connection_closed(c) /\ Leave(c, wait) /\ mode[c] # "off"
      BY <2>4 DEF Break
    <3>3. wait' \in [Clients -> Nat]
      BY <1>1, <3>2, LeaveType DEF ClientsAreOrdinary
    <3>4. QED
      BY <3>1, <3>2, <3>3, ClosedKeepsClients
  <2>5. CASE ServerRestarts
    <3>1. faults' \in 0 .. MaxFaults /\ calm' \in Nat
      BY <2>5, FaultType DEF ServerRestarts
    <3>2. QED
      BY <1>2, <2>5, <3>1 DEF ServerRestarts
  <2>6. QED
    BY <1>7, <2>1, <2>2, <2>3, <2>4, <2>5, StartsKeepClients DEF Disturbance
<1>8. CASE UNCHANGED sysVars
  BY <1>2, <1>4, <1>8 DEF sysVars
<1>9. QED
  BY <1>5, <1>6, <1>7, <1>8, TickKeepsClients DEF SysNext

LEMMA StepIsOrdinary ==
    ASSUME SystemAssumption, Ordinary, NothingIsRepeated, [SysNext]_sysVars
    PROVE  Ordinary'
<1>1. Authentic' /\ ClientsAreOrdinary'
  BY StepStaysAuthentic, StepKeepsClients DEF Ordinary
<1>2. ASSUME NEW m \in wire, Serve(m)
      PROVE  now' = 0 /\ SlotsAreOrdinary' /\ RememberedIsOther' /\ DatagramsAreOrdinary'
  <2>1. PICK c \in Clients : IsAsk(m) /\ c = From(m) /\ Served(m, c, Other(c))
    BY <1>2, ServeEffect
  <2>2. now' = 0
    BY <2>1 DEF Served, Ordinary
  <2>3. QED
    BY <2>1, <2>2, ServeKeepsServer, ServeKeepsDatagrams
<1>3. CASE SysTick
  BY <1>1, <1>3, TickKeepsServer, TickKeepsDatagrams DEF Ordinary, SysTick
<1>4. CASE ServerRestarts
  <2>1. DOMAIN requests' = {} /\ last_session_ids' = [k \in {} |-> {}]
        /\ now' = now /\ wire' = wire /\ delayed' = delayed
    BY <1>4 DEF ServerRestarts
  <2>2. SlotsAreOrdinary' /\ RememberedIsOther'
    BY <2>1 DEF SlotsAreOrdinary, RememberedIsOther
  <2>3. QED
    BY <1>1, <2>1, <2>2, FewerAreOrdinary DEF Ordinary
<1>5. ASSUME UNCHANGED vars
      PROVE  now' = 0 /\ SlotsAreOrdinary' /\ RememberedIsOther'
  BY <1>5 DEF vars, Ordinary, SlotsAreOrdinary, SlotData, SlotOf, RememberedIsOther
<1>6. ASSUME ~ \E m \in wire : Serve(m)
      PROVE  DatagramsAreOrdinary'
  <2>1. CASE \E c \in Clients : Run(c)
    <3>1. PICK c \in Clients : Run(c)
      BY <2>1
    <3>2. CASE PlaceConnectionRequest(c)
      BY <3>2, PlaceKeepsDatagrams
    <3>3. CASE ~PlaceConnectionRequest(c)
      BY <3>1, <3>3, FewerAreOrdinary
         DEF Run, PunchSucceeds, PunchFails, Punched, NoticeDead, on_connection_closed, Ordinary
    <3>4. QED
      BY <3>2, <3>3
  <2>2. CASE Arrive
    BY <1>6, <2>2, FewerAreOrdinary
       DEF Arrive, Reject, Vanishes, AcceptInitiate, IgnoreInitiate, Receives, Ordinary
  <2>3. CASE Disturbance
    <3>1. CASE \E c \in Clients : Start(c) \/ Restart(c) \/ OnlyOneSucceeds(c) \/ Break(c)
      BY <3>1, FewerAreOrdinary
         DEF Start, Restart, OnlyOneSucceeds, Punched, Break, on_connection_closed, Ordinary
    <3>2. CASE ServerRestarts
      BY <3>2, FewerAreOrdinary DEF ServerRestarts, Ordinary
    <3>3. QED
      BY <2>3, <3>1, <3>2, NetworkKeepsDatagrams DEF Disturbance
  <2>4. CASE SysTick
    BY <2>4, TickKeepsDatagrams
  <2>5. CASE UNCHANGED sysVars
    BY <2>5, FewerAreOrdinary DEF sysVars, Ordinary
  <2>6. QED
    BY <2>1, <2>2, <2>3, <2>4, <2>5 DEF SysNext
<1>7. QED
  BY <1>1, <1>2, <1>3, <1>4, <1>5, <1>6, OthersLeaveServer DEF Ordinary

----------------------------------------------------------------------------
(* Who is where: addresses and sessions are not mixed up *)

\* The server, or a datagram, has client c at address a under session s.
Mention(c, a, s) ==
    \/ /\ c \in Clients /\ Waits(c)
       /\ a = Slot(c).requester_addr /\ s = Slot(c).requester_session_id
    \/ \E e \in DOMAIN last_session_ids :
         /\ c = Other(e)
         /\ a = last_session_ids[e].remote_addr /\ s = last_session_ids[e].session_id
    \/ \E m \in OnTheWay : IsAsk(m) /\ c = From(m) /\ a = m.addr /\ s = FromSession(m)
    \/ \E n \in OnTheWay : n.to # "server" /\ c = About(n) /\ a = At(n) /\ s = Under(n)

Current(c, a, s) == c \in Clients /\ mode[c] # "off" /\ a = socket[c] /\ s = session[c]

Known(c, a, s) == Mention(c, a, s) \/ Current(c, a, s)

\* An address under which client c asked for the other one.
Target(c, a) == \E n \in OnTheWay : n.to # "server" /\ c = Other(About(n)) /\ a = n.addr
Used(c, a) == (\E s : Mention(c, a, s)) \/ Target(c, a)

Agree ==
    \A c, d, a, b, s, t :
        Known(c, a, s) /\ Known(d, b, t) /\ (a = b \/ s = t) => c = d /\ a = b /\ s = t

\* A client that asked under its current address still waits for an answer.
UsedIsPolling ==
    \A c \in Clients : \A d, a : Used(d, a) /\ a = socket[c] => d = c /\ Discovers(c)

Identified == Agree /\ UsedIsPolling

LEMMA AgreeRule ==
    ASSUME Agree, NEW c, NEW d, NEW a, NEW b, NEW s, NEW t,
           Known(c, a, s), Known(d, b, t), a = b \/ s = t
    PROVE  c = d /\ a = b /\ s = t
BY Zenon DEF Agree

LEMMA UsedRule ==
    ASSUME UsedIsPolling, NEW c \in Clients, NEW d, Used(d, socket[c])
    PROVE  d = c /\ Discovers(c)
BY Zenon DEF UsedIsPolling

LEMMA AskIsMention ==
    ASSUME NEW m \in OnTheWay, IsAsk(m)
    PROVE  Mention(From(m), m.addr, FromSession(m)) /\ Used(From(m), m.addr)
BY DEF Mention, Used

LEMMA NoteIsMention ==
    ASSUME NEW n \in OnTheWay, n.to # "server"
    PROVE  Mention(About(n), At(n), Under(n)) /\ Used(Other(About(n)), n.addr)
BY DEF Mention, Used, Target

LEMMA SlotIsMention ==
    ASSUME NEW c \in Clients, Waits(c)
    PROVE  /\ Mention(c, Slot(c).requester_addr, Slot(c).requester_session_id)
           /\ Used(c, Slot(c).requester_addr)
BY DEF Mention, Used

LEMMA KnownIsOld ==
    ASSUME SystemAssumption, Ordinary, NEW c, NEW a, NEW s, Known(c, a, s)
    PROVE  c \in Clients /\ a \in Ids /\ s \in Ids /\ a # NewSocket /\ s # NewSession
<1>1. CASE Current(c, a, s)
  BY <1>1, SessionIsNew, SocketIsNew DEF Current, Ordinary, ClientsAreOrdinary
<1>2. CASE c \in Clients /\ Waits(c)
           /\ a = Slot(c).requester_addr /\ s = Slot(c).requester_session_id
  <2>1. a \in Ids /\ s \in Ids
    BY <1>2 DEF Waits, Slot, HasSlot, Ordinary, SlotsAreOrdinary, SlotData
  <2>2. QED
    BY <1>2, <2>1, SessionIsNew, SocketIsNew
<1>3. CASE \E e \in DOMAIN last_session_ids :
             /\ c = Other(e)
             /\ a = last_session_ids[e].remote_addr /\ s = last_session_ids[e].session_id
  BY <1>3, SessionIsNew, SocketIsNew, Others DEF Ordinary, RememberedIsOther
<1>4. CASE \E m \in OnTheWay : IsAsk(m) /\ c = From(m) /\ a = m.addr /\ s = FromSession(m)
  <2>1. PICK m \in OnTheWay : IsAsk(m) /\ c = From(m) /\ a = m.addr /\ s = FromSession(m)
    BY <1>4
  <2>2. From(m) \in Clients /\ m.addr \in Ids /\ FromSession(m) \in Ids
    BY <2>1, AskLength DEF Ordinary, DatagramsAreOrdinary, AskData
  <2>3. QED
    BY <2>1, <2>2, SessionIsNew, SocketIsNew
<1>5. CASE \E n \in OnTheWay : n.to # "server" /\ c = About(n) /\ a = At(n) /\ s = Under(n)
  <2>1. PICK n \in OnTheWay : n.to # "server" /\ c = About(n) /\ a = At(n) /\ s = Under(n)
    BY <1>5
  <2>2. About(n) \in Clients /\ At(n) \in Ids /\ Under(n) \in Ids
    BY <2>1, NoteFields DEF Ordinary, DatagramsAreOrdinary
  <2>3. QED
    BY <2>1, <2>2, SessionIsNew, SocketIsNew
<1>6. QED
  BY <1>1, <1>2, <1>3, <1>4, <1>5 DEF Known, Mention

LEMMA UsedIsOld ==
    ASSUME SystemAssumption, Ordinary, NEW c, NEW a, Used(c, a)
    PROVE  a # NewSocket
<1>1. CASE \E s : Mention(c, a, s)
  BY <1>1, KnownIsOld DEF Known
<1>2. CASE Target(c, a)
  BY <1>2, SocketIsNew DEF Target
<1>3. QED
  BY <1>1, <1>2 DEF Used

LEMMA NothingIsEverRepeated ==
    ASSUME SystemAssumption, Ordinary, Agree
    PROVE  NothingIsRepeated
<1>1. SUFFICES ASSUME NEW m \in OnTheWay, IsAsk(m), From(m) \in DOMAIN last_session_ids,
                      last_session_ids[From(m)].session_id = FromSession(m)
               PROVE  FALSE
  BY DEF NothingIsRepeated
<1>2. Known(From(m), m.addr, FromSession(m))
  BY <1>1, AskIsMention DEF Known
<1>3. Known(Other(From(m)), last_session_ids[From(m)].remote_addr,
            last_session_ids[From(m)].session_id)
  BY <1>1 DEF Known, Mention
<1>4. Other(From(m)) = From(m)
  BY <1>1, <1>2, <1>3, AgreeRule
<1>5. QED
  BY <1>1, <1>4, AskLength, Others DEF Ordinary

\* Nothing new is on its way, except that a garbled request replaces an intact one.
LEMMA FewerMentions ==
    ASSUME UNCHANGED vars,
           \A n \in OnTheWay' : n \in OnTheWay \/ (n.to = "server" /\ ~IsAsk(n)),
           NEW c, NEW a
    PROVE  /\ \A s : Mention(c, a, s)' => Mention(c, a, s)
           /\ Used(c, a)' => Used(c, a)
<1>1. UNCHANGED <<requests, last_session_ids>>
  BY DEF vars
<1>2. ASSUME NEW s, Mention(c, a, s)' PROVE Mention(c, a, s)
  BY <1>1, <1>2 DEF Mention, Waits, Slot, HasSlot, IsAsk, From, FromSession, About, At, Under
<1>3. Target(c, a)' => Target(c, a)
  BY DEF Target, About
<1>4. QED
  BY <1>2, <1>3 DEF Used

LEMMA ServeMentions ==
    ASSUME SystemAssumption, Ordinary, NEW m \in wire, IsAsk(m),
           NEW e \in Clients, e = From(m), Served(m, e, Other(e)),
           NEW c, NEW a
    PROVE  /\ \A s : Mention(c, a, s)' => Mention(c, a, s)
           /\ Used(c, a)' => Used(c, a)
<1>1. PICK d \in Clients : d = Other(e) /\ e = Other(d) /\ d # e /\ \A x \in Clients : x = e \/ x = d
  BY Others
<1>2. /\ wire' = (wire \ {m}) \cup Notifications /\ delayed' = delayed
      /\ Introduce(m, e, d) \/ WaitFor(m, e, d)
      /\ now = 0 /\ m \in OnTheWay
  BY <1>1 DEF Served, Ordinary, OnTheWay
<1>3. m.addr \in Ids /\ FromSession(m) \in Ids
  BY DEF Ordinary, DatagramsAreOrdinary, AskData, OnTheWay
<1>4. Mention(e, m.addr, FromSession(m)) /\ Used(e, m.addr)
  BY <1>2, AskIsMention
<1>5. CASE Introduce(m, e, d)
  <2>1. PICK addr \in Ids, ss \in Ids :
          addr = Slot(d).requester_addr /\ ss = Slot(d).requester_session_id
    BY <1>1, <1>5
       DEF Introduce, Matches, Waits, Slot, HasSlot, Ordinary, SlotsAreOrdinary, SlotData
  <2>2. Mention(d, addr, ss) /\ Used(d, addr)
    BY <1>5, <2>1, SlotIsMention DEF Introduce, Matches
  <2>3. PICK n1, n2 : n1 = Note(addr, e, m.addr, FromSession(m), 0) /\ n2 = Note(m.addr, d, addr, ss, 1)
    OBVIOUS
  <2>4. /\ n1.to = "client" /\ n1.addr = addr /\ About(n1) = e /\ At(n1) = m.addr
        /\ Under(n1) = FromSession(m)
        /\ n2.to = "client" /\ n2.addr = m.addr /\ About(n2) = d /\ At(n2) = addr
        /\ Under(n2) = ss
    BY <1>3, <2>1, <2>3, NoteIsOrdinary
  <2>5. OnTheWay' \subseteq OnTheWay \cup {n1, n2}
    BY <1>2, <1>5, <2>1, <2>3 DEF Introduce, OnTheWay
  <2>6. \A x \in Clients : ~Waits(x)'
    BY <1>1, <1>5 DEF Introduce
  <2>7. /\ \A x \in DOMAIN last_session_ids' :
             \/ x = e /\ last_session_ids'[x].remote_addr = addr /\ last_session_ids'[x].session_id = ss
             \/ x \in DOMAIN last_session_ids /\ last_session_ids'[x] = last_session_ids[x]
    BY <1>5, <2>1 DEF Introduce, Insert
  <2>8. ASSUME NEW s, Mention(c, a, s)' PROVE Mention(c, a, s)
    <3>1. CASE \E x \in DOMAIN last_session_ids' :
                 /\ c = Other(x)
                 /\ a = last_session_ids'[x].remote_addr /\ s = last_session_ids'[x].session_id
      BY <1>1, <2>2, <2>7, <3>1 DEF Mention
    <3>2. CASE \E n \in OnTheWay' : IsAsk(n) /\ c = From(n) /\ a = n.addr /\ s = FromSession(n)
      BY <2>4, <2>5, <3>2 DEF Mention, IsAsk
    <3>3. CASE \E n \in OnTheWay' : n.to # "server" /\ c = About(n) /\ a = At(n) /\ s = Under(n)
      <4>1. PICK n \in OnTheWay' : n.to # "server" /\ c = About(n) /\ a = At(n) /\ s = Under(n)
        BY <3>3
      <4>2. CASE n \in OnTheWay
        BY <4>1, <4>2 DEF Mention
      <4>3. QED
        BY <1>4, <2>2, <2>4, <2>5, <4>1, <4>2
    <3>4. QED
      BY <2>6, <2>8, <3>1, <3>2, <3>3
         DEF Mention, IsAsk, From, FromSession, About, At, Under
  <2>9. Target(c, a)' => Used(c, a)
    <3>1. SUFFICES ASSUME NEW n \in OnTheWay', n.to # "server", c = Other(About(n)), a = n.addr
                   PROVE  Used(c, a)
      BY DEF Target, About
    <3>2. CASE n \in OnTheWay
      BY <3>1, <3>2 DEF Used, Target
    <3>3. QED
      BY <1>1, <1>4, <2>2, <2>4, <2>5, <3>1, <3>2
  <2>10. QED
    BY <2>8, <2>9 DEF Used
<1>6. CASE WaitFor(m, e, d)
  <2>1. OnTheWay' \subseteq OnTheWay /\ last_session_ids' = last_session_ids
    BY <1>2, <1>6 DEF WaitFor, OnTheWay
  <2>2. ~Waits(d)'
    BY <1>6 DEF WaitFor
  <2>3. /\ Slot(e)'.requester_addr = m.addr /\ Slot(e)'.requester_session_id = FromSession(m)
    <3>1. PICK r : r = [requester_pubkey |-> e, requester_addr |-> m.addr,
                        requester_session_id |-> FromSession(m), tm |-> now]
      OBVIOUS
    <3>2. requests'[e] = [b \in {d} |-> r]
      BY <1>6, <3>1 DEF WaitFor
    <3>3. Slot(e)' = r
      BY <1>1, <3>2 DEF Slot
    <3>4. QED
      BY <3>1, <3>3
  <2>4. ASSUME NEW s, Mention(c, a, s)' PROVE Mention(c, a, s)
    <3>1. CASE c \in Clients /\ Waits(c)' /\ a = Slot(c)'.requester_addr
               /\ s = Slot(c)'.requester_session_id
      BY <1>1, <1>4, <2>2, <2>3, <3>1
    <3>2. QED
      BY <2>1, <2>4, <3>1 DEF Mention, IsAsk, From, FromSession, About, At, Under
  <2>5. Target(c, a)' => Target(c, a)
    BY <2>1 DEF Target, About
  <2>6. QED
    BY <2>4, <2>5 DEF Used
<1>7. QED
  BY <1>2, <1>5, <1>6

LEMMA TickMentions ==
    ASSUME SystemAssumption, Ordinary, SysTick, NEW c, NEW a
    PROVE  /\ \A s : Mention(c, a, s)' => Mention(c, a, s)
           /\ Used(c, a)' => Used(c, a)
<1>1. last_session_ids' = last_session_ids
  BY DEF SysTick
<1>2. ASSUME NEW n \in OnTheWay'
      PROVE  \/ n.to # "server" /\ n \in OnTheWay
             \/ /\ n.to = "server"
                /\ \E m \in OnTheWay : /\ IsAsk(m) /\ m.addr = n.addr
                                        /\ From(m) = From(n) /\ FromSession(m) = FromSession(n)
  <2>1. PICK m \in delayed : n = Aged(m)
    BY DEF SysTick, OnTheWay
  <2>2. m \in OnTheWay
    BY DEF OnTheWay
  <2>3. QED
    BY <2>1, <2>2, AgedFields DEF IsAsk
<1>3. ASSUME NEW s, Mention(c, a, s)' PROVE Mention(c, a, s)
  <2>1. CASE c \in Clients /\ Waits(c)' /\ a = Slot(c)'.requester_addr
             /\ s = Slot(c)'.requester_session_id
    BY <2>1, TickKeepsServer DEF Mention
  <2>2. CASE \E n \in OnTheWay' : IsAsk(n) /\ c = From(n) /\ a = n.addr /\ s = FromSession(n)
    BY <1>2, <2>2 DEF Mention, IsAsk
  <2>3. CASE \E n \in OnTheWay' : n.to # "server" /\ c = About(n) /\ a = At(n) /\ s = Under(n)
    BY <1>2, <2>3 DEF Mention
  <2>4. QED
    BY <1>1, <1>3, <2>1, <2>2, <2>3 DEF Mention, IsAsk, From, FromSession, About, At, Under
<1>4. Target(c, a)' => Target(c, a)
  BY <1>2 DEF Target, About
<1>5. QED
  BY <1>3, <1>4 DEF Used

\* A step brings up nothing that was not known.
LEMMA StepMentions ==
    ASSUME SystemAssumption, Ordinary, Agree, [SysNext]_sysVars, NEW c, NEW a
    PROVE  /\ \A s : Mention(c, a, s)' =>
                \/ Mention(c, a, s)
                \/ c \in Clients /\ PlaceConnectionRequest(c) /\ a = socket[c] /\ s = session[c]
           /\ Used(c, a)' =>
                \/ Used(c, a)
                \/ c \in Clients /\ PlaceConnectionRequest(c) /\ a = socket[c]
<1>1. ASSUME NEW m \in wire, Serve(m)
      PROVE  /\ \A s : Mention(c, a, s)' => Mention(c, a, s)
             /\ Used(c, a)' => Used(c, a)
  <2>1. PICK e \in Clients : IsAsk(m) /\ e = From(m) /\ Served(m, e, Other(e))
    BY <1>1, ServeEffect, NothingIsEverRepeated
  <2>2. QED
    BY <2>1, ServeMentions
<1>2. CASE ServerRestarts
  <2>1. DOMAIN requests' = {} /\ DOMAIN last_session_ids' = {} /\ OnTheWay' = OnTheWay
    BY <1>2 DEF ServerRestarts, OnTheWay
  <2>2. QED
    BY <2>1
       DEF Used, Target, Mention, Waits, HasSlot, IsAsk, From, FromSession, About, At, Under
<1>3. ASSUME NEW e \in Clients, PlaceConnectionRequest(e)
      PROVE  /\ \A s : Mention(c, a, s)' =>
                    Mention(c, a, s) \/ (c = e /\ a = socket[c] /\ s = session[c])
             /\ Used(c, a)' => Used(c, a) \/ (c = e /\ a = socket[c])
  <2>1. PICK m : /\ wire' = wire \cup {m} /\ IsAsk(m) /\ m.addr = socket[e]
                 /\ From(m) = e /\ FromSession(m) = session[e]
    BY <1>3, PlaceKeepsDatagrams
  <2>2. OnTheWay' \subseteq OnTheWay \cup {m} /\ UNCHANGED <<requests, last_session_ids>>
    BY <1>3, <2>1 DEF PlaceConnectionRequest, vars, OnTheWay
  <2>3. ASSUME NEW s, Mention(c, a, s)'
        PROVE  Mention(c, a, s) \/ (c = e /\ a = socket[c] /\ s = session[c])
    <3>1. CASE \E n \in OnTheWay' : IsAsk(n) /\ c = From(n) /\ a = n.addr /\ s = FromSession(n)
      BY <2>1, <2>2, <3>1 DEF Mention
    <3>2. CASE \E n \in OnTheWay' : n.to # "server" /\ c = About(n) /\ a = At(n) /\ s = Under(n)
      BY <2>1, <2>2, <3>2 DEF Mention, IsAsk
    <3>3. QED
      BY <2>2, <2>3, <3>1, <3>2
         DEF Mention, Waits, Slot, HasSlot, IsAsk, From, FromSession, About, At, Under
  <2>4. Target(c, a)' => Target(c, a)
    BY <2>1, <2>2 DEF Target, About, IsAsk
  <2>5. QED
    BY <2>3, <2>4 DEF Used
<1>4. ASSUME ~ \E m \in wire : Serve(m), ~ServerRestarts, ~SysTick,
             ~ \E e \in Clients : PlaceConnectionRequest(e)
      PROVE  /\ \A s : Mention(c, a, s)' => Mention(c, a, s)
             /\ Used(c, a)' => Used(c, a)
  <2>1. ASSUME NEW m \in wire, Garble(m)
        PROVE  \A n \in OnTheWay' : n \in OnTheWay \/ (n.to = "server" /\ ~IsAsk(n))
    <3>1. PICK b : /\ wire' = (wire \ {m}) \cup {[m EXCEPT !.bytes = b, !.garbled = TRUE]}
                   /\ m.to = "server" /\ delayed' = delayed
      BY <2>1 DEF Garble
    <3>2. PICK n : n = [m EXCEPT !.bytes = b, !.garbled = TRUE]
      OBVIOUS
    <3>3. m = [to |-> m.to, addr |-> m.addr, garbled |-> m.garbled, bytes |-> m.bytes]
      BY DEF Ordinary, Authentic, WireIsAuthentic, IsMessage
    <3>4. n.to = "server" /\ n.garbled
      BY <3>1, <3>2, <3>3
    <3>5. QED
      BY <3>1, <3>2, <3>4 DEF OnTheWay, IsAsk
  <2>2. ASSUME ~ \E m \in wire : Garble(m)
        PROVE  OnTheWay' \subseteq OnTheWay
    <3>1. CASE \E e \in Clients : Run(e)
      BY <1>4, <3>1 DEF Run, PunchSucceeds, PunchFails, Punched, NoticeDead, on_connection_closed,
                       OnTheWay
    <3>2. CASE Arrive
      BY <1>4, <3>2 DEF Arrive, Reject, Vanishes, AcceptInitiate, IgnoreInitiate, Receives, OnTheWay
    <3>3. CASE Disturbance
      BY <1>4, <2>2, <3>3 DEF Disturbance, Delay, Repeat, ArriveLate, Start, Restart,
              OnlyOneSucceeds, Punched, Break, on_connection_closed, OnTheWay
    <3>4. CASE UNCHANGED sysVars
      BY <3>4 DEF sysVars, OnTheWay
    <3>5. QED
      BY <1>4, <3>1, <3>2, <3>3, <3>4 DEF SysNext
  <2>3. UNCHANGED vars
    BY <1>4, OthersLeaveServer
  <2>4. QED
    BY <2>1, <2>2, <2>3, FewerMentions
<1>5. QED
  BY <1>1, <1>2, <1>3, <1>4, TickMentions

\* A client keeps its socket and its session, or has new ones.
Stays(c) ==
    /\ socket'[c] = socket[c] /\ session'[c] = session[c]
    /\ accepted'[c] = accepted[c]
    /\ mode'[c] = "off" <=> mode[c] = "off"
    /\ Discovers(c) => Discovers(c)'
Renews(c) ==
    /\ socket'[c] = NewSocket /\ session'[c] = NewSession
    /\ mode'[c] # "off"
Starting(c) == Start(c) \/ Restart(c) \/ \E m \in wire : AcceptInitiate(c, m)

LEMMA LeaveWait ==
    ASSUME SystemAssumption, Ordinary, NEW c \in Clients, NEW e \in Clients,
           NEW w \in [Clients -> Nat], Leave(c, w), mode[e] # "connected"
    PROVE  wait'[e] = w[e]
<1>1. Other(c) \in Clients /\ wait \in [Clients -> Nat]
  BY Others DEF Ordinary, ClientsAreOrdinary
<1>2. CASE mode[c] = "connected" /\ mode[Other(c)] = "connected"
  BY <1>1, <1>2 DEF Leave
<1>3. QED
  BY <1>1, <1>2 DEF Leave

LEMMA WhoRenews ==
    ASSUME SystemAssumption, Ordinary, [SysNext]_sysVars
    PROVE  \/ \A e \in Clients : Stays(e) /\ ~Starting(e)
           \/ \E c \in Clients :
                /\ Renews(c) /\ \A e \in Clients : e # c => Stays(e)
                /\ Starting(c)
<1>1. ClientsAreOrdinary
  BY DEF Ordinary
<1>2. ASSUME UNCHANGED <<mode, socket, session, accepted, wait>> PROVE \A e \in Clients : Stays(e)
  BY <1>2 DEF Stays, Discovers
<1>3. ASSUME NEW c \in Clients, Run(c) PROVE \A e \in Clients : Stays(e)
  <2>1. CASE PlaceConnectionRequest(c)
    BY <1>2, <2>1 DEF PlaceConnectionRequest
  <2>2. CASE PunchSucceeds(c)
    BY <1>1, <2>2 DEF PunchSucceeds, Punched, CanMeet, Stays, Discovers, ClientsAreOrdinary
  <2>3. CASE PunchFails(c)
    BY <1>1, <2>3 DEF PunchFails, Punched, Stays, Discovers, ClientsAreOrdinary
  <2>4. CASE NoticeDead(c)
    BY <1>1, <2>4 DEF NoticeDead, IsDead, on_connection_closed, Stays, Discovers, ClientsAreOrdinary
  <2>5. QED
    BY <1>3, <2>1, <2>2, <2>3, <2>4 DEF Run
<1>4. ASSUME NEW c \in Clients, Start(c) \/ Restart(c)
      PROVE  Renews(c) /\ \A e \in Clients : e # c => Stays(e)
  <2>1. /\ mode' = [mode EXCEPT ![c] = "polling"]
        /\ session' = [session EXCEPT ![c] = NewSession]
        /\ socket' = [socket EXCEPT ![c] = NewSocket]
        /\ accepted' = [accepted EXCEPT ![c] = NoSession]
    BY <1>4 DEF Start, Restart, NewEstablisher
  <2>2. ASSUME NEW e \in Clients, e # c, Discovers(e) PROVE wait'[e] = 0
    <3>1. CASE Start(c)
      BY <2>2, <3>1 DEF Start, Discovers
    <3>2. CASE Restart(c)
      <4>1. PICK w : w = [wait EXCEPT ![c] = 0]
        OBVIOUS
      <4>2. w \in [Clients -> Nat] /\ w[e] = 0
        BY <1>1, <2>2, <4>1 DEF ClientsAreOrdinary, Discovers
      <4>3. Leave(c, w) /\ mode[e] # "connected"
        BY <2>2, <3>2, <4>1 DEF Restart, Discovers
      <4>4. QED
        BY <4>2, <4>3, LeaveWait
    <3>3. QED
      BY <1>4, <3>1, <3>2
  <2>3. QED
    BY <1>1, <2>1, <2>2 DEF Renews, Stays, Discovers, ClientsAreOrdinary
<1>5. ASSUME NEW m \in wire, NEW c \in Clients, AcceptInitiate(c, m)
      PROVE  Renews(c) /\ \A e \in Clients : e # c => Stays(e)
  BY <1>1, <1>5 DEF AcceptInitiate, Renews, Stays, Discovers, ClientsAreOrdinary
<1>6. ASSUME Arrive, \A c \in Clients : ~Starting(c) PROVE \A e \in Clients : Stays(e)
  <2>1. ASSUME NEW m \in wire, Serve(m) \/ Reject(m) \/ Vanishes(m)
        PROVE  \A e \in Clients : Stays(e)
    BY <1>2, <2>1 DEF Serve, Reject, Vanishes, clientVars
  <2>2. ASSUME NEW m \in wire, NEW c \in Clients, IgnoreInitiate(c, m)
        PROVE  \A e \in Clients : Stays(e)
    BY <1>2, <2>2 DEF IgnoreInitiate, clientVars
  <2>3. QED
    BY <1>6, <2>1, <2>2 DEF Arrive, Starting
<1>7. ASSUME Disturbance, \A c \in Clients : ~Starting(c) PROVE \A e \in Clients : Stays(e)
  <2>1. ASSUME NEW m, Delay(m) \/ Repeat(m) \/ Garble(m) \/ ArriveLate(m)
        PROVE  \A e \in Clients : Stays(e)
    BY <1>2, <2>1 DEF Delay, Repeat, Garble, ArriveLate, clientVars
  <2>2. ASSUME NEW c \in Clients, OnlyOneSucceeds(c) PROVE \A e \in Clients : Stays(e)
    BY <1>1, <2>2 DEF OnlyOneSucceeds, Punched, CanMeet, Stays, Discovers, ClientsAreOrdinary
  <2>3. ASSUME NEW c \in Clients, Break(c) PROVE \A e \in Clients : Stays(e)
    <3>1. /\ mode' = [mode EXCEPT ![c] = "polling"] /\ UNCHANGED <<socket, session, accepted>>
          /\ mode[c] = "connected" /\ Leave(c, wait)
      BY <2>3 DEF Break, on_connection_closed
    <3>2. ASSUME NEW e \in Clients, Discovers(e) PROVE wait'[e] = 0 /\ e # c
      BY <1>1, <3>1, <3>2, LeaveWait DEF Discovers, ClientsAreOrdinary
    <3>3. QED
      BY <1>1, <3>1, <3>2 DEF Stays, Discovers, ClientsAreOrdinary
  <2>4. CASE ServerRestarts
    BY <1>2, <2>4 DEF ServerRestarts, clientVars
  <2>5. QED
    BY <1>7, <2>1, <2>2, <2>3, <2>4 DEF Disturbance, Starting
<1>8. ASSUME SysTick PROVE \A e \in Clients : Stays(e)
  <2>1. /\ UNCHANGED <<mode, socket, session, accepted>> /\ wait' = [c \in Clients |-> Minus1(wait[c])]
    BY <1>8 DEF SysTick
  <2>2. QED
    BY <2>1 DEF Stays, Discovers, Minus1
<1>9. ASSUME UNCHANGED sysVars PROVE \A e \in Clients : Stays(e)
  BY <1>2, <1>9 DEF sysVars, clientVars
<1>10. CASE \E c \in Clients : Starting(c)
  BY <1>4, <1>5, <1>10 DEF Starting
<1>11. CASE \A c \in Clients : ~Starting(c)
  <2>1. \A e \in Clients : Stays(e)
    BY <1>3, <1>6, <1>7, <1>8, <1>9, <1>11 DEF SysNext
  <2>2. QED
    BY <1>11, <2>1
<1>12. QED
  BY <1>10, <1>11

\* All that is known after a step was known before, or is one client's new identity.
LEMMA StepKnown ==
    ASSUME SystemAssumption, Ordinary, Agree, [SysNext]_sysVars
    PROVE  \E e \in Clients : \A c, a, s :
             Known(c, a, s)' =>
                 Known(c, a, s) \/ (c = e /\ a = NewSocket /\ s = NewSession)
<1>1. ASSUME NEW c, NEW a, NEW s, Mention(c, a, s)' PROVE Known(c, a, s)
  <2>1. CASE Mention(c, a, s)
    BY <2>1 DEF Known
  <2>2. CASE c \in Clients /\ PlaceConnectionRequest(c) /\ a = socket[c] /\ s = session[c]
    BY <2>2 DEF Known, Current, PlaceConnectionRequest, Discovers
  <2>3. QED
    BY <1>1, <2>1, <2>2, StepMentions
<1>2. PICK e \in Clients : /\ \A x \in Clients : x # e => Stays(x)
                           /\ Stays(e) \/ Renews(e)
  <2>1. \E x : x \in Clients
    BY DEF SystemAssumption, TwoClients
  <2>2. QED
    BY <2>1, WhoRenews, Zenon
<1>3. ASSUME NEW c, NEW a, NEW s, Current(c, a, s)'
      PROVE  Known(c, a, s) \/ (c = e /\ a = NewSocket /\ s = NewSession)
  <2>1. c \in Clients /\ mode'[c] # "off" /\ a = socket'[c] /\ s = session'[c]
    BY <1>3 DEF Current
  <2>2. CASE Stays(c)
    BY <2>1, <2>2 DEF Stays, Known, Current
  <2>3. CASE Renews(c) /\ c = e
    BY <2>1, <2>3 DEF Renews
  <2>4. QED
    BY <1>2, <2>1, <2>2, <2>3
<1>4. \A c, a, s : Known(c, a, s)' =>
                      Known(c, a, s) \/ (c = e /\ a = NewSocket /\ s = NewSession)
  <2> TAKE c, a, s
  <2>1. Known(c, a, s)' => Mention(c, a, s)' \/ Current(c, a, s)'
    BY DEF Known
  <2>2. QED
    BY <1>1, <1>3, <2>1
<1>5. QED
  BY <1>4

LEMMA StepAgrees ==
    ASSUME SystemAssumption, Ordinary, Agree, [SysNext]_sysVars
    PROVE  Agree'
<1>1. PICK e \in Clients : \A c, a, s :
             Known(c, a, s)' => Known(c, a, s) \/ (c = e /\ a = NewSocket /\ s = NewSession)
  BY StepKnown
<1>2. \A c, d, a, b, s, t :
        Known(c, a, s)' /\ Known(d, b, t)' /\ (a = b \/ s = t) => c = d /\ a = b /\ s = t
  <2> TAKE c, d, a, b, s, t
  <2> HAVE Known(c, a, s)' /\ Known(d, b, t)' /\ (a = b \/ s = t)
  <2>1. CASE Known(c, a, s) /\ Known(d, b, t)
    BY <2>1, AgreeRule
  <2>2. CASE ~Known(c, a, s)
    <3>1. c = e /\ a = NewSocket /\ s = NewSession
      BY <1>1, <2>2
    <3>2. Known(d, b, t) => b # NewSocket /\ t # NewSession
      BY KnownIsOld
    <3>3. QED
      BY <1>1, <3>1, <3>2
  <2>3. CASE ~Known(d, b, t)
    <3>1. d = e /\ b = NewSocket /\ t = NewSession
      BY <1>1, <2>3
    <3>2. Known(c, a, s) => a # NewSocket /\ s # NewSession
      BY KnownIsOld
    <3>3. QED
      BY <1>1, <3>1, <3>2
  <2>4. QED
    BY <2>1, <2>2, <2>3
<1>3. QED
  BY <1>2 DEF Agree

LEMMA SocketsDiffer ==
    ASSUME SystemAssumption, Ordinary, Agree, NEW c \in Clients, NEW d \in Clients,
           mode[d] # "off", socket[c] = socket[d]
    PROVE  c = d
<1>1. mode[c] # "off"
  BY DEF Ordinary, ClientsAreOrdinary, SystemAssumption, Never
<1>2. Known(c, socket[c], session[c]) /\ Known(d, socket[d], session[d])
  BY <1>1 DEF Known, Current
<1>3. QED
  BY <1>2, AgreeRule

LEMMA StepKeepsPolling ==
    ASSUME SystemAssumption, Ordinary, Agree, UsedIsPolling, [SysNext]_sysVars
    PROVE  UsedIsPolling'
<1>1. ASSUME NEW c \in Clients, NEW d, NEW a, Used(d, a)', a = socket'[c]
      PROVE  d = c /\ Discovers(c)'
  <2>1. Used(d, a) \/ (d \in Clients /\ PlaceConnectionRequest(d) /\ a = socket[d])
    BY <1>1, StepMentions
  <2>2. a # NewSocket
    <3>1. CASE Used(d, a)
      BY <3>1, UsedIsOld
    <3>2. CASE d \in Clients /\ a = socket[d]
      BY <3>2, SocketIsNew
    <3>3. QED
      BY <2>1, <3>1, <3>2
  <2>3. Stays(c) \/ Renews(c)
    BY WhoRenews, Zenon
  <2>4. Stays(c) /\ a = socket[c]
    BY <1>1, <2>2, <2>3 DEF Stays, Renews
  <2>5. d = c /\ Discovers(c)
    <3>1. CASE Used(d, a)
      BY <2>4, <3>1, UsedRule
    <3>2. CASE d \in Clients /\ PlaceConnectionRequest(d) /\ a = socket[d]
      <4>1. Discovers(d) /\ mode[d] # "off"
        BY <3>2 DEF PlaceConnectionRequest, Discovers
      <4>2. QED
        BY <2>4, <3>2, <4>1, SocketsDiffer
    <3>3. QED
      BY <2>1, <3>1, <3>2
  <2>6. QED
    BY <2>4, <2>5 DEF Stays
<1>2. QED
  BY <1>1 DEF UsedIsPolling

LEMMA InitIsIdentified == ASSUME SysInit PROVE Identified
<1>1. /\ DOMAIN requests = {} /\ DOMAIN last_session_ids = {} /\ OnTheWay = {}
      /\ \A c \in Clients : mode[c] = "off"
  BY DEF SysInit, Init, OnTheWay
<1>2. QED
  BY <1>1
     DEF Identified, Agree, UsedIsPolling, Known, Mention, Current, Used, Target, Waits, HasSlot

LEMMA StepIsIdentified ==
    ASSUME SystemAssumption, Ordinary, Identified, [SysNext]_sysVars
    PROVE  Ordinary' /\ Identified'
BY NothingIsEverRepeated, StepIsOrdinary, StepAgrees, StepKeepsPolling DEF Identified

----------------------------------------------------------------------------
(* Type correctness *)

HistoryTypeOK ==
    /\ sent \subseteq InitiateConnectionRequest
    /\ IsMap(latest, Keys, Arrival)
    /\ \A a \in DOMAIN requests : DOMAIN requests[a] # {}

LEMMA ServeKeepsHistory ==
    ASSUME SystemAssumption, Ordinary, Identified, HistoryTypeOK, NEW m \in wire, Serve(m)
    PROVE  HistoryTypeOK'
<1>1. PICK c \in Clients : IsAsk(m) /\ m \in OnTheWay /\ c = From(m) /\ Served(m, c, Other(c))
  BY ServeEffect, NothingIsEverRepeated DEF OnTheWay, Identified
<1>2. PICK d \in Clients : d = Other(c)
  BY Others
<1>3. PICK r : r = ParseRequest(m.bytes, m.addr)
  OBVIOUS
<1>4. r = [sender |-> c, addr |-> m.addr, session |-> FromSession(m),
           peers |-> <<d>>, tm |-> SignedAt(m)]
  BY <1>1, <1>2, <1>3, AskIsRead, Zenon
<1>5. /\ c \in Keys /\ d \in Keys
      /\ m.addr \in Ids /\ m.addr \in Addrs
      /\ FromSession(m) \in Sessions /\ <<d>> \in PeerLists /\ SignedAt(m) \in Int
      /\ now \in Int
  <2>1. m.addr \in Ids /\ FromSession(m) \in Ids /\ SignedAt(m) \in Int /\ now \in Int
    BY <1>1 DEF Ordinary, DatagramsAreOrdinary, AskData
  <2>2. Ids \subseteq Addrs /\ Ids \subseteq Sessions /\ <<Other(c)>> \in PeerLists
    BY DEF SystemAssumption
  <2>3. c \in Keys /\ d \in Keys
    BY DEF Clients
  <2>4. QED
    BY <1>2, <2>1, <2>2, <2>3, Zenon
<1>6. Handle(r) /\ ~ReportLost(r)
  <2>1. Handle(r)
    BY <1>3 DEF Serve
  <2>2. NothingIsRepeated
    BY NothingIsEverRepeated DEF Identified
  <2>3. r.sender = c /\ r.session = FromSession(m)
    BY <1>4
  <2>4. QED
    BY <1>1, <2>1, <2>2, <2>3 DEF ReportLost, RepeatsActiveSession, NothingIsRepeated
<1>7. PICK l : l = Arrived(r)
  OBVIOUS
<1>8. l \in Arrival
  <2>1. l = [sender |-> c, addr |-> m.addr, session |-> FromSession(m),
             peers |-> <<d>>, tm |-> SignedAt(m), at |-> now]
    BY <1>4, <1>7 DEF Arrived
  <2>2. PICK ps \in PeerLists : ps = <<d>>
    BY <1>5
  <2>3. QED
    BY <1>5, <2>1, <2>2 DEF Arrival
<1>9. r.sender = c /\ r.addr = m.addr /\ r.session = FromSession(m)
  BY <1>4
<1>10. latest' = Insert(latest, c, l)
  BY <1>6, <1>7, <1>9 DEF Handle, MatchRequest, PlaceRequest
<1>11. IsMap(latest', Keys, Arrival)
  BY <1>5, <1>8, <1>10 DEF HistoryTypeOK, IsMap, Insert
<1>12. sent' \subseteq InitiateConnectionRequest
  <2>1. CASE MatchRequest(r)
    <3>1. PICK p, pending :
             /\ HasSlot(requests, p, r.sender)
             /\ pending = requests[p][r.sender]
             /\ sent' = {ToOriginal(r, pending), ToNew(r, pending)}
      BY <2>1, MatchRequestTakes, Zenon
    <3>2. /\ p \in Clients /\ SlotData(pending, p)
      BY <3>1 DEF HasSlot, Ordinary, SlotsAreOrdinary
    <3>3. /\ pending.requester_pubkey \in Keys /\ pending.requester_addr \in Addrs
          /\ pending.requester_session_id \in Sessions
      BY <3>2 DEF SlotData, SlotOf, SystemAssumption, Clients
    <3>4. ToOriginal(r, pending) \in InitiateConnectionRequest
      BY <1>5, <1>9, <3>3 DEF ToOriginal, InitiateConnectionRequest
    <3>5. ToNew(r, pending) \in InitiateConnectionRequest
      BY <1>5, <1>9, <3>3 DEF ToNew, InitiateConnectionRequest
    <3>6. QED
      BY <3>1, <3>4, <3>5
  <2>2. CASE PlaceRequest(r)
    BY <2>2 DEF PlaceRequest
  <2>3. QED
    BY <1>6, <2>1, <2>2 DEF Handle
<1>13. \A a \in DOMAIN requests' : DOMAIN requests'[a] # {}
  <2>1. CASE MatchRequest(r)
    <3>1. SubMap(requests', requests)
      BY <2>1, MatchRequestTakes, Zenon
    <3>2. QED
      BY <3>1 DEF SubMap
  <2>2. CASE PlaceRequest(r)
    <3>1. PICK live : live = Cleanup(requests)
      OBVIOUS
    <3>2. SubMap(live, requests)
      BY <3>1, CleanupSubMap
    <3>3. /\ DOMAIN requests' = DOMAIN live \cup {r.sender}
          /\ requests'[r.sender] = SlotsOf(r)
          /\ \A a \in DOMAIN live : a # r.sender => requests'[a] = live[a]
      BY <2>2, <3>1 DEF PlaceRequest, Insert
    <3>4. DOMAIN SlotsOf(r) # {}
      <4>1. r.peers = <<d>>
        BY <1>4
      <4>2. Range(<<d>>) = {d}
        BY DEF Range
      <4>3. QED
        BY <4>1, <4>2 DEF SlotsOf
    <3>5. QED
      BY <3>2, <3>3, <3>4 DEF SubMap
  <2>3. QED
    BY <1>6, <2>1, <2>2 DEF Handle
<1>14. QED
  BY <1>11, <1>12, <1>13 DEF HistoryTypeOK

LEMMA StepKeepsHistory ==
    ASSUME SystemAssumption, Ordinary, Identified, HistoryTypeOK, [SysNext]_sysVars
    PROVE  HistoryTypeOK'
<1>1. CASE SysTick
  BY <1>1 DEF SysTick, HistoryTypeOK, IsMap
<1>2. CASE ServerRestarts
  BY <1>2 DEF ServerRestarts, HistoryTypeOK, IsMap
<1>3. CASE UNCHANGED vars
  BY <1>3 DEF vars, HistoryTypeOK, IsMap
<1>4. QED
  BY <1>1, <1>2, <1>3, ServeKeepsHistory, OthersLeaveServer

LEMMA TypesFollow ==
    ASSUME SystemAssumption, Ordinary, HistoryTypeOK
    PROVE  SysTypeOK
<1>1. now \in Nat /\ Clients = Keys /\ Ids \subseteq Addrs /\ Ids \subseteq Sessions
      /\ Ids \subseteq Nat
  BY DEF Ordinary, Clients, SystemAssumption
<1>2. DOMAIN requests \subseteq Keys
      /\ \A a \in DOMAIN requests : IsMap(requests[a], Keys, PendingRequest)
  <2>1. SUFFICES ASSUME NEW a \in DOMAIN requests
                 PROVE  a \in Keys /\ IsMap(requests[a], Keys, PendingRequest)
    OBVIOUS
  <2>2. /\ a \in Clients /\ requests[a] = [b \in DOMAIN requests[a] |-> requests[a][b]]
        /\ DOMAIN requests[a] \subseteq {Other(a)}
        /\ \A b \in DOMAIN requests[a] : SlotData(requests[a][b], a)
    BY DEF Ordinary, SlotsAreOrdinary
  <2>3. \A b \in DOMAIN requests[a] : requests[a][b] \in PendingRequest
    <3>1. SUFFICES ASSUME NEW b \in DOMAIN requests[a]
                   PROVE  requests[a][b] \in PendingRequest
      OBVIOUS
    <3>2. PICK r : r = requests[a][b] /\ SlotData(r, a)
      BY <2>2
    <3>3. /\ r = [requester_pubkey |-> a, requester_addr |-> r.requester_addr,
                  requester_session_id |-> r.requester_session_id, tm |-> r.tm]
          /\ a \in Keys /\ r.requester_addr \in Addrs
          /\ r.requester_session_id \in Sessions /\ r.tm \in Int
      BY <1>1, <2>2, <3>2 DEF SlotData, SlotOf
    <3>4. r \in PendingRequest
      BY <3>3 DEF PendingRequest
    <3>5. QED
      BY <3>2, <3>4
  <2>4. DOMAIN requests[a] \subseteq Keys
    BY <1>1, <2>2, Others
  <2>5. QED
    BY <1>1, <2>2, <2>3, <2>4 DEF IsMap
<1>3. IsMap(last_session_ids, Keys, ActiveSession)
  <2>1. ASSUME NEW c \in DOMAIN last_session_ids PROVE last_session_ids[c] \in ActiveSession
    <3>1. PICK r : r = last_session_ids[c]
      OBVIOUS
    <3>2. /\ r = [session_id |-> r.session_id, remote_addr |-> r.remote_addr,
                  remote_peer |-> Other(c)]
          /\ r.session_id \in Ids /\ r.remote_addr \in Ids /\ c \in Clients
      BY <3>1 DEF Ordinary, RememberedIsOther
    <3>3. Other(c) \in Keys
      BY <1>1, <3>2, Others
    <3>4. r \in ActiveSession
      BY <1>1, <3>2, <3>3 DEF ActiveSession
    <3>5. QED
      BY <3>1, <3>4
  <2>2. QED
    BY <1>1, <2>1 DEF IsMap, Ordinary, RememberedIsOther
<1>4. TypeOK
  BY <1>1, <1>2, <1>3 DEF TypeOK, HistoryTypeOK
<1>5. {socket, session, accepted} \subseteq [Clients -> {Never} \cup Nat]
  <2>1. /\ socket \in [Clients -> {Never} \cup Ids]
        /\ session \in [Clients -> {NoSession} \cup Ids]
        /\ accepted \in [Clients -> {NoSession} \cup Ids]
    BY DEF Ordinary, ClientsAreOrdinary
  <2>2. Never = NoSession
    BY DEF Never, NoSession
  <2>3. QED
    BY <1>1, <2>1, <2>2
<1>6. QED
  BY <1>4, <1>5 DEF SysTypeOK, Ordinary, ClientsAreOrdinary

SystemIsOrdinary == Ordinary /\ Identified /\ HistoryTypeOK

LEMMA SystemStaysOrdinary ==
    ASSUME SystemAssumption
    PROVE  SysSpec => []SystemIsOrdinary
<1>1. SysInit => SystemIsOrdinary
  BY InitIsOrdinary, InitIsIdentified
     DEF SystemIsOrdinary, HistoryTypeOK, SysInit, Init, IsMap
<1>2. SystemIsOrdinary /\ [SysNext]_sysVars => SystemIsOrdinary'
  BY StepIsIdentified, StepKeepsHistory DEF SystemIsOrdinary
<1>3. QED
  BY <1>1, <1>2, PTL DEF SysSpec

\* Every variable of the server, the clients and the network keeps its type, whatever is
\* lost, repeated, late or garbled and whoever restarts (run_udp_server together with
\* UdpConnectionEstablisher).
THEOREM SystemTypeCorrect ==
    ASSUME SystemAssumption
    PROVE  SysSpec => []SysTypeOK
<1>1. SystemIsOrdinary => SysTypeOK
  BY TypesFollow DEF SystemIsOrdinary
<1>2. QED
  BY SystemStaysOrdinary, <1>1, PTL

\* Every claim is a mention, or the current state of a client.
LEMMA ClaimsAreKnown ==
    ASSUME SystemAssumption, Ordinary, NEW p \in Claims
    PROVE  /\ p = <<p[1], p[2], p[3]>>
           /\ Known(p[1], p[2], p[3])
<1>1. ASSUME NEW r \in Slots
      PROVE  Known(r.requester_pubkey, r.requester_addr, r.requester_session_id)
  <2>1. PICK c \in DOMAIN requests : r \in Range(requests[c])
    BY <1>1 DEF Slots
  <2>2. PICK b \in DOMAIN requests[c] : r = requests[c][b]
    BY <2>1 DEF Range
  <2>3. c \in Clients /\ b = Other(c) /\ SlotData(r, c)
    BY <2>1, <2>2 DEF Ordinary, SlotsAreOrdinary
  <2>4. r.requester_pubkey = c
    BY <2>3 DEF SlotData, SlotOf
  <2>5. Waits(c) /\ r = Slot(c)
    BY <2>1, <2>2, <2>3 DEF Waits, HasSlot, Slot
  <2>6. QED
    BY <2>3, <2>4, <2>5 DEF Known, Mention
<1>2. ASSUME NEW r \in Range(last_session_ids)
      PROVE  Known(r.remote_peer, r.remote_addr, r.session_id)
  <2>1. PICK e \in DOMAIN last_session_ids : r = last_session_ids[e]
    BY <1>2 DEF Range
  <2>2. r.remote_peer = Other(e)
    BY <2>1 DEF Ordinary, RememberedIsOther
  <2>3. QED
    BY <2>1, <2>2 DEF Known, Mention
<1>3. ASSUME NEW m \in OnTheWay, m.to = "server", ~m.garbled
      PROVE  Known(m.bytes[5], m.addr, m.bytes[7])
  BY <1>3 DEF Known, Mention, IsAsk, From, FromSession
<1>4. ASSUME NEW m \in OnTheWay, m.to = "client"
      PROVE  Known(m.bytes[2], m.bytes[3], m.bytes[4])
  <2>1. m.to # "server"
    BY <1>4
  <2>2. QED
    BY <2>1 DEF Known, Mention, About, At, Under
<1>5. ASSUME NEW c \in Clients, mode[c] # "off"
      PROVE  Known(c, socket[c], session[c])
  BY <1>5 DEF Known, Current
<1>6. PICK c, a, s : p = <<c, a, s>> /\ Known(c, a, s)
  <2>1. \/ \E r \in Slots : p = <<r.requester_pubkey, r.requester_addr, r.requester_session_id>>
        \/ \E r \in Range(last_session_ids) : p = <<r.remote_peer, r.remote_addr, r.session_id>>
        \/ \E m \in OnTheWay : m.to = "server" /\ ~m.garbled
                               /\ p = <<m.bytes[5], m.addr, m.bytes[7]>>
        \/ \E m \in OnTheWay : m.to = "client" /\ p = <<m.bytes[2], m.bytes[3], m.bytes[4]>>
        \/ \E c \in Clients : mode[c] # "off" /\ p = <<c, socket[c], session[c]>>
    BY DEF Claims, OnTheWay
  <2>2. QED
    BY <1>1, <1>2, <1>3, <1>4, <1>5, <2>1, Zenon
<1>7. p[1] = c /\ p[2] = a /\ p[3] = s
  BY <1>6
<1>8. QED
  BY <1>6, <1>7

\* The server, the datagrams and the clients never disagree about who is behind an address
\* or a session, and a client that has asked from its current socket goes on listening on it
\* (session_id and the socket are renewed together in poll_accept), whoever restarts and
\* whatever the network does.
THEOREM AddressesAreNotMixedUp ==
    ASSUME SystemAssumption
    PROVE  SysSpec => [](ClaimsAgree /\ UsedIsPolling)
<1>1. ASSUME SystemIsOrdinary
      PROVE  ClaimsAgree /\ UsedIsPolling
  <2>1. Ordinary /\ Agree /\ UsedIsPolling
    BY <1>1 DEF SystemIsOrdinary, Identified
  <2>2. ASSUME NEW p \in Claims, NEW q \in Claims, p[2] = q[2] \/ p[3] = q[3]
        PROVE  p = q
    <3>1. /\ p = <<p[1], p[2], p[3]>> /\ Known(p[1], p[2], p[3])
          /\ q = <<q[1], q[2], q[3]>> /\ Known(q[1], q[2], q[3])
      BY <2>1, ClaimsAreKnown
    <3>2. p[1] = q[1] /\ p[2] = q[2] /\ p[3] = q[3]
      BY <2>1, <2>2, <3>1, AgreeRule
    <3>3. QED
      BY <3>1, <3>2
  <2>3. QED
    BY <2>1, <2>2 DEF ClaimsAgree
<1>2. QED
  BY SystemStaysOrdinary, <1>1, PTL

----------------------------------------------------------------------------
(* How long a client waits *)

Backoff == InTicks(50)

Bounded(c) ==
    /\ mode[c] = "off" => wait[c] = 0
    /\ mode[c] = "polling" => wait[c] <= Backoff /\ (wait[c] > 0 => last[c] = Never)
    /\ mode[c] = "punching" => wait[c] <= PunchTime
    /\ mode[c] = "connected" => wait[c] <= DetectTime /\ last[c] = Never

\* Two clients that are connected are connected to each other.
Paired ==
    (\A c \in Clients : mode[c] = "connected") =>
        \A c \in Clients : wait[c] = 0 /\ match[c].remote = match[Other(c)].own

WaitsAreBounded == (\A c \in Clients : Bounded(c)) /\ Paired

LEMMA BackoffIs == Backoff = 5 /\ \A t \in 1 .. 50 : InTicks(t) \in 1 .. Backoff
<1>1. Backoff = 5
  BY DEF Backoff, InTicks
<1>2. \A t \in 1 .. 50 : InTicks(t) \in 1 .. 5
  BY RetryType
<1>3. QED
  BY <1>1, <1>2

\* A step that leaves a client as it was leaves its bounds as they were.
LEMMA SameIsBounded ==
    ASSUME NEW c \in Clients, Bounded(c),
           mode'[c] = mode[c], wait'[c] = wait[c], last'[c] = last[c]
    PROVE  Bounded(c)'
BY DEF Bounded

LEMMA AllSameAreBounded ==
    ASSUME WaitsAreBounded, UNCHANGED <<mode, wait, last, match>>
    PROVE  WaitsAreBounded'
BY DEF WaitsAreBounded, Bounded, Paired

LEMMA StartIsBounded ==
    ASSUME SystemAssumption, Ordinary, WaitsAreBounded,
           NEW c \in Clients, Start(c) \/ Restart(c)
    PROVE  WaitsAreBounded'
<1>1. PICK d \in Clients : d = Other(c) /\ c # d /\ \A e \in Clients : e = c \/ e = d
  BY Others
<1>2. /\ mode'[c] = "polling" /\ last'[c] = Never
      /\ mode'[d] = mode[d] /\ last'[d] = last[d]
  BY <1>1 DEF Start, Restart, NewEstablisher, Ordinary, ClientsAreOrdinary
<1>3. wait'[c] = 0 /\ (wait'[d] = wait[d] \/ (mode[d] = "connected" /\ wait'[d] = DetectTime))
  <2>1. CASE Start(c)
    BY <2>1 DEF Start, WaitsAreBounded, Bounded
  <2>2. CASE Restart(c)
    BY <1>1, <2>2 DEF Restart, Leave, Ordinary, ClientsAreOrdinary
  <2>3. QED
    BY <2>1, <2>2
<1>4. Bounded(c)'
  BY <1>2, <1>3, BackoffIs DEF Bounded
<1>5. Bounded(d)'
  BY <1>2, <1>3 DEF WaitsAreBounded, Bounded, SystemAssumption
<1>6. Paired'
  BY <1>2 DEF Paired
<1>7. QED
  BY <1>1, <1>4, <1>5, <1>6 DEF WaitsAreBounded

LEMMA AcceptIsBounded ==
    ASSUME SystemAssumption, Ordinary, WaitsAreBounded,
           NEW c \in Clients, NEW m \in wire, AcceptInitiate(c, m)
    PROVE  WaitsAreBounded'
<1>1. PICK d \in Clients : d = Other(c) /\ c # d /\ \A e \in Clients : e = c \/ e = d
  BY Others
<1>2. /\ mode'[c] = "punching" /\ wait'[c] = PunchTime
      /\ mode'[d] = mode[d] /\ last'[d] = last[d] /\ wait'[d] = wait[d]
  BY <1>1 DEF AcceptInitiate, Ordinary, ClientsAreOrdinary
<1>3. Bounded(c)'
  BY <1>2 DEF Bounded, SystemAssumption
<1>4. Bounded(d)'
  BY <1>2, SameIsBounded DEF WaitsAreBounded
<1>5. QED
  BY <1>1, <1>2, <1>3, <1>4 DEF WaitsAreBounded, Paired

LEMMA PunchedIsBounded ==
    ASSUME SystemAssumption, Ordinary, WaitsAreBounded,
           NEW c \in Clients, PunchSucceeds(c) \/ OnlyOneSucceeds(c) \/ PunchFails(c)
    PROVE  WaitsAreBounded'
<1>1. PICK d \in Clients : d = Other(c) /\ c # d /\ c = Other(d) /\ \A e \in Clients : e = c \/ e = d
  BY Others
<1>2. /\ InTicks(retry[c]) \in 1 .. Backoff /\ InTicks(retry[d]) \in 1 .. Backoff
      /\ Backoff = 5 /\ DetectTime \in Nat
  BY BackoffIs DEF Ordinary, ClientsAreOrdinary, SystemAssumption
<1>3. CASE PunchSucceeds(c)
  <2>1. /\ mode'[c] = "connected" /\ wait'[c] = 0 /\ last'[c] = Never
        /\ mode'[d] = "connected" /\ wait'[d] = 0 /\ last'[d] = Never
        /\ match'[c] = match[c] /\ match'[d] = match[d]
    BY <1>1, <1>3 DEF PunchSucceeds, Punched
  <2>2. match[c].remote = match[d].own /\ match[d].remote = match[c].own
    BY <1>1, <1>3 DEF PunchSucceeds, CanMeet
  <2>3. Bounded(c)' /\ Bounded(d)'
    BY <1>2, <2>1 DEF Bounded
  <2>4. QED
    BY <1>1, <2>1, <2>2, <2>3 DEF WaitsAreBounded, Paired
<1>4. CASE OnlyOneSucceeds(c)
  <2>1. /\ mode'[c] = "connected" /\ wait'[c] = DetectTime /\ last'[c] = Never
        /\ mode'[d] = "polling" /\ wait'[d] = InTicks(retry[d]) /\ last'[d] = Never
    BY <1>1, <1>4 DEF OnlyOneSucceeds, Punched
  <2>2. Bounded(c)' /\ Bounded(d)'
    BY <1>2, <2>1 DEF Bounded
  <2>3. QED
    BY <1>1, <2>1, <2>2 DEF WaitsAreBounded, Paired
<1>5. CASE PunchFails(c)
  <2>1. /\ mode'[c] = "polling" /\ wait'[c] = InTicks(retry[c]) /\ last'[c] = Never
        /\ mode'[d] = mode[d] /\ wait'[d] = wait[d] /\ last'[d] = last[d]
    BY <1>1, <1>5 DEF PunchFails, Punched
  <2>2. Bounded(c)' /\ Bounded(d)'
    BY <1>2, <2>1 DEF Bounded, WaitsAreBounded
  <2>3. QED
    BY <1>1, <2>1, <2>2 DEF WaitsAreBounded, Paired
<1>6. QED
  BY <1>3, <1>4, <1>5

LEMMA ClosedIsBounded ==
    ASSUME SystemAssumption, Ordinary, WaitsAreBounded,
           NEW c \in Clients, NoticeDead(c) \/ Break(c)
    PROVE  WaitsAreBounded'
<1>1. PICK d \in Clients : d = Other(c) /\ c # d /\ c = Other(d) /\ \A e \in Clients : e = c \/ e = d
  BY Others
<1>2. /\ mode'[c] = "polling" /\ last'[c] = last[c]
      /\ mode'[d] = mode[d] /\ last'[d] = last[d]
  BY <1>1 DEF NoticeDead, Break, on_connection_closed, Ordinary, ClientsAreOrdinary
<1>3. wait'[c] = 0 /\ (wait'[d] = wait[d] \/ (mode[d] = "connected" /\ wait'[d] = DetectTime))
  <2>1. CASE NoticeDead(c)
    BY <1>1, <2>1 DEF NoticeDead, Ordinary, ClientsAreOrdinary
  <2>2. CASE Break(c)
    <3>1. mode[c] = "connected" /\ mode[d] = "connected" /\ Leave(c, wait)
      BY <1>1, <2>2 DEF Break, IsDead, IsAlive
    <3>2. wait[c] = 0
      BY <1>1, <3>1 DEF WaitsAreBounded, Paired
    <3>3. QED
      BY <1>1, <3>1, <3>2 DEF Leave, Ordinary, ClientsAreOrdinary
  <2>3. QED
    BY <2>1, <2>2
<1>4. Bounded(c)'
  BY <1>2, <1>3, BackoffIs DEF Bounded
<1>5. Bounded(d)'
  BY <1>2, <1>3 DEF WaitsAreBounded, Bounded, SystemAssumption
<1>6. QED
  BY <1>1, <1>2, <1>4, <1>5 DEF WaitsAreBounded, Paired

LEMMA TickIsBounded ==
    ASSUME SystemAssumption, Ordinary, WaitsAreBounded, SysTick
    PROVE  WaitsAreBounded'
<1>1. /\ UNCHANGED <<mode, match>>
      /\ wait' = [c \in Clients |-> Minus1(wait[c])]
      /\ last' = [c \in Clients |-> IF last[c] = Never \/ last[c] = RequestInterval
                                    THEN last[c] ELSE last[c] + 1]
  BY DEF SysTick
<1>2. ASSUME NEW c \in Clients PROVE Bounded(c)'
  <2>1. /\ mode'[c] = mode[c] /\ wait'[c] = Minus1(wait[c])
        /\ last[c] = Never => last'[c] = Never
    BY <1>1
  <2>2. wait[c] \in Nat /\ PunchTime \in Nat /\ DetectTime \in Nat /\ Backoff = 5
    BY BackoffIs DEF Ordinary, ClientsAreOrdinary, SystemAssumption
  <2>3. Bounded(c)
    BY DEF WaitsAreBounded
  <2>4. wait'[c] <= wait[c] /\ wait'[c] \in Nat /\ (wait[c] = 0 => wait'[c] = 0)
    BY <2>1, <2>2 DEF Minus1
  <2>5. QED
    BY <2>1, <2>2, <2>3, <2>4 DEF Bounded
<1>3. Paired'
  BY <1>1 DEF WaitsAreBounded, Paired, Minus1
<1>4. QED
  BY <1>2, <1>3 DEF WaitsAreBounded

LEMMA PlaceIsBounded ==
    ASSUME Ordinary, WaitsAreBounded, NEW c \in Clients, PlaceConnectionRequest(c)
    PROVE  WaitsAreBounded'
<1>1. /\ last' = [last EXCEPT ![c] = 0] /\ UNCHANGED <<mode, wait, match>>
      /\ mode[c] = "polling" /\ wait[c] = 0
  BY DEF PlaceConnectionRequest, Discovers
<1>2. ASSUME NEW e \in Clients PROVE Bounded(e)'
  <2>1. CASE e = c
    BY <1>1, <2>1, BackoffIs DEF Bounded
  <2>2. CASE e # c
    BY <1>1, <2>2, SameIsBounded DEF WaitsAreBounded, Ordinary, ClientsAreOrdinary
  <2>3. QED
    BY <2>1, <2>2
<1>3. Paired'
  BY <1>1 DEF WaitsAreBounded, Paired
<1>4. QED
  BY <1>2, <1>3 DEF WaitsAreBounded

LEMMA StepIsBounded ==
    ASSUME SystemAssumption, Ordinary, WaitsAreBounded, [SysNext]_sysVars
    PROVE  WaitsAreBounded'
<1>1. ASSUME NEW c \in Clients, Run(c) PROVE WaitsAreBounded'
  BY <1>1, PlaceIsBounded, PunchedIsBounded, ClosedIsBounded DEF Run
<1>2. CASE Arrive
  <2>1. ASSUME NEW m \in wire, Serve(m) \/ Reject(m) \/ Vanishes(m) PROVE WaitsAreBounded'
    BY <2>1, AllSameAreBounded DEF Serve, Reject, Vanishes, clientVars
  <2>2. ASSUME NEW m \in wire, NEW c \in Clients, IgnoreInitiate(c, m) PROVE WaitsAreBounded'
    BY <2>2, AllSameAreBounded DEF IgnoreInitiate, clientVars
  <2>3. QED
    BY <1>2, <2>1, <2>2, AcceptIsBounded DEF Arrive
<1>3. CASE Disturbance
  <2>1. ASSUME NEW m, Delay(m) \/ Repeat(m) \/ Garble(m) \/ ArriveLate(m) PROVE WaitsAreBounded'
    BY <2>1, AllSameAreBounded DEF Delay, Repeat, Garble, ArriveLate, clientVars
  <2>2. CASE ServerRestarts
    BY <2>2, AllSameAreBounded DEF ServerRestarts, clientVars
  <2>3. QED
    BY <1>3, <2>1, <2>2, StartIsBounded, PunchedIsBounded, ClosedIsBounded DEF Disturbance
<1>4. CASE UNCHANGED sysVars
  BY <1>4, AllSameAreBounded DEF sysVars, clientVars
<1>5. QED
  BY <1>1, <1>2, <1>3, <1>4, TickIsBounded DEF SysNext

----------------------------------------------------------------------------
(* How two clients meet *)

\* No notification is lost, or comes late even: the server has forgotten the request it
\* answers, and the other client acts on its own. One that comes a second time does no harm.
NoLoss == "notification is delayed" \notin Disturbances

IsTold(n) == n.to # "server"

\* A notification tells c where the other one is now.
Good(n, c) == IsTold(n) /\ n.addr = socket[c] /\ At(n) = socket[Other(c)]

\* Both clients are told, or none.
Mutual == \A n \in OnTheWay : \A c \in Clients : Good(n, c) => \E o \in wire : Good(o, Other(c))

\* c punches at the other one, which is about to read that it is asked to.
MeetNote(n, c) ==
    /\ IsTold(n) /\ n.addr = socket[Other(c)]
    /\ About(n) = c /\ At(n) = match[c].own /\ Under(n) # accepted[Other(c)]

HalfMet(c) ==
    /\ mode[c] = "punching" /\ wait[c] > 0
    /\ match[c].remote = socket[Other(c)]
    /\ \E n \in wire : MeetNote(n, c)

\* A client has acted on the current session of the other one only if that one will follow.
Accepted ==
    \A c \in Clients :
        /\ mode[c] # "off" /\ mode[Other(c)] # "off" /\ accepted[c] = session[Other(c)]
        => HalfMet(c)

\* A client acts on a notification about the current socket of the other one.
LEMMA GoodIsAcceptable ==
    ASSUME SystemAssumption, Ordinary, Identified, Accepted,
           NEW n \in OnTheWay, NEW c \in Clients, Good(n, c)
    PROVE  /\ IsNote(n) /\ n.addr \in Ids
           /\ mode[c] # "off" /\ mode[Other(c)] # "off" /\ Discovers(c)
           /\ About(n) = Other(c) /\ Under(n) = session[Other(c)] /\ accepted[c] # Under(n)
<1>1. PICK d \in Clients : d = Other(c) /\ c # d /\ c = Other(d) /\ \A e \in Clients : e = c \/ e = d
  BY Others
<1>2. IsNote(n)
  BY DEF Good, IsTold, Ordinary, DatagramsAreOrdinary
<1>3. n.addr \in Ids /\ At(n) \in Ids /\ About(n) \in Clients
  BY <1>2, NoteFields
<1>4. n.addr = socket[c] /\ At(n) = socket[d] /\ n.to # "server"
  BY <1>1 DEF Good, IsTold
<1>5. mode[c] # "off" /\ mode[d] # "off"
  <2>1. \A e \in Clients : mode[e] = "off" => socket[e] = Never
    BY DEF Ordinary, ClientsAreOrdinary
  <2>2. Never \notin Ids
    BY DEF SystemAssumption, Never
  <2>3. QED
    BY <1>1, <1>3, <1>4, <2>1, <2>2
<1>6. Other(About(n)) = c /\ Discovers(c)
  <2>1. Used(Other(About(n)), socket[c])
    BY <1>4, NoteIsMention
  <2>2. QED
    BY <2>1, UsedRule DEF Identified
<1>7. About(n) = d
  BY <1>1, <1>3, <1>6, Others
<1>8. Under(n) = session[d]
  <2>1. Known(d, socket[d], Under(n)) /\ Known(d, socket[d], session[d])
    BY <1>4, <1>5, <1>7, NoteIsMention DEF Known, Current
  <2>2. QED
    BY <2>1, AgreeRule DEF Identified
<1>9. accepted[c] # session[d]
  <2>1. mode[c] # "punching"
    BY <1>6 DEF Discovers
  <2>2. QED
    BY <1>1, <1>5, <2>1 DEF Accepted, HalfMet
<1>10. QED
  BY <1>1, <1>2, <1>3, <1>5, <1>6, <1>7, <1>8, <1>9

\* A client acts on the notification of a half met hole punch.
LEMMA MeetIsAcceptable ==
    ASSUME SystemAssumption, Ordinary, Identified,
           NEW n \in OnTheWay, NEW c \in Clients, MeetNote(n, c)
    PROVE  /\ IsNote(n) /\ mode[Other(c)] # "off" /\ Discovers(Other(c))
           /\ Acceptable(Other(c), ParseInitiate(n.bytes))
<1>1. PICK d \in Clients : d = Other(c) /\ c # d /\ c = Other(d)
  BY Others
<1>2. IsNote(n)
  BY DEF MeetNote, IsTold, Ordinary, DatagramsAreOrdinary
<1>3. /\ ParseInitiate(n.bytes).peer_pubkey = About(n)
      /\ ParseInitiate(n.bytes).remote_session_id = Under(n)
  BY <1>2, NoteFields
<1>4. Discovers(d)
  <2>1. Used(d, socket[d])
    BY <1>1, NoteIsMention DEF MeetNote, IsTold
  <2>2. QED
    BY <2>1, UsedRule DEF Identified
<1>5. QED
  BY <1>1, <1>2, <1>3, <1>4 DEF MeetNote, Acceptable, Discovers

\* A notification to a client's current socket is only read by that client.
LEMMA NoteStays ==
    ASSUME SystemAssumption, Ordinary, Identified, NoLoss, [SysNext]_sysVars,
           NEW n \in wire, IsTold(n), NEW c \in Clients, n.addr = socket[c], mode[c] # "off"
    PROVE  n \in wire' \/ AcceptInitiate(c, n) \/ IgnoreInitiate(c, n)
<1>0. SUFFICES ASSUME n \notin wire'
               PROVE  AcceptInitiate(c, n) \/ IgnoreInitiate(c, n)
  OBVIOUS
<1>1. IsNote(n) /\ n.to = "client"
  BY NoteFields DEF IsTold, Ordinary, DatagramsAreOrdinary, OnTheWay
<1>2. ASSUME NEW e \in Clients PROVE ~Run(e)
  BY <1>0, <1>2 DEF Run, PlaceConnectionRequest, PunchSucceeds, PunchFails, Punched, NoticeDead,
                    on_connection_closed
<1>3. ASSUME NEW m \in wire PROVE ~Serve(m) /\ ~Reject(m) /\ ~Vanishes(m)
  BY <1>0, <1>1, <1>3 DEF Serve, Reject, Vanishes
<1>4. ~Disturbance
  <2>1. ASSUME NEW m, Delay(m) \/ Repeat(m) \/ Garble(m) \/ ArriveLate(m) PROVE FALSE
    BY <1>0, <1>1, <2>1 DEF Delay, Repeat, Garble, ArriveLate, Fault, NoLoss
  <2>2. QED
    BY <1>0, <2>1 DEF Disturbance, Start, Restart, OnlyOneSucceeds, Punched, Break,
          on_connection_closed, ServerRestarts
<1>5. ~SysTick /\ ~UNCHANGED sysVars
  BY <1>0 DEF SysTick, sysVars
<1>6. PICK m \in wire, e \in Clients : AcceptInitiate(e, m) \/ IgnoreInitiate(e, m)
  BY <1>2, <1>3, <1>4, <1>5 DEF SysNext, Arrive
<1>7. m = n /\ mode[e] = "polling" /\ n.addr = socket[e]
  BY <1>0, <1>6 DEF AcceptInitiate, IgnoreInitiate, Receives
<1>8. e = c
  BY <1>7, SocketsDiffer DEF Identified
<1>9. QED
  BY <1>6, <1>7, <1>8

\* The only new notifications are those the server sends.
LEMMA NewNotes ==
    ASSUME SystemAssumption, Ordinary, [SysNext]_sysVars, NEW n \in OnTheWay', IsTold(n)
    PROVE  /\ n \in OnTheWay \/ \E m \in wire : Serve(m) /\ n \in Notifications
           /\ n \in wire' => n \in wire \/ (\E m \in wire : Serve(m) /\ n \in Notifications)
                               \/ \E m \in delayed : ArriveLate(m)
<1>1. ASSUME NEW c \in Clients, Run(c) PROVE wire' \subseteq wire \/ PlaceConnectionRequest(c)
  BY <1>1 DEF Run, PunchSucceeds, PunchFails, Punched, NoticeDead, on_connection_closed
<1>2. ASSUME NEW c \in Clients, Run(c) PROVE delayed' = delayed
  BY <1>2 DEF Run, PlaceConnectionRequest, PunchSucceeds, PunchFails, Punched, NoticeDead,
              on_connection_closed
<1>3. ASSUME NEW c \in Clients, PlaceConnectionRequest(c) PROVE n \in wire' => n \in wire
  BY <1>3, PlaceKeepsDatagrams DEF IsTold, IsAsk
<1>4. ASSUME NEW m \in wire, Garble(m) PROVE (n \in wire' => n \in wire) /\ delayed' = delayed
  <2>1. PICK b : /\ wire' = (wire \ {m}) \cup {[m EXCEPT !.bytes = b, !.garbled = TRUE]}
                 /\ m.to = "server" /\ delayed' = delayed
    BY <1>4 DEF Garble
  <2>2. PICK o : o = [m EXCEPT !.bytes = b, !.garbled = TRUE]
    OBVIOUS
  <2>3. m = [to |-> m.to, addr |-> m.addr, garbled |-> m.garbled, bytes |-> m.bytes]
    BY DEF Ordinary, Authentic, WireIsAuthentic, IsMessage
  <2>4. o.to = "server"
    BY <2>1, <2>2, <2>3
  <2>5. QED
    BY <2>1, <2>2, <2>4 DEF IsTold
<1>5. ASSUME NEW m \in wire, Delay(m) \/ Repeat(m)
      PROVE  wire' \subseteq wire /\ delayed' \subseteq OnTheWay
  BY <1>5 DEF Delay, Repeat, OnTheWay
<1>6. ASSUME NEW m \in delayed, ArriveLate(m)
      PROVE  wire' \subseteq OnTheWay /\ delayed' \subseteq delayed
  BY <1>6 DEF ArriveLate, OnTheWay
<1>7. ASSUME NEW m \in wire, Serve(m)
      PROVE  wire' = (wire \ {m}) \cup Notifications /\ delayed' = delayed
  BY <1>7 DEF Serve
<1>8. ASSUME NEW m \in wire, Reject(m) \/ Vanishes(m) PROVE wire' \subseteq wire /\ delayed' = delayed
  BY <1>8 DEF Reject, Vanishes
<1>9. ASSUME NEW m \in wire, NEW c \in Clients, AcceptInitiate(c, m) \/ IgnoreInitiate(c, m)
      PROVE  wire' \subseteq wire /\ delayed' = delayed
  BY <1>9 DEF AcceptInitiate, IgnoreInitiate, Receives
<1>10. ASSUME NEW c \in Clients, Start(c) \/ Restart(c) \/ OnlyOneSucceeds(c) \/ Break(c)
       PROVE  wire' = wire /\ delayed' = delayed
  BY <1>10 DEF Start, Restart, OnlyOneSucceeds, Punched, Break, on_connection_closed
<1>11. CASE ServerRestarts \/ UNCHANGED sysVars
  BY <1>11 DEF ServerRestarts, sysVars, OnTheWay
<1>12. CASE SysTick
  <2>1. wire' = {} /\ delayed' = {Aged(m) : m \in delayed}
    BY <1>12 DEF SysTick
  <2>2. PICK m \in delayed : n = Aged(m)
    BY <2>1 DEF OnTheWay
  <2>3. m.to # "server"
    BY <2>2, AgedFields DEF IsTold, IsAsk
  <2>4. n = m
    BY <2>2, <2>3, AgedFields
  <2>5. QED
    BY <2>1, <2>4 DEF OnTheWay
<1>13. CASE \E c \in Clients : Run(c)
  BY <1>1, <1>2, <1>3, <1>13 DEF OnTheWay
<1>14. CASE Arrive
  BY <1>7, <1>8, <1>9, <1>14 DEF Arrive, OnTheWay
<1>15. CASE Disturbance
  BY <1>4, <1>5, <1>6, <1>10, <1>11, <1>15 DEF Disturbance, OnTheWay
<1>16. QED
  BY <1>11, <1>12, <1>13, <1>14, <1>15 DEF SysNext

\* A half met hole punch that nobody starts anew stays one until the other client follows.
LEMMA HalfMetStays ==
    ASSUME SystemAssumption, Ordinary, Identified, NoLoss, [SysNext]_sysVars,
           NEW c \in Clients, HalfMet(c), \A e \in Clients : Stays(e) /\ ~Starting(e)
    PROVE  HalfMet(c)'
<1>1. PICK d \in Clients : d = Other(c) /\ c # d /\ c = Other(d) /\ \A e \in Clients : e = c \/ e = d
  BY Others
<1>2. PICK n \in wire : MeetNote(n, c)
  BY DEF HalfMet
<1>3. n \in OnTheWay /\ IsNote(n) /\ mode[d] # "off" /\ Discovers(d)
      /\ Acceptable(d, ParseInitiate(n.bytes))
  BY <1>1, <1>2, MeetIsAcceptable DEF OnTheWay
<1>4. n \in wire'
  <2>1. n \in wire' \/ AcceptInitiate(d, n) \/ IgnoreInitiate(d, n)
    BY <1>1, <1>2, <1>3, NoteStays DEF MeetNote
  <2>2. ~AcceptInitiate(d, n)
    BY <1>2 DEF Starting
  <2>3. ~IgnoreInitiate(d, n)
    BY <1>3 DEF IgnoreInitiate
  <2>4. QED
    BY <2>1, <2>2, <2>3
<1>5. mode[c] = "punching" /\ wait[c] > 0 /\ mode[d] = "polling"
  BY <1>3 DEF HalfMet, Discovers
<1>6. mode'[c] = mode[c] /\ wait'[c] = wait[c] /\ match'[c] = match[c]
  <2>1. ASSUME NEW e \in Clients, Run(e)
        PROVE  mode'[c] = mode[c] /\ wait'[c] = wait[c] /\ match'[c] = match[c]
    <3>1. ~PunchSucceeds(e)
      BY <1>1, <1>5 DEF PunchSucceeds, CanMeet
    <3>2. ~PunchFails(e)
      BY <1>1, <1>5 DEF PunchFails
    <3>3. NoticeDead(e) => mode'[c] = mode[c] /\ wait'[c] = wait[c] /\ match'[c] = match[c]
      BY <1>5 DEF NoticeDead, IsDead, on_connection_closed, Ordinary, ClientsAreOrdinary
    <3>4. QED
      BY <2>1, <3>1, <3>2, <3>3 DEF Run, PlaceConnectionRequest
  <2>2. ASSUME Arrive PROVE UNCHANGED <<mode, wait, match>>
    BY <2>2, Zenon DEF Arrive, Serve, Reject, Vanishes, IgnoreInitiate, clientVars, Starting
  <2>3. ASSUME Disturbance PROVE UNCHANGED <<mode, wait, match>>
    <3>1. ASSUME NEW e \in Clients PROVE ~Start(e) /\ ~Restart(e)
      BY <3>1 DEF Starting
    <3>2. ASSUME NEW e \in Clients PROVE ~OnlyOneSucceeds(e) /\ ~Break(e)
      BY <1>1, <1>5, <3>2 DEF OnlyOneSucceeds, CanMeet, Break, IsDead, IsAlive
    <3>3. QED
      BY <2>3, <3>1, <3>2 DEF Disturbance, Delay, Repeat, Garble, ArriveLate, ServerRestarts,
            clientVars
  <2>4. ~SysTick
    BY DEF SysTick
  <2>5. QED
    BY <2>1, <2>2, <2>3, <2>4 DEF SysNext, sysVars, clientVars
<1>7. socket'[d] = socket[d] /\ accepted'[d] = accepted[d]
  BY DEF Stays
<1>8. MeetNote(n, c)'
  BY <1>1, <1>2, <1>6, <1>7 DEF MeetNote, IsTold, About, At, Under
<1>9. QED
  BY <1>1, <1>4, <1>5, <1>6, <1>7, <1>8 DEF HalfMet

\* What remains when c acts on a notification about the current socket of the other one.
LEMMA AcceptHalfMeets ==
    ASSUME SystemAssumption, Ordinary, Identified, NoLoss, Accepted, Mutual,
           NEW m \in wire, NEW c \in Clients, AcceptInitiate(c, m), Good(m, c)
    PROVE  HalfMet(c)'
<1>1. PICK d \in Clients : d = Other(c) /\ c # d /\ c = Other(d)
  BY Others
<1>2. PICK o \in wire : Good(o, d)
  BY <1>1 DEF Mutual, OnTheWay
<1>3. About(o) = c /\ Under(o) # accepted[d] /\ mode[d] # "off"
  BY <1>1, <1>2, GoodIsAcceptable DEF OnTheWay
<1>4. o # m
  BY <1>1, <1>2, <1>3, SocketsDiffer DEF Good, Identified
<1>5. /\ match'[c] = [own |-> socket[c], remote |-> At(m)]
      /\ accepted' = [accepted EXCEPT ![c] = Under(m)]
  BY AcceptKeepsClients
<1>11. match'[c].own = socket[c] /\ match'[c].remote = At(m)
  BY <1>5
<1>6. /\ mode' = [mode EXCEPT ![c] = "punching"] /\ wait' = [wait EXCEPT ![c] = PunchTime]
      /\ socket' = [socket EXCEPT ![c] = NewSocket] /\ wire' = wire \ {m}
  BY DEF AcceptInitiate, Receives
<1>7. mode'[c] = "punching" /\ wait'[c] = PunchTime /\ socket'[d] = socket[d]
      /\ accepted'[d] = accepted[d]
  BY <1>1, <1>5, <1>6 DEF Ordinary, ClientsAreOrdinary
<1>8. PunchTime > 0
  BY DEF SystemAssumption
<1>9. MeetNote(o, c)' /\ o \in wire'
  <2>1. o \in wire'
    BY <1>4, <1>6
  <2>2. o.to # "server" /\ o.addr = socket'[d] /\ At(o) = match'[c].own /\ Under(o) # accepted'[d]
    BY <1>1, <1>2, <1>3, <1>7, <1>11 DEF Good, IsTold
  <2>3. QED
    BY <1>1, <1>3, <2>1, <2>2 DEF MeetNote, IsTold, About, At, Under
<1>10. QED
  BY <1>1, <1>7, <1>8, <1>9, <1>11 DEF HalfMet, Good

LEMMA StepKeepsAccepted ==
    ASSUME SystemAssumption, Ordinary, Identified, NoLoss, Accepted, Mutual, [SysNext]_sysVars
    PROVE  Accepted'
<1>1. SUFFICES ASSUME NEW c \in Clients, NEW d, d = Other(c),
                      mode'[c] # "off", mode'[d] # "off", accepted'[c] = session'[d]
               PROVE  HalfMet(c)'
  BY DEF Accepted
<1>2. d \in Clients /\ c # d /\ c = Other(d) /\ \A e \in Clients : e = c \/ e = d
  BY <1>1, Others
<1>3. CASE \A e \in Clients : Stays(e) /\ ~Starting(e)
  <2>1. mode[c] # "off" /\ mode[d] # "off" /\ accepted[c] = session[d]
    BY <1>1, <1>2, <1>3 DEF Stays
  <2>2. HalfMet(c)
    BY <1>1, <1>2, <2>1 DEF Accepted
  <2>3. QED
    BY <1>3, <2>2, HalfMetStays
<1>4. CASE Renews(c) /\ Stays(d) /\ Starting(c)
  <2>1. mode[d] # "off" /\ accepted'[c] = session[d] /\ session[d] \in Ids
    BY <1>1, <1>2, <1>4 DEF Stays, Ordinary, ClientsAreOrdinary
  <2>2. ~Start(c) /\ ~Restart(c)
    <3>1. accepted'[c] # NoSession
      BY <2>1 DEF SystemAssumption, NoSession
    <3>2. QED
      BY <3>1 DEF Start, Restart, NewEstablisher, Ordinary, ClientsAreOrdinary
  <2>3. PICK m \in wire : AcceptInitiate(c, m)
    BY <1>4, <2>2 DEF Starting
  <2>4. /\ IsNote(m) /\ m.addr = socket[c] /\ About(m) = d
        /\ accepted' = [accepted EXCEPT ![c] = Under(m)]
    BY <1>1, <2>3, AcceptKeepsClients
  <2>5. Under(m) = session[d] /\ IsTold(m)
    BY <2>1, <2>4, NoteFields DEF Ordinary, ClientsAreOrdinary, IsTold
  <2>6. At(m) = socket[d]
    <3>1. Known(d, At(m), Under(m)) /\ Known(d, socket[d], session[d])
      BY <1>2, <2>1, <2>4, <2>5, NoteIsMention DEF Known, Current, OnTheWay, IsTold
    <3>2. QED
      BY <2>5, <3>1, AgreeRule DEF Identified
  <2>7. Good(m, c)
    BY <1>1, <2>4, <2>5, <2>6 DEF Good
  <2>8. QED
    BY <2>3, <2>7, AcceptHalfMeets
<1>5. CASE Renews(d) /\ Stays(c)
  BY <1>1, <1>2, <1>5, SessionIsNew DEF Renews, Stays
<1>6. QED
  BY <1>2, <1>3, <1>4, <1>5, WhoRenews

\* Each client is told where the other one asked from.
LEMMA Introduced ==
    ASSUME SystemAssumption, Ordinary, NEW m \in wire, IsAsk(m),
           NEW c \in Clients, NEW d \in Clients, c = From(m), d = Other(c), Introduce(m, c, d)
    PROVE  /\ Waits(d)
           /\ \E n1, n2 :
                /\ Notifications = {n1, n2} /\ IsNote(n1) /\ IsNote(n2)
                /\ IsTold(n1) /\ n1.addr = Slot(d).requester_addr
                /\ At(n1) = m.addr /\ About(n1) = c
                /\ IsTold(n2) /\ n2.addr = m.addr
                /\ At(n2) = Slot(d).requester_addr /\ About(n2) = d
<1>1. PICK a, s, b, t : /\ a = Slot(d).requester_addr /\ s = Slot(d).requester_session_id
                       /\ b = m.addr /\ t = FromSession(m)
  OBVIOUS
<1>2. a \in Ids /\ s \in Ids /\ b \in Ids /\ t \in Ids
  <2>1. a \in Ids /\ s \in Ids
    BY <1>1 DEF Introduce, Matches, Waits, HasSlot, Slot, Ordinary, SlotsAreOrdinary, SlotData
  <2>2. b \in Ids /\ t \in Ids
    BY <1>1 DEF Ordinary, DatagramsAreOrdinary, OnTheWay, AskData
  <2>3. QED
    BY <2>1, <2>2
<1>3. PICK n1, n2 : n1 = Note(a, c, b, t, 0) /\ n2 = Note(b, d, a, s, 1)
  OBVIOUS
<1>4. Notifications = {n1, n2} /\ Waits(d)
  BY <1>1, <1>3 DEF Introduce, Matches
<1>5. 0 \in {0, 1} /\ 1 \in {0, 1}
  OBVIOUS
<1>6. IsNote(n1) /\ n1.to = "client" /\ n1.addr = a /\ About(n1) = c /\ At(n1) = b
  BY <1>2, <1>3, <1>5, NoteIsOrdinary
<1>7. IsNote(n2) /\ n2.to = "client" /\ n2.addr = b /\ About(n2) = d /\ At(n2) = a
  BY <1>2, <1>3, <1>5, NoteIsOrdinary
<1>8. IsTold(n1) /\ IsTold(n2)
  BY <1>6, <1>7 DEF IsTold
<1>9. QED
  BY <1>1, <1>4, <1>6, <1>7, <1>8

LEMMA StepKeepsMutual ==
    ASSUME SystemAssumption, Ordinary, Identified, NoLoss, Accepted, Mutual, [SysNext]_sysVars
    PROVE  Mutual'
<1>1. SUFFICES ASSUME NEW n \in OnTheWay', NEW c \in Clients, Good(n, c)'
               PROVE  \E o \in wire' : Good(o, Other(c))'
  BY DEF Mutual
<1>2. PICK d \in Clients : d = Other(c) /\ c # d /\ c = Other(d) /\ \A e \in Clients : e = c \/ e = d
  BY Others
<1>3. IsTold(n) /\ n.addr = socket'[c] /\ At(n) = socket'[d]
  BY <1>1, <1>2 DEF Good, IsTold, At
<1>4. CASE \A e \in Clients : Stays(e) /\ ~Starting(e)
  <2>1. socket'[c] = socket[c] /\ socket'[d] = socket[d]
    BY <1>4 DEF Stays
  <2>2. CASE n \in OnTheWay
    <3>1. Good(n, c)
      BY <1>2, <1>3, <2>1 DEF Good
    <3>2. PICK o \in wire : Good(o, d)
      BY <1>2, <2>2, <3>1 DEF Mutual
    <3>3. /\ IsNote(o) /\ mode[d] # "off" /\ Discovers(d) /\ About(o) = c
          /\ accepted[d] # Under(o)
      BY <1>2, <3>2, GoodIsAcceptable DEF OnTheWay
    <3>4. ~IgnoreInitiate(d, o)
      BY <1>2, <3>3, NoteFields DEF IgnoreInitiate, Acceptable
    <3>5. o \in wire'
      BY <1>4, <3>2, <3>3, <3>4, NoteStays DEF Good, Starting
    <3>6. Good(o, d)'
      BY <1>2, <2>1, <3>2 DEF Good, IsTold, At
    <3>7. QED
      BY <1>2, <3>5, <3>6
  <2>3. CASE \E m \in wire : Serve(m) /\ n \in Notifications
    <3>1. PICK m \in wire : Serve(m) /\ n \in Notifications
      BY <2>3
    <3>2. PICK f \in Clients : IsAsk(m) /\ f = From(m) /\ Served(m, f, Other(f))
      BY <3>1, ServeEffect, NothingIsEverRepeated DEF Identified
    <3>3. PICK g \in Clients : g = Other(f) /\ g # f
      BY Others
    <3>4. Introduce(m, f, g)
      BY <3>1, <3>2, <3>3 DEF Served, WaitFor
    <3>5. PICK n1, n2 :
            /\ Notifications = {n1, n2}
            /\ IsTold(n1) /\ n1.addr = Slot(g).requester_addr /\ At(n1) = m.addr
            /\ IsTold(n2) /\ n2.addr = m.addr /\ At(n2) = Slot(g).requester_addr
      BY <3>2, <3>3, <3>4, Introduced
    <3>6. n1 \in wire' /\ n2 \in wire'
      BY <3>2, <3>5 DEF Served
    <3>10. PICK o \in wire' : IsTold(o) /\ o.addr = At(n) /\ At(o) = n.addr
      BY <3>1, <3>5, <3>6
    <3>11. Good(o, d)'
      BY <1>2, <1>3, <3>10 DEF Good, IsTold, At
    <3>12. QED
      BY <1>2, <3>10, <3>11
  <2>4. QED
    BY <1>3, <2>2, <2>3, NewNotes
<1>5. CASE \E e \in Clients : Renews(e) /\ Starting(e)
  <2>1. PICK e \in Clients : Renews(e) /\ Starting(e)
    BY <1>5
  <2>2. OnTheWay' \subseteq OnTheWay
    BY <2>1 DEF Starting, Start, Restart, AcceptInitiate, Receives, OnTheWay
  <2>3. n.addr # NewSocket /\ At(n) # NewSocket
    BY <1>3, <2>2, SocketIsNew DEF IsTold
  <2>4. QED
    BY <1>2, <1>3, <2>1, <2>3 DEF Renews
<1>6. QED
  BY <1>4, <1>5, WhoRenews

LEMMA InitIsMet == ASSUME SysInit PROVE Accepted /\ Mutual
<1>1. OnTheWay = {} /\ \A c \in Clients : mode[c] = "off"
  BY DEF SysInit, OnTheWay
<1>2. QED
  BY <1>1 DEF Accepted, Mutual

\* A client never discards a notification about the current socket of the other one
\* (is_discovery_enabled and last_accepted_session_id in poll_accept), and if it has acted on
\* one then the other one's notification is on its way: no hole punch at a current socket
\* begins on one side only, as long as no notification is late or lost.
THEOREM BothFollow ==
    ASSUME SystemAssumption, NoLoss
    PROVE  SysSpec =>
             /\ [](Accepted /\ Mutual)
             /\ [][\A c \in Clients : \A m \in wire : Good(m, c) => ~IgnoreInitiate(c, m)]_sysVars
<1>1. SysInit => Accepted /\ Mutual
  BY InitIsMet
<1>2. SystemIsOrdinary /\ Accepted /\ Mutual /\ [SysNext]_sysVars => Accepted' /\ Mutual'
  BY StepKeepsAccepted, StepKeepsMutual DEF SystemIsOrdinary
<1>3. SystemIsOrdinary /\ Accepted =>
        \A c \in Clients : \A m \in wire : Good(m, c) => ~IgnoreInitiate(c, m)
  <2>1. SUFFICES ASSUME SystemIsOrdinary, Accepted, NEW c \in Clients, NEW m \in wire, Good(m, c)
                 PROVE  ~IgnoreInitiate(c, m)
    OBVIOUS
  <2>2. /\ IsNote(m) /\ Discovers(c) /\ About(m) = Other(c) /\ accepted[c] # Under(m)
    BY <2>1, GoodIsAcceptable DEF SystemIsOrdinary, OnTheWay
  <2>3. QED
    BY <2>2, NoteFields DEF IgnoreInitiate, Acceptable
<1>4. QED
  BY <1>1, <1>2, <1>3, SystemStaysOrdinary, PTL DEF SysSpec

----------------------------------------------------------------------------
(* Recovery: what is left of the time *)

\* A client that was told of a socket that is gone, or whose request is not answered, asks
\* again after at most a turn; after a disturbance the first turn may be longer.
Turn == IF PunchTime + Backoff > RequestInterval THEN PunchTime + Backoff ELSE RequestInterval
FirstTurn == IF DetectTime > Turn THEN DetectTime ELSE Turn
Bound == FirstTurn + Turn

\* No notification is late or lost, requests are repeated before they expire, and
\* RecoveryTime is long enough.
RecoveryAssumption ==
    /\ SystemAssumption /\ NoLoss
    /\ RequestInterval < REQUEST_TIMEOUT_S
    /\ RecoveryTime >= Bound

Healthy == Ordinary /\ Identified /\ WaitsAreBounded /\ Accepted /\ Mutual /\ NoMutualSlots

AllOn == \A c \in Clients : mode[c] # "off"
Connected == \A c \in Clients : IsAlive(c)
TimeLeft == Bound - calm

\* Ticks until c asks the server, if nothing comes in between.
DueIn(c) ==
    CASE mode[c] = "punching" -> wait[c] + InTicks(retry[c])
      [] mode[c] = "polling" /\ wait[c] = 0 ->
           IF last[c] = Never THEN 0 ELSE RequestInterval - last[c]
      [] OTHER -> wait[c]

----------------------------------------------------------------------------
(* Recovery: the stages *)

IsRequestOf(m, c) == m.to = "server" /\ From(m) = c
Asking(c) == \E m \in wire : IsRequestOf(m, c)
Told(c) == \E n \in wire : IsTold(n) /\ n.addr = socket[c]

\* The server has a request of c from a socket that is gone, or from the current one.
Stale(c) == Waits(c) /\ Slot(c).requester_addr # socket[c]
Fresh(c) ==
    /\ Waits(c) /\ Slot(c).requester_addr = socket[c]
    /\ last[c] # Never /\ -Slot(c).tm <= last[c]

\* c punches, and the other one can only do the same.
OneAccepted(c) ==
    /\ HalfMet(c)
    /\ \A n \in wire : IsTold(n) /\ n.addr = socket[Other(c)] => At(n) = match[c].own
    /\ \A m \in wire : IsAsk(m) /\ From(m) = c => m.addr = match[c].own
    /\ Waits(c) => Slot(c).requester_addr = match[c].own

\* Each client is told where the other one is.
BothTold ==
    \A c \in Clients :
        /\ \E n \in wire : Good(n, c)
        /\ \A n \in wire : IsTold(n) /\ n.addr = socket[c] => Good(n, c)
        /\ \A m \in wire : IsAsk(m) /\ From(m) = c => m.addr = socket[c]
        /\ ~Stale(c)

\* The requests on their way are those of this tick, at most one of each client.
RequestsAreCurrent ==
    \A m \in wire : m.to = "server" =>
        /\ IsAsk(m) /\ m.addr = socket[From(m)]
        /\ SignedAt(m) = 0 /\ last[From(m)] = 0
        /\ \A o \in wire : IsRequestOf(o, From(m)) => o = m

\* A client that is told of a socket that is gone starts over with a server that has
\* forgotten both clients' old requests.
MisledOnce(c) ==
    Told(c) => /\ last[c] = 0 /\ ~Asking(c) /\ ~Waits(c)
               /\ ~Stale(Other(c)) /\ ~Told(Other(c))
               /\ Turn <= TimeLeft

\* When c asks and is misled by an old request of the other one, time is left for a turn.
MisledInTime(c) ==
    Stale(Other(c)) => (Turn + DueIn(c) <= TimeLeft) \/ (Asking(c) /\ Turn <= TimeLeft)

AsksInTime(c) == DueIn(c) <= TimeLeft \/ Asking(c) \/ Fresh(c) \/ Told(c)

Apart ==
    /\ RequestsAreCurrent
    /\ \A c \in Clients : MisledOnce(c) /\ MisledInTime(c) /\ AsksInTime(c)

Meeting ==
    \/ \E c \in Clients : CanMeet(c) \/ OneAccepted(c)
    \/ BothTold
    \/ Apart

Recovering == AllOn /\ calm > 0 => Connected \/ (calm <= Bound /\ Meeting)

----------------------------------------------------------------------------
(* Recovery: numbers *)

LEMMA Durations ==
    ASSUME RecoveryAssumption
    PROVE  /\ Turn \in Nat /\ FirstTurn \in Nat /\ Bound \in Nat /\ RecoveryTime \in Nat
           /\ Bound = FirstTurn + Turn /\ Bound <= RecoveryTime
           /\ Turn <= FirstTurn /\ DetectTime <= FirstTurn /\ DetectTime \in Nat
           /\ RequestInterval \in Nat \ {0} /\ RequestInterval <= Turn
           /\ RequestInterval < REQUEST_TIMEOUT_S /\ REQUEST_TIMEOUT_S \in Nat
           /\ PunchTime \in Nat \ {0} /\ PunchTime + Backoff <= Turn /\ Backoff = 5
<1>1. Backoff = 5
  BY BackoffIs
<1>2. /\ RequestInterval \in Nat \ {0} /\ PunchTime \in Nat \ {0} /\ DetectTime \in Nat
      /\ RecoveryTime \in Nat /\ REQUEST_TIMEOUT_S \in Nat
  BY TimeoutsAssumption DEF RecoveryAssumption, SystemAssumption
<1>3. Turn \in Nat /\ RequestInterval <= Turn /\ PunchTime + Backoff <= Turn
  BY <1>1, <1>2 DEF Turn
<1>4. FirstTurn \in Nat /\ Turn <= FirstTurn /\ DetectTime <= FirstTurn
  BY <1>2, <1>3 DEF FirstTurn
<1>5. Bound \in Nat /\ Bound = FirstTurn + Turn
  BY <1>3, <1>4 DEF Bound
<1>6. QED
  BY <1>1, <1>2, <1>3, <1>4, <1>5 DEF RecoveryAssumption

LEMMA ClientData ==
    ASSUME Ordinary, NEW c \in Clients
    PROVE  /\ mode[c] \in {"off", "polling", "punching", "connected"}
           /\ wait[c] \in Nat /\ retry[c] \in 1 .. 50 /\ InTicks(retry[c]) \in 1 .. Backoff
           /\ last[c] = Never \/ last[c] \in 0 .. RequestInterval
           /\ Never = -1 /\ calm \in Nat
BY BackoffIs DEF Ordinary, ClientsAreOrdinary, Never

LEMMA DueType ==
    ASSUME RecoveryAssumption, Ordinary, NEW c \in Clients
    PROVE  DueIn(c) \in Nat /\ TimeLeft \in Int
<1>1. RequestInterval \in Nat /\ Bound \in Nat /\ Backoff = 5
  BY Durations
<1>2. TimeLeft \in Int
  BY <1>1, ClientData DEF TimeLeft
<1>3. DueIn(c) \in Nat
  BY <1>1, ClientData DEF DueIn
<1>4. QED
  BY <1>2, <1>3

\* A client that stays as it is has the same time left.
LEMMA SameDue ==
    ASSUME NEW c, mode'[c] = mode[c], wait'[c] = wait[c], retry'[c] = retry[c], last'[c] = last[c]
    PROVE  DueIn(c)' = DueIn(c)
BY DEF DueIn

LEMMA SameTime == ASSUME calm' = calm PROVE TimeLeft' = TimeLeft
BY DEF TimeLeft

----------------------------------------------------------------------------
(* Recovery: from each stage to a later one *)

LEMMA QuietStep ==
    ASSUME [SysNext]_sysVars, calm' # 0
    PROVE  /\ \/ \E c \in Clients : Run(c)
              \/ Arrive \/ SysTick \/ UNCHANGED sysVars
           /\ SysTick \/ calm' = calm
           /\ \A c \in Clients : ~Start(c) /\ ~Restart(c)
<1>1. ~Disturbance
  BY DEF Disturbance, Delay, Repeat, Garble, ArriveLate, Start, Restart, OnlyOneSucceeds, Break,
         ServerRestarts, Fault, Disturb
<1>2. ASSUME NEW c \in Clients, Run(c) PROVE calm' = calm
  BY <1>2 DEF Run, PlaceConnectionRequest, PunchSucceeds, PunchFails, NoticeDead
<1>3. Arrive => calm' = calm
  BY DEF Arrive, Serve, Reject, Vanishes, AcceptInitiate, IgnoreInitiate, Receives
<1>4. QED
  BY <1>1, <1>2, <1>3 DEF SysNext, sysVars, Disturbance

\* A connection does not end by itself.
LEMMA ConnectedStays ==
    ASSUME RecoveryAssumption, Healthy, Connected, [SysNext]_sysVars, calm' # 0
    PROVE  Connected'
<1>1. \A c \in Clients : mode[c] = "connected" /\ ~IsDead(c)
  BY DEF Connected, IsAlive, IsDead
<1>2. \A c \in Clients : Other(c) \in Clients
  BY Others DEF RecoveryAssumption
<1>3. ASSUME NEW c \in Clients PROVE ~Run(c)
  BY <1>1, <1>3 DEF Run, PlaceConnectionRequest, Discovers, PunchSucceeds, CanMeet, PunchFails,
                    NoticeDead
<1>4. ASSUME Arrive PROVE UNCHANGED <<mode, match>>
  <2>1. ASSUME NEW m \in wire, NEW c \in Clients PROVE ~AcceptInitiate(c, m)
    BY <1>1, <2>1 DEF AcceptInitiate, Receives
  <2>2. QED
    BY <1>4, <2>1 DEF Arrive, Serve, Reject, Vanishes, IgnoreInitiate, clientVars
<1>5. UNCHANGED <<mode, match>>
  BY <1>3, <1>4, QuietStep DEF SysTick, sysVars, clientVars
<1>6. QED
  BY <1>5 DEF Connected, IsAlive

\* Two that punch at each other get connected.
LEMMA CanMeetStays ==
    ASSUME RecoveryAssumption, Healthy, NEW c \in Clients, CanMeet(c), [SysNext]_sysVars, calm' # 0
    PROVE  (Connected' \/ CanMeet(c)') /\ calm' = calm
<1>1. PICK d \in Clients : d = Other(c) /\ c # d /\ c = Other(d) /\ \A e \in Clients : e = c \/ e = d
  BY Others DEF RecoveryAssumption
<1>2. /\ \A e \in Clients : mode[e] = "punching" /\ CanMeet(e)
      /\ match[c].remote = match[d].own /\ match[d].remote = match[c].own
  BY <1>1 DEF CanMeet
<1>3. ASSUME NEW e \in Clients, Run(e) PROVE Connected'
  <2>1. PunchSucceeds(e)
    BY <1>2, <1>3 DEF Run, PlaceConnectionRequest, Discovers, PunchFails, NoticeDead, IsDead
  <2>2. {e, Other(e)} = Clients
    BY <1>1, Others DEF RecoveryAssumption
  <2>3. Punched(Clients, Clients, 0)
    BY <2>1, <2>2 DEF PunchSucceeds
  <2>4. mode'[c] = "connected" /\ mode'[d] = "connected"
        /\ match'[c] = match[c] /\ match'[d] = match[d]
    BY <2>3 DEF Punched
  <2>5. QED
    BY <1>1, <1>2, <2>4 DEF Connected, IsAlive
<1>4. ASSUME Arrive PROVE UNCHANGED <<mode, match>>
  <2>1. ASSUME NEW m \in wire, NEW e \in Clients PROVE ~AcceptInitiate(e, m)
    BY <1>2, <2>1 DEF AcceptInitiate, Receives
  <2>2. QED
    BY <1>4, <2>1 DEF Arrive, Serve, Reject, Vanishes, IgnoreInitiate, clientVars
<1>5. ~SysTick
  BY <1>2 DEF SysTick
<1>6. UNCHANGED <<mode, match>> => CanMeet(c)'
  BY DEF CanMeet
<1>7. QED
  BY <1>3, <1>4, <1>5, <1>6, QuietStep DEF sysVars, clientVars
\* What the server's answer means for the stages: both clients are told and forgotten, or
\* one of them waits.
Answered(m, f, g) ==
    /\ Waits(g)
    /\ \E n1, n2 :
         /\ wire' = (wire \ {m}) \cup {n1, n2}
         /\ IsTold(n1) /\ n1.addr = Slot(g).requester_addr /\ At(n1) = m.addr
         /\ IsTold(n2) /\ n2.addr = m.addr /\ At(n2) = Slot(g).requester_addr
    /\ ~Waits(f)' /\ ~Waits(g)'

Kept(m, f, g) ==
    /\ ~Matches(g)
    /\ wire' = wire \ {m}
    /\ Waits(f)' /\ Slot(f)'.requester_addr = m.addr /\ Slot(f)'.tm = 0
    /\ ~Waits(g)'

LEMMA ServeOutcome ==
    ASSUME SystemAssumption, Ordinary, Identified, NEW m \in wire, Serve(m)
    PROVE  /\ IsAsk(m) /\ From(m) \in Clients /\ UNCHANGED clientVars /\ calm' = calm
           /\ \/ Answered(m, From(m), Other(From(m)))
              \/ Kept(m, From(m), Other(From(m)))
<1>1. PICK f, g : f = From(m) /\ g = Other(f)
  OBVIOUS
<1>2. IsAsk(m) /\ f \in Clients /\ Served(m, f, g)
  BY <1>1, ServeEffect, NothingIsEverRepeated DEF Identified
<1>3. g \in Clients /\ g # f
  BY <1>1, <1>2, Others
<1>4. CASE Introduce(m, f, g)
  <2>1. PICK n1, n2 :
          /\ Notifications = {n1, n2}
          /\ IsTold(n1) /\ n1.addr = Slot(g).requester_addr /\ At(n1) = m.addr
          /\ IsTold(n2) /\ n2.addr = m.addr /\ At(n2) = Slot(g).requester_addr
    BY <1>1, <1>2, <1>3, <1>4, Introduced
  <2>2. wire' = (wire \ {m}) \cup {n1, n2}
    BY <1>2, <2>1 DEF Served
  <2>3. QED
    BY <1>1, <1>2, <1>4, <2>1, <2>2 DEF Answered, Introduce, Matches, Served
<1>5. CASE WaitFor(m, f, g)
  <2>1. PICK r : r = [requester_pubkey |-> f, requester_addr |-> m.addr,
                      requester_session_id |-> FromSession(m), tm |-> now]
    OBVIOUS
  <2>2. requests'[f] = [b \in {g} |-> r] /\ f \in DOMAIN requests'
    BY <1>5, <2>1 DEF WaitFor
  <2>3. Slot(f)' = r /\ Waits(f)'
    BY <1>1, <2>2 DEF Slot, Waits, HasSlot
  <2>4. Slot(f)'.requester_addr = m.addr /\ Slot(f)'.tm = 0
    BY <2>1, <2>3 DEF Ordinary
  <2>5. wire' = wire \ {m}
    BY <1>2, <1>5 DEF Served, WaitFor
  <2>6. QED
    BY <1>1, <1>2, <1>5, <2>3, <2>4, <2>5 DEF Kept, WaitFor, Served
<1>6. QED
  BY <1>1, <1>2, <1>4, <1>5 DEF Served

\* Where the clients are while the datagrams of a tick arrive.
LEMMA NewAsks ==
    ASSUME SystemAssumption, Ordinary, Identified, [SysNext]_sysVars, calm' # 0,
           NEW m \in wire', m.to = "server"
    PROVE  \/ m \in wire
           \/ \E c \in Clients : /\ PlaceConnectionRequest(c) /\ wire' = wire \cup {m}
                                 /\ IsAsk(m) /\ From(m) = c /\ m.addr = socket[c] /\ SignedAt(m) = 0
<1>1. ASSUME NEW c \in Clients, PlaceConnectionRequest(c), m \notin wire
      PROVE  /\ wire' = wire \cup {m}
             /\ IsAsk(m) /\ From(m) = c /\ m.addr = socket[c] /\ SignedAt(m) = 0
  BY <1>1, PlaceKeepsDatagrams
<1>2. ASSUME NEW c \in Clients, Run(c) PROVE wire' \subseteq wire \/ PlaceConnectionRequest(c)
  BY <1>2 DEF Run, PunchSucceeds, PunchFails, Punched, NoticeDead, on_connection_closed
<1>3. ASSUME NEW o \in wire, Serve(o) PROVE m \in wire
  BY <1>3, ServeOutcome DEF Answered, Kept, IsTold
<1>4. Arrive => m \in wire
  BY <1>3 DEF Arrive, Reject, Vanishes, AcceptInitiate, IgnoreInitiate, Receives
<1>5. QED
  BY <1>1, <1>2, <1>4, QuietStep DEF SysTick, sysVars

LEMMA NewSlots ==
    ASSUME SystemAssumption, Ordinary, Identified, [SysNext]_sysVars, calm' # 0,
           NEW c \in Clients, Waits(c)'
    PROVE  \/ Waits(c) /\ Slot(c)'.requester_addr = Slot(c).requester_addr
           \/ \E m \in wire : /\ Serve(m) /\ IsAsk(m) /\ From(m) = c
                             /\ Slot(c)'.requester_addr = m.addr
<1>1. ASSUME NEW m \in wire, Serve(m)
      PROVE  IsAsk(m) /\ From(m) = c /\ Slot(c)'.requester_addr = m.addr
  <2>1. c = From(m) \/ c = Other(From(m))
    BY <1>1, ServeOutcome, Others
  <2>2. QED
    BY <1>1, <2>1, ServeOutcome DEF Answered, Kept
<1>2. ~ServerRestarts
  BY DEF ServerRestarts, Fault, Disturb
<1>3. UNCHANGED vars => Waits(c) /\ Slot(c)'.requester_addr = Slot(c).requester_addr
  BY DEF vars, Waits, HasSlot, Slot
<1>4. SysTick => Waits(c) /\ Slot(c)'.requester_addr = Slot(c).requester_addr
  BY TickKeepsServer
<1>5. QED
  BY <1>1, <1>2, <1>3, <1>4, OthersLeaveServer

LEMMA OneAcceptedStays ==
    ASSUME RecoveryAssumption, Healthy, NEW c \in Clients, OneAccepted(c),
           [SysNext]_sysVars, calm' # 0
    PROVE  (OneAccepted(c)' \/ CanMeet(c)') /\ calm' = calm
<1>1. PICK d \in Clients : d = Other(c) /\ c # d /\ c = Other(d) /\ \A e \in Clients : e = c \/ e = d
  BY Others DEF RecoveryAssumption
<1>2. /\ SystemAssumption /\ NoLoss /\ Ordinary /\ Identified /\ Agree /\ UsedIsPolling
  BY DEF RecoveryAssumption, Healthy, Identified
<1>3. /\ mode[c] = "punching" /\ match[c].remote = socket[d]
      /\ \A n \in wire : IsTold(n) /\ n.addr = socket[d] => At(n) = match[c].own
      /\ \A m \in wire : IsAsk(m) /\ From(m) = c => m.addr = match[c].own
      /\ Waits(c) => Slot(c).requester_addr = match[c].own
  BY <1>1 DEF OneAccepted, HalfMet
<1>4. PICK n \in wire : MeetNote(n, c)
  BY DEF OneAccepted, HalfMet
<1>5. ~SysTick /\ calm' = calm
  BY <1>4, QuietStep DEF SysTick
<1>6. ASSUME NEW m \in wire, AcceptInitiate(d, m) PROVE CanMeet(c)'
  <2>1. IsNote(m) /\ m.addr = socket[d] /\ match'[d] = [own |-> socket[d], remote |-> At(m)]
        /\ match' = [match EXCEPT ![d] = [own |-> socket[d], remote |-> At(m)]]
    BY <1>2, <1>6, AcceptKeepsClients
  <2>2. IsTold(m)
    BY <2>1, NoteFields DEF IsTold
  <2>3. match'[d].own = socket[d] /\ match'[d].remote = match[c].own
    BY <1>3, <2>1, <2>2
  <2>4. mode'[d] = "punching" /\ mode'[c] = "punching"
    BY <1>1, <1>2, <1>3, <1>6 DEF AcceptInitiate, Ordinary, ClientsAreOrdinary
  <2>5. match'[c] = match[c]
    BY <1>1, <1>2, <2>1 DEF Ordinary, ClientsAreOrdinary
  <2>6. QED
    BY <1>1, <1>3, <2>3, <2>4, <2>5 DEF CanMeet
<1>7. ASSUME \A m \in wire : ~AcceptInitiate(d, m) PROVE OneAccepted(c)'
  <2>1. \A e \in Clients : Stays(e) /\ ~Starting(e)
    <3>1. \A m \in wire : ~AcceptInitiate(c, m)
      BY <1>3 DEF AcceptInitiate, Receives
    <3>2. \A e \in Clients : ~Starting(e)
      BY <1>1, <1>7, <3>1, QuietStep DEF Starting
    <3>3. QED
      BY <1>2, <3>2, WhoRenews
  <2>2. HalfMet(c)'
    BY <1>2, <2>1, HalfMetStays DEF OneAccepted
  <2>3. match'[c] = match[c] /\ socket'[d] = socket[d] /\ socket'[c] = socket[c]
    <3>1. match'[c] = match[c]
      <4>1. ASSUME NEW e \in Clients, Run(e) PROVE match'[c] = match[c]
        <5>1. ~PunchFails(e) \/ e = d
          BY <1>1, <1>5, <2>2, <4>1 DEF PunchFails, HalfMet, OneAccepted
        <5>2. QED
          BY <1>1, <1>2, <1>3, <4>1, <5>1
             DEF Run, PlaceConnectionRequest, PunchSucceeds, PunchFails, Punched, NoticeDead, IsDead,
                 on_connection_closed, Ordinary, ClientsAreOrdinary
      <4>2. Arrive => UNCHANGED match
        BY <2>1 DEF Arrive, Serve, Reject, Vanishes, IgnoreInitiate, Starting, clientVars
      <4>3. QED
        BY <1>5, <4>1, <4>2, QuietStep DEF sysVars, clientVars
    <3>2. QED
      BY <2>1, <3>1 DEF Stays
  <2>4. ASSUME NEW o \in wire', IsTold(o), o.addr = socket[d] PROVE At(o) = match[c].own
    <3>1. CASE o \in wire
      BY <1>3, <2>4, <3>1
    <3>2. ASSUME NEW m \in wire, Serve(m), o \notin wire PROVE At(o) = match[c].own
      <4>1. PICK f \in Clients, g \in Clients : f = From(m) /\ g = Other(f) /\ IsAsk(m) /\ Answered(m, f, g)
        BY <1>2, <2>4, <3>2, ServeOutcome, Others DEF Kept
      <4>2. \/ o.addr = Slot(g).requester_addr /\ At(o) = m.addr
            \/ o.addr = m.addr /\ At(o) = Slot(g).requester_addr
        BY <3>2, <4>1 DEF Answered
      <4>3. Used(f, m.addr) /\ Used(g, Slot(g).requester_addr) /\ Waits(g)
        BY <4>1, AskIsMention, SlotIsMention DEF OnTheWay, Answered
      <4>4. CASE o.addr = Slot(g).requester_addr /\ At(o) = m.addr
        <5>1. g = d
          BY <1>2, <2>4, <4>3, <4>4, UsedRule
        <5>2. f = c
          BY <1>1, <4>1, <5>1, Others, <1>2
        <5>3. QED
          BY <1>3, <4>1, <4>4, <5>2
      <4>5. CASE o.addr = m.addr /\ At(o) = Slot(g).requester_addr
        <5>1. f = d
          BY <1>2, <2>4, <4>3, <4>5, UsedRule
        <5>2. QED
          BY <1>1, <1>3, <4>1, <4>3, <4>5, <5>1
      <4>6. QED
        BY <4>2, <4>4, <4>5
    <3>3. ASSUME NEW m \in delayed PROVE ~ArriveLate(m)
      BY <3>3 DEF ArriveLate, Disturb
    <3>4. QED
      BY <1>2, <2>4, <3>1, <3>2, <3>3, NewNotes DEF OnTheWay
  <2>5. ASSUME NEW m \in wire', IsAsk(m), From(m) = c PROVE m.addr = match[c].own
    <3>1. m.to = "server" /\ ~PlaceConnectionRequest(c)
      BY <1>3, <2>5 DEF IsAsk, PlaceConnectionRequest, Discovers
    <3>2. QED
      BY <1>2, <1>3, <2>5, <3>1, NewAsks
  <2>6. Waits(c)' => Slot(c)'.requester_addr = match[c].own
    BY <1>2, <1>3, NewSlots
  <2>7. QED
    BY <1>1, <2>2, <2>3, <2>4, <2>5, <2>6 DEF OneAccepted, IsTold, At, IsAsk, From
<1>8. QED
  BY <1>5, <1>6, <1>7
LEMMA BothToldStays ==
    ASSUME RecoveryAssumption, Healthy, BothTold, [SysNext]_sysVars, calm' # 0
    PROVE  (BothTold' \/ \E c \in Clients : OneAccepted(c)') /\ calm' = calm
<1>1. /\ SystemAssumption /\ NoLoss /\ Ordinary /\ Identified /\ Agree /\ UsedIsPolling
      /\ Accepted /\ Mutual
  BY DEF RecoveryAssumption, Healthy, Identified
<1>2. /\ \A c \in Clients : \E n \in wire : Good(n, c)
      /\ \A c \in Clients : \A n \in wire : IsTold(n) /\ n.addr = socket[c] => Good(n, c)
      /\ \A c \in Clients : \A m \in wire : IsAsk(m) /\ From(m) = c => m.addr = socket[c]
      /\ \A c \in Clients : ~Stale(c)
  BY DEF BothTold
<1>3. \A c \in Clients : mode[c] = "polling" /\ mode[c] # "off"
  <2>1. ASSUME NEW c \in Clients PROVE Discovers(c)
    BY <1>1, <1>2, GoodIsAcceptable DEF OnTheWay
  <2>2. QED
    BY <2>1 DEF Discovers
<1>4. ~SysTick /\ calm' = calm
  <2>1. \E c : c \in Clients
    BY <1>1 DEF SystemAssumption, TwoClients
  <2>2. QED
    BY <1>2, <2>1, QuietStep DEF SysTick
<1>5. ASSUME NEW m \in wire, NEW c \in Clients, AcceptInitiate(c, m) PROVE OneAccepted(c)'
  <2>1. PICK d \in Clients : d = Other(c) /\ c # d
    BY <1>1, Others
  <2>2. IsNote(m) /\ m.addr = socket[c] /\ match'[c] = [own |-> socket[c], remote |-> At(m)]
    BY <1>1, <1>5, AcceptKeepsClients
  <2>3. Good(m, c) /\ match'[c].own = socket[c]
    BY <1>2, <2>2, NoteFields DEF IsTold
  <2>4. HalfMet(c)'
    BY <1>1, <1>5, <2>3, AcceptHalfMeets
  <2>5. wire' \subseteq wire /\ socket'[d] = socket[d] /\ UNCHANGED requests
    BY <1>1, <1>5, <2>1 DEF AcceptInitiate, Receives, vars, Ordinary, ClientsAreOrdinary
  <2>6. \A n \in wire' : IsTold(n) /\ n.addr = socket[d] => At(n) = socket[c]
    BY <1>1, <1>2, <2>1, <2>5, Others DEF Good
  <2>7. \A o \in wire' : IsAsk(o) /\ From(o) = c => o.addr = socket[c]
    BY <1>2, <2>5
  <2>8. Waits(c)' => Slot(c)'.requester_addr = socket[c]
    BY <1>2, <2>5 DEF Stale, Waits, HasSlot, Slot
  <2>9. QED
    BY <2>1, <2>3, <2>4, <2>5, <2>6, <2>7, <2>8 DEF OneAccepted, IsTold, At, IsAsk, From
<1>6. ASSUME \A m \in wire, c \in Clients : ~AcceptInitiate(c, m) PROVE BothTold'
  <2>1. \A e \in Clients : Stays(e)
    BY <1>1, <1>6, WhoRenews, QuietStep DEF Starting
  <2>2. \A e \in Clients : socket'[e] = socket[e]
    BY <2>1 DEF Stays
  <2>3. SUFFICES ASSUME NEW c \in Clients
                 PROVE  /\ \E n \in wire' : Good(n, c)'
                        /\ \A n \in wire' : IsTold(n) /\ n.addr = socket[c] => Good(n, c)'
                        /\ \A m \in wire' : IsAsk(m) /\ From(m) = c => m.addr = socket[c]
                        /\ ~Stale(c)'
    BY <2>2 DEF BothTold, IsTold, IsAsk, From
  <2>4. PICK d \in Clients : d = Other(c) /\ c # d /\ c = Other(d)
    BY <1>1, Others
  <2>5. \A n : Good(n, c)' <=> Good(n, c)
    BY <2>2, <2>4 DEF Good, IsTold, At
  <2>6. \E n \in wire' : Good(n, c)'
    <3>1. PICK n \in wire : Good(n, c)
      BY <1>2
    <3>2. IsNote(n) /\ mode[c] # "off" /\ Discovers(c) /\ About(n) = d /\ accepted[c] # Under(n)
      BY <1>1, <2>4, <3>1, GoodIsAcceptable DEF OnTheWay
    <3>3. ~IgnoreInitiate(c, n)
      BY <2>4, <3>2, NoteFields DEF IgnoreInitiate, Acceptable
    <3>4. n \in wire'
      BY <1>1, <1>6, <3>1, <3>2, <3>3, NoteStays DEF Good
    <3>5. QED
      BY <2>5, <3>1, <3>4
  <2>7. ASSUME NEW o \in wire', IsTold(o), o.addr = socket[c] PROVE Good(o, c)'
    <3>1. CASE o \in wire
      BY <1>2, <2>5, <2>7, <3>1
    <3>2. ASSUME NEW m \in wire, Serve(m), o \notin wire PROVE Good(o, c)
      <4>1. PICK f \in Clients, g \in Clients :
              f = From(m) /\ g = Other(f) /\ f # g /\ f = Other(g) /\ IsAsk(m) /\ Answered(m, f, g)
        BY <1>1, <2>7, <3>2, ServeOutcome, Others DEF Kept
      <4>2. \/ o.addr = Slot(g).requester_addr /\ At(o) = m.addr
            \/ o.addr = m.addr /\ At(o) = Slot(g).requester_addr
        BY <3>2, <4>1 DEF Answered
      <4>3. m.addr = socket[f] /\ Slot(g).requester_addr = socket[g]
        BY <1>2, <4>1 DEF Stale, Answered
      <4>4. CASE o.addr = socket[f] /\ At(o) = socket[g]
        <5>1. f = c
          BY <1>1, <1>3, <2>7, <4>4, SocketsDiffer
        <5>2. QED
          BY <2>7, <4>1, <4>4, <5>1 DEF Good
      <4>5. CASE o.addr = socket[g] /\ At(o) = socket[f]
        <5>1. g = c
          BY <1>1, <1>3, <2>7, <4>5, SocketsDiffer
        <5>2. QED
          BY <2>7, <4>1, <4>5, <5>1 DEF Good
      <4>6. QED
        BY <4>2, <4>3, <4>4, <4>5
    <3>3. ASSUME NEW m \in delayed PROVE ~ArriveLate(m)
      BY <3>3 DEF ArriveLate, Disturb
    <3>4. QED
      BY <1>1, <2>5, <2>7, <3>1, <3>2, <3>3, NewNotes DEF OnTheWay
  <2>8. ASSUME NEW m \in wire', IsAsk(m), From(m) = c PROVE m.addr = socket[c]
    <3>1. m.to = "server"
      BY <2>8 DEF IsAsk
    <3>2. QED
      BY <1>1, <1>2, <2>8, <3>1, NewAsks
  <2>9. ~Stale(c)'
    <3>1. Waits(c)' => Slot(c)'.requester_addr = socket[c]
      BY <1>1, <1>2, NewSlots DEF Stale
    <3>2. QED
      BY <2>2, <3>1 DEF Stale
  <2>10. QED
    BY <2>6, <2>7, <2>8, <2>9
<1>7. QED
  BY <1>4, <1>5, <1>6

LEMMA SameSlots ==
    ASSUME NEW c, UNCHANGED requests
    PROVE  /\ Waits(c)' <=> Waits(c)
           /\ socket'[c] = socket[c] =>
                /\ Stale(c)' <=> Stale(c)
                /\ last'[c] = last[c] => (Fresh(c)' <=> Fresh(c))
<1>1. Waits(c)' <=> Waits(c)
  BY DEF Waits, HasSlot
<1>2. Slot(c)' = Slot(c)
  BY DEF Slot
<1>3. QED
  BY <1>1, <1>2 DEF Stale, Fresh

LEMMA PlaceKeepsApart ==
    ASSUME RecoveryAssumption, Healthy, Apart, NEW c \in Clients, PlaceConnectionRequest(c)
    PROVE  Apart'
<1>1. PICK d \in Clients : d = Other(c) /\ c # d /\ c = Other(d) /\ \A e \in Clients : e = c \/ e = d
  BY Others DEF RecoveryAssumption
<1>2. /\ SystemAssumption /\ Ordinary /\ RequestsAreCurrent
      /\ MisledOnce(c) /\ MisledInTime(c) /\ AsksInTime(c)
      /\ MisledOnce(d) /\ MisledInTime(d) /\ AsksInTime(d)
  BY <1>1 DEF RecoveryAssumption, Healthy, Apart
<1>3. PICK m : /\ wire' = wire \cup {m} /\ IsAsk(m) /\ From(m) = c /\ m.addr = socket[c]
               /\ SignedAt(m) = 0
  BY <1>2, PlaceKeepsDatagrams
<1>4. /\ UNCHANGED <<requests, mode, socket, wait, retry, calm>>
      /\ last' = [last EXCEPT ![c] = 0]
  BY DEF PlaceConnectionRequest, vars
<1>5. last'[c] = 0 /\ last'[d] = last[d]
  BY <1>1, <1>2, <1>4 DEF Ordinary, ClientsAreOrdinary
<1>6. last[c] # 0
  BY Durations DEF PlaceConnectionRequest, Due, Never
<1>7. ~Told(c) /\ ~Asking(c)
  BY <1>2, <1>6 DEF MisledOnce, RequestsAreCurrent, Asking, IsRequestOf
<1>8. m.to = "server" /\ ~IsTold(m)
  BY <1>3 DEF IsAsk, IsTold
<1>9. \A e \in Clients : Told(e)' <=> Told(e)
  BY <1>3, <1>4, <1>8 DEF Told, IsTold
<1>10. Asking(c)' /\ (Asking(d)' <=> Asking(d))
  BY <1>1, <1>3, <1>8 DEF Asking, IsRequestOf, From
<1>11. RequestsAreCurrent'
  <2>1. SUFFICES ASSUME NEW o \in wire', o.to = "server"
                 PROVE  /\ IsAsk(o) /\ o.addr = socket[From(o)]
                        /\ SignedAt(o) = 0 /\ last'[From(o)] = 0
                        /\ \A x \in wire' : IsRequestOf(x, From(o)) => x = o
    BY <1>4 DEF RequestsAreCurrent, IsAsk, SignedAt, From, IsRequestOf
  <2>2. CASE o = m
    BY <1>3, <1>5, <1>7, <2>2 DEF Asking
  <2>3. CASE o # m
    <3>1. o \in wire /\ From(o) # c
      BY <1>3, <1>7, <2>1, <2>3 DEF Asking, IsRequestOf
    <3>2. last[From(o)] = 0
      BY <1>2, <2>1, <3>1 DEF RequestsAreCurrent
    <3>3. last'[From(o)] = 0
      BY <1>2, <1>4, <3>1, <3>2 DEF Ordinary, ClientsAreOrdinary
    <3>4. \A x \in wire' : IsRequestOf(x, From(o)) => x \in wire
      BY <1>3, <3>1 DEF IsRequestOf
    <3>5. QED
      BY <1>2, <2>1, <3>1, <3>3, <3>4 DEF RequestsAreCurrent
  <2>4. QED
    BY <2>2, <2>3
<1>12. /\ \A e \in Clients : (Stale(e)' <=> Stale(e)) /\ (Waits(e)' <=> Waits(e))
       /\ Fresh(d)' <=> Fresh(d)
  BY <1>1, <1>4, <1>5, SameSlots
<1>13. DueIn(d)' = DueIn(d) /\ TimeLeft' = TimeLeft
  BY <1>4, <1>5, SameDue, SameTime
<1>14. Turn <= TimeLeft \/ ~Stale(d)
  BY <1>1, <1>2, DueType, Durations DEF MisledInTime
<1>15. MisledOnce(c)' /\ MisledInTime(c)' /\ AsksInTime(c)'
  BY <1>1, <1>7, <1>9, <1>10, <1>12, <1>13, <1>14 DEF MisledOnce, MisledInTime, AsksInTime
<1>16. MisledOnce(d)' /\ MisledInTime(d)' /\ AsksInTime(d)'
  BY <1>1, <1>2, <1>5, <1>7, <1>9, <1>10, <1>12, <1>13 DEF MisledOnce, MisledInTime, AsksInTime
<1>17. QED
  BY <1>1, <1>11, <1>15, <1>16 DEF Apart

\* A client whose hole punch failed, or whose connection is dead, is not waited for.
LEMMA ReturnKeepsApart ==
    ASSUME RecoveryAssumption, Healthy, Apart, NEW c \in Clients, PunchFails(c) \/ NoticeDead(c)
    PROVE  Apart'
<1>1. PICK d \in Clients : d = Other(c) /\ c # d /\ c = Other(d) /\ \A e \in Clients : e = c \/ e = d
  BY Others DEF RecoveryAssumption
<1>2. /\ SystemAssumption /\ Ordinary /\ RequestsAreCurrent
      /\ MisledOnce(c) /\ MisledInTime(c) /\ AsksInTime(c)
      /\ MisledOnce(d) /\ MisledInTime(d) /\ AsksInTime(d)
      /\ Identified /\ UsedIsPolling /\ Bounded(c)
  BY <1>1 DEF RecoveryAssumption, Healthy, Apart, Identified, WaitsAreBounded
<1>3. /\ UNCHANGED <<requests, socket, wire, calm>> /\ ~Discovers(c)
  BY DEF PunchFails, NoticeDead, IsDead, Punched, on_connection_closed, vars, Discovers
<1>4. /\ mode'[d] = mode[d] /\ wait'[d] = wait[d] /\ retry'[d] = retry[d] /\ last'[d] = last[d]
  BY <1>1, <1>2 DEF PunchFails, NoticeDead, Punched, on_connection_closed, Ordinary, ClientsAreOrdinary
<1>5. ~Asking(c) /\ ~Told(c) /\ ~Fresh(c)
  <2>1. \A e : ~Used(e, socket[c])
    BY <1>2, <1>3, UsedRule
  <2>2. ~Asking(c)
    BY <1>2, <2>1, AskIsMention DEF Asking, IsRequestOf, RequestsAreCurrent, OnTheWay
  <2>3. ~Told(c)
    BY <2>1, NoteIsMention DEF Told, IsTold, OnTheWay
  <2>4. ~Fresh(c)
    BY <2>1, SlotIsMention DEF Fresh
  <2>5. QED
    BY <2>2, <2>3, <2>4
<1>6. DueIn(c)' <= DueIn(c) /\ DueIn(c)' \in Nat
  <2>1. CASE PunchFails(c)
    <3>1. /\ mode[c] = "punching" /\ wait[c] = 0 /\ mode'[c] = "polling"
          /\ wait'[c] = InTicks(retry[c])
      BY <2>1 DEF PunchFails, Punched
    <3>2. InTicks(retry[c]) \in Nat \ {0}
      BY <1>2, ClientData, BackoffIs
    <3>3. DueIn(c) = InTicks(retry[c])
      BY <3>1, <3>2 DEF DueIn
    <3>4. DueIn(c)' = InTicks(retry[c])
      BY <3>1, <3>2 DEF DueIn
    <3>5. QED
      BY <3>2, <3>3, <3>4
  <2>2. CASE NoticeDead(c)
    <3>1. /\ mode[c] = "connected" /\ last[c] = Never
      BY <1>2, <2>2 DEF NoticeDead, IsDead, Bounded
    <3>2. mode'[c] = "polling" /\ wait'[c] = 0 /\ last'[c] = Never
      BY <1>2, <2>2, <3>1 DEF NoticeDead, on_connection_closed, Ordinary, ClientsAreOrdinary
    <3>3. DueIn(c)' = 0
      BY <3>2 DEF DueIn
    <3>4. QED
      BY <1>2, <3>3, DueType
  <2>3. QED
    BY <2>1, <2>2
<1>7. DueIn(d)' = DueIn(d) /\ TimeLeft' = TimeLeft
  BY <1>3, <1>4, SameDue, SameTime
<1>8. /\ \A e \in Clients : (Stale(e)' <=> Stale(e)) /\ (Waits(e)' <=> Waits(e))
      /\ Fresh(d)' <=> Fresh(d)
  BY <1>1, <1>3, <1>4, SameSlots
<1>9. \A e \in Clients : (Told(e)' <=> Told(e)) /\ (Asking(e)' <=> Asking(e))
  BY <1>3 DEF Told, IsTold, Asking, IsRequestOf, From
<1>10. RequestsAreCurrent'
  <2>1. ASSUME NEW o \in wire, o.to = "server" PROVE last'[From(o)] = last[From(o)]
    BY <1>1, <1>2, <1>4, <1>5, <2>1, AskLength
       DEF RequestsAreCurrent, Asking, IsRequestOf, OnTheWay, Ordinary
  <2>2. QED
    BY <1>2, <1>3, <2>1 DEF RequestsAreCurrent, IsAsk, SignedAt, From, IsRequestOf
<1>11. DueIn(c) \in Nat /\ TimeLeft \in Int /\ Turn \in Nat
  BY <1>2, DueType, Durations
<1>12. MisledOnce(c)' /\ MisledInTime(c)' /\ AsksInTime(c)'
  <2>1. ~Stale(d) \/ Turn + DueIn(c)' <= TimeLeft
    BY <1>1, <1>2, <1>5, <1>6, <1>11 DEF MisledInTime
  <2>2. DueIn(c)' <= TimeLeft
    BY <1>2, <1>5, <1>6, <1>11 DEF AsksInTime
  <2>3. QED
    BY <1>1, <1>5, <1>7, <1>8, <1>9, <2>1, <2>2 DEF MisledOnce, MisledInTime, AsksInTime
<1>13. MisledOnce(d)' /\ MisledInTime(d)' /\ AsksInTime(d)'
  BY <1>1, <1>2, <1>4, <1>7, <1>8, <1>9 DEF MisledOnce, MisledInTime, AsksInTime
<1>14. QED
  BY <1>1, <1>10, <1>12, <1>13 DEF Apart

\* The request and the old one of the other client are answered together, or c waits.
LEMMA ServeKeepsApart ==
    ASSUME RecoveryAssumption, Healthy, Apart, AllOn, NEW m \in wire, Serve(m)
    PROVE  Apart' \/ BothTold'
<1>1. PICK c, d : c = From(m) /\ d = Other(c)
  OBVIOUS
<1>2. /\ SystemAssumption /\ Ordinary /\ RequestsAreCurrent
      /\ Identified /\ Agree /\ UsedIsPolling
  BY DEF RecoveryAssumption, Healthy, Apart, Identified
<1>3. /\ IsAsk(m) /\ c \in Clients /\ UNCHANGED clientVars /\ calm' = calm
      /\ Answered(m, c, d) \/ Kept(m, c, d)
  BY <1>1, <1>2, ServeOutcome
<1>4. /\ d \in Clients /\ d = Other(c) /\ c # d /\ c = Other(d) /\ \A e \in Clients : e = c \/ e = d
  BY <1>1, <1>2, <1>3, Others
<1>5. /\ MisledOnce(c) /\ MisledInTime(c) /\ AsksInTime(c)
      /\ MisledOnce(d) /\ MisledInTime(d) /\ AsksInTime(d)
  BY <1>3, <1>4 DEF Apart
<1>6. UNCHANGED <<mode, socket, last, wait, retry>>
  BY <1>3 DEF clientVars
<1>7. /\ m.to = "server" /\ m.addr = socket[c] /\ last[c] = 0
      /\ \A o \in wire : IsRequestOf(o, c) => o = m
  BY <1>1, <1>2, <1>3 DEF RequestsAreCurrent, IsAsk
<1>8. Asking(c) /\ ~Told(c)
  BY <1>1, <1>5, <1>7 DEF Asking, IsRequestOf, MisledOnce
<1>9. DueIn(c)' = DueIn(c) /\ DueIn(d)' = DueIn(d) /\ TimeLeft' = TimeLeft
  BY <1>3, <1>6, SameDue, SameTime
<1>10. DueIn(c) \in Nat /\ DueIn(d) \in Nat /\ TimeLeft \in Int /\ Turn \in Nat
  BY <1>2, <1>3, <1>4, DueType, Durations
<1>11. ASSUME \A o \in wire' : o \in wire \/ IsTold(o)
       PROVE  RequestsAreCurrent' /\ (Asking(d)' => Asking(d))
  BY <1>2, <1>6, <1>11 DEF RequestsAreCurrent, IsRequestOf, IsAsk, SignedAt, From, IsTold, Asking
<1>12. CASE Kept(m, c, d)
  <2>1. wire' = wire \ {m} /\ ~Waits(d)' /\ ~Stale(d)' /\ ~Stale(c)'
    BY <1>6, <1>7, <1>12 DEF Kept, Stale
  <2>2. Fresh(c)'
    BY <1>2, <1>6, <1>7, <1>12 DEF Kept, Fresh, Never
  <2>3. ~Fresh(d)
    <3>1. ASSUME Fresh(d) PROVE Matches(d)
      <4>1. Waits(d) /\ last[d] \in 0 .. RequestInterval /\ -Slot(d).tm <= last[d]
        BY <1>2, <1>4, <3>1, ClientData DEF Fresh
      <4>2. Slot(d).tm \in Int
        BY <1>2, <1>4, <4>1
           DEF Ordinary, SlotsAreOrdinary, SlotData, Waits, HasSlot, Slot
      <4>3. 0 - Slot(d).tm < REQUEST_TIMEOUT_S
        BY <4>1, <4>2, Durations
      <4>4. QED
        BY <1>2, <4>1, <4>3 DEF Matches, Ordinary
    <3>2. QED
      BY <1>12, <3>1 DEF Kept
  <2>4. /\ ~Told(c)' /\ (Told(d)' <=> Told(d)) /\ (Asking(d)' <=> Asking(d))
    BY <1>1, <1>4, <1>6, <1>7, <1>8, <2>1 DEF Told, IsTold, Asking, IsRequestOf, From
  <2>5. RequestsAreCurrent'
    BY <1>11, <2>1
  <2>6. MisledOnce(c)' /\ MisledInTime(c)' /\ AsksInTime(c)'
    BY <1>4, <2>1, <2>2, <2>4 DEF MisledOnce, MisledInTime, AsksInTime
  <2>7. MisledOnce(d)' /\ MisledInTime(d)' /\ AsksInTime(d)'
    BY <1>4, <1>5, <1>6, <1>9, <2>1, <2>3, <2>4 DEF MisledOnce, MisledInTime, AsksInTime
  <2>8. QED
    BY <1>4, <2>5, <2>6, <2>7 DEF Apart
<1>13. CASE Answered(m, c, d)
  <2>1. PICK n1, n2 :
          /\ wire' = (wire \ {m}) \cup {n1, n2}
          /\ IsTold(n1) /\ n1.addr = Slot(d).requester_addr /\ At(n1) = socket[c]
          /\ IsTold(n2) /\ n2.addr = socket[c] /\ At(n2) = Slot(d).requester_addr
    BY <1>7, <1>13 DEF Answered
  <2>2. Waits(d) /\ ~Waits(c)' /\ ~Waits(d)' /\ ~Told(d)
    BY <1>5, <1>13 DEF Answered, MisledOnce
  <2>3. ~Stale(c)' /\ ~Stale(d)'
    BY <2>2 DEF Stale
  <2>4. Slot(d).requester_addr # socket[c] /\ socket[c] # socket[d]
    <3>1. Used(d, Slot(d).requester_addr)
      BY <1>4, <2>2, SlotIsMention
    <3>2. mode[d] # "off"
      BY <1>4 DEF AllOn
    <3>3. QED
      BY <1>2, <1>3, <1>4, <3>1, <3>2, UsedRule, SocketsDiffer
  <2>5. RequestsAreCurrent'
    BY <1>11, <2>1
  <2>6. CASE ~Stale(d)
    <3>1. Slot(d).requester_addr = socket[d]
      BY <2>2, <2>6 DEF Stale
    <3>2. Good(n1, d)' /\ Good(n2, c)'
      BY <1>4, <1>6, <2>1, <3>1 DEF Good, IsTold, At
    <3>3. \A o \in wire' : IsTold(o) /\ o.addr = socket[c] => Good(o, c)'
      BY <1>8, <2>1, <2>4, <3>1, <3>2 DEF Told
    <3>4. \A o \in wire' : IsTold(o) /\ o.addr = socket[d] => Good(o, d)'
      BY <2>1, <2>2, <2>4, <3>1, <3>2 DEF Told
    <3>5. \A o \in wire' : IsAsk(o) => o.addr = socket[From(o)]
      BY <1>2, <2>1 DEF RequestsAreCurrent, IsAsk, IsTold
    <3>6. \A e \in Clients :
            /\ \E n \in wire' : Good(n, e)'
            /\ \A n \in wire' : IsTold(n) /\ n.addr = socket[e] => Good(n, e)'
            /\ ~Stale(e)'
      BY <1>4, <2>1, <2>3, <3>2, <3>3, <3>4
    <3>7. QED
      BY <1>6, <3>5, <3>6 DEF BothTold, IsTold, IsAsk, From
  <2>7. CASE Stale(d)
    <3>1. Slot(d).requester_addr # socket[d]
      BY <2>7 DEF Stale
    <3>2. Told(c)' /\ ~Told(d)'
      BY <1>6, <2>1, <2>2, <2>4, <3>1 DEF Told, IsTold
    <3>3. ~Asking(c)' /\ (Asking(d)' <=> Asking(d))
      BY <1>1, <1>4, <1>7, <2>1 DEF Asking, IsRequestOf, From, IsTold
    <3>4. Turn <= TimeLeft
      BY <1>4, <1>5, <1>10, <2>7 DEF MisledInTime
    <3>5. MisledOnce(c)' /\ MisledInTime(c)' /\ AsksInTime(c)'
      BY <1>4, <1>6, <1>7, <1>9, <2>2, <2>3, <3>2, <3>3, <3>4 DEF MisledOnce, MisledInTime, AsksInTime
    <3>6. AsksInTime(d)'
      BY <1>5, <1>9, <2>2, <2>7, <3>3 DEF AsksInTime, Fresh, Stale
    <3>7. MisledOnce(d)' /\ MisledInTime(d)'
      BY <1>4, <2>3, <3>2 DEF MisledOnce, MisledInTime
    <3>8. QED
      BY <1>4, <2>5, <3>5, <3>6, <3>7 DEF Apart
  <2>8. QED
    BY <2>6, <2>7
<1>14. QED
  BY <1>3, <1>12, <1>13

\* The server refuses no request of this tick.
LEMMA NothingIsRejected ==
    ASSUME RecoveryAssumption, Healthy, RequestsAreCurrent, NEW m \in wire, Reject(m)
    PROVE  FALSE
<1>1. SystemAssumption /\ Ordinary
  BY DEF RecoveryAssumption, Healthy
<1>2. m \in OnTheWay /\ IsAsk(m) /\ SignedAt(m) = 0
  BY DEF Reject, RequestsAreCurrent, OnTheWay
<1>3. PICK r : r = [sender |-> From(m), addr |-> m.addr, session |-> FromSession(m),
                   peers |-> <<Other(From(m))>>, tm |-> SignedAt(m)]
  OBVIOUS
<1>4. IsRequest(m.bytes) /\ ParseRequest(m.bytes, m.addr) = r
  BY <1>1, <1>2, <1>3, AskIsRead
<1>5. r.tm = 0 /\ now = 0
  BY <1>1, <1>2, <1>3 DEF Ordinary
<1>6. TimestampValid(r)
  BY <1>5, TimeoutsAssumption DEF TimestampValid
<1>7. QED
  BY <1>4, <1>6 DEF Reject

\* Fewer notifications, and nothing else.
LEMMA FewerKeepApart ==
    ASSUME RecoveryAssumption, Healthy, Apart,
           UNCHANGED <<vars, clientVars, calm>>, NEW m \in wire, IsTold(m), wire' = wire \ {m},
           \A c \in Clients : m.addr = socket[c] => Discovers(c)
    PROVE  Apart'
<1>1. /\ SystemAssumption /\ Ordinary /\ RequestsAreCurrent
  BY DEF RecoveryAssumption, Healthy, Apart
<1>2. UNCHANGED <<requests, mode, socket, last, wait, retry>>
  BY DEF vars, clientVars
<1>3. RequestsAreCurrent'
  BY <1>1, <1>2 DEF RequestsAreCurrent, IsRequestOf, IsAsk, SignedAt, From
<1>4. ASSUME NEW c \in Clients PROVE MisledOnce(c)' /\ MisledInTime(c)' /\ AsksInTime(c)'
  <2>1. PICK d \in Clients : d = Other(c)
    BY <1>1, Others
  <2>2. MisledOnce(c) /\ MisledInTime(c) /\ AsksInTime(c)
    BY DEF Apart
  <2>3. \A e \in Clients : /\ Asking(e)' <=> Asking(e)
                           /\ Told(e)' => Told(e)
    BY <1>2 DEF Asking, IsRequestOf, From, IsTold, Told
  <2>4. \A e \in Clients : /\ (Stale(e)' <=> Stale(e)) /\ (Waits(e)' <=> Waits(e))
                           /\ Fresh(e)' <=> Fresh(e)
    BY <1>2, SameSlots
  <2>5. DueIn(c)' = DueIn(c) /\ TimeLeft' = TimeLeft
    BY <1>2, SameDue, SameTime
  <2>6. MisledOnce(c)' /\ MisledInTime(c)'
    BY <1>2, <2>1, <2>2, <2>3, <2>4, <2>5 DEF MisledOnce, MisledInTime
  <2>7. AsksInTime(c)'
    <3>1. CASE Told(c)' \/ ~Told(c)
      BY <2>2, <2>3, <2>4, <2>5, <3>1 DEF AsksInTime
    <3>2. CASE Told(c) /\ ~Told(c)'
      <4>1. m.addr = socket[c]
        BY <1>2, <3>2 DEF Told, IsTold
      <4>2. last[c] = 0 /\ Turn <= TimeLeft /\ Discovers(c)
        BY <2>2, <3>2, <4>1 DEF MisledOnce
      <4>3. DueIn(c) = RequestInterval - 0
        BY <4>2 DEF DueIn, Discovers, Never
      <4>4. DueIn(c) <= TimeLeft
        BY <1>1, <4>2, <4>3, DueType, Durations
      <4>5. QED
        BY <2>5, <4>4 DEF AsksInTime
    <3>3. QED
      BY <3>1, <3>2
  <2>8. QED
    BY <2>6, <2>7
<1>5. QED
  BY <1>3, <1>4 DEF Apart

LEMMA VanishesKeepsApart ==
    ASSUME RecoveryAssumption, Healthy, Apart, AllOn, NEW m \in wire, Vanishes(m)
    PROVE  Apart'
<1>1. IsTold(m) /\ \A c \in Clients : m.addr # socket[c]
  BY DEF Vanishes, IsTold, AllOn
<1>2. wire' = wire \ {m} /\ UNCHANGED <<vars, clientVars, calm>>
  BY DEF Vanishes
<1>3. QED
  BY <1>1, <1>2, FewerKeepApart

LEMMA IgnoreKeepsApart ==
    ASSUME RecoveryAssumption, Healthy, Apart, AllOn,
           NEW m \in wire, NEW e \in Clients, IgnoreInitiate(e, m)
    PROVE  Apart'
<1>1. /\ SystemAssumption /\ Ordinary /\ Identified /\ UsedIsPolling
  BY DEF RecoveryAssumption, Healthy, Identified
<1>2. IsTold(m) /\ wire' = wire \ {m} /\ UNCHANGED <<vars, clientVars, calm>>
  BY DEF IgnoreInitiate, Receives, IsTold
<1>3. ASSUME NEW c \in Clients, m.addr = socket[c] PROVE Discovers(c)
  <2>1. Used(Other(About(m)), socket[c])
    BY <1>2, <1>3, NoteIsMention DEF IsTold, OnTheWay
  <2>2. QED
    BY <1>1, <2>1, UsedRule
<1>4. QED
  BY <1>2, <1>3, FewerKeepApart

\* A client is misled to punch at a socket that is gone.
LEMMA AcceptKeepsApart ==
    ASSUME RecoveryAssumption, Healthy, Apart, AllOn,
           NEW m \in wire, NEW c \in Clients, AcceptInitiate(c, m)
    PROVE  Apart'
<1>1. PICK d \in Clients : d = Other(c) /\ c # d /\ c = Other(d) /\ \A e \in Clients : e = c \/ e = d
  BY Others DEF RecoveryAssumption
<1>2. /\ SystemAssumption /\ Ordinary /\ RequestsAreCurrent
      /\ MisledOnce(c) /\ MisledInTime(c) /\ AsksInTime(c)
      /\ MisledOnce(d) /\ MisledInTime(d) /\ AsksInTime(d)
  BY <1>1 DEF RecoveryAssumption, Healthy, Apart
<1>3. IsTold(m) /\ m.addr = socket[c] /\ wire' = wire \ {m} /\ UNCHANGED <<requests, calm>>
  BY DEF AcceptInitiate, Receives, IsTold, vars
<1>4. /\ mode' = [mode EXCEPT ![c] = "punching"] /\ wait' = [wait EXCEPT ![c] = PunchTime]
      /\ socket' = [socket EXCEPT ![c] = NewSocket] /\ UNCHANGED <<last, retry>>
  BY DEF AcceptInitiate
<1>5. /\ mode'[c] = "punching" /\ wait'[c] = PunchTime /\ socket'[c] = NewSocket
      /\ mode'[d] = mode[d] /\ wait'[d] = wait[d] /\ socket'[d] = socket[d]
  BY <1>1, <1>2, <1>4 DEF Ordinary, ClientsAreOrdinary
<1>6. /\ last[c] = 0 /\ ~Asking(c) /\ ~Waits(c) /\ ~Stale(d) /\ ~Told(d) /\ Turn <= TimeLeft
  BY <1>1, <1>2, <1>3 DEF Told, MisledOnce
<1>7. ~Told(c)' /\ ~Told(d)'
  <2>1. \A n \in wire : n.addr # NewSocket
    BY <1>2, SocketIsNew DEF OnTheWay
  <2>2. QED
    BY <1>3, <1>5, <1>6, <2>1 DEF Told, IsTold
<1>8. ~Asking(c)' /\ (Asking(d)' <=> Asking(d))
  BY <1>3, <1>6 DEF Asking, IsRequestOf, From, IsTold
<1>9. (Stale(d)' <=> Stale(d)) /\ (Waits(d)' <=> Waits(d)) /\ (Fresh(d)' <=> Fresh(d))
      /\ ~Waits(c)'
  BY <1>3, <1>4, <1>5, <1>6, SameSlots
<1>10. ~Stale(c)' /\ ~Stale(d)'
  BY <1>6, <1>9 DEF Stale
<1>11. DueIn(d)' = DueIn(d) /\ TimeLeft' = TimeLeft
  BY <1>3, <1>4, <1>5, SameDue, SameTime
<1>12. DueIn(c)' <= TimeLeft
  <2>1. DueIn(c)' = PunchTime + InTicks(retry[c])
    <3>1. DueIn(c)' = wait'[c] + InTicks(retry'[c])
      BY <1>5 DEF DueIn
    <3>2. QED
      BY <1>4, <1>5, <3>1
  <2>2. InTicks(retry[c]) \in 1 .. Backoff
    BY <1>2, ClientData
  <2>3. QED
    BY <1>2, <1>6, <2>1, <2>2, Durations, DueType
<1>13. RequestsAreCurrent'
  <2>1. SUFFICES ASSUME NEW o \in wire, o.to = "server" PROVE o.addr = socket'[From(o)]
    BY <1>2, <1>3, <1>4 DEF RequestsAreCurrent, IsAsk, SignedAt, From, IsRequestOf
  <2>2. From(o) = d /\ o.addr = socket[d]
    <3>1. From(o) \in Clients /\ o.addr = socket[From(o)]
      BY <1>2, <2>1, AskLength DEF RequestsAreCurrent, OnTheWay, Ordinary
    <3>2. QED
      BY <1>1, <1>6, <2>1, <3>1 DEF Asking, IsRequestOf
  <2>3. QED
    BY <1>5, <2>2
<1>14. MisledOnce(c)' /\ MisledInTime(c)' /\ AsksInTime(c)'
  BY <1>1, <1>7, <1>10, <1>11, <1>12 DEF MisledOnce, MisledInTime, AsksInTime
<1>15. MisledOnce(d)' /\ MisledInTime(d)' /\ AsksInTime(d)'
  BY <1>1, <1>2, <1>6, <1>7, <1>8, <1>9, <1>10, <1>11 DEF MisledOnce, MisledInTime, AsksInTime
<1>16. QED
  BY <1>1, <1>13, <1>14, <1>15 DEF Apart

LEMMA FirstDue ==
    ASSUME RecoveryAssumption, Healthy, AllOn, NEW c \in Clients
    PROVE  DueIn(c) <= FirstTurn
<1>1. Ordinary /\ Bounded(c) /\ mode[c] # "off"
  BY DEF Healthy, WaitsAreBounded, AllOn
<1>2. CASE mode[c] = "punching"
  <2>1. wait[c] <= PunchTime /\ DueIn(c) = wait[c] + InTicks(retry[c])
    BY <1>1, <1>2 DEF Bounded, DueIn
  <2>2. wait[c] \in Nat /\ InTicks(retry[c]) \in 1 .. Backoff
    BY <1>1, ClientData
  <2>3. QED
    BY <2>1, <2>2, Durations
<1>3. CASE mode[c] = "polling" /\ wait[c] = 0
  <2>1. DueIn(c) = IF last[c] = Never THEN 0 ELSE RequestInterval - last[c]
    BY <1>3 DEF DueIn
  <2>2. QED
    BY <1>1, <2>1, ClientData, Durations
<1>4. CASE mode[c] = "connected" \/ (mode[c] = "polling" /\ wait[c] # 0)
  <2>1. DueIn(c) = wait[c] /\ (wait[c] <= DetectTime \/ wait[c] <= Backoff)
    BY <1>1, <1>4 DEF DueIn, Bounded
  <2>2. QED
    BY <1>1, <2>1, ClientData, Durations
<1>5. QED
  BY <1>1, <1>2, <1>3, <1>4, ClientData

\* Time passes only when nobody has anything to do now.
LEMMA TickIsDue ==
    ASSUME RecoveryAssumption, Healthy, AllOn, SysTick, NEW c \in Clients, ~IsAlive(c)
    PROVE  DueIn(c) >= 1 /\ DueIn(c)' = DueIn(c) - 1
<1>1. Ordinary /\ Bounded(c) /\ mode[c] # "off"
  BY DEF Healthy, WaitsAreBounded, AllOn
<1>2. /\ ~(Discovers(c) /\ Due(c))
      /\ mode[c] = "punching" \/ IsDead(c) => wait[c] > 0
      /\ mode'[c] = mode[c] /\ retry'[c] = retry[c]
      /\ wait'[c] = IF wait[c] > 0 THEN wait[c] - 1 ELSE wait[c]
      /\ last'[c] = IF last[c] = Never \/ last[c] = RequestInterval THEN last[c] ELSE last[c] + 1
  BY DEF SysTick, Minus1
<1>3. wait[c] \in Nat /\ (last[c] = Never \/ last[c] \in 0 .. RequestInterval) /\ Never = -1
      /\ InTicks(retry[c]) \in Nat /\ RequestInterval \in Nat
  BY <1>1, ClientData, BackoffIs, Durations
<1>4. CASE mode[c] = "punching"
  <2>1. DueIn(c) = wait[c] + InTicks(retry[c])
    BY <1>4 DEF DueIn
  <2>2. DueIn(c)' = wait'[c] + InTicks(retry[c])
    <3>1. DueIn(c)' = wait'[c] + InTicks(retry'[c])
      BY <1>2, <1>4 DEF DueIn
    <3>2. QED
      BY <1>2, <3>1
  <2>3. QED
    BY <1>2, <1>3, <1>4, <2>1, <2>2
<1>5. CASE mode[c] = "polling" /\ wait[c] = 0
  <2>1. last[c] # Never /\ last[c] < RequestInterval
    BY <1>2, <1>3, <1>5 DEF Discovers, Due
  <2>2. DueIn(c) = RequestInterval - last[c]
    BY <1>5, <2>1 DEF DueIn
  <2>3. last'[c] = last[c] + 1 /\ last'[c] # Never /\ wait'[c] = 0
    BY <1>2, <1>3, <1>5, <2>1
  <2>4. DueIn(c)' = RequestInterval - last'[c]
    BY <1>2, <1>5, <2>3 DEF DueIn
  <2>5. QED
    BY <1>3, <2>1, <2>2, <2>3, <2>4
<1>6. CASE mode[c] = "polling" /\ wait[c] # 0
  <2>1. last[c] = Never /\ wait[c] > 0
    BY <1>1, <1>3, <1>6 DEF Bounded
  <2>2. last'[c] = Never /\ wait'[c] = wait[c] - 1 /\ mode'[c] = "polling"
    BY <1>2, <1>6, <2>1
  <2>3. DueIn(c) = wait[c]
    BY <1>6 DEF DueIn
  <2>4. DueIn(c)' = wait'[c]
    BY <2>2 DEF DueIn
  <2>5. QED
    BY <1>3, <2>1, <2>2, <2>3, <2>4
<1>7. CASE mode[c] = "connected"
  <2>1. wait[c] > 0 /\ wait'[c] = wait[c] - 1
    BY <1>2, <1>3, <1>7 DEF IsDead
  <2>2. DueIn(c) = wait[c]
    BY <1>7 DEF DueIn
  <2>3. DueIn(c)' = wait'[c]
    BY <1>2, <1>7 DEF DueIn
  <2>4. QED
    BY <1>3, <2>1, <2>2, <2>3
<1>8. QED
  BY <1>1, <1>4, <1>5, <1>6, <1>7, ClientData

\* A request from the current socket does not get older than the client's last one.
LEMMA TickKeepsFresh ==
    ASSUME RecoveryAssumption, Healthy, SysTick, NEW c \in Clients
    PROVE  /\ Fresh(c) => Fresh(c)'
           /\ Stale(c)' <=> Stale(c)
<1>1. /\ SystemAssumption /\ Ordinary /\ UsedIsPolling
  BY DEF RecoveryAssumption, Healthy, Identified
<1>2. /\ Waits(c)' <=> Waits(c)
      /\ Waits(c) => /\ Slot(c)'.requester_addr = Slot(c).requester_addr
                     /\ Slot(c)'.tm = Earlier(Slot(c).tm, REQUEST_TIMEOUT_S - 1)
  BY <1>1, TickKeepsServer
<1>3. /\ socket'[c] = socket[c] /\ ~(Discovers(c) /\ Due(c))
      /\ last'[c] = IF last[c] = Never \/ last[c] = RequestInterval THEN last[c] ELSE last[c] + 1
  BY DEF SysTick
<1>4. Stale(c)' <=> Stale(c)
  BY <1>2, <1>3 DEF Stale
<1>5. ASSUME Fresh(c) PROVE Fresh(c)'
  <2>1. Waits(c) /\ Slot(c).requester_addr = socket[c] /\ last[c] # Never /\ -Slot(c).tm <= last[c]
    BY <1>5 DEF Fresh
  <2>2. Discovers(c)
    BY <1>1, <2>1, SlotIsMention, UsedRule
  <2>3. last[c] \in 0 .. RequestInterval /\ last[c] # RequestInterval /\ Never = -1
        /\ RequestInterval \in Nat /\ REQUEST_TIMEOUT_S \in Nat
    BY <1>1, <1>3, <2>1, <2>2, ClientData, Durations DEF Due
  <2>4. last'[c] = last[c] + 1
    BY <1>3, <2>3
  <2>5. Slot(c).tm \in Int
    BY <1>1, <2>1 DEF Ordinary, SlotsAreOrdinary, SlotData, Waits, HasSlot, Slot
  <2>6. Slot(c)'.tm = Slot(c).tm - 1 \/ Slot(c)'.tm = Slot(c).tm
    BY <1>2, <2>1 DEF Earlier
  <2>7. -Slot(c)'.tm <= last'[c] /\ last'[c] # Never
    BY <2>1, <2>3, <2>4, <2>5, <2>6
  <2>8. QED
    BY <1>2, <1>3, <2>1, <2>7 DEF Fresh
<1>6. QED
  BY <1>4, <1>5

LEMMA TickKeepsApart ==
    ASSUME RecoveryAssumption, Healthy, AllOn, SysTick,
           calm = 0 \/ (calm <= Bound /\ Apart)
    PROVE  Connected' \/ (calm' <= Bound /\ Apart')
<1>1. PICK c, d : /\ c \in Clients /\ d \in Clients /\ c # d /\ \A e \in Clients : e = c \/ e = d
                  /\ d = Other(c) /\ c = Other(d)
  <2>1. \E c : c \in Clients
    BY DEF RecoveryAssumption, SystemAssumption, TwoClients
  <2>2. QED
    BY <2>1, Others DEF RecoveryAssumption
<1>2. /\ SystemAssumption /\ Ordinary /\ WaitsAreBounded /\ NoMutualSlots
  BY DEF RecoveryAssumption, Healthy
<1>3. /\ wire = {} /\ wire' = {} /\ UNCHANGED <<mode, match>>
      /\ calm' = IF calm > RecoveryTime THEN calm ELSE calm + 1
  BY DEF SysTick
<1>4. CASE \E e \in Clients : IsAlive(e)
  <2>1. mode[c] = "connected" /\ mode[d] = "connected"
    BY <1>1, <1>4 DEF IsAlive
  <2>2. \A e \in Clients : match[e].remote = match[Other(e)].own
    BY <1>1, <1>2, <2>1 DEF WaitsAreBounded, Paired
  <2>3. Connected
    BY <1>1, <2>1, <2>2 DEF Connected, IsAlive
  <2>4. QED
    BY <1>3, <2>3 DEF Connected, IsAlive
<1>5. CASE \A e \in Clients : ~IsAlive(e)
  <2>1. \A e \in Clients : DueIn(e) >= 1 /\ DueIn(e)' = DueIn(e) - 1 /\ DueIn(e) <= FirstTurn
                           /\ DueIn(e) \in Nat
    BY <1>2, <1>5, TickIsDue, FirstDue, DueType
  <2>2. /\ Turn \in Nat /\ FirstTurn \in Nat /\ Bound = FirstTurn + Turn /\ Bound <= RecoveryTime
        /\ Bound \in Nat /\ RecoveryTime \in Nat /\ calm \in Nat /\ calm <= Bound
    BY <1>1, <1>2, Durations, ClientData
  <2>3. TimeLeft = Bound - calm /\ TimeLeft' = Bound - calm'
    BY DEF TimeLeft
  <2>4. calm' = calm + 1 /\ TimeLeft' = TimeLeft - 1 /\ TimeLeft \in Int
    BY <1>3, <2>2, <2>3
  <2>5. \A e \in Clients : ~Asking(e) /\ ~Told(e) /\ ~Asking(e)' /\ ~Told(e)'
    BY <1>3 DEF Asking, Told
  <2>6. \A e \in Clients : /\ ~Stale(Other(e)) \/ Turn + DueIn(e) <= TimeLeft
                           /\ DueIn(e) <= TimeLeft \/ Fresh(e)
    <3>1. CASE calm = 0
      BY <2>1, <2>2, <2>3, <3>1
    <3>2. CASE Apart
      BY <2>5, <3>2 DEF Apart, MisledInTime, AsksInTime
    <3>3. QED
      BY <3>1, <3>2
  <2>7. TimeLeft >= 1
    <3>1. ~(Waits(c) /\ Waits(d))
      BY <1>1, <1>2 DEF NoMutualSlots, Waits, Clients
    <3>2. ~(Fresh(c) /\ Fresh(d))
      BY <3>1 DEF Fresh
    <3>3. QED
      BY <1>1, <2>1, <2>4, <2>6, <3>2
  <2>8. \A e \in Clients : (Fresh(e) => Fresh(e)') /\ (Stale(e)' <=> Stale(e))
    BY TickKeepsFresh
  <2>9. RequestsAreCurrent'
    BY <1>3 DEF RequestsAreCurrent
  <2>10. ASSUME NEW e \in Clients PROVE MisledOnce(e)' /\ MisledInTime(e)' /\ AsksInTime(e)'
    <3>1. MisledOnce(e)'
      BY <2>5 DEF MisledOnce
    <3>2. MisledInTime(e)'
      <4>1. ~Stale(Other(e))' \/ Turn + DueIn(e)' <= TimeLeft'
        BY <1>2, <2>1, <2>2, <2>4, <2>6, <2>8, Others
      <4>2. QED
        BY <4>1 DEF MisledInTime
    <3>3. AsksInTime(e)'
      <4>1. DueIn(e)' <= TimeLeft' \/ Fresh(e)'
        BY <2>1, <2>4, <2>6, <2>8
      <4>2. QED
        BY <4>1 DEF AsksInTime
    <3>4. QED
      BY <3>1, <3>2, <3>3
  <2>11. calm' <= Bound
    BY <2>2, <2>3, <2>4, <2>7
  <2>12. QED
    BY <2>9, <2>10, <2>11 DEF Apart
<1>6. QED
  BY <1>4, <1>5

LEMMA StutterKeepsStages ==
    ASSUME UNCHANGED sysVars
    PROVE  /\ Connected => Connected'
           /\ Meeting => Meeting'
<1>1. UNCHANGED <<requests, mode, socket, session, last, accepted, retry, wait, match, wire, calm>>
  BY DEF sysVars, vars, clientVars
<1>2. Connected => Connected'
  BY <1>1 DEF Connected, IsAlive
<1>3. \A c : CanMeet(c)' <=> CanMeet(c)
  BY <1>1 DEF CanMeet
<1>4. \A c : (Waits(c)' <=> Waits(c)) /\ Slot(c)' = Slot(c)
  BY <1>1 DEF Waits, HasSlot, Slot
<1>5. \A c : OneAccepted(c)' <=> OneAccepted(c)
  BY <1>1, <1>4 DEF OneAccepted, HalfMet, MeetNote, IsTold, At, Under, About, IsAsk, From
<1>6. \A c : (Stale(c)' <=> Stale(c)) /\ (Fresh(c)' <=> Fresh(c))
  BY <1>1, <1>4 DEF Stale, Fresh
<1>7. BothTold' <=> BothTold
  BY <1>1, <1>6 DEF BothTold, Good, IsTold, At, IsAsk, From
<1>8. \A c : (Asking(c)' <=> Asking(c)) /\ (Told(c)' <=> Told(c)) /\ DueIn(c)' = DueIn(c)
             /\ TimeLeft' = TimeLeft
  BY <1>1, SameDue, SameTime DEF Asking, Told, IsRequestOf, From, IsTold
<1>9. RequestsAreCurrent' <=> RequestsAreCurrent
  BY <1>1 DEF RequestsAreCurrent, IsRequestOf, IsAsk, SignedAt, From
<1>10. Apart' <=> Apart
  BY <1>1, <1>4, <1>6, <1>8, <1>9 DEF Apart, MisledOnce, MisledInTime, AsksInTime
<1>11. QED
  BY <1>2, <1>3, <1>5, <1>7, <1>10 DEF Meeting

LEMMA ApartStays ==
    ASSUME RecoveryAssumption, Healthy, AllOn, Apart, calm <= Bound, [SysNext]_sysVars, calm' # 0
    PROVE  Connected' \/ (calm' <= Bound /\ Meeting')
<1>1. CASE SysTick
  BY <1>1, TickKeepsApart DEF Meeting
<1>2. ASSUME NEW c \in Clients, Run(c) PROVE Meeting' \/ Connected'
  <2>1. CASE PunchSucceeds(c)
    <3>1. CanMeet(c)
      BY <2>1 DEF PunchSucceeds
    <3>2. QED
      BY <1>2, <3>1, CanMeetStays DEF Meeting
  <2>2. QED
    BY <1>2, <2>1, PlaceKeepsApart, ReturnKeepsApart DEF Run, Meeting
<1>3. ASSUME Arrive PROVE Meeting'
  <2>1. ASSUME NEW m \in wire PROVE ~Reject(m)
    BY <2>1, NothingIsRejected DEF Apart
  <2>2. QED
    BY <1>3, <2>1, ServeKeepsApart, VanishesKeepsApart, IgnoreKeepsApart, AcceptKeepsApart
       DEF Arrive, Meeting
<1>4. UNCHANGED sysVars => Meeting'
  BY StutterKeepsStages DEF Meeting
<1>5. SysTick \/ calm' = calm
  BY QuietStep
<1>6. QED
  BY <1>1, <1>2, <1>3, <1>4, <1>5, QuietStep

LEMMA StepKeepsRecovering ==
    ASSUME RecoveryAssumption, Healthy, Recovering, [SysNext]_sysVars
    PROVE  Recovering'
<1>1. SUFFICES ASSUME AllOn', calm' > 0
               PROVE  Connected' \/ (calm' <= Bound /\ Meeting')
  BY DEF Recovering
<1>2. calm \in Nat /\ calm' # 0 /\ Ordinary
  BY <1>1 DEF Healthy, Ordinary, ClientsAreOrdinary
<1>3. AllOn
  <2>1. ASSUME NEW c \in Clients PROVE Stays(c) \/ \E m \in wire, e \in Clients : AcceptInitiate(e, m)
    BY <1>2, WhoRenews, QuietStep DEF RecoveryAssumption, Starting
  <2>2. ASSUME NEW m \in wire, NEW e \in Clients, AcceptInitiate(e, m) PROVE AllOn
    BY <1>1, <1>2, <2>2 DEF AcceptInitiate, Receives, AllOn, Ordinary, ClientsAreOrdinary
  <2>3. QED
    BY <1>1, <2>1, <2>2 DEF AllOn, Stays
<1>4. CASE calm = 0
  <2>1. CASE SysTick
    BY <1>3, <1>4, <2>1, TickKeepsApart DEF Meeting
  <2>2. QED
    BY <1>1, <1>2, <1>4, <2>1, QuietStep
<1>5. CASE calm > 0
  <2>1. Connected \/ (calm <= Bound /\ Meeting)
    BY <1>3, <1>5 DEF Recovering
  <2>2. CASE Connected
    BY <1>2, <2>2, ConnectedStays
  <2>3. CASE calm <= Bound /\ Meeting
    <3>1. ASSUME NEW c \in Clients, CanMeet(c)
          PROVE  Connected' \/ (calm' <= Bound /\ Meeting')
      BY <1>2, <2>3, <3>1, CanMeetStays DEF Meeting
    <3>2. ASSUME NEW c \in Clients, OneAccepted(c)
          PROVE  Connected' \/ (calm' <= Bound /\ Meeting')
      BY <1>2, <2>3, <3>2, OneAcceptedStays DEF Meeting
    <3>3. CASE BothTold
      BY <1>2, <2>3, <3>3, BothToldStays DEF Meeting
    <3>4. CASE Apart
      BY <1>2, <1>3, <2>3, <3>4, ApartStays
    <3>5. QED
      BY <2>3, <3>1, <3>2, <3>3, <3>4 DEF Meeting
  <2>4. QED
    BY <2>1, <2>2, <2>3
<1>6. QED
  BY <1>2, <1>4, <1>5

----------------------------------------------------------------------------
(* Recovery: the theorem *)

LEMMA InitIsHealthy == ASSUME SystemAssumption, SysInit PROVE Healthy /\ Recovering
<1>1. Ordinary /\ Identified /\ Accepted /\ Mutual
  BY InitIsOrdinary, InitIsIdentified, InitIsMet
<1>2. /\ requests = [k \in {} |-> {}] /\ calm = 0
      /\ mode = [c \in Clients |-> "off"] /\ wait = [c \in Clients |-> 0]
  BY DEF SysInit, Init
<1>3. WaitsAreBounded
  BY <1>2 DEF WaitsAreBounded, Bounded, Paired
<1>4. NoMutualSlots
  BY <1>2 DEF NoMutualSlots, HasSlot
<1>5. Recovering
  BY <1>2 DEF Recovering
<1>6. QED
  BY <1>1, <1>3, <1>4, <1>5 DEF Healthy

LEMMA StepIsHealthy ==
    ASSUME SystemAssumption, NoLoss, Healthy, [SysNext]_sysVars
    PROVE  Healthy'
<1>1. Ordinary' /\ Identified' /\ WaitsAreBounded' /\ Accepted' /\ Mutual'
  BY StepIsIdentified, StepIsBounded, StepKeepsAccepted, StepKeepsMutual DEF Healthy
<1>2. SystemInv
  BY DEF Healthy, Ordinary, SystemInv, SlotsAreRecords, SlotsAreOrdinary, SlotData, Clients
<1>3. NoMutualSlots'
  BY <1>2, StepKeepsPromise, PromiseKeepsApart DEF Healthy
<1>4. QED
  BY <1>1, <1>3 DEF Healthy

LEMMA HealthyIsRecovered ==
    ASSUME RecoveryAssumption, Healthy, Recovering
    PROVE  RecoversInTime
<1>1. SUFFICES ASSUME calm > RecoveryTime, AllOn
               PROVE  Connected
  BY DEF RecoversInTime, AllOn, Connected
<1>2. calm \in Nat /\ Bound \in Nat /\ RecoveryTime \in Nat /\ Bound <= RecoveryTime
  BY Durations DEF Healthy, Ordinary, ClientsAreOrdinary
<1>3. calm > 0 /\ ~(calm <= Bound)
  BY <1>1, <1>2
<1>4. QED
  BY <1>1, <1>3 DEF Recovering

\* Two clients that trust each other are connected to each other RecoveryTime after
\* the last disturbance - a server or a client that restarted, a request that was lost,
\* late, repeated or garbled, a repeated notification, acknowledgements that were lost, a
\* connection that broke (poll_accept of UdpConnectionEstablisher against run_udp_server) -
\* provided that no notification is late or lost, that a request is repeated before the
\* server forgets it, and that RecoveryTime is long enough.
THEOREM SystemRecovers ==
    ASSUME RecoveryAssumption
    PROVE  SysSpec => []RecoversInTime
<1>1. SystemAssumption /\ NoLoss
  BY DEF RecoveryAssumption
<1>2. SysInit => Healthy /\ Recovering
  BY <1>1, InitIsHealthy
<1>3. Healthy /\ Recovering /\ [SysNext]_sysVars => Healthy' /\ Recovering'
  BY <1>1, StepIsHealthy, StepKeepsRecovering
<1>4. Healthy /\ Recovering => RecoversInTime
  BY HealthyIsRecovered
<1>5. QED
  BY <1>2, <1>3, <1>4, PTL DEF SysSpec

=============================================================================
