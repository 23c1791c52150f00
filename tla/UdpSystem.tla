----------------------------- MODULE UdpSystem -----------------------------
(***************************************************************************)
(* The UDP server of UdpServer together with two clients that trust each   *)
(* other (UdpConnectionEstablisher, src/src/udp/client.rs) and the network *)
(* between them: how long it takes until they are connected again after    *)
(* something went wrong.                                                   *)
(*                                                                         *)
(* Datagrams arrive, and tasks run, within the tick, except for a bounded  *)
(* number of disturbances: a datagram is delayed (perhaps for ever),       *)
(* repeated or garbled, an acknowledgement of a hole punch is lost, the    *)
(* server or a client restarts, a connection breaks.                       *)
(*                                                                         *)
(* A tick is a second; shorter waits of the code are rounded up.  Time is  *)
(* relative: now stays 0, what carries a time moves into the past (except  *)
(* for the history variable latest, which is not used here).               *)
(*                                                                         *)
(* A LostConnectionRequest never comes here: with session ids that are all *)
(* different the server does not find what it remembers of a client (its   *)
(* peer's session) in the client's own requests.  UdpClient models what it *)
(* would do.                                                               *)
(*                                                                         *)
(* Definitions whose comment starts with "Variant" are plausible mistakes. *)
(* No action uses them; each takes the place of the definition after it    *)
(* when one wants to see that a property notices.                          *)
(***************************************************************************)
EXTENDS UdpServer, Messages

CONSTANTS
    RequestInterval, \* ticks until a new request is due (elapsed.as_secs() > 2)
    PunchTime,       \* of a hole punch
    DetectTime,      \* the application notices that a connection is dead
    Disturbances,    \* the kinds of disturbances there are
    MaxFaults,       \* bound on their number
    Ids,             \* enough addresses and session ids
    RecoveryTime     \* how long it takes to be connected again

Clients == Keys
Other(c) == CHOOSE d \in Clients : d # c
Never == -1
NoSession == -1

VARIABLES
    mode,     \* client -> "off", "polling", "punching" or "connected"
    socket,   \* client -> the address the server sees of its current socket
    session,  \* client -> session_id
    last,     \* client -> ticks since the last request, or Never
    accepted, \* client -> last_accepted_session_id for its peer
    retry,    \* client -> failure_retry_timeout, in units of 100 ms
    wait,     \* client -> ticks left: of the punch, of DisabledUntil, or until a dead
              \*           connection is noticed
    match,    \* client -> the two ends of its hole punch or connection
    wire,     \* datagrams that arrive in this tick
    delayed,  \* datagrams that arrive later, or never
    faults,   \* how many more disturbances there are
    calm      \* ticks since the last disturbance

clientVars == <<mode, socket, session, last, accepted, retry, wait, match>>
sysVars == <<vars, clientVars, wire, delayed, faults, calm>>

NoMatch == [own |-> Never, remote |-> Never]

\* What the server keeps, and field i of the datagrams that are on their way.
Slots == UNION {Range(requests[a]) : a \in DOMAIN requests}
Fields(to, i) ==
    {m.bytes[i] : m \in {x \in wire \cup delayed : x.to = to /\ i \in DOMAIN x.bytes}}

\* random() gives a session id nobody remembers, binding a socket an address nobody uses.
NewSession ==
    CHOOSE s \in Ids : s \notin
        Range(session) \cup Range(accepted)
            \cup {r.requester_session_id : r \in Slots}
            \cup {r.session_id : r \in Range(last_session_ids)}
            \cup Fields("server", 7) \cup Fields("client", 4)

NewSocket ==
    CHOOSE a \in Ids : a \notin
        Range(socket) \cup (UNION {{m.own, m.remote} : m \in Range(match)})
            \cup {r.requester_addr : r \in Slots}
            \cup {r.remote_addr : r \in Range(last_session_ids)}
            \cup {m.addr : m \in wire \cup delayed} \cup Fields("client", 3)

----------------------------------------------------------------------------
(* Disturbances *)

\* Something goes wrong, or a client starts.
Disturb == calm' = 0
Fault(kind) == kind \in Disturbances /\ faults > 0 /\ faults' = faults - 1 /\ Disturb

\* The fields of a new establisher; the rest of the state is the caller's.
NewEstablisher(c) ==
    /\ mode' = [mode EXCEPT ![c] = "polling"]
    /\ session' = [session EXCEPT ![c] = NewSession]
    /\ socket' = [socket EXCEPT ![c] = NewSocket]
    /\ last' = [last EXCEPT ![c] = Never]
    /\ accepted' = [accepted EXCEPT ![c] = NoSession]
    /\ retry' = [retry EXCEPT ![c] = 1]
    /\ match' = [match EXCEPT ![c] = NoMatch]

\* d's connection to a client that left it is dead; wait gets the values w otherwise.
Leave(c, w) ==
    LET d == Other(c) IN
    wait' = IF mode[c] = "connected" /\ mode[d] = "connected"
            THEN [w EXCEPT ![d] = DetectTime] ELSE w

Start(c) ==
    /\ mode[c] = "off"
    /\ NewEstablisher(c)
    /\ Disturb
    /\ UNCHANGED <<vars, wait, wire, delayed, faults>>

\* A client starts again.
Restart(c) ==
    /\ mode[c] # "off" /\ Fault("client restarts")
    /\ NewEstablisher(c)
    /\ Leave(c, [wait EXCEPT ![c] = 0])
    /\ UNCHANGED <<vars, wire, delayed>>

\* run_udp_server ends and is started again, with an empty UdpState.
ServerRestarts ==
    /\ Fault("server restarts")
    /\ requests # [k \in {} |-> {}] \/ last_session_ids # [k \in {} |-> {}]
    /\ requests' = [k \in {} |-> {}]
    /\ last_session_ids' = [k \in {} |-> {}]
    /\ sent' = {} /\ latest' = [k \in {} |-> {}]
    /\ UNCHANGED <<now, clientVars, wire, delayed>>

Delay(m) ==
    /\ m \in wire /\ ~m.garbled
    /\ Fault(IF m.to = "server" THEN "request is delayed" ELSE "notification is delayed")
    /\ wire' = wire \ {m}
    /\ delayed' = delayed \cup {m}
    /\ UNCHANGED <<vars, clientVars>>

Repeat(m) ==
    /\ m \in wire /\ ~m.garbled
    /\ Fault(IF m.to = "server" THEN "request is repeated" ELSE "notification is repeated")
    /\ delayed' = delayed \cup {m}
    /\ UNCHANGED <<vars, clientVars, wire>>

ArriveLate(m) ==
    /\ m \in delayed /\ Disturb
    /\ wire' = wire \cup {m}
    /\ delayed' = delayed \ {m}
    /\ UNCHANGED <<vars, clientVars, faults>>

\* One field of a request is changed, its end is cut off, or something is appended.
Garbled(b) ==
    {[b EXCEPT ![i] = @ + 1] : i \in {1, 2, 3, 6, 7, 8}}
        \cup {[b EXCEPT ![i] = k] : i \in {5, 9}, k \in Keys}
        \cup {[b EXCEPT ![4].signer = k] : k \in Keys}
        \cup {SubSeq(b, 1, n) : n \in 0 .. Len(b) - 1}
        \cup {Append(b, k) : k \in Keys}

Garble(m) ==
    /\ m \in wire /\ m.to = "server" /\ ~m.garbled /\ Fault("request is garbled")
    /\ \E b \in Garbled(m.bytes) \ {m.bytes} :
         wire' = (wire \ {m}) \cup {[m EXCEPT !.bytes = b, !.garbled = TRUE]}
    /\ UNCHANGED <<vars, clientVars, delayed>>

----------------------------------------------------------------------------
(* The clients *)

Due(c) == last[c] = Never \/ last[c] >= RequestInterval
Discovers(c) == mode[c] = "polling" /\ wait[c] = 0

\* place_connection_requests with the only peer.
PlaceConnectionRequest(c) ==
    LET peers == <<Other(c)>> IN
    /\ Discovers(c) /\ Due(c) /\ CanEncode(peers)
    /\ wire' = wire \cup {[to |-> "server", addr |-> socket[c], garbled |-> FALSE,
                           bytes |-> EncodeRequest(c, now, session[c], peers)]}
    /\ last' = [last EXCEPT ![c] = 0]
    /\ UNCHANGED <<vars, mode, socket, session, accepted, retry, wait, match, delayed,
                   faults, calm>>

\* The current socket has a datagram, and poll_accept gets as far as reading it.
Receives(c, m) ==
    /\ m \in wire /\ m.to = "client" /\ m.addr = socket[c]
    /\ mode[c] = "polling" /\ ~Due(c)
    /\ wire' = wire \ {m}
    /\ UNCHANGED <<vars, delayed, faults, calm>>

Acceptable(c, i) ==
    /\ i.peer_pubkey = Other(c)
    /\ Discovers(c)
    /\ accepted[c] # i.remote_session_id

\* Variant: the new socket is used under the old session id.
AcceptInitiateKeepsSession(c, m) ==
    LET i == ParseInitiate(m.bytes) IN
    /\ Receives(c, m) /\ IsInitiate(m.bytes) /\ Acceptable(c, i)
    /\ accepted' = [accepted EXCEPT ![c] = i.remote_session_id]
    /\ mode' = [mode EXCEPT ![c] = "punching"]
    /\ match' = [match EXCEPT ![c] = [own |-> socket[c], remote |-> i.peer_address]]
    /\ wait' = [wait EXCEPT ![c] = PunchTime]
    /\ socket' = [socket EXCEPT ![c] = NewSocket]
    /\ UNCHANGED <<last, retry, session>>

AcceptInitiate(c, m) ==
    LET i == ParseInitiate(m.bytes) IN
    /\ Receives(c, m) /\ IsInitiate(m.bytes) /\ Acceptable(c, i)
    /\ accepted' = [accepted EXCEPT ![c] = i.remote_session_id]
    /\ mode' = [mode EXCEPT ![c] = "punching"]
    /\ match' = [match EXCEPT ![c] = [own |-> socket[c], remote |-> i.peer_address]]
    /\ wait' = [wait EXCEPT ![c] = PunchTime]
    /\ socket' = [socket EXCEPT ![c] = NewSocket]
    /\ session' = [session EXCEPT ![c] = NewSession]
    /\ UNCHANGED <<last, retry>>

IgnoreInitiate(c, m) ==
    /\ Receives(c, m) /\ IsInitiate(m.bytes) /\ ~Acceptable(c, ParseInitiate(m.bytes))
    /\ UNCHANGED clientVars

\* The socket is closed, or belongs to a hole punch or a connection, which ignore what
\* the server sends.
Vanishes(m) ==
    /\ m \in wire /\ m.to = "client"
    /\ \A c \in Clients : mode[c] = "off" \/ m.addr # socket[c]
    /\ wire' = wire \ {m}
    /\ UNCHANGED <<vars, clientVars, delayed, faults, calm>>

----------------------------------------------------------------------------
(* Hole punches and connections *)

\* Both sides punch, each at the socket the other one punches from.
CanMeet(c) ==
    LET d == Other(c) IN
    /\ mode[c] = "punching" /\ mode[d] = "punching"
    /\ match[c].remote = match[d].own /\ match[d].remote = match[c].own

\* hole_punch returned Err, in units of 100 ms.
NextRetry(t) ==
    LET increased == t + (IF t < 10 THEN t ELSE 10)
    IN  IF increased < 50 THEN increased ELSE 50

\* Whole ticks that cover t units.
InTicks(t) == (t + 9) \div 10

\* The hole punches of the clients in ok succeed, those of the others in cs fail.
Punched(cs, ok, w) ==
    /\ mode' = [c \in Clients |-> IF c \in ok THEN "connected"
                                  ELSE IF c \in cs THEN "polling" ELSE mode[c]]
    /\ wait' = [c \in Clients |-> IF c \in ok THEN w
                                  ELSE IF c \in cs THEN InTicks(retry[c]) ELSE wait[c]]
    /\ retry' = [c \in Clients |-> IF c \in ok THEN 1
                                   ELSE IF c \in cs THEN NextRetry(retry[c]) ELSE retry[c]]
    /\ match' = [c \in Clients |-> IF c \in cs \ ok THEN NoMatch ELSE match[c]]
    /\ last' = [c \in Clients |-> IF c \in cs THEN Never ELSE last[c]]
    /\ UNCHANGED <<vars, socket, session, accepted, wire, delayed>>

PunchSucceeds(c) ==
    /\ CanMeet(c)
    /\ Punched({c, Other(c)}, {c, Other(c)}, 0)
    /\ UNCHANGED <<faults, calm>>

\* The acknowledgements to one side are lost.
OnlyOneSucceeds(c) ==
    /\ CanMeet(c) /\ Fault("acknowledgement is lost")
    /\ Punched({c, Other(c)}, {c}, DetectTime)

PunchFails(c) ==
    /\ mode[c] = "punching" /\ wait[c] = 0 /\ ~CanMeet(c)
    /\ Punched({c}, {}, 0)
    /\ UNCHANGED <<faults, calm>>

\* c is connected, to an end that is there or not.
IsAlive(c) ==
    LET d == Other(c) IN
    mode[c] = "connected" /\ mode[d] = "connected" /\ match[d].own = match[c].remote
IsDead(c) == mode[c] = "connected" /\ ~IsAlive(c)

on_connection_closed(c) ==
    /\ mode' = [mode EXCEPT ![c] = "polling"]
    /\ match' = [match EXCEPT ![c] = NoMatch]
    /\ UNCHANGED <<vars, socket, session, last, accepted, retry, wire, delayed>>

NoticeDead(c) ==
    /\ IsDead(c)
    /\ on_connection_closed(c)
    /\ wait' = [wait EXCEPT ![c] = 0]
    /\ UNCHANGED <<faults, calm>>

\* The connection breaks; c's application notices first.
Break(c) ==
    /\ mode[c] = "connected" /\ ~IsDead(c) /\ Fault("connection breaks")
    /\ on_connection_closed(c)
    /\ Leave(c, wait)

----------------------------------------------------------------------------
(* The server *)

Notifications ==
    {[to |-> "client", addr |-> m.to, garbled |-> FALSE, bytes |-> EncodeNotification(m)] :
        m \in sent'}

Serve(m) ==
    /\ m \in wire /\ m.to = "server" /\ IsRequest(m.bytes)
    /\ Handle(ParseRequest(m.bytes, m.addr))
    /\ wire' = (wire \ {m}) \cup Notifications
    /\ UNCHANGED <<clientVars, delayed, faults, calm>>

\* A parse error, or a timestamp that is too old or too far ahead.
Reject(m) ==
    /\ m \in wire /\ m.to = "server"
    /\ IsRequest(m.bytes) => ~TimestampValid(ParseRequest(m.bytes, m.addr))
    /\ wire' = wire \ {m}
    /\ UNCHANGED <<vars, clientVars, delayed, faults, calm>>

----------------------------------------------------------------------------

Minus1(n) == IF n > 0 THEN n - 1 ELSE n
\* One tick earlier; times more than limit ago are not told apart.
Earlier(t, limit) == IF t >= -limit THEN t - 1 ELSE t

\* The same request, signed one tick earlier.
Aged(m) ==
    IF m.to = "client" THEN m
    ELSE LET tm == Earlier(m.bytes[3], SIGNED_MSG_VALID_S) IN
         [m EXCEPT !.bytes[3] = tm,
                   !.bytes[4] = Sign(m.bytes[5], <<tm>> \o Payload(m.bytes))]

SysTick ==
    /\ wire = {}
    /\ \A c \in Clients :
         /\ ~(Discovers(c) /\ Due(c)) /\ ~CanMeet(c)
         /\ mode[c] = "punching" \/ IsDead(c) => wait[c] > 0
    /\ requests' = [a \in DOMAIN requests |->
                      [b \in DOMAIN requests[a] |->
                         [requests[a][b] EXCEPT !.tm = Earlier(@, REQUEST_TIMEOUT_S - 1)]]]
    /\ sent' = {}
    /\ delayed' = {Aged(m) : m \in delayed}
    /\ wait' = [c \in Clients |-> Minus1(wait[c])]
    /\ last' = [c \in Clients |-> IF last[c] = Never \/ last[c] = RequestInterval
                                  THEN last[c] ELSE last[c] + 1]
    /\ calm' = IF calm > RecoveryTime THEN calm ELSE calm + 1
    /\ UNCHANGED <<last_session_ids, now, latest, mode, socket, session, accepted, retry, match,
                   wire, faults>>

SysInit ==
    /\ Init
    /\ mode = [c \in Clients |-> "off"]
    /\ socket = [c \in Clients |-> Never]
    /\ session = [c \in Clients |-> NoSession]
    /\ last = [c \in Clients |-> Never]
    /\ accepted = [c \in Clients |-> NoSession]
    /\ retry = [c \in Clients |-> 1]
    /\ wait = [c \in Clients |-> 0]
    /\ match = [c \in Clients |-> NoMatch]
    /\ wire = {} /\ delayed = {}
    /\ faults = MaxFaults /\ calm = 0

\* What a client does by itself.
Run(c) ==
    \/ PlaceConnectionRequest(c)
    \/ PunchSucceeds(c) \/ PunchFails(c)
    \/ NoticeDead(c)

\* What becomes of the datagrams of this tick.
Arrive ==
    \E m \in wire :
        \/ Serve(m) \/ Reject(m) \/ Vanishes(m)
        \/ \E c \in Clients :
             AcceptInitiate(c, m) \/ IgnoreInitiate(c, m)

Disturbance ==
    \/ \E m \in wire : Delay(m) \/ Repeat(m) \/ Garble(m)
    \/ \E m \in delayed : ArriveLate(m)
    \/ \E c \in Clients :
         \/ Start(c) \/ Restart(c)
         \/ OnlyOneSucceeds(c) \/ Break(c)
    \/ ServerRestarts

SysNext == (\E c \in Clients : Run(c)) \/ Arrive \/ Disturbance \/ SysTick

SysSpec == SysInit /\ [][SysNext]_sysVars

\* Clients that were started keep polling, datagrams arrive, and time passes.
SysFairSpec ==
    /\ SysSpec
    /\ \A c \in Clients : WF_sysVars(Run(c))
    /\ WF_sysVars(Arrive)
    /\ WF_sysVars(SysTick)

----------------------------------------------------------------------------
(* Properties *)

\* The clients' state and what they sent have their types, and the server's has its own.
SysTypeOK ==
    /\ TypeOK
    /\ mode \in [Clients -> {"off", "polling", "punching", "connected"}]
    /\ {socket, session, accepted} \subseteq [Clients -> {Never} \cup Nat]
    /\ last \in [Clients -> {Never} \cup 0 .. RequestInterval]
    /\ retry \in [Clients -> 1 .. 50] /\ wait \in [Clients -> Nat]
    /\ faults \in 0 .. MaxFaults

\* Who is at which address, under which session, according to the slots, to what the
\* server remembers, to the requests and the notifications on their way, and in fact.
Claims ==
    LET onTheWay == {m \in wire \cup delayed : ~m.garbled} IN
    {<<r.requester_pubkey, r.requester_addr, r.requester_session_id>> : r \in Slots}
        \cup {<<r.remote_peer, r.remote_addr, r.session_id>> : r \in Range(last_session_ids)}
        \cup {<<m.bytes[5], m.addr, m.bytes[7]>> : m \in {x \in onTheWay : x.to = "server"}}
        \cup {<<m.bytes[2], m.bytes[3], m.bytes[4]>> :
                 m \in {x \in onTheWay : x.to = "client"}}
        \cup {<<c, socket[c], session[c]>> : c \in {d \in Clients : mode[d] # "off"}}

\* An address goes with one client and one session, and a session with one client and one
\* address, wherever they are mentioned: poll_accept renews its socket and its session_id
\* together, so nothing late, repeated or remembered says who somebody else is, or sends a
\* peer to a socket that is used for another connection.
ClaimsAgree ==
    \A p, q \in Claims : p[2] = q[2] \/ p[3] = q[3] => p = q

\* Two clients that trust each other get connected, and they are connected to each other
\* again RecoveryTime after the last of these disturbances: a restart of a client or of the
\* server, a late, repeated or garbled request, a repeated notification, lost
\* acknowledgements, a broken connection.  Notifications that are late or lost are not
\* among them (see Reconnects).
RecoversInTime ==
    (calm > RecoveryTime /\ \A c \in Clients : mode[c] # "off") =>
        \A c \in Clients : IsAlive(c)

\* Two clients that trust each other do not stay apart once nothing goes wrong any more,
\* even when notifications were late or lost.
Reconnects ==
    (\A c \in Clients : mode[c] # "off") ~> (\A c \in Clients : IsAlive(c))

\* The server never acts on a request that was changed on its way: what the signature
\* does not cover, the format does.
GarbledIsRejected == [][\A m \in wire : Serve(m) => ~m.garbled]_sysVars

=============================================================================
