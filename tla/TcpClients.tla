----------------------------- MODULE TcpClients -----------------------------
(***************************************************************************)
(* The TCP service and the TCP connector (src/src/tcp/service.rs and       *)
(* connector.rs) together with the server of TcpServer.                    *)
(*                                                                         *)
(* poll_accept, scan_connections and connect_client each open one          *)
(* connection to the server, send one message, wait for the answers with   *)
(* their own deadlines and, once both sides were told to, connect to each  *)
(* other at the same time.  A client runs one call at a time and may give  *)
(* it up at any moment (the caller drops the future, or exits).  All its   *)
(* connections leave from one local port, so a client is an address.       *)
(*                                                                         *)
(* Messages and connections arrive, and tasks run, within the tick: time   *)
(* passes only when everybody waits.  Only one call of a client begins in  *)
(* a tick.                                                                 *)
(*                                                                         *)
(* Definitions whose comment starts with "Variant" are plausible mistakes. *)
(* No action uses them; each takes the place of the definition after it    *)
(* when one wants to see that a property notices.                          *)
(***************************************************************************)
EXTENDS TcpServer, Sequences

CONSTANTS
    Services, Connectors,
    Owner,           \* connection -> the client that opens it
    SessionOf,       \* service -> the session it announces
    RECV_TIMEOUT,    \* of recv_exact_msg (3 s)
    SCHEDULE_CON,    \* the countdown (SCHEDULE_CON_MS)
    CONNECT_WINDOW,  \* no attempt begins later than this after the countdown (500 ms)
    CONNECT_TIMEOUT, \* of one attempt (1 s)
    MaxAbandons      \* bound on the calls that are given up

Clients == Services \cup Connectors

ASSUME OwnerAssumption == Owner \in [Handlers -> Clients] /\ None \notin Clients
ASSUME SessionOfAssumption ==
    SessionOf \in [Services -> Sessions] /\ Services \cap Connectors = {}
\* Services draw their session at random (u64; examples/service.rs).
ASSUME DifferentSessionsAssumption ==
    \A a, b \in Services : SessionOf[a] = SessionOf[b] => a = b
ASSUME WindowsAssumption ==
    /\ MaxAbandons \in Nat
    /\ {RECV_TIMEOUT, SCHEDULE_CON, CONNECT_WINDOW, CONNECT_TIMEOUT} \subseteq Nat \ {0}
\* Both are 3 s.
ASSUME ExpiryAssumption == ANNOUNCEMENT_DURATION <= RECV_TIMEOUT

VARIABLES
    phase,     \* client -> "idle", or where its call waits
    link,      \* client -> the connection of its call
    wait,      \* client -> ticks left of its wait
    remote,    \* client -> the client it was told to connect to
    toServer,  \* connection -> the message the server has not read
    toClient,  \* connection -> the messages the client has not read
    justLeft,  \* history: connections whose client left within this tick
    abandoned, \* history: connections whose call was given up by the caller
    deserted,  \* history: clients whose partner left after they were matched
    called,    \* bound: clients that began a call within this tick
    abandons   \* bound: how many more calls the callers give up

clientVars == <<phase, link, wait, remote>>
wireVars == <<toServer, toClient>>
traceVars == <<justLeft, abandoned, deserted, called, abandons>>
sysVars == <<vars, clientVars, wireVars, traceVars>>

Receiving == {"listing", "address", "start"}
Attempting == {"connecting", "last attempt"}

Request == [type : {"GetClients", "AnnounceAndCheck", "ConnectionRequest"},
            session : Sessions \cup {None}]
Reply == [type : {"RemoteAddr"}, addr : Clients]
            \cup [type : {"StartCountdown"}]
            \cup [type : {"Clients"}, sessions : SUBSET Sessions]

\* The client's end of connection h is open.
Connected(h) == link[Owner[h]] = h

----------------------------------------------------------------------------
(* Calls *)

SysInit ==
    /\ InitAt("closed")
    /\ phase = [c \in Clients |-> "idle"]
    /\ link = [c \in Clients |-> None]
    /\ wait = [c \in Clients |-> 0]
    /\ remote = [c \in Clients |-> None]
    /\ toServer = [h \in Handlers |-> None]
    /\ toClient = [h \in Handlers |-> <<>>]
    /\ justLeft = {} /\ abandoned = {} /\ deserted = {} /\ called = {}
    /\ abandons = MaxAbandons

\* Nothing refers to an earlier use of connection h.
Unused(h) ==
    /\ pc[h] = "closed" /\ ~Connected(h)
    /\ \A s \in DOMAIN clients : HasPending(s) => Pending(s).tx # h
    /\ \A x \in Handlers : taken[x] # h

\* socket.connect(nat_server) succeeds (a call that cannot connect ends without a trace),
\* the server spawns a task for the connection, and the message is sent.
Open(c, h, msg, ph) ==
    /\ phase[c] = "idle" /\ Owner[h] = c /\ Unused(h)
    /\ c \notin called /\ called' = called \cup {c}
    /\ phase' = [phase EXCEPT ![c] = ph]
    /\ link' = [link EXCEPT ![c] = h]
    /\ wait' = [wait EXCEPT ![c] = RECV_TIMEOUT]
    /\ toServer' = [toServer EXCEPT ![h] = msg]
    /\ toClient' = [toClient EXCEPT ![h] = <<>>]
    /\ Goto(h, "update")
    /\ wanted' = [wanted EXCEPT ![h] = None]
    /\ timer' = [timer EXCEPT ![h] = 0]
    /\ channel' = [channel EXCEPT ![h] = "none"]
    /\ signalledBy' = [x \in Handlers |->
                         IF x = h \/ signalledBy[x] = h THEN None ELSE signalledBy[x]]
    /\ goAhead' = [x \in Handlers |-> IF x = h THEN {} ELSE goAhead[x] \ {h}]
    /\ abandoned' = abandoned \ {h}
    /\ justLeft' = justLeft \ {h}
    /\ UNCHANGED <<clients, taken, remote, deserted, abandons>>

poll_accept(c, h) ==
    /\ c \in Services
    /\ Open(c, h, [type |-> "AnnounceAndCheck", session |-> SessionOf[c]], "address")

scan_connections(c, h) ==
    /\ c \in Connectors
    /\ Open(c, h, [type |-> "GetClients", session |-> None], "listing")

\* The session was listed by some scan, perhaps long ago.
connect_client(c, h) ==
    /\ c \in Connectors
    /\ \E s \in Sessions :
         Open(c, h, [type |-> "ConnectionRequest", session |-> s], "address")

\* History: the clients in calls that the server has matched with connection h.
Partners(h) ==
    {Owner[x] : x \in {y \in Handlers : Connected(y) /\ (signalledBy[h] = y \/ signalledBy[y] = h)}}

\* The calls of the clients cs end; their connections to the server are dropped with what
\* has not been read.
Return(cs) ==
    LET dropped == {link[c] : c \in cs} IN
    /\ phase' = [c \in Clients |-> IF c \in cs THEN "idle" ELSE phase[c]]
    /\ link' = [c \in Clients |-> IF c \in cs THEN None ELSE link[c]]
    /\ wait' = [c \in Clients |-> IF c \in cs THEN 0 ELSE wait[c]]
    /\ remote' = [c \in Clients |-> IF c \in cs THEN None ELSE remote[c]]
    /\ toClient' = [h \in Handlers |-> IF h \in dropped THEN <<>> ELSE toClient[h]]
    /\ justLeft' = justLeft \cup dropped
    /\ deserted' = (deserted \cup UNION {Partners(h) : h \in dropped}) \ cs

\* The caller gives up.
Abandon(c) ==
    /\ phase[c] # "idle" /\ abandons > 0
    /\ Return({c})
    /\ abandons' = abandons - 1
    /\ abandoned' = abandoned \cup {link[c]}
    /\ UNCHANGED <<vars, toServer, called>>

----------------------------------------------------------------------------
(* What the clients receive *)

\* The next message of the call's connection satisfies the filter of recv_exact_msg.
Reads(c, ph, type) ==
    /\ phase[c] = ph
    /\ toClient[link[c]] # <<>> /\ Head(toClient[link[c]]).type = type
    /\ UNCHANGED <<vars, toServer, abandoned, called, abandons>>

Read(c) == toClient' = [toClient EXCEPT ![link[c]] = Tail(@)]

RecvClients(c) ==
    /\ Reads(c, "listing", "Clients")
    /\ Return({c})

RecvRemoteAddr(c) ==
    /\ Reads(c, "address", "RemoteAddr") /\ Read(c)
    /\ remote' = [remote EXCEPT ![c] = Head(toClient[link[c]]).addr]
    /\ phase' = [phase EXCEPT ![c] = "start"]
    /\ wait' = [wait EXCEPT ![c] = RECV_TIMEOUT]
    /\ UNCHANGED <<link, justLeft, deserted>>

\* Variant: a side does not take the length of the countdown from the server: the
\* service begins at once, the connector counts twice as long.
StartAtOnce(c) ==
    /\ Reads(c, "start", "StartCountdown") /\ Read(c)
    /\ phase' = [phase EXCEPT ![c] = "countdown"]
    /\ wait' = [wait EXCEPT ![c] = IF c \in Services THEN 0 ELSE 2 * SCHEDULE_CON]
    /\ UNCHANGED <<link, remote, justLeft, deserted>>

\* The countdown begins; it is shorter than the limit of 2 s.
RecvStartCountdown(c) ==
    /\ Reads(c, "start", "StartCountdown") /\ Read(c)
    /\ phase' = [phase EXCEPT ![c] = "countdown"]
    /\ wait' = [wait EXCEPT ![c] = SCHEDULE_CON]
    /\ UNCHANGED <<link, remote, justLeft, deserted>>

NothingToRead(c) == phase[c] \in Receiving /\ toClient[link[c]] = <<>>

ClosedByServer(c) ==
    /\ NothingToRead(c) /\ pc[link[c]] = "closed"
    /\ Return({c})
    /\ UNCHANGED <<vars, toServer, abandoned, called, abandons>>

\* Variant: no timeout on the answers.
NoAnswerForEver(c) == FALSE

NoAnswer(c) ==
    /\ NothingToRead(c) /\ wait[c] = 0
    /\ Return({c})
    /\ UNCHANGED <<vars, toServer, abandoned, called, abandons>>

----------------------------------------------------------------------------
(* The simultaneous connect *)

BeginConnecting(c) ==
    /\ phase[c] = "countdown" /\ wait[c] = 0
    /\ phase' = [phase EXCEPT ![c] = "connecting"]
    /\ wait' = [wait EXCEPT ![c] = CONNECT_WINDOW]
    /\ UNCHANGED <<vars, link, remote, wireVars, traceVars>>

\* Attempts follow each other until the window ends; one may still be running then.
EndWindow(c) ==
    /\ phase[c] = "connecting" /\ wait[c] = 0
    /\ phase' = [phase EXCEPT ![c] = "last attempt"]
    /\ wait' = [wait EXCEPT ![c] = CONNECT_TIMEOUT]
    /\ UNCHANGED <<vars, link, remote, wireVars, traceVars>>

\* The last attempt is refused or times out.
ConnectFails(c) ==
    /\ phase[c] = "last attempt" \/ (phase[c] = "connecting" /\ wait[c] = 0)
    /\ Return({c})
    /\ UNCHANGED <<vars, toServer, abandoned, called, abandons>>

\* Two clients attempt to connect to each other.
CanMeet(c, d) ==
    /\ phase[c] \in Attempting /\ phase[d] \in Attempting
    /\ remote[c] = d /\ remote[d] = c

ConnectSucceeds(c, d) ==
    /\ CanMeet(c, d)
    /\ Return({c, d})
    /\ UNCHANGED <<vars, toServer, abandoned, called, abandons>>

----------------------------------------------------------------------------
(* The server's tasks, and the messages they read and write *)

\* The task of h reads the message.
Takes(h, type) ==
    /\ toServer[h] # None /\ toServer[h].type = type
    /\ toServer' = [toServer EXCEPT ![h] = None]

Sends(h, ms) == toClient' = [toClient EXCEPT ![h] = @ \o ms]
Start == [type |-> "StartCountdown"]
AddrOf(h) == [type |-> "RemoteAddr", addr |-> Owner[h]]

\* Variant: the countdown is started before the address is sent.
ToServiceStartFirst(h) == <<Start, AddrOf(taken[h])>>

\* The service of the request in hand gets the address, then the countdown.
ToService(h) == <<AddrOf(taken[h]), Start>>

\* History: of the two sides the task of h matches, one is already gone.
Desert(h) ==
    deserted' = deserted \cup
        IF Connected(h) /\ Connected(taken[h]) THEN {}
        ELSE {Owner[x] : x \in {y \in {h, taken[h]} : Connected(y)}}

\* An unwrap of a send fails only when the client has gone; then it may also succeed.
Serve(h) ==
    \/ Takes(h, "GetClients") /\ GoRound(h) /\ UNCHANGED deserted
         /\ Sends(h, <<[type |-> "Clients", sessions |-> DOMAIN clients]>>)
    \/ Takes(h, "AnnounceAndCheck") /\ AnnounceAndCheck(h, toServer[h].session)
         /\ UNCHANGED <<toClient, deserted>>
    \/ Takes(h, "ConnectionRequest") /\ ConnectionRequest(h, toServer[h].session)
         /\ Sends(h, <<AddrOf(clients[toServer[h].session].addr)>>)
         /\ UNCHANGED deserted
    \/ Takes(h, "ConnectionRequest") /\ SessionNotFound(h, toServer[h].session)
         /\ UNCHANGED <<toClient, deserted>>
    \/ Takes(h, "ConnectionRequest") /\ ~Connected(h)
         /\ ConnectionRequestPanics(h, toServer[h].session)
         /\ UNCHANGED <<toClient, deserted>>
    \/ /\ UNCHANGED toServer
       /\ \/ Confirm(h) /\ Sends(h, ToService(h)) /\ Desert(h)
          \/ Confirmed(h) /\ Sends(h, <<Start>>) /\ UNCHANGED deserted
          \/ /\ UNCHANGED <<toClient, deserted>>
             /\ \/ PollUpdate(h) \/ ConfirmTooLate(h) \/ SenderDropped(h) \/ TimeOut(h)
                \/ RemoveRequest(h)
          \/ ~Connected(h) /\ Disconnect(h) /\ UNCHANGED <<toClient, deserted>>
          \/ ~Connected(h) /\ ConfirmedPanics(h) /\ UNCHANGED <<toClient, deserted>>
          \/ ~Connected(h) /\ ConfirmPanics(h) /\ UNCHANGED toClient /\ Desert(h)

Server(h) == Serve(h) /\ UNCHANGED <<clientVars, justLeft, abandoned, called, abandons>>

----------------------------------------------------------------------------

\* A task has nothing to do before time passes; the wait of poll_recv is shorter.
Settled(h) ==
    \/ pc[h] = "closed"
    \/ pc[h] = "recv" /\ toServer[h] = None /\ Connected(h)
    \/ pc[h] = "waiting" /\ channel[h] = "open" /\ timer[h] > 0

SysTick ==
    /\ \A h \in Handlers : Settled(h)
    /\ \A c \in Clients : phase[c] # "idle" =>
         /\ wait[c] > 0
         /\ phase[c] \in Receiving => toClient[link[c]] = <<>> /\ pc[link[c]] # "closed"
    /\ \A c, d \in Clients : ~CanMeet(c, d)
    /\ TimePasses
    /\ pc' = [h \in Handlers |-> IF pc[h] = "recv" THEN "update" ELSE pc[h]]
    /\ wait' = [c \in Clients |-> Minus1(wait[c])]
    /\ justLeft' = {} /\ called' = {}
    /\ UNCHANGED <<phase, link, remote, wireVars, abandoned, deserted, abandons>>

Client(c) ==
    \/ RecvClients(c) \/ RecvRemoteAddr(c) \/ RecvStartCountdown(c)
    \/ ClosedByServer(c) \/ NoAnswer(c)
    \/ BeginConnecting(c) \/ EndWindow(c) \/ ConnectFails(c)
    \/ \E d \in Clients : ConnectSucceeds(c, d)

Caller(c) ==
    \/ \E h \in Handlers : poll_accept(c, h) \/ scan_connections(c, h) \/ connect_client(c, h)
    \/ Abandon(c)

SysNext ==
    \/ \E h \in Handlers : Server(h)
    \/ \E c \in Clients : Client(c) \/ Caller(c)
    \/ SysTick

SysSpec == SysInit /\ [][SysNext]_sysVars

\* Tasks and calls run and time passes; callers call when they like.
SysFairSpec ==
    /\ SysSpec
    /\ \A h \in Handlers : WF_sysVars(Server(h))
    /\ \A c \in Clients : WF_sysVars(Client(c))
    /\ WF_sysVars(SysTick)

----------------------------------------------------------------------------
(* Properties *)

\* The clients' state and the messages have their types.
SysTypeOK ==
    /\ phase \in [Clients -> {"idle", "countdown"} \cup Receiving \cup Attempting]
    /\ link \in [Clients -> Handlers \cup {None}]
    /\ \A c \in Clients : (phase[c] = "idle") = (link[c] = None)
    /\ \A c \in Clients : wait[c] \in Nat
    /\ remote \in [Clients -> Clients \cup {None}]
    /\ toServer \in [Handlers -> Request \cup {None}]
    /\ \A h \in Handlers : \A i \in DOMAIN toClient[h] : toClient[h][i] \in Reply

\* The answer a call awaits where it stands.
Awaited ==
    [listing |-> "Clients", address |-> "RemoteAddr", start |-> "StartCountdown"]

\* recv_exact_msg never has to deal with a message its caller does not await: whatever
\* the order in which the tasks of both sides ran and the connection was used before, the
\* next unread message is the one awaited, and none is left once the countdown runs.
AnswersAreExpected ==
    \A c \in Clients : phase[c] # "idle" /\ toClient[link[c]] # <<>> =>
        /\ phase[c] \in Receiving
        /\ Head(toClient[link[c]]).type = Awaited[phase[c]]

\* A connector waits 3 s, but its request can be taken for 4.5 s.  What keeps a service
\* from being sent to a connector that is no longer there is the expiry of announcements,
\* looked at before every message: when a request is taken its connector is still in the
\* call, or left it in this very tick, or its caller gave up.
TakenConnectorIsThere ==
    \A h \in Handlers : pc[h] = "taken" =>
        \/ Connected(taken[h])
        \/ taken[h] \in justLeft \cup abandoned

\* The two sides of a match begin to connect so close to each other that they meet: a
\* call fails after its countdown only when the other side left.
MatchedCallsMeet ==
    [][\A c \in Clients : ConnectFails(c) => c \in deserted]_sysVars

\* Every call returns, whatever the server's tasks and the other clients do.
CallsReturn ==
    \A c \in Clients : phase[c] # "idle" ~> phase[c] = "idle"

=============================================================================
