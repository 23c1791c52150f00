-------------------------- MODULE TcpClientsProofs --------------------------
(***************************************************************************)
(* Proofs about the TCP service, the TCP connector and their server, for   *)
(* any number of services, connectors, connections and sessions.           *)
(***************************************************************************)
EXTENDS TcpClients, TcpServerProofs, SequenceTheorems

----------------------------------------------------------------------------
(* The inductive invariant *)

\* Connections belong to their owners, and messages are what their receivers expect.
SysTypes ==
    /\ SysTypeOK
    /\ wait \in [Clients -> Nat]
    /\ toClient \in [Handlers -> Seq(Reply)]
    /\ \A c \in Clients : link[c] # None => Owner[link[c]] = c
    /\ \A h \in Handlers : toServer[h] # None /\ toServer[h].type # "GetClients" =>
                             toServer[h].session \in Sessions

Unread(h) == toServer[h] # None /\ pc[h] \in {"update", "recv"}

\* A call sends one message.
OneMessage ==
    \A h \in Handlers : pc[h] \in {"taken", "waiting", "removing"} => toServer[h] = None

\* A task handles a call's message, and what follows from it, in the tick of the call.
HandledAtOnce ==
    /\ \A h \in Handlers : Unread(h) \/ pc[h] = "taken" => Owner[h] \in called
    /\ \A x \in Handlers : pc[x] = "waiting" /\ channel[x] = "signalled" =>
                             Owner[signalledBy[x]] \in called

\* Before a message is read the announcements that are too old are gone.
AnnouncementsAreFresh ==
    \A h \in Handlers : pc[h] = "recv" =>
        \A s \in DOMAIN clients : clients[s].age <= ANNOUNCEMENT_DURATION

\* The client of a message that is not read yet has just begun its call, unless its caller
\* gave it up.
UnreadIsFirst ==
    \A h \in Handlers : Unread(h) =>
        \/ /\ Connected(h) /\ toClient[h] = <<>>
           /\ phase[Owner[h]] = IF toServer[h].type = "GetClients" THEN "listing" ELSE "address"
           /\ wait[Owner[h]] = RECV_TIMEOUT
        \/ ~Connected(h) /\ h \in abandoned

\* The client of connection x waits for the start of the countdown; it will do so at least
\* as long as an announcement of this age is kept.
Waits(x, age) ==
    /\ Connected(x) /\ pc[x] = "waiting"
    /\ \/ /\ phase[Owner[x]] = "address"
          /\ toClient[x] # <<>> /\ Tail(toClient[x]) = <<>>
          /\ Head(toClient[x]).type = "RemoteAddr"
       \/ /\ phase[Owner[x]] = "start"
          /\ toClient[x] = <<>>
          /\ wait[Owner[x]] + age >= RECV_TIMEOUT

CanBeTaken(s) ==
    Pending(s) # None /\ Pending(s).left > 0 /\ clients[s].age <= ANNOUNCEMENT_DURATION

\* The client behind a request that can be taken waits, or left as late as it may, or its
\* caller gave up.
RequesterIsThere ==
    \A s \in DOMAIN clients :
        CanBeTaken(s) =>
            LET x == Pending(s).tx IN
            \/ Waits(x, clients[s].age)
            \/ ~Connected(x) /\ x \in abandoned
            \/ ~Connected(x) /\ x \in justLeft /\ clients[s].age >= RECV_TIMEOUT

SysIInv ==
    /\ IInv
    /\ SysTypes
    /\ OneMessage
    /\ HandledAtOnce
    /\ AnnouncementsAreFresh
    /\ UnreadIsFirst
    /\ RequesterIsThere
    /\ TakenConnectorIsThere

----------------------------------------------------------------------------
(* What the server's own invariant needs *)

\* A connection that is opened again has no traces of its earlier use.
LEMMA OpenKeepsIInv ==
    ASSUME IInv, HandledAtOnce, NEW c \in Clients, NEW h \in Handlers, NEW msg, NEW ph,
           Open(c, h, msg, ph)
    PROVE  IInv'
<1>1. /\ pc[h] = "closed" /\ Owner[h] = c /\ c \notin called
      /\ \A s \in DOMAIN clients : Pending(s) # None => Pending(s).tx # h
      /\ \A x \in Handlers : taken[x] # h
      /\ UNCHANGED <<clients, taken>>
      /\ pc' = [pc EXCEPT ![h] = "update"]
      /\ wanted' = [wanted EXCEPT ![h] = None]
      /\ timer' = [timer EXCEPT ![h] = 0]
      /\ channel' = [channel EXCEPT ![h] = "none"]
      /\ signalledBy' = [x \in Handlers |->
                           IF x = h \/ signalledBy[x] = h THEN None ELSE signalledBy[x]]
      /\ goAhead' = [x \in Handlers |-> IF x = h THEN {} ELSE goAhead[x] \ {h}]
  BY DEF Open, Unused, Goto, HasPending
<1>2. TypeOK'
  BY <1>1, DurationsAssumption DEF IInv, TypeOK, ChannelStates
<1>3. TakenIsKnown'
  BY <1>1 DEF IInv, TypeOK, TakenIsKnown
<1>4. OpenIsAwaited'
  BY <1>1 DEF IInv, TypeOK, OpenIsAwaited
<1>5. PendingHasConnector'
  BY <1>1 DEF IInv, TypeOK, PendingHasConnector, Pending
<1>6. RequestIsInOnePlace'
  BY <1>1 DEF IInv, TypeOK, TakenIsKnown, RequestIsInOnePlace, Pending
<1>7. TakenBeforeTimeOut'
  BY <1>1 DEF IInv, TypeOK, TakenIsKnown, TakenBeforeTimeOut, Pending
<1>8. TakenRequestIsLive'
  BY <1>1 DEF IInv, TypeOK, TakenIsKnown, TakenRequestIsLive
<1>9. SignalIsFromPartner'
  <2> SUFFICES ASSUME NEW x \in Handlers, channel'[x] = "signalled", pc'[x] = "waiting"
               PROVE  /\ signalledBy'[x] \in Handlers
                      /\ x \in goAhead'[signalledBy'[x]] \/ pc'[signalledBy'[x]] = "closed"
    BY DEF SignalIsFromPartner
  <2>1. x # h /\ channel[x] = "signalled" /\ pc[x] = "waiting"
    BY <1>1 DEF IInv, TypeOK
  <2>2. signalledBy[x] # h
    BY <1>1, <2>1 DEF HandledAtOnce
  <2>3. QED
    BY <1>1, <2>1, <2>2 DEF IInv, TypeOK, SignalIsFromPartner
<1>10. CountdownIsPaired'
  BY <1>1 DEF IInv, TypeOK, CountdownIsPaired
<1>11. QED
  BY <1>2, <1>3, <1>4, <1>5, <1>6, <1>7, <1>8, <1>9, <1>10 DEF IInv

\* After a tick the tasks go round before they read a message.
LEMMA SysTickKeepsIInv ==
    ASSUME IInv, SysTick
    PROVE  IInv'
<1>1. /\ TimePasses
      /\ pc' = [h \in Handlers |-> IF pc[h] = "recv" THEN "update" ELSE pc[h]]
      /\ \A h \in Handlers : pc[h] # "taken"
  BY DEF SysTick, Settled
<1>2. TypeOK'
  BY <1>1, DurationsAssumption DEF IInv, TypeOK, IncomingConnection, KnownClient, Pending,
                                   historyVars, TimePasses, Minus1
<1>3. TakenIsKnown'
  BY <1>1 DEF IInv, TypeOK, TakenIsKnown
<1>4. OpenIsAwaited'
  BY <1>1 DEF IInv, OpenIsAwaited, TimePasses
<1>5. PendingHasConnector'
  BY <1>1 DEF IInv, TypeOK, KnownClient, IncomingConnection, PendingHasConnector, Pending,
              TimePasses
<1>6. RequestIsInOnePlace'
  BY <1>1 DEF RequestIsInOnePlace
<1>7. TakenBeforeTimeOut'
  BY <1>1, DurationsAssumption DEF IInv, TypeOK, TakenBeforeTimeOut, IncomingConnection,
                                   KnownClient, Pending, TimePasses, Minus1
<1>8. TakenRequestIsLive'
  BY <1>1 DEF TakenRequestIsLive
<1>9. SignalIsFromPartner'
  BY <1>1 DEF IInv, TypeOK, SignalIsFromPartner, historyVars, TimePasses
<1>10. CountdownIsPaired'
  BY <1>1 DEF IInv, TypeOK, CountdownIsPaired, historyVars, TimePasses
<1>11. QED
  BY <1>2, <1>3, <1>4, <1>5, <1>6, <1>7, <1>8, <1>9, <1>10 DEF IInv

\* The tasks do what they do in TcpServer.
LEMMA ServeIsNext ==
    ASSUME SysTypes, NEW h \in Handlers, Serve(h)
    PROVE  Next
<1>1. ASSUME Takes(h, "AnnounceAndCheck") \/ Takes(h, "ConnectionRequest")
      PROVE  toServer[h].session \in Sessions
  BY <1>1 DEF Takes, SysTypes
<1>2. Run(h) \/ Receive(h)
  BY <1>1 DEF Serve, Run, Receive
<1>3. QED
  BY <1>2 DEF Next

----------------------------------------------------------------------------
(* Calls that end *)

\* Every connection to the server has the types of the model.
LEMMA ConnectedTypes ==
    ASSUME SysTypes, NEW h \in Handlers
    PROVE  /\ Owner[h] \in Clients
           /\ Connected(h) <=> link[Owner[h]] = h
           /\ h # None
           /\ toClient[h] \in Seq(Reply)
BY OwnerAssumption, NoneAssumption DEF SysTypes, Connected

\* Every request that can be taken has the types of the model.
LEMMA RequestTypes ==
    ASSUME IInv, NEW s \in DOMAIN clients, CanBeTaken(s)
    PROVE  Pending(s).tx \in Handlers /\ Pending(s).left \in Nat /\ clients[s].age \in Nat
BY DurationsAssumption DEF IInv, TypeOK, KnownClient, IncomingConnection, CanBeTaken, Pending

LEMMA ReturnDrops ==
    ASSUME SysTypes, NEW cs, cs \subseteq Clients, Return(cs)
    PROVE  /\ \A h \in Handlers : Connected(h)' <=> Connected(h) /\ Owner[h] \notin cs
           /\ \A h \in Handlers : Owner[h] \notin cs => toClient'[h] = toClient[h]
           /\ \A h \in Handlers : Connected(h) /\ Owner[h] \in cs => h \in justLeft'
           /\ justLeft \subseteq justLeft'
           /\ \A c \in Clients : c \notin cs => phase'[c] = phase[c] /\ wait'[c] = wait[c]
<1>1. /\ phase' = [c \in Clients |-> IF c \in cs THEN "idle" ELSE phase[c]]
      /\ link' = [c \in Clients |-> IF c \in cs THEN None ELSE link[c]]
      /\ wait' = [c \in Clients |-> IF c \in cs THEN 0 ELSE wait[c]]
      /\ toClient' = [h \in Handlers |-> IF h \in {link[c] : c \in cs} THEN <<>> ELSE toClient[h]]
      /\ justLeft' = justLeft \cup {link[c] : c \in cs}
  BY DEF Return
<1>2. \A h \in Handlers : Connected(h)' <=> Connected(h) /\ Owner[h] \notin cs
  BY <1>1, ConnectedTypes DEF Connected
<1>3. \A h \in Handlers : Owner[h] \notin cs => h \notin {link[c] : c \in cs}
  BY ConnectedTypes DEF SysTypes
<1>4. \A h \in Handlers : Connected(h) /\ Owner[h] \in cs => h \in justLeft'
  BY <1>1 DEF Connected
<1>5. QED
  BY <1>1, <1>2, <1>3, <1>4

\* The server can do without the client of this connection: it has read its message, and
\* does not hand on its request any more.
NotNeeded(h) ==
    /\ ~Unread(h)
    /\ \A s \in DOMAIN clients : CanBeTaken(s) /\ Pending(s).tx = h =>
                                 clients[s].age >= RECV_TIMEOUT

LEMMA ReturnKeeps ==
    ASSUME SysIInv, NEW cs, cs \subseteq Clients, Return(cs),
           UNCHANGED <<vars, toServer, called>>, abandoned \subseteq abandoned',
           \A h \in Handlers : Connected(h) /\ Owner[h] \in cs =>
                                 h \in abandoned' \/ NotNeeded(h)
    PROVE  SysIInv'
<1>1. /\ SysTypes
      /\ UNCHANGED <<clients, pc, wanted, timer, taken, channel, signalledBy, goAhead>>
  BY DEF SysIInv, vars, taskVars, historyVars
<1>2. IInv'
  BY NextIInv DEF SysIInv
<1>3. SysTypes'
  <2>1. /\ phase' = [c \in Clients |-> IF c \in cs THEN "idle" ELSE phase[c]]
        /\ link' = [c \in Clients |-> IF c \in cs THEN None ELSE link[c]]
        /\ wait' = [c \in Clients |-> IF c \in cs THEN 0 ELSE wait[c]]
        /\ remote' = [c \in Clients |-> IF c \in cs THEN None ELSE remote[c]]
    BY DEF Return
  <2>2. /\ phase' \in [Clients -> {"idle", "countdown"} \cup Receiving \cup Attempting]
        /\ link' \in [Clients -> Handlers \cup {None}]
        /\ \A c \in Clients : (phase'[c] = "idle") = (link'[c] = None)
        /\ wait' \in [Clients -> Nat]
        /\ remote' \in [Clients -> Clients \cup {None}]
        /\ \A c \in Clients : link'[c] # None => Owner[link'[c]] = c
    BY <1>1, <2>1 DEF SysTypes, SysTypeOK
  <2>3. toClient' \in [Handlers -> Seq(Reply)]
    BY <1>1 DEF Return, SysTypes
  <2>4. \A h \in Handlers : \A i \in DOMAIN toClient'[h] : toClient'[h][i] \in Reply
    BY <2>3
  <2>5. QED
    BY <1>1, <2>2, <2>3, <2>4 DEF SysTypes, SysTypeOK
<1>4. OneMessage' /\ HandledAtOnce' /\ AnnouncementsAreFresh'
  BY <1>1 DEF SysIInv, OneMessage, HandledAtOnce, AnnouncementsAreFresh, Unread
<1>5. UnreadIsFirst'
  BY <1>1, ReturnDrops, ConnectedTypes DEF SysIInv, UnreadIsFirst, Unread, NotNeeded
<1>6. RequesterIsThere'
  <2> SUFFICES ASSUME NEW s \in DOMAIN clients, CanBeTaken(s),
                      NEW x \in Handlers, x = Pending(s).tx,
                      NEW age, age = clients[s].age
               PROVE  \/ Waits(x, age)'
                      \/ ~Connected(x)' /\ x \in abandoned'
                      \/ ~Connected(x)' /\ x \in justLeft' /\ age >= RECV_TIMEOUT
    BY <1>1, RequestTypes DEF SysIInv, RequesterIsThere, CanBeTaken, Pending
  <2>1. \/ Waits(x, age)
        \/ ~Connected(x) /\ x \in abandoned
        \/ ~Connected(x) /\ x \in justLeft /\ age >= RECV_TIMEOUT
    BY DEF SysIInv, RequesterIsThere
  <2>2. /\ Connected(x)' <=> Connected(x) /\ Owner[x] \notin cs
        /\ Owner[x] \notin cs => /\ toClient'[x] = toClient[x]
                               /\ phase'[Owner[x]] = phase[Owner[x]]
                               /\ wait'[Owner[x]] = wait[Owner[x]]
        /\ Connected(x) /\ Owner[x] \in cs => x \in justLeft'
        /\ justLeft \subseteq justLeft'
    BY <1>1, ReturnDrops, ConnectedTypes
  <2>3. CASE Connected(x) /\ Owner[x] \in cs
    BY <2>2, <2>3 DEF NotNeeded
  <2>4. CASE ~Connected(x) \/ Owner[x] \notin cs
    <3>1. Waits(x, age) => Waits(x, age)'
      BY <1>1, <2>2, <2>4 DEF Waits
    <3>2. QED
      BY <2>1, <2>2, <3>1
  <2>5. QED
    BY <2>3, <2>4
<1>7. TakenConnectorIsThere'
  <2>1. \A h \in Handlers : pc[h] = "taken" => taken[h] \in Handlers
    BY DEF SysIInv, IInv, TakenIsKnown
  <2>2. QED
    BY <1>1, <2>1, ReturnDrops DEF SysIInv, TakenConnectorIsThere
<1>8. QED
  BY <1>2, <1>3, <1>4, <1>5, <1>6, <1>7 DEF SysIInv

\* A client that is not waiting for the server to match it is not needed.
LEMMA OthersAreNotNeeded ==
    ASSUME SysIInv, NEW h \in Handlers, Connected(h),
           \/ phase[Owner[h]] \notin {"address", "start"} /\ toClient[h] # <<>>
           \/ phase[Owner[h]] \notin Receiving
           \/ pc[h] = "closed"
           \/ wait[Owner[h]] = 0 /\ toClient[h] = <<>>
    PROVE  NotNeeded(h)
<1>1. ~Unread(h)
  BY WindowsAssumption DEF SysIInv, UnreadIsFirst, Unread, Receiving
<1>2. ASSUME NEW s \in DOMAIN clients, CanBeTaken(s), Pending(s).tx = h
      PROVE  clients[s].age >= RECV_TIMEOUT
  <2>1. Waits(h, clients[s].age)
    BY <1>2 DEF SysIInv, RequesterIsThere
  <2>2. clients[s].age \in Nat
    BY <1>2, RequestTypes DEF SysIInv
  <2>3. QED
    BY <2>1, <2>2, WindowsAssumption DEF Waits, Receiving
<1>3. QED
  BY <1>1, <1>2 DEF NotNeeded

\* Two calls that end together.
LEMMA CallsEnd ==
    ASSUME SysIInv, NEW c \in Clients, NEW d \in Clients,
           \/ d = c /\ (\/ RecvClients(c) \/ ClosedByServer(c) \/ NoAnswer(c)
                       \/ ConnectFails(c) \/ Abandon(c))
           \/ ConnectSucceeds(c, d)
    PROVE  SysIInv'
<1>1. Return({c, d}) /\ UNCHANGED <<vars, toServer, called>> /\ abandoned \subseteq abandoned'
  BY DEF RecvClients, ClosedByServer, NoAnswer, ConnectFails, Abandon, ConnectSucceeds, Reads
<1>2. ASSUME NEW h \in Handlers, Connected(h), Owner[h] \in {c, d}
      PROVE  h \in abandoned' \/ NotNeeded(h)
  <2>1. link[Owner[h]] = h
    BY <1>2 DEF Connected
  <2>2. CASE d = c /\ Abandon(c)
    BY <1>2, <2>1, <2>2 DEF Abandon
  <2>3. CASE d = c /\ RecvClients(c)
    BY <1>2, <2>1, <2>3, OthersAreNotNeeded DEF RecvClients, Reads
  <2>4. CASE d = c /\ ClosedByServer(c)
    BY <1>2, <2>1, <2>4, OthersAreNotNeeded DEF ClosedByServer
  <2>5. CASE d = c /\ NoAnswer(c)
    BY <1>2, <2>1, <2>5, OthersAreNotNeeded DEF NoAnswer, NothingToRead
  <2>6. CASE d = c /\ ConnectFails(c)
    BY <1>2, <2>1, <2>6, OthersAreNotNeeded DEF ConnectFails, Receiving
  <2>7. CASE ConnectSucceeds(c, d)
    BY <1>2, <2>1, <2>7, OthersAreNotNeeded DEF ConnectSucceeds, CanMeet, Attempting, Receiving
  <2>8. QED
    BY <2>2, <2>3, <2>4, <2>5, <2>6, <2>7
<1>3. QED
  BY <1>1, <1>2, ReturnKeeps

----------------------------------------------------------------------------
(* Calls that go on *)

\* What client c does to its own state and the messages to it.
Affects(c) ==
    /\ UNCHANGED <<vars, toServer, link, justLeft, abandoned, deserted, called>>
    /\ \A d \in Clients : d # c => /\ phase'[d] = phase[d] /\ wait'[d] = wait[d]
                                  /\ remote'[d] = remote[d]
    /\ \A h \in Handlers : h # link[c] => toClient'[h] = toClient[h]

LEMMA GoOnKeepsSys ==
    ASSUME SysIInv, SysTypes', NEW c \in Clients, Affects(c),
           ~Unread(link[c]),
           \A s \in DOMAIN clients : CanBeTaken(s) /\ Pending(s).tx = link[c] =>
              /\ phase[c] = "address" /\ phase'[c] = "start"
              /\ toClient'[link[c]] = Tail(toClient[link[c]])
              /\ wait'[c] = RECV_TIMEOUT
    PROVE  SysIInv'
<1>1. /\ SysTypes
      /\ UNCHANGED <<clients, pc, wanted, timer, taken, channel, signalledBy, goAhead>>
      /\ UNCHANGED <<toServer, link, justLeft, abandoned, called>>
  BY DEF SysIInv, Affects, vars, taskVars, historyVars
<1>2. IInv'
  BY NextIInv DEF SysIInv, Affects
<1>3. \A h \in Handlers : Connected(h)' <=> Connected(h)
  BY <1>1 DEF Connected
<1>4. ASSUME NEW h \in Handlers, Connected(h), h # link[c]
      PROVE  /\ toClient'[h] = toClient[h]
             /\ phase'[Owner[h]] = phase[Owner[h]] /\ wait'[Owner[h]] = wait[Owner[h]]
  BY <1>1, <1>4, ConnectedTypes DEF Affects
<1>5. OneMessage' /\ HandledAtOnce' /\ AnnouncementsAreFresh'
  BY <1>1 DEF SysIInv, OneMessage, HandledAtOnce, AnnouncementsAreFresh, Unread
<1>6. UnreadIsFirst'
  BY <1>1, <1>3, <1>4 DEF SysIInv, UnreadIsFirst, Unread
<1>7. RequesterIsThere'
  <2> SUFFICES ASSUME NEW s \in DOMAIN clients, CanBeTaken(s),
                      NEW x \in Handlers, x = Pending(s).tx,
                      NEW age \in Nat, age = clients[s].age
               PROVE  \/ Waits(x, age)'
                      \/ ~Connected(x)' /\ x \in abandoned'
                      \/ ~Connected(x)' /\ x \in justLeft' /\ age >= RECV_TIMEOUT
    BY <1>1, RequestTypes DEF SysIInv, RequesterIsThere, CanBeTaken, Pending
  <2>1. \/ Waits(x, age)
        \/ ~Connected(x) /\ x \in abandoned
        \/ ~Connected(x) /\ x \in justLeft /\ age >= RECV_TIMEOUT
    BY DEF SysIInv, RequesterIsThere
  <2>2. CASE ~Connected(x)
    BY <1>1, <1>3, <2>1, <2>2 DEF Waits
  <2>3. CASE Connected(x) /\ x # link[c]
    BY <1>1, <1>3, <1>4, <2>1, <2>3 DEF Waits
  <2>4. CASE Connected(x) /\ x = link[c]
    <3>1. Owner[x] = c
      BY <1>1, <2>4, ConnectedTypes DEF SysTypes
    <3>2. /\ phase[c] = "address" /\ phase'[c] = "start"
          /\ toClient'[x] = Tail(toClient[x])
          /\ wait'[c] = RECV_TIMEOUT
      BY <2>4
    <3>3. Tail(toClient[x]) = <<>>
      BY <2>1, <2>4, <3>1, <3>2 DEF Waits
    <3>4. wait'[c] + age >= RECV_TIMEOUT
      BY <3>2, WindowsAssumption
    <3>5. Waits(x, age)'
      BY <1>1, <1>3, <2>1, <2>4, <3>1, <3>2, <3>3, <3>4 DEF Waits
    <3>6. QED
      BY <3>5
  <2>5. QED
    BY <2>2, <2>3, <2>4
<1>8. TakenConnectorIsThere'
  <2>1. \A h \in Handlers : pc[h] = "taken" => taken[h] \in Handlers
    BY DEF SysIInv, IInv, TakenIsKnown
  <2>2. QED
    BY <1>1, <1>3, <2>1 DEF SysIInv, TakenConnectorIsThere
<1>9. QED
  BY <1>2, <1>5, <1>6, <1>7, <1>8 DEF SysIInv

\* A client that reads a message, or whose wait goes on.
LEMMA StepTypes ==
    ASSUME SysTypes, NEW c \in Clients, phase[c] # "idle",
           \/ RecvRemoteAddr(c) \/ RecvStartCountdown(c) \/ BeginConnecting(c) \/ EndWindow(c)
    PROVE  /\ SysTypes' /\ Affects(c)
           /\ Owner[link[c]] = c /\ link[c] \in Handlers /\ Connected(link[c])
<1>1. /\ Owner[link[c]] = c /\ link[c] \in Handlers /\ Connected(link[c])
  BY DEF SysTypes, SysTypeOK, Connected
<1>2. /\ toClient[link[c]] \in Seq(Reply)
      /\ toClient[link[c]] # <<>> => /\ Head(toClient[link[c]]) \in Reply
                                    /\ Tail(toClient[link[c]]) \in Seq(Reply)
  BY <1>1 DEF SysTypes
<1>3. /\ phase' = [phase EXCEPT ![c] = phase'[c]]
      /\ wait' = [wait EXCEPT ![c] = wait'[c]]
      /\ remote' = [remote EXCEPT ![c] = remote'[c]]
      /\ toClient' = [toClient EXCEPT ![link[c]] = toClient'[link[c]]]
      /\ UNCHANGED <<vars, toServer, link, justLeft, abandoned, deserted, called>>
  BY DEF RecvRemoteAddr, RecvStartCountdown, BeginConnecting, EndWindow, Reads, Read,
         wireVars, traceVars, SysTypes, SysTypeOK
<1>4. /\ phase'[c] \in {"start", "countdown", "connecting", "last attempt"}
      /\ wait'[c] \in Nat
      /\ remote'[c] \in Clients \cup {None}
      /\ toClient'[link[c]] \in Seq(Reply)
  <2>1. /\ phase'[c] \in {"start", "countdown", "connecting", "last attempt"}
        /\ wait'[c] \in Nat
    BY WindowsAssumption
    DEF RecvRemoteAddr, RecvStartCountdown, BeginConnecting, EndWindow, SysTypes, SysTypeOK
  <2>2. remote'[c] \in Clients \cup {None}
    <3>1. CASE RecvRemoteAddr(c)
      BY <1>2, <3>1 DEF RecvRemoteAddr, Reads, Reply, SysTypes, SysTypeOK
    <3>2. CASE UNCHANGED remote
      BY <3>2 DEF SysTypes, SysTypeOK
    <3>3. QED
      BY <3>1, <3>2 DEF RecvStartCountdown, BeginConnecting, EndWindow
  <2>3. toClient'[link[c]] \in Seq(Reply)
    BY <1>1, <1>2
    DEF RecvRemoteAddr, RecvStartCountdown, BeginConnecting, EndWindow, Reads, Read,
        wireVars, SysTypes
  <2>4. QED
    BY <2>1, <2>2, <2>3
<1>5. SysTypes'
  <2>1. /\ phase' \in [Clients -> {"idle", "countdown"} \cup Receiving \cup Attempting]
        /\ wait' \in [Clients -> Nat]
        /\ remote' \in [Clients -> Clients \cup {None}]
        /\ toClient' \in [Handlers -> Seq(Reply)]
        /\ \A d \in Clients : (phase'[d] = "idle") = (link'[d] = None)
    <3>1. phase'[c] \in {"idle", "countdown"} \cup Receiving \cup Attempting
      BY <1>4 DEF Receiving, Attempting
    <3>2. phase' \in [Clients -> {"idle", "countdown"} \cup Receiving \cup Attempting]
      BY <1>3, <3>1 DEF SysTypes, SysTypeOK
    <3>3. wait' \in [Clients -> Nat]
      BY <1>3, <1>4 DEF SysTypes
    <3>4. remote' \in [Clients -> Clients \cup {None}]
      BY <1>3, <1>4 DEF SysTypes, SysTypeOK
    <3>5. toClient' \in [Handlers -> Seq(Reply)]
      BY <1>3, <1>4 DEF SysTypes
    <3>6. \A d \in Clients : (phase'[d] = "idle") = (link'[d] = None)
      BY <1>3, <1>4 DEF SysTypes, SysTypeOK
    <3>7. QED
      BY <3>2, <3>3, <3>4, <3>5, <3>6
  <2>2. \A h \in Handlers : \A i \in DOMAIN toClient'[h] : toClient'[h][i] \in Reply
    BY <2>1
  <2>3. QED
    BY <1>3, <2>1, <2>2 DEF SysTypes, SysTypeOK
<1>6. Affects(c)
  BY <1>3 DEF Affects, SysTypes, SysTypeOK
<1>7. QED
  BY <1>1, <1>5, <1>6

LEMMA ReadKeeps ==
    ASSUME SysIInv, NEW c \in Clients, RecvRemoteAddr(c) \/ RecvStartCountdown(c)
    PROVE  SysIInv'
<1>1. PICK h : h = link[c]
  OBVIOUS
<1>2. phase[c] # "idle" /\ toClient[h] # <<>> /\ phase[c] \in {"address", "start"}
  BY <1>1 DEF RecvRemoteAddr, RecvStartCountdown, Reads
<1>3. SysTypes' /\ Affects(c) /\ Owner[h] = c /\ h \in Handlers /\ Connected(h)
  BY <1>1, <1>2, StepTypes DEF SysIInv
<1>4. ~Unread(h)
  BY <1>2, <1>3 DEF SysIInv, UnreadIsFirst
<1>5. ASSUME NEW s \in DOMAIN clients, CanBeTaken(s), Pending(s).tx = h
      PROVE  /\ phase[c] = "address" /\ phase'[c] = "start"
             /\ toClient'[h] = Tail(toClient[h])
             /\ wait'[c] = RECV_TIMEOUT
  <2>1. Waits(h, clients[s].age)
    BY <1>3, <1>5 DEF SysIInv, RequesterIsThere
  <2>2. RecvRemoteAddr(c)
    BY <1>1, <1>2, <1>3, <2>1 DEF Waits, RecvStartCountdown, Reads
  <2>3. QED
    BY <1>1, <1>3, <2>2 DEF RecvRemoteAddr, Reads, Read, SysIInv, SysTypes, SysTypeOK
<1>6. QED
  BY <1>1, <1>3, <1>4, <1>5, GoOnKeepsSys

LEMMA ConnectKeeps ==
    ASSUME SysIInv, NEW c \in Clients, BeginConnecting(c) \/ EndWindow(c)
    PROVE  SysIInv'
<1>1. PICK h : h = link[c]
  OBVIOUS
<1>2. phase[c] # "idle" /\ phase[c] \in {"countdown", "connecting"}
  BY DEF BeginConnecting, EndWindow
<1>3. SysTypes' /\ Affects(c) /\ Owner[h] = c /\ h \in Handlers /\ Connected(h)
  BY <1>1, <1>2, StepTypes DEF SysIInv
<1>4. ~Unread(h)
  BY <1>2, <1>3 DEF SysIInv, UnreadIsFirst
<1>5. \A s \in DOMAIN clients : CanBeTaken(s) => Pending(s).tx # h
  BY <1>2, <1>3 DEF SysIInv, RequesterIsThere, Waits
<1>6. QED
  BY <1>1, <1>3, <1>4, <1>5, GoOnKeepsSys

----------------------------------------------------------------------------
(* Calls that begin *)

LEMMA OpenKeeps ==
    ASSUME SysIInv, NEW c \in Clients, NEW h \in Handlers, NEW msg \in Request, NEW ph,
           ph = IF msg.type = "GetClients" THEN "listing" ELSE "address",
           msg.type # "GetClients" => msg.session \in Sessions,
           Open(c, h, msg, ph)
    PROVE  SysIInv'
<1>1. /\ SysTypes
      /\ pc[h] = "closed" /\ Owner[h] = c /\ phase[c] = "idle"
      /\ \A s \in DOMAIN clients : Pending(s) # None => Pending(s).tx # h
      /\ \A x \in Handlers : taken[x] # h
      /\ UNCHANGED <<clients, taken, remote, deserted, abandons>>
      /\ called' = called \cup {c}
      /\ phase' = [phase EXCEPT ![c] = ph]
      /\ link' = [link EXCEPT ![c] = h]
      /\ wait' = [wait EXCEPT ![c] = RECV_TIMEOUT]
      /\ toServer' = [toServer EXCEPT ![h] = msg]
      /\ toClient' = [toClient EXCEPT ![h] = <<>>]
      /\ pc' = [pc EXCEPT ![h] = "update"]
      /\ channel' = [channel EXCEPT ![h] = "none"]
      /\ signalledBy' = [x \in Handlers |->
                           IF x = h \/ signalledBy[x] = h THEN None ELSE signalledBy[x]]
      /\ abandoned' = abandoned \ {h}
      /\ justLeft' = justLeft \ {h}
  BY DEF SysIInv, Open, Unused, Goto, HasPending
<1>2. TypeOK
  BY DEF SysIInv, IInv
<1>3. IInv'
  BY OpenKeepsIInv DEF SysIInv
<1>4. SysTypes'
  <2>1. RECV_TIMEOUT \in Nat /\ ph \in {"idle", "countdown"} \cup Receiving \cup Attempting
        /\ ph # "idle" /\ h # None
    BY WindowsAssumption, NoneAssumption DEF Receiving
  <2>2. <<>> \in Seq(Reply)
    OBVIOUS
  <2>3. toClient' \in [Handlers -> Seq(Reply)]
    BY <1>1, <2>2 DEF SysTypes
  <2>4. \A x \in Handlers : \A i \in DOMAIN toClient'[x] : toClient'[x][i] \in Reply
    BY <2>3
  <2>5. /\ phase' \in [Clients -> {"idle", "countdown"} \cup Receiving \cup Attempting]
        /\ link' \in [Clients -> Handlers \cup {None}]
        /\ wait' \in [Clients -> Nat]
        /\ toServer' \in [Handlers -> Request \cup {None}]
        /\ \A d \in Clients : (phase'[d] = "idle") = (link'[d] = None)
        /\ \A d \in Clients : link'[d] # None => Owner[link'[d]] = d
        /\ \A x \in Handlers : toServer'[x] # None /\ toServer'[x].type # "GetClients" =>
                                toServer'[x].session \in Sessions
    BY <1>1, <2>1 DEF SysTypes, SysTypeOK
  <2>6. QED
    BY <1>1, <2>3, <2>4, <2>5 DEF SysTypes, SysTypeOK
<1>5. ASSUME NEW x \in Handlers, x # h
      PROVE  /\ Connected(x)' <=> Connected(x)
             /\ Unread(x)' <=> Unread(x)
             /\ pc'[x] = pc[x] /\ toServer'[x] = toServer[x] /\ toClient'[x] = toClient[x]
             /\ Connected(x) => /\ phase'[Owner[x]] = phase[Owner[x]]
                               /\ wait'[Owner[x]] = wait[Owner[x]]
  <2>1. x # None /\ Owner[x] \in Clients
    BY <1>1, ConnectedTypes
  <2>2. link[c] = None
    BY <1>1 DEF SysTypes, SysTypeOK
  <2>3. QED
    BY <1>1, <1>2, <1>5, <2>1, <2>2 DEF Connected, Unread, SysTypes, SysTypeOK, TypeOK
<1>6. HandledAtOnce'
  <2>1. ASSUME NEW x \in Handlers, Unread(x)' \/ pc'[x] = "taken"
        PROVE  Owner[x] \in called'
    BY <1>1, <1>5, <2>1 DEF SysIInv, HandledAtOnce
  <2>2. ASSUME NEW x \in Handlers, pc'[x] = "waiting", channel'[x] = "signalled"
        PROVE  Owner[signalledBy'[x]] \in called'
    <3>1. x # h /\ pc[x] = "waiting" /\ channel[x] = "signalled"
      BY <1>1, <1>2, <2>2 DEF TypeOK
    <3>2. Owner[signalledBy[x]] \in called
      BY <3>1 DEF SysIInv, HandledAtOnce
    <3>3. signalledBy[x] # h
      BY <1>1, <3>2 DEF Open
    <3>4. QED
      BY <1>1, <3>1, <3>2, <3>3
  <2>3. QED
    BY <2>1, <2>2 DEF HandledAtOnce
<1>7. OneMessage' /\ AnnouncementsAreFresh'
  BY <1>1, <1>2 DEF SysIInv, OneMessage, AnnouncementsAreFresh, SysTypes, SysTypeOK, TypeOK
<1>8. UnreadIsFirst'
  <2>1. ASSUME NEW x \in Handlers, x # h, Unread(x)'
        PROVE  \/ /\ Connected(x)' /\ toClient'[x] = <<>>
                  /\ phase'[Owner[x]] = IF toServer'[x].type = "GetClients" THEN "listing"
                                        ELSE "address"
                  /\ wait'[Owner[x]] = RECV_TIMEOUT
               \/ ~Connected(x)' /\ x \in abandoned'
    BY <1>1, <1>5, <2>1 DEF SysIInv, UnreadIsFirst
  <2>2. /\ Connected(h)' /\ toClient'[h] = <<>>
        /\ phase'[Owner[h]] = IF toServer'[h].type = "GetClients" THEN "listing" ELSE "address"
        /\ wait'[Owner[h]] = RECV_TIMEOUT
    BY <1>1 DEF Connected, SysTypes, SysTypeOK
  <2>3. QED
    BY <2>1, <2>2 DEF UnreadIsFirst
<1>9. RequesterIsThere'
  <2> SUFFICES ASSUME NEW s \in DOMAIN clients, CanBeTaken(s),
                      NEW x \in Handlers, x = Pending(s).tx,
                      NEW age \in Nat, age = clients[s].age
               PROVE  \/ Waits(x, age)'
                      \/ ~Connected(x)' /\ x \in abandoned'
                      \/ ~Connected(x)' /\ x \in justLeft' /\ age >= RECV_TIMEOUT
    BY <1>1, RequestTypes DEF SysIInv, RequesterIsThere, CanBeTaken, Pending
  <2>1. \/ Waits(x, age)
        \/ ~Connected(x) /\ x \in abandoned
        \/ ~Connected(x) /\ x \in justLeft /\ age >= RECV_TIMEOUT
    BY DEF SysIInv, RequesterIsThere
  <2>2. x # h
    BY <1>1 DEF CanBeTaken
  <2>3. Waits(x, age) => Waits(x, age)'
    BY <1>5, <2>2 DEF Waits
  <2>4. QED
    BY <1>1, <1>5, <2>1, <2>2, <2>3
<1>10. TakenConnectorIsThere'
  <2>1. \A x \in Handlers : pc[x] = "taken" => taken[x] \in Handlers
    BY DEF SysIInv, IInv, TakenIsKnown
  <2>2. QED
    BY <1>1, <1>2, <1>5, <2>1 DEF SysIInv, TakenConnectorIsThere, TypeOK
<1>11. QED
  BY <1>3, <1>4, <1>6, <1>7, <1>8, <1>9, <1>10 DEF SysIInv

----------------------------------------------------------------------------
(* The server's tasks *)

\* A task changes its own state and sends to its own client.
LEMMA ServerSteps ==
    ASSUME SysIInv, NEW h \in Handlers, Server(h)
    PROVE  /\ \A x \in Handlers : x # h => /\ pc'[x] = pc[x] /\ toServer'[x] = toServer[x]
                                          /\ toClient'[x] = toClient[x]
                                          /\ taken'[x] = taken[x]
           /\ Unread(h)' => /\ Unread(h) /\ toServer'[h] = toServer[h]
                            /\ toClient'[h] = toClient[h]
           /\ pc'[h] \in {"taken", "waiting", "removing"} => toServer'[h] = None
           /\ toServer' \in [Handlers -> Request \cup {None}]
           /\ toServer'[h] \in {toServer[h], None}
<1>1. /\ TypeOK /\ SysTypes
      /\ OneMessage
  BY DEF SysIInv, IInv
<1>2. CASE Takes(h, "GetClients") /\ GoRound(h)
           /\ Sends(h, <<[type |-> "Clients", sessions |-> DOMAIN clients]>>)
  BY <1>1, <1>2 DEF Takes, GoRound, Sends, Goto, Unread, taskVars, TypeOK, SysTypes, SysTypeOK
<1>3. CASE Takes(h, "AnnounceAndCheck") /\ AnnounceAndCheck(h, toServer[h].session)
           /\ UNCHANGED toClient
  BY <1>1, <1>3 DEF Takes, AnnounceAndCheck, Goto, Unread, TypeOK, SysTypes, SysTypeOK
<1>4. CASE Takes(h, "ConnectionRequest") /\ ConnectionRequest(h, toServer[h].session)
           /\ Sends(h, <<AddrOf(clients[toServer[h].session].addr)>>)
  BY <1>1, <1>4 DEF Takes, ConnectionRequest, Insert, Sends, Goto, Unread, TypeOK, SysTypes,
                    SysTypeOK
<1>5. CASE /\ Takes(h, "ConnectionRequest") /\ UNCHANGED toClient
           /\ \/ SessionNotFound(h, toServer[h].session)
              \/ ConnectionRequestPanics(h, toServer[h].session)
  BY <1>1, <1>5 DEF Takes, SessionNotFound, ConnectionRequestPanics, Insert, Goto, Unread,
                    taskVars, TypeOK, SysTypes, SysTypeOK
<1>6. CASE UNCHANGED toServer /\ Confirm(h) /\ Sends(h, ToService(h))
  BY <1>1, <1>6 DEF Confirm, Signal, Sends, Goto, Unread, OneMessage, TypeOK, SysTypes, SysTypeOK
<1>7. CASE UNCHANGED toServer /\ Confirmed(h) /\ Sends(h, <<Start>>)
  BY <1>1, <1>7 DEF Confirmed, Sends, Goto, Unread, OneMessage, taskVars, TypeOK, SysTypes,
                    SysTypeOK
<1>8. CASE UNCHANGED <<toServer, toClient>> /\ (PollUpdate(h) \/ ConfirmTooLate(h))
  BY <1>1, <1>8 DEF PollUpdate, ConfirmTooLate, Goto, Unread, OneMessage, taskVars, TypeOK,
                    SysTypes, SysTypeOK
<1>9. CASE /\ UNCHANGED <<toServer, toClient>>
           /\ SenderDropped(h) \/ TimeOut(h) \/ RemoveRequest(h)
  BY <1>1, <1>9 DEF SenderDropped, TimeOut, RemoveRequest, Goto, Unread, OneMessage, taskVars,
                    TypeOK, SysTypes, SysTypeOK
<1>10. CASE /\ UNCHANGED <<toServer, toClient>>
            /\ Disconnect(h) \/ ConfirmedPanics(h) \/ ConfirmPanics(h)
  BY <1>1, <1>10 DEF Disconnect, ConfirmedPanics, ConfirmPanics, Signal, Goto, Unread, OneMessage,
                     taskVars, TypeOK, SysTypes, SysTypeOK
<1>11. QED
  BY <1>2, <1>3, <1>4, <1>5, <1>6, <1>7, <1>8, <1>9, <1>10 DEF Server, Serve

\* What a task sends is of the types of the model.
LEMMA ServerSends ==
    ASSUME SysIInv, NEW h \in Handlers, Server(h)
    PROVE  toClient' \in [Handlers -> Seq(Reply)]
<1>1. /\ TypeOK /\ SysTypes /\ TakenIsKnown
      /\ toClient[h] \in Seq(Reply)
  BY ConnectedTypes DEF SysIInv, IInv
<1>2. ASSUME NEW ms \in Seq(Reply), Sends(h, ms)
      PROVE  toClient' \in [Handlers -> Seq(Reply)]
  <2>1. toClient[h] \o ms \in Seq(Reply)
    BY <1>1
  <2>2. QED
    BY <1>1, <1>2, <2>1 DEF Sends, SysTypes
<1>3. ASSUME NEW m \in Reply
      PROVE  <<m>> \in Seq(Reply)
  OBVIOUS
<1>4. Start \in Reply
  BY DEF Start, Reply
<1>5. CASE Sends(h, <<[type |-> "Clients", sessions |-> DOMAIN clients]>>)
  <2>1. [type |-> "Clients", sessions |-> DOMAIN clients] \in Reply
    BY <1>1 DEF TypeOK, Reply
  <2>2. <<[type |-> "Clients", sessions |-> DOMAIN clients]>> \in Seq(Reply)
    BY <1>3, <2>1, Zenon
  <2>3. QED
    BY <1>2, <1>5, <2>2, Zenon
<1>6. CASE Takes(h, "ConnectionRequest") /\ ConnectionRequest(h, toServer[h].session)
           /\ Sends(h, <<AddrOf(clients[toServer[h].session].addr)>>)
  <2>1. clients[toServer[h].session].addr \in Handlers
    BY <1>1, <1>6 DEF ConnectionRequest, Insert, TypeOK, KnownClient
  <2>2. AddrOf(clients[toServer[h].session].addr) \in Reply
    BY <2>1, OwnerAssumption DEF AddrOf, Reply
  <2>3. <<AddrOf(clients[toServer[h].session].addr)>> \in Seq(Reply)
    BY <1>3, <2>2, Zenon
  <2>4. QED
    BY <1>2, <1>6, <2>3, Zenon
<1>7. CASE Confirm(h) /\ Sends(h, ToService(h))
  <2>1. taken[h] \in Handlers
    BY <1>1, <1>7 DEF Confirm, Signal, TakenIsKnown
  <2>2. AddrOf(taken[h]) \in Reply
    BY <2>1, OwnerAssumption DEF AddrOf, Reply
  <2>3. ToService(h) \in Seq(Reply)
    BY <1>4, <2>2 DEF ToService
  <2>4. QED
    BY <1>2, <1>7, <2>3, Zenon
<1>8. CASE Sends(h, <<Start>>)
  BY <1>2, <1>3, <1>4, <1>8, Zenon
<1>9. CASE UNCHANGED toClient
  BY <1>1, <1>9 DEF SysTypes
<1>10. QED
  BY <1>5, <1>6, <1>7, <1>8, <1>9 DEF Server, Serve

\* Announcements get no older, and the old ones go before a message is read.
LEMMA ServerAges ==
    ASSUME SysIInv, NEW h \in Handlers, Server(h)
    PROVE  \/ \A s \in DOMAIN clients' : clients'[s].age <= ANNOUNCEMENT_DURATION
           \/ /\ pc'[h] # "recv"
              /\ \A s \in DOMAIN clients' :
                   \/ clients'[s].age = 0
                   \/ s \in DOMAIN clients /\ clients'[s].age = clients[s].age
<1>1. TypeOK
  BY DEF SysIInv, IInv
<1>2. CASE PollUpdate(h)
  BY <1>1, <1>2, DurationsAssumption DEF PollUpdate, TypeOK, KnownClient
<1>3. CASE \/ GoRound(h) \/ Disconnect(h) \/ Confirmed(h) \/ ConfirmedPanics(h)
           \/ SenderDropped(h) \/ TimeOut(h)
           \/ SessionNotFound(h, toServer[h].session)
  BY <1>1, <1>3 DEF GoRound, Disconnect, Confirmed, ConfirmedPanics, SenderDropped, TimeOut,
                    SessionNotFound, Goto, TypeOK
<1>4. CASE Confirm(h) \/ ConfirmPanics(h) \/ ConfirmTooLate(h)
  BY <1>1, <1>4 DEF Confirm, ConfirmPanics, ConfirmTooLate, Signal, Goto, TypeOK
<1>5. CASE \E s \in Sessions : AnnounceAndCheck(h, s)
  BY <1>1, <1>5 DEF AnnounceAndCheck, Goto, TypeOK
<1>6. CASE \E s \in Sessions : ConnectionRequest(h, s) \/ ConnectionRequestPanics(h, s)
  <2>1. PICK s \in Sessions : Insert(h, s)
    BY <1>6 DEF ConnectionRequest, ConnectionRequestPanics
  <2>2. pc'[h] # "recv"
    BY <1>1, <1>6 DEF ConnectionRequest, ConnectionRequestPanics, Goto, TypeOK
  <2>3. \A x \in DOMAIN clients' : x \in DOMAIN clients /\ clients'[x].age = clients[x].age
    BY <1>1, <2>1 DEF Insert, TypeOK, KnownClient
  <2>4. QED
    BY <2>2, <2>3
<1>7. CASE RemoveRequest(h)
  <2>1. pc'[h] # "recv"
    BY <1>1, <1>7 DEF RemoveRequest, Goto, TypeOK
  <2>2. \A x \in DOMAIN clients' : x \in DOMAIN clients /\ clients'[x].age = clients[x].age
    BY <1>1, <1>7 DEF RemoveRequest, WithoutRequest, TypeOK, KnownClient
  <2>3. QED
    BY <2>1, <2>2
<1>8. toServer[h] # None /\ toServer[h].type # "GetClients" => toServer[h].session \in Sessions
  BY DEF SysIInv, SysTypes
<1>9. QED
  BY <1>2, <1>3, <1>4, <1>5, <1>6, <1>7, <1>8 DEF Server, Serve, Takes

\* The task of a request that can be taken does nothing but wait.
LEMMA WaitingTasksRest ==
    ASSUME SysIInv, NEW h \in Handlers, Server(h),
           NEW s \in DOMAIN clients, CanBeTaken(s), Pending(s).tx = h
    PROVE  pc[h] # "waiting"
<1>1. SUFFICES ASSUME pc[h] = "waiting" PROVE FALSE
  OBVIOUS
<1>2. channel[h] = "open"
  BY <1>1 DEF SysIInv, IInv, PendingHasConnector, CanBeTaken
<1>3. timer[h] # 0
  <2>1. Pending(s).left + MARGIN <= timer[h]
    BY <1>1 DEF SysIInv, IInv, TakenBeforeTimeOut, CanBeTaken
  <2>2. QED
    BY <2>1, DurationsAssumption, RequestTypes DEF SysIInv, CanBeTaken
<1>4. QED
  BY <1>1, <1>2, <1>3
  DEF Server, Serve, GoRound, AnnounceAndCheck, ConnectionRequest, ConnectionRequestPanics,
      Insert, SessionNotFound, Confirm, Confirmed, PollUpdate, ConfirmTooLate, SenderDropped,
      TimeOut, RemoveRequest, Disconnect, ConfirmedPanics, ConfirmPanics, Signal

\* A request that can be taken was there before, or its client has just asked for it.
LEMMA ServerRequests ==
    ASSUME SysIInv, NEW h \in Handlers, Server(h),
           NEW s \in DOMAIN clients', CanBeTaken(s)'
    PROVE  \/ s \in DOMAIN clients /\ clients'[s] = clients[s]
           \/ /\ clients'[s].pending_connection.tx = h /\ Unread(h)
              /\ toServer[h].type # "GetClients"
              /\ \/ /\ pc'[h] = "waiting"
                    /\ Sends(h, <<AddrOf(clients[s].addr)>>)
                 \/ ~Connected(h)
<1>1. TypeOK
  BY DEF SysIInv, IInv
<1>2. CASE \/ GoRound(h) \/ Disconnect(h) \/ Confirmed(h) \/ ConfirmedPanics(h)
           \/ SenderDropped(h) \/ TimeOut(h) \/ PollUpdate(h)
           \/ Confirm(h) \/ ConfirmPanics(h) \/ ConfirmTooLate(h)
           \/ SessionNotFound(h, toServer[h].session)
  BY <1>1, <1>2 DEF GoRound, Disconnect, Confirmed, ConfirmedPanics, SenderDropped, TimeOut,
                    PollUpdate, Confirm, ConfirmPanics, ConfirmTooLate, SessionNotFound, Signal
<1>3. CASE \E x \in Sessions : AnnounceAndCheck(h, x)
  <2>1. PICK x \in Sessions : AnnounceAndCheck(h, x)
    BY <1>3
  <2>2. CASE s # x
    BY <1>1, <2>1, <2>2 DEF AnnounceAndCheck
  <2>3. CASE s = x
    BY <1>1, <2>1, <2>3 DEF AnnounceAndCheck, InTime, HasPending, Pending, CanBeTaken
  <2>4. QED
    BY <2>2, <2>3
<1>4. CASE /\ Takes(h, "ConnectionRequest")
           /\ \/ /\ ConnectionRequest(h, toServer[h].session)
                 /\ Sends(h, <<AddrOf(clients[toServer[h].session].addr)>>)
              \/ ConnectionRequestPanics(h, toServer[h].session) /\ ~Connected(h)
  <2>1. Insert(h, toServer[h].session) /\ Unread(h) /\ toServer[h].type # "GetClients"
    BY <1>4 DEF ConnectionRequest, ConnectionRequestPanics, Insert, Takes, Unread
  <2>2. CASE s # toServer[h].session
    BY <1>1, <2>1, <2>2 DEF Insert
  <2>3. CASE s = toServer[h].session
    <3>1. clients'[s].pending_connection.tx = h
      BY <1>1, <2>1, <2>3 DEF Insert, TypeOK, KnownClient
    <3>2. ConnectionRequest(h, toServer[h].session) => pc'[h] = "waiting"
      BY <1>1 DEF ConnectionRequest, Goto, TypeOK
    <3>3. QED
      BY <1>4, <2>1, <2>3, <3>1, <3>2
  <2>4. QED
    BY <2>2, <2>3
<1>5. CASE RemoveRequest(h)
  <2>1. clients' = WithoutRequest(wanted[h])
    BY <1>5 DEF RemoveRequest
  <2>2. CASE s # wanted[h]
    BY <1>1, <2>1, <2>2 DEF WithoutRequest
  <2>3. CASE s = wanted[h]
    BY <1>1, <2>1, <2>3 DEF WithoutRequest, CanBeTaken, Pending, TypeOK, KnownClient
  <2>4. QED
    BY <2>2, <2>3
<1>6. toServer[h] # None /\ toServer[h].type # "GetClients" => toServer[h].session \in Sessions
  BY DEF SysIInv, SysTypes
<1>7. QED
  BY <1>2, <1>3, <1>4, <1>5, <1>6 DEF Server, Serve, Takes

LEMMA ServerKeepsHandledAtOnce ==
    ASSUME SysIInv, NEW h \in Handlers, Server(h)
    PROVE  HandledAtOnce'
<1>1. TypeOK /\ called' = called
  BY DEF SysIInv, IInv, Server
<1>2. ASSUME NEW x \in Handlers, Unread(x)' \/ pc'[x] = "taken"
      PROVE  Owner[x] \in called'
  <2>1. CASE x # h
    BY <1>1, <1>2, <2>1, ServerSteps DEF SysIInv, HandledAtOnce, Unread
  <2>2. CASE x = h /\ Unread(x)'
    BY <1>1, <2>2, ServerSteps DEF SysIInv, HandledAtOnce
  <2>3. CASE x = h /\ pc'[h] = "taken"
    <3>1. Takes(h, "AnnounceAndCheck") /\ pc[h] = "recv"
      BY <1>1, <2>3
      DEF Server, Serve, GoRound, AnnounceAndCheck, ConnectionRequest, ConnectionRequestPanics,
          SessionNotFound, Confirm, Confirmed, PollUpdate, ConfirmTooLate, SenderDropped,
          TimeOut, RemoveRequest, Disconnect, ConfirmedPanics, ConfirmPanics, Goto, TypeOK
    <3>2. Unread(h)
      BY <3>1 DEF Takes, Unread
    <3>3. QED
      BY <1>1, <2>3, <3>2 DEF SysIInv, HandledAtOnce
  <2>4. QED
    BY <1>2, <2>1, <2>2, <2>3
<1>3. ASSUME NEW x \in Handlers, pc'[x] = "waiting", channel'[x] = "signalled"
      PROVE  Owner[signalledBy'[x]] \in called'
  <2>1. CASE Signal(h)
    <3>1. Owner[h] \in called
      BY <2>1 DEF Signal, SysIInv, HandledAtOnce
    <3>2. x # h
      BY <1>1, <1>3, <2>1
      DEF Signal, Server, Serve, GoRound, AnnounceAndCheck, ConnectionRequest,
          ConnectionRequestPanics, Insert, SessionNotFound, Confirm, Confirmed, PollUpdate,
          ConfirmTooLate, SenderDropped, TimeOut, RemoveRequest, Disconnect, ConfirmedPanics,
          ConfirmPanics, Goto, TypeOK
    <3>3. pc[x] = "waiting"
      BY <1>3, <3>2, ServerSteps
    <3>4. CASE x = taken[h]
      BY <1>1, <2>1, <3>1, <3>4 DEF Signal, TypeOK
    <3>5. CASE x # taken[h]
      BY <1>1, <1>3, <2>1, <3>3, <3>5 DEF Signal, SysIInv, HandledAtOnce, TypeOK
    <3>6. QED
      BY <3>4, <3>5
  <2>2. CASE ~Signal(h)
    <3>1. channel[x] = "signalled" /\ signalledBy'[x] = signalledBy[x]
      BY <1>1, <1>3, <2>2
      DEF Server, Serve, GoRound, AnnounceAndCheck, ConnectionRequest, ConnectionRequestPanics,
          SessionNotFound, Confirm, Confirmed, PollUpdate, ConfirmTooLate, SenderDropped,
          TimeOut, RemoveRequest, Disconnect, ConfirmedPanics, ConfirmPanics, DropSenders,
          historyVars, TypeOK
    <3>2. pc[x] = "waiting"
      BY <1>1, <1>3, <3>1
      DEF Server, Serve, GoRound, AnnounceAndCheck, ConnectionRequest, ConnectionRequestPanics,
          SessionNotFound, Confirm, Confirmed, PollUpdate, ConfirmTooLate, SenderDropped,
          TimeOut, RemoveRequest, Disconnect, ConfirmedPanics, ConfirmPanics, Signal, Goto,
          TypeOK
    <3>3. QED
      BY <1>1, <3>1, <3>2 DEF SysIInv, HandledAtOnce
  <2>3. QED
    BY <2>1, <2>2
<1>4. QED
  BY <1>2, <1>3 DEF HandledAtOnce

LEMMA ServerKeepsRequesters ==
    ASSUME SysIInv, NEW h \in Handlers, Server(h)
    PROVE  RequesterIsThere'
<1>1. /\ TypeOK /\ SysTypes
      /\ UNCHANGED <<link, phase, wait, justLeft, abandoned>>
      /\ \A x : Connected(x)' <=> Connected(x)
  BY DEF SysIInv, IInv, Server, clientVars, Connected
<1> SUFFICES ASSUME NEW s \in DOMAIN clients', CanBeTaken(s)',
                    NEW x, x = clients'[s].pending_connection.tx,
                    NEW age, age = clients'[s].age
             PROVE  \/ Waits(x, age)'
                    \/ ~Connected(x) /\ x \in abandoned
                    \/ ~Connected(x) /\ x \in justLeft /\ age >= RECV_TIMEOUT
  BY <1>1 DEF RequesterIsThere, Pending
<1>2. CASE s \in DOMAIN clients /\ clients'[s] = clients[s]
  <2>1. CanBeTaken(s) /\ x = Pending(s).tx /\ age = clients[s].age
    BY <1>2 DEF CanBeTaken, Pending
  <2>2. \/ Waits(x, age)
        \/ ~Connected(x) /\ x \in abandoned
        \/ ~Connected(x) /\ x \in justLeft /\ age >= RECV_TIMEOUT
    BY <1>2, <2>1 DEF SysIInv, RequesterIsThere
  <2>3. x \in Handlers
    BY <1>2, <2>1, RequestTypes DEF SysIInv
  <2>4. Waits(x, age) => Waits(x, age)'
    <3>1. SUFFICES ASSUME Waits(x, age) PROVE Waits(x, age)'
      OBVIOUS
    <3>2. x # h
      BY <1>2, <2>1, <3>1, WaitingTasksRest DEF Waits
    <3>3. QED
      BY <1>1, <2>3, <3>1, <3>2, ServerSteps DEF Waits
  <2>5. QED
    BY <2>2, <2>4
<1>3. CASE /\ x = h /\ Unread(h) /\ toServer[h].type # "GetClients"
           /\ \/ pc'[h] = "waiting" /\ Sends(h, <<AddrOf(clients[s].addr)>>)
              \/ ~Connected(h)
  <2>1. CASE ~Connected(h)
    BY <1>3, <2>1 DEF SysIInv, UnreadIsFirst
  <2>2. CASE Connected(h) /\ pc'[h] = "waiting" /\ Sends(h, <<AddrOf(clients[s].addr)>>)
    <3>1. toClient[h] = <<>> /\ phase[Owner[h]] = "address"
      BY <1>3, <2>2 DEF SysIInv, UnreadIsFirst
    <3>2. PICK m : m = AddrOf(clients[s].addr)
      OBVIOUS
    <3>3. toClient'[h] = <<m>>
      BY <1>1, <2>2, <3>1, <3>2 DEF Sends, SysTypes
    <3>4. /\ toClient'[h] # <<>> /\ Tail(toClient'[h]) = <<>>
          /\ Head(toClient'[h]).type = "RemoteAddr"
      BY <3>2, <3>3 DEF AddrOf
    <3>5. QED
      BY <1>1, <1>3, <2>2, <3>1, <3>4 DEF Waits
  <2>3. QED
    BY <1>3, <2>1, <2>2
<1>4. QED
  BY <1>2, <1>3, ServerRequests

LEMMA ServerKeeps ==
    ASSUME SysIInv, NEW h \in Handlers, Server(h)
    PROVE  SysIInv'
<1>1. /\ TypeOK /\ SysTypes
      /\ UNCHANGED <<phase, link, wait, remote, justLeft, abandoned, called>>
      /\ \A x : Connected(x)' <=> Connected(x)
  BY DEF SysIInv, IInv, Server, clientVars, Connected
<1>2. IInv'
  BY ServeIsNext, NextIInv DEF Server, SysIInv
<1>3. SysTypes'
  <2>1. /\ toServer' \in [Handlers -> Request \cup {None}]
        /\ \A x \in Handlers : toServer'[x] # None => toServer'[x] = toServer[x]
    BY ServerSteps
  <2>2. toClient' \in [Handlers -> Seq(Reply)]
    BY ServerSends
  <2>3. \A x \in Handlers : \A i \in DOMAIN toClient'[x] : toClient'[x][i] \in Reply
    BY <2>2
  <2>4. QED
    BY <1>1, <2>1, <2>2, <2>3 DEF SysTypes, SysTypeOK
<1>4. OneMessage'
  BY ServerSteps DEF SysIInv, OneMessage
<1>5. AnnouncementsAreFresh'
  <2> SUFFICES ASSUME NEW x \in Handlers, pc'[x] = "recv", NEW s \in DOMAIN clients'
               PROVE  clients'[s].age <= ANNOUNCEMENT_DURATION
    BY DEF AnnouncementsAreFresh
  <2>1. CASE \A y \in DOMAIN clients' : clients'[y].age <= ANNOUNCEMENT_DURATION
    BY <2>1
  <2>2. CASE /\ pc'[h] # "recv"
             /\ \/ clients'[s].age = 0
                \/ s \in DOMAIN clients /\ clients'[s].age = clients[s].age
    <3>1. pc[x] = "recv"
      BY <2>2, ServerSteps
    <3>2. QED
      BY <2>2, <3>1, DurationsAssumption DEF SysIInv, AnnouncementsAreFresh
  <2>3. QED
    BY <2>1, <2>2, ServerAges
<1>6. UnreadIsFirst'
  <2>1. \A x \in Handlers : Unread(x)' => /\ Unread(x) /\ toServer'[x] = toServer[x]
                                         /\ toClient'[x] = toClient[x]
    BY ServerSteps DEF Unread
  <2>2. QED
    BY <1>1, <2>1 DEF SysIInv, UnreadIsFirst
<1>7. TakenConnectorIsThere'
  <2> SUFFICES ASSUME NEW x \in Handlers, pc'[x] = "taken"
               PROVE  Connected(taken'[x]) \/ taken'[x] \in justLeft \cup abandoned
    BY <1>1 DEF TakenConnectorIsThere
  <2>1. CASE x # h
    BY <2>1, ServerSteps DEF SysIInv, TakenConnectorIsThere
  <2>2. CASE x = h
    <3>1. PICK s : AnnounceAndCheck(h, s)
      BY <1>1, <2>2
      DEF Server, Serve, GoRound, ConnectionRequest, ConnectionRequestPanics,
          SessionNotFound, Confirm, Confirmed, PollUpdate, ConfirmTooLate, SenderDropped,
          TimeOut, RemoveRequest, Disconnect, ConfirmedPanics, ConfirmPanics, Goto, TypeOK
    <3>2. HasPending(s) /\ InTime(Pending(s)) /\ taken'[h] = Pending(s).tx
      BY <1>1, <2>2, <3>1 DEF AnnounceAndCheck, InTime, Goto, TypeOK
    <3>3. s \in DOMAIN clients /\ CanBeTaken(s)
      BY <3>1, <3>2 DEF AnnounceAndCheck, HasPending, InTime, CanBeTaken, SysIInv,
                        AnnouncementsAreFresh
    <3>4. QED
      BY <2>2, <3>2, <3>3 DEF SysIInv, RequesterIsThere, Waits
  <2>3. QED
    BY <2>1, <2>2
<1>8. QED
  BY <1>2, <1>3, <1>4, <1>5, <1>6, <1>7, ServerKeepsHandledAtOnce, ServerKeepsRequesters
  DEF SysIInv

----------------------------------------------------------------------------
(* Time *)

\* The expiry of announcements is not later than the end of a connector's wait.
LEMMA SysTickKeeps ==
    ASSUME SysIInv, SysTick
    PROVE  SysIInv'
<1>1. /\ TypeOK /\ SysTypes
      /\ \A h \in Handlers : Settled(h)
      /\ \A c \in Clients : phase[c] \in Receiving => toClient[link[c]] = <<>> /\ wait[c] > 0
      /\ pc' = [h \in Handlers |-> IF pc[h] = "recv" THEN "update" ELSE pc[h]]
      /\ wait' = [c \in Clients |-> Minus1(wait[c])]
      /\ UNCHANGED <<phase, link, remote, toServer, toClient, abandoned>>
      /\ UNCHANGED <<taken, channel, signalledBy>>
      /\ \A x : Connected(x)' <=> Connected(x)
  BY DEF SysIInv, IInv, SysTick, TimePasses, historyVars, wireVars, Connected, Receiving
<1>2. IInv'
  BY SysTickKeepsIInv DEF SysIInv
<1>3. SysTypes'
  <2>1. wait' \in [Clients -> Nat]
    BY <1>1 DEF SysTypes, Minus1
  <2>2. QED
    BY <1>1, <2>1 DEF SysTypes, SysTypeOK
<1>4. \A h \in Handlers : ~Unread(h)' /\ pc'[h] # "taken" /\ pc'[h] # "recv"
  BY <1>1 DEF Settled, Unread
<1>5. OneMessage'
  BY <1>1 DEF SysIInv, OneMessage
<1>6. HandledAtOnce'
  BY <1>1, <1>4 DEF HandledAtOnce, Settled
<1>7. AnnouncementsAreFresh' /\ UnreadIsFirst' /\ TakenConnectorIsThere'
  BY <1>4 DEF AnnouncementsAreFresh, UnreadIsFirst, TakenConnectorIsThere
<1>8. RequesterIsThere'
  <2> SUFFICES ASSUME NEW s \in DOMAIN clients', CanBeTaken(s)',
                      NEW x, x = clients'[s].pending_connection.tx,
                      NEW age, age = clients'[s].age
               PROVE  \/ Waits(x, age)'
                      \/ ~Connected(x) /\ x \in abandoned
    BY <1>1 DEF RequesterIsThere, Pending
  <2>1. /\ s \in DOMAIN clients
        /\ CanBeTaken(s) /\ x = Pending(s).tx
        /\ age = clients[s].age + 1 /\ clients[s].age < ANNOUNCEMENT_DURATION
    <3>1. TimePasses
      BY DEF SysTick
    <3>2. s \in DOMAIN clients /\ clients[s] \in KnownClient
      BY <1>1, <3>1 DEF TimePasses, TypeOK
    <3>3. QED
      BY <3>1, <3>2, DurationsAssumption
      DEF TimePasses, KnownClient, IncomingConnection, Minus1, CanBeTaken, Pending
  <2>2. clients[s].age \in Nat /\ x \in Handlers
    BY <2>1, RequestTypes DEF SysIInv
  <2>3. \/ Waits(x, clients[s].age)
        \/ ~Connected(x) /\ x \in abandoned
        \/ ~Connected(x) /\ x \in justLeft /\ clients[s].age >= RECV_TIMEOUT
    BY <2>1 DEF SysIInv, RequesterIsThere
  <2>4. ~(clients[s].age >= RECV_TIMEOUT)
    BY <2>1, <2>2, ExpiryAssumption, DurationsAssumption, WindowsAssumption
  <2>5. ASSUME Waits(x, clients[s].age) PROVE Waits(x, age)'
    <3>1. /\ Connected(x) /\ pc[x] = "waiting" /\ Owner[x] \in Clients /\ link[Owner[x]] = x
          /\ phase[Owner[x]] \in Receiving
      BY <1>1, <2>2, <2>5, ConnectedTypes DEF Waits, Receiving
    <3>2. /\ toClient[x] = <<>> /\ wait[Owner[x]] > 0 /\ wait[Owner[x]] \in Nat
          /\ wait'[Owner[x]] = wait[Owner[x]] - 1
      BY <1>1, <3>1 DEF SysTypes, Minus1
    <3>3. phase[Owner[x]] = "start" /\ wait[Owner[x]] + clients[s].age >= RECV_TIMEOUT
      BY <2>5, <3>2 DEF Waits
    <3>4. wait'[Owner[x]] + age >= RECV_TIMEOUT
      BY <2>1, <2>2, <3>2, <3>3, WindowsAssumption
    <3>5. QED
      BY <1>1, <2>2, <3>1, <3>2, <3>3, <3>4 DEF Waits
  <2>6. QED
    BY <2>3, <2>4, <2>5
<1>9. QED
  BY <1>2, <1>3, <1>5, <1>6, <1>7, <1>8 DEF SysIInv

----------------------------------------------------------------------------
(* The specification *)

LEMMA SysInitHolds == SysInit => SysIInv
<1> SUFFICES ASSUME SysInit PROVE SysIInv
  OBVIOUS
<1>1. /\ DOMAIN clients = {} /\ pc = [h \in Handlers |-> "closed"]
      /\ channel = [h \in Handlers |-> "none"]
      /\ toServer = [h \in Handlers |-> None]
  BY DEF SysInit, InitAt
<1>2. IInv
  <2>1. TypeOK
    BY DurationsAssumption DEF SysInit, InitAt, TypeOK, ChannelStates
  <2>2. TakenIsKnown /\ OpenIsAwaited /\ PendingHasConnector /\ RequestIsInOnePlace
    BY <1>1 DEF TakenIsKnown, OpenIsAwaited, PendingHasConnector, RequestIsInOnePlace
  <2>3. TakenBeforeTimeOut /\ TakenRequestIsLive /\ SignalIsFromPartner /\ CountdownIsPaired
    BY <1>1 DEF SysInit, InitAt, TakenBeforeTimeOut, TakenRequestIsLive, SignalIsFromPartner,
                CountdownIsPaired
  <2>4. QED
    BY <2>1, <2>2, <2>3 DEF IInv
<1>3. SysTypes
  <2>1. toClient \in [Handlers -> Seq(Reply)]
    BY DEF SysInit
  <2>2. \A h \in Handlers : \A i \in DOMAIN toClient[h] : toClient[h][i] \in Reply
    BY <2>1
  <2>3. QED
    BY <2>1, <2>2 DEF SysInit, SysTypes, SysTypeOK
<1>4. /\ OneMessage /\ HandledAtOnce /\ AnnouncementsAreFresh /\ UnreadIsFirst
      /\ RequesterIsThere /\ TakenConnectorIsThere
  BY <1>1 DEF OneMessage, HandledAtOnce, AnnouncementsAreFresh, UnreadIsFirst, Unread,
              RequesterIsThere, TakenConnectorIsThere
<1>5. QED
  BY <1>2, <1>3, <1>4 DEF SysIInv

LEMMA CallerKeeps ==
    ASSUME SysIInv, NEW c \in Clients, NEW h \in Handlers,
           poll_accept(c, h) \/ scan_connections(c, h) \/ connect_client(c, h)
    PROVE  SysIInv'
<1>1. CASE poll_accept(c, h)
  <2>1. PICK msg : msg = [type |-> "AnnounceAndCheck", session |-> SessionOf[c]]
    OBVIOUS
  <2>2. c \in Services /\ Open(c, h, msg, "address")
    BY <1>1, <2>1 DEF poll_accept
  <2>3. /\ msg \in Request /\ msg.session \in Sessions
        /\ "address" = IF msg.type = "GetClients" THEN "listing" ELSE "address"
    BY <2>1, <2>2, SessionOfAssumption DEF Request
  <2>4. QED
    BY <2>2, <2>3, OpenKeeps
<1>2. CASE scan_connections(c, h)
  <2>1. PICK msg : msg = [type |-> "GetClients", session |-> None]
    OBVIOUS
  <2>2. Open(c, h, msg, "listing")
    BY <1>2, <2>1 DEF scan_connections
  <2>3. /\ msg \in Request /\ msg.type = "GetClients"
        /\ "listing" = IF msg.type = "GetClients" THEN "listing" ELSE "address"
    BY <2>1 DEF Request
  <2>4. QED
    BY <2>2, <2>3, OpenKeeps
<1>3. CASE connect_client(c, h)
  <2>1. PICK s \in Sessions : Open(c, h, [type |-> "ConnectionRequest", session |-> s], "address")
    BY <1>3 DEF connect_client
  <2>2. PICK msg : msg = [type |-> "ConnectionRequest", session |-> s]
    OBVIOUS
  <2>3. Open(c, h, msg, "address")
    BY <2>1, <2>2
  <2>4. /\ msg \in Request /\ msg.session \in Sessions
        /\ "address" = IF msg.type = "GetClients" THEN "listing" ELSE "address"
    BY <2>2 DEF Request
  <2>5. QED
    BY <2>3, <2>4, OpenKeeps
<1>4. QED
  BY <1>1, <1>2, <1>3

LEMMA StutteringKeeps ==
    ASSUME SysIInv, UNCHANGED sysVars
    PROVE  SysIInv'
<1>1. /\ UNCHANGED vars
      /\ UNCHANGED <<clients, pc, wanted, timer, taken, channel, signalledBy, goAhead>>
      /\ UNCHANGED <<phase, link, wait, remote, toServer, toClient, justLeft, abandoned, called>>
  BY DEF sysVars, vars, taskVars, historyVars, clientVars, wireVars, traceVars
<1>2. IInv'
  BY <1>1, NextIInv DEF SysIInv
<1>3. SysTypes' /\ OneMessage' /\ HandledAtOnce' /\ AnnouncementsAreFresh' /\ UnreadIsFirst'
  BY <1>1 DEF SysIInv, SysTypes, SysTypeOK, OneMessage, HandledAtOnce, AnnouncementsAreFresh,
              UnreadIsFirst, Unread, Connected
<1>4. RequesterIsThere' /\ TakenConnectorIsThere'
  BY <1>1 DEF SysIInv, RequesterIsThere, TakenConnectorIsThere, CanBeTaken, Pending, Waits,
              Connected
<1>5. QED
  BY <1>2, <1>3, <1>4 DEF SysIInv

LEMMA SysNextKeeps == SysIInv /\ [SysNext]_sysVars => SysIInv'
<1> SUFFICES ASSUME SysIInv, [SysNext]_sysVars
             PROVE  SysIInv'
  OBVIOUS
<1>1. ASSUME NEW c \in Clients, Client(c) PROVE SysIInv'
  BY <1>1, CallsEnd, ReadKeeps, ConnectKeeps DEF Client
<1>2. ASSUME NEW c \in Clients, Caller(c) PROVE SysIInv'
  BY <1>2, CallsEnd, CallerKeeps DEF Caller
<1>3. QED
  BY <1>1, <1>2, ServerKeeps, SysTickKeeps, StutteringKeeps DEF SysNext

LEMMA SysSpecHolds == SysSpec => []SysIInv
  BY SysInitHolds, SysNextKeeps, PTL DEF SysSpec

\* Clients, connections and messages always have their types: whatever order the answers
\* come in, a call waits for something exactly as long as it has a connection.
THEOREM SysTypeCorrect == SysSpec => []SysTypeOK
<1>1. SysIInv => SysTypeOK
  BY DEF SysIInv, SysTypes
<1>2. QED
  BY SysSpecHolds, <1>1, PTL

\* What is proved of the server's tasks holds as well when clients open connection after
\* connection, and each is served by the task of an address that was used before.
THEOREM ServerStaysCorrect ==
    SysSpec => [](TypeOK /\ PendingHasConnector /\ TakenRequestIsLive /\ CountdownIsPaired)
<1>1. SysIInv => TypeOK /\ PendingHasConnector /\ TakenRequestIsLive /\ CountdownIsPaired
  BY DEF SysIInv, IInv
<1>2. QED
  BY SysSpecHolds, <1>1, PTL

\* A service's task takes a connection request (announce_check) only while its connector
\* is in connect_client, left it just now, or was given up by its caller.
THEOREM ConnectorIsThere == SysSpec => []TakenConnectorIsThere
<1>1. SysIInv => TakenConnectorIsThere
  BY DEF SysIInv
<1>2. QED
  BY SysSpecHolds, <1>1, PTL

----------------------------------------------------------------------------
(* The simultaneous connect: the inductive invariant *)

Told == {"countdown", "connecting", "last attempt"}
RemoteAddr(c) == [type |-> "RemoteAddr", addr |-> c]

\* What client c was told, or is about to be told, is the client to connect to.
IsTold(h, c) ==
    \/ phase[Owner[h]] = "address" /\ toClient[h] = <<RemoteAddr(c)>>
    \/ phase[Owner[h]] = "start" /\ remote[Owner[h]] = c /\ toClient[h] = <<>>

\* So is the start of the countdown, or it has begun.
IsStarted(h, c) ==
    \/ phase[Owner[h]] = "address" /\ toClient[h] = <<RemoteAddr(c), Start>>
    \/ phase[Owner[h]] = "start" /\ remote[Owner[h]] = c /\ toClient[h] = <<Start>>
    \/ phase[Owner[h]] \in Told /\ remote[Owner[h]] = c /\ toClient[h] = <<>>

\* The two sides of a match, which are both still in their calls.
Pair(x, y) == signalledBy[y] = x /\ Connected(x) /\ Connected(y)

\* A client has at most one partner: a task matches once in its connection's life.
MatchedOnce ==
    /\ \A h \in Handlers : Unread(h) \/ pc[h] = "taken" =>
         /\ signalledBy[h] = None
         /\ \A y \in Handlers : signalledBy[y] # h
    /\ \A y \in Handlers : signalledBy[y] # None =>
         /\ signalledBy[signalledBy[y]] = None
         /\ pc[signalledBy[y]] # "waiting"
    /\ \A y \in Handlers : channel[y] \in {"open", "dropped"} => signalledBy[y] = None

\* A session is announced by its service, and a match is about one session.
SessionsAreServices ==
    /\ \A h \in Handlers : Unread(h) /\ toServer[h].type = "AnnounceAndCheck" =>
         Owner[h] \in Services /\ toServer[h].session = SessionOf[Owner[h]]
    /\ \A s \in DOMAIN clients :
         Owner[clients[s].addr] \in Services /\ SessionOf[Owner[clients[s].addr]] = s
    /\ \A h \in Handlers : pc[h] = "taken" =>
         /\ Owner[h] \in Services
         /\ pc[taken[h]] = "waiting" => wanted[taken[h]] = SessionOf[Owner[h]]

\* What the client of a task knows while the task has something to do.
ClientsKnow ==
    /\ \A h \in Handlers : pc[h] = "taken" /\ Connected(h) =>
         phase[Owner[h]] = "address" /\ toClient[h] = <<>> /\ wait[Owner[h]] = RECV_TIMEOUT
    /\ \A h \in Handlers : pc[h] = "waiting" /\ Connected(h) =>
         \E c \in Services : SessionOf[c] = wanted[h] /\ IsTold(h, c)

\* How long until client c begins to connect.
UntilConnect(c) ==
    IF phase[c] = "countdown" THEN wait[c]
    ELSE IF phase[c] \in Attempting THEN 0 ELSE SCHEDULE_CON

\* The two sides of a match know each other and are in step.
PairsAreInStep ==
    \A x, y \in Handlers : Pair(x, y) =>
        /\ IsStarted(x, Owner[y])
        /\ IF pc[y] = "waiting" THEN IsTold(y, Owner[x]) ELSE IsStarted(y, Owner[x])
        /\ UntilConnect(Owner[x]) = UntilConnect(Owner[y])
        /\ \A c \in {Owner[x], Owner[y]} :
             phase[c] \in Attempting => phase[c] = "connecting" /\ wait[c] = CONNECT_WINDOW

\* The client of connection h is told to start, or its task is about to tell it.
Starts(h) ==
    \/ phase[Owner[h]] \in Told
    \/ \E i \in DOMAIN toClient[h] : toClient[h][i].type = "StartCountdown"
    \/ pc[h] = "waiting" /\ channel[h] = "signalled"

\* Whoever starts has a partner, or was deserted.
StartedHavePartners ==
    \A h \in Handlers : Connected(h) /\ Starts(h) =>
        \/ Owner[h] \in deserted
        \/ \E g \in Handlers : Pair(h, g) \/ Pair(g, h)

MeetInv ==
    /\ MatchedOnce
    /\ SessionsAreServices
    /\ ClientsKnow
    /\ PairsAreInStep
    /\ StartedHavePartners

----------------------------------------------------------------------------
(* Calls that end leave deserted partners *)

LEMMA StartsStays ==
    ASSUME NEW h, pc'[h] = pc[h], channel'[h] = channel[h], toClient'[h] = toClient[h],
           phase'[Owner[h]] = phase[Owner[h]]
    PROVE  Starts(h)' <=> Starts(h)
BY DEF Starts

LEMMA ReturnMeets ==
    ASSUME SysIInv, MeetInv, NEW cs, cs \subseteq Clients, Return(cs),
           UNCHANGED <<vars, toServer, called>>
    PROVE  MeetInv'
<1>1. /\ SysTypes /\ TypeOK
      /\ UNCHANGED <<clients, pc, wanted, timer, taken, channel, signalledBy, goAhead>>
  BY DEF SysIInv, IInv, vars, taskVars, historyVars
<1>2. MatchedOnce' /\ SessionsAreServices'
  BY <1>1 DEF MeetInv, MatchedOnce, SessionsAreServices, Unread
<1>3. ASSUME NEW h \in Handlers, Connected(h)'
      PROVE  /\ Connected(h) /\ Owner[h] \notin cs /\ Owner[h] \in Clients
             /\ toClient'[h] = toClient[h]
             /\ phase'[Owner[h]] = phase[Owner[h]]
             /\ wait'[Owner[h]] = wait[Owner[h]]
             /\ remote'[Owner[h]] = remote[Owner[h]]
  <2>1. Connected(h) /\ Owner[h] \notin cs /\ Owner[h] \in Clients
    BY <1>1, <1>3, ReturnDrops, ConnectedTypes
  <2>2. remote'[Owner[h]] = remote[Owner[h]]
    BY <2>1 DEF Return
  <2>3. QED
    BY <1>1, <2>1, <2>2, ReturnDrops
<1>4. ASSUME NEW h \in Handlers, Connected(h)', NEW c
      PROVE  (IsTold(h, c)' <=> IsTold(h, c)) /\ (IsStarted(h, c)' <=> IsStarted(h, c))
  BY <1>3, <1>4 DEF IsTold, IsStarted
<1>5. ClientsKnow'
  BY <1>1, <1>3, <1>4 DEF MeetInv, ClientsKnow
<1>6. \A x, y \in Handlers : Pair(x, y)' => Pair(x, y)
  BY <1>1, <1>3 DEF Pair
<1>7. PairsAreInStep'
  <2> SUFFICES ASSUME NEW x \in Handlers, NEW y \in Handlers, Pair(x, y)'
               PROVE  /\ IsStarted(x, Owner[y])'
                      /\ IF pc'[y] = "waiting" THEN IsTold(y, Owner[x])'
                         ELSE IsStarted(y, Owner[x])'
                      /\ UntilConnect(Owner[x])' = UntilConnect(Owner[y])'
                      /\ \A c \in {Owner[x], Owner[y]} :
                           phase'[c] \in Attempting =>
                              phase'[c] = "connecting" /\ wait'[c] = CONNECT_WINDOW
    BY DEF PairsAreInStep
  <2>1. Pair(x, y) /\ Connected(x)' /\ Connected(y)'
    BY <1>6 DEF Pair
  <2>2. /\ UntilConnect(Owner[x])' = UntilConnect(Owner[x])
        /\ UntilConnect(Owner[y])' = UntilConnect(Owner[y])
    BY <1>3, <2>1 DEF UntilConnect
  <2>3. QED
    BY <1>1, <1>3, <1>4, <2>1, <2>2 DEF MeetInv, PairsAreInStep
<1>8. StartedHavePartners'
  <2> SUFFICES ASSUME NEW h \in Handlers, Connected(h)', Starts(h)'
               PROVE  \/ Owner[h] \in deserted'
                      \/ \E g \in Handlers : Pair(h, g)' \/ Pair(g, h)'
    BY DEF StartedHavePartners
  <2>1. Starts(h) /\ Connected(h) /\ Owner[h] \notin cs
    BY <1>1, <1>3, StartsStays
  <2>2. deserted' = (deserted \cup UNION {Partners(x) : x \in {link[c] : c \in cs}}) \ cs
    BY DEF Return
  <2>3. CASE Owner[h] \in deserted
    BY <2>1, <2>2, <2>3
  <2>4. ASSUME NEW g \in Handlers, Pair(h, g) \/ Pair(g, h)
        PROVE  \/ Owner[h] \in deserted'
               \/ Pair(h, g)' \/ Pair(g, h)'
    <3>1. CASE Owner[g] \in cs
      <4>1. g \in {link[c] : c \in cs}
        BY <2>4, <3>1 DEF Pair, Connected
      <4>2. Owner[h] \in Partners(g)
        BY <2>1, <2>4 DEF Pair, Partners
      <4>3. QED
        BY <2>1, <2>2, <4>1, <4>2
    <3>2. CASE Owner[g] \notin cs
      BY <1>1, <2>1, <2>4, <3>2, ReturnDrops DEF Pair
    <3>3. QED
      BY <3>1, <3>2
  <2>5. QED
    BY <2>1, <2>3, <2>4 DEF MeetInv, StartedHavePartners
<1>9. QED
  BY <1>2, <1>5, <1>7, <1>8 DEF MeetInv

----------------------------------------------------------------------------
(* Calls that go on stay in step *)

LEMMA GoOnMeets ==
    ASSUME SysIInv, MeetInv, NEW c \in Clients, Affects(c), NEW h \in Handlers,
           h = link[c], Owner[h] = c, Connected(h),
           \A d : IsTold(h, d) => IsTold(h, d)',
           \A d : IsStarted(h, d) => IsStarted(h, d)',
           UntilConnect(c)' = UntilConnect(c),
           Starts(h)' => Starts(h),
           toClient[h] # <<>> \/ phase[c] \in Told,
           phase'[c] \in Attempting =>
              \/ phase'[c] = "connecting" /\ wait'[c] = CONNECT_WINDOW
              \/ phase[c] = "connecting" /\ wait[c] # CONNECT_WINDOW
    PROVE  MeetInv'
<1>1. /\ SysTypes /\ TypeOK
      /\ UNCHANGED <<clients, pc, wanted, timer, taken, channel, signalledBy, goAhead>>
      /\ UNCHANGED <<toServer, link, justLeft, abandoned, deserted, called>>
      /\ \A x : Connected(x)' <=> Connected(x)
  BY DEF SysIInv, IInv, Affects, vars, taskVars, historyVars, Connected
<1>2. MatchedOnce' /\ SessionsAreServices'
  BY <1>1 DEF MeetInv, MatchedOnce, SessionsAreServices, Unread
<1>3. ASSUME NEW x \in Handlers, Connected(x), x # h
      PROVE  /\ Owner[x] # c /\ toClient'[x] = toClient[x]
             /\ phase'[Owner[x]] = phase[Owner[x]]
             /\ wait'[Owner[x]] = wait[Owner[x]]
             /\ remote'[Owner[x]] = remote[Owner[x]]
  BY <1>1, <1>3, ConnectedTypes DEF Affects
<1>4. ASSUME NEW x \in Handlers, Connected(x), NEW d
      PROVE  /\ IsTold(x, d) => IsTold(x, d)'
             /\ IsStarted(x, d) => IsStarted(x, d)'
             /\ UntilConnect(Owner[x])' = UntilConnect(Owner[x])
             /\ Starts(x)' => Starts(x)
  <2>1. CASE x = h
    BY <2>1
  <2>2. CASE x # h
    BY <1>1, <1>3, <1>4, <2>2, StartsStays DEF IsTold, IsStarted, UntilConnect
  <2>3. QED
    BY <2>1, <2>2
<1>5. ClientsKnow'
  <2>1. ASSUME NEW x \in Handlers, pc[x] = "taken", Connected(x)
        PROVE  /\ phase'[Owner[x]] = "address" /\ toClient'[x] = <<>>
               /\ wait'[Owner[x]] = RECV_TIMEOUT
    <3>1. /\ phase[Owner[x]] = "address" /\ toClient[x] = <<>>
          /\ wait[Owner[x]] = RECV_TIMEOUT
      BY <2>1 DEF MeetInv, ClientsKnow
    <3>2. x # h
      BY <3>1 DEF Told
    <3>3. QED
      BY <1>3, <2>1, <3>1, <3>2
  <2>2. QED
    BY <1>1, <1>4, <2>1 DEF MeetInv, ClientsKnow
<1>6. PairsAreInStep'
  <2> SUFFICES ASSUME NEW x \in Handlers, NEW y \in Handlers, Pair(x, y)
               PROVE  /\ IsStarted(x, Owner[y])'
                      /\ IF pc[y] = "waiting" THEN IsTold(y, Owner[x])'
                         ELSE IsStarted(y, Owner[x])'
                      /\ UntilConnect(Owner[x])' = UntilConnect(Owner[y])'
                      /\ \A d \in {Owner[x], Owner[y]} :
                           phase'[d] \in Attempting =>
                              phase'[d] = "connecting" /\ wait'[d] = CONNECT_WINDOW
    BY <1>1 DEF PairsAreInStep, Pair
  <2>1. /\ Connected(x) /\ Connected(y)
        /\ IsStarted(x, Owner[y])
        /\ IF pc[y] = "waiting" THEN IsTold(y, Owner[x]) ELSE IsStarted(y, Owner[x])
        /\ UntilConnect(Owner[x]) = UntilConnect(Owner[y])
        /\ \A d \in {Owner[x], Owner[y]} :
             phase[d] \in Attempting => phase[d] = "connecting" /\ wait[d] = CONNECT_WINDOW
    BY DEF MeetInv, PairsAreInStep, Pair
  <2>2. ASSUME NEW z \in {x, y}, phase'[Owner[z]] \in Attempting
        PROVE  phase'[Owner[z]] = "connecting" /\ wait'[Owner[z]] = CONNECT_WINDOW
    <3>1. CASE z = h
      BY <2>1, <2>2, <3>1 DEF Attempting
    <3>2. CASE z # h
      BY <1>3, <2>1, <2>2, <3>2
    <3>3. QED
      BY <3>1, <3>2
  <2>3. QED
    BY <1>4, <2>1, <2>2
<1>7. StartedHavePartners'
  BY <1>1, <1>4 DEF MeetInv, StartedHavePartners, Pair
<1>8. QED
  BY <1>2, <1>5, <1>6, <1>7 DEF MeetInv

LEMMA FirstMail ==
    ASSUME NEW a, NEW b, NEW q
    PROVE  /\ q = <<a>> => Head(q) = a /\ Tail(q) = <<>>
           /\ q = <<a, b>> => Head(q) = a /\ Tail(q) = <<b>>
<1>1. Head(<<a>>) = a
  OBVIOUS
<1>2. Tail(<<a>>) = <<>>
  OBVIOUS
<1>3. Head(<<a, b>>) = a
  OBVIOUS
<1>4. Tail(<<a, b>>) = <<b>>
  OBVIOUS
<1>5. QED
  BY <1>1, <1>2, <1>3, <1>4

LEMMA ReadMeets ==
    ASSUME SysIInv, MeetInv, NEW c \in Clients, RecvRemoteAddr(c) \/ RecvStartCountdown(c)
    PROVE  MeetInv'
<1>1. PICK h : h = link[c]
  OBVIOUS
<1>2. phase[c] # "idle" /\ toClient[h] # <<>>
  BY <1>1 DEF RecvRemoteAddr, RecvStartCountdown, Reads
<1>3. /\ Affects(c) /\ Owner[h] = c /\ h \in Handlers /\ Connected(h)
      /\ SysTypes
  BY <1>1, <1>2, StepTypes DEF SysIInv
<1>4. /\ toClient[h] \in Seq(Reply)
      /\ toClient'[h] = Tail(toClient[h])
      /\ UNCHANGED <<pc, channel>>
  BY <1>1, <1>3 DEF RecvRemoteAddr, RecvStartCountdown, Read, SysTypes, Affects, vars
<1>5. CASE RecvRemoteAddr(c)
  <2>1. /\ phase[c] = "address" /\ phase'[c] = "start"
        /\ Head(toClient[h]).type = "RemoteAddr"
        /\ remote'[c] = Head(toClient[h]).addr
    BY <1>1, <1>3, <1>5 DEF RecvRemoteAddr, Reads, SysTypes, SysTypeOK
  <2>2. ASSUME NEW d PROVE /\ IsTold(h, d) => IsTold(h, d)'
                           /\ IsStarted(h, d) => IsStarted(h, d)'
    <3>1. /\ phase[Owner[h]] = "address" /\ phase'[Owner[h]] = "start"
          /\ remote'[Owner[h]] = Head(toClient[h]).addr
      BY <1>3, <2>1
    <3>2. RemoteAddr(d).addr = d
      BY DEF RemoteAddr
    <3>3. toClient[h] = <<RemoteAddr(d)>> =>
             toClient'[h] = <<>> /\ remote'[Owner[h]] = d
      BY <1>4, <3>1, <3>2, FirstMail
    <3>4. toClient[h] = <<RemoteAddr(d), Start>> =>
             toClient'[h] = <<Start>> /\ remote'[Owner[h]] = d
      BY <1>4, <3>1, <3>2, FirstMail
    <3>5. QED
      BY <3>1, <3>3, <3>4 DEF IsTold, IsStarted, Told
  <2>3. UntilConnect(c)' = UntilConnect(c)
    BY <2>1 DEF UntilConnect, Attempting
  <2>4. Starts(h)' => Starts(h)
    <3>1. ASSUME NEW i \in DOMAIN toClient'[h]
          PROVE  i + 1 \in DOMAIN toClient[h] /\ toClient'[h][i] = toClient[h][i + 1]
      BY <1>2, <1>4, <3>1
    <3>2. QED
      BY <1>3, <1>4, <2>1, <3>1 DEF Starts, Told
  <2>5. phase'[c] \notin Attempting
    BY <2>1 DEF Attempting
  <2>6. QED
    BY <1>1, <1>2, <1>3, <2>2, <2>3, <2>4, <2>5, GoOnMeets
<1>6. CASE RecvStartCountdown(c)
  <2>1. /\ phase[c] = "start" /\ phase'[c] = "countdown" /\ wait'[c] = SCHEDULE_CON
        /\ Head(toClient[h]).type = "StartCountdown"
        /\ remote'[c] = remote[c]
    BY <1>1, <1>3, <1>6 DEF RecvStartCountdown, Reads, SysTypes, SysTypeOK
  <2>2. ASSUME NEW d PROVE /\ IsTold(h, d) => IsTold(h, d)'
                           /\ IsStarted(h, d) => IsStarted(h, d)'
    <3>1. /\ phase[Owner[h]] = "start" /\ phase'[Owner[h]] = "countdown"
          /\ remote'[Owner[h]] = remote[Owner[h]]
      BY <1>3, <2>1
    <3>2. toClient[h] = <<Start>> => toClient'[h] = <<>>
      BY <1>4, FirstMail
    <3>3. QED
      BY <1>2, <3>1, <3>2 DEF IsTold, IsStarted, Told
  <2>3. UntilConnect(c)' = UntilConnect(c)
    BY <2>1 DEF UntilConnect, Attempting
  <2>4. Starts(h)
    <3>1. 1 \in DOMAIN toClient[h] /\ toClient[h][1].type = "StartCountdown"
      BY <1>2, <1>4, <2>1
    <3>2. QED
      BY <3>1 DEF Starts
  <2>5. phase'[c] \notin Attempting
    BY <2>1 DEF Attempting
  <2>6. QED
    BY <1>1, <1>2, <1>3, <2>2, <2>3, <2>4, <2>5, GoOnMeets
<1>7. QED
  BY <1>5, <1>6

LEMMA ConnectMeets ==
    ASSUME SysIInv, MeetInv, NEW c \in Clients, BeginConnecting(c) \/ EndWindow(c)
    PROVE  MeetInv'
<1>1. PICK h : h = link[c]
  OBVIOUS
<1>2. phase[c] # "idle" /\ phase[c] \in Told /\ wait[c] = 0 /\ UNCHANGED <<remote, toClient>>
  BY DEF BeginConnecting, EndWindow, Told, wireVars
<1>3. /\ Affects(c) /\ Owner[h] = c /\ h \in Handlers /\ Connected(h)
      /\ SysTypes
  BY <1>1, <1>2, StepTypes DEF SysIInv
<1>4. /\ phase'[c] \in Told
      /\ \/ phase[c] = "countdown" /\ phase'[c] = "connecting" /\ wait'[c] = CONNECT_WINDOW
         \/ phase[c] = "connecting" /\ phase'[c] = "last attempt"
  BY <1>3 DEF BeginConnecting, EndWindow, Told, SysTypes, SysTypeOK
<1>5. ASSUME NEW d PROVE /\ IsTold(h, d) => IsTold(h, d)'
                         /\ IsStarted(h, d) => IsStarted(h, d)'
  BY <1>2, <1>3, <1>4 DEF IsTold, IsStarted, Told
<1>6. UntilConnect(c)' = UntilConnect(c)
  BY <1>2, <1>4 DEF UntilConnect, Attempting
<1>7. Starts(h)
  BY <1>2, <1>3 DEF Starts
<1>8. wait[c] # CONNECT_WINDOW
  BY <1>2, WindowsAssumption
<1>9. QED
  BY <1>1, <1>2, <1>3, <1>4, <1>5, <1>6, <1>7, <1>8, GoOnMeets

----------------------------------------------------------------------------
(* Calls that begin have no partner *)

LEMMA OpenMeets ==
    ASSUME SysIInv, MeetInv, NEW c \in Clients, NEW h \in Handlers, NEW msg \in Request, NEW ph,
           ph \in {"listing", "address"},
           msg.type = "AnnounceAndCheck" => c \in Services /\ msg.session = SessionOf[c],
           Open(c, h, msg, ph)
    PROVE  MeetInv'
<1>1. /\ SysTypes /\ TypeOK /\ TakenIsKnown
      /\ pc[h] = "closed" /\ Owner[h] = c /\ phase[c] = "idle"
      /\ \A x \in Handlers : taken[x] # h
      /\ UNCHANGED <<clients, taken, remote, deserted, abandons>>
      /\ phase' = [phase EXCEPT ![c] = ph]
      /\ link' = [link EXCEPT ![c] = h]
      /\ wait' = [wait EXCEPT ![c] = RECV_TIMEOUT]
      /\ toServer' = [toServer EXCEPT ![h] = msg]
      /\ toClient' = [toClient EXCEPT ![h] = <<>>]
      /\ pc' = [pc EXCEPT ![h] = "update"]
      /\ channel' = [channel EXCEPT ![h] = "none"]
      /\ wanted' = [wanted EXCEPT ![h] = None]
      /\ signalledBy' = [x \in Handlers |->
                           IF x = h \/ signalledBy[x] = h THEN None ELSE signalledBy[x]]
      /\ h # None
  BY ConnectedTypes DEF SysIInv, IInv, Open, Unused, Goto
<1>2. ASSUME NEW x \in Handlers, x # h
      PROVE  /\ Connected(x)' <=> Connected(x)
             /\ Unread(x)' <=> Unread(x)
             /\ pc'[x] = pc[x] /\ toServer'[x] = toServer[x] /\ toClient'[x] = toClient[x]
             /\ channel'[x] = channel[x] /\ wanted'[x] = wanted[x]
             /\ signalledBy'[x] \in {signalledBy[x], None}
             /\ Connected(x) => /\ Owner[x] # c
                               /\ phase'[Owner[x]] = phase[Owner[x]]
                               /\ wait'[Owner[x]] = wait[Owner[x]]
                               /\ remote'[Owner[x]] = remote[Owner[x]]
  <2>1. x # None /\ Owner[x] \in Clients
    BY <1>1, ConnectedTypes
  <2>2. link[c] = None
    BY <1>1 DEF SysTypes, SysTypeOK
  <2>3. QED
    BY <1>1, <1>2, <2>1, <2>2 DEF Connected, Unread, SysTypes, SysTypeOK, TypeOK
<1>3. /\ pc'[h] = "update" /\ signalledBy'[h] = None /\ channel'[h] = "none"
      /\ \A x \in Handlers : signalledBy'[x] # h
      /\ toServer'[h] = msg /\ toClient'[h] = <<>> /\ phase'[c] = ph
  BY <1>1 DEF SysTypes, SysTypeOK, TypeOK
<1>4. MatchedOnce'
  <2>1. ASSUME NEW x \in Handlers, Unread(x)' \/ pc'[x] = "taken"
        PROVE  signalledBy'[x] = None /\ \A y \in Handlers : signalledBy'[y] # x
    <3>1. CASE x = h
      BY <1>3, <3>1
    <3>2. CASE x # h
      <4>1. signalledBy[x] = None /\ \A y \in Handlers : signalledBy[y] # x
        BY <1>2, <2>1, <3>2 DEF MeetInv, MatchedOnce
      <4>2. x # None
        BY ConnectedTypes, <1>1
      <4>3. QED
        BY <1>1, <1>2, <3>2, <4>1, <4>2
    <3>3. QED
      BY <3>1, <3>2
  <2>2. ASSUME NEW y \in Handlers, signalledBy'[y] # None
        PROVE  signalledBy'[signalledBy'[y]] = None /\ pc'[signalledBy'[y]] # "waiting"
    <3>1. y # h /\ signalledBy'[y] = signalledBy[y] /\ signalledBy[y] # h
      BY <1>1, <2>2
    <3>2. signalledBy[y] \in Handlers
      BY <1>1, <2>2, <3>1 DEF TypeOK
    <3>3. signalledBy[signalledBy[y]] = None /\ pc[signalledBy[y]] # "waiting"
      BY <2>2, <3>1 DEF MeetInv, MatchedOnce
    <3>4. QED
      BY <1>2, <3>1, <3>2, <3>3
  <2>3. ASSUME NEW y \in Handlers, channel'[y] \in {"open", "dropped"}
        PROVE  signalledBy'[y] = None
    BY <1>2, <1>3, <2>3 DEF MeetInv, MatchedOnce
  <2>4. QED
    BY <2>1, <2>2, <2>3 DEF MatchedOnce
<1>5. SessionsAreServices'
  <2>1. ASSUME NEW x \in Handlers, Unread(x)', toServer'[x].type = "AnnounceAndCheck"
        PROVE  Owner[x] \in Services /\ toServer'[x].session = SessionOf[Owner[x]]
    BY <1>1, <1>2, <1>3, <2>1 DEF MeetInv, SessionsAreServices
  <2>2. ASSUME NEW x \in Handlers, pc'[x] = "taken"
        PROVE  /\ Owner[x] \in Services
               /\ pc'[taken'[x]] = "waiting" => wanted'[taken'[x]] = SessionOf[Owner[x]]
    <3>1. x # h /\ pc[x] = "taken" /\ taken'[x] = taken[x] /\ taken[x] # h
      BY <1>1, <1>2, <1>3, <2>2
    <3>2. taken[x] \in Handlers
      BY <1>1, <3>1 DEF TakenIsKnown
    <3>3. QED
      BY <1>2, <3>1, <3>2 DEF MeetInv, SessionsAreServices
  <2>3. QED
    BY <1>1, <2>1, <2>2 DEF MeetInv, SessionsAreServices
<1>6. ASSUME NEW x \in Handlers, x # h, Connected(x), NEW d
      PROVE  (IsTold(x, d)' <=> IsTold(x, d)) /\ (IsStarted(x, d)' <=> IsStarted(x, d))
  BY <1>2, <1>6 DEF IsTold, IsStarted
<1>7. ClientsKnow'
  <2>1. ASSUME NEW x \in Handlers, pc'[x] \in {"taken", "waiting"}, Connected(x)'
        PROVE  /\ x # h /\ pc[x] = pc'[x] /\ Connected(x) /\ wanted'[x] = wanted[x]
               /\ phase'[Owner[x]] = phase[Owner[x]] /\ toClient'[x] = toClient[x]
               /\ wait'[Owner[x]] = wait[Owner[x]]
    BY <1>2, <1>3, <2>1
  <2>2. QED
    BY <1>6, <2>1 DEF MeetInv, ClientsKnow
<1>8. ASSUME NEW x \in Handlers, NEW y \in Handlers
      PROVE  Pair(x, y)' <=> (x # h /\ y # h /\ Pair(x, y))
  <2>1. x # None
    BY <1>1, ConnectedTypes
  <2>2. ~Connected(h)
    BY <1>1 DEF Connected, SysTypes, SysTypeOK
  <2>3. CASE x = h \/ y = h
    BY <1>3, <2>1, <2>3 DEF Pair
  <2>4. CASE x # h /\ y # h
    BY <1>1, <1>2, <2>1, <2>4 DEF Pair
  <2>5. QED
    BY <2>3, <2>4
<1>9. PairsAreInStep'
  <2> SUFFICES ASSUME NEW x \in Handlers, NEW y \in Handlers, Pair(x, y)'
               PROVE  /\ IsStarted(x, Owner[y])'
                      /\ IF pc'[y] = "waiting" THEN IsTold(y, Owner[x])'
                         ELSE IsStarted(y, Owner[x])'
                      /\ UntilConnect(Owner[x])' = UntilConnect(Owner[y])'
                      /\ \A d \in {Owner[x], Owner[y]} :
                           phase'[d] \in Attempting =>
                              phase'[d] = "connecting" /\ wait'[d] = CONNECT_WINDOW
    BY DEF PairsAreInStep
  <2>1. x # h /\ y # h /\ Pair(x, y) /\ Connected(x) /\ Connected(y)
    BY <1>8 DEF Pair
  <2>2. /\ UntilConnect(Owner[x])' = UntilConnect(Owner[x])
        /\ UntilConnect(Owner[y])' = UntilConnect(Owner[y])
    BY <1>2, <2>1 DEF UntilConnect
  <2>3. QED
    BY <1>2, <1>6, <2>1, <2>2 DEF MeetInv, PairsAreInStep
<1>10. StartedHavePartners'
  <2> SUFFICES ASSUME NEW x \in Handlers, Connected(x)', Starts(x)'
               PROVE  \/ Owner[x] \in deserted'
                      \/ \E g \in Handlers : Pair(x, g)' \/ Pair(g, x)'
    BY DEF StartedHavePartners
  <2>1. x # h
    <3>1. \A i \in DOMAIN <<>> : FALSE
      OBVIOUS
    <3>2. ~Starts(h)'
      BY <1>1, <1>3, <3>1 DEF Starts, Told
    <3>3. QED
      BY <3>2
  <2>2. Connected(x) /\ Starts(x)
    BY <1>2, <2>1, StartsStays
  <2>3. CASE Owner[x] \in deserted
    BY <1>1, <2>3
  <2>4. ASSUME NEW g \in Handlers, Pair(x, g) \/ Pair(g, x)
        PROVE  Pair(x, g)' \/ Pair(g, x)'
    <3>1. g # h
      BY <1>1, <2>4 DEF Pair, Connected, SysTypes, SysTypeOK
    <3>2. QED
      BY <1>8, <2>1, <2>4, <3>1
  <2>5. QED
    BY <2>2, <2>3, <2>4 DEF MeetInv, StartedHavePartners
<1>11. QED
  BY <1>4, <1>5, <1>7, <1>9, <1>10 DEF MeetInv

----------------------------------------------------------------------------
(* The server's tasks match clients that are in step *)

Matches(h) == Confirm(h) \/ ConfirmPanics(h)

\* What a task does that matches nobody.
LEMMA OtherSteps ==
    ASSUME SysIInv, MeetInv, NEW h \in Handlers, Server(h), ~Matches(h)
    PROVE  /\ signalledBy' = signalledBy /\ deserted' = deserted
           /\ \A x \in Handlers : channel'[x] = "signalled" => channel[x] = "signalled"
           /\ \A x \in Handlers : channel'[x] \in {"open", "dropped"} =>
                                    channel[x] \in {"open", "dropped"} \/ (x = h /\ Unread(h))
           /\ \A x \in Handlers : x # h => wanted'[x] = wanted[x]
           /\ \/ /\ UNCHANGED toClient /\ pc'[h] \notin {"waiting", "taken"}
                 /\ pc[h] = "waiting" => channel[h] \in {"open", "dropped"} \/ ~Connected(h)
              \/ /\ Unread(h) /\ pc'[h] \notin {"waiting", "taken"}
                 /\ Sends(h, <<[type |-> "Clients", sessions |-> DOMAIN clients]>>)
              \/ /\ Takes(h, "AnnounceAndCheck") /\ AnnounceAndCheck(h, toServer[h].session)
                 /\ UNCHANGED toClient
              \/ /\ Takes(h, "ConnectionRequest") /\ ConnectionRequest(h, toServer[h].session)
                 /\ Sends(h, <<AddrOf(clients[toServer[h].session].addr)>>)
              \/ Confirmed(h) /\ Sends(h, <<Start>>)
<1>1. /\ TypeOK
      /\ Unread(h) => signalledBy[h] = None
      /\ toServer[h] # None /\ pc[h] = "recv" => Unread(h)
  BY DEF SysIInv, IInv, MeetInv, MatchedOnce, Unread
<1> DEFINE Frame == /\ signalledBy' = signalledBy
                    /\ \A x \in Handlers : channel'[x] = "signalled" => channel[x] = "signalled"
                    /\ \A x \in Handlers : channel'[x] \in {"open", "dropped"} =>
                         channel[x] \in {"open", "dropped"} \/ (x = h /\ Unread(h))
                    /\ \A x \in Handlers : x # h => wanted'[x] = wanted[x]
<1>2. ASSUME GoRound(h) PROVE Frame /\ pc[h] = "recv" /\ pc'[h] = "update"
  BY <1>1, <1>2 DEF GoRound, Goto, taskVars, historyVars, TypeOK
<1>3. ASSUME AnnounceAndCheck(h, toServer[h].session) PROVE Frame
  BY <1>3 DEF AnnounceAndCheck, historyVars
<1>4. ASSUME toServer[h] # None,
             \/ ConnectionRequest(h, toServer[h].session)
             \/ ConnectionRequestPanics(h, toServer[h].session)
      PROVE  Frame
  <2>1. pc[h] = "recv" /\ signalledBy' = [signalledBy EXCEPT ![h] = None]
    BY <1>4 DEF ConnectionRequest, ConnectionRequestPanics, Insert
  <2>2. Unread(h) /\ signalledBy' = signalledBy
    BY <1>1, <1>4, <2>1 DEF TypeOK
  <2>3. \A x \in Handlers : x # h =>
           channel'[x] = channel[x] \/ (channel[x] = "open" /\ channel'[x] = "dropped")
    BY <1>4 DEF ConnectionRequest, ConnectionRequestPanics
  <2>4. channel'[h] \in {"open", "closed"}
    BY <1>4 DEF ConnectionRequest, ConnectionRequestPanics
  <2>5. \A x \in Handlers : x # h => wanted'[x] = wanted[x]
    BY <1>1, <1>4 DEF ConnectionRequest, ConnectionRequestPanics, taskVars, TypeOK
  <2>6. QED
    BY <2>2, <2>3, <2>4, <2>5
<1>5. ASSUME ConnectionRequestPanics(h, toServer[h].session)
      PROVE  pc[h] = "recv" /\ pc'[h] = "closed"
  BY <1>1, <1>5 DEF ConnectionRequestPanics, Insert, Goto, TypeOK
<1>6. ASSUME \/ SessionNotFound(h, toServer[h].session) \/ Disconnect(h)
             \/ ConfirmedPanics(h) /\ ~Connected(h)
             \/ SenderDropped(h) \/ ConfirmTooLate(h)
      PROVE  /\ Frame /\ pc'[h] \notin {"waiting", "taken"}
             /\ pc[h] = "waiting" => channel[h] \in {"open", "dropped"} \/ ~Connected(h)
  <2>1. UNCHANGED <<signalledBy, channel, wanted>>
    BY <1>6 DEF SessionNotFound, Disconnect, ConfirmedPanics, SenderDropped, ConfirmTooLate,
                taskVars, historyVars
  <2>2. pc'[h] \notin {"waiting", "taken"}
    BY <1>1, <1>6 DEF SessionNotFound, Disconnect, ConfirmedPanics, SenderDropped,
                      ConfirmTooLate, Goto, TypeOK
  <2>3. pc[h] = "waiting" => channel[h] \in {"open", "dropped"} \/ ~Connected(h)
    BY <1>6 DEF SessionNotFound, Disconnect, ConfirmedPanics, SenderDropped, ConfirmTooLate
  <2>4. QED
    BY <2>1, <2>2, <2>3
<1>7. ASSUME PollUpdate(h) \/ TimeOut(h) \/ RemoveRequest(h)
      PROVE  /\ Frame /\ pc'[h] \notin {"waiting", "taken"}
             /\ pc[h] = "waiting" => channel[h] \in {"open", "dropped"} \/ ~Connected(h)
  <2>1. \A x \in Handlers : channel'[x] = channel[x] \/ channel[x] = "open"
    BY <1>1, <1>7 DEF PollUpdate, TimeOut, RemoveRequest, DropSenders, TypeOK
  <2>2. \A x \in Handlers : channel'[x] \in {channel[x], "dropped", "closed"}
    BY <1>1, <1>7 DEF PollUpdate, TimeOut, RemoveRequest, DropSenders, TypeOK
  <2>3. signalledBy' = signalledBy /\ \A x \in Handlers : x # h => wanted'[x] = wanted[x]
    BY <1>1, <1>7 DEF PollUpdate, TimeOut, RemoveRequest, taskVars, historyVars, TypeOK
  <2>4. pc'[h] \notin {"waiting", "taken"}
    BY <1>1, <1>7 DEF PollUpdate, TimeOut, RemoveRequest, Goto, TypeOK
  <2>5. pc[h] = "waiting" => channel[h] \in {"open", "dropped"}
    BY <1>7 DEF PollUpdate, TimeOut, RemoveRequest
  <2>6. QED
    BY <2>1, <2>2, <2>3, <2>4, <2>5
<1>8. ASSUME Confirmed(h) PROVE Frame
  BY <1>8 DEF Confirmed, taskVars
<1>9. QED
  BY <1>1, <1>2, <1>3, <1>4, <1>5, <1>6, <1>7, <1>8 DEF Server, Serve, Matches, Takes

\* An announcement is stored under the session of its service.
LEMMA ServerStores ==
    ASSUME SysIInv, MeetInv, NEW h \in Handlers, Server(h), NEW s \in DOMAIN clients'
    PROVE  \/ s \in DOMAIN clients /\ clients'[s].addr = clients[s].addr
           \/ /\ Unread(h) /\ toServer[h].type = "AnnounceAndCheck" /\ s = toServer[h].session
              /\ clients'[s].addr = h
<1>1. TypeOK
  BY DEF SysIInv, IInv
<1>2. CASE \/ GoRound(h) \/ Disconnect(h) \/ Confirmed(h) \/ ConfirmedPanics(h)
           \/ SenderDropped(h) \/ TimeOut(h) \/ PollUpdate(h)
           \/ Confirm(h) \/ ConfirmPanics(h) \/ ConfirmTooLate(h)
           \/ SessionNotFound(h, toServer[h].session)
  BY <1>1, <1>2 DEF GoRound, Disconnect, Confirmed, ConfirmedPanics, SenderDropped, TimeOut,
                    PollUpdate, Confirm, ConfirmPanics, ConfirmTooLate, SessionNotFound, Signal
<1>3. CASE Takes(h, "AnnounceAndCheck") /\ AnnounceAndCheck(h, toServer[h].session)
  BY <1>1, <1>3 DEF Takes, AnnounceAndCheck, Unread
<1>4. CASE \/ ConnectionRequest(h, toServer[h].session)
           \/ ConnectionRequestPanics(h, toServer[h].session)
  <2>1. Insert(h, toServer[h].session)
    BY <1>4 DEF ConnectionRequest, ConnectionRequestPanics
  <2>2. QED
    BY <1>1, <2>1 DEF Insert, TypeOK, KnownClient
<1>5. CASE RemoveRequest(h)
  BY <1>1, <1>5 DEF RemoveRequest, WithoutRequest, TypeOK, KnownClient
<1>6. QED
  BY <1>2, <1>3, <1>4, <1>5 DEF Server, Serve

LEMMA SecondMail ==
    ASSUME NEW a, NEW b
    PROVE  <<a>> \o <<b>> = <<a, b>> /\ <<>> \o <<b>> = <<b>>
<1>1. <<a>> \in Seq({a, b}) /\ <<b>> \in Seq({a, b}) /\ <<a, b>> \in Seq({a, b})
  OBVIOUS
<1>2. PICK p \in Seq({a, b}) : p = <<a>>
  BY <1>1
<1>3. PICK q \in Seq({a, b}) : q = <<b>>
  BY <1>1
<1>4. PICK r \in Seq({a, b}) : r = <<a, b>>
  BY <1>1
<1>5. Len(p) = 1 /\ p[1] = a /\ Len(q) = 1 /\ q[1] = b /\ Len(r) = 2 /\ r[1] = a /\ r[2] = b
  BY <1>2, <1>3, <1>4
<1>6. p \o q = r
  <2>1. p \o q \in Seq({a, b}) /\ Len(p \o q) = 2
    BY <1>5, ConcatProperties
  <2>2. (p \o q)[1] = a /\ (p \o q)[2] = b
    BY <1>5, ConcatProperties
  <2>3. QED
    BY <1>5, <2>1, <2>2, SeqEqual
<1>7. <<>> \o q = q
  BY ConcatEmptySeq
<1>8. QED
  BY <1>2, <1>3, <1>4, <1>6, <1>7

LEMMA OthersMeet ==
    ASSUME SysIInv, MeetInv, NEW h \in Handlers, Server(h), ~Matches(h)
    PROVE  MeetInv'
<1>1. /\ SysTypes /\ TypeOK /\ TakenIsKnown
      /\ UNCHANGED <<phase, link, wait, remote>>
      /\ \A x : Connected(x)' <=> Connected(x)
      /\ signalledBy' = signalledBy /\ deserted' = deserted
  BY OtherSteps DEF SysIInv, IInv, Server, clientVars, Connected
<1>2. /\ \A x \in Handlers : x # h => /\ pc'[x] = pc[x] /\ toServer'[x] = toServer[x]
                                     /\ toClient'[x] = toClient[x] /\ taken'[x] = taken[x]
      /\ \A x \in Handlers : Unread(x)' => /\ Unread(x) /\ toServer'[x] = toServer[x]
                                          /\ toClient'[x] = toClient[x]
  BY ServerSteps DEF Unread
<1>3. Unread(h) \/ pc[h] = "taken" =>
         signalledBy[h] = None /\ \A y \in Handlers : signalledBy[y] # h
  BY DEF MeetInv, MatchedOnce
<1>4. /\ pc'[h] \in {"waiting", "taken"} => Unread(h)
      /\ pc'[h] = "taken" => /\ toServer[h].type = "AnnounceAndCheck" /\ UNCHANGED toClient
                             /\ AnnounceAndCheck(h, toServer[h].session)
      /\ pc'[h] = "waiting" => /\ ConnectionRequest(h, toServer[h].session)
                               /\ toServer[h].type = "ConnectionRequest"
                               /\ Sends(h, <<AddrOf(clients[toServer[h].session].addr)>>)
  <2>1. ASSUME Takes(h, "AnnounceAndCheck"), AnnounceAndCheck(h, toServer[h].session)
        PROVE  Unread(h) /\ pc'[h] # "waiting"
    BY <1>1, <2>1 DEF Takes, AnnounceAndCheck, Unread, Goto, TypeOK
  <2>2. ASSUME Takes(h, "ConnectionRequest"), ConnectionRequest(h, toServer[h].session)
        PROVE  Unread(h) /\ pc'[h] # "taken"
    BY <1>1, <2>2 DEF Takes, ConnectionRequest, Insert, Unread, Goto, TypeOK
  <2>3. ASSUME Confirmed(h) PROVE pc'[h] = "removing"
    BY <1>1, <2>3 DEF Confirmed, Goto, TypeOK
  <2>4. QED
    BY <2>1, <2>2, <2>3, OtherSteps DEF Takes
<1>5. MatchedOnce'
  <2>1. ASSUME NEW x \in Handlers, Unread(x)' \/ pc'[x] = "taken"
        PROVE  signalledBy'[x] = None /\ \A y \in Handlers : signalledBy'[y] # x
    <3>1. Unread(x) \/ pc[x] = "taken"
      BY <1>2, <1>4, <2>1
    <3>2. QED
      BY <1>1, <3>1 DEF MeetInv, MatchedOnce
  <2>2. ASSUME NEW y \in Handlers, signalledBy'[y] # None
        PROVE  signalledBy'[signalledBy'[y]] = None /\ pc'[signalledBy'[y]] # "waiting"
    <3>1. signalledBy[signalledBy[y]] = None /\ pc[signalledBy[y]] # "waiting"
      BY <1>1, <2>2 DEF MeetInv, MatchedOnce
    <3>2. signalledBy[y] \in Handlers
      BY <1>1, <2>2 DEF TypeOK
    <3>3. QED
      BY <1>1, <1>2, <1>3, <1>4, <3>1, <3>2
  <2>3. ASSUME NEW y \in Handlers, channel'[y] \in {"open", "dropped"}
        PROVE  signalledBy'[y] = None
    BY <1>1, <1>3, <2>3, OtherSteps DEF MeetInv, MatchedOnce
  <2>4. QED
    BY <2>1, <2>2, <2>3 DEF MatchedOnce
<1>6. SessionsAreServices'
  <2>1. ASSUME NEW x \in Handlers, Unread(x)', toServer'[x].type = "AnnounceAndCheck"
        PROVE  Owner[x] \in Services /\ toServer'[x].session = SessionOf[Owner[x]]
    BY <1>2, <2>1 DEF MeetInv, SessionsAreServices
  <2>2. ASSUME NEW s \in DOMAIN clients'
        PROVE  Owner[clients'[s].addr] \in Services /\ SessionOf[Owner[clients'[s].addr]] = s
    <3>1. CASE s \in DOMAIN clients /\ clients'[s].addr = clients[s].addr
      BY <3>1 DEF MeetInv, SessionsAreServices
    <3>2. CASE /\ Unread(h) /\ toServer[h].type = "AnnounceAndCheck" /\ s = toServer[h].session
               /\ clients'[s].addr = h
      BY <3>2 DEF MeetInv, SessionsAreServices
    <3>3. QED
      BY <3>1, <3>2, ServerStores
  <2>3. ASSUME NEW x \in Handlers, pc'[x] = "taken"
        PROVE  /\ Owner[x] \in Services
               /\ pc'[taken'[x]] = "waiting" => wanted'[taken'[x]] = SessionOf[Owner[x]]
    <3>1. CASE x # h
      <4>1. /\ pc[x] = "taken" /\ taken'[x] = taken[x] /\ taken[x] \in Handlers
            /\ pc[taken[x]] \in {"waiting", "closed"}
        BY <1>1, <1>2, <2>3, <3>1 DEF TakenIsKnown, SysIInv, IInv, TakenRequestIsLive
      <4>2. taken[x] = h => pc'[h] # "waiting"
        BY <1>4, <4>1 DEF Unread
      <4>3. PICK t \in Handlers : t = taken[x]
        BY <4>1
      <4>4. pc'[t] = "waiting" => t # h /\ pc[t] = "waiting" /\ wanted'[t] = wanted[t]
        BY <1>2, <4>2, <4>3, OtherSteps
      <4>5. /\ Owner[x] \in Services
            /\ pc[t] = "waiting" => wanted[t] = SessionOf[Owner[x]]
        BY <4>1, <4>3 DEF MeetInv, SessionsAreServices
      <4>6. QED
        BY <4>1, <4>3, <4>4, <4>5
    <3>2. CASE x = h
      <4>1. /\ Owner[h] \in Services /\ toServer[h].session = SessionOf[Owner[h]]
            /\ AnnounceAndCheck(h, toServer[h].session)
        BY <1>4, <2>3, <3>2 DEF MeetInv, SessionsAreServices
      <4>2. PICK s : s = toServer[h].session
        OBVIOUS
      <4>3. /\ HasPending(s) /\ taken'[h] = Pending(s).tx
            /\ wanted' = wanted
        BY <1>1, <2>3, <3>2, <4>1, <4>2 DEF AnnounceAndCheck, InTime, Goto, TypeOK
      <4>4. s \in DOMAIN clients /\ Pending(s) # None /\ Pending(s).tx \in Handlers
        BY <1>1, <4>3 DEF HasPending, Pending, TypeOK, KnownClient, IncomingConnection
      <4>5. pc'[Pending(s).tx] = "waiting" => pc[Pending(s).tx] = "waiting"
        BY <1>2, <2>3, <3>2, <4>4
      <4>6. pc[Pending(s).tx] = "waiting" => wanted[Pending(s).tx] = s
        BY <4>4 DEF SysIInv, IInv, PendingHasConnector
      <4>7. QED
        BY <3>2, <4>1, <4>2, <4>3, <4>5, <4>6
    <3>3. QED
      BY <3>1, <3>2
  <2>4. QED
    BY <2>1, <2>2, <2>3 DEF SessionsAreServices
<1>7. ASSUME NEW x \in Handlers, toClient'[x] = toClient[x], NEW d
      PROVE  (IsTold(x, d)' <=> IsTold(x, d)) /\ (IsStarted(x, d)' <=> IsStarted(x, d))
  BY <1>1, <1>7 DEF IsTold, IsStarted
<1>8. ASSUME NEW ms, toClient[h] = <<>>, Sends(h, <<ms>>)
      PROVE  toClient'[h] = <<ms>>
  <2>1. toClient'[h] = toClient[h] \o <<ms>>
    BY <1>1, <1>8 DEF Sends, SysTypes
  <2>2. QED
    BY <1>8, <2>1
<1>9. ClientsKnow'
  <2>1. ASSUME NEW x \in Handlers, pc'[x] = "taken", Connected(x)
        PROVE  phase[Owner[x]] = "address" /\ toClient'[x] = <<>> /\ wait[Owner[x]] = RECV_TIMEOUT
    <3>1. CASE x # h
      BY <1>2, <2>1, <3>1 DEF MeetInv, ClientsKnow
    <3>2. CASE x = h
      BY <1>4, <2>1, <3>2 DEF SysIInv, UnreadIsFirst
    <3>3. QED
      BY <3>1, <3>2
  <2>2. ASSUME NEW x \in Handlers, pc'[x] = "waiting", Connected(x)
        PROVE  \E c \in Services : SessionOf[c] = wanted'[x] /\ IsTold(x, c)'
    <3>1. CASE x # h
      BY <1>2, <1>7, <2>2, <3>1, OtherSteps DEF MeetInv, ClientsKnow
    <3>2. CASE x = h
      <4>1. PICK s : s = toServer[h].session
        OBVIOUS
      <4>2. /\ Unread(h) /\ ConnectionRequest(h, s) /\ Sends(h, <<AddrOf(clients[s].addr)>>)
            /\ toServer[h].type = "ConnectionRequest"
        BY <1>4, <2>2, <3>2, <4>1
      <4>3. s \in DOMAIN clients /\ wanted'[h] = s
        BY <1>1, <4>2 DEF ConnectionRequest, Insert, TypeOK
      <4>4. PICK c : c = Owner[clients[s].addr]
        OBVIOUS
      <4>5. c \in Services /\ SessionOf[c] = s
        BY <4>3, <4>4 DEF MeetInv, SessionsAreServices
      <4>6. phase[Owner[h]] = "address" /\ toClient[h] = <<>>
        BY <2>2, <3>2, <4>2 DEF SysIInv, UnreadIsFirst
      <4>7. AddrOf(clients[s].addr) = RemoteAddr(c)
        BY <4>4 DEF AddrOf, RemoteAddr
      <4>8. toClient'[h] = <<RemoteAddr(c)>>
        BY <1>8, <4>2, <4>6, <4>7
      <4>9. IsTold(h, c)'
        BY <1>1, <4>6, <4>8 DEF IsTold
      <4>10. QED
        BY <3>2, <4>3, <4>5, <4>9
    <3>3. QED
      BY <3>1, <3>2
  <2>3. QED
    BY <1>1, <2>1, <2>2 DEF ClientsKnow
<1>10. \A x, y \in Handlers : Pair(x, y)' <=> Pair(x, y)
  BY <1>1 DEF Pair
<1>11. ASSUME NEW x \in Handlers, NEW y \in Handlers, Pair(x, y)
       PROVE  /\ x # y /\ pc[x] # "waiting" /\ toClient'[x] = toClient[x]
              /\ \/ toClient'[y] = toClient[y] /\ (pc'[y] = "waiting" <=> pc[y] = "waiting")
                 \/ y = h /\ Confirmed(h) /\ Sends(h, <<Start>>)
  <2>1. /\ Connected(x) /\ Connected(y) /\ signalledBy[y] = x /\ x # None
        /\ signalledBy[x] = None /\ pc[x] # "waiting"
    BY <1>11, ConnectedTypes, <1>1 DEF Pair, MeetInv, MatchedOnce
  <2>2. ~Unread(h) \/ (x # h /\ y # h)
    BY <1>3, <2>1
  <2>3. CASE h \notin {x, y}
    BY <1>2, <2>1, <2>3
  <2>4. CASE h = x
    <3>1. toClient' = toClient
      BY <2>1, <2>2, <2>4, OtherSteps DEF Takes, AnnounceAndCheck, ConnectionRequest, Insert,
                                          Confirmed, Unread
    <3>2. x # y
      BY <2>1
    <3>3. QED
      BY <1>2, <2>1, <2>4, <3>1, <3>2
  <2>5. CASE h = y
    <3>1. channel[h] \notin {"open", "dropped"}
      BY <2>1, <2>5 DEF MeetInv, MatchedOnce
    <3>2. \/ toClient' = toClient /\ pc'[h] # "waiting" /\ pc[h] # "waiting"
          \/ Confirmed(h) /\ Sends(h, <<Start>>)
      BY <2>1, <2>2, <2>5, <3>1, OtherSteps DEF Takes, AnnounceAndCheck, ConnectionRequest,
                                                Insert, Unread
    <3>3. QED
      BY <1>2, <2>1, <2>5, <3>2
  <2>6. QED
    BY <2>3, <2>4, <2>5
<1>12. ASSUME Confirmed(h), Sends(h, <<Start>>), NEW d, IsTold(h, d)
       PROVE  IsStarted(h, d)'
  <2>1. toClient'[h] = toClient[h] \o <<Start>>
    BY <1>1, <1>12 DEF Sends, SysTypes
  <2>2. /\ <<RemoteAddr(d)>> \o <<Start>> = <<RemoteAddr(d), Start>>
        /\ <<>> \o <<Start>> = <<Start>>
    BY SecondMail, Zenon
  <2>3. QED
    BY <1>1, <1>12, <2>1, <2>2 DEF IsTold, IsStarted
<1>13. PairsAreInStep'
  <2> SUFFICES ASSUME NEW x \in Handlers, NEW y \in Handlers, Pair(x, y)
               PROVE  /\ IsStarted(x, Owner[y])'
                      /\ IF pc'[y] = "waiting" THEN IsTold(y, Owner[x])'
                         ELSE IsStarted(y, Owner[x])'
                      /\ UntilConnect(Owner[x])' = UntilConnect(Owner[y])'
                      /\ \A d \in {Owner[x], Owner[y]} :
                           phase'[d] \in Attempting =>
                              phase'[d] = "connecting" /\ wait'[d] = CONNECT_WINDOW
    BY <1>10 DEF PairsAreInStep
  <2>1. /\ IsStarted(x, Owner[y])
        /\ IF pc[y] = "waiting" THEN IsTold(y, Owner[x]) ELSE IsStarted(y, Owner[x])
        /\ UntilConnect(Owner[x]) = UntilConnect(Owner[y])
        /\ \A d \in {Owner[x], Owner[y]} :
             phase[d] \in Attempting => phase[d] = "connecting" /\ wait[d] = CONNECT_WINDOW
    BY DEF MeetInv, PairsAreInStep
  <2>2. IsStarted(x, Owner[y])'
    BY <1>7, <1>11, <2>1
  <2>3. IF pc'[y] = "waiting" THEN IsTold(y, Owner[x])' ELSE IsStarted(y, Owner[x])'
    <3>1. CASE toClient'[y] = toClient[y] /\ (pc'[y] = "waiting" <=> pc[y] = "waiting")
      BY <1>7, <2>1, <3>1
    <3>2. CASE y = h /\ Confirmed(h) /\ Sends(h, <<Start>>)
      <4>1. pc[h] = "waiting" /\ pc'[h] = "removing"
        BY <1>1, <3>2 DEF Confirmed, Goto, TypeOK
      <4>2. QED
        BY <1>12, <2>1, <3>2, <4>1
    <3>3. QED
      BY <1>11, <3>1, <3>2
  <2>4. /\ UntilConnect(Owner[x])' = UntilConnect(Owner[x])
        /\ UntilConnect(Owner[y])' = UntilConnect(Owner[y])
    BY <1>1 DEF UntilConnect
  <2>5. QED
    BY <1>1, <2>1, <2>2, <2>3, <2>4
<1>14. StartedHavePartners'
  <2> SUFFICES ASSUME NEW x \in Handlers, Connected(x), Starts(x)'
               PROVE  Starts(x)
    BY <1>1, <1>10 DEF MeetInv, StartedHavePartners
  <2>1. CASE pc'[x] = "waiting" /\ channel'[x] = "signalled"
    <3>1. channel[x] = "signalled"
      BY <2>1, OtherSteps
    <3>2. x # h
      BY <1>1, <1>4, <2>1 DEF ConnectionRequest, TypeOK
    <3>3. QED
      BY <1>2, <2>1, <3>1, <3>2 DEF Starts
  <2>2. CASE phase[Owner[x]] \in Told \/ toClient'[x] = toClient[x]
    BY <1>1, <2>1, <2>2 DEF Starts
  <2>3. CASE x = h /\ Confirmed(h)
    BY <2>3 DEF Confirmed, Starts
  <2>4. ASSUME x = h, NEW m, Sends(h, <<m>>), m.type # "StartCountdown",
               NEW i \in DOMAIN toClient'[h], toClient'[h][i].type = "StartCountdown"
        PROVE  Starts(x)
    <3>1. toClient'[h] = toClient[h] \o <<m>> /\ toClient[h] \in Seq(Reply)
      BY <1>1, <2>4 DEF Sends, SysTypes
    <3>2. CASE i = Len(toClient[h]) + 1
      BY <2>4, <3>1, <3>2
    <3>3. CASE i # Len(toClient[h]) + 1
      <4>1. i \in DOMAIN toClient[h] /\ toClient'[h][i] = toClient[h][i]
        BY <2>4, <3>1, <3>3
      <4>2. QED
        BY <2>4, <4>1 DEF Starts
    <3>4. QED
      BY <3>2, <3>3
  <2>5. /\ [type |-> "Clients", sessions |-> DOMAIN clients].type # "StartCountdown"
        /\ AddrOf(clients[toServer[h].session].addr).type # "StartCountdown"
    BY DEF AddrOf
  <2>6. \/ x # h \/ toClient'[x] = toClient[x] \/ Confirmed(h)
        \/ Sends(h, <<[type |-> "Clients", sessions |-> DOMAIN clients]>>)
        \/ Sends(h, <<AddrOf(clients[toServer[h].session].addr)>>)
    BY OtherSteps
  <2>7. QED
    BY <1>1, <1>2, <2>1, <2>2, <2>3, <2>4, <2>5, <2>6 DEF Starts
<1>15. QED
  BY <1>5, <1>6, <1>9, <1>13, <1>14 DEF MeetInv

\* The two sides that a task matches are told of each other.
LEMMA MatchMeets ==
    ASSUME SysIInv, MeetInv, NEW h \in Handlers, Server(h), Matches(h)
    PROVE  MeetInv'
<1>1. /\ SysTypes /\ TypeOK
      /\ UNCHANGED <<phase, link, wait, remote, clients, wanted>>
      /\ \A x : Connected(x)' <=> Connected(x)
      /\ pc[h] = "taken" /\ channel[taken[h]] = "open"
      /\ channel' = [channel EXCEPT ![taken[h]] = "signalled"]
      /\ signalledBy' = [signalledBy EXCEPT ![taken[h]] = h]
      /\ pc'[h] \in {"update", "closed"}
  BY DEF SysIInv, IInv, Server, clientVars, Connected, Matches, Confirm, ConfirmPanics, Signal,
         Goto, TypeOK
<1>2. PICK t \in Handlers : t = taken[h]
  BY <1>1 DEF SysIInv, IInv, TakenIsKnown
<1>3. /\ t # h /\ pc[t] = "waiting" /\ signalledBy[t] = None /\ signalledBy[h] = None
      /\ signalledBy'[t] = h /\ h # None
      /\ \A y \in Handlers : y # t => signalledBy'[y] = signalledBy[y] /\ channel'[y] = channel[y]
      /\ \A y \in Handlers : signalledBy[y] # h
      /\ channel'[t] = "signalled"
  BY <1>1, <1>2, ConnectedTypes DEF SysIInv, IInv, OpenIsAwaited, MeetInv, MatchedOnce, TypeOK
<1>4. /\ \A x \in Handlers : x # h => /\ pc'[x] = pc[x] /\ toServer'[x] = toServer[x]
                                     /\ toClient'[x] = toClient[x] /\ taken'[x] = taken[x]
      /\ \A x \in Handlers : Unread(x)' => /\ Unread(x) /\ toServer'[x] = toServer[x]
                                          /\ toClient'[x] = toClient[x]
  BY ServerSteps DEF Unread
<1>5. \/ Sends(h, <<AddrOf(t), Start>>) \/ ~Connected(h)
  BY <1>1, <1>2
  DEF Matches, Confirm, ToService, Server, Serve, GoRound, AnnounceAndCheck, ConnectionRequest,
      ConnectionRequestPanics,
      Insert, SessionNotFound, Confirmed, PollUpdate, ConfirmTooLate, SenderDropped,
      TimeOut, RemoveRequest, Disconnect, ConfirmedPanics
<1>6. Desert(h)
  BY <1>1, <1>2
  DEF Server, Serve, GoRound, AnnounceAndCheck, ConnectionRequest, ConnectionRequestPanics,
      Insert, SessionNotFound, Confirmed, PollUpdate, ConfirmTooLate, SenderDropped,
      TimeOut, RemoveRequest, Disconnect, ConfirmedPanics
<1>7. MatchedOnce'
  <2>1. ASSUME NEW x \in Handlers, Unread(x)' \/ pc'[x] = "taken"
        PROVE  signalledBy'[x] = None /\ \A y \in Handlers : signalledBy'[y] # x
    <3>1. x # h /\ (Unread(x) \/ pc[x] = "taken")
      BY <1>1, <1>4, <2>1 DEF Unread
    <3>2. x # t
      BY <1>3, <3>1 DEF Unread
    <3>3. signalledBy[x] = None /\ \A y \in Handlers : signalledBy[y] # x
      BY <3>1 DEF MeetInv, MatchedOnce
    <3>4. QED
      BY <1>3, <3>1, <3>2, <3>3
  <2>2. ASSUME NEW y \in Handlers, signalledBy'[y] # None
        PROVE  signalledBy'[signalledBy'[y]] = None /\ pc'[signalledBy'[y]] # "waiting"
    <3>1. CASE y = t
      BY <1>1, <1>3, <3>1
    <3>2. CASE y # t
      <4>1. /\ signalledBy'[y] = signalledBy[y] /\ signalledBy[y] \in Handlers
            /\ signalledBy[signalledBy[y]] = None /\ pc[signalledBy[y]] # "waiting"
            /\ signalledBy[y] # h
        BY <1>1, <1>3, <2>2, <3>2 DEF MeetInv, MatchedOnce, TypeOK
      <4>2. QED
        BY <1>3, <1>4, <4>1
    <3>3. QED
      BY <3>1, <3>2
  <2>3. ASSUME NEW y \in Handlers, channel'[y] \in {"open", "dropped"}
        PROVE  signalledBy'[y] = None
    BY <1>3, <2>3 DEF MeetInv, MatchedOnce
  <2>4. QED
    BY <2>1, <2>2, <2>3 DEF MatchedOnce
<1>8. SessionsAreServices'
  <2>1. ASSUME NEW x \in Handlers, Unread(x)', toServer'[x].type = "AnnounceAndCheck"
        PROVE  Owner[x] \in Services /\ toServer'[x].session = SessionOf[Owner[x]]
    BY <1>4, <2>1 DEF MeetInv, SessionsAreServices
  <2>2. ASSUME NEW x \in Handlers, pc'[x] = "taken"
        PROVE  /\ Owner[x] \in Services
               /\ pc'[taken'[x]] = "waiting" => wanted'[taken'[x]] = SessionOf[Owner[x]]
    <3>1. x # h /\ pc[x] = "taken" /\ taken'[x] = taken[x]
      BY <1>1, <1>4, <2>2
    <3>2. PICK u \in Handlers : u = taken[x]
      BY <3>1 DEF SysIInv, IInv, TakenIsKnown
    <3>3. /\ Owner[x] \in Services
          /\ pc[u] = "waiting" => wanted[u] = SessionOf[Owner[x]]
      BY <3>1, <3>2 DEF MeetInv, SessionsAreServices
    <3>4. pc'[u] = "waiting" => pc[u] = "waiting"
      BY <1>1, <1>4
    <3>5. QED
      BY <1>1, <3>1, <3>2, <3>3, <3>4
  <2>3. QED
    BY <1>1, <2>1, <2>2 DEF MeetInv, SessionsAreServices
<1>9. ASSUME NEW x \in Handlers, x # h, NEW d
      PROVE  (IsTold(x, d)' <=> IsTold(x, d)) /\ (IsStarted(x, d)' <=> IsStarted(x, d))
  BY <1>1, <1>4, <1>9 DEF IsTold, IsStarted
<1>10. ClientsKnow'
  <2>1. \A x \in Handlers : pc'[x] \in {"taken", "waiting"} => x # h /\ pc'[x] = pc[x]
    BY <1>1, <1>4
  <2>2. QED
    BY <1>1, <1>4, <1>9, <2>1 DEF MeetInv, ClientsKnow
<1>11. \A x \in Handlers : UntilConnect(Owner[x])' = UntilConnect(Owner[x])
  BY <1>1 DEF UntilConnect
<1>12. PairsAreInStep'
  <2> SUFFICES ASSUME NEW x \in Handlers, NEW y \in Handlers, Pair(x, y)'
               PROVE  /\ IsStarted(x, Owner[y])'
                      /\ IF pc'[y] = "waiting" THEN IsTold(y, Owner[x])'
                         ELSE IsStarted(y, Owner[x])'
                      /\ UntilConnect(Owner[x])' = UntilConnect(Owner[y])'
                      /\ \A d \in {Owner[x], Owner[y]} :
                           phase'[d] \in Attempting =>
                              phase'[d] = "connecting" /\ wait'[d] = CONNECT_WINDOW
    BY DEF PairsAreInStep
  <2>1. Connected(x) /\ Connected(y) /\ signalledBy'[y] = x
    BY <1>1 DEF Pair
  <2>2. CASE y # t
    <3>1. Pair(x, y) /\ x # h /\ y # h
      BY <1>3, <2>1, <2>2, ConnectedTypes, <1>1 DEF Pair
    <3>2. QED
      BY <1>1, <1>4, <1>9, <1>11, <3>1 DEF MeetInv, PairsAreInStep
  <2>3. CASE y = t
    <3>1. x = h /\ Connected(h) /\ Connected(t)
      BY <1>3, <2>1, <2>3
    <3>2. phase[Owner[h]] = "address" /\ toClient[h] = <<>>
      BY <1>1, <3>1 DEF MeetInv, ClientsKnow
    <3>3. IsStarted(h, Owner[t])'
      <4>1. toClient'[h] = toClient[h] \o <<AddrOf(t), Start>>
        BY <1>1, <1>5, <3>1 DEF Sends, SysTypes
      <4>2. AddrOf(t) = RemoteAddr(Owner[t])
        BY DEF AddrOf, RemoteAddr
      <4>3. \A a, b : <<>> \o <<a, b>> = <<a, b>>
        BY SecondMail
      <4>4. toClient'[h] = <<RemoteAddr(Owner[t]), Start>>
        BY <3>2, <4>1, <4>2, <4>3, Zenon
      <4>5. QED
        BY <1>1, <3>2, <4>4 DEF IsStarted
    <3>4. PICK c \in Services : SessionOf[c] = wanted[t] /\ IsTold(t, c)
      BY <1>3, <3>1 DEF MeetInv, ClientsKnow
    <3>5. Owner[h] \in Services /\ wanted[t] = SessionOf[Owner[h]]
      BY <1>1, <1>2, <1>3 DEF MeetInv, SessionsAreServices
    <3>6. IsTold(t, Owner[h])'
      BY <1>3, <1>9, <3>4, <3>5, DifferentSessionsAssumption
    <3>7. phase[Owner[t]] \in {"address", "start"}
      BY <3>4 DEF IsTold
    <3>8. /\ UntilConnect(Owner[h]) = SCHEDULE_CON /\ UntilConnect(Owner[t]) = SCHEDULE_CON
          /\ phase[Owner[h]] \notin Attempting /\ phase[Owner[t]] \notin Attempting
      BY <3>2, <3>7 DEF UntilConnect, Attempting
    <3>9. QED
      BY <1>1, <1>3, <1>4, <1>11, <2>3, <3>1, <3>3, <3>6, <3>8
  <2>4. QED
    BY <2>2, <2>3
<1>13. StartedHavePartners'
  <2> SUFFICES ASSUME NEW x \in Handlers, Connected(x)', Starts(x)'
               PROVE  \/ Owner[x] \in deserted'
                      \/ \E g \in Handlers : Pair(x, g)' \/ Pair(g, x)'
    BY DEF StartedHavePartners
  <2>1. deserted \subseteq deserted'
    BY <1>6 DEF Desert
  <2>2. CASE x \in {h, t}
    <3>1. CASE Connected(h) /\ Connected(t)
      BY <1>1, <1>3, <2>2, <3>1 DEF Pair
    <3>2. CASE ~(Connected(h) /\ Connected(t))
      BY <1>1, <1>2, <1>6, <2>2, <3>2 DEF Desert
    <3>3. QED
      BY <3>1, <3>2
  <2>3. CASE x \notin {h, t}
    <3>1. Connected(x) /\ Starts(x)
      BY <1>1, <1>3, <1>4, <2>3, StartsStays
    <3>2. ASSUME NEW g \in Handlers, Pair(x, g) \/ Pair(g, x)
          PROVE  Pair(x, g)' \/ Pair(g, x)'
      <4>1. \A y \in Handlers : signalledBy[y] \in {x, g} => y # t
        BY <1>1, <1>3, ConnectedTypes
      <4>2. QED
        BY <1>1, <1>3, <3>2, <4>1 DEF Pair
    <3>3. QED
      BY <2>1, <3>1, <3>2 DEF MeetInv, StartedHavePartners
  <2>4. QED
    BY <2>2, <2>3
<1>14. QED
  BY <1>7, <1>8, <1>10, <1>12, <1>13 DEF MeetInv

----------------------------------------------------------------------------
(* Both sides count the same ticks *)

LEMMA SysTickMeets ==
    ASSUME SysIInv, MeetInv, SysTick
    PROVE  MeetInv'
<1>1. /\ TypeOK /\ SysTypes
      /\ \A h \in Handlers : Settled(h)
      /\ \A c \in Clients : phase[c] # "idle" =>
           /\ wait[c] > 0
           /\ phase[c] \in Receiving => toClient[link[c]] = <<>>
      /\ \A c, d \in Clients : ~CanMeet(c, d)
      /\ pc' = [h \in Handlers |-> IF pc[h] = "recv" THEN "update" ELSE pc[h]]
      /\ wait' = [c \in Clients |-> Minus1(wait[c])]
      /\ UNCHANGED <<phase, link, remote, toServer, toClient, deserted>>
      /\ UNCHANGED <<taken, wanted, channel, signalledBy>>
      /\ \A x : Connected(x)' <=> Connected(x)
  BY DEF SysIInv, IInv, SysTick, TimePasses, historyVars, wireVars, Connected
<1>2. \A h \in Handlers : ~Unread(h)' /\ pc'[h] # "taken"
                        /\ (pc'[h] = "waiting" <=> pc[h] = "waiting")
  BY <1>1 DEF Settled, Unread
<1>3. MatchedOnce'
  <2>1. ASSUME NEW y \in Handlers, signalledBy[y] # None
        PROVE  signalledBy[signalledBy[y]] = None /\ pc'[signalledBy[y]] # "waiting"
    <3>1. signalledBy[y] \in Handlers
      BY <1>1, <2>1 DEF TypeOK
    <3>2. QED
      BY <1>2, <2>1, <3>1 DEF MeetInv, MatchedOnce
  <2>2. QED
    BY <1>1, <1>2, <2>1 DEF MeetInv, MatchedOnce
<1>4. SessionsAreServices'
  <2>1. DOMAIN clients' = DOMAIN clients /\ \A s \in DOMAIN clients : clients'[s].addr = clients[s].addr
    BY DEF SysTick, TimePasses
  <2>2. QED
    BY <1>2, <2>1 DEF MeetInv, SessionsAreServices
<1>5. ASSUME NEW x \in Handlers, NEW d
      PROVE  (IsTold(x, d)' <=> IsTold(x, d)) /\ (IsStarted(x, d)' <=> IsStarted(x, d))
  BY <1>1 DEF IsTold, IsStarted
<1>6. ClientsKnow'
  <2>1. ASSUME NEW x \in Handlers, pc[x] = "waiting", Connected(x)
        PROVE  \E c \in Services : SessionOf[c] = wanted[x] /\ IsTold(x, c)'
    <3>1. PICK c \in Services : SessionOf[c] = wanted[x] /\ IsTold(x, c)
      BY <2>1 DEF MeetInv, ClientsKnow
    <3>2. IsTold(x, c)'
      BY <1>5, <3>1
    <3>3. QED
      BY <3>1, <3>2
  <2>2. QED
    BY <1>1, <1>2, <2>1 DEF ClientsKnow
<1>7. ASSUME NEW x \in Handlers, Connected(x), NEW d, IsStarted(x, d)
      PROVE  phase[Owner[x]] \in Told /\ remote[Owner[x]] = d /\ wait[Owner[x]] > 0
  <2>1. link[Owner[x]] = x /\ Owner[x] \in Clients /\ phase[Owner[x]] # "idle"
    BY <1>1, <1>7, ConnectedTypes DEF Connected, IsStarted, Told
  <2>2. phase[Owner[x]] \in {"address", "start"} => toClient[x] = <<>>
    BY <1>1, <2>1 DEF Receiving
  <2>3. <<RemoteAddr(d), Start>> # <<>> /\ <<Start>> # <<>>
    OBVIOUS
  <2>4. QED
    BY <1>1, <1>7, <2>1, <2>2, <2>3 DEF IsStarted
<1>8. PairsAreInStep'
  <2> SUFFICES ASSUME NEW x \in Handlers, NEW y \in Handlers, Pair(x, y)
               PROVE  /\ IsStarted(x, Owner[y])'
                      /\ IF pc'[y] = "waiting" THEN IsTold(y, Owner[x])'
                         ELSE IsStarted(y, Owner[x])'
                      /\ UntilConnect(Owner[x])' = UntilConnect(Owner[y])'
                      /\ \A d \in {Owner[x], Owner[y]} :
                           phase'[d] \in Attempting =>
                              phase'[d] = "connecting" /\ wait'[d] = CONNECT_WINDOW
    BY <1>1 DEF PairsAreInStep, Pair
  <2>1. /\ Connected(x) /\ Connected(y) /\ signalledBy[y] = x /\ x # None
        /\ Owner[x] \in Clients /\ Owner[y] \in Clients
    BY <1>1, ConnectedTypes DEF Pair
  <2>2. pc[y] # "waiting"
    BY <1>1, <2>1 DEF Settled, MeetInv, MatchedOnce
  <2>3. /\ IsStarted(x, Owner[y]) /\ IsStarted(y, Owner[x])
        /\ UntilConnect(Owner[x]) = UntilConnect(Owner[y])
    BY <2>2 DEF MeetInv, PairsAreInStep
  <2>4. PICK c \in Clients : c = Owner[x]
    BY <2>1
  <2>5. PICK d \in Clients : d = Owner[y]
    BY <2>1
  <2>6. /\ phase[c] \in Told /\ remote[c] = d /\ wait[c] > 0
        /\ phase[d] \in Told /\ remote[d] = c /\ wait[d] > 0
    BY <1>7, <2>1, <2>3, <2>4, <2>5
  <2>7. phase[c] = "countdown" /\ phase[d] = "countdown" /\ wait[c] = wait[d]
    <3>1. ~(phase[c] \in Attempting /\ phase[d] \in Attempting)
      BY <1>1, <2>6 DEF CanMeet
    <3>2. ASSUME NEW b \in {c, d}
          PROVE  \/ phase[b] = "countdown" /\ UntilConnect(b) = wait[b] /\ wait[b] # 0
                 \/ phase[b] \in Attempting /\ UntilConnect(b) = 0
      <4>1. b \in Clients /\ phase[b] \in Told /\ wait[b] > 0
        BY <2>6, <3>2
      <4>2. wait[b] \in Nat /\ wait[b] # 0
        BY <1>1, <4>1 DEF SysTypes
      <4>3. QED
        BY <4>1, <4>2 DEF UntilConnect, Told, Attempting
    <3>3. UntilConnect(c) = UntilConnect(d)
      BY <2>3, <2>4, <2>5
    <3>4. QED
      BY <3>1, <3>2, <3>3
  <2>8. /\ UntilConnect(c)' = UntilConnect(d)'
        /\ phase'[c] \notin Attempting /\ phase'[d] \notin Attempting
    BY <1>1, <2>7 DEF UntilConnect, Attempting
  <2>9. QED
    BY <1>2, <1>5, <2>2, <2>3, <2>4, <2>5, <2>8
<1>9. StartedHavePartners'
  BY <1>1, <1>2 DEF MeetInv, StartedHavePartners, Pair, Starts
<1>10. QED
  BY <1>3, <1>4, <1>6, <1>8, <1>9 DEF MeetInv

LEMMA StutteringMeets ==
    ASSUME MeetInv, UNCHANGED sysVars
    PROVE  MeetInv'
<1>1. /\ UNCHANGED <<clients, pc, wanted, taken, channel, signalledBy>>
      /\ UNCHANGED <<phase, link, wait, remote, toServer, toClient, deserted>>
  BY DEF sysVars, vars, taskVars, historyVars, clientVars, wireVars, traceVars
<1>2. MatchedOnce' /\ SessionsAreServices'
  BY <1>1 DEF MeetInv, MatchedOnce, SessionsAreServices, Unread
<1>3. ClientsKnow'
  BY <1>1 DEF MeetInv, ClientsKnow, Connected, IsTold
<1>4. PairsAreInStep'
  BY <1>1 DEF MeetInv, PairsAreInStep, Pair, Connected, UntilConnect, IsTold, IsStarted
<1>5. StartedHavePartners'
  BY <1>1 DEF MeetInv, StartedHavePartners, Pair, Connected, Starts
<1>6. QED
  BY <1>2, <1>3, <1>4, <1>5 DEF MeetInv

----------------------------------------------------------------------------
(* The action property *)

LEMMA InitMeets == SysInit => MeetInv
<1> SUFFICES ASSUME SysInit PROVE MeetInv
  OBVIOUS
<1>1. /\ DOMAIN clients = {} /\ pc = [h \in Handlers |-> "closed"]
      /\ channel = [h \in Handlers |-> "none"]
      /\ signalledBy = [h \in Handlers |-> None]
      /\ \A h \in Handlers : ~Connected(h)
  BY OwnerAssumption, NoneAssumption DEF SysInit, InitAt, Connected
<1>2. QED
  BY <1>1 DEF MeetInv, MatchedOnce, SessionsAreServices, ClientsKnow, PairsAreInStep,
              StartedHavePartners, Pair, Unread

LEMMA CallersMeet ==
    ASSUME SysIInv, MeetInv, NEW c \in Clients, NEW h \in Handlers,
           poll_accept(c, h) \/ scan_connections(c, h) \/ connect_client(c, h)
    PROVE  MeetInv'
<1>1. CASE poll_accept(c, h)
  <2>1. PICK msg : msg = [type |-> "AnnounceAndCheck", session |-> SessionOf[c]]
    OBVIOUS
  <2>2. c \in Services /\ Open(c, h, msg, "address")
    BY <1>1, <2>1 DEF poll_accept
  <2>3. msg \in Request /\ msg.session = SessionOf[c]
    BY <2>1, <2>2, SessionOfAssumption DEF Request
  <2>4. QED
    BY <2>2, <2>3, OpenMeets
<1>2. CASE scan_connections(c, h)
  <2>1. PICK msg : msg = [type |-> "GetClients", session |-> None]
    OBVIOUS
  <2>2. Open(c, h, msg, "listing")
    BY <1>2, <2>1 DEF scan_connections
  <2>3. msg \in Request /\ msg.type # "AnnounceAndCheck"
    BY <2>1 DEF Request
  <2>4. QED
    BY <2>2, <2>3, OpenMeets
<1>3. CASE connect_client(c, h)
  <2>1. PICK s \in Sessions : Open(c, h, [type |-> "ConnectionRequest", session |-> s], "address")
    BY <1>3 DEF connect_client
  <2>2. PICK msg : msg = [type |-> "ConnectionRequest", session |-> s]
    OBVIOUS
  <2>3. Open(c, h, msg, "address")
    BY <2>1, <2>2
  <2>4. msg \in Request /\ msg.type # "AnnounceAndCheck"
    BY <2>2 DEF Request
  <2>5. QED
    BY <2>3, <2>4, OpenMeets
<1>4. QED
  BY <1>1, <1>2, <1>3

LEMMA NextMeets == SysIInv /\ MeetInv /\ [SysNext]_sysVars => MeetInv'
<1> SUFFICES ASSUME SysIInv, MeetInv, [SysNext]_sysVars
             PROVE  MeetInv'
  OBVIOUS
<1>1. ASSUME NEW c \in Clients, NEW cs, cs \subseteq Clients, Return(cs),
             UNCHANGED <<vars, toServer, called>>
      PROVE  MeetInv'
  BY <1>1, ReturnMeets
<1>2. ASSUME NEW c \in Clients,
             \/ RecvClients(c) \/ ClosedByServer(c) \/ NoAnswer(c)
             \/ ConnectFails(c) \/ Abandon(c)
      PROVE  MeetInv'
  <2>1. Return({c}) /\ UNCHANGED <<vars, toServer, called>>
    BY <1>2 DEF RecvClients, ClosedByServer, NoAnswer, ConnectFails, Abandon, Reads
  <2>2. {c} \subseteq Clients
    OBVIOUS
  <2>3. QED
    BY <1>1, <2>1, <2>2
<1>3. ASSUME NEW c \in Clients, NEW d \in Clients, ConnectSucceeds(c, d)
      PROVE  MeetInv'
  <2>1. Return({c, d}) /\ UNCHANGED <<vars, toServer, called>>
    BY <1>3 DEF ConnectSucceeds
  <2>2. {c, d} \subseteq Clients
    OBVIOUS
  <2>3. QED
    BY <1>1, <2>1, <2>2
<1>4. ASSUME NEW c \in Clients, Client(c) PROVE MeetInv'
  BY <1>2, <1>3, <1>4, ReadMeets, ConnectMeets DEF Client
<1>5. ASSUME NEW c \in Clients, Caller(c) PROVE MeetInv'
  BY <1>2, <1>5, CallersMeet DEF Caller
<1>6. ASSUME NEW h \in Handlers, Server(h) PROVE MeetInv'
  BY <1>6, OthersMeet, MatchMeets
<1>7. QED
  BY <1>4, <1>5, <1>6, SysTickMeets, StutteringMeets DEF SysNext

LEMMA MeetInvHolds == SysSpec => [](SysIInv /\ MeetInv)
<1>1. SysInit => SysIInv /\ MeetInv
  BY SysInitHolds, InitMeets
<1>2. SysIInv /\ MeetInv /\ [SysNext]_sysVars => (SysIInv /\ MeetInv)'
  BY SysNextKeeps, NextMeets
<1>3. QED
  BY <1>1, <1>2, PTL DEF SysSpec

\* A call that got as far as the attempts to connect (start_simultaneous_connect) gives
\* them up only when its partner left before: partners are told of each other and begin
\* to connect within the same tick, however their answers and those of other calls came.
THEOREM PartnersMeet == SysSpec => MatchedCallsMeet
<1>1. ASSUME SysIInv, MeetInv, NEW c \in Clients, ConnectFails(c)
      PROVE  c \in deserted
  <2>1. PICK h : h = link[c]
    OBVIOUS
  <2>2. phase[c] \in Attempting /\ (phase[c] = "last attempt" \/ wait[c] = 0)
    BY <1>1 DEF ConnectFails, Attempting
  <2>3. h \in Handlers /\ Owner[h] = c /\ Connected(h)
    BY <1>1, <2>1, <2>2 DEF SysIInv, SysTypes, SysTypeOK, Attempting, Connected
  <2>4. Starts(h)
    BY <2>2, <2>3 DEF Starts, Told, Attempting
  <2>5. ~(phase[c] = "connecting" /\ wait[c] = CONNECT_WINDOW)
    BY <2>2, WindowsAssumption
  <2>6. \A g \in Handlers : ~Pair(h, g) /\ ~Pair(g, h)
    BY <1>1, <2>2, <2>3, <2>5 DEF MeetInv, PairsAreInStep
  <2>7. QED
    BY <1>1, <2>3, <2>4, <2>6 DEF MeetInv, StartedHavePartners
<1>2. SysIInv /\ MeetInv /\ [SysNext]_sysVars
        => [\A c \in Clients : ConnectFails(c) => c \in deserted]_sysVars
  BY <1>1
<1>3. QED
  BY MeetInvHolds, <1>2, PTL DEF SysSpec, MatchedCallsMeet

----------------------------------------------------------------------------
(* The answers come in the order in which they are awaited *)

\* The messages that client h has not read are those its call still awaits.
MailFits(h) ==
    \/ toClient[h] = <<>>
    \/ phase[Owner[h]] = "listing" /\ \E m : toClient[h] = <<m>> /\ m.type = "Clients"
    \/ phase[Owner[h]] = "address"
         /\ \E d : toClient[h] \in {<<RemoteAddr(d)>>, <<RemoteAddr(d), Start>>}
    \/ phase[Owner[h]] = "start" /\ toClient[h] = <<Start>>

MailInv == \A h \in Handlers : Connected(h) => MailFits(h)

\* What a task sends continues what its client has not read.
LEMMA ServerMail ==
    ASSUME SysIInv, MeetInv, MailInv, NEW h \in Handlers, Server(h), Connected(h)
    PROVE  MailFits(h)'
<1>1. /\ SysTypes /\ TypeOK
      /\ UNCHANGED <<phase, link, wait, remote>>
      /\ toClient[h] \in Seq(Reply)
  BY ConnectedTypes DEF SysIInv, IInv, Server, clientVars
<1>2. ASSUME NEW ms, Sends(h, ms)
      PROVE  toClient'[h] = toClient[h] \o ms
  BY <1>1, <1>2 DEF Sends, SysTypes
<1>3. ASSUME NEW a, NEW b PROVE <<>> \o <<a, b>> = <<a, b>>
  BY ConcatEmptySeq
<1>4. CASE UNCHANGED toClient
  BY <1>1, <1>4 DEF MailInv, MailFits
<1>5. CASE /\ Takes(h, "GetClients") /\ GoRound(h)
           /\ Sends(h, <<[type |-> "Clients", sessions |-> DOMAIN clients]>>)
  <2>1. Unread(h) /\ toServer[h].type = "GetClients"
    BY <1>5 DEF Takes, GoRound, Unread
  <2>2. phase[Owner[h]] = "listing" /\ toClient[h] = <<>>
    BY <2>1 DEF SysIInv, UnreadIsFirst
  <2>3. PICK m : m = [type |-> "Clients", sessions |-> DOMAIN clients]
    OBVIOUS
  <2>4. toClient'[h] = <<m>> /\ m.type = "Clients"
    BY <1>2, <1>5, <2>2, <2>3, SecondMail
  <2>5. QED
    BY <1>1, <2>2, <2>4 DEF MailFits
<1>6. CASE /\ Takes(h, "ConnectionRequest") /\ ConnectionRequest(h, toServer[h].session)
           /\ Sends(h, <<AddrOf(clients[toServer[h].session].addr)>>)
  <2>1. Unread(h) /\ toServer[h].type = "ConnectionRequest"
    BY <1>6 DEF Takes, ConnectionRequest, Insert, Unread
  <2>2. phase[Owner[h]] = "address" /\ toClient[h] = <<>>
    BY <2>1 DEF SysIInv, UnreadIsFirst
  <2>3. PICK d : d = Owner[clients[toServer[h].session].addr]
    OBVIOUS
  <2>4. AddrOf(clients[toServer[h].session].addr) = RemoteAddr(d)
    BY <2>3 DEF AddrOf, RemoteAddr
  <2>5. toClient'[h] = <<RemoteAddr(d)>>
    BY <1>2, <1>6, <2>2, <2>4, SecondMail
  <2>6. QED
    BY <1>1, <2>2, <2>5 DEF MailFits
<1>7. CASE Confirm(h) /\ Sends(h, ToService(h))
  <2>1. phase[Owner[h]] = "address" /\ toClient[h] = <<>>
    BY <1>7 DEF Confirm, Signal, MeetInv, ClientsKnow
  <2>2. PICK d : d = Owner[taken[h]]
    OBVIOUS
  <2>3. ToService(h) = <<RemoteAddr(d), Start>>
    BY <2>2 DEF ToService, AddrOf, RemoteAddr
  <2>4. toClient'[h] = <<RemoteAddr(d), Start>>
    BY <1>2, <1>3, <1>7, <2>1, <2>3
  <2>5. QED
    BY <1>1, <2>1, <2>4 DEF MailFits
<1>8. CASE Confirmed(h) /\ Sends(h, <<Start>>)
  <2>1. PICK d \in Services : IsTold(h, d)
    BY <1>8 DEF Confirmed, MeetInv, ClientsKnow
  <2>2. toClient'[h] = toClient[h] \o <<Start>>
    BY <1>2, <1>8
  <2>3. CASE phase[Owner[h]] = "address" /\ toClient[h] = <<RemoteAddr(d)>>
    BY <1>1, <2>2, <2>3, SecondMail DEF MailFits
  <2>4. CASE phase[Owner[h]] = "start" /\ toClient[h] = <<>>
    BY <1>1, <2>2, <2>4, SecondMail DEF MailFits
  <2>5. QED
    BY <2>1, <2>3, <2>4 DEF IsTold
<1>9. QED
  BY <1>4, <1>5, <1>6, <1>7, <1>8 DEF Server, Serve

LEMMA ReadMail ==
    ASSUME SysIInv, MailInv, NEW c \in Clients, RecvRemoteAddr(c) \/ RecvStartCountdown(c)
    PROVE  \A h \in Handlers : h = link[c] => MailFits(h)'
<1> SUFFICES ASSUME NEW h \in Handlers, h = link[c]
             PROVE  MailFits(h)'
  OBVIOUS
<1>1. h = link[c]
  OBVIOUS
<1>2. phase[c] # "idle" /\ toClient[h] # <<>>
  BY <1>1 DEF RecvRemoteAddr, RecvStartCountdown, Reads
<1>3. Affects(c) /\ Owner[h] = c /\ h \in Handlers /\ Connected(h) /\ SysTypes
  BY <1>1, <1>2, StepTypes DEF SysIInv
<1>4. toClient'[h] = Tail(toClient[h]) /\ link' = link
  BY <1>1, <1>3 DEF RecvRemoteAddr, RecvStartCountdown, Read, SysTypes, Affects
<1>5. CASE RecvRemoteAddr(c)
  <2>1. phase[Owner[h]] = "address" /\ phase'[Owner[h]] = "start"
    BY <1>3, <1>5 DEF RecvRemoteAddr, Reads, SysTypes, SysTypeOK
  <2>2. PICK d : toClient[h] \in {<<RemoteAddr(d)>>, <<RemoteAddr(d), Start>>}
    BY <1>2, <1>3, <2>1 DEF MailInv, MailFits
  <2>3. toClient'[h] = <<>> \/ toClient'[h] = <<Start>>
    BY <1>4, <2>2, FirstMail
  <2>4. QED
    BY <1>1, <1>4, <2>1, <2>3 DEF MailFits
<1>6. CASE RecvStartCountdown(c)
  <2>1. phase[Owner[h]] = "start"
    BY <1>3, <1>6 DEF RecvStartCountdown, Reads
  <2>2. toClient[h] = <<Start>>
    BY <1>2, <1>3, <2>1 DEF MailInv, MailFits
  <2>3. toClient'[h] = <<>>
    BY <1>4, <2>2, FirstMail
  <2>4. QED
    BY <1>1, <1>4, <2>3 DEF MailFits
<1>7. QED
  BY <1>5, <1>6

LEMMA OpenMail ==
    ASSUME SysIInv, MailInv, NEW c \in Clients, NEW h \in Handlers, NEW msg, NEW ph,
           Open(c, h, msg, ph)
    PROVE  MailInv'
<1>1. /\ SysTypes
      /\ phase' = [phase EXCEPT ![c] = ph] /\ link' = [link EXCEPT ![c] = h]
      /\ toClient' = [toClient EXCEPT ![h] = <<>>]
      /\ Owner[h] = c
  BY DEF SysIInv, Open
<1>2. toClient'[h] = <<>>
  BY <1>1 DEF SysTypes
<1>3. ASSUME NEW x \in Handlers, x # h, Connected(x)'
      PROVE  Connected(x) /\ Owner[x] # c /\ toClient'[x] = toClient[x]
             /\ phase'[Owner[x]] = phase[Owner[x]]
  <2>1. Owner[x] \in Clients /\ link'[Owner[x]] = x
    BY <1>1, <1>3, ConnectedTypes DEF Connected
  <2>2. Owner[x] # c
    BY <1>1, <1>3, <2>1 DEF SysTypes, SysTypeOK
  <2>3. QED
    BY <1>1, <1>3, <2>1, <2>2 DEF Connected, SysTypes, SysTypeOK
<1>4. QED
  BY <1>2, <1>3 DEF MailInv, MailFits

LEMMA NextMail == SysIInv /\ MeetInv /\ MailInv /\ [SysNext]_sysVars => MailInv'
<1> SUFFICES ASSUME SysIInv, MeetInv, MailInv, [SysNext]_sysVars
             PROVE  MailInv'
  OBVIOUS
<1>1. SysTypes
  BY DEF SysIInv
<1>2. ASSUME NEW cs, cs \subseteq Clients, Return(cs)
      PROVE  MailInv'
  <2>1. ASSUME NEW h \in Handlers, Connected(h)'
        PROVE  /\ Connected(h) /\ toClient'[h] = toClient[h]
               /\ phase'[Owner[h]] = phase[Owner[h]]
    BY <1>1, <1>2, <2>1, ReturnDrops, ConnectedTypes
  <2>2. QED
    BY <2>1 DEF MailInv, MailFits
<1>3. ASSUME NEW c \in Clients,
             \/ RecvClients(c) \/ ClosedByServer(c) \/ NoAnswer(c)
             \/ ConnectFails(c) \/ Abandon(c)
      PROVE  MailInv'
  <2>1. Return({c}) /\ {c} \subseteq Clients
    BY <1>3 DEF RecvClients, ClosedByServer, NoAnswer, ConnectFails, Abandon
  <2>2. QED
    BY <1>2, <2>1
<1>4. ASSUME NEW c \in Clients, NEW d \in Clients, ConnectSucceeds(c, d)
      PROVE  MailInv'
  <2>1. Return({c, d}) /\ {c, d} \subseteq Clients
    BY <1>4 DEF ConnectSucceeds
  <2>2. QED
    BY <1>2, <2>1
<1>5. ASSUME NEW c \in Clients, RecvRemoteAddr(c) \/ RecvStartCountdown(c)
      PROVE  MailInv'
  <2>1. phase[c] # "idle"
    BY <1>5 DEF RecvRemoteAddr, RecvStartCountdown, Reads
  <2>2. Affects(c)
    BY <1>1, <1>5, <2>1, StepTypes
  <2>3. ASSUME NEW h \in Handlers, Connected(h)', h # link[c]
        PROVE  /\ Connected(h) /\ toClient'[h] = toClient[h]
               /\ phase'[Owner[h]] = phase[Owner[h]]
    <3>1. link' = link /\ Owner[h] \in Clients /\ link[Owner[h]] = h
      BY <1>1, <2>2, <2>3, ConnectedTypes DEF Affects, Connected
    <3>2. Owner[h] # c
      BY <2>3, <3>1
    <3>3. QED
      BY <2>2, <2>3, <3>1, <3>2 DEF Affects, Connected
  <2>4. ASSUME NEW h \in Handlers, Connected(h)'
        PROVE  MailFits(h)'
    <3>1. CASE h = link[c]
      BY <1>5, <3>1, ReadMail
    <3>2. CASE h # link[c]
      BY <2>3, <2>4, <3>2 DEF MailInv, MailFits
    <3>3. QED
      BY <3>1, <3>2
  <2>5. QED
    BY <2>4 DEF MailInv
<1>6. ASSUME NEW c \in Clients, BeginConnecting(c) \/ EndWindow(c)
      PROVE  MailInv'
  <2>1. phase[c] \in {"countdown", "connecting"} /\ UNCHANGED <<link, toClient>>
    BY <1>6 DEF BeginConnecting, EndWindow, wireVars
  <2>2. \A d \in Clients : d # c => phase'[d] = phase[d]
    BY <1>1, <1>6 DEF BeginConnecting, EndWindow, SysTypes, SysTypeOK
  <2>3. ASSUME NEW h \in Handlers, Connected(h)
        PROVE  MailFits(h)'
    <3>1. CASE Owner[h] = c
      BY <2>1, <2>3, <3>1 DEF MailInv, MailFits
    <3>2. CASE Owner[h] # c
      BY <1>1, <2>1, <2>2, <2>3, <3>2, ConnectedTypes DEF MailInv, MailFits
    <3>3. QED
      BY <3>1, <3>2
  <2>4. QED
    BY <2>1, <2>3 DEF MailInv, Connected
<1>7. ASSUME NEW c \in Clients, NEW h \in Handlers,
             poll_accept(c, h) \/ scan_connections(c, h) \/ connect_client(c, h)
      PROVE  MailInv'
  <2>1. PICK msg, ph : Open(c, h, msg, ph)
    BY <1>7 DEF poll_accept, scan_connections, connect_client
  <2>2. QED
    BY <2>1, OpenMail
<1>8. ASSUME NEW h \in Handlers, Server(h)
      PROVE  MailInv'
  <2>1. /\ UNCHANGED <<phase, link>>
        /\ \A x \in Handlers : x # h => toClient'[x] = toClient[x]
    BY <1>8, ServerSteps DEF Server, clientVars
  <2>2. QED
    BY <1>8, <2>1, ServerMail DEF MailInv, MailFits, Connected
<1>9. CASE SysTick \/ UNCHANGED sysVars
  <2>1. UNCHANGED <<phase, link, toClient>>
    BY <1>9 DEF SysTick, sysVars, clientVars, wireVars
  <2>2. QED
    BY <2>1 DEF MailInv, MailFits, Connected
<1>10. QED
  BY <1>3, <1>4, <1>5, <1>6, <1>7, <1>8, <1>9 DEF SysNext, Client, Caller

\* The answers of the server come in the order in which poll_accept, scan_connections and
\* connect_client await them, and none comes after the start of the countdown: what
\* recv_exact_msg does with a message that its caller did not ask for never matters,
\* however often addresses are used again and whenever calls are given up.
THEOREM AnswersComeInOrder == SysSpec => []AnswersAreExpected
<1>1. SysInit => MailInv
  BY DEF SysInit, MailInv, MailFits
<1>2. SysIInv /\ MailInv => AnswersAreExpected
  <2> SUFFICES ASSUME SysIInv, MailInv, NEW c \in Clients,
                      phase[c] # "idle", toClient[link[c]] # <<>>
               PROVE  /\ phase[c] \in Receiving
                      /\ Head(toClient[link[c]]).type = Awaited[phase[c]]
    BY DEF AnswersAreExpected
  <2>1. PICK h \in Handlers : h = link[c] /\ Owner[h] = c /\ Connected(h)
    BY DEF SysIInv, SysTypes, SysTypeOK, Connected
  <2>2. \/ phase[c] = "listing" /\ \E m : toClient[h] = <<m>> /\ m.type = "Clients"
        \/ phase[c] = "address"
             /\ \E d : toClient[h] \in {<<RemoteAddr(d)>>, <<RemoteAddr(d), Start>>}
        \/ phase[c] = "start" /\ toClient[h] = <<Start>>
    BY <2>1 DEF MailInv, MailFits
  <2>3. \/ phase[c] = "listing" /\ Head(toClient[h]).type = "Clients"
        \/ phase[c] = "address" /\ Head(toClient[h]).type = "RemoteAddr"
        \/ phase[c] = "start" /\ Head(toClient[h]).type = "StartCountdown"
    BY <2>2, FirstMail DEF RemoteAddr, Start
  <2>4. QED
    BY <2>1, <2>3 DEF Receiving, Awaited
<1>3. SysIInv /\ MeetInv /\ MailInv /\ [SysNext]_sysVars => MailInv'
  BY NextMail
<1>4. QED
  BY MeetInvHolds, <1>1, <1>2, <1>3, PTL DEF SysSpec

=============================================================================
