----------------------------- MODULE TcpServer -----------------------------
(***************************************************************************)
(* The TCP rendezvous server: handle_tcp_client (src/src/server.rs) and    *)
(* the state its tasks share (src/src/server/tcp_state.rs).                *)
(*                                                                         *)
(* Every TCP connection has a task.  A service announces a session and     *)
(* takes the pending connection request for it, if there is one; a         *)
(* connector inserts a request for an announced session and waits on a     *)
(* oneshot channel whose sender the request carries.  When the service's   *)
(* task takes the request and signals the channel, both clients are told   *)
(* to start the countdown to the simultaneous connect.                     *)
(*                                                                         *)
(* The map is behind a mutex: one action is one critical section, or a     *)
(* step between two of them.  Clients send any message at any time and may *)
(* go away at any time.  Durations are in ticks, counted down or up.       *)
(*                                                                         *)
(* Definitions whose comment starts with "Variant" are plausible mistakes. *)
(* No action uses them; each takes the place of the definition after it    *)
(* when one wants to see that a property notices.                          *)
(***************************************************************************)
EXTENDS Integers

CONSTANTS
    Handlers,                   \* tasks, one per TCP connection; also its client's address
    Sessions,                   \* session ids of services
    None,                       \* Option::None
    ANNOUNCEMENT_DURATION,
    CONNECTION_REQUEST_TIMEOUT, \* how long a connector's task waits
    MARGIN                      \* a request can be taken until this long before that (500 ms)

ASSUME NoneAssumption == None \notin Handlers /\ None \notin Sessions
ASSUME DurationsAssumption ==
    /\ ANNOUNCEMENT_DURATION \in Nat
    /\ MARGIN \in Nat \ {0}
    /\ CONNECTION_REQUEST_TIMEOUT \in Nat /\ MARGIN < CONNECTION_REQUEST_TIMEOUT

VARIABLES
    clients,    \* session -> KnownClient; InnerState.clients
    pc,         \* task -> where it stands
    wanted,     \* task -> session of the connection request it is serving
    timer,      \* task -> time left of its wait
    channel,    \* task -> state of the oneshot channel of its last request
    taken,      \* task -> the task whose request it took and has not signalled yet
    signalledBy,\* history: task -> the task that signalled its channel
    goAhead     \* history: task -> partners with whom it was told to start the countdown

taskVars == <<wanted, timer, taken>>
historyVars == <<signalledBy, goAhead>>
vars == <<clients, pc, taskVars, channel, historyVars>>

----------------------------------------------------------------------------
(* Data *)

\* "closed": the receiver is gone; "dropped": the sender is gone without a signal.
ChannelStates == {"none", "open", "signalled", "dropped", "closed"}

IncomingConnection ==
    [left : 0 .. CONNECTION_REQUEST_TIMEOUT - MARGIN, \* time until the deadline tm
     tx : Handlers]                                   \* the task that waits, and its address

KnownClient ==
    [age : 0 .. ANNOUNCEMENT_DURATION + 1,            \* since the last announcement
     addr : Handlers,
     pending_connection : IncomingConnection \cup {None}]

Pending(s) == clients[s].pending_connection
HasPending(s) == s \in DOMAIN clients /\ Pending(s) # None

\* The senders that are dropped with the requests of the sessions ss.
DropSenders(ss) ==
    channel' = [h \in Handlers |->
        IF channel[h] = "open" /\ \E s \in ss : HasPending(s) /\ Pending(s).tx = h
        THEN "dropped" ELSE channel[h]]

----------------------------------------------------------------------------
(* Actions *)

\* No session is announced, and every task stands at label.
InitAt(label) ==
    /\ clients = [s \in {} |-> None]
    /\ pc = [h \in Handlers |-> label]
    /\ wanted = [h \in Handlers |-> None]
    /\ timer = [h \in Handlers |-> 0]
    /\ channel = [h \in Handlers |-> "none"]
    /\ taken = [h \in Handlers |-> None]
    /\ signalledBy = [h \in Handlers |-> None]
    /\ goAhead = [h \in Handlers |-> {}]

\* Every connection has just been accepted.
Init == InitAt("update")

Goto(h, label) == pc' = [pc EXCEPT ![h] = label]

\* Variant: an announcement somebody has asked for is kept.
PollUpdateKeepsAsked(h) ==
    LET old == {s \in DOMAIN clients :
                  clients[s].age > ANNOUNCEMENT_DURATION /\ Pending(s) = None} IN
    /\ pc[h] = "update"
    /\ clients' = [s \in DOMAIN clients \ old |-> clients[s]]
    /\ Goto(h, "recv")
    /\ UNCHANGED <<taskVars, channel, historyVars>>

\* poll_update at the top of the loop: drop the announcements that are too old.
PollUpdate(h) ==
    LET old == {s \in DOMAIN clients : clients[s].age > ANNOUNCEMENT_DURATION} IN
    /\ pc[h] = "update"
    /\ clients' = [s \in DOMAIN clients \ old |-> clients[s]]
    /\ DropSenders(old)
    /\ Goto(h, "recv")
    /\ UNCHANGED <<taskVars, historyVars>>

\* Nothing arrived within 100 ms, the error was not critical, or the client asked for
\* the list of clients: go round.
GoRound(h) ==
    /\ pc[h] = "recv"
    /\ Goto(h, "update")
    /\ UNCHANGED <<clients, taskVars, channel, historyVars>>

\* The connection is closed or failed, or the list of clients could not be sent (the
\* unwrap of that send panics).
Disconnect(h) ==
    /\ pc[h] = "recv"
    /\ Goto(h, "closed")
    /\ UNCHANGED <<clients, taskVars, channel, historyVars>>

\* Variant: an expired request is taken too.
AnyRequest(pending) == pending # None

\* The condition of take_if.
InTime(pending) == pending # None /\ pending.left > 0

\* announce_check: refresh or create the announcement; take the request if it is in time.
\* Without one the connection is dropped.
AnnounceAndCheck(h, s) ==
    LET pending == IF HasPending(s) THEN Pending(s) ELSE None
    IN
    /\ pc[h] = "recv"
    /\ clients' = [x \in DOMAIN clients \cup {s} |->
                     IF x = s THEN [age |-> 0, addr |-> h,
                                    pending_connection |-> IF InTime(pending) THEN None
                                                            ELSE pending]
                     ELSE clients[x]]
    /\ taken' = [taken EXCEPT ![h] = IF InTime(pending) THEN pending.tx ELSE None]
    /\ Goto(h, IF InTime(pending) THEN "taken" ELSE "closed")
    /\ UNCHANGED <<wanted, timer, channel, historyVars>>

\* The signal of the request in hand reaches its channel.
Signal(h) ==
    /\ pc[h] = "taken" /\ channel[taken[h]] = "open"
    /\ channel' = [channel EXCEPT ![taken[h]] = "signalled"]
    /\ signalledBy' = [signalledBy EXCEPT ![taken[h]] = h]
    /\ taken' = [taken EXCEPT ![h] = None]
    /\ UNCHANGED <<clients, wanted, timer>>

\* incoming_connection.tx.send(()) succeeds; the service gets the address and the
\* countdown.
Confirm(h) ==
    /\ Signal(h)
    /\ goAhead' = [goAhead EXCEPT ![h] = @ \cup {taken[h]}]
    /\ Goto(h, "update")

\* As above, but the service is gone: channel.send().unwrap() panics, the task ends.
ConfirmPanics(h) ==
    /\ Signal(h)
    /\ UNCHANGED goAhead
    /\ Goto(h, "closed")

\* tx.send(()) fails because the receiver is gone: the service is told nothing.
ConfirmTooLate(h) ==
    /\ pc[h] = "taken" /\ channel[taken[h]] = "closed"
    /\ taken' = [taken EXCEPT ![h] = None]
    /\ Goto(h, "update")
    /\ UNCHANGED <<clients, wanted, timer, channel, historyVars>>

\* Variant: the request can be taken until the very end of the wait.
InsertWithoutMargin(h, s) ==
    /\ pc[h] = "recv"
    /\ s \in DOMAIN clients
    /\ clients' = [clients EXCEPT ![s].pending_connection =
                     [left |-> CONNECTION_REQUEST_TIMEOUT, tx |-> h]]

\* insert_connection_request: a request that is already there is overwritten, and with
\* it the sender its task waits for.
Insert(h, s) ==
    /\ pc[h] = "recv"
    /\ s \in DOMAIN clients
    /\ clients' = [clients EXCEPT ![s].pending_connection =
                     [left |-> CONNECTION_REQUEST_TIMEOUT - MARGIN, tx |-> h]]

\* The connector is told the service's address; its task waits.
ConnectionRequest(h, s) ==
    /\ Insert(h, s)
    /\ channel' = [x \in Handlers |->
                     CASE x = h -> "open"
                       [] x # h /\ channel[x] = "open" /\ HasPending(s)
                            /\ Pending(s).tx = x -> "dropped"
                       [] OTHER -> channel[x]]
    /\ signalledBy' = [signalledBy EXCEPT ![h] = None]
    /\ wanted' = [wanted EXCEPT ![h] = s]
    /\ timer' = [timer EXCEPT ![h] = CONNECTION_REQUEST_TIMEOUT]
    /\ Goto(h, "waiting")
    /\ UNCHANGED <<taken, goAhead>>

\* As above, but the connector is gone: channel.send().unwrap() panics after the request
\* was inserted, and the receiver goes with the task.
ConnectionRequestPanics(h, s) ==
    /\ Insert(h, s)
    /\ channel' = [x \in Handlers |->
                     CASE x = h -> "closed"
                       [] x # h /\ channel[x] = "open" /\ HasPending(s)
                            /\ Pending(s).tx = x -> "dropped"
                       [] OTHER -> channel[x]]
    /\ signalledBy' = [signalledBy EXCEPT ![h] = None]
    /\ Goto(h, "closed")
    /\ UNCHANGED <<taskVars, goAhead>>

\* The session is not announced: the connection is dropped.
SessionNotFound(h, s) ==
    /\ pc[h] = "recv"
    /\ s \notin DOMAIN clients
    /\ Goto(h, "closed")
    /\ UNCHANGED <<clients, taskVars, channel, historyVars>>

\* The wait ends with the signal: the connector gets the countdown.
Confirmed(h) ==
    /\ pc[h] = "waiting" /\ channel[h] = "signalled"
    /\ goAhead' = [goAhead EXCEPT ![h] = @ \cup {signalledBy[h]}]
    /\ Goto(h, "removing")
    /\ UNCHANGED <<clients, taskVars, channel, signalledBy>>

\* As above, but the connector is gone, and the task ends without the removal.
ConfirmedPanics(h) ==
    /\ pc[h] = "waiting" /\ channel[h] = "signalled"
    /\ Goto(h, "closed")
    /\ UNCHANGED <<clients, taskVars, channel, historyVars>>

\* The wait ends because the request was overwritten or removed.
SenderDropped(h) ==
    /\ pc[h] = "waiting" /\ channel[h] = "dropped"
    /\ Goto(h, "removing")
    /\ UNCHANGED <<clients, taskVars, channel, historyVars>>

\* Variant: the deadline is looked at before the signal.
TimeOutFirst(h) ==
    /\ pc[h] = "waiting" /\ timer[h] = 0
    /\ channel' = [channel EXCEPT ![h] = "closed"]
    /\ Goto(h, "removing")
    /\ UNCHANGED <<clients, taskVars, historyVars>>

\* Variant: the channel is awaited without a timeout.
NoTimeOut(h) == FALSE

\* The wait ends by its timeout; the receiver goes with it.
TimeOut(h) ==
    /\ pc[h] = "waiting" /\ timer[h] = 0 /\ channel[h] = "open"
    /\ channel' = [channel EXCEPT ![h] = "closed"]
    /\ Goto(h, "removing")
    /\ UNCHANGED <<clients, taskVars, historyVars>>

\* Variant: the request stays.
KeepRequest(s) == clients

\* remove_connection_request on the map: whatever request the session has now.
WithoutRequest(s) ==
    IF s \in DOMAIN clients
    THEN [clients EXCEPT ![s].pending_connection = None] ELSE clients

\* The task clears the request of its session and goes round.
RemoveRequest(h) ==
    LET s == wanted[h] IN
    /\ pc[h] = "removing"
    /\ clients' = WithoutRequest(s)
    /\ DropSenders({s})
    /\ wanted' = [wanted EXCEPT ![h] = None]
    /\ timer' = [timer EXCEPT ![h] = 0]
    /\ Goto(h, "update")
    /\ UNCHANGED <<taken, historyVars>>

Minus1(n) == IF n > 0 THEN n - 1 ELSE 0

\* Announcements age, deadlines and waits come nearer.
TimePasses ==
    /\ clients' = [s \in DOMAIN clients |->
         [age |-> IF clients[s].age > ANNOUNCEMENT_DURATION
                  THEN clients[s].age ELSE clients[s].age + 1,
          addr |-> clients[s].addr,
          pending_connection |->
            IF Pending(s) = None THEN None
            ELSE [left |-> Minus1(Pending(s).left), tx |-> Pending(s).tx]]]
    /\ timer' = [h \in Handlers |-> Minus1(timer[h])]
    /\ UNCHANGED <<wanted, taken, channel, historyVars>>

\* Between taking a request and signalling it the task does not wait for anything, so
\* no time passes there.
Tick ==
    /\ \A h \in Handlers : pc[h] # "taken"
    /\ TimePasses
    /\ UNCHANGED pc

\* The steps a task takes on its own.
Run(h) ==
    \/ PollUpdate(h)
    \/ Confirm(h) \/ ConfirmPanics(h) \/ ConfirmTooLate(h)
    \/ Confirmed(h) \/ ConfirmedPanics(h) \/ SenderDropped(h) \/ TimeOut(h)
    \/ RemoveRequest(h)

\* The steps that depend on the client.
Receive(h) ==
    \/ GoRound(h) \/ Disconnect(h)
    \/ \E s \in Sessions :
         \/ AnnounceAndCheck(h, s)
         \/ ConnectionRequest(h, s) \/ ConnectionRequestPanics(h, s)
         \/ SessionNotFound(h, s)

Next ==
    \/ \E h \in Handlers : Run(h) \/ Receive(h)
    \/ Tick

Spec == Init /\ [][Next]_vars

\* The runtime runs every task that can run, and time passes.  Clients owe nothing.
FairSpec ==
    /\ Spec
    /\ \A h \in Handlers : WF_vars(Run(h))
    /\ WF_vars(Tick)

----------------------------------------------------------------------------
(* Properties *)

\* The map and the tasks hold values of their types; the deadline of a request is never
\* farther away than the whole wait of its task less the margin.
TypeOK ==
    /\ DOMAIN clients \subseteq Sessions
    /\ \A s \in DOMAIN clients : clients[s] \in KnownClient
    /\ pc \in [Handlers -> {"update", "recv", "taken", "waiting", "removing", "closed"}]
    /\ wanted \in [Handlers -> Sessions \cup {None}]
    /\ timer \in [Handlers -> 0 .. CONNECTION_REQUEST_TIMEOUT]
    /\ channel \in [Handlers -> ChannelStates]
    /\ taken \in [Handlers -> Handlers \cup {None}]
    /\ signalledBy \in [Handlers -> Handlers \cup {None}]
    /\ goAhead \in [Handlers -> SUBSET Handlers]

\* A stored request belongs to a task that still waits for exactly this session, is
\* about to clear it, or died and left it without a receiver: no request survives the
\* wait it stands for, and one that is left behind cannot be confirmed.
PendingHasConnector ==
    \A s \in DOMAIN clients : Pending(s) # None =>
        LET h == Pending(s).tx IN
        \/ pc[h] = "waiting" /\ channel[h] = "open" /\ wanted[h] = s
        \/ pc[h] = "removing" /\ wanted[h] = s
        \/ pc[h] = "closed" /\ channel[h] = "closed"

\* The deadline of a request lies before the end of its task's wait: a service never
\* takes, and so uses up, a request whose connector has already been given up on.  When
\* it takes one that a panicked task left behind, its signal goes nowhere and it is told
\* nothing.
TakenRequestIsLive ==
    \A h \in Handlers : pc[h] = "taken" =>
        \/ pc[taken[h]] = "waiting" /\ channel[taken[h]] = "open"
        \/ pc[taken[h]] = "closed" /\ channel[taken[h]] = "closed"

\* Countdowns come in pairs: a service that is told to start one has a connector that
\* was told the same, will be when its task runs, or was lost; and a connector that is
\* told to start one was confirmed by a task that told its service, or lost it.
CountdownIsPaired ==
    \A h, c \in Handlers : c \in goAhead[h] =>
        \/ h \in goAhead[c]
        \/ pc[c] = "closed"
        \/ pc[c] = "waiting" /\ channel[c] = "signalled" /\ signalledBy[c] = h

\* A connector's task never waits for ever.
WaitEnds ==
    \A h \in Handlers : pc[h] = "waiting" ~> pc[h] # "waiting"

\* "Remove previously inserted request if client still exist" (tcp_state.rs:97): the
\* clean-up after a wait removes the request of this wait, not one that another
\* connector inserted meanwhile.
RemovesOwnRequest ==
    [][\A h \in Handlers, s \in DOMAIN clients :
         RemoveRequest(h) /\ Pending(s) # None /\ Pending(s).tx # h
         => clients'[s].pending_connection = Pending(s)]_vars

=============================================================================
