-------------------------- MODULE TcpServerProofs --------------------------
(***************************************************************************)
(* Proofs about the TCP rendezvous server, for any number of connections   *)
(* and sessions and all durations.                                         *)
(*                                                                         *)
(* A connection request goes from its connector's task into the map, and   *)
(* from there, at most once, into the hands of a service's task.  The      *)
(* proofs follow it: where it is, the task behind it is known to stand.    *)
(***************************************************************************)
EXTENDS TcpServer, TLAPS

----------------------------------------------------------------------------
(* The inductive invariant *)

\* A channel is open only while its task waits on it.
OpenIsAwaited ==
    \A h \in Handlers : channel[h] = "open" => pc[h] = "waiting"

\* A request somebody still waits for is in one place: in the map or in the hands of one
\* task.
RequestIsInOnePlace ==
    \A h \in Handlers : (pc[h] = "taken" /\ channel[taken[h]] = "open") =>
        /\ \A s \in DOMAIN clients : Pending(s) # None => Pending(s).tx # taken[h]
        /\ \A g \in Handlers : pc[g] = "taken" /\ taken[g] = taken[h] => g = h

\* A request can be taken only as long as its task waits at least the margin more; one
\* in hand was taken in time.
TakenBeforeTimeOut ==
    /\ \A s \in DOMAIN clients :
         (Pending(s) # None /\ Pending(s).left > 0) =>
            \/ pc[Pending(s).tx] = "waiting" /\ Pending(s).left + MARGIN <= timer[Pending(s).tx]
            \/ pc[Pending(s).tx] = "closed"
    /\ \A h \in Handlers :
         pc[h] = "taken" /\ pc[taken[h]] = "waiting" => timer[taken[h]] > 0

\* The task that signalled a channel has told its service, or is gone.
SignalIsFromPartner ==
    \A c \in Handlers : channel[c] = "signalled" /\ pc[c] = "waiting" =>
        /\ signalledBy[c] \in Handlers
        /\ c \in goAhead[signalledBy[c]] \/ pc[signalledBy[c]] = "closed"

\* A task that has taken a request knows whose.
TakenIsKnown == \A h \in Handlers : pc[h] = "taken" => taken[h] \in Handlers

IInv ==
    /\ TypeOK
    /\ TakenIsKnown
    /\ OpenIsAwaited
    /\ PendingHasConnector
    /\ RequestIsInOnePlace
    /\ TakenBeforeTimeOut
    /\ TakenRequestIsLive
    /\ SignalIsFromPartner
    /\ CountdownIsPaired

----------------------------------------------------------------------------
(* The shared map, and messages of clients *)

\* A request that goes with its announcement is dropped in front of its task.
LEMMA PollUpdateKeeps ==
    ASSUME IInv, NEW h \in Handlers, PollUpdate(h)
    PROVE  IInv'
<1>1. TypeOK'
  BY DEF IInv, TypeOK, PollUpdate, ChannelStates, taskVars, historyVars, Goto, DropSenders
<1>2. TakenIsKnown'
  BY DEF IInv, TakenIsKnown, PollUpdate, taskVars, Goto
<1>3. OpenIsAwaited'
  BY DEF IInv, OpenIsAwaited, PollUpdate, Goto, DropSenders
<1>4. PendingHasConnector'
  BY DEF IInv, TypeOK, PendingHasConnector, PollUpdate, IncomingConnection, KnownClient,
         Pending, taskVars, Goto, DropSenders, HasPending
<1>5. RequestIsInOnePlace'
  BY DEF IInv, TakenIsKnown, RequestIsInOnePlace, PollUpdate, Pending, taskVars, Goto,
         DropSenders
<1>6. TakenBeforeTimeOut'
  BY DEF IInv, TakenBeforeTimeOut, PollUpdate, Pending, taskVars, Goto
<1>7. TakenRequestIsLive'
  BY DEF IInv, TakenIsKnown, RequestIsInOnePlace, TakenRequestIsLive, PollUpdate,
         taskVars, Goto, DropSenders, HasPending
<1>8. SignalIsFromPartner'
  BY DEF IInv, SignalIsFromPartner, PollUpdate, historyVars, Goto, DropSenders
<1>9. CountdownIsPaired'
  BY DEF IInv, CountdownIsPaired, PollUpdate, historyVars, Goto, DropSenders
<1>10. QED
  BY <1>1, <1>2, <1>3, <1>4, <1>5, <1>6, <1>7, <1>8, <1>9 DEF IInv

\* Steps that only move their task, which does not wait on an open channel.
LEMMA GoOnKeeps ==
    ASSUME IInv, NEW h \in Handlers,
           \/ GoRound(h) \/ Disconnect(h) \/ ConfirmedPanics(h) \/ SenderDropped(h)
           \/ \E s \in Sessions : SessionNotFound(h, s)
    PROVE  IInv'
<1>1. UNCHANGED <<clients, wanted, timer, taken, channel, signalledBy, goAhead>>
  BY DEF GoRound, Disconnect, ConfirmedPanics, SenderDropped, SessionNotFound, taskVars,
         historyVars
<1>2. PICK label \in {"update", "closed", "removing"} : pc' = [pc EXCEPT ![h] = label]
  BY DEF GoRound, Disconnect, ConfirmedPanics, SenderDropped, SessionNotFound, Goto
<1>3. \/ pc[h] = "recv"
      \/ pc[h] = "waiting" /\ channel[h] = "dropped"
      \/ pc[h] = "waiting" /\ channel[h] = "signalled" /\ pc'[h] = "closed"
  <2>1. CASE GoRound(h) \/ Disconnect(h) \/ \E s \in Sessions : SessionNotFound(h, s)
    BY <2>1 DEF GoRound, Disconnect, SessionNotFound
  <2>2. CASE SenderDropped(h)
    BY <2>2 DEF SenderDropped
  <2>3. CASE ConfirmedPanics(h)
    BY <2>3 DEF IInv, TypeOK, ConfirmedPanics, Goto
  <2>4. QED
    BY <2>1, <2>2, <2>3
<1>4. TypeOK'
  BY <1>1, <1>2 DEF IInv, TypeOK
<1>5. TakenIsKnown'
  BY <1>1, <1>2 DEF IInv, TakenIsKnown
<1>6. OpenIsAwaited'
  BY <1>1, <1>2, <1>3 DEF IInv, OpenIsAwaited
<1>7. PendingHasConnector'
  BY <1>1, <1>2, <1>3 DEF IInv, PendingHasConnector, Pending
<1>8. RequestIsInOnePlace'
  BY <1>1, <1>2 DEF IInv, RequestIsInOnePlace, Pending
<1>9. TakenBeforeTimeOut'
  BY <1>1, <1>2, <1>3 DEF IInv, PendingHasConnector, TakenBeforeTimeOut, Pending
<1>10. TakenRequestIsLive'
  BY <1>1, <1>2, <1>3 DEF IInv, TakenIsKnown, TakenRequestIsLive
<1>11. SignalIsFromPartner'
  BY <1>1, <1>2, <1>3 DEF IInv, SignalIsFromPartner
<1>12. CountdownIsPaired'
  BY <1>1, <1>2, <1>3 DEF IInv, CountdownIsPaired
<1>13. QED
  BY <1>4, <1>5, <1>6, <1>7, <1>8, <1>9, <1>10, <1>11, <1>12 DEF IInv

\* Nothing is stored but requests that were stored before; the one in time leaves the map
\* for the task's hands.
LEMMA AnnounceAndCheckKeeps ==
    ASSUME IInv, NEW h \in Handlers, NEW s \in Sessions, AnnounceAndCheck(h, s)
    PROVE  IInv'
<1> DEFINE pending == IF HasPending(s) THEN Pending(s) ELSE None
<1>1. /\ pc[h] = "recv"
      /\ clients' = [x \in DOMAIN clients \cup {s} |->
                       IF x = s THEN [age |-> 0, addr |-> h,
                                      pending_connection |-> IF InTime(pending) THEN None
                                                              ELSE pending]
                       ELSE clients[x]]
      /\ taken' = [taken EXCEPT ![h] = IF InTime(pending) THEN pending.tx ELSE None]
      /\ pc' = [pc EXCEPT ![h] = IF InTime(pending) THEN "taken" ELSE "closed"]
      /\ UNCHANGED <<wanted, timer, channel, signalledBy, goAhead>>
  BY DEF AnnounceAndCheck, Goto, historyVars
<1>2. /\ pending \in IncomingConnection \cup {None}
      /\ pending # None => s \in DOMAIN clients /\ pending = Pending(s)
  BY DEF IInv, TypeOK, KnownClient, HasPending, Pending
<1>3. InTime(pending) =>
        /\ s \in DOMAIN clients /\ Pending(s) = pending
        /\ Pending(s) # None /\ Pending(s).left > 0 /\ Pending(s).tx \in Handlers
  BY <1>2, NoneAssumption DEF InTime, IncomingConnection
<1>4. /\ DOMAIN clients' = DOMAIN clients \cup {s}
      /\ clients'[s] = [age |-> 0, addr |-> h,
                        pending_connection |-> IF InTime(pending) THEN None ELSE pending]
      /\ \A x \in DOMAIN clients \ {s} : clients'[x] = clients[x]
  BY <1>1
<1> HIDE DEF pending
<1>5. ASSUME NEW x \in DOMAIN clients', Pending(x)' # None
      PROVE  /\ x \in DOMAIN clients /\ Pending(x) # None /\ Pending(x)' = Pending(x)
             /\ x = s => ~InTime(pending)
  BY <1>2, <1>4, <1>5 DEF Pending
<1>6. TypeOK'
  <2>1. \A x \in DOMAIN clients' : clients'[x] \in KnownClient
    BY <1>2, <1>4, DurationsAssumption DEF IInv, TypeOK, KnownClient
  <2>2. taken' \in [Handlers -> Handlers \cup {None}]
    BY <1>1, <1>3 DEF IInv, TypeOK
  <2>3. QED
    BY <1>1, <1>4, <2>1, <2>2 DEF IInv, TypeOK
<1>7. TakenIsKnown'
  BY <1>1, <1>3 DEF IInv, TypeOK, TakenIsKnown
<1>8. OpenIsAwaited'
  BY <1>1 DEF IInv, TypeOK, OpenIsAwaited
<1>9. PendingHasConnector'
  BY <1>1, <1>5 DEF IInv, TypeOK, PendingHasConnector
<1>10. \A g \in Handlers \ {h} : pc'[g] = pc[g] /\ taken'[g] = taken[g]
  BY <1>1 DEF IInv, TypeOK
<1>11. pc'[h] = "taken" => InTime(pending) /\ taken'[h] = Pending(s).tx
  BY <1>1, <1>3 DEF IInv, TypeOK
<1>12. \A g \in Handlers : (pc[g] = "taken" /\ channel[taken[g]] = "open") =>
         /\ g # h
         /\ \A x \in DOMAIN clients : Pending(x) # None => Pending(x).tx # taken[g]
  BY <1>1 DEF IInv, RequestIsInOnePlace
<1>13. RequestIsInOnePlace'
  <2> SUFFICES ASSUME NEW g \in Handlers, pc'[g] = "taken", channel[taken'[g]] = "open"
               PROVE  /\ \A x \in DOMAIN clients' : Pending(x)' # None => Pending(x)'.tx # taken'[g]
                      /\ \A f \in Handlers : pc'[f] = "taken" /\ taken'[f] = taken'[g] => f = g
    BY <1>1 DEF RequestIsInOnePlace
  <2>1. CASE g # h
    <3>1. pc[g] = "taken" /\ channel[taken[g]] = "open" /\ taken'[g] = taken[g]
      BY <1>10, <2>1
    <3>2. pc'[h] = "taken" => taken'[h] # taken'[g]
      BY <1>3, <1>11, <1>12, <3>1
    <3>3. QED
      BY <1>5, <1>10, <1>12, <2>1, <3>1, <3>2 DEF IInv, RequestIsInOnePlace
  <2>2. CASE g = h
    <3>1. /\ InTime(pending) /\ s \in DOMAIN clients /\ Pending(s) # None
          /\ taken'[h] = Pending(s).tx /\ Pending(s).tx \in Handlers
      BY <1>3, <1>11, <2>2
    <3>2. pc[Pending(s).tx] = "waiting" /\ wanted[Pending(s).tx] = s
      BY <1>1, <2>2, <3>1 DEF IInv, OpenIsAwaited, PendingHasConnector
    <3>3. \A x \in DOMAIN clients' : Pending(x)' # None => Pending(x)'.tx # taken'[h]
      BY <1>5, <3>1, <3>2 DEF IInv, PendingHasConnector
    <3>4. \A f \in Handlers \ {h} : pc'[f] = "taken" => taken'[f] # taken'[h]
      BY <1>10, <1>12, <2>2, <3>1
    <3>5. QED
      BY <2>2, <3>3, <3>4
  <2>3. QED
    BY <2>1, <2>2
<1>14. TakenBeforeTimeOut'
  <2>1. ASSUME NEW x \in DOMAIN clients', Pending(x)' # None, Pending(x)'.left > 0
        PROVE  \/ pc'[Pending(x)'.tx] = "waiting"
                  /\ Pending(x)'.left + MARGIN <= timer'[Pending(x)'.tx]
               \/ pc'[Pending(x)'.tx] = "closed"
    BY <1>1, <1>5, <1>10, <2>1 DEF IInv, TypeOK, TakenBeforeTimeOut
  <2>2. ASSUME NEW g \in Handlers, pc'[g] = "taken", pc'[taken'[g]] = "waiting"
        PROVE  timer'[taken'[g]] > 0
    <3>1. taken'[g] \in Handlers /\ pc[taken'[g]] = "waiting"
      BY <1>1, <1>7, <1>10, <2>2 DEF IInv, TypeOK, TakenIsKnown
    <3>2. CASE g = h
      <4>1. /\ s \in DOMAIN clients /\ Pending(s) # None /\ Pending(s).left > 0
            /\ taken'[h] = Pending(s).tx /\ Pending(s) \in IncomingConnection
        BY <1>2, <1>3, <1>11, <2>2, <3>2
      <4>2. Pending(s).left + MARGIN <= timer[Pending(s).tx]
        BY <3>1, <3>2, <4>1 DEF IInv, TakenBeforeTimeOut
      <4>3. QED
        BY <1>1, <3>1, <3>2, <4>1, <4>2, DurationsAssumption
           DEF IInv, TypeOK, IncomingConnection
    <3>3. CASE g # h
      BY <1>1, <1>10, <2>2, <3>1, <3>3 DEF IInv, TakenBeforeTimeOut
    <3>4. QED
      BY <3>2, <3>3
  <2>3. QED
    BY <2>1, <2>2 DEF TakenBeforeTimeOut
<1>15. TakenRequestIsLive'
  <2> SUFFICES ASSUME NEW g \in Handlers, pc'[g] = "taken"
               PROVE  \/ pc'[taken'[g]] = "waiting" /\ channel[taken'[g]] = "open"
                      \/ pc'[taken'[g]] = "closed" /\ channel[taken'[g]] = "closed"
    BY <1>1 DEF TakenRequestIsLive
  <2>1. CASE g # h
    BY <1>1, <1>10, <2>1 DEF IInv, TypeOK, TakenIsKnown, TakenRequestIsLive
  <2>2. CASE g = h
    <3>1. /\ s \in DOMAIN clients /\ Pending(s) # None /\ Pending(s).left > 0
          /\ taken'[h] = Pending(s).tx /\ Pending(s).tx \in Handlers
      BY <1>3, <1>11, <2>2
    <3>2. \/ pc[Pending(s).tx] = "waiting" /\ channel[Pending(s).tx] = "open"
          \/ pc[Pending(s).tx] = "closed" /\ channel[Pending(s).tx] = "closed"
      BY <3>1 DEF IInv, TakenBeforeTimeOut, PendingHasConnector
    <3>3. QED
      BY <1>1, <1>10, <2>2, <3>1, <3>2
  <2>3. QED
    BY <2>1, <2>2
<1>16. SignalIsFromPartner'
  BY <1>1 DEF IInv, TypeOK, SignalIsFromPartner
<1>17. CountdownIsPaired'
  BY <1>1 DEF IInv, TypeOK, CountdownIsPaired
<1>18. QED
  BY <1>6, <1>7, <1>8, <1>9, <1>13, <1>14, <1>15, <1>16, <1>17 DEF IInv

\* A task that reads a message has no request anywhere, so the new one is its only one.
LEMMA ConnectionRequestKeeps ==
    ASSUME IInv, NEW h \in Handlers, NEW s \in Sessions, ConnectionRequest(h, s)
    PROVE  IInv'
<1>1. TypeOK'
  BY DurationsAssumption DEF IInv, TypeOK, ConnectionRequest, IncomingConnection,
                             KnownClient, ChannelStates, Goto, Insert
<1>2. TakenIsKnown'
  BY DEF IInv, TakenIsKnown, ConnectionRequest, Goto
<1>3. OpenIsAwaited'
  BY DEF IInv, TypeOK, OpenIsAwaited, ConnectionRequest, Goto
<1>4. PendingHasConnector'
  BY DEF IInv, TypeOK, PendingHasConnector, ConnectionRequest, IncomingConnection,
         KnownClient, Pending, Goto, Insert, HasPending
<1>5. RequestIsInOnePlace'
  BY DEF IInv, TakenIsKnown, RequestIsInOnePlace, TakenRequestIsLive, ConnectionRequest,
         Pending, Goto, Insert
<1>6. TakenBeforeTimeOut'
  BY DurationsAssumption DEF IInv, TypeOK, TakenBeforeTimeOut, ConnectionRequest, Pending,
                             Goto, Insert
<1>7. TakenRequestIsLive'
  <2> SUFFICES ASSUME NEW g \in Handlers, pc'[g] = "taken"
               PROVE  \/ pc'[taken[g]] = "waiting" /\ channel'[taken[g]] = "open"
                      \/ pc'[taken[g]] = "closed" /\ channel'[taken[g]] = "closed"
    BY DEF TakenRequestIsLive, ConnectionRequest
  <2>1. pc[g] = "taken" /\ taken[g] \in Handlers /\ pc[h] = "recv"
    BY DEF IInv, TypeOK, TakenIsKnown, ConnectionRequest, Insert, Goto
  <2>2. taken[g] # h /\ pc'[taken[g]] = pc[taken[g]]
    BY <2>1 DEF IInv, TypeOK, TakenRequestIsLive, ConnectionRequest, Goto
  <2>3. CASE channel[taken[g]] = "closed"
    BY <2>1, <2>2, <2>3 DEF IInv, TakenRequestIsLive, ConnectionRequest
  <2>4. CASE channel[taken[g]] = "open"
    <3>1. ~ (HasPending(s) /\ Pending(s).tx = taken[g])
      BY <2>1, <2>4 DEF IInv, RequestIsInOnePlace, HasPending
    <3>2. QED
      BY <2>1, <2>2, <2>4, <3>1 DEF IInv, TakenRequestIsLive, ConnectionRequest
  <2>5. QED
    BY <2>1, <2>3, <2>4 DEF IInv, TakenRequestIsLive
<1>8. SignalIsFromPartner'
  BY DEF IInv, SignalIsFromPartner, ConnectionRequest, Goto, Insert
<1>9. CountdownIsPaired'
  BY DEF IInv, CountdownIsPaired, ConnectionRequest, Goto, Insert
<1>10. QED
  BY <1>1, <1>2, <1>3, <1>4, <1>5, <1>6, <1>7, <1>8, <1>9 DEF IInv

\* The request is left to nobody: its task is closed.
LEMMA ConnectionRequestPanicsKeeps ==
    ASSUME IInv, NEW h \in Handlers, NEW s \in Sessions, ConnectionRequestPanics(h, s)
    PROVE  IInv'
<1>1. TypeOK'
  BY DurationsAssumption DEF IInv, TypeOK, ConnectionRequestPanics, IncomingConnection,
                             KnownClient, ChannelStates, taskVars, Goto, Insert
<1>2. TakenIsKnown'
  BY DEF IInv, TakenIsKnown, ConnectionRequestPanics, taskVars, Goto
<1>3. OpenIsAwaited'
  BY DEF IInv, OpenIsAwaited, ConnectionRequestPanics, Goto
<1>4. PendingHasConnector'
  BY DEF IInv, TypeOK, PendingHasConnector, ConnectionRequestPanics, IncomingConnection,
         KnownClient, Pending, taskVars, Goto, Insert, HasPending
<1>5. RequestIsInOnePlace'
  BY DEF IInv, TakenIsKnown, RequestIsInOnePlace, ConnectionRequestPanics, Pending,
         taskVars, Goto, Insert
<1>6. TakenBeforeTimeOut'
  BY DEF IInv, TypeOK, TakenBeforeTimeOut, ConnectionRequestPanics, Pending, taskVars,
         Goto, Insert
<1>7. TakenRequestIsLive'
  BY DEF IInv, TakenIsKnown, RequestIsInOnePlace, TakenRequestIsLive,
         ConnectionRequestPanics, taskVars, Goto, Insert, HasPending
<1>8. SignalIsFromPartner'
  BY DEF IInv, SignalIsFromPartner, ConnectionRequestPanics, Goto
<1>9. CountdownIsPaired'
  BY DEF IInv, CountdownIsPaired, ConnectionRequestPanics, Goto, Insert
<1>10. QED
  BY <1>1, <1>2, <1>3, <1>4, <1>5, <1>6, <1>7, <1>8, <1>9 DEF IInv

----------------------------------------------------------------------------
(* The request in hand *)

\* The signalled task waits, since its channel was open; its request is in no other place.
LEMMA ConfirmKeeps ==
    ASSUME IInv, NEW h \in Handlers, Confirm(h)
    PROVE  IInv'
<1>1. TypeOK'
  BY DEF IInv, TypeOK, TakenIsKnown, Confirm, ChannelStates, Goto, Signal
<1>2. TakenIsKnown'
  BY DEF IInv, TypeOK, TakenIsKnown, Confirm, Goto, Signal
<1>3. OpenIsAwaited'
  BY DEF IInv, OpenIsAwaited, Confirm, Goto, Signal
<1>4. PendingHasConnector'
  BY DEF IInv, PendingHasConnector, RequestIsInOnePlace, Confirm, Pending, Goto, Signal
<1>5. RequestIsInOnePlace'
  BY DEF IInv, TypeOK, RequestIsInOnePlace, Confirm, Pending, Goto, Signal
<1>6. TakenBeforeTimeOut'
  BY DEF IInv, TypeOK, TakenBeforeTimeOut, Confirm, Pending, Goto, Signal
<1>7. TakenRequestIsLive'
  BY DEF IInv, TypeOK, RequestIsInOnePlace, TakenRequestIsLive, Confirm, Goto, Signal
<1>8. SignalIsFromPartner'
  BY DEF IInv, TypeOK, SignalIsFromPartner, Confirm, Goto, Signal
<1>9. CountdownIsPaired'
  BY DEF IInv, TypeOK, OpenIsAwaited, CountdownIsPaired, Confirm, Goto, Signal
<1>10. QED
  BY <1>1, <1>2, <1>3, <1>4, <1>5, <1>6, <1>7, <1>8, <1>9 DEF IInv

\* The same, and the task that has signalled is gone.
LEMMA ConfirmPanicsKeeps ==
    ASSUME IInv, NEW h \in Handlers, ConfirmPanics(h)
    PROVE  IInv'
<1>1. TypeOK'
  BY DEF IInv, TypeOK, TakenIsKnown, ConfirmPanics, ChannelStates, Goto, Signal
<1>2. TakenIsKnown'
  BY DEF IInv, TypeOK, TakenIsKnown, ConfirmPanics, Goto, Signal
<1>3. OpenIsAwaited'
  BY DEF IInv, OpenIsAwaited, ConfirmPanics, Goto, Signal
<1>4. PendingHasConnector'
  BY DEF IInv, PendingHasConnector, RequestIsInOnePlace, ConfirmPanics, Pending, Goto,
         Signal
<1>5. RequestIsInOnePlace'
  BY DEF IInv, TypeOK, RequestIsInOnePlace, ConfirmPanics, Pending, Goto, Signal
<1>6. TakenBeforeTimeOut'
  BY DEF IInv, TypeOK, TakenBeforeTimeOut, ConfirmPanics, Pending, Goto, Signal
<1>7. TakenRequestIsLive'
  BY DEF IInv, TypeOK, RequestIsInOnePlace, TakenRequestIsLive, ConfirmPanics, Goto,
         Signal
<1>8. SignalIsFromPartner'
  BY DEF IInv, TypeOK, SignalIsFromPartner, ConfirmPanics, Goto, Signal
<1>9. CountdownIsPaired'
  BY DEF IInv, CountdownIsPaired, ConfirmPanics, Goto, Signal
<1>10. QED
  BY <1>1, <1>2, <1>3, <1>4, <1>5, <1>6, <1>7, <1>8, <1>9 DEF IInv

\* Nobody is told anything.
LEMMA ConfirmTooLateKeeps ==
    ASSUME IInv, NEW h \in Handlers, ConfirmTooLate(h)
    PROVE  IInv'
<1>1. TypeOK'
  BY DEF IInv, TypeOK, ConfirmTooLate, historyVars, Goto
<1>2. TakenIsKnown'
  BY DEF IInv, TypeOK, TakenIsKnown, ConfirmTooLate, Goto
<1>3. OpenIsAwaited'
  BY DEF IInv, OpenIsAwaited, ConfirmTooLate, Goto
<1>4. PendingHasConnector'
  BY DEF IInv, PendingHasConnector, ConfirmTooLate, Pending, Goto
<1>5. RequestIsInOnePlace'
  BY DEF IInv, TypeOK, RequestIsInOnePlace, ConfirmTooLate, Pending, Goto
<1>6. TakenBeforeTimeOut'
  BY DEF IInv, TypeOK, TakenBeforeTimeOut, ConfirmTooLate, Pending, Goto
<1>7. TakenRequestIsLive'
  BY DEF IInv, TypeOK, TakenRequestIsLive, ConfirmTooLate, Goto
<1>8. SignalIsFromPartner'
  BY DEF IInv, SignalIsFromPartner, ConfirmTooLate, historyVars, Goto
<1>9. CountdownIsPaired'
  BY DEF IInv, CountdownIsPaired, ConfirmTooLate, historyVars, Goto
<1>10. QED
  BY <1>1, <1>2, <1>3, <1>4, <1>5, <1>6, <1>7, <1>8, <1>9 DEF IInv

----------------------------------------------------------------------------
(* The end of a wait *)

\* The partner was told, or is gone.
LEMMA ConfirmedKeeps ==
    ASSUME IInv, NEW h \in Handlers, Confirmed(h)
    PROVE  IInv'
<1>1. TypeOK'
  BY DEF IInv, TypeOK, SignalIsFromPartner, Confirmed, taskVars, Goto
<1>2. TakenIsKnown'
  BY DEF IInv, TakenIsKnown, Confirmed, taskVars, Goto
<1>3. OpenIsAwaited'
  BY DEF IInv, OpenIsAwaited, Confirmed, Goto
<1>4. PendingHasConnector'
  BY DEF IInv, PendingHasConnector, Confirmed, Pending, taskVars, Goto
<1>5. RequestIsInOnePlace'
  BY DEF IInv, RequestIsInOnePlace, Confirmed, Pending, taskVars, Goto
<1>6. TakenBeforeTimeOut'
  BY DEF IInv, PendingHasConnector, TakenBeforeTimeOut, Confirmed, Pending, taskVars, Goto
<1>7. TakenRequestIsLive'
  BY DEF IInv, TakenRequestIsLive, Confirmed, taskVars, Goto
<1>8. SignalIsFromPartner'
  BY DEF IInv, SignalIsFromPartner, Confirmed, Goto
<1>9. CountdownIsPaired'
  BY DEF IInv, TypeOK, SignalIsFromPartner, CountdownIsPaired, Confirmed, Goto
<1>10. QED
  BY <1>1, <1>2, <1>3, <1>4, <1>5, <1>6, <1>7, <1>8, <1>9 DEF IInv

\* A wait that is over is not that of a request in hand, and a request in the map is too
\* late to be taken.
LEMMA TimeOutKeeps ==
    ASSUME IInv, NEW h \in Handlers, TimeOut(h)
    PROVE  IInv'
<1>1. TypeOK'
  BY DEF IInv, TypeOK, TimeOut, ChannelStates, taskVars, historyVars, Goto
<1>2. TakenIsKnown'
  BY DEF IInv, TakenIsKnown, TimeOut, taskVars, Goto
<1>3. OpenIsAwaited'
  BY DEF IInv, TypeOK, OpenIsAwaited, TimeOut, Goto
<1>4. PendingHasConnector'
  BY DEF IInv, TypeOK, PendingHasConnector, TimeOut, Pending, taskVars, Goto
<1>5. RequestIsInOnePlace'
  BY DEF IInv, RequestIsInOnePlace, TimeOut, Pending, taskVars, Goto
<1>6. TakenBeforeTimeOut'
  BY DurationsAssumption DEF IInv, TypeOK, TakenBeforeTimeOut, TimeOut,
                             IncomingConnection, KnownClient, Pending, taskVars, Goto
<1>7. TakenRequestIsLive'
  BY DEF IInv, TakenBeforeTimeOut, TakenRequestIsLive, TimeOut, taskVars, Goto
<1>8. SignalIsFromPartner'
  BY DEF IInv, SignalIsFromPartner, TimeOut, historyVars, Goto
<1>9. CountdownIsPaired'
  BY DEF IInv, CountdownIsPaired, TimeOut, historyVars, Goto
<1>10. QED
  BY <1>1, <1>2, <1>3, <1>4, <1>5, <1>6, <1>7, <1>8, <1>9 DEF IInv

\* Whatever request is removed, its task sees its sender dropped.
LEMMA RemoveRequestKeeps ==
    ASSUME IInv, NEW h \in Handlers, RemoveRequest(h)
    PROVE  IInv'
<1>1. TypeOK'
  BY DurationsAssumption DEF IInv, TypeOK, RemoveRequest, KnownClient, ChannelStates,
                             historyVars, Goto, DropSenders, WithoutRequest
<1>2. TakenIsKnown'
  BY DEF IInv, TakenIsKnown, RemoveRequest, Goto
<1>3. OpenIsAwaited'
  BY DEF IInv, OpenIsAwaited, RemoveRequest, Goto, DropSenders
<1>4. PendingHasConnector'
  BY DEF IInv, TypeOK, PendingHasConnector, RemoveRequest, IncomingConnection,
         KnownClient, Pending, Goto, DropSenders, HasPending, WithoutRequest
<1>5. RequestIsInOnePlace'
  BY DEF IInv, TakenIsKnown, RequestIsInOnePlace, RemoveRequest, Pending, Goto,
         DropSenders, WithoutRequest
<1>6. TakenBeforeTimeOut'
  BY DEF IInv, TakenBeforeTimeOut, RemoveRequest, Pending, Goto, WithoutRequest
<1>7. TakenRequestIsLive'
  BY DEF IInv, TakenIsKnown, RequestIsInOnePlace, TakenRequestIsLive, RemoveRequest, Goto,
         DropSenders, HasPending
<1>8. SignalIsFromPartner'
  BY DEF IInv, SignalIsFromPartner, RemoveRequest, historyVars, Goto, DropSenders
<1>9. CountdownIsPaired'
  BY DEF IInv, CountdownIsPaired, RemoveRequest, historyVars, Goto, DropSenders
<1>10. QED
  BY <1>1, <1>2, <1>3, <1>4, <1>5, <1>6, <1>7, <1>8, <1>9 DEF IInv

\* Deadlines come nearer together with the ends of the waits.
LEMMA TickKeeps ==
    ASSUME IInv, Tick
    PROVE  IInv'
<1>1. TypeOK'
  BY DurationsAssumption DEF IInv, TypeOK, Tick, IncomingConnection, KnownClient, Pending,
                             historyVars, TimePasses, Minus1
<1>2. TakenIsKnown'
  BY DEF IInv, TakenIsKnown, Tick
<1>3. OpenIsAwaited'
  BY DEF IInv, OpenIsAwaited, Tick, TimePasses
<1>4. PendingHasConnector'
  BY DEF IInv, PendingHasConnector, Tick, Pending, TimePasses
<1>5. RequestIsInOnePlace'
  BY DEF IInv, RequestIsInOnePlace, Tick
<1>6. TakenBeforeTimeOut'
  BY DurationsAssumption DEF IInv, TypeOK, TakenBeforeTimeOut, Tick, IncomingConnection,
                             KnownClient, Pending, TimePasses, Minus1
<1>7. TakenRequestIsLive'
  BY DEF IInv, TakenRequestIsLive, Tick
<1>8. SignalIsFromPartner'
  BY DEF IInv, SignalIsFromPartner, Tick, historyVars, TimePasses
<1>9. CountdownIsPaired'
  BY DEF IInv, CountdownIsPaired, Tick, historyVars, TimePasses
<1>10. QED
  BY <1>1, <1>2, <1>3, <1>4, <1>5, <1>6, <1>7, <1>8, <1>9 DEF IInv

----------------------------------------------------------------------------
(* The specification *)

LEMMA InitIInv == Init => IInv
<1> SUFFICES ASSUME Init
             PROVE  IInv
  OBVIOUS
<1>1. TypeOK
  BY DurationsAssumption DEF Init, InitAt, TypeOK, ChannelStates
<1>2. TakenIsKnown /\ OpenIsAwaited /\ PendingHasConnector /\ RequestIsInOnePlace
  BY DEF Init, InitAt, TakenIsKnown, OpenIsAwaited, PendingHasConnector, RequestIsInOnePlace
<1>3. TakenBeforeTimeOut /\ TakenRequestIsLive /\ SignalIsFromPartner /\ CountdownIsPaired
  BY DEF Init, InitAt, TakenBeforeTimeOut, TakenRequestIsLive, SignalIsFromPartner,
         CountdownIsPaired
<1>4. QED
  BY <1>1, <1>2, <1>3 DEF IInv

LEMMA NextIInv == IInv /\ [Next]_vars => IInv'
<1> SUFFICES ASSUME IInv, [Next]_vars
             PROVE  IInv'
  OBVIOUS
<1>1. ASSUME NEW h \in Handlers, Run(h)
      PROVE  IInv'
  BY <1>1, PollUpdateKeeps, ConfirmKeeps, ConfirmPanicsKeeps, ConfirmTooLateKeeps, ConfirmedKeeps,
     GoOnKeeps, TimeOutKeeps, RemoveRequestKeeps DEF Run
<1>2. ASSUME NEW h \in Handlers, Receive(h)
      PROVE  IInv'
  BY <1>2, GoOnKeeps, AnnounceAndCheckKeeps, ConnectionRequestKeeps,
     ConnectionRequestPanicsKeeps DEF Receive
<1>3. CASE Tick
  BY <1>3, TickKeeps
<1>4. CASE UNCHANGED vars
  BY <1>4 DEF vars, taskVars, historyVars, IInv, TypeOK, TakenIsKnown, OpenIsAwaited,
              PendingHasConnector, RequestIsInOnePlace, TakenBeforeTimeOut,
              TakenRequestIsLive, SignalIsFromPartner, CountdownIsPaired, Pending
<1>5. QED
  BY <1>1, <1>2, <1>3, <1>4 DEF Next

LEMMA SpecIInv == Spec => []IInv
  BY InitIInv, NextIInv, PTL DEF Spec

\* The map and the tasks always hold values of their types, and no deadline of a request
\* is farther away than the wait of its task less the margin.
THEOREM TypeCorrect == Spec => []TypeOK
  BY SpecIInv, PTL DEF IInv

\* A request in the map belongs to a task that waits for it, is about to clear it, or
\* died, however many connectors overwrite each other's requests.
THEOREM RequestsHaveConnectors == Spec => []PendingHasConnector
  BY SpecIInv, PTL DEF IInv

\* A service's task never takes a request whose connector's wait is over.
THEOREM TakenRequestsAreLive == Spec => []TakenRequestIsLive
  BY SpecIInv, PTL DEF IInv

\* Nobody starts the countdown alone: the other side was told too, will be, or is gone.
THEOREM CountdownsArePaired == Spec => []CountdownIsPaired
  BY SpecIInv, PTL DEF IInv

=============================================================================
