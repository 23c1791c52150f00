# reprise-p2p: specifications, model checks and proofs

This directory holds TLA+ specifications of reprise-p2p (the crate in `src/src`, its
examples in `src/examples`), TLC configurations that check them on small instances, and
theorems about them checked by TLAPS. Paths below are relative to `src/src`.

Each definition stands for the source lines that `PROJECT.json` lists under `map`.

## 1. The system and its parts

Peers behind NATs find each other through a rendezvous server and then talk directly.
There are two unrelated protocols, one over UDP and one over TCP.

**UDP.** A client keeps a list of trusted public keys. Every few seconds it sends one
signed datagram with up to ten of them to the server. The server keeps a *slot* for each
(requester, target) pair. When a request arrives from a client for which a listed peer
already holds a slot, the server consumes the slot and sends both sides an
`InitiateConnectionRequest` with the other's address, key and session id. Each side then
punches a hole with the socket its request came from, and optionally runs a QUIC handshake
over that socket.

**TCP.** A service announces a session on a TCP connection to the server and at the same
moment collects a pending connection request, if there is one. A connector inserts such a
request. When the service's task has collected it, both clients are told to count down to
a simultaneous TCP connect.

| component | source | state | operations | interacts with |
|---|---|---|---|---|
| UDP rendezvous server | `server/udp.rs` | slots, session remembered per key | one handler per datagram, expiry | datagrams from clients |
| UDP hole punching | `udp/client.rs:227-323` | two flags, destination, deadlines | select loop, drain, settle | the other side, through NATs |
| UDP connection establisher | `udp/client.rs` | trusted list with a state per peer, rotation offset, session id, socket, time of the last request | `add/remove/set_trusted_remote*`, `on_connection_closed`, `poll_accept` | server, hole punch, application, interface tracker |
| QUIC establisher | `udp/client.rs:487-549`, `udp/quic.rs` | none of its own | `poll_accept` with the handshake | UDP establisher, quinn |
| TCP rendezvous server | `server.rs`, `server/tcp_state.rs` | announcements with their pending request, one task per connection, oneshot channels | announce and collect, insert, remove, expire | its clients |
| UDP message formats | `udp/messages.rs` | none | encode, parse, sign | UDP server and clients |
| TCP service and connector | `tcp/service.rs`, `tcp/connector.rs` | current session, sockets | poll, connect | TCP server, each other |
| Reusable TCP socket | `tcp/reusable_tcp_socket.rs` | local port | connect, rotate | TCP clients |
| Interface tracker | `p2p_interface_tracker.rs` | last selected name | select the best interface | UDP establisher |
| Shutdown, start of the servers | `lib.rs`, `server.rs:18-54` | a flag, a watch channel | trigger, wait | both servers |
| Configuration, examples | `config.rs`, `../examples` | none | read a file; show the order of calls | |

What makes them hard, and what makes them correct:

- *UDP server.* Requests are lost, repeated, delayed and reordered; a client changes its
  socket and session between requests; slots and signatures expire on different clocks.
  Correct: two clients never wait for each other; what it says about a client is that
  client's latest request; both sides of a match asked for each other.
- *Hole punching.* Two independent loops with deadlines over a lossy network, where the
  address that works may differ from the one that was reported. Correct: it always
  returns; a success means that the other side heard this one; with a healthy network and
  enough overlap both succeed, quickly, and the socket returned is clean.
- *UDP establisher.* `poll_accept` waits in the middle while time passes and answers may be
  stale; failure backoff, rotation and "connected" all exclude peers from discovery.
  Correct: no second connection to a peer that is connected, no peer excluded for ever,
  nobody starved by the rotation.
- *QUIC establisher.* Every error path has to give the peer back.
- *TCP server.* Concurrent tasks around one mutex, a oneshot channel that can be signalled,
  dropped or closed, timeouts on both ends, panics of single tasks. Correct: countdowns
  come in pairs; no request outlives its wait; nobody waits for ever.

The concrete hazards, each at its line, are in `PROJECT.json` under `hazards`, with the
properties that cover them.

## 2. Modules and plan

| module | models | built on | status |
|---|---|---|---|
| `UdpServer` | UDP rendezvous server | | checked, safety and refinement proved (`UdpServerProofs`) |
| `Matchmaker` | what that server promises | | implemented by `UdpServer`, checked and proved |
| `HolePunch` | hole punching by any number of sockets | | checked, safety proved (`HolePunchProofs`) |
| `UdpClient` | the establisher; server and punch are its environment | | checked and proved about as part of `QuicClient` |
| `QuicClient` | both establishers: the plain one, and the one with the QUIC handshake | `UdpClient` | checked, safety proved (`QuicClientProofs`) |
| `Messages` | UDP datagrams: encoding, signing, the parsers' checks | | checked in `UdpSystem`, proved about (`UdpSystemProofs`, `RecoveryProofs`) |
| `UdpSystem` | two clients, the server, the network between them | `UdpServer`, `Messages` | checked; the server's side (`UdpSystemProofs`), the clients' side and the recovery (`RecoveryProofs`) proved |
| `TcpServer` | TCP server: map, tasks, channels | | checked, safety proved (`TcpServerProofs`) |
| `TcpClients` | TCP service and connector with the server | `TcpServer` | checked, safety proved (`TcpClientsProofs`) |
| `Sockets` | interface selection, the establisher's socket, the TCP sockets' port | | checked, safety proved (`SocketsProofs`) |

`MC*` modules give the constants values; a `.cfg` is one run.

Two abstractions connect the modules. `UdpClient` knows of the server only that it answers
requests of the current socket, and of the punch only that it returns; `UdpSystem` has the
real server, and of the punch what `HolePunch` shows: both sides succeed when they punch at
each other within the same window, unless acknowledgements are lost, and then one may.
`TcpServer` lets clients send anything at any time; `TcpClients` replaces them by the code of
the two clients, with the same server actions.

Left for later: a third client in `UdpSystem`, with hole punches in detail, that is, what
happens to a client that is sent to a socket that already punches with another one (see
"Behaviour worth knowing"). Both modules together are beyond a run of minutes with three clients.

## 3. How the models correspond to the code

**UdpServer.** `requests` and `last_session_ids` are the two hash maps, as functions on the
keys present. The server is one task, so one call of its handler is one action:
`ReportLost` (the session is the remembered one), `MatchRequest` (a slot was found and
consumed) and `PlaceRequest` (none was). All three start with `Cleanup`, as the handler
does. Rejected and unparseable datagrams change nothing and are no action. The parser
rejects empty lists, hence `PeerListsAssumption`. `Datagrams` is everything a well-formed
datagram can carry; the network may deliver any of it at any time, which includes
repeated and reordered ones. `sent` holds the datagrams of the last handler call;
`latest` is a history variable that only properties read.

**Matchmaker.** Two sets: who waits for whom, and whom the last request introduced.
`Promise` in `UdpServer` maps the slots to the first (`Wants`) and the two notifications of a
match to the second (`Introductions`; the listener is the side that waited). A handled
request maps to `Ask`, `Introduce` or, when the session is reported as lost, `Forget`; expiry
shows as wants that disappear in the same step.

**HolePunch.** One record of flags per side; `phase` says in which of the three loops of
`hole_punch` a side is. A tick is one punch interval (20 ms), and windows are counted in
ticks. The deadline is looked at only between two waits of the select, so the wait that
runs into the deadline ends with one more event: `Awaiting` and `Awaited` model that.
`NatMap` gives the source address a packet gets, so a symmetric NAT is a side whose
reported address differs from the one its peer sees. `Prompt` selects one of two networks.

**UdpClient.** All methods take `&mut self`, so calls exclude each other and `pc` tells where
`poll_accept` waits; every segment between two waits is one action. `AcceptInitiate` is the
segment that swaps socket and session, `PunchFails` and `PunchSucceeds` are what follows the
punch. An instant is modelled by the time left (`wait`) or passed (`last_request`).
`RemotesList` and `NextOffset` are `new_available_remotes_list`. `asked` is the environment's
knowledge: the server answers only requests that came from the current socket. `placed`,
`skipped`, `conns` and `revoked` are history.

**QuicClient.** The variable `layer` says which establisher is in use; both have the same
`poll_accept` up to the punched socket. With `layer = "quic"` the step that hands out the
connection is replaced by the endpoint and the handshake, by role: the listener of the match
connects, the other side accepts. Every error path is `GiveBack`.

**Messages.** A datagram is a sequence of fields, and every check of the parsers is a
conjunct on it: version, types, length, signature, number of keys. A signature is a record
of its key and what it is over. Field widths are left out.

**UdpSystem.** Two clients that trust each other; the establisher of each is reduced to one
peer, so that list and rotation disappear and the socket, session, `last_accepted_session_id`,
backoff and request interval stay. `Serve` is the server's own `Handle` on what `ParseRequest`
reads. Within a tick everything arrives and every task runs; what does not is a *disturbance*
(`Delay`, `Repeat`, `Garble`, `OnlyOneSucceeds`, `Restart`, `ServerRestarts`, `Break`), of which
there are `MaxFaults`; `Garble` changes a field, cuts off the end or appends to it. `Claims` collects
what everybody and every datagram says about who is behind an address and a session. `calm` counts the ticks since the last one. Time is relative: instead of
`now` growing, the times in slots and signatures move into the past. A new session or socket is
one that nobody remembers: session ids are assumed to be distinct (they are 32 random bits; a
restarted client that draws its former one is taken for a duplicate once more).

**TcpServer.** One task per connection; `pc` stands between critical sections of the mutex
and awaits. The oneshot channel of a request has a state of its own: a sender that is
dropped with its request, a receiver that is dropped with its wait. `send().unwrap()` on a
closed connection ends the task: the actions named `...Panics`. Time does not pass between
taking a request and signalling its channel: there is no await in between.

**TcpClients.** `phase` says where a client's call (`poll_accept`, `scan_connections`,
`connect_client`) waits, `link` on which connection to the server. `Serve` runs the actions of
`TcpServer` and moves the messages they read and write; a client that left makes the
`...Panics` actions possible. After the countdown both sides attempt to connect until
their window ends and the last attempt is over; two attempts at each other at the same time
meet (TCP simultaneous open). Callers may give a call up. A copy of a client's socket leaves
from its one port, so a client is an address.

**Sockets.** `BestOfFirst` is the loop of `current_interface`, as a function of the number of
turns. The establisher reads the
interface, and binds a socket, in separate steps, in between which `InterfacesChange` may
happen; the same for the copies of the TCP socket. On Windows sockets bind to the interface's
address, elsewhere to its device, and either can fail at any time, because the interface is gone
or for any other reason. `new_udp_socket` goes on with a socket on no interface (`BoundTo`), and
its callers record the name all the same; a copy of a TCP socket panics. `missed` records the
two changes of interface that no later check of `poll_accept` can notice (`InterfacesChange`),
`moved` that another interface was selected while `connect_client` relied on the first one.

**Variants.** Definitions whose comment starts with "Variant" are plausible mistakes (a
dropped guard, a missing cap, a swapped field). No action uses them. Put in place of the
definition after them, each makes a property fail that holds of the code; `mutants` in
`PROJECT.json` lists the pairs.

## 4. The runs

| run | question | result |
|---|---|---|
| `udp_server` | types, no mutual slots, slots of the latest request only, matches mutual and fresh, `Matchmaker` implemented | holds |
| `punch_unreliable` | on any network: does a success mean this side was heard, and does a started punch return? | holds |
| `punch_prompt` | healthy network: do both succeed within two shared intervals, with drained sockets? | holds |
| `punch_one_sided` | does a returned connection have a peer that did not give up? | no (finding 2) |
| `clients` | both establishers: one connection per peer, nobody left disabled, nobody skipped for long, every trusted peer without a connection asked for again | holds |
| `quic_client_hang` | does `poll_accept` return? | no (finding 3) |
| `tcp_server` | requests have a connector behind them, countdowns are paired, every wait ends | holds |
| `tcp_server_overwrite` | does the clean-up remove its own request only? | no (finding 4) |
| `tcp_clients` | is a connector still there when its request is taken, do messages arrive in the order they are awaited in, do matched sides meet, does every call return? | holds |
| `sockets` | is the best interface selected in any order, is a UDP socket on another interface than the recorded one replaced, do attempts leave from the address the server saw? | holds |
| `udp_system` | are the clients connected again a bounded time after any two disturbances (late or lost notifications excepted), is nobody mistaken about addresses and sessions, is no garbled request acted on, does the server keep the promise of `Matchmaker` when it restarts? | holds |
| `udp_system_lost` | and after a lost notification, at all? | no (finding 1) |

### Bounds

- `MCUdpServer`: three clients, four origins (client A on two sockets with two sessions; B
  and C reuse A's session ids), two lists with which every pair can ask for each other and
  A and C or B can list themselves; slots live 2 s, signatures 1 s, the clock runs to 2, so
  that slots expire. Signing ages 1 and 2 are the last accepted and the first rejected one.
- `MCHolePunch`: two sides and one symmetric NAT; windows of 3 (5 in `MCHolePunchPrompt`), 2
  and 2 ticks instead of 25, 10 and 10. A handshake over a healthy network needs two ticks,
  so a window of 5 leaves room for every offset between the starts, also for a start after
  the other's deadline.
- `MCClients`: two peers and room for one in a request, so that the rotation matters and every
  mistake in its offset starves one of them; two remote sessions, so that one can be repeated
  and one be new; a backoff that grows and is capped. `MaxConns` = 2 allows the second
  connection that must not happen.
- `MCTcpServer`: three connections, each of which can be service and connector by turns, and
  two sessions: enough for a second connector that overwrites a request, a first that
  cleans up, and a service that collects in between. A request can be taken for 2 ticks and
  is waited for during 3, announcements live 1, so that all three expire in every order.
- `MCTcpClients`: the code's durations in ticks of 750 ms, rounded up: announcements 4, waits
  of a connector's task 7 with a margin of 1, receive timeout 4, countdown, window 1 each, an
  attempt 2. One service and one connector; the connector has two connections, so that its next
  call overlaps what the server still does for the one before. One call may be given up. A
  client begins one call per tick, and messages arrive within it.
- `MCUdpSystem`: the order of the durations is kept (requests every 3, slots 4, signatures 6,
  punch and detection 1), not their ratio. Two disturbances of eight kinds, the only bound on
  what goes wrong; every starting offset of the clients is reached by starting later. Six ticks
  are the longest recovery; with five the property fails. The bound of `SystemRecovers` is 12 with
  these durations: it is for any number of disturbances, after which a client may back off for
  5 s, and two let it back off for 2 at most. `MCUdpSystemLost` allows a single
  delayed notification and nothing else.
- `MCSockets`: two wired interfaces, a wireless one with a greater address, a virtual one with
  the greatest; all selections of them in every order; two ports, the least with which a
  rotation can be seen.

`CHECK_DEADLOCK FALSE` is set for `HolePunch` only, which stops when all punches have returned.

### Fairness

- `HolePunch`: time passes, and a task whose deadline has come runs (the tokio timer).
  Nothing is assumed of the network or of the other side.
- `QuicClient`: the application keeps calling `poll_accept`, the wait for the server ends by
  its timeout, the punch ends by its deadline, an outgoing handshake ends (quinn's idle timeout),
  time passes. Nothing is assumed of the server, nor of an incoming QUIC connection, which is
  up to the peer.
- `TcpServer`: the runtime runs every task that can run, time passes. Clients owe nothing.
- `TcpClients`: in addition calls that are running continue. Callers owe nothing.
- `UdpSystem` (`SysFairSpec`, for `Reconnects` only): clients keep polling, datagrams arrive, time
  passes. `RecoversInTime` is a bound and needs no fairness.

### Findings

1. When one notification of a match is lost, the clients can miss each other for ever. The client
   that got its notification punches alone and draws a new session; the other one repeats its
   session. `server/udp.rs:139-143` remembers the *other* client's session id under the sender's
   key and compares it with the sender's own later, so the repeated session is not recognised
   and the `LostConnectionRequest`, "meaning we should regenerate new session id"
   (`udp/messages.rs:230`), never comes. The next match introduces the first client to a session it
   has accepted before, which it ignores as a duplicate (`udp/client.rs:374`), while the second one
   punches alone: they have changed roles. The same follows when one of them changes its socket
   because of its interface between its request and the match: the notification goes to the old
   one.
2. A side stops acknowledging punches once it has seen one punch and one acknowledgement
   (`udp/client.rs:250,292`). If its earlier acknowledgement was lost, or the other side's
   deadline is near, one side returns a connection and the other an error. This happens
   even on a healthy network when the windows overlap too little; `OverlapSucceeds` says how
   much is enough.
3. The accepting side of the QUIC handshake waits without a deadline (`udp/quic.rs:47`).
4. `remove_connection_request` clears whatever request the session has
   (`server/tcp_state.rs:101`), also one that a second connector inserted over the first.

### Behaviour worth knowing

- Signed messages are accepted for 30 s (`server/udp.rs:12,74`); `udp/messages.rs:32` says 10 s.
- `rotate_port` returns a new socket, which `connect_client` drops (`tcp/connector.rs:172-173`): the
  parent keeps its port.
- `new_udp_socket` only warns when the socket cannot be bound to its device (`udp/client.rs:104-106`;
  on Windows it falls back to any address), and `new` and `poll_accept` record the interface all the
  same. Such a socket is on no interface until the selection changes. A copy of a TCP socket
  that cannot be bound, for whatever reason, is a panic (`ClonePanics`).
- The interface is read more than once per poll, and twice by `new`. One that disappears while the
  next socket is created and comes back before the next check leaves the establisher on another
  interface than the one it has recorded, until the recorded one disappears again; so does a
  change between the two times that `new` reads it.
- The QUIC establisher gives a peer back on every error, but not when its caller drops the future of
  `poll_accept` during the handshake (`udp/client.rs:523-526`): the peer then stays
  `ConnectionActive` without a connection until the application calls `on_connection_closed`.
- `on_connection_closed` puts a peer back on the trusted list if it had been removed meanwhile
  (`udp/client.rs:183`); the doc comment of `remove_trusted_remote` is that of
  `on_connection_closed`.
- The slots that an earlier request left for other peers stay when one of them is matched
  (`server/udp.rs:145` removes those of the later requester only), so a third client may be told
  the address of a socket that is in use, and `hole_punch` then follows the punches of whoever
  came last (`udp/client.rs:265-268`).
- A connector's receive timeout (3 s) is shorter than the time its request can be taken (4.5 s).
  That a service is not sent to a connector that has left rests on announcements expiring after
  3 s (`TakenConnectorIsThere`): `poll_update` drops an announcement that was not renewed, and the
  request with it.

## 5. What is proved

Proved with TLAPS, for every value of the constants that satisfies the named assumptions:

`UdpServerProofs` (assumes `OriginsAssumption`, `PeerListsAssumption`, `AgesAssumption`,
`TimeoutsAssumption`):

- `TypeCorrect`, `MutualRequestsAreMatched`, `EarlierRequestsAreInvalidated`,
  `MatchesAreMutualAndFresh`: the four invariants of `udp_server`. `TypeOK` includes that no client
  is listed without a slot, which every handler has to see to.
- The inductive invariant `IInv` is the type invariant, `NoMutualSlots`,
  `SlotsFromLatestRequest`, and that the latest request of every client was signed within
  `SIGNED_MSG_VALID_S` of its arrival. `SlotsFromLatestRequest` is what carries the rest: it ties
  a slot to the request it came from, so that what a match reports can be read off
  `latest`. `NoMutualSlots` is inductive because a request is stored only after the loop has
  found no listed peer that waits for its sender.
- The handlers remove slots or replace those of one client. `SubMap` says "some slots
  removed", and the lemmas about it carry each conjunct over `Cleanup` and `TakeSlot` once, so
  that the case of an action is short. `MatchIsMutualAndFresh` speaks about the
  notifications just sent and is proved of every step from `IInv` of the state before.
- `ServerKeepsPromise`: `UdpServer` implements `Matchmaker`. Initial states map to initial states;
  under `IInv` each action maps to the step of `Matchmaker` named in section 3, and a tick to a
  stutter or `Forget`. Of the invariant this needs only that a slot says whose it is
  (`SlotsAreOwn`), so the lemmas about the handler serve the composed system too.

`HolePunchProofs` (assumes `NetworkAssumption`, `WindowsAssumption`). For any number of sockets,
any address translation, both networks:

- `TypeCorrect` (with it `WithinWindows`: no phase waits longer than its own window), and
  `SuccessIsNeverImaginary`: whoever succeeds was heard by another side.
- The property is not inductive: a success rests on an acknowledgement that was received,
  that on the acknowledgements under way, those on the punch their sender received. `IInv`
  therefore says where packets come from (`PacketsHaveSenders`), that nobody punches itself
  (`SendsAway`), that a received acknowledgement means that another side was heard
  (`AckMeansHeard`), and that a success has both flags.

For at most two sockets on a prompt network (`PromptPair`, a hypothesis of the theorems; a
match introduces two sockets), windows of any length and any offset between the starts:

- `SocketsAreReturnedClean`, with a drain phase of at least a tick. `AcksComeBack` says that a side
  whose punch was received has the acknowledgement or will read it. So when time first passes
  after a success, and everything under way has been read, the other side has stopped as well,
  and the socket stays quiet from then on (`DrainedIsQuiet`).
- `TwoSharedIntervalsAreEnough` and `ThirdIntervalNeverComes`, when one side's reported address is the
  one it is heard from (`ReachesPeer`; the other one may sit behind a symmetric NAT, and the
  configuration of `punch_prompt` is of this kind). A first punch sent early waits in the socket of
  a side that starts late (`FirstPunchArrives`). After one interval together the one side lacks
  only a punch, the other only an acknowledgement, and it has the address to punch at
  (`SecondInterval`); the next interval brings both.

`TcpServerProofs` (assumes `NoneAssumption`, `DurationsAssumption`), for any number of connections
and sessions and all durations with a margin of at least one tick:

- `TypeCorrect`, `RequestsHaveConnectors`, `TakenRequestsAreLive`, `CountdownsArePaired`: the four
  invariants of `tcp_server`. `TypeOK` includes that a request can be taken no longer than its task
  waits less the margin; a request left behind by a task that died is without a receiver.
- `IInv` adds to them what a request's way through the server keeps true: a request somebody
  waits for is in the map or in the hands of one task, not both (`RequestIsInOnePlace`), its
  task's wait outlasts its deadline by the margin (`TakenBeforeTimeOut`, from which a request in
  hand cannot time out), a signal comes from a task that has told its service or is gone
  (`SignalIsFromPartner`), and an open channel is waited on (`OpenIsAwaited`).

`QuicClientProofs` (assumes `PeersAssumption`, `SessionsAssumption`, `BoundsAssumption`), for any
finite number of peers, any limits and both establishers:

- `TypeCorrect`, `NoSecondConnection`, `NobodyIsLeftDisabled`, and below `RotationIsFair`: the
  invariants of `clients`.
- `IInv` adds that a connection the establisher was not made to forget shows in the peer's state
  (`ConnectionIsKnown`), and what is known of the peer of a match while `poll_accept` waits for
  its punch or handshake (`MatchIsOfTrustedPeer`): the application cannot change the list
  meanwhile, so the checks made when the match was accepted still hold when it ends.
- That the next offset is a peer at all rests on a non-empty set of numbers having a least one,
  derived from the well-foundedness of `<` (`HasMinimum`).
- `RotationIsFair`: nobody is skipped for long. `FewAhead` is the invariant: the peers that a peer
  was skipped for, `BATCH` at a time, and the peers that are ahead of it in the order of the next
  list are together fewer than all peers. A request that leaves a peer out moves the offset
  behind `BATCH` of those ahead of it; a peer that is in the request, or cannot be asked for,
  starts again at zero. The rest is counting: a list is the order restricted to a set, and
  positions in it are cardinalities.

`UdpSystemProofs` (no assumption on the constants beyond those of the modules):

- `RequestsAreRead`: a request that is encoded and signed parses, and to what was meant, for any
  list of peers within the limit.
- `RequestsStayAuthentic` and `GarbledIsNeverServed`: what arrives at the server is a client's request
  as it was signed, or does not parse, whether it was altered, cut off or lengthened. A signature leaves one value to every field behind it;
  the two fields before it have only one value that parses; and what is shorter has lost a part
  of what was signed (`SignatureFixesAll`, `GarbledDoesNotParse`).
- `SystemKeepsPromise` and `NobodyWaitsForEachOther`: between clients and with restarts the server
  implements `Matchmaker` and never has two clients wait for each other. What it serves is
  authentic, hence from a client; its restart is a `Forget`. No bound on time or on the number
  of disturbances enters.

`RecoveryProofs` (assumes `SystemAssumption`: two clients that have keys, positive request interval
and punch time, and addresses and session ids that do not run out, which is an infinite set `Ids`
where the code has fresh ports and 32 random bits). For any durations, any number of disturbances
and any moment at which they strike:

- `NotificationsAreRead`: a notification that is encoded parses, and to what was meant.
- `SystemTypeCorrect`: the type invariant of server, clients and datagrams (`SysTypeOK`). It is
  inductive only together with what is kept about the datagrams under way (`DatagramsAreOrdinary`)
  and the slots (`SlotsAreOrdinary`), and because `NewSession` and `NewSocket` always find something unused: what is remembered is finite.
- `AddressesAreNotMixedUp`: `ClaimsAgree`, that is, slots, the server's memory, datagrams and clients
  agree about whose an address or a session is, with any restart, delay or repetition. The
  invariant behind it, `Agree`, says it place by place (`ClaimsAreKnown`). A socket from which a
  request was sent goes on being the client's until it punches (`UsedIsPolling`).
- `BothFollow`, unless notifications are late or lost (`NoLoss`; they may be repeated): a client never ignores a notification that
  tells it the current socket of the other one (`Accepted`: the session in it is not the last one
  accepted), and such notifications come in pairs (`Mutual`). The run `udp_system_lost` shows that the
  hypothesis is needed (finding 1).
- `SystemRecovers`: `RecoversInTime`, when in addition a slot outlives the request interval
  (`RecoveryAssumption`; 10 s and 3 s in the code) and `RecoveryTime` is at least `Bound`. A `Turn` is the
  longest time between two requests of a client: the request interval, or a punch and the
  longest backoff. `Bound` is the greater of a turn and the detection of a dead connection, and
  another turn. With the code's durations, 3 s between requests, a punch of 1 s and a backoff of
  at most 5 s, a turn is 6 s, and the clients are connected 12 s after the last disturbance if the
  application notices dead connections within 6 s.
- The argument: after the last disturbance the clients pass through the stages of `Recovering`.
  While they are `Apart`, every client asks again within a turn (`AsksInTime`); a slot or a datagram
  from before the disturbance can send a client astray at most once (`MisledOnce`), which must be
  within the first turn (`MisledInTime`); and the later of two current requests finds the slot of
  the earlier one (`RequestsAreCurrent`). Then both are told (`BothTold`), one has accepted, and
  both punch at each other (`CanMeet`). Time passes only while they are apart, and each of the waits
  that `TimeLeft` covers gets shorter by as much.

`TcpClientsProofs` (assumes `NoneAssumption`, `DurationsAssumption`, `OwnerAssumption`,
`SessionOfAssumption`, `WindowsAssumption`, and the next two), for any number of services, connectors
and connections:

- `ExpiryAssumption`: an announcement is kept no longer than a connector waits (both 3 s).
  `DifferentSessionsAssumption`: no two services have the same session, which they draw as random
  `u64` (`../examples/service.rs:17`). With equal ones a connector could be told the address of
  the one service and be matched with the other.
- `AnswersComeInOrder`, `ConnectorIsThere`, `PartnersMeet`: the safety properties of `tcp_clients`;
  `SysTypeCorrect`, its type invariant; and `ServerStaysCorrect`: the server's own invariants, although connections are opened again and again.
- `SysIInv`: a task handles the message of a call within the tick of the call (`HandledAtOnce`), from
  which the connector of a request that can be taken waits at least as long as the
  announcement the request hangs on is kept (`RequesterIsThere`). That sum of a wait and an age is
  what makes the receive timeout, shorter than the life of a request, harmless.
- `MeetInv`: partners are matched once and with each other (`MatchedOnce`), they know each other's
  address (`ClientsKnow`), and the time until they begin to connect is the same (`PairsAreInStep`).
- `MailInv`: the messages under way to a call are the rest of what it still awaits, from its phase
  and the stage of its task (`MailFits`), which gives `AnswersAreExpected`.

`SocketsProofs` (assumes `InterfacesAssumption`), for any interfaces, lists of them and ports:

- `SelectsTheBest`: what the loop selects is the best of the listing. `BestOfFirst` is a function over
  the turns; that it exists, and that every turn keeps the best so far, is shown by taking
  the least turn for which it fails (`HasMinimum`).
- `AstraySocketsAreReplaced` and `SeenAddress`: what a socket is bound to, by the place the program is
  at (`NewFollows`, `CopyFollows`, `ServerConFollows`), and that a socket on an interface that is not
  the recorded one goes with a selection that is not either, unless no check can notice
  (`AstrayIsNoticed`).

Only model-checked: the liveness properties (`PunchReturns`, `EveryPeerIsAskedFor`, `WaitEnds`,
`CallsReturn`), because liveness under fairness is out of reach of the prover. That the clients of
`UdpSystem` are connected again is proved as a bound on time, `RecoversInTime`, not as the leads-to
`Reconnects`, which the runs use for finding 1 only.

## 6. What is not modelled

- Cryptography, TLS and certificates: a signature fits one key and one message, an outcome of
  the QUIC handshake is nondeterministic. Byte formats and field widths: a datagram is a
  sequence of fields.
- The inside of the shutdown signal, a flag and a tokio watch channel with one writer: the
  servers look at it between two messages, which `ServerRestarts` in `UdpSystem` covers.
- A caller that drops the future of `UdpQuicConnectionEstablisher::poll_accept` before it returns. The
  examples always wait for it.
- Configuration, examples and the check of the system time: I/O without effect on the
  protocol.
- The listener that `ReusableTcpSocket::new` opens for a moment to provoke a firewall prompt.
- A failing `send_to` is a lost packet. IPv6 datagrams are ignored by the code and absent.
- Scheduling below the resolution of a tick, and a burst of missed punch intervals.
