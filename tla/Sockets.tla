------------------------------ MODULE Sockets ------------------------------
(***************************************************************************)
(* Which network interface and which port a client's sockets use           *)
(* (src/src/p2p_interface_tracker.rs, the socket handling of               *)
(* src/src/udp/client.rs, and src/src/tcp/reusable_tcp_socket.rs as the    *)
(* connector of src/src/tcp/connector.rs uses it).                         *)
(*                                                                         *)
(* Interfaces come and go at any moment, so between the listing that a     *)
(* socket's interface is selected from and the system call that binds the  *)
(* socket the next listing may select another one.  A program uses either  *)
(* the UDP establisher or the TCP connector.  On Windows a socket is bound *)
(* to the address of the interface, elsewhere to its device.  Either may   *)
(* fail at any time: the interface is gone, the privilege is missing, the  *)
(* address is in use.  The establisher then goes on with a socket bound to *)
(* no interface, the connector panics.                                     *)
(*                                                                         *)
(* Definitions whose comment starts with "Variant" are plausible mistakes. *)
(* No action uses them; each takes the place of the definition after it    *)
(* when one wants to see that a property notices.                          *)
(***************************************************************************)
EXTENDS Integers, Sequences

CONSTANTS
    Interfaces,  \* records [name, class, ip]; the class is what the name's prefix says
    Listings,    \* the lists of interfaces the operating system may report
    None,        \* no interface, and a socket bound to none
    Ports

ASSUME InterfacesAssumption ==
    /\ \A i \in Interfaces :
         i.class \in {"virtual", "wired", "wireless", "unknown"} /\ i.ip \in Int
    /\ \A i, j \in Interfaces : i.name = j.name \/ i.ip = j.ip => i = j
    /\ Listings \subseteq Seq(Interfaces)

VARIABLES
    listing,        \* the interfaces there are, in the order they are listed
    pc,             \* where the program is; "panicked" is final
    selected,       \* the interface read for the socket about to be bound
    socket,         \* UDP: interface the establisher's socket is bound to
    cur_interface,  \* UDP: interface the establisher believes its socket is bound to
    parent_port,    \* TCP: port of the parent socket
    server_con,     \* TCP: port and interface of the connection to the server
    attempt,        \* TCP: port and interface of the last attempt to reach the peer
    missed,         \* UDP history: no check can tell that the socket is astray
    moved           \* TCP history: the selection changed since the call began

udpVars == <<socket, cur_interface>>
tcpVars == <<parent_port, server_con, attempt>>
histories == <<missed, moved>>
vars == <<listing, pc, selected, udpVars, tcpVars, histories>>

NoEnd == [port |-> 0, interface |-> None]

----------------------------------------------------------------------------
(* P2pInterfaceTracker *)

Priority(i) == CASE i.class = "wired" -> 3 [] i.class = "wireless" -> 2 [] OTHER -> 1

\* Variant: the address decides between interfaces of any priority.
BetterByAddress(best, i) == IF i.class # "virtual" /\ i.ip > best.ip THEN i ELSE best

\* What one turn of the loop keeps: virtual interfaces are skipped, a higher priority
\* wins, and among equals the greater address.
Better(best, i) ==
    IF i.class = "virtual" THEN best
    ELSE IF \/ Priority(i) > best.priority
            \/ Priority(i) = best.priority /\ i.ip > best.ip
         THEN [name |-> i.name, priority |-> Priority(i), ip |-> i.ip]
         ELSE best

\* Before the first turn: no interface.
NoBest == [name |-> None, priority |-> 0, ip |-> 0]

\* The loop: the best of the first n interfaces, for each n.
BestOfFirst(list) ==
    LET best[n \in 0 .. Len(list)] ==
          IF n = 0 THEN NoBest ELSE Better(best[n - 1], list[n])
    IN  best

SelectedIn(list) == BestOfFirst(list)[Len(list)].name

current_interface == SelectedIn(listing)

\* new_udp_socket: what the new socket may be bound to.  An error of bind is followed by
\* a bind to no interface, one of bind_device by a warning.
BoundTo(name) == {None, name}

\* Where the establisher's socket is, or is about to be; none is anywhere.
Seat == IF pc = "replace" THEN selected ELSE socket
Astray == Seat \notin {None, cur_interface}

----------------------------------------------------------------------------
(* The environment *)

\* Interfaces come, go, or are listed in another order.  No check tells that a socket is
\* astray when the selection comes back to the recorded interface before one is made, or
\* changes while new has read it once of its two times.
InterfacesChange ==
    /\ listing' \in Listings \ {listing}
    /\ missed' = \/ missed
                 \/ /\ pc \in {"new_bind", "new_name"}
                    /\ SelectedIn(listing') # current_interface
                 \/ /\ pc \in {"polling", "replace", "idle"}
                    /\ Astray /\ SelectedIn(listing') = cur_interface
    /\ moved' = \/ moved
                \/ /\ pc \in {"clone_server", "countdown", "clone_peer"}
                   /\ SelectedIn(listing') # current_interface
    /\ UNCHANGED <<pc, selected, udpVars, tcpVars>>

----------------------------------------------------------------------------
(* UdpConnectionEstablisher *)

\* Read the interface for a new socket.
Select(next) == selected' = current_interface /\ pc' = next

\* new: the interface is read once for the socket and once more for its name.
NewBinds ==
    /\ pc = "new_bind"
    /\ socket' \in BoundTo(selected)
    /\ pc' = "new_name"
    /\ UNCHANGED <<listing, selected, cur_interface, tcpVars, histories>>

NewNames ==
    /\ pc = "new_name"
    /\ cur_interface' = current_interface
    /\ pc' = "polling"
    /\ UNCHANGED <<listing, selected, socket, tcpVars, histories>>

\* poll_accept: a change since the interface was last recorded replaces the socket.
PollChanged ==
    /\ pc = "idle" /\ current_interface # cur_interface
    /\ Select("rebind")
    /\ UNCHANGED <<listing, udpVars, tcpVars, histories>>

PollUnchanged ==
    /\ pc = "idle" /\ current_interface = cur_interface
    /\ Select("polling")
    /\ UNCHANGED <<listing, udpVars, tcpVars, histories>>

\* Variant: the name is read again once the socket is there.
RebindReread ==
    /\ pc = "rebind"
    /\ socket' \in BoundTo(selected)
    /\ cur_interface' = current_interface
    /\ missed' = FALSE
    /\ pc' = "polling"
    /\ UNCHANGED <<listing, selected, tcpVars, moved>>

Rebind ==
    /\ pc = "rebind"
    /\ socket' \in BoundTo(selected)
    /\ cur_interface' = selected
    /\ missed' = FALSE
    /\ pc' = "polling"
    /\ UNCHANGED <<listing, selected, tcpVars, moved>>

\* A match is accepted: its socket goes to the hole punch and a new one replaces it, on
\* the interface that is current now; cur_interface stays.
AcceptMatch ==
    /\ pc = "polling"
    /\ Select("replace")
    /\ missed' = FALSE
    /\ UNCHANGED <<listing, udpVars, tcpVars, moved>>

Replace ==
    /\ pc = "replace"
    /\ socket' \in BoundTo(selected)
    /\ pc' = "polling"
    /\ UNCHANGED <<listing, selected, cur_interface, tcpVars, histories>>

PollReturns ==
    /\ pc = "polling"
    /\ pc' = "idle"
    /\ UNCHANGED <<listing, selected, udpVars, tcpVars, histories>>

----------------------------------------------------------------------------
(* ReusableTcpSocket, as P2PTcpConnector::connect_client uses it *)

\* The call opens its connection to the server: a copy of the parent socket, which
\* shares its port.
ConnectServer ==
    /\ pc = "connector"
    /\ Select("clone_server")
    /\ server_con' = NoEnd /\ attempt' = NoEnd
    /\ moved' = FALSE
    /\ UNCHANGED <<listing, udpVars, parent_port, missed>>

CloneForServer ==
    /\ pc = "clone_server"
    /\ server_con' = [port |-> parent_port, interface |-> selected]
    /\ pc' = "countdown"
    /\ UNCHANGED <<listing, selected, udpVars, parent_port, attempt, histories>>

\* After the countdown, and again after a failed attempt: another copy for the peer.
ConnectPeer ==
    /\ pc = "countdown"
    /\ Select("clone_peer")
    /\ UNCHANGED <<listing, udpVars, tcpVars, histories>>

\* Variant: the port is rotated before the attempts.
CloneForPeerRotated ==
    /\ pc = "clone_peer"
    /\ attempt' = [port |-> CHOOSE p \in Ports : p # parent_port, interface |-> selected]
    /\ pc' = "countdown"
    /\ UNCHANGED <<listing, selected, udpVars, parent_port, server_con, histories>>

\* The copy for an attempt, again on the parent's port.
CloneForPeer ==
    /\ pc = "clone_peer"
    /\ attempt' = [port |-> parent_port, interface |-> selected]
    /\ pc' = "countdown"
    /\ UNCHANGED <<listing, selected, udpVars, parent_port, server_con, histories>>

\* bind or bind_device of a copy fails, for whatever reason: unwrap.
ClonePanics ==
    /\ pc \in {"clone_server", "clone_peer"}
    /\ pc' = "panicked"
    /\ UNCHANGED <<listing, selected, udpVars, tcpVars, histories>>

\* The server does not answer: the call returns an error.
NoAnswer ==
    /\ pc = "countdown" /\ attempt = NoEnd
    /\ pc' = "connector"
    /\ UNCHANGED <<listing, selected, udpVars, tcpVars, histories>>

\* The attempts are over: rotate_port makes a socket with another port, which
\* connect_client drops; the parent keeps its port.
rotate_port ==
    /\ pc = "countdown" /\ attempt # NoEnd
    /\ pc' = "connector"
    /\ UNCHANGED <<listing, selected, udpVars, tcpVars, histories>>

----------------------------------------------------------------------------

\* A program starts: it has read the interface for its first UDP socket, or has bound
\* the parent of its TCP sockets.
Init ==
    /\ listing \in Listings
    /\ pc \in {"new_bind", "connector"}
    /\ selected = current_interface
    /\ socket = None /\ cur_interface = None
    /\ parent_port \in Ports
    /\ server_con = NoEnd /\ attempt = NoEnd
    /\ missed = FALSE /\ moved = FALSE

Next ==
    \/ InterfacesChange
    \/ NewBinds \/ NewNames
    \/ PollChanged \/ PollUnchanged \/ Rebind
    \/ AcceptMatch \/ Replace \/ PollReturns
    \/ ConnectServer \/ CloneForServer \/ ConnectPeer \/ CloneForPeer \/ ClonePanics
    \/ NoAnswer \/ rotate_port

Spec == Init /\ [][Next]_vars

----------------------------------------------------------------------------
(* Properties *)

\* The loop of current_interface selects an interface of the highest priority there is
\* and of those the one with the greatest address, in whatever order they are listed
\* (so that a new order alone never replaces a socket), and none when all are virtual.
SelectionIsBest ==
    LET usable == {i \in {listing[n] : n \in DOMAIN listing} : i.class # "virtual"} IN
    IF usable = {} THEN current_interface = None
    ELSE \E i \in usable :
           /\ i.name = current_interface
           /\ \A j \in usable \ {i} :
                \/ Priority(i) > Priority(j)
                \/ Priority(i) = Priority(j) /\ i.ip > j.ip

\* A socket of the establisher that is bound to another interface than the recorded one
\* is replaced by the next check of poll_accept, which compares the record with the
\* selection: the interfaces changed while the check or the acceptance of a match bound
\* the socket, and the selection is not the recorded one.  The exceptions are those of
\* InterfacesChange.  (A socket that could not be bound is on no interface and stays so
\* until the selection changes.)
WrongInterfaceIsNoticed ==
    pc = "idle" /\ Astray => current_interface # cur_interface \/ missed

\* The server tells the peer the address it sees.  An attempt to reach the peer leaves
\* from that very port, and from the same interface unless another one was selected
\* during the call: otherwise the peer's attempts go to an address nobody uses.
AttemptsLeaveFromSeenAddress ==
    attempt # NoEnd =>
        /\ attempt.port = server_con.port
        /\ attempt.interface # server_con.interface => moved

=============================================================================
