--------------------------- MODULE SocketsProofs ---------------------------
(***************************************************************************)
(* Proofs about the interface and the port of a client's sockets, for any  *)
(* set of interfaces, any lists of them and any ports: the loop that       *)
(* selects an interface, when a socket on a wrong interface is noticed, and *)
(* where the connector's attempts leave from.                               *)
(***************************************************************************)
EXTENDS Sockets, WellFoundedInduction, TLAPS

----------------------------------------------------------------------------
(* The inductive invariant *)

\* Where the program is, and what the listing is taken from.
Control ==
    /\ listing \in Listings
    /\ pc \in {"new_bind", "new_name", "idle", "rebind", "polling", "replace",
               "connector", "clone_server", "countdown", "clone_peer", "panicked"}

\* While new runs, what it has read first is what is selected, unless that changed.
NewFollows ==
    ~missed =>
        /\ pc = "new_bind" => selected = current_interface
        /\ pc = "new_name" => socket \in {None, current_interface}

\* From then on an establisher whose socket is astray has recorded another interface than
\* the selected one.
AstrayIsNoticed ==
    pc \in {"polling", "replace", "idle"} /\ Astray /\ ~missed =>
        current_interface # cur_interface

\* The connector copies its socket to the interface that is selected, unless that changed
\* since the call began.
CopyFollows ==
    pc \in {"clone_server", "clone_peer"} /\ ~moved => selected = current_interface

\* In a call of the connector the connection to the server has the port of the parent
\* socket, and the selected interface.
ServerConFollows ==
    pc \in {"countdown", "clone_peer"} =>
        /\ server_con.port = parent_port
        /\ ~moved => server_con.interface = current_interface

\* No attempt before there is a connection to the server, and none of the establisher.
NoEarlyAttempt ==
    pc \in {"new_bind", "new_name", "idle", "rebind", "polling", "replace",
            "clone_server"} => attempt = NoEnd

IInv ==
    /\ Control
    /\ NewFollows
    /\ AstrayIsNoticed
    /\ CopyFollows
    /\ ServerConFollows
    /\ NoEarlyAttempt
    /\ AttemptsLeaveFromSeenAddress

----------------------------------------------------------------------------
(* The loop of current_interface *)

\* Natural numbers have a smallest one.
LEMMA HasMinimum ==
    ASSUME NEW T, T \subseteq Nat, T # {}
    PROVE  \E x \in T : \A y \in T : x <= y
<1> DEFINE R == {ss \in Nat \X Nat : ss[1] < ss[2]}
<1>1. IsWellFoundedOn(R, Nat)
  BY NatLessThanWellFounded, Zenon DEF OpToRel
<1>2. PICK x \in T : \A y \in T : <<y, x>> \notin R
  <2> HIDE DEF R
  <2> QED  BY <1>1, WFMin
<1>3. ASSUME NEW y \in T PROVE ~ (y < x)
  <2>1. <<y, x>> \in Nat \X Nat /\ <<y, x>>[1] = y /\ <<y, x>>[2] = x
    OBVIOUS
  <2>2. QED
    BY <1>2, <2>1, Zenon
<1>4. QED
  BY <1>3

\* The results of the turns from 0 to n.
Turns(f, list, n) ==
    f = [k \in 0 .. n |-> IF k = 0 THEN NoBest ELSE Better(f[k - 1], list[k])]

\* Every number of turns has its results.
LEMMA TurnsExist ==
    ASSUME NEW list, NEW n \in Nat
    PROVE  \E f : Turns(f, list, n)
<1> DEFINE Bad == {m \in Nat : ~ \E f : Turns(f, list, m)}
<1>1. SUFFICES ASSUME Bad # {} PROVE FALSE
  OBVIOUS
<1>2. PICK m \in Bad : \A k \in Bad : m <= k
  <2> HIDE DEF Bad
  <2>1. Bad \subseteq Nat
    BY DEF Bad
  <2>2. QED
    BY <1>1, <2>1, HasMinimum
<1>3. CASE m = 0
  <2> DEFINE f == [k \in 0 .. 0 |-> NoBest]
  <2>1. Turns(f, list, 0)
    BY DEF Turns
  <2>2. QED
    BY <1>3, <2>1
<1>4. CASE m # 0
  <2>1. m - 1 \in Nat /\ m - 1 \notin Bad
    BY <1>2, <1>4
  <2>2. PICK f : Turns(f, list, m - 1)
    BY <2>1
  <2> DEFINE g == [k \in 0 .. m |-> IF k = m THEN Better(f[m - 1], list[m]) ELSE f[k]]
             h == [k \in 0 .. m |-> IF k = 0 THEN NoBest ELSE Better(g[k - 1], list[k])]
  <2>3. ASSUME NEW k \in 0 .. m PROVE g[k] = h[k]
    <3>1. CASE k = m
      BY <1>4, <2>1, <3>1
    <3>2. CASE k # m
      <4>1. k \in 0 .. m - 1 /\ (k # 0 => k - 1 \in 0 .. m - 1)
        BY <1>2, <3>2
      <4>2. f[k] = IF k = 0 THEN NoBest ELSE Better(f[k - 1], list[k])
        BY <2>2, <4>1 DEF Turns
      <4>3. g[k] = f[k] /\ (k # 0 => g[k - 1] = f[k - 1])
        BY <3>2, <4>1
      <4>4. QED
        BY <4>2, <4>3
    <3>3. QED
      BY <3>1, <3>2
  <2>4. g = h
    BY <2>3
  <2>5. Turns(g, list, m)
    BY <2>4 DEF Turns
  <2>6. QED
    BY <2>5
<1>5. QED
  BY <1>3, <1>4

\* The loop starts without an interface, and each turn applies Better.
LEMMA LoopTurns ==
    ASSUME NEW list \in Seq(Interfaces)
    PROVE  /\ BestOfFirst(list)[0] = NoBest
           /\ \A n \in 1 .. Len(list) :
                BestOfFirst(list)[n] = Better(BestOfFirst(list)[n - 1], list[n])
<1>1. Len(list) \in Nat
  OBVIOUS
<1>2. \E f : Turns(f, list, Len(list))
  BY <1>1, TurnsExist
<1>3. BestOfFirst(list) = CHOOSE f : Turns(f, list, Len(list))
  BY Zenon DEF BestOfFirst, Turns
<1>4. Turns(BestOfFirst(list), list, Len(list))
  BY <1>2, <1>3, Zenon
<1>5. QED
  BY <1>1, <1>4 DEF Turns

\* The interfaces among the first n that are not virtual.
Usable(list, n) == {i \in {list[k] : k \in 1 .. n} : i.class # "virtual"}

\* No interface of S has a higher priority than i, or the same one and a greater address.
IsBestOf(S, i) ==
    /\ i \in S
    /\ \A j \in S :
         \/ Priority(i) > Priority(j)
         \/ Priority(i) = Priority(j) /\ i.ip >= j.ip

\* What the loop keeps of such an interface.
Kept(i) == [name |-> i.name, priority |-> Priority(i), ip |-> i.ip]

KeepsBest(S, best) ==
    IF S = {} THEN best = NoBest ELSE \E i \in S : IsBestOf(S, i) /\ best = Kept(i)

LEMMA InterfaceTypes == \A i \in Interfaces : i.ip \in Int /\ Priority(i) \in 1 .. 3
<1>1. \A i : Priority(i) \in 1 .. 3
  BY DEF Priority
<1>2. QED
  BY <1>1, InterfacesAssumption

\* One turn keeps the best.
LEMMA TurnKeepsBest ==
    ASSUME NEW S \in SUBSET Interfaces, NEW x \in Interfaces, NEW best,
           KeepsBest(S, best), x.class # "virtual"
    PROVE  KeepsBest(S \cup {x}, Better(best, x))
<1>1. x.ip \in Int /\ Priority(x) \in 1 .. 3
  BY InterfaceTypes
<1>2. CASE S = {}
  <2>1. best = NoBest
    BY <1>2 DEF KeepsBest
  <2>2. Better(best, x) = Kept(x)
    BY <1>1, <2>1 DEF Better, Kept, NoBest
  <2>3. IsBestOf(S \cup {x}, x)
    BY <1>1, <1>2 DEF IsBestOf
  <2>4. QED
    BY <2>2, <2>3, Zenon DEF KeepsBest
<1>3. CASE S # {}
  <2>1. PICK i \in S : IsBestOf(S, i) /\ best = Kept(i)
    BY <1>3, Zenon DEF KeepsBest
  <2>2. i.ip \in Int /\ Priority(i) \in 1 .. 3
    BY InterfaceTypes
  <2>3. best.priority = Priority(i) /\ best.ip = i.ip
    BY <2>1 DEF Kept
  <2>4. CASE Priority(x) > Priority(i) \/ (Priority(x) = Priority(i) /\ x.ip > i.ip)
    <3>1. Better(best, x) = Kept(x)
      BY <2>3, <2>4 DEF Better, Kept
    <3>2. IsBestOf(S \cup {x}, x)
      <4>1. \A j \in S : j.ip \in Int /\ Priority(j) \in 1 .. 3
        BY InterfaceTypes
      <4>2. ASSUME NEW j \in S \cup {x}
            PROVE  \/ Priority(x) > Priority(j)
                   \/ Priority(x) = Priority(j) /\ x.ip >= j.ip
        <5>1. CASE j = x
          BY <1>1, <5>1
        <5>2. CASE j \in S
          <6>1. \/ Priority(i) > Priority(j)
                \/ Priority(i) = Priority(j) /\ i.ip >= j.ip
            BY <2>1, <5>2, Zenon DEF IsBestOf
          <6>2. QED
            BY <1>1, <2>2, <2>4, <4>1, <5>2, <6>1
        <5>3. QED
          BY <5>1, <5>2
      <4>3. x \in S \cup {x}
        OBVIOUS
      <4>4. QED
        BY <4>2, <4>3, Zenon DEF IsBestOf
    <3>3. QED
      BY <3>1, <3>2, Zenon DEF KeepsBest
  <2>5. CASE ~ (Priority(x) > Priority(i) \/ (Priority(x) = Priority(i) /\ x.ip > i.ip))
    <3>1. Better(best, x) = Kept(i)
      BY <2>1, <2>3, <2>5 DEF Better
    <3>2. IsBestOf(S \cup {x}, i)
      <4>1. Priority(i) > Priority(x) \/ (Priority(i) = Priority(x) /\ i.ip >= x.ip)
        BY <1>1, <2>2, <2>5
      <4>2. ASSUME NEW j \in S \cup {x}
            PROVE  \/ Priority(i) > Priority(j)
                   \/ Priority(i) = Priority(j) /\ i.ip >= j.ip
        <5>1. CASE j = x
          BY <4>1, <5>1, Zenon
        <5>2. CASE j \in S
          BY <2>1, <5>2, Zenon DEF IsBestOf
        <5>3. QED
          BY <5>1, <5>2
      <4>3. i \in S \cup {x}
        OBVIOUS
      <4>4. QED
        BY <4>2, <4>3, Zenon DEF IsBestOf
    <3>3. QED
      BY <2>1, <3>1, <3>2, Zenon DEF KeepsBest
  <2>6. QED
    BY <2>4, <2>5
<1>4. QED
  BY <1>2, <1>3

LEMMA LoopKeepsBest ==
    ASSUME NEW list \in Seq(Interfaces)
    PROVE  \A n \in 0 .. Len(list) : KeepsBest(Usable(list, n), BestOfFirst(list)[n])
<1> DEFINE Good(n) == KeepsBest(Usable(list, n), BestOfFirst(list)[n])
           Bad == {n \in 0 .. Len(list) : ~ Good(n)}
<1>1. SUFFICES ASSUME Bad # {} PROVE FALSE
  OBVIOUS
<1>2. PICK n \in Bad : \A k \in Bad : n <= k
  <2> HIDE DEF Bad
  <2>1. Bad \subseteq Nat
    BY DEF Bad
  <2>2. QED
    BY <1>1, <2>1, HasMinimum
<1>3. Good(0)
  <2>1. Usable(list, 0) = {}
    BY DEF Usable
  <2>2. QED
    BY <2>1, LoopTurns DEF KeepsBest
<1> HIDE DEF Good
<1>4. n # 0
  BY <1>3
<1>5. n \in 1 .. Len(list) /\ n - 1 \in 0 .. Len(list) /\ n - 1 \notin Bad
  BY <1>2, <1>4
<1>6. Good(n - 1)
  BY <1>5
<1>7. Good(n)
  <2> DEFINE x == list[n]
             S == Usable(list, n - 1)
  <2>1. BestOfFirst(list)[n] = Better(BestOfFirst(list)[n - 1], x)
    BY <1>5, LoopTurns
  <2>2. x \in Interfaces /\ S \in SUBSET Interfaces
    BY <1>5 DEF Usable
  <2>3. Usable(list, n) = IF x.class # "virtual" THEN S \cup {x} ELSE S
    BY <1>5 DEF Usable
  <2>4. KeepsBest(S, BestOfFirst(list)[n - 1])
    BY <1>6 DEF Good
  <2> HIDE DEF x, S
  <2>5. CASE x.class = "virtual"
    <3>1. Better(BestOfFirst(list)[n - 1], x) = BestOfFirst(list)[n - 1]
      BY <2>5 DEF Better
    <3>2. Usable(list, n) = S
      BY <2>3, <2>5
    <3>3. QED
      BY <2>1, <2>4, <3>1, <3>2 DEF Good
  <2>6. CASE x.class # "virtual"
    BY <2>1, <2>2, <2>3, <2>4, <2>6, TurnKeepsBest DEF Good
  <2>7. QED
    BY <2>5, <2>6
<1>8. QED
  BY <1>7

\* The selection of a list: none when all interfaces are virtual, or the best one.
LEMMA SelectionOfList ==
    ASSUME NEW list \in Seq(Interfaces)
    PROVE  LET S == Usable(list, Len(list)) IN
           /\ S = {} => SelectedIn(list) = None
           /\ S # {} => \E i \in S : IsBestOf(S, i) /\ SelectedIn(list) = i.name
<1> DEFINE S == Usable(list, Len(list))
           best == BestOfFirst(list)[Len(list)]
<1>1. KeepsBest(S, best)
  BY LoopKeepsBest
<1>2. SelectedIn(list) = best.name
  BY DEF SelectedIn
<1> HIDE DEF S, best
<1>3. S = {} => SelectedIn(list) = None
  BY <1>1, <1>2 DEF KeepsBest, NoBest
<1>4. ASSUME S # {} PROVE \E i \in S : IsBestOf(S, i) /\ SelectedIn(list) = i.name
  <2>1. PICK i \in S : IsBestOf(S, i) /\ best = Kept(i)
    BY <1>1, <1>4, Zenon DEF KeepsBest
  <2>2. SelectedIn(list) = i.name
    BY <1>2, <2>1 DEF Kept
  <2>3. QED
    BY <2>1, <2>2
<1>5. QED
  BY <1>3, <1>4 DEF S

----------------------------------------------------------------------------
(* The invariant is kept *)

LEMMA InitIInv == Init => IInv
BY DEF Init, IInv, Control, NewFollows, AstrayIsNoticed, CopyFollows, ServerConFollows,
       NoEarlyAttempt, AttemptsLeaveFromSeenAddress, NoEnd

LEMMA EstablisherKeepsIInv ==
    ASSUME IInv,
           \/ NewBinds \/ NewNames \/ PollChanged \/ PollUnchanged
           \/ Rebind \/ AcceptMatch \/ Replace \/ PollReturns
    PROVE  IInv'
<1> USE DEF IInv, Control, NewFollows, AstrayIsNoticed, CopyFollows, ServerConFollows,
            NoEarlyAttempt, AttemptsLeaveFromSeenAddress, histories, udpVars, tcpVars
<1>1. current_interface' = current_interface
  BY DEF NewBinds, NewNames, PollChanged, PollUnchanged, Rebind, AcceptMatch, Replace,
         PollReturns, current_interface
<1> HIDE DEF current_interface
<1>2. CASE NewBinds
  BY <1>1, <1>2 DEF NewBinds, BoundTo
<1>3. CASE NewNames
  BY <1>1, <1>3 DEF NewNames, Astray, Seat
<1>4. CASE PollChanged
  BY <1>1, <1>4 DEF PollChanged, Select
<1>5. CASE PollUnchanged
  BY <1>1, <1>5 DEF PollUnchanged, Select, Astray, Seat
<1>6. CASE Rebind
  BY <1>1, <1>6 DEF Rebind, BoundTo, Astray, Seat
<1>7. CASE AcceptMatch
  BY <1>1, <1>7 DEF AcceptMatch, Select, Astray, Seat
<1>8. CASE Replace
  BY <1>1, <1>8 DEF Replace, BoundTo, Astray, Seat
<1>9. CASE PollReturns
  BY <1>1, <1>9 DEF PollReturns, Astray, Seat
<1>10. QED
  BY <1>2, <1>3, <1>4, <1>5, <1>6, <1>7, <1>8, <1>9

LEMMA ConnectorKeepsIInv ==
    ASSUME IInv,
           \/ ConnectServer \/ CloneForServer \/ ConnectPeer \/ CloneForPeer
           \/ ClonePanics \/ NoAnswer \/ rotate_port
    PROVE  IInv'
<1> USE DEF IInv, Control, NewFollows, AstrayIsNoticed, CopyFollows, ServerConFollows,
            NoEarlyAttempt, AttemptsLeaveFromSeenAddress, histories, udpVars, tcpVars
<1>1. current_interface' = current_interface
  BY DEF ConnectServer, CloneForServer, ConnectPeer, CloneForPeer, ClonePanics, NoAnswer,
         rotate_port, current_interface
<1> HIDE DEF current_interface
<1>2. CASE ConnectServer
  BY <1>1, <1>2 DEF ConnectServer, Select
<1>3. CASE CloneForServer
  BY <1>1, <1>3 DEF CloneForServer
<1>4. CASE ConnectPeer
  BY <1>1, <1>4 DEF ConnectPeer, Select
<1>5. CASE CloneForPeer
  BY <1>1, <1>5 DEF CloneForPeer
<1>6. CASE ClonePanics
  BY <1>1, <1>6 DEF ClonePanics
<1>7. CASE NoAnswer
  BY <1>1, <1>7 DEF NoAnswer
<1>8. CASE rotate_port
  BY <1>1, <1>8 DEF rotate_port
<1>9. QED
  BY <1>2, <1>3, <1>4, <1>5, <1>6, <1>7, <1>8

LEMMA InterfacesChangeKeepsIInv == IInv /\ InterfacesChange => IInv'
<1> SUFFICES ASSUME IInv, InterfacesChange PROVE IInv'
  OBVIOUS
<1>1. SelectedIn(listing') = current_interface'
  BY DEF current_interface
<1> HIDE DEF current_interface
<1>2. Astray' = Astray
  BY DEF InterfacesChange, Astray, Seat, udpVars
<1>3. NewFollows'
  BY <1>1 DEF InterfacesChange, IInv, NewFollows, udpVars
<1>4. AstrayIsNoticed'
  BY <1>1, <1>2 DEF InterfacesChange, IInv, AstrayIsNoticed, udpVars
<1>5. CopyFollows' /\ ServerConFollows'
  BY <1>1 DEF InterfacesChange, IInv, CopyFollows, ServerConFollows, tcpVars
<1>6. Control' /\ NoEarlyAttempt' /\ AttemptsLeaveFromSeenAddress'
  BY DEF InterfacesChange, IInv, Control, NoEarlyAttempt, AttemptsLeaveFromSeenAddress,
         tcpVars
<1>7. QED
  BY <1>3, <1>4, <1>5, <1>6 DEF IInv

LEMMA StepIInv == IInv /\ [Next]_vars => IInv'
<1>1. IInv /\ UNCHANGED vars => IInv'
  BY DEF vars, udpVars, tcpVars, histories, Astray, Seat, IInv, Control, NewFollows, AstrayIsNoticed, CopyFollows,
         ServerConFollows, NoEarlyAttempt, AttemptsLeaveFromSeenAddress, current_interface
<1>2. QED
  BY <1>1, EstablisherKeepsIInv, ConnectorKeepsIInv, InterfacesChangeKeepsIInv DEF Next

THEOREM SpecImpliesIInv == Spec => []IInv
BY InitIInv, StepIInv, PTL DEF Spec

\* Whatever interfaces there are and in whatever order they are listed, the loop of
\* current_interface selects one of the highest priority, and of those the one with the
\* greatest address.
THEOREM SelectsTheBest == Spec => []SelectionIsBest
<1>1. IInv => SelectionIsBest
  <2> SUFFICES ASSUME IInv PROVE SelectionIsBest
    OBVIOUS
  <2> DEFINE S == Usable(listing, Len(listing))
             usable == {i \in {listing[n] : n \in DOMAIN listing} : i.class # "virtual"}
  <2>1. listing \in Seq(Interfaces)
    BY InterfacesAssumption DEF IInv, Control
  <2>2. usable = S /\ S \subseteq Interfaces
    BY <2>1 DEF Usable
  <2>3. CASE S = {}
    <3>1. current_interface = None
      BY <2>1, <2>3, SelectionOfList DEF current_interface
    <3>2. QED
      BY <2>2, <2>3, <3>1 DEF SelectionIsBest
  <2>4. CASE S # {}
    <3>1. PICK i \in S : IsBestOf(S, i) /\ i.name = current_interface
      BY <2>1, <2>4, SelectionOfList DEF current_interface
    <3>2. ASSUME NEW j \in S \ {i}
          PROVE  Priority(i) > Priority(j) \/ (Priority(i) = Priority(j) /\ i.ip > j.ip)
      <4>1. \/ Priority(i) > Priority(j)
            \/ Priority(i) = Priority(j) /\ i.ip >= j.ip
        BY <3>1, <3>2, Zenon DEF IsBestOf
      <4>2. i.ip # j.ip /\ i.ip \in Int /\ j.ip \in Int
        BY <2>2, <3>2, InterfacesAssumption
      <4>3. QED
        BY <4>1, <4>2
    <3> HIDE DEF S, usable
    <3>3. QED
      BY <2>2, <2>4, <3>1, <3>2, Zenon DEF SelectionIsBest, usable
  <2>5. QED
    BY <2>3, <2>4
<1>2. QED
  BY <1>1, SpecImpliesIInv, PTL

\* A socket of the establisher on another interface than the recorded one is replaced by
\* the next check, even when binding fails at any time: unless the selection came back to
\* the recorded interface first, or changed while new read it twice.
THEOREM AstraySocketsAreReplaced == Spec => []WrongInterfaceIsNoticed
<1>1. IInv => WrongInterfaceIsNoticed
  BY DEF IInv, AstrayIsNoticed, WrongInterfaceIsNoticed
<1>2. QED
  BY <1>1, SpecImpliesIInv, PTL

\* The connector's attempts leave from the port the server sees, and from the interface
\* it sees unless the selection changed during the call.
THEOREM SeenAddress == Spec => []AttemptsLeaveFromSeenAddress
<1>1. IInv => AttemptsLeaveFromSeenAddress
  BY DEF IInv
<1>2. QED
  BY <1>1, SpecImpliesIInv, PTL

=============================================================================
