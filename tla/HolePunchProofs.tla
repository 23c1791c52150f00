-------------------------- MODULE HolePunchProofs --------------------------
(***************************************************************************)
(* Proofs about hole punching, for any number of sides, any address        *)
(* translation and any windows: what the handshake guarantees when the     *)
(* network may lose, repeat and reorder every packet.  And about two sides *)
(* over a prompt network: that it succeeds, how soon, and with a clean     *)
(* socket.                                                                 *)
(***************************************************************************)
EXTENDS HolePunch, TLAPS

\* Where a packet comes from: some side sent it away from itself, and a side that
\* acknowledged a punch has received one.
SentBy(m, x) ==
    /\ m.src \in External(x)
    /\ m.dst \notin External(x)
    /\ m.kind = "punch ack" => got_punch[x]

PacketsHaveSenders == \A m \in net : \E x \in Sides : SentBy(m, x)

\* Nobody punches itself.
SendsAway == \A s \in Sides : cur_send_dst[s] \notin External(s)

AckMeansHeard ==
    \A s \in Sides : got_punch_ack[s] => \E r \in Sides \ {s} : got_punch[r]

SuccessHasBothFlags ==
    \A s \in Sides : Succeeded(s) => got_punch[s] /\ got_punch_ack[s]

\* A success rests on the acknowledgement received, that on the acknowledgements in
\* the network, and those on the punch their sender has received.
IInv ==
    /\ TypeOK
    /\ PacketsHaveSenders
    /\ SendsAway
    /\ AckMeansHeard
    /\ SuccessHasBothFlags

----------------------------------------------------------------------------
(* The network *)

\* Translation gives a packet one of the sender's own addresses.
LEMMA PacketFromIsSent ==
    ASSUME NEW s \in Sides, NEW kind \in {"punch", "punch ack"}, NEW dst \in Addrs
    PROVE  /\ PacketFrom(s, kind, dst) \in Packet
           /\ PacketFrom(s, kind, dst).src \in External(s)
           /\ PacketFrom(s, kind, dst).dst = dst
           /\ PacketFrom(s, kind, dst).kind = kind
  BY NetworkAssumption DEF PacketFrom, Packet, External

\* A packet that reaches a side was sent by another one.
LEMMA ReceivedFromAnother ==
    ASSUME IInv, NEW s \in Sides, NEW m \in ForSide(s)
    PROVE  /\ m \in net /\ m \in Packet
           /\ m.src \in Addrs /\ m.src \notin External(s)
           /\ \E x \in Sides \ {s} : SentBy(m, x)
<1>1. m \in net /\ m.dst \in External(s)
  BY DEF ForSide
<1>2. PICK x \in Sides : SentBy(m, x)
  BY <1>1 DEF IInv, PacketsHaveSenders
<1>3. x # s
  BY <1>1, <1>2 DEF SentBy
<1>4. m.src \notin External(s)
  BY <1>2, <1>3, NetworkAssumption DEF SentBy
<1>5. m \in Packet
  BY <1>1 DEF IInv, TypeOK
<1>6. QED
  BY <1>1, <1>2, <1>3, <1>4, <1>5 DEF Packet

\* Packets keep their senders while the network only loses packets and sides only
\* gain the knowledge that they were heard.
LEMMA SendersStay ==
    ASSUME IInv, net' \subseteq net,
           \A x \in Sides : got_punch[x] => got_punch'[x]
    PROVE  PacketsHaveSenders'
  BY DEF IInv, PacketsHaveSenders, SentBy, External

\* The same when one side adds a packet of its own.
LEMMA SendersStayWithOneMore ==
    ASSUME IInv, NEW n \in Packet, net' \subseteq net \cup {n},
           \A x \in Sides : got_punch[x] => got_punch'[x],
           NEW s \in Sides, SentBy(n, s)'
    PROVE  PacketsHaveSenders'
  BY DEF IInv, PacketsHaveSenders, SentBy, External

----------------------------------------------------------------------------
(* One lemma per action *)

LEMMA InitIInv == Init => IInv
  BY NetworkAssumption
  DEF Init, IInv, TypeOK, WithinWindows, Window, PacketsHaveSenders, SendsAway,
      AckMeansHeard, SuccessHasBothFlags, Succeeded

LEMMA StartIInv ==
    ASSUME IInv, NEW s \in Sides, Start(s)
    PROVE  IInv'
<1>1. TypeOK'
  <2>1. WithinWindows'
    BY WindowsAssumption DEF IInv, TypeOK, WithinWindows, Window, Start
  <2>2. QED
    BY <2>1, WindowsAssumption DEF IInv, TypeOK, Start, Shared
<1>2. PacketsHaveSenders'
  BY SendersStay DEF Start
<1>3. SendsAway' /\ AckMeansHeard'
  BY DEF IInv, Start, SendsAway, AckMeansHeard, External
<1>4. SuccessHasBothFlags'
  BY DEF IInv, TypeOK, Start, SuccessHasBothFlags, Succeeded
<1>5. QED
  BY <1>1, <1>2, <1>3, <1>4 DEF IInv

LEMMA SendPunchIInv ==
    ASSUME IInv, NEW s \in Sides, SendPunch(s)
    PROVE  IInv'
<1> DEFINE n == PacketFrom(s, "punch", cur_send_dst[s])
<1>1. cur_send_dst[s] \in Addrs /\ cur_send_dst[s] \notin External(s)
  BY DEF IInv, TypeOK, SendsAway
<1>2. PICK q \in Packet : q = n
  BY <1>1, PacketFromIsSent
<1>3. /\ q.src \in External(s)
      /\ q.dst \notin External(s)
      /\ q.kind = "punch"
  BY <1>1, <1>2, PacketFromIsSent
<1>4. SentBy(q, s)'
  BY <1>3 DEF SentBy, External
<1>5. net' = net \cup {q}
  BY <1>2 DEF SendPunch
<1>6. PacketsHaveSenders'
  BY <1>4, <1>5, SendersStayWithOneMore DEF SendPunch
<1>7. TypeOK'
  BY <1>5 DEF IInv, TypeOK, WithinWindows, SendPunch
<1>8. SendsAway' /\ AckMeansHeard' /\ SuccessHasBothFlags'
  BY DEF IInv, SendPunch, SendsAway, AckMeansHeard, SuccessHasBothFlags, Succeeded,
         External
<1>9. QED
  BY <1>6, <1>7, <1>8 DEF IInv

\* Leaving the loop keeps the types, and happens with both flags set only.
LEMMA LeaveIfCompleteEffect ==
    ASSUME IInv, NEW s \in Sides, LeaveIfComplete(s),
           got_punch' \in [Sides -> BOOLEAN], got_punch_ack' \in [Sides -> BOOLEAN],
           \A x \in Sides : /\ got_punch[x] => got_punch'[x]
                            /\ got_punch_ack[x] => got_punch_ack'[x]
    PROVE  /\ phase' \in
                [Sides -> {"idle", "punching", "draining", "settling", "done", "failed"}]
           /\ timer' \in [Sides -> Nat] /\ WithinWindows'
           /\ SuccessHasBothFlags'
<1>1. CASE got_punch'[s] /\ got_punch_ack'[s]
  BY <1>1, WindowsAssumption
  DEF LeaveIfComplete, IInv, TypeOK, WithinWindows, Window, SuccessHasBothFlags, Succeeded
<1>2. CASE ~(got_punch'[s] /\ got_punch_ack'[s])
  BY <1>2
  DEF LeaveIfComplete, IInv, TypeOK, WithinWindows, SuccessHasBothFlags, Succeeded
<1>3. QED
  BY <1>1, <1>2

LEMMA RecvPunchIInv ==
    ASSUME IInv, NEW s \in Sides, NEW m, RecvPunch(s, m)
    PROVE  IInv'
<1>1. /\ m \in net /\ m \in Packet
      /\ m.src \in Addrs /\ m.src \notin External(s)
  BY ReceivedFromAnother DEF RecvPunch
<1>2. /\ got_punch' = [got_punch EXCEPT ![s] = TRUE]
      /\ got_punch_ack' = got_punch_ack
      /\ cur_send_dst' = [cur_send_dst EXCEPT ![s] = m.src]
      /\ due' = [due EXCEPT ![s] = due[s] /\ timer[s] > 0] /\ together' = together
  BY DEF RecvPunch, FollowSource, Awaited
<1>3. /\ got_punch' \in [Sides -> BOOLEAN]
      /\ got_punch_ack' \in [Sides -> BOOLEAN]
      /\ \A x \in Sides : got_punch[x] => got_punch'[x]
  BY <1>2 DEF IInv, TypeOK
<1>4. PICK q \in Packet : q = PacketFrom(s, "punch ack", m.src)
  BY <1>1, PacketFromIsSent
<1>5. q.src \in External(s) /\ q.dst \notin External(s)
  BY <1>1, <1>4, PacketFromIsSent
<1>6. SentBy(q, s)'
  BY <1>2, <1>5 DEF SentBy, External, IInv, TypeOK
<1>7. net' \subseteq net \cup {q}
  BY <1>4 DEF RecvPunch, Unread, Answer
<1>8. PacketsHaveSenders'
  BY <1>3, <1>6, <1>7, SendersStayWithOneMore
<1>9. /\ phase' \in
           [Sides -> {"idle", "punching", "draining", "settling", "done", "failed"}]
      /\ timer' \in [Sides -> Nat] /\ WithinWindows'
      /\ SuccessHasBothFlags'
  BY <1>2, <1>3, LeaveIfCompleteEffect DEF RecvPunch
<1>10. TypeOK'
  BY <1>1, <1>2, <1>3, <1>7, <1>9 DEF IInv, TypeOK
<1>11. SendsAway'
  BY <1>1, <1>2 DEF IInv, TypeOK, SendsAway, External
<1>12. AckMeansHeard'
  BY <1>2, <1>3 DEF IInv, AckMeansHeard
<1>13. QED
  BY <1>8, <1>9, <1>10, <1>11, <1>12 DEF IInv

LEMMA RecvAckIInv ==
    ASSUME IInv, NEW s \in Sides, NEW m, RecvAck(s, m)
    PROVE  IInv'
<1>1. PICK x \in Sides \ {s} : SentBy(m, x)
  BY ReceivedFromAnother DEF RecvAck
<1>2. got_punch[x]
  BY <1>1 DEF SentBy, RecvAck
<1>3. /\ got_punch_ack' = [got_punch_ack EXCEPT ![s] = TRUE]
      /\ got_punch' = got_punch
      /\ cur_send_dst' = cur_send_dst
      /\ due' = [due EXCEPT ![s] = due[s] /\ timer[s] > 0] /\ together' = together
      /\ net' \subseteq net
  BY DEF RecvAck, Unread, Awaited
<1>4. /\ got_punch' \in [Sides -> BOOLEAN]
      /\ got_punch_ack' \in [Sides -> BOOLEAN]
      /\ \A y \in Sides : got_punch_ack[y] => got_punch_ack'[y]
  BY <1>3 DEF IInv, TypeOK
<1>5. PacketsHaveSenders'
  BY <1>3, SendersStay
<1>6. /\ phase' \in
           [Sides -> {"idle", "punching", "draining", "settling", "done", "failed"}]
      /\ timer' \in [Sides -> Nat] /\ WithinWindows'
      /\ SuccessHasBothFlags'
  BY <1>3, <1>4, LeaveIfCompleteEffect DEF RecvAck
<1>7. TypeOK'
  BY <1>3, <1>4, <1>6 DEF IInv, TypeOK
<1>8. SendsAway'
  BY <1>3 DEF IInv, SendsAway, External
<1>9. AckMeansHeard'
  BY <1>2, <1>3 DEF IInv, TypeOK, AckMeansHeard
<1>10. QED
  BY <1>5, <1>6, <1>7, <1>8, <1>9 DEF IInv

\* The end of a phase, a drained packet and a tick change no flag and send nothing.
LEMMA QuietStepIInv ==
    ASSUME IInv,
           got_punch' = got_punch, got_punch_ack' = got_punch_ack,
           cur_send_dst' = cur_send_dst, net' \subseteq net,
           \A s \in Sides : Succeeded(s)' => Succeeded(s),
           phase' \in [Sides -> {"idle", "punching", "draining", "settling", "done",
                                 "failed"}],
           timer' \in [Sides -> Nat], WithinWindows', due' \in [Sides -> BOOLEAN],
           together' \in 0 .. 3
    PROVE  IInv'
<1>1. TypeOK'
  BY DEF IInv, TypeOK
<1>2. PacketsHaveSenders'
  BY SendersStay
<1>3. SendsAway' /\ AckMeansHeard' /\ SuccessHasBothFlags'
  BY DEF IInv, SendsAway, AckMeansHeard, SuccessHasBothFlags, External
<1>4. QED
  BY <1>1, <1>2, <1>3 DEF IInv

LEMMA PhaseEndIInv ==
    ASSUME IInv, NEW s \in Sides, Fail(s) \/ EndDrain(s) \/ EndSettle(s)
    PROVE  IInv'
<1>1. CASE Fail(s)
  <2>1. WithinWindows'
    BY <1>1 DEF Fail, sideVars, IInv, TypeOK, WithinWindows, Window
  <2>2. QED
    BY <1>1, <2>1, QuietStepIInv DEF Fail, sideVars, IInv, TypeOK, Succeeded
<1>2. CASE EndDrain(s)
  <2>1. WithinWindows'
    BY <1>2, WindowsAssumption DEF EndDrain, IInv, TypeOK, WithinWindows, Window
  <2>2. QED
    BY <1>2, <2>1, QuietStepIInv, WindowsAssumption DEF EndDrain, IInv, TypeOK, Succeeded
<1>3. CASE EndSettle(s)
  <2>1. WithinWindows'
    BY <1>3 DEF EndSettle, sideVars, IInv, TypeOK, WithinWindows, Window
  <2>2. QED
    BY <1>3, <2>1, QuietStepIInv DEF EndSettle, sideVars, IInv, TypeOK, Succeeded
<1>4. QED
  BY <1>1, <1>2, <1>3

LEMMA DrainPacketIInv ==
    ASSUME IInv, NEW s \in Sides, NEW m, DrainPacket(s, m)
    PROVE  IInv'
<1>1. net' \subseteq net
  BY DEF DrainPacket, Unread
<1>2. QED
  BY <1>1, QuietStepIInv DEF DrainPacket, sideVars, IInv, TypeOK, WithinWindows, Succeeded

LEMMA TickIInv ==
    ASSUME IInv, Tick
    PROVE  IInv'
<1>1. timer' \in [Sides -> Nat] /\ WithinWindows'
  <2>1. timer' \in [Sides -> Nat] /\ \A s \in Sides : timer'[s] <= timer[s]
    BY DEF Tick, IInv, TypeOK
  <2>2. \A s \in Sides : Window(phase[s]) \in Nat
    BY WindowsAssumption DEF Window
  <2>3. QED
    BY <2>1, <2>2 DEF Tick, IInv, TypeOK, WithinWindows
<1>2. due' \in [Sides -> BOOLEAN] /\ together' \in 0 .. 3
  <2>1. due' \in [Sides -> BOOLEAN]
    BY Zenon DEF Tick, IInv, TypeOK
  <2>2. together' \in 0 .. 3
    BY DEF Tick, Shared, IInv, TypeOK
  <2>3. QED
    BY <2>1, <2>2
<1>3. QED
  BY <1>1, <1>2, QuietStepIInv DEF Tick, IInv, TypeOK, Succeeded

----------------------------------------------------------------------------
(* Theorems *)

LEMMA NextIInv ==
    ASSUME IInv, [Next]_vars
    PROVE  IInv'
<1>1. ASSUME NEW s \in Sides, Start(s) \/ Step(s)
      PROVE  IInv'
  BY <1>1, StartIInv, SendPunchIInv, RecvPunchIInv, RecvAckIInv, DrainPacketIInv,
     PhaseEndIInv DEF Step
<1>2. CASE Tick
  BY <1>2, TickIInv
<1>3. CASE UNCHANGED vars
  BY <1>3 DEF vars, IInv, TypeOK, WithinWindows, PacketsHaveSenders, SentBy, SendsAway, AckMeansHeard,
              SuccessHasBothFlags, Succeeded, External
<1>4. QED
  BY <1>1, <1>2, <1>3 DEF Next

LEMMA SpecIInv == Spec => []IInv
  BY InitIInv, NextIInv, PTL DEF Spec

\* The handshake state always has its declared type.
THEOREM TypeCorrect == Spec => []TypeOK
  BY SpecIInv, PTL DEF IInv

\* Whoever succeeds has been heard by another side, whatever the network lost,
\* repeated or reordered.
THEOREM SuccessIsNeverImaginary == Spec => []SuccessWasHeard
<1>1. IInv => SuccessWasHeard
  BY DEF IInv, SuccessWasHeard, SuccessHasBothFlags, AckMeansHeard
<1>2. QED
  BY <1>1, SpecIInv, PTL

----------------------------------------------------------------------------
(* Two sides over a prompt network *)

\* A match introduces two sockets to each other.
PromptPair ==
    /\ Prompt
    /\ \A s, r, x \in Sides : s # r => x \in {s, r}

Coming(kind, s) == \E m \in ForSide(s) : m.kind = kind

\* Nothing has happened yet from or because of a side that has not started.
IdleIsFresh ==
    \A s \in Sides : phase[s] = "idle" =>
        /\ ~got_punch[s] /\ ~got_punch_ack[s]
        /\ \A m \in net : m.src \notin External(s)
        /\ \A r \in Sides : ~got_punch[r]

PunchingIsIncomplete ==
    \A s \in Sides : phase[s] = "punching" => ~(got_punch[s] /\ got_punch_ack[s])

\* Whoever was heard learns it as long as it listens.
AcksComeBack ==
    \A s, r \in Sides :
        s # r /\ got_punch[s] /\ phase[r] = "punching"
            => got_punch_ack[r] \/ Coming("punch ack", r)

HandshakeInv ==
    /\ IInv
    /\ IdleIsFresh
    /\ PunchingIsIncomplete
    /\ AcksComeBack

\* A packet that a side of a pair receives comes from the other one, which has started.
LEMMA PairReceives ==
    ASSUME PromptPair, HandshakeInv,
           NEW s \in Sides, NEW r \in Sides, s # r, NEW m \in ForSide(s)
    PROVE  /\ m \in net /\ m.dst \in External(s) /\ m.dst \notin External(r)
           /\ m.src \in External(r) /\ m.src \in Addrs
           /\ phase[r] # "idle"
           /\ m.kind = "punch ack" => got_punch[r]
<1>1. /\ m \in net /\ m.src \in Addrs
      /\ \E x \in Sides \ {s} : SentBy(m, x)
  BY ReceivedFromAnother DEF HandshakeInv
<1>2. SentBy(m, r)
  BY <1>1 DEF PromptPair
<1>3. m.dst \in External(s) /\ m.dst \notin External(r)
  BY NetworkAssumption DEF ForSide
<1>4. QED
  BY <1>1, <1>2, <1>3 DEF SentBy, HandshakeInv, IdleIsFresh

\* A packet that is not read is still coming, and so is one that was just sent.
LEMMA StillComing ==
    ASSUME NEW s \in Sides, NEW kind, NEW m, net \ {m} \subseteq net',
           m.kind # kind \/ m.dst \notin External(s)
    PROVE  Coming(kind, s) => Coming(kind, s)'
<1>1. SUFFICES ASSUME NEW n \in ForSide(s), n.kind = kind
               PROVE  Coming(kind, s)'
  BY DEF Coming
<1>2. n \in net /\ n.dst \in External(s)
  BY DEF ForSide
<1>3. n # m
  BY <1>1, <1>2
<1>4. n \in ForSide(s)'
  BY <1>2, <1>3 DEF ForSide, External
<1>5. QED
  BY <1>1, <1>4 DEF Coming

LEMMA NowComing ==
    ASSUME NEW s \in Sides, NEW n \in net', n.dst \in External(s)
    PROVE  Coming(n.kind, s)'
  BY DEF Coming, ForSide, External

\* When every packet was read, nothing is coming.
LEMMA NothingComing ==
    ASSUME NEW s \in Sides, NEW kind, ForSide(s) = {}
    PROVE  ~Coming(kind, s)
  BY DEF Coming

\* The sender of a punch and the acknowledgement it gets.
LEMMA SendPunchEffect ==
    ASSUME HandshakeInv, NEW s \in Sides, SendPunch(s)
    PROVE  \E q \in Packet :
             /\ q.kind = "punch" /\ q.dst = cur_send_dst[s]
             /\ q.src \in External(s)
             /\ net' = net \cup {q}
<1>1. cur_send_dst[s] \in Addrs
  BY DEF HandshakeInv, IInv, TypeOK
<1>2. PICK q \in Packet : q = PacketFrom(s, "punch", cur_send_dst[s])
  BY <1>1, PacketFromIsSent
<1>3. /\ q.kind = "punch" /\ q.dst = cur_send_dst[s]
      /\ q.src \in External(s)
  BY <1>1, <1>2, PacketFromIsSent
<1>4. net' = net \cup {q}
  BY <1>2 DEF SendPunch
<1>5. QED
  BY <1>3, <1>4

LEMMA RecvPunchEffect ==
    ASSUME PromptPair, HandshakeInv, NEW s \in Sides, NEW r \in Sides, s # r,
           NEW m, RecvPunch(s, m)
    PROVE  \E q \in Packet :
             /\ q.kind = "punch ack"
             /\ q.dst \in External(r) /\ q.src \in External(s)
             /\ net' = (net \ {m}) \cup {q}
<1>1. m \in ForSide(s)
  BY DEF RecvPunch
<1>2. m.src \in External(r) /\ m.src \in Addrs
  BY <1>1, PairReceives
<1>3. PICK q \in Packet : q = PacketFrom(s, "punch ack", m.src)
  BY <1>2, PacketFromIsSent
<1>4. q.kind = "punch ack" /\ q.dst = m.src /\ q.src \in External(s)
  BY <1>2, <1>3, PacketFromIsSent
<1>5. net' = (net \ {m}) \cup {q}
  BY <1>3 DEF RecvPunch, Unread, Answer, PromptPair
<1>6. QED
  BY <1>2, <1>4, <1>5

\* Leaving the loop is decided by the flags, and starts the drain phase.
LEMMA LeaveDecides ==
    ASSUME IInv, NEW s \in Sides, phase[s] = "punching", LeaveIfComplete(s)
    PROVE  /\ \A x \in Sides \ {s} : phase'[x] = phase[x] /\ timer'[x] = timer[x]
           /\ \/ /\ got_punch'[s] /\ got_punch_ack'[s]
                 /\ phase'[s] = "draining" /\ timer'[s] = DRAIN_WINDOW
              \/ /\ ~(got_punch'[s] /\ got_punch_ack'[s])
                 /\ phase'[s] = "punching" /\ timer'[s] = timer[s]
  BY DEF LeaveIfComplete, IInv, TypeOK

LEMMA InitHandshake == Init => HandshakeInv
  BY InitIInv
  DEF Init, HandshakeInv, IdleIsFresh, PunchingIsIncomplete, AcksComeBack

LEMMA StartHandshake ==
    ASSUME HandshakeInv, NEW s \in Sides, Start(s)
    PROVE  HandshakeInv'
<1>1. phase' \in [Sides -> {"idle", "punching", "draining", "settling", "done", "failed"}]
      /\ phase'[s] = "punching" /\ \A x \in Sides \ {s} : phase'[x] = phase[x]
  BY DEF Start, HandshakeInv, IInv, TypeOK
<1>2. IdleIsFresh' /\ PunchingIsIncomplete'
  BY <1>1 DEF Start, HandshakeInv, IdleIsFresh, PunchingIsIncomplete, External
<1>3. AcksComeBack'
  BY <1>1 DEF Start, HandshakeInv, IdleIsFresh, AcksComeBack, Coming, ForSide, External
<1>4. QED
  BY <1>2, <1>3, StartIInv DEF HandshakeInv

LEMMA SendPunchHandshake ==
    ASSUME HandshakeInv, NEW s \in Sides, SendPunch(s)
    PROVE  HandshakeInv'
<1>1. PICK q \in Packet : q.src \in External(s) /\ net' = net \cup {q}
  BY SendPunchEffect
<1>2. phase[s] = "punching"
      /\ UNCHANGED <<phase, got_punch, got_punch_ack>>
  BY DEF SendPunch, Awaiting
<1>3. IdleIsFresh'
  <2>1. SUFFICES ASSUME NEW x \in Sides, phase[x] = "idle"
                 PROVE  \A m \in net' : m.src \notin External(x)
    BY <1>2 DEF HandshakeInv, IdleIsFresh, External
  <2>2. q.src \notin External(x)
    BY <1>1, <1>2, <2>1, NetworkAssumption
  <2>3. QED
    BY <1>1, <2>1, <2>2 DEF HandshakeInv, IdleIsFresh
<1>4. PunchingIsIncomplete'
  BY <1>2 DEF HandshakeInv, PunchingIsIncomplete
<1>5. \A r \in Sides : Coming("punch ack", r) => Coming("punch ack", r)'
  BY <1>1 DEF Coming, ForSide, External
<1>6. AcksComeBack'
  BY <1>2, <1>5 DEF HandshakeInv, AcksComeBack
<1>7. QED
  BY <1>3, <1>4, <1>6, SendPunchIInv DEF HandshakeInv

LEMMA RecvPunchHandshake ==
    ASSUME PromptPair, HandshakeInv, NEW s \in Sides, NEW m, RecvPunch(s, m)
    PROVE  HandshakeInv'
<1>1. m \in ForSide(s) /\ m.kind = "punch" /\ phase[s] = "punching"
  BY DEF RecvPunch, Awaiting
<1>2. PICK r \in Sides : r # s
  BY <1>1, ReceivedFromAnother DEF HandshakeInv
<1>3. PICK q \in Packet :
        /\ q.kind = "punch ack" /\ q.dst \in External(r)
        /\ net' = (net \ {m}) \cup {q}
  BY <1>2, RecvPunchEffect
<1>4. /\ \A x \in Sides \ {s} : phase'[x] = phase[x]
      /\ \/ got_punch'[s] /\ got_punch_ack'[s] /\ phase'[s] = "draining"
         \/ ~(got_punch'[s] /\ got_punch_ack'[s]) /\ phase'[s] = "punching"
  BY <1>1, LeaveDecides DEF RecvPunch, HandshakeInv
<1>5. /\ got_punch_ack' = got_punch_ack
      /\ got_punch' = [got_punch EXCEPT ![s] = TRUE]
      /\ \A x \in Sides \ {s} : got_punch'[x] = got_punch[x]
  BY DEF RecvPunch, HandshakeInv, IInv, TypeOK
<1>6. \A x \in Sides : phase'[x] # "idle"
  BY <1>1, <1>2, <1>4, PairReceives DEF PromptPair
<1>7. IdleIsFresh'
  BY <1>6 DEF IdleIsFresh
<1>8. PunchingIsIncomplete'
  BY <1>4, <1>5 DEF HandshakeInv, PunchingIsIncomplete
<1>9. Coming("punch ack", r)'
  BY <1>2, <1>3, NowComing
<1>10. Coming("punch ack", s) => Coming("punch ack", s)'
  BY <1>1, <1>3, StillComing
<1>11. AcksComeBack'
  <2>1. SUFFICES ASSUME NEW x \in Sides, NEW y \in Sides, x # y,
                        got_punch'[x], phase'[y] = "punching"
                 PROVE  got_punch_ack'[y] \/ Coming("punch ack", y)'
    BY Zenon DEF AcksComeBack
  <2>2. CASE y = r
    BY <2>2, <1>9
  <2>3. CASE y = s
    BY <2>1, <2>3, <1>1, <1>4, <1>5, <1>10 DEF HandshakeInv, AcksComeBack
  <2>4. QED
    BY <1>2, <2>2, <2>3 DEF PromptPair
<1>12. QED
  BY <1>7, <1>8, <1>11, RecvPunchIInv DEF HandshakeInv

LEMMA RecvAckHandshake ==
    ASSUME PromptPair, HandshakeInv, NEW s \in Sides, NEW m, RecvAck(s, m)
    PROVE  HandshakeInv'
<1>1. m \in ForSide(s) /\ phase[s] = "punching" /\ net' = net \ {m}
  BY DEF RecvAck, Awaiting, Unread, PromptPair
<1>2. /\ \A x \in Sides \ {s} : phase'[x] = phase[x]
      /\ \/ got_punch'[s] /\ got_punch_ack'[s] /\ phase'[s] = "draining"
         \/ ~(got_punch'[s] /\ got_punch_ack'[s]) /\ phase'[s] = "punching"
  BY <1>1, LeaveDecides DEF RecvAck, HandshakeInv
<1>3. /\ got_punch' = got_punch
      /\ got_punch_ack'[s]
      /\ \A x \in Sides \ {s} : got_punch_ack'[x] = got_punch_ack[x]
  BY DEF RecvAck, HandshakeInv, IInv, TypeOK
<1>4. IdleIsFresh'
  BY <1>1, <1>2, <1>3 DEF HandshakeInv, IdleIsFresh, External
<1>5. PunchingIsIncomplete'
  BY <1>2, <1>3 DEF HandshakeInv, PunchingIsIncomplete
<1>6. AcksComeBack'
  <2>1. SUFFICES ASSUME NEW x \in Sides, NEW y \in Sides, x # y, y # s,
                        got_punch[x], phase[y] = "punching"
                 PROVE  got_punch_ack[y] \/ Coming("punch ack", y)'
    BY <1>2, <1>3 DEF AcksComeBack
  <2>2. m.dst \notin External(y)
    BY <1>1, <2>1, PairReceives
  <2>3. Coming("punch ack", y) => Coming("punch ack", y)'
    BY <1>1, <2>2, StillComing
  <2>4. QED
    BY <2>1, <2>3 DEF HandshakeInv, AcksComeBack
<1>7. QED
  BY <1>4, <1>5, <1>6, RecvAckIInv DEF HandshakeInv

LEMMA DrainPacketHandshake ==
    ASSUME PromptPair, HandshakeInv, NEW s \in Sides, NEW m, DrainPacket(s, m)
    PROVE  HandshakeInv'
<1>1. /\ m \in ForSide(s) /\ phase[s] = "draining" /\ net' = net \ {m}
      /\ UNCHANGED <<phase, got_punch, got_punch_ack>>
  BY DEF DrainPacket, sideVars, Unread, PromptPair
<1>2. IdleIsFresh' /\ PunchingIsIncomplete'
  BY <1>1 DEF HandshakeInv, IdleIsFresh, PunchingIsIncomplete, External
<1>3. AcksComeBack'
  <2>1. SUFFICES ASSUME NEW x \in Sides, NEW y \in Sides, x # y, y # s,
                        got_punch[x], phase[y] = "punching"
                 PROVE  got_punch_ack[y] \/ Coming("punch ack", y)'
    BY <1>1 DEF AcksComeBack
  <2>2. m.dst \notin External(y)
    BY <1>1, <2>1, PairReceives
  <2>3. Coming("punch ack", y) => Coming("punch ack", y)'
    BY <1>1, <2>2, StillComing
  <2>4. QED
    BY <2>1, <2>3 DEF HandshakeInv, AcksComeBack
<1>4. QED
  BY <1>2, <1>3, DrainPacketIInv DEF HandshakeInv

\* The end of a phase and a tick start nobody, send and read nothing.
LEMMA QuietStepHandshake ==
    ASSUME HandshakeInv, IInv',
           UNCHANGED <<got_punch, got_punch_ack, net>>,
           \A x \in Sides : phase'[x] \in {"idle", "punching"} => phase'[x] = phase[x]
    PROVE  HandshakeInv'
<1>1. \A x \in Sides : Coming("punch ack", x)' <=> Coming("punch ack", x)
  BY DEF Coming, ForSide, External
<1>2. IdleIsFresh' /\ PunchingIsIncomplete'
  BY DEF HandshakeInv, IdleIsFresh, PunchingIsIncomplete, External
<1>3. AcksComeBack'
  BY <1>1 DEF HandshakeInv, AcksComeBack
<1>4. QED
  BY <1>2, <1>3 DEF HandshakeInv

LEMMA NextHandshake ==
    ASSUME PromptPair, HandshakeInv, [Next]_vars
    PROVE  HandshakeInv'
<1>1. CASE \E s \in Sides : Start(s) \/ SendPunch(s)
  BY <1>1, StartHandshake, SendPunchHandshake
<1>2. CASE \E s \in Sides : \E m \in net :
             RecvPunch(s, m) \/ RecvAck(s, m) \/ DrainPacket(s, m)
  BY <1>2, RecvPunchHandshake, RecvAckHandshake, DrainPacketHandshake
<1>3. IInv'
  BY NextIInv DEF HandshakeInv
<1>4. CASE (\E s \in Sides : Fail(s) \/ EndDrain(s) \/ EndSettle(s)) \/ Tick
           \/ UNCHANGED vars
  <2>1. /\ UNCHANGED <<got_punch, got_punch_ack, net>>
        /\ \A x \in Sides : phase'[x] \in {"idle", "punching"} => phase'[x] = phase[x]
    BY <1>4 DEF Fail, EndDrain, EndSettle, Tick, vars, sideVars, HandshakeInv, IInv,
                TypeOK
  <2>2. QED
    BY <1>3, <2>1, QuietStepHandshake
<1>5. QED
  BY <1>1, <1>2, <1>4 DEF Next, Step

LEMMA SpecHandshake ==
    ASSUME PromptPair
    PROVE  Spec => []HandshakeInv
<1>1. HandshakeInv /\ [Next]_vars => HandshakeInv'
  BY NextHandshake
<1>2. QED
  BY <1>1, InitHandshake, PTL DEF Spec

----------------------------------------------------------------------------
(* The socket that is returned *)

\* A side that has drained for a tick hears nothing more: all that was under way has
\* been read, and the other side has stopped.
DrainedIsQuiet ==
    \A s, r \in Sides :
        s # r /\ Succeeded(s) /\ ~(phase[s] = "draining" /\ timer[s] = DRAIN_WINDOW)
            => phase[r] \notin {"idle", "punching"} /\ ForSide(s) = {}

QuietInv == HandshakeInv /\ DrainedIsQuiet

\* When all that is under way has been read, a side whose peer succeeded has succeeded.
LEMMA CaughtUpSucceeds ==
    ASSUME PromptPair, HandshakeInv, CaughtUp,
           NEW s \in Sides, NEW r \in Sides, s # r, Succeeded(s)
    PROVE  phase[r] \notin {"idle", "punching"}
<1>1. got_punch[s] /\ got_punch_ack[s]
  BY DEF HandshakeInv, IInv, SuccessHasBothFlags
<1>2. got_punch[r]
  BY <1>1 DEF PromptPair, HandshakeInv, IInv, AckMeansHeard
<1>3. phase[r] # "idle"
  BY <1>2 DEF HandshakeInv, IdleIsFresh
<1>4. ASSUME phase[r] = "punching" PROVE FALSE
  <2>1. got_punch_ack[r]
    BY <1>1, <1>4, NothingComing DEF CaughtUp, HandshakeInv, AcksComeBack
  <2>2. QED
    BY <1>2, <1>4, <2>1 DEF HandshakeInv, PunchingIsIncomplete
<1>5. QED
  BY <1>3, <1>4

\* Whoever sends is not the peer of a side that is quiet.
LEMMA NobodyQuietYet ==
    ASSUME PromptPair, QuietInv, NEW s \in Sides, phase[s] \in {"idle", "punching"},
           NEW x \in Sides, NEW y \in Sides, x # y
    PROVE  ~Succeeded(x) \/ (phase[x] = "draining" /\ timer[x] = DRAIN_WINDOW)
  BY DEF PromptPair, QuietInv, DrainedIsQuiet, Succeeded

\* A step of a side that has not left the loop makes nobody quiet.
LEMMA ListenerStepQuiet ==
    ASSUME PromptPair, QuietInv, NEW s \in Sides, phase[s] \in {"idle", "punching"},
           \A x \in Sides \ {s} : phase'[x] = phase[x] /\ timer'[x] = timer[x],
           \/ phase'[s] = "punching"
           \/ phase'[s] = "draining" /\ timer'[s] = DRAIN_WINDOW
    PROVE  DrainedIsQuiet'
<1>1. SUFFICES ASSUME NEW x \in Sides, NEW y \in Sides, x # y
               PROVE  \/ ~(phase'[x] \in {"draining", "settling", "done"})
                      \/ phase'[x] = "draining" /\ timer'[x] = DRAIN_WINDOW
  BY Zenon DEF DrainedIsQuiet, Succeeded
<1>2. \/ ~Succeeded(x)
      \/ phase[x] = "draining" /\ timer[x] = DRAIN_WINDOW
  BY <1>1, NobodyQuietYet
<1>3. QED
  BY <1>2 DEF Succeeded

LEMMA RecvQuiet ==
    ASSUME PromptPair, QuietInv, NEW s \in Sides, NEW m,
           RecvPunch(s, m) \/ RecvAck(s, m)
    PROVE  DrainedIsQuiet'
<1>1. phase[s] = "punching" /\ LeaveIfComplete(s)
  BY DEF RecvPunch, RecvAck, Awaiting
<1>2. /\ \A x \in Sides \ {s} : phase'[x] = phase[x] /\ timer'[x] = timer[x]
      /\ \/ phase'[s] = "draining" /\ timer'[s] = DRAIN_WINDOW
         \/ phase'[s] = "punching"
  BY <1>1, LeaveDecides DEF QuietInv, HandshakeInv
<1>3. QED
  BY <1>1, <1>2, ListenerStepQuiet

\* The end of a phase, and a drained packet: a side whose drain phase is over has
\* drained for a tick.
LEMMA PhaseEndQuiet ==
    ASSUME DRAIN_WINDOW > 0, QuietInv, NEW s \in Sides,
           Fail(s) \/ EndDrain(s) \/ EndSettle(s) \/ \E m \in net : DrainPacket(s, m)
    PROVE  DrainedIsQuiet'
<1>1. net' \subseteq net /\ \A x \in Sides : ForSide(x)' \subseteq ForSide(x)
  BY DEF Fail, EndDrain, EndSettle, DrainPacket, sideVars, Unread, ForSide, External
<1>2. \A x \in Sides : phase'[x] \in {"idle", "punching"} => phase'[x] = phase[x]
  BY DEF Fail, EndDrain, EndSettle, DrainPacket, QuietInv, HandshakeInv, IInv, TypeOK
<1>3. \A x \in Sides : Succeeded(x)' => Succeeded(x)
  BY DEF Fail, EndDrain, EndSettle, DrainPacket, QuietInv, HandshakeInv, IInv, TypeOK,
         Succeeded
<1>4. \A x \in Sides :
        phase[x] = "draining" /\ timer[x] = DRAIN_WINDOW
            => phase'[x] = phase[x] /\ timer'[x] = timer[x]
  BY WindowsAssumption
  DEF Fail, EndDrain, EndSettle, DrainPacket, QuietInv, HandshakeInv, IInv, TypeOK,
      sideVars
<1>5. SUFFICES ASSUME NEW x \in Sides, NEW y \in Sides, x # y, Succeeded(x)',
                      ~(phase'[x] = "draining" /\ timer'[x] = DRAIN_WINDOW)
               PROVE  phase'[y] \notin {"idle", "punching"} /\ ForSide(x)' = {}
  BY Zenon DEF DrainedIsQuiet
<1>6. phase[y] \notin {"idle", "punching"} /\ ForSide(x) = {}
  BY <1>3, <1>4, <1>5 DEF QuietInv, DrainedIsQuiet
<1>7. QED
  BY <1>1, <1>2, <1>6

LEMMA TickQuiet ==
    ASSUME PromptPair, QuietInv, Tick
    PROVE  DrainedIsQuiet'
<1>1. CaughtUp /\ phase' = phase /\ net' = net
  BY DEF Tick, PromptPair
<1>2. SUFFICES ASSUME NEW x \in Sides, NEW y \in Sides, x # y, Succeeded(x)
               PROVE  phase[y] \notin {"idle", "punching"} /\ ForSide(x) = {}
  BY <1>1 DEF DrainedIsQuiet, Succeeded, ForSide, External
<1>3. phase[y] \notin {"idle", "punching"}
  BY <1>1, <1>2, CaughtUpSucceeds DEF QuietInv
<1>4. CASE phase[x] = "draining"
  BY <1>1, <1>3, <1>4 DEF CaughtUp
<1>5. CASE phase[x] # "draining"
  BY <1>2, <1>5 DEF QuietInv, DrainedIsQuiet
<1>6. QED
  BY <1>3, <1>4, <1>5

LEMMA NextQuiet ==
    ASSUME PromptPair, DRAIN_WINDOW > 0, QuietInv, [Next]_vars
    PROVE  QuietInv'
<1>1. HandshakeInv'
  BY NextHandshake DEF QuietInv
<1>2. ASSUME NEW s \in Sides, Start(s)
      PROVE  DrainedIsQuiet'
  <2>1. /\ phase[s] = "idle" /\ phase'[s] = "punching"
        /\ \A x \in Sides \ {s} : phase'[x] = phase[x] /\ timer'[x] = timer[x]
    BY <1>2 DEF Start, QuietInv, HandshakeInv, IInv, TypeOK
  <2>2. QED
    BY <2>1, ListenerStepQuiet
<1>3. ASSUME NEW s \in Sides, SendPunch(s)
      PROVE  DrainedIsQuiet'
  <2>1. phase[s] = "punching" /\ UNCHANGED <<phase, timer>>
    BY <1>3 DEF SendPunch, Awaiting
  <2>2. QED
    BY <2>1, ListenerStepQuiet
<1>4. CASE UNCHANGED vars
  <2>1. phase' = phase /\ timer' = timer /\ net' = net
    BY <1>4 DEF vars
  <2>2. \A x \in Sides : (Succeeded(x)' <=> Succeeded(x)) /\ ForSide(x)' = ForSide(x)
    BY <2>1 DEF Succeeded, ForSide, External
  <2>3. DrainedIsQuiet'
    BY <2>1, <2>2 DEF QuietInv, DrainedIsQuiet
  <2>4. QED
    BY <1>1, <2>3 DEF QuietInv
<1>5. ASSUME NEW s \in Sides, Step(s)
      PROVE  DrainedIsQuiet'
  <2>1. CASE \E m \in net : RecvPunch(s, m) \/ RecvAck(s, m)
    BY <2>1, RecvQuiet
  <2>2. CASE Fail(s) \/ EndDrain(s) \/ EndSettle(s) \/ \E m \in net : DrainPacket(s, m)
    BY <2>2, PhaseEndQuiet
  <2>3. QED
    BY <1>3, <1>5, <2>1, <2>2 DEF Step
<1>6. Tick => DrainedIsQuiet'
  BY TickQuiet
<1>7. QED
  BY <1>1, <1>2, <1>4, <1>5, <1>6 DEF Next, QuietInv

\* "Drain remaining punch/ack packets" (client.rs:292): between two sides, on a prompt
\* network, a drain phase of any length leaves a socket without handshake packets.
THEOREM SocketsAreReturnedClean ==
    ASSUME PromptPair, DRAIN_WINDOW > 0
    PROVE  Spec => []ReturnedSocketIsDrained
<1>1. Init => QuietInv
  BY InitHandshake DEF Init, QuietInv, DrainedIsQuiet, Succeeded
<1>2. QuietInv /\ [Next]_vars => QuietInv'
  BY NextQuiet
<1>3. QuietInv => ReturnedSocketIsDrained
  <2>1. SUFFICES ASSUME QuietInv, NEW s \in Sides, phase[s] = "done"
                 PROVE  ForSide(s) = {}
    BY DEF ReturnedSocketIsDrained
  <2>2. \E r \in Sides : r # s
    BY <2>1 DEF QuietInv, HandshakeInv, IInv, SuccessHasBothFlags, AckMeansHeard, Succeeded
  <2>3. QED
    BY <2>1, <2>2 DEF QuietInv, DrainedIsQuiet, Succeeded
<1>4. QED
  BY <1>1, <1>2, <1>3, PTL DEF Spec

----------------------------------------------------------------------------
(* Two shared intervals *)

\* The reported address of one of two sides is the one from which it hears the other.
\* (That of a is the address of b; the one of b may be that of a symmetric NAT.)
ReachesPeer(a, b) ==
    /\ a \in Sides /\ b \in Sides /\ a # b
    /\ Target[a] \in External(b)

\* The punches of a arrive; those of b once it has followed the source of one.
AddressesAreKnown(a, b) ==
    /\ cur_send_dst[a] \in External(b)
    /\ got_punch[b] => cur_send_dst[b] \in External(a)

\* The first punch of a waits for b, also for a b that starts later.
FirstPunchArrives(a, b) ==
    phase[a] = "punching" /\ phase[b] \in {"idle", "punching"} =>
        \/ due[a] /\ timer[a] = PUNCH_WINDOW
        \/ Coming("punch", b)
        \/ got_punch[b]

\* In the second interval that both begin, a lacks a punch only, b an acknowledgement
\* only, and b has the address that a is heard from.
SecondInterval(a, b) ==
    together >= 2 =>
        /\ together = 2
        /\ \A s \in Sides : Succeeded(s) \/ (phase[s] = "punching" /\ timer[s] > 0)
        /\ got_punch_ack[a] /\ got_punch[b]
        /\ phase[a] = "punching" /\ phase[b] = "punching" => due[b] \/ Coming("punch", a)

SharedMeansStarted == together >= 1 => \A s \in Sides : phase[s] # "idle"

ReachInv(a, b) ==
    /\ HandshakeInv
    /\ AddressesAreKnown(a, b)
    /\ FirstPunchArrives(a, b)
    /\ SecondInterval(a, b)
    /\ SharedMeansStarted

LEMMA InitReach ==
    ASSUME NEW a, NEW b, ReachesPeer(a, b), Init
    PROVE  ReachInv(a, b)
  BY InitHandshake
  DEF Init, ReachInv, ReachesPeer, AddressesAreKnown, FirstPunchArrives, SecondInterval,
      SharedMeansStarted

LEMMA StartReach ==
    ASSUME PromptPair, NEW a, NEW b, ReachesPeer(a, b), ReachInv(a, b),
           NEW s \in Sides, Start(s)
    PROVE  ReachInv(a, b)'
<1>1. /\ phase[s] = "idle" /\ phase'[s] = "punching"
      /\ timer'[s] = PUNCH_WINDOW /\ due'[s]
      /\ \A x \in Sides \ {s} : /\ phase'[x] = phase[x] /\ timer'[x] = timer[x]
                                /\ due'[x] = due[x]
      /\ UNCHANGED <<got_punch, got_punch_ack, cur_send_dst, net>>
  BY DEF Start, ReachInv, HandshakeInv, IInv, TypeOK
<1>2. HandshakeInv'
  BY StartHandshake DEF ReachInv
<1>3. AddressesAreKnown(a, b)'
  BY <1>1 DEF ReachInv, AddressesAreKnown, External
<1>4. Coming("punch", b)' <=> Coming("punch", b)
  BY <1>1 DEF Coming, ForSide, External
<1>5. FirstPunchArrives(a, b)'
  BY <1>1, <1>4 DEF ReachInv, ReachesPeer, FirstPunchArrives
<1>6. together = 0 /\ together' \in {0, 1}
  BY <1>1 DEF ReachInv, SharedMeansStarted, HandshakeInv, IInv, TypeOK, Start, Shared
<1>7. SecondInterval(a, b)'
  BY <1>6 DEF SecondInterval
<1>8. SharedMeansStarted'
  <2>1. together' = 1 => \A x \in Sides \ {s} : phase[x] = "punching"
    BY <1>6 DEF Start, Shared
  <2>2. QED
    BY <1>1, <1>6, <2>1 DEF SharedMeansStarted
<1>9. QED
  BY <1>2, <1>3, <1>5, <1>7, <1>8 DEF ReachInv

LEMMA SendPunchReach ==
    ASSUME PromptPair, NEW a, NEW b, ReachesPeer(a, b), ReachInv(a, b),
           NEW s \in Sides, SendPunch(s)
    PROVE  ReachInv(a, b)'
<1>1. PICK q \in Packet :
        /\ q.kind = "punch" /\ q.dst = cur_send_dst[s]
        /\ net' = net \cup {q}
  BY SendPunchEffect DEF ReachInv
<1>2. /\ UNCHANGED <<phase, timer, got_punch, got_punch_ack, cur_send_dst, together>>
      /\ \A x \in Sides \ {s} : due'[x] = due[x]
  BY DEF SendPunch, ReachInv, HandshakeInv, IInv, TypeOK
<1>3. HandshakeInv'
  BY SendPunchHandshake DEF ReachInv
<1>4. AddressesAreKnown(a, b)' /\ SharedMeansStarted'
  BY <1>2 DEF ReachInv, AddressesAreKnown, SharedMeansStarted, External
<1>5. \A x \in Sides : /\ Coming("punch", x) => Coming("punch", x)'
                       /\ cur_send_dst[s] \in External(x) => Coming("punch", x)'
  <2>1. TAKE x \in Sides
  <2>2. Coming("punch", x) => Coming("punch", x)'
    BY <1>1 DEF Coming, ForSide, External
  <2>3. cur_send_dst[s] \in External(x) => Coming("punch", x)'
    BY <1>1 DEF Coming, ForSide, External
  <2>4. QED
    BY <2>2, <2>3
<1>6. FirstPunchArrives(a, b)'
  BY <1>2, <1>5 DEF ReachInv, ReachesPeer, AddressesAreKnown, FirstPunchArrives
<1>7. SecondInterval(a, b)'
  BY <1>2, <1>5
  DEF ReachInv, ReachesPeer, AddressesAreKnown, SecondInterval, Succeeded
<1>8. QED
  BY <1>3, <1>4, <1>6, <1>7 DEF ReachInv

\* A packet is received: what b knows and what is under way to it only grows.
LEMMA RecvReach ==
    ASSUME PromptPair, NEW a, NEW b, ReachesPeer(a, b), ReachInv(a, b),
           NEW s \in Sides, NEW m, RecvPunch(s, m) \/ RecvAck(s, m)
    PROVE  ReachInv(a, b)'
<1>1. m \in ForSide(s) /\ phase[s] = "punching" /\ LeaveIfComplete(s)
  BY DEF RecvPunch, RecvAck, Awaiting
<1>2. /\ \A x \in Sides \ {s} : phase'[x] = phase[x] /\ timer'[x] = timer[x]
      /\ \/ /\ got_punch'[s] /\ got_punch_ack'[s]
            /\ phase'[s] = "draining" /\ timer'[s] = DRAIN_WINDOW
         \/ /\ ~(got_punch'[s] /\ got_punch_ack'[s])
            /\ phase'[s] = "punching" /\ timer'[s] = timer[s]
  BY <1>1, LeaveDecides DEF ReachInv, HandshakeInv
<1>3. /\ together' = together
      /\ \A x \in Sides \ {s} : due'[x] = due[x]
      /\ timer[s] > 0 => due'[s] = due[s]
      /\ \A x \in Sides : /\ got_punch[x] => got_punch'[x]
                          /\ got_punch_ack[x] => got_punch_ack'[x]
      /\ \A x \in Sides \ {s} : got_punch'[x] = got_punch[x]
      /\ net \ {m} \subseteq net'
  BY DEF RecvPunch, RecvAck, Awaited, Unread, ReachInv, HandshakeInv, IInv, TypeOK
<1>4. HandshakeInv'
  BY RecvPunchHandshake, RecvAckHandshake DEF ReachInv
<1>5. AddressesAreKnown(a, b)'
  <2>1. CASE RecvPunch(s, m)
    <3>1. cur_send_dst' = [cur_send_dst EXCEPT ![s] = m.src]
      BY <2>1 DEF RecvPunch, FollowSource
    <3>2. \A x \in Sides \ {s} : m.src \in External(x)
      BY <1>1, PairReceives DEF ReachInv
    <3>3. CASE s = a
      BY <1>3, <3>1, <3>2, <3>3
      DEF ReachInv, ReachesPeer, AddressesAreKnown, External, HandshakeInv, IInv, TypeOK
    <3>4. CASE s = b
      BY <1>3, <3>1, <3>2, <3>4
      DEF ReachInv, ReachesPeer, AddressesAreKnown, External, HandshakeInv, IInv, TypeOK
    <3>5. QED
      BY <3>3, <3>4 DEF PromptPair, ReachesPeer
  <2>2. CASE RecvAck(s, m)
    BY <2>2 DEF RecvAck, ReachInv, AddressesAreKnown, External
  <2>3. QED
    BY <2>1, <2>2
<1>6. \A x \in Sides : /\ x # s => (Coming("punch", x) => Coming("punch", x)')
                       /\ ~got_punch'[x] => (Coming("punch", x) => Coming("punch", x)')
  <2>1. TAKE x \in Sides
  <2>2. ASSUME x # s PROVE Coming("punch", x) => Coming("punch", x)'
    <3>1. m.dst \notin External(x)
      BY <1>1, <2>2, PairReceives DEF ReachInv
    <3>2. QED
      BY <1>3, <3>1, StillComing
  <2>3. ASSUME x = s, ~got_punch'[x] PROVE Coming("punch", x) => Coming("punch", x)'
    <3>1. m.kind # "punch"
      BY <2>3 DEF RecvPunch, RecvAck, ReachInv, HandshakeInv, IInv, TypeOK
    <3>2. QED
      BY <1>3, <3>1, StillComing
  <2>4. QED
    BY <2>2, <2>3
<1>7. FirstPunchArrives(a, b)'
  <2>1. SUFFICES ASSUME phase'[a] = "punching", phase'[b] \in {"idle", "punching"},
                        ~got_punch'[b]
                 PROVE  (due'[a] /\ timer'[a] = PUNCH_WINDOW) \/ Coming("punch", b)'
    BY Zenon DEF FirstPunchArrives
  <2>2. phase[a] = "punching" /\ phase[b] \in {"idle", "punching"} /\ timer'[a] = timer[a]
    BY <1>1, <1>2, <2>1 DEF ReachesPeer
  <2>3. (due[a] /\ timer[a] = PUNCH_WINDOW) \/ Coming("punch", b)
    BY <1>3, <2>1, <2>2 DEF ReachInv, ReachesPeer, FirstPunchArrives
  <2>4. due[a] /\ timer[a] = PUNCH_WINDOW => due'[a]
    BY <1>3, WindowsAssumption DEF ReachesPeer
  <2>5. Coming("punch", b) => Coming("punch", b)'
    BY <1>6, <2>1 DEF ReachesPeer
  <2>6. QED
    BY <2>2, <2>3, <2>4, <2>5
<1>8. SecondInterval(a, b)'
  <2>1. SUFFICES ASSUME together >= 2
                 PROVE  /\ \A x \in Sides : \/ Succeeded(x)'
                                            \/ phase'[x] = "punching" /\ timer'[x] > 0
                        /\ phase'[a] = "punching" /\ phase'[b] = "punching"
                               => due'[b] \/ Coming("punch", a)'
    BY <1>3 DEF ReachInv, ReachesPeer, SecondInterval
  <2>2. /\ \A x \in Sides : Succeeded(x) \/ (phase[x] = "punching" /\ timer[x] > 0)
        /\ got_punch_ack[a]
    BY <2>1 DEF ReachInv, SecondInterval
  <2>3. \A x \in Sides : Succeeded(x)' \/ (phase'[x] = "punching" /\ timer'[x] > 0)
    BY <1>1, <1>2, <2>2 DEF Succeeded
  <2>4. ASSUME phase'[a] = "punching", phase'[b] = "punching"
        PROVE  due'[b] \/ Coming("punch", a)'
    <3>1. phase[a] = "punching" /\ phase[b] = "punching"
      BY <1>1, <1>2, <2>4 DEF ReachesPeer
    <3>2. due[b] \/ Coming("punch", a)
      BY <2>1, <3>1 DEF ReachInv, SecondInterval
    <3>3. timer[b] > 0
      BY <2>2, <3>1 DEF Succeeded, ReachesPeer
    <3>4. ~got_punch'[a]
      BY <1>3, <1>4, <2>2, <2>4 DEF ReachesPeer, HandshakeInv, PunchingIsIncomplete
    <3>5. QED
      BY <1>3, <1>6, <3>2, <3>3, <3>4 DEF ReachesPeer
  <2>5. QED
    BY <2>3, <2>4
<1>9. SharedMeansStarted'
  BY <1>1, <1>2, <1>3 DEF ReachInv, SharedMeansStarted
<1>10. QED
  BY <1>4, <1>5, <1>7, <1>8, <1>9 DEF ReachInv

\* The end of a phase, and a drained packet.
LEMMA PhaseEndReach ==
    ASSUME PromptPair, NEW a, NEW b, ReachesPeer(a, b), ReachInv(a, b),
           NEW s \in Sides,
           Fail(s) \/ EndDrain(s) \/ EndSettle(s) \/ \E m \in net : DrainPacket(s, m)
    PROVE  ReachInv(a, b)'
<1>1. /\ UNCHANGED <<due, got_punch, got_punch_ack, cur_send_dst, together>>
      /\ \A x \in Sides \ {s} : phase'[x] = phase[x] /\ timer'[x] = timer[x]
  BY DEF Fail, EndDrain, EndSettle, DrainPacket, sideVars, ReachInv, HandshakeInv, IInv,
         TypeOK
<1>2. \/ phase[s] = "punching" /\ timer[s] = 0 /\ phase'[s] = "failed"
      \/ Succeeded(s) /\ Succeeded(s)'
  BY DEF Fail, EndDrain, EndSettle, DrainPacket, Succeeded, sideVars, ReachInv,
         HandshakeInv, IInv, TypeOK
<1>3. HandshakeInv'
  <2>1. CASE \E m \in net : DrainPacket(s, m)
    BY <2>1, DrainPacketHandshake DEF ReachInv
  <2>2. CASE Fail(s) \/ EndDrain(s) \/ EndSettle(s)
    BY <2>2, NextHandshake DEF ReachInv, Next, Step
  <2>3. QED
    BY <2>1, <2>2
<1>4. AddressesAreKnown(a, b)'
  BY <1>1 DEF ReachInv, AddressesAreKnown, External
<1>5. FirstPunchArrives(a, b)' /\ SharedMeansStarted'
  BY <1>1, <1>2
  DEF ReachInv, ReachesPeer, PromptPair, FirstPunchArrives, SharedMeansStarted, Succeeded
<1>6. SecondInterval(a, b)'
  BY <1>1, <1>2 DEF ReachInv, ReachesPeer, PromptPair, SecondInterval, Succeeded
<1>7. QED
  BY <1>3, <1>4, <1>5, <1>6 DEF ReachInv

\* After an interval in which both listened, b has a punch and a its acknowledgement.
LEMMA IntervalTeaches ==
    ASSUME PromptPair, NEW a, NEW b, ReachesPeer(a, b), ReachInv(a, b), CaughtUp,
           phase[a] = "punching", phase[b] = "punching"
    PROVE  got_punch[b] /\ got_punch_ack[a]
<1>1. ~due[a] /\ ForSide(a) = {} /\ ForSide(b) = {}
  BY DEF CaughtUp, ReachesPeer
<1>2. got_punch[b]
  BY <1>1, NothingComing DEF ReachInv, FirstPunchArrives, ReachesPeer
<1>3. got_punch_ack[a]
  BY <1>1, <1>2, NothingComing DEF ReachInv, HandshakeInv, AcksComeBack, ReachesPeer
<1>4. QED
  BY <1>2, <1>3

\* At the end of a second interval nobody is punching any more.
LEMMA SecondIntervalEnds ==
    ASSUME PromptPair, NEW a, NEW b, ReachesPeer(a, b), ReachInv(a, b), CaughtUp,
           together >= 2
    PROVE  \A s \in Sides : Succeeded(s)
<1>1. /\ \A s \in Sides : Succeeded(s) \/ phase[s] = "punching"
      /\ got_punch_ack[a]
      /\ phase[a] = "punching" /\ phase[b] = "punching" => due[b] \/ Coming("punch", a)
  BY DEF ReachInv, SecondInterval
<1>2. ~(phase[a] = "punching" /\ phase[b] = "punching")
  BY <1>1, NothingComing DEF CaughtUp, ReachesPeer
<1>3. Succeeded(a) => Succeeded(b)
  BY <1>1, CaughtUpSucceeds DEF ReachInv, ReachesPeer
<1>4. Succeeded(b) => Succeeded(a)
  BY <1>1, CaughtUpSucceeds DEF ReachInv, ReachesPeer
<1>5. Succeeded(a) /\ Succeeded(b)
  BY <1>1, <1>2, <1>3, <1>4 DEF ReachesPeer
<1>6. QED
  BY <1>5 DEF PromptPair, ReachesPeer

LEMMA TickReach ==
    ASSUME PromptPair, NEW a, NEW b, ReachesPeer(a, b), ReachInv(a, b), Tick
    PROVE  ReachInv(a, b)'
<1>1. /\ CaughtUp
      /\ UNCHANGED <<phase, got_punch, got_punch_ack, cur_send_dst, net>>
  BY DEF Tick, PromptPair
<1>2. \A x \in Sides : due'[x] = (due[x] \/ (phase[x] = "punching" /\ timer[x] > 0))
  BY Zenon DEF Tick
<1>3. HandshakeInv'
  BY NextHandshake DEF ReachInv, Next
<1>4. AddressesAreKnown(a, b)'
  BY <1>1 DEF ReachInv, AddressesAreKnown, External
<1>5. FirstPunchArrives(a, b)'
  <2>1. phase[a] = "punching" => ~due[a]
    BY <1>1 DEF CaughtUp, ReachesPeer
  <2>2. Coming("punch", b) => Coming("punch", b)'
    BY <1>1 DEF Coming, ForSide, External
  <2>3. QED
    BY <1>1, <2>1, <2>2 DEF ReachInv, FirstPunchArrives
<1>6. SharedMeansStarted'
  BY <1>1 DEF ReachInv, SharedMeansStarted, Tick, Shared
<1>7. SecondInterval(a, b)'
  <2>1. CASE together >= 2
    <3>1. \A s \in Sides : Succeeded(s)
      BY <1>1, <2>1, SecondIntervalEnds
    <3>2. a \in Sides /\ phase[a] # "punching"
      BY <3>1 DEF Succeeded, ReachesPeer
    <3>3. together' = together
      BY <3>2 DEF Tick, Shared
    <3>4. QED
      BY <1>1, <2>1, <3>1, <3>2, <3>3 DEF ReachInv, SecondInterval, Succeeded
  <2>2. CASE together < 2 /\ together' >= 2
    <3>1. /\ together' = 2
          /\ \A s \in Sides : phase[s] = "punching" /\ timer'[s] > 0
      BY <2>2 DEF Tick, Shared, ReachInv, HandshakeInv, IInv, TypeOK
    <3>2. got_punch[b] /\ got_punch_ack[a]
      BY <1>1, <3>1, IntervalTeaches DEF ReachesPeer
    <3>3. timer[b] > 0
      BY <1>1, <3>1 DEF CaughtUp, ReachesPeer
    <3>4. due'[b]
      BY <1>2, <3>1, <3>3 DEF ReachesPeer
    <3>5. QED
      BY <1>1, <3>1, <3>2, <3>4 DEF SecondInterval
  <2>3. CASE ~(together' >= 2)
    BY <2>3 DEF SecondInterval
  <2>4. QED
    BY <2>1, <2>2, <2>3 DEF ReachInv, HandshakeInv, IInv, TypeOK
<1>8. QED
  BY <1>3, <1>4, <1>5, <1>6, <1>7 DEF ReachInv

LEMMA NextReach ==
    ASSUME PromptPair, NEW a, NEW b, ReachesPeer(a, b), ReachInv(a, b), [Next]_vars
    PROVE  ReachInv(a, b)'
<1>1. ASSUME NEW s \in Sides, Step(s)
      PROVE  ReachInv(a, b)'
  <2>1. CASE \E m \in net : RecvPunch(s, m) \/ RecvAck(s, m)
    BY <2>1, RecvReach
  <2>2. CASE Fail(s) \/ EndDrain(s) \/ EndSettle(s) \/ \E m \in net : DrainPacket(s, m)
    BY <2>2, PhaseEndReach
  <2>3. QED
    BY <1>1, <2>1, <2>2, SendPunchReach DEF Step
<1>2. CASE UNCHANGED vars
  <2>1. UNCHANGED <<phase, timer, due, got_punch, got_punch_ack, cur_send_dst, net,
                    together>>
    BY <1>2 DEF vars
  <2>2. HandshakeInv'
    BY <1>2, NextHandshake DEF ReachInv
  <2>3. \A x \in Sides : /\ Coming("punch", x) => Coming("punch", x)'
                         /\ Succeeded(x) => Succeeded(x)'
    BY <2>1 DEF Coming, ForSide, External, Succeeded
  <2>4. AddressesAreKnown(a, b)' /\ FirstPunchArrives(a, b)' /\ SharedMeansStarted'
    BY <2>1, <2>3
    DEF ReachInv, ReachesPeer, AddressesAreKnown, FirstPunchArrives, SharedMeansStarted,
        External
  <2>5. SecondInterval(a, b)'
    BY <2>1, <2>3 DEF ReachInv, ReachesPeer, SecondInterval
  <2>6. QED
    BY <2>2, <2>4, <2>5 DEF ReachInv
<1>3. QED
  BY <1>1, <1>2, StartReach, TickReach DEF Next

LEMMA SpecReach ==
    ASSUME PromptPair, NEW a, NEW b, ReachesPeer(a, b)
    PROVE  Spec => []ReachInv(a, b)
<1>1. Init => ReachInv(a, b)
  BY InitReach
<1>2. ReachInv(a, b) /\ [Next]_vars => ReachInv(a, b)'
  BY NextReach
<1>3. QED
  BY <1>1, <1>2, PTL DEF Spec

\* Between two sides, on a prompt network, with one reported address that is right: no
\* side fails once two intervals were begun together, for windows of any length and any
\* offset between the starts.
THEOREM TwoSharedIntervalsAreEnough ==
    ASSUME PromptPair, NEW a, NEW b, ReachesPeer(a, b)
    PROVE  Spec => []OverlapSucceeds
<1>1. ReachInv(a, b) => OverlapSucceeds
  BY DEF ReachInv, SecondInterval, OverlapSucceeds, Succeeded
<1>2. QED
  BY <1>1, SpecReach, PTL

\* And a third interval is never begun together: the switch to the observed source is
\* known to work in the second.
THEOREM ThirdIntervalNeverComes ==
    ASSUME PromptPair, NEW a, NEW b, ReachesPeer(a, b)
    PROVE  Spec => []TwoIntervalsSuffice
<1>1. ReachInv(a, b) => TwoIntervalsSuffice
  BY DEF ReachInv, HandshakeInv, IInv, TypeOK, SecondInterval, TwoIntervalsSuffice
<1>2. QED
  BY <1>1, SpecReach, PTL

=============================================================================
