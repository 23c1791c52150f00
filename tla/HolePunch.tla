----------------------------- MODULE HolePunch -----------------------------
(***************************************************************************)
(* UDP hole punching (UdpConnectionEstablisher::hole_punch,                *)
(* src/src/udp/client.rs).                                                 *)
(*                                                                         *)
(* After a match each side sends "punch" to the address the server         *)
(* reported, answers every punch with "punch ack", and succeeds once it    *)
(* has received both.  A side follows the source address of the punches it *)
(* receives, because behind a symmetric NAT that differs from the reported *)
(* one.  After success the side drains its socket, waits, and returns it.  *)
(*                                                                         *)
(* Each side runs on its own; they share only the network and the passage  *)
(* of time.  One tick stands for one punch interval.                       *)
(*                                                                         *)
(* The network is one of two: unreliable (net is the set of all packets    *)
(* ever sent; a packet is received never, once or often, in any order), or *)
(* prompt (every packet is received once, before the next tick, by a side  *)
(* that is reading).                                                       *)
(*                                                                         *)
(* Definitions whose comment starts with "Variant" are plausible mistakes. *)
(* No action uses them; each takes the place of the definition after it    *)
(* when one wants to see that a property notices.                          *)
(***************************************************************************)
EXTENDS Integers

CONSTANTS
    Sides,          \* the sockets that take part
    Addrs,          \* IPv4 socket addresses
    Target,         \* side -> the peer address reported by the server
    NatMap,         \* side -> (destination -> source address the NAT gives the packet)
    PUNCH_WINDOW,   \* duration of the three phases, in ticks
    DRAIN_WINDOW,
    SETTLE_WINDOW,
    Prompt          \* TRUE: prompt network, FALSE: unreliable network

\* The addresses on which packets reach a side.
External(s) == {NatMap[s][d] : d \in Addrs}

ASSUME NetworkAssumption ==
    /\ Target \in [Sides -> Addrs]
    /\ NatMap \in [Sides -> [Addrs -> Addrs]]
    /\ \A s \in Sides : Target[s] \notin External(s)
    /\ \A s, r \in Sides : s # r => External(s) \cap External(r) = {}
    /\ Prompt \in BOOLEAN
ASSUME WindowsAssumption ==
    /\ PUNCH_WINDOW \in Nat \ {0}
    /\ DRAIN_WINDOW \in Nat
    /\ SETTLE_WINDOW \in Nat

VARIABLES
    phase,          \* side -> where the call stands
    timer,          \* side -> ticks left until the deadline of its phase
    due,            \* side -> the punch interval has fired and is not served yet
    got_punch,
    got_punch_ack,
    cur_send_dst,   \* side -> where its punches go; the result of a success
    net,            \* packets in the network and in socket buffers
    together        \* history: intervals begun with all sides punching (3: more than 2)

sideVars == <<timer, due, got_punch, got_punch_ack, cur_send_dst>>
vars == <<phase, timer, due, got_punch, got_punch_ack, cur_send_dst, net, together>>

----------------------------------------------------------------------------

Packet == [kind : {"punch", "punch ack"}, src : Addrs, dst : Addrs]

\* What side s puts on the network when it sends to dst, as the receiver sees it.
PacketFrom(s, kind, dst) == [kind |-> kind, src |-> NatMap[s][dst], dst |-> dst]

ForSide(s) == {m \in net : m.dst \in External(s)}

\* Receiving a packet takes it out of a prompt network only.
Unread(m) == IF Prompt THEN net \ {m} ELSE net

Succeeded(s) == phase[s] \in {"draining", "settling", "done"}

----------------------------------------------------------------------------
(* Actions *)

Init ==
    /\ phase = [s \in Sides |-> "idle"]
    /\ timer = [s \in Sides |-> 0]
    /\ due = [s \in Sides |-> FALSE]
    /\ got_punch = [s \in Sides |-> FALSE]
    /\ got_punch_ack = [s \in Sides |-> FALSE]
    /\ cur_send_dst = Target
    /\ net = {}
    /\ together = 0

\* History: an interval begins; the timers become t.
Shared(sides, t) ==
    together' = IF together < 3 /\ \A s \in sides : phase[s] = "punching" /\ t[s] > 0
                THEN together + 1 ELSE together

\* The notification of the match reached this side; the interval fires at once.
Start(s) ==
    /\ phase[s] = "idle"
    /\ phase' = [phase EXCEPT ![s] = "punching"]
    /\ timer' = [timer EXCEPT ![s] = PUNCH_WINDOW]
    /\ due' = [due EXCEPT ![s] = TRUE]
    /\ Shared(Sides \ {s}, timer)
    /\ UNCHANGED <<got_punch, got_punch_ack, cur_send_dst, net>>

\* The side waits in the select.  The deadline is looked at between two waits only, so
\* one wait runs into it, and ends with one more event: the interval fires at that
\* moment, or a packet is read first.
Awaiting(s) == phase[s] = "punching" /\ (timer[s] > 0 \/ due[s])

\* The wait has ended with a packet; the one past the deadline was the last.
Awaited(s) == due' = [due EXCEPT ![s] = due[s] /\ timer[s] > 0]

\* The select branch of the interval.
SendPunch(s) ==
    /\ Awaiting(s)
    /\ due[s]
    /\ due' = [due EXCEPT ![s] = FALSE]
    /\ net' = net \cup {PacketFrom(s, "punch", cur_send_dst[s])}
    /\ UNCHANGED <<phase, timer, got_punch, got_punch_ack, cur_send_dst, together>>

\* Variant: one flag is enough.
LeaveIfEither(s) ==
    IF got_punch'[s] \/ got_punch_ack'[s]
    THEN /\ phase' = [phase EXCEPT ![s] = "draining"]
         /\ timer' = [timer EXCEPT ![s] = DRAIN_WINDOW]
    ELSE UNCHANGED <<phase, timer>>

\* Variant: no drain phase.
LeaveUndrained(s) ==
    IF got_punch'[s] /\ got_punch_ack'[s]
    THEN /\ phase' = [phase EXCEPT ![s] = "settling"]
         /\ timer' = [timer EXCEPT ![s] = SETTLE_WINDOW]
    ELSE UNCHANGED <<phase, timer>>

\* Variant: the deadline of the drain phase is reckoned from that of the exchange.
LeaveWithBothWindows(s) ==
    IF got_punch'[s] /\ got_punch_ack'[s]
    THEN /\ phase' = [phase EXCEPT ![s] = "draining"]
         /\ timer' = [timer EXCEPT ![s] = @ + DRAIN_WINDOW]
    ELSE UNCHANGED <<phase, timer>>

\* The check at the top of the loop, after a packet was handled: with both flags
\* set the exchange is over and the drain phase begins.
LeaveIfComplete(s) ==
    IF got_punch'[s] /\ got_punch_ack'[s]
    THEN /\ phase' = [phase EXCEPT ![s] = "draining"]
         /\ timer' = [timer EXCEPT ![s] = DRAIN_WINDOW]
    ELSE UNCHANGED <<phase, timer>>

\* Variant: keep to the reported address.
KeepSource(s, m) == cur_send_dst[s]

\* Where the punches of s go after the punch m.
FollowSource(s, m) == m.src

\* Variant: a side that has its acknowledgement no longer answers.
AnswerUntilAck(s, m) ==
    IF got_punch_ack[s] THEN {} ELSE {PacketFrom(s, "punch ack", m.src)}

\* Every punch is answered to where it came from.
Answer(s, m) == {PacketFrom(s, "punch ack", m.src)}

\* A punch: follow its source and acknowledge it there.
RecvPunch(s, m) ==
    /\ Awaiting(s) /\ Awaited(s)
    /\ m \in ForSide(s) /\ m.kind = "punch"
    /\ cur_send_dst' = [cur_send_dst EXCEPT ![s] = FollowSource(s, m)]
    /\ net' = Unread(m) \cup Answer(s, m)
    /\ got_punch' = [got_punch EXCEPT ![s] = TRUE]
    /\ UNCHANGED <<got_punch_ack, together>>
    /\ LeaveIfComplete(s)

\* An acknowledgement, from wherever it comes.
RecvAck(s, m) ==
    /\ Awaiting(s) /\ Awaited(s)
    /\ m \in ForSide(s) /\ m.kind = "punch ack"
    /\ got_punch_ack' = [got_punch_ack EXCEPT ![s] = TRUE]
    /\ net' = Unread(m)
    /\ UNCHANGED <<got_punch, cur_send_dst, together>>
    /\ LeaveIfComplete(s)

\* Variant: the timeout looks for both flags missing.
FailWithNeither(s) ==
    /\ phase[s] = "punching" /\ timer[s] = 0
    /\ ~got_punch[s] /\ ~got_punch_ack[s]
    /\ phase' = [phase EXCEPT ![s] = "failed"]
    /\ UNCHANGED <<sideVars, net, together>>

\* The deadline passes with a flag missing: HolePunchError.
Fail(s) ==
    /\ phase[s] = "punching" /\ timer[s] = 0
    /\ phase' = [phase EXCEPT ![s] = "failed"]
    /\ UNCHANGED <<sideVars, net, together>>

\* Packets that arrive while draining are read and dropped, not acknowledged.
DrainPacket(s, m) ==
    /\ phase[s] = "draining" /\ timer[s] > 0
    /\ m \in ForSide(s)
    /\ net' = Unread(m)
    /\ UNCHANGED <<phase, sideVars, together>>

EndDrain(s) ==
    /\ phase[s] = "draining" /\ timer[s] = 0
    /\ phase' = [phase EXCEPT ![s] = "settling"]
    /\ timer' = [timer EXCEPT ![s] = SETTLE_WINDOW]
    /\ UNCHANGED <<due, got_punch, got_punch_ack, cur_send_dst, net, together>>

\* Return Ok(cur_send_dst); the socket goes to the caller.
EndSettle(s) ==
    /\ phase[s] = "settling" /\ timer[s] = 0
    /\ phase' = [phase EXCEPT ![s] = "done"]
    /\ UNCHANGED <<sideVars, net, together>>

\* In a prompt network nobody who is reading is left behind when time passes.
CaughtUp ==
    \A s \in Sides :
        /\ phase[s] \in {"punching", "draining", "settling"} => timer[s] > 0
        /\ phase[s] = "punching" => ~due[s]
        /\ phase[s] \in {"punching", "draining"} => ForSide(s) = {}

Tick ==
    /\ \E s \in Sides : timer[s] > 0
    /\ Prompt => CaughtUp
    /\ timer' = [s \in Sides |-> IF timer[s] > 0 THEN timer[s] - 1 ELSE 0]
    /\ due' = [s \in Sides |-> due[s] \/ (phase[s] = "punching" /\ timer[s] > 0)]
    /\ Shared(Sides, timer')
    /\ UNCHANGED <<phase, got_punch, got_punch_ack, cur_send_dst, net>>

Step(s) ==
    \/ SendPunch(s)
    \/ \E m \in net : RecvPunch(s, m) \/ RecvAck(s, m) \/ DrainPacket(s, m)
    \/ Fail(s) \/ EndDrain(s) \/ EndSettle(s)

Next ==
    \/ \E s \in Sides : Start(s) \/ Step(s)
    \/ Tick

Spec == Init /\ [][Next]_vars

\* Time passes, and a task whose deadline has come runs.  Nothing is assumed of the
\* network or of the start of the other side.
FairSpec ==
    /\ Spec
    /\ WF_vars(Tick)
    /\ \A s \in Sides : WF_vars(Fail(s) \/ EndDrain(s) \/ EndSettle(s))

----------------------------------------------------------------------------
(* Properties *)

\* How long a phase lasts at most; the others are over at once.
Window(p) ==
    CASE p = "punching" -> PUNCH_WINDOW
      [] p = "draining" -> DRAIN_WINDOW
      [] p = "settling" -> SETTLE_WINDOW
      [] OTHER -> 0

WithinWindows == \A s \in Sides : timer[s] <= Window(phase[s])

\* Every variable has the type the code gives it, and no phase has longer to go than its
\* own window, whatever was left of the one before: together they are the 900 ms after
\* which the caller of hole_punch has its socket at the latest.
TypeOK ==
    /\ phase \in [Sides -> {"idle", "punching", "draining", "settling", "done", "failed"}]
    /\ timer \in [Sides -> Nat]
    /\ WithinWindows
    /\ due \in [Sides -> BOOLEAN]
    /\ got_punch \in [Sides -> BOOLEAN]
    /\ got_punch_ack \in [Sides -> BOOLEAN]
    /\ cur_send_dst \in [Sides -> Addrs]
    /\ net \subseteq Packet
    /\ together \in 0 .. 3

\* A success is never imaginary: whoever succeeds was heard by another side.  So when
\* two sides disagree the one that failed did receive punches, and its error is "We
\* got punch but did not receive ack", never "Did not receive packets at all".
SuccessWasHeard ==
    \A s \in Sides : Succeeded(s) =>
        /\ got_punch[s] /\ got_punch_ack[s]
        /\ \E r \in Sides \ {s} : got_punch[r]

\* With a prompt network no side fails when the windows of the sides share two
\* intervals.  (They can disagree when less is left: the last wait of a side that fails
\* can acknowledge the punch that lets the other succeed.)
OverlapSucceeds ==
    together >= 2 => \A s \in Sides : phase[s] # "failed"

\* With a prompt network two sides never begin a third interval together, one of them
\* behind a symmetric NAT or not: the switch to the observed source address is what
\* makes the punches of the second interval reach the other side.
TwoIntervalsSuffice == together <= 2

\* "Drain remaining punch/ack packets" (client.rs:292): with a prompt network the
\* caller of hole_punch never reads a packet of the handshake from the socket.
ReturnedSocketIsDrained ==
    \A s \in Sides : phase[s] = "done" => ForSide(s) = {}

\* The caller always gets an answer: a started hole punch returns.
PunchReturns ==
    \A s \in Sides : phase[s] = "punching" ~> phase[s] \in {"done", "failed"}

\* "The returned connection has already completed the full hole punch handshake and
\* is ready for immediate send/recv use" (client.rs:325): a side that returns Ok has a
\* peer that did not give up.
ReturnedConnectionIsReady ==
    \A s \in Sides : phase[s] = "done" =>
        \E r \in Sides \ {s} : phase[r] # "failed"

=============================================================================
