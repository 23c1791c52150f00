---------------------------- MODULE MCHolePunch ----------------------------
(* Networks for checking HolePunch with TLC.                               *)
EXTENDS HolePunch

CONSTANTS A, B,       \* the sockets of two clients
          a, b,       \* their addresses
          a0          \* the address of A that only the server can use

Pair == {A, B}
MCAddrs == {a, b, a0}

\* Neither side is behind a NAT that changes ports.
PlainNat == [s \in Pair |-> [d \in MCAddrs |-> IF s = A THEN a ELSE b]]
PlainTarget == [s \in Pair |-> IF s = A THEN b ELSE a]

\* A is behind a symmetric NAT: the server reported a0, B sees a.
SymmetricTarget == [s \in Pair |-> IF s = A THEN b ELSE a0]

=============================================================================
