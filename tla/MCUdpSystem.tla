---------------------------- MODULE MCUdpSystem ----------------------------
(* Bounds for checking UdpSystem with TLC.  Of the durations in the code    *)
(* (requests every 3 s, slots for 10 s, signatures for 30 s, punches of less *)
(* than 1 s) only the order is kept.  A request holds at most one key, so   *)
(* that every request has the greatest length.                              *)
EXTENDS UdpSystem

CONSTANTS A, B

MCKeys == {A, B}
MCIds == 0 .. 12
MCPeerLists == {<<A>>, <<B>>}
MCNone == {}

MCDisturbances ==
    {"client restarts", "server restarts", "request is delayed",
     "request is repeated", "notification is repeated", "request is garbled",
     "acknowledgement is lost", "connection breaks"}

MCOneLost == {"notification is delayed"}

=============================================================================
