------------------------------ MODULE Messages ------------------------------
(***************************************************************************)
(* The UDP datagrams (src/src/udp/messages.rs), as sequences of fields.    *)
(* Field widths are left out: a datagram is too short when a field is      *)
(* missing.  Errors are not told apart, their receivers only log them.     *)
(*                                                                         *)
(* Definitions whose comment starts with "Variant" are plausible mistakes. *)
(* No action uses them; each takes the place of the definition after it    *)
(* when one wants to see that a property notices.                          *)
(***************************************************************************)
EXTENDS Integers, Sequences

CONSTANTS
    PublicKeys,  \* the byte strings that VerifyingKey::from_bytes accepts
    MAX_PUBKEYS  \* most keys in a request (10)

PROTOCOL_VERSION == 2

\* ed25519: a signature fits one key and one message.
Sign(key, msg) == [signer |-> key, over |-> msg]

\* Variant: every signature is good.
VerifyNothing(key, msg, signature) == TRUE

Verify(key, msg, signature) == signature = Sign(key, msg)

\* ToServerSignedMessage::to_bytes panics on other lists.
CanEncode(peer_pubkeys) == Len(peer_pubkeys) \in 1 .. MAX_PUBKEYS

EncodeRequest(key, timestamp, session_id, peer_pubkeys) ==
    LET payload == <<1, session_id, Len(peer_pubkeys)>> \o peer_pubkeys
        signature == Sign(key, <<timestamp>> \o payload)
    IN  <<1, PROTOCOL_VERSION, timestamp, signature, key>> \o payload

Payload(bytes) == SubSeq(bytes, 6, Len(bytes))

\* ToServerRawMessage::try_parse succeeds.
IsRawMessage(bytes) ==
    /\ Len(bytes) >= 5
    /\ bytes[2] = PROTOCOL_VERSION
    /\ bytes[1] = 1
    /\ bytes[3] \in Int

\* Variant: the limit itself is refused.
PubkeysLenValidBelow(n) == n >= 1 /\ n < MAX_PUBKEYS

PubkeysLenValid(n) == n >= 1 /\ n <= MAX_PUBKEYS

\* ToServerSignedMessage::try_parse succeeds; bytes after the last key are not looked at.
IsRequest(bytes) ==
    LET payload == Payload(bytes) IN
    /\ IsRawMessage(bytes)
    /\ bytes[5] \in PublicKeys
    /\ Verify(bytes[5], <<bytes[3]>> \o payload, bytes[4])
    /\ Len(payload) >= 3
    /\ payload[1] = 1
    /\ PubkeysLenValid(payload[3])
    /\ Len(payload) >= 3 + payload[3]

\* What it returns, with the source address of the datagram.
ParseRequest(bytes, from) ==
    LET payload == Payload(bytes) IN
    [sender |-> bytes[5], addr |-> from, session |-> payload[2],
     peers |-> SubSeq(payload, 4, 3 + payload[3]), tm |-> bytes[3]]

\* FromServerMessage::to_bytes of the message m to the address m.to.
EncodeNotification(m) ==
    IF m.type = "Initiate"
    THEN <<1, m.peer_pubkey, m.peer_address, m.remote_session_id,
           IF m.is_listener THEN 1 ELSE 0>>
    ELSE <<2, m.peer_pubkey, m.peer_address>>

\* FromServerMessage::try_parse succeeds with an InitiateConnectionRequest.
IsInitiate(bytes) == Len(bytes) >= 5 /\ bytes[1] = 1

ParseInitiate(bytes) ==
    [peer_pubkey |-> bytes[2], peer_address |-> bytes[3],
     remote_session_id |-> bytes[4], is_listener |-> bytes[5] = 1]

=============================================================================
