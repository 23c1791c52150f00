-------------------------- MODULE UdpSystemProofs --------------------------
(***************************************************************************)
(* Proofs about the datagrams to the server, for any keys, lists of peers  *)
(* and durations: a request is read as it was written, its signature       *)
(* leaves no field open, and one that was changed on its way is never      *)
(* acted on.  And about the server between real clients: it keeps the      *)
(* promise of Matchmaker, restarts included.                               *)
(***************************************************************************)
EXTENDS UdpSystem, UdpServerProofs, SequenceTheorems

----------------------------------------------------------------------------
(* The inductive invariant *)

\* The bytes are a client's request for its peer, signed by that client.
Intact(b) ==
    /\ b[5] \in Clients
    /\ b = EncodeRequest(b[5], b[3], b[7], <<Other(b[5])>>)

IsMessage(m) ==
    /\ m = [to |-> m.to, addr |-> m.addr, garbled |-> m.garbled, bytes |-> m.bytes]
    /\ m.garbled \in BOOLEAN

\* A request that is about to arrive is intact, or garbled so that it does not parse.
WireIsAuthentic ==
    \A m \in wire :
        /\ IsMessage(m)
        /\ m.to = "server" => IF m.garbled THEN ~IsRequest(m.bytes) ELSE Intact(m.bytes)
        /\ m.garbled => m.to = "server"

\* Only what is intact is delayed or repeated.
DelayedIsAuthentic ==
    \A m \in delayed :
        /\ IsMessage(m) /\ ~m.garbled
        /\ m.to = "server" => Intact(m.bytes)

Authentic == WireIsAuthentic /\ DelayedIsAuthentic

----------------------------------------------------------------------------
(* What is signed *)

SignedPart(b) == <<b[3]>> \o Payload(b)

\* The signature fits, and the two fields it does not cover are what they must be.
Signed(b) ==
    /\ Len(b) >= 5
    /\ b[1] = 1 /\ b[2] = PROTOCOL_VERSION
    /\ Verify(b[5], SignedPart(b), b[4])

LEMMA PayloadFields ==
    ASSUME NEW S, NEW b \in Seq(S), Len(b) >= 5
    PROVE  /\ Payload(b) \in Seq(S)
           /\ Len(Payload(b)) = Len(b) - 5
           /\ \A i \in 1 .. Len(b) - 5 : Payload(b)[i] = b[i + 5]
<1>1. Len(b) \in Nat /\ \A i \in 6 .. Len(b) : b[i] \in S
  OBVIOUS
<1>2. /\ SubSeq(b, 6, Len(b)) \in Seq(S)
      /\ Len(SubSeq(b, 6, Len(b))) = IF 6 <= Len(b) THEN Len(b) - 6 + 1 ELSE 0
      /\ \A i \in 1 .. Len(b) - 6 + 1 : SubSeq(b, 6, Len(b))[i] = b[6 + i - 1]
  BY <1>1, SubSeqProperties
<1>3. Len(b) - 6 + 1 = Len(b) - 5 /\ \A i \in 1 .. Len(b) - 5 : 6 + i - 1 = i + 5
  BY <1>1
<1>4. Payload(b) = SubSeq(b, 6, Len(b))
  BY DEF Payload
<1>5. Len(Payload(b)) = Len(b) - 5
  BY <1>1, <1>2, <1>3, <1>4
<1>6. \A i \in 1 .. Len(b) - 5 : Payload(b)[i] = b[i + 5]
  BY <1>2, <1>3, <1>4
<1>7. QED
  BY <1>2, <1>4, <1>5, <1>6

\* A signature fits one key and one message.
LEMMA SignatureIsUnique ==
    ASSUME NEW j, NEW k, NEW m, NEW n, Sign(j, m) = Sign(k, n)
    PROVE  j = k /\ m = n
BY DEF Sign

LEMMA SignedFields ==
    ASSUME NEW S, NEW b \in Seq(S), Len(b) >= 5
    PROVE  /\ SignedPart(b) \in Seq(S)
           /\ Len(SignedPart(b)) = Len(b) - 4
           /\ SignedPart(b)[1] = b[3]
           /\ \A i \in 2 .. Len(b) - 4 : SignedPart(b)[i] = b[i + 4]
<1> DEFINE p == Payload(b)
           c == <<b[3]>> \o p
<1>1. /\ Len(b) \in Nat /\ <<b[3]>> \in Seq(S) /\ Len(<<b[3]>>) = 1 /\ <<b[3]>>[1] = b[3]
  OBVIOUS
<1>2. /\ p \in Seq(S) /\ Len(p) = Len(b) - 5
      /\ \A i \in 1 .. Len(b) - 5 : p[i] = b[i + 5]
  BY PayloadFields
<1> HIDE DEF p
<1>3. /\ c \in Seq(S) /\ Len(c) = 1 + Len(p)
      /\ \A i \in 1 .. 1 + Len(p) : c[i] = IF i <= 1 THEN b[3] ELSE p[i - 1]
  BY <1>1, <1>2, ConcatProperties
<1>4. SignedPart(b) = c
  BY DEF SignedPart, p
<1> HIDE DEF c
<1>5. QED
  BY <1>1, <1>2, <1>3, <1>4

\* Two signed datagrams with the same signature are the same.
LEMMA SignatureFixesAll ==
    ASSUME NEW S, NEW a \in Seq(S), NEW b \in Seq(S), Signed(a), Signed(b), a[4] = b[4]
    PROVE  a = b
<1>1. /\ Len(a) \in Nat /\ Len(a) >= 5 /\ a[1] = 1 /\ a[2] = PROTOCOL_VERSION
      /\ Len(b) \in Nat /\ Len(b) >= 5 /\ b[1] = 1 /\ b[2] = PROTOCOL_VERSION
  BY DEF Signed
<1>2. Sign(a[5], SignedPart(a)) = Sign(b[5], SignedPart(b))
  BY DEF Signed, Verify
<1>3. a[5] = b[5] /\ SignedPart(a) = SignedPart(b)
  BY <1>2, SignatureIsUnique
<1>4. Len(a) = Len(b) /\ a[3] = b[3] /\ \A i \in 2 .. Len(a) - 4 : a[i + 4] = b[i + 4]
  <2>1. /\ Len(SignedPart(a)) = Len(a) - 4 /\ SignedPart(a)[1] = a[3]
        /\ \A i \in 2 .. Len(a) - 4 : SignedPart(a)[i] = a[i + 4]
    BY <1>1, SignedFields
  <2>2. /\ Len(SignedPart(b)) = Len(b) - 4 /\ SignedPart(b)[1] = b[3]
        /\ \A i \in 2 .. Len(b) - 4 : SignedPart(b)[i] = b[i + 4]
    BY <1>1, SignedFields
  <2>3. QED
    BY <1>1, <1>3, <2>1, <2>2
<1>5. ASSUME NEW i \in 1 .. Len(a) PROVE a[i] = b[i]
  <2>1. CASE i \in 1 .. 5
    <3>1. i = 1 \/ i = 2 \/ i = 3 \/ i = 4 \/ i = 5
      BY <2>1
    <3>2. QED
      BY <1>1, <1>3, <1>4, <3>1
  <2>2. CASE i \notin 1 .. 5
    <3>1. i - 4 \in 2 .. Len(a) - 4 /\ (i - 4) + 4 = i
      BY <1>1, <2>2
    <3>2. QED
      BY <1>4, <3>1
  <2>3. QED
    BY <2>1, <2>2
<1>6. QED
  BY <1>4, <1>5, SeqEqual

LEMMA RequestIsSigned ==
    ASSUME NEW b, IsRequest(b)
    PROVE  Signed(b)
BY DEF IsRequest, IsRawMessage, Signed, SignedPart

----------------------------------------------------------------------------
(* The format of a request *)

\* What b holds when it is an encoded request.
HasFields(b, key, tm, sid, peers) ==
    /\ \E S : b \in Seq(S)
    /\ Len(b) = 8 + Len(peers)
    /\ b[1] = 1 /\ b[2] = PROTOCOL_VERSION /\ b[3] = tm /\ b[5] = key
    /\ Payload(b) = <<1, sid, Len(peers)>> \o peers
    /\ b[4] = Sign(key, SignedPart(b))
    /\ b[6] = 1 /\ b[7] = sid /\ b[8] = Len(peers)
    /\ \A i \in 1 .. Len(peers) : b[i + 8] = peers[i]

LEMMA EncodedFields ==
    ASSUME NEW K, NEW peers \in Seq(K), NEW key, NEW tm, NEW sid,
           NEW b, b = EncodeRequest(key, tm, sid, peers)
    PROVE  HasFields(b, key, tm, sid, peers)
<1> DEFINE front == <<1, sid, Len(peers)>>
           payload == front \o peers
           signature == Sign(key, <<tm>> \o payload)
           head == <<1, PROTOCOL_VERSION, tm, signature, key>>
           S == K \cup {1, PROTOCOL_VERSION, tm, signature, key, sid, Len(peers)}
<1>1. b = head \o payload
  BY DEF EncodeRequest
<1>2. /\ Len(peers) \in Nat
      /\ front \in Seq(S) /\ Len(front) = 3
      /\ front[1] = 1 /\ front[2] = sid /\ front[3] = Len(peers)
  <2> HIDE DEF signature
  <2>1. QED
    OBVIOUS
<1>3. /\ head \in Seq(S) /\ Len(head) = 5
      /\ head[1] = 1 /\ head[2] = PROTOCOL_VERSION /\ head[3] = tm /\ head[4] = signature
      /\ head[5] = key
  <2> HIDE DEF signature
  <2>1. QED
    OBVIOUS
<1>4. peers \in Seq(S)
  <2>1. K \subseteq S
    OBVIOUS
  <2> HIDE DEF S
  <2>2. QED
    BY <2>1, SeqMonotonic
<1> HIDE DEF front, head, S, signature
<1>5. /\ payload \in Seq(S) /\ Len(payload) = 3 + Len(peers)
      /\ \A i \in 1 .. 3 + Len(peers) :
           payload[i] = IF i <= 3 THEN front[i] ELSE peers[i - 3]
  <2>1. /\ payload \in Seq(S) /\ Len(payload) = Len(front) + Len(peers)
        /\ \A i \in 1 .. Len(front) + Len(peers) :
             payload[i] = IF i <= Len(front) THEN front[i] ELSE peers[i - Len(front)]
    BY <1>2, <1>4, ConcatProperties, Zenon
  <2>2. QED
    BY <1>2, <2>1
<1> HIDE DEF payload
<1>6. /\ b \in Seq(S) /\ Len(b) = 8 + Len(peers)
      /\ \A i \in 1 .. 8 + Len(peers) :
           b[i] = IF i <= 5 THEN head[i] ELSE payload[i - 5]
  <2>1. /\ head \o payload \in Seq(S) /\ Len(head \o payload) = Len(head) + Len(payload)
        /\ \A i \in 1 .. Len(head) + Len(payload) :
             (head \o payload)[i] = IF i <= Len(head) THEN head[i] ELSE payload[i - Len(head)]
    BY <1>3, <1>5, ConcatProperties, Zenon
  <2>2. Len(head) + Len(payload) = 8 + Len(peers)
    BY <1>2, <1>3, <1>5
  <2>3. QED
    BY <1>1, <1>3, <2>1, <2>2
<1>7. b[1] = 1 /\ b[2] = PROTOCOL_VERSION /\ b[3] = tm /\ b[4] = signature /\ b[5] = key
  BY <1>2, <1>3, <1>6
<1>8. \A i \in 1 .. 3 + Len(peers) : b[i + 5] = payload[i]
  <2> TAKE i \in 1 .. 3 + Len(peers)
  <2>1. i + 5 \in 1 .. 8 + Len(peers) /\ ~ (i + 5 <= 5) /\ (i + 5) - 5 = i
    BY <1>2
  <2>2. QED
    BY <1>6, <2>1
<1>9. Payload(b) = payload
  <2>1. /\ Payload(b) \in Seq(S) /\ Len(Payload(b)) = Len(b) - 5
        /\ \A i \in 1 .. Len(b) - 5 : Payload(b)[i] = b[i + 5]
    BY <1>2, <1>6, PayloadFields
  <2>2. Len(b) - 5 = 3 + Len(peers) /\ Len(b) - 5 = Len(payload)
    BY <1>2, <1>5, <1>6
  <2>3. \A i \in 1 .. Len(payload) : Payload(b)[i] = payload[i]
    BY <1>8, <2>1, <2>2
  <2>4. QED
    BY <1>5, <2>1, <2>2, <2>3, SeqEqual
<1>10. b[4] = Sign(key, SignedPart(b))
  BY <1>7, <1>9 DEF SignedPart, signature
<1>11. b[6] = 1 /\ b[7] = sid /\ b[8] = Len(peers)
  <2>1. 1 \in 1 .. 3 + Len(peers) /\ 2 \in 1 .. 3 + Len(peers) /\ 3 \in 1 .. 3 + Len(peers)
    BY <1>2
  <2>2. b[1 + 5] = payload[1] /\ b[2 + 5] = payload[2] /\ b[3 + 5] = payload[3]
    BY ONLY <1>8, <2>1
  <2>3. payload[1] = front[1] /\ payload[2] = front[2] /\ payload[3] = front[3]
    BY <1>5, <2>1
  <2>4. QED
    BY <1>2, <2>2, <2>3
<1>12. \A i \in 1 .. Len(peers) : b[i + 8] = peers[i]
  <2> TAKE i \in 1 .. Len(peers)
  <2>1. /\ i + 3 \in 1 .. 3 + Len(peers) /\ ~ (i + 3 <= 3) /\ (i + 3) - 3 = i
        /\ (i + 3) + 5 = i + 8
    BY <1>2
  <2>2. b[i + 8] = payload[i + 3]
    BY <1>8, <2>1
  <2>3. QED
    BY <1>5, <2>1, <2>2
<1>13. QED
  BY <1>6, <1>7, <1>9, <1>10, <1>11, <1>12 DEF HasFields, payload, front

\* ToServerSignedMessage::try_parse reads what to_bytes wrote, from every list of peers
\* that to_bytes accepts.
THEOREM RequestsAreRead ==
    ASSUME NEW key \in PublicKeys, NEW tm \in Int, NEW sid, NEW peers \in Seq(PublicKeys),
           CanEncode(peers), NEW from
    PROVE  LET b == EncodeRequest(key, tm, sid, peers) IN
           /\ IsRequest(b)
           /\ ParseRequest(b, from) = [sender |-> key, addr |-> from, session |-> sid,
                                      peers |-> peers, tm |-> tm]
<1> DEFINE b == EncodeRequest(key, tm, sid, peers)
           n == Len(peers)
           front == <<1, sid, n>>
           p == front \o peers
<1>1. /\ \E S : b \in Seq(S)
      /\ Len(b) = 8 + n
      /\ b[1] = 1 /\ b[2] = PROTOCOL_VERSION /\ b[3] = tm /\ b[5] = key
      /\ Payload(b) = p
      /\ b[4] = Sign(key, SignedPart(b))
  <2>1. b = EncodeRequest(key, tm, sid, peers)
    OBVIOUS
  <2> HIDE DEF b
  <2>2. HasFields(b, key, tm, sid, peers)
    BY <2>1, EncodedFields, Zenon
  <2>3. QED
    BY <2>2 DEF HasFields
<1>2. n \in Nat /\ n >= 1 /\ PubkeysLenValid(n)
  BY DEF CanEncode, PubkeysLenValid
<1> HIDE DEF b
<1>3. Len(p) = 3 + n /\ p[1] = 1 /\ p[2] = sid /\ p[3] = n /\ SubSeq(p, 4, 3 + n) = peers
  <2> DEFINE S == PublicKeys \cup {1, sid, n}
  <2>1. /\ front \in Seq(S) /\ Len(front) = 3
        /\ front[1] = 1 /\ front[2] = sid /\ front[3] = n
    <3> HIDE DEF n
    <3> QED  OBVIOUS
  <2>2. peers \in Seq(S)
    <3>1. PublicKeys \subseteq S
      OBVIOUS
    <3> HIDE DEF S
    <3>2. QED
      BY <3>1, SeqMonotonic
  <2> HIDE DEF S, front
  <2>3. /\ p \in Seq(S) /\ Len(p) = Len(front) + Len(peers)
        /\ \A i \in 1 .. Len(front) + Len(peers) :
             p[i] = IF i <= Len(front) THEN front[i] ELSE peers[i - Len(front)]
    BY <2>1, <2>2, ConcatProperties, Zenon
  <2> HIDE DEF p
  <2>4. /\ Len(p) = 3 + n
        /\ \A i \in 1 .. 3 + n : p[i] = IF i <= 3 THEN front[i] ELSE peers[i - 3]
    BY <2>1, <2>3
  <2>5. p[1] = 1 /\ p[2] = sid /\ p[3] = n
    BY <1>2, <2>1, <2>4
  <2> DEFINE q == SubSeq(p, 4, 3 + n)
  <2>6. /\ q \in Seq(S)
        /\ Len(q) = IF 4 <= 3 + n THEN 3 + n - 4 + 1 ELSE 0
        /\ \A i \in 1 .. 3 + n - 4 + 1 : q[i] = p[4 + i - 1]
    <3>1. 4 \in Int /\ 3 + n \in Int /\ \A i \in 4 .. 3 + n : p[i] \in S
      BY <1>2, <2>3, <2>4
    <3>2. QED
      BY <3>1, SubSeqProperties
  <2> HIDE DEF q
  <2>7. Len(q) = Len(peers)
    BY <1>2, <2>6
  <2>8. ASSUME NEW i \in 1 .. Len(q) PROVE q[i] = peers[i]
    <3>1. i \in 1 .. 3 + n - 4 + 1 /\ i \in 1 .. n
      BY <1>2, <2>7
    <3>2. q[i] = p[4 + i - 1]
      BY <2>6, <3>1
    <3>3. 4 + i - 1 \in 1 .. 3 + n /\ ~ (4 + i - 1 <= 3) /\ 4 + i - 1 - 3 = i
      BY <1>2, <3>1
    <3>4. p[4 + i - 1] = peers[4 + i - 1 - 3]
      BY <2>4, <3>3
    <3>5. QED
      BY <3>2, <3>3, <3>4
  <2>9. q = peers
    BY <2>2, <2>6, <2>7, <2>8, SeqEqual
  <2>10. QED
    BY <2>4, <2>5, <2>9 DEF q
<1> HIDE DEF p
<1>4. IsRawMessage(b)
  BY <1>1, <1>2 DEF IsRawMessage
<1>5. Verify(b[5], <<b[3]>> \o Payload(b), b[4])
  BY <1>1 DEF Verify, SignedPart
<1>6. IsRequest(b)
  BY <1>1, <1>2, <1>3, <1>4, <1>5 DEF IsRequest
<1>7. ParseRequest(b, from) = [sender |-> key, addr |-> from, session |-> sid,
                               peers |-> peers, tm |-> tm]
  BY <1>1, <1>3 DEF ParseRequest
<1>8. QED
  BY <1>6, <1>7 DEF b

\* A request that was changed, cut off or lengthened on its way does not parse.
LEMMA GarbledDoesNotParse ==
    ASSUME NEW b, Intact(b), NEW g \in Garbled(b), g # b
    PROVE  ~ IsRequest(g)
<1>1. SUFFICES ASSUME Signed(g) PROVE FALSE
  BY RequestIsSigned
<1>2. PICK key, tm, sid, K, peers :
        peers \in Seq(K) /\ Len(peers) = 1 /\ b = EncodeRequest(key, tm, sid, peers)
  <2>1. <<Other(b[5])>> \in Seq({Other(b[5])}) /\ Len(<<Other(b[5])>>) = 1
    OBVIOUS
  <2>2. QED
    BY <2>1, Zenon DEF Intact
<1>3. /\ \E S : b \in Seq(S)
      /\ Len(b) = 9
      /\ b[1] = 1 /\ b[2] = PROTOCOL_VERSION
      /\ b[5] = key /\ b[4] = Sign(key, SignedPart(b))
  <2>1. HasFields(b, key, tm, sid, peers)
    BY <1>2, EncodedFields, Zenon
  <2>2. QED
    BY <1>2, <2>1 DEF HasFields
<1>4. PICK S : b \in Seq(S)
  BY <1>3
<1>5. Signed(b)
  BY <1>3 DEF Signed, Verify
<1>6. ASSUME NEW i \in 1 .. 9, NEW x, g = [b EXCEPT ![i] = x], g[4] = b[4]
      PROVE  FALSE
  <2>1. b \in Seq(S \cup {x})
    BY <1>4, SeqMonotonic
  <2>2. g \in Seq(S \cup {x})
    BY <1>3, <1>6, <2>1, ExceptSeq
  <2>3. QED
    BY <1>1, <1>5, <1>6, <2>1, <2>2, SignatureFixesAll
<1>7. ASSUME NEW i \in 1 .. 9, i # 4, NEW x, g = [b EXCEPT ![i] = x]
      PROVE  FALSE
  <2>1. g[4] = b[4]
    BY <1>3, <1>4, <1>7
  <2>2. QED
    BY <1>6, <1>7, <2>1
<1>8. ASSUME NEW k, g = [b EXCEPT ![4].signer = k]
      PROVE  FALSE
  <2> DEFINE x == [b[4] EXCEPT !.signer = k]
  <2>1. g = [b EXCEPT ![4] = x]
    BY <1>8
  <2>2. b[4] = [signer |-> b[5], over |-> SignedPart(b)]
    BY <1>3 DEF Sign
  <2>3. x = [signer |-> k, over |-> SignedPart(b)]
    BY <2>2
  <2> HIDE DEF x
  <2>4. g[4] = x /\ g[5] = b[5]
    BY <1>3, <1>4, <2>1
  <2>5. Sign(g[5], SignedPart(g)) = Sign(k, SignedPart(b))
    BY <1>1, <2>3, <2>4 DEF Signed, Verify, Sign
  <2>6. k = b[5]
    BY <2>4, <2>5, SignatureIsUnique
  <2>7. g[4] = b[4]
    BY <2>2, <2>3, <2>4, <2>6
  <2>8. 4 \in 1 .. 9
    OBVIOUS
  <2>9. QED
    BY <1>6, <2>1, <2>7, <2>8, Zenon
<1>9. ASSUME NEW n \in 0 .. Len(b) - 1, g = SubSeq(b, 1, n)
      PROVE  FALSE
  <2>1. g \in Seq(S) /\ Len(g) = n /\ \A i \in 1 .. n : g[i] = b[i]
    BY <1>3, <1>4, <1>9
  <2>2. n >= 5
    BY <1>1, <2>1 DEF Signed
  <2>3. g = b
    BY <1>1, <1>4, <1>5, <2>1, <2>2, SignatureFixesAll
  <2>4. QED
    BY <2>3
<1>10. ASSUME NEW k, g = Append(b, k)
       PROVE  FALSE
  <2>1. b \in Seq(S \cup {k})
    BY <1>4, SeqMonotonic
  <2>2. PICK T : b \in Seq(T) /\ k \in T
    BY <2>1
  <2>3. Append(b, k) \in Seq(T) /\ Len(Append(b, k)) = Len(b) + 1
        /\ \A i \in 1 .. Len(b) : Append(b, k)[i] = b[i]
    BY <2>2, AppendProperties
  <2>4. g \in Seq(T) /\ Len(g) = 10 /\ g[4] = b[4]
    BY <1>3, <1>10, <2>3
  <2>5. g = b
    BY <1>1, <1>5, <2>2, <2>4, SignatureFixesAll
  <2>6. QED
    BY <1>3, <2>4, <2>5
<1>11. QED
  <2>1. \/ \E i \in {1, 2, 3, 6, 7, 8} : g = [b EXCEPT ![i] = b[i] + 1]
        \/ \E i \in {5, 9} : \E k \in Keys : g = [b EXCEPT ![i] = k]
        \/ \E k \in Keys : g = [b EXCEPT ![4].signer = k]
        \/ \E n \in 0 .. Len(b) - 1 : g = SubSeq(b, 1, n)
        \/ \E k \in Keys : g = Append(b, k)
    BY DEF Garbled
  <2>2. \A i \in {1, 2, 3, 5, 6, 7, 8, 9} : i \in 1 .. 9 /\ i # 4
    OBVIOUS
  <2>3. QED
    BY <1>7, <1>8, <1>9, <1>10, <2>1, <2>2

\* A client's request for its peer is intact when it is sent.
LEMMA RequestsAreIntact ==
    ASSUME NEW k \in Clients, NEW tm, NEW sid
    PROVE  Intact(EncodeRequest(k, tm, sid, <<Other(k)>>))
<1>1. PICK K, peers : peers \in Seq(K) /\ Len(peers) = 1 /\ peers = <<Other(k)>>
  <2>1. <<Other(k)>> \in Seq({Other(k)}) /\ Len(<<Other(k)>>) = 1
    OBVIOUS
  <2>2. QED
    BY <2>1, Zenon
<1>2. PICK b : b = EncodeRequest(k, tm, sid, peers)
  OBVIOUS
<1>3. HasFields(b, k, tm, sid, peers)
  BY <1>1, <1>2, EncodedFields, Zenon
<1>4. b[5] = k /\ b[3] = tm /\ b[7] = sid
  BY <1>3 DEF HasFields
<1>5. Intact(b)
  BY <1>1, <1>2, <1>4, Zenon DEF Intact
<1>6. QED
  BY <1>1, <1>2, <1>5, Zenon

LEMMA ChangedField ==
    ASSUME NEW S, NEW s \in Seq(S), NEW i \in 1 .. Len(s), NEW x \in S,
           NEW t, t = [s EXCEPT ![i] = x]
    PROVE  /\ t \in Seq(S) /\ Len(t) = Len(s)
           /\ \A j \in 1 .. Len(s) : t[j] = IF j = i THEN x ELSE s[j]
BY ExceptSeq

\* Aged turns a request into the one that was signed at the other time.
LEMMA ResignedIsIntact ==
    ASSUME NEW b, Intact(b), NEW tm
    PROVE  Intact([b EXCEPT ![3] = tm, ![4] = Sign(b[5], <<tm>> \o Payload(b))])
<1>1. PICK K, peers : peers \in Seq(K) /\ Len(peers) = 1 /\ peers = <<Other(b[5])>>
  <2>1. <<Other(b[5])>> \in Seq({Other(b[5])}) /\ Len(<<Other(b[5])>>) = 1
    OBVIOUS
  <2>2. QED
    BY <2>1, Zenon
<1>2. PICK e : e = EncodeRequest(b[5], tm, b[7], peers)
  OBVIOUS
<1>3. HasFields(e, b[5], tm, b[7], peers)
  BY <1>1, <1>2, EncodedFields, Zenon
<1>4. HasFields(b, b[5], b[3], b[7], peers)
  <2>1. b = EncodeRequest(b[5], b[3], b[7], peers)
    BY <1>1, Zenon DEF Intact
  <2>2. QED
    BY <1>1, <2>1, EncodedFields, Zenon
<1>5. PICK x : x = Sign(b[5], <<tm>> \o Payload(b))
  OBVIOUS
<1>6. PICK U : b \in Seq(U) /\ e \in Seq(U) /\ tm \in U /\ x \in U
  <2>1. PICK S, T : b \in Seq(S) /\ e \in Seq(T)
    BY <1>3, <1>4 DEF HasFields
  <2>2. PICK V : S \subseteq V /\ T \subseteq V /\ tm \in V /\ x \in V
    <3>1. /\ S \subseteq S \cup T \cup {tm, x} /\ T \subseteq S \cup T \cup {tm, x}
          /\ tm \in S \cup T \cup {tm, x} /\ x \in S \cup T \cup {tm, x}
      OBVIOUS
    <3>2. QED
      BY <3>1, Zenon
  <2>3. b \in Seq(V) /\ e \in Seq(V)
    BY <2>1, <2>2, SeqMonotonic
  <2>4. QED
    BY <2>2, <2>3
<1>7. Len(b) = 9 /\ Len(e) = 9
  BY <1>1, <1>3, <1>4 DEF HasFields
<1>8. PICK f : f = [b EXCEPT ![3] = tm]
  OBVIOUS
<1>9. /\ f \in Seq(U) /\ Len(f) = 9
      /\ \A i \in 1 .. 9 : f[i] = IF i = 3 THEN tm ELSE b[i]
  <2>1. PICK n \in 1 .. Len(b) : n = 3
    BY <1>7
  <2>2. f = [b EXCEPT ![n] = tm]
    BY <1>8, <2>1
  <2>3. /\ f \in Seq(U) /\ Len(f) = Len(b)
        /\ \A j \in 1 .. Len(b) : f[j] = IF j = n THEN tm ELSE b[j]
    BY <1>6, <2>2, ChangedField
  <2>4. QED
    BY <1>7, <2>1, <2>3
<1>10. PICK g : g = [f EXCEPT ![4] = x]
  OBVIOUS
<1>11. /\ g \in Seq(U) /\ Len(g) = 9
       /\ \A i \in 1 .. 9 : g[i] = IF i = 4 THEN x ELSE f[i]
  <2>1. PICK n \in 1 .. Len(f) : n = 4
    BY <1>9
  <2>2. g = [f EXCEPT ![n] = x]
    BY <1>10, <2>1
  <2>3. f \in Seq(U) /\ x \in U
    BY <1>6, <1>9
  <2>4. /\ g \in Seq(U) /\ Len(g) = Len(f)
        /\ \A j \in 1 .. Len(f) : g[j] = IF j = n THEN x ELSE f[j]
    BY <2>2, <2>3, ChangedField
  <2>5. QED
    BY <1>9, <2>1, <2>4
<1>12. e[4] = x
  <2>1. Payload(e) = Payload(b)
    BY <1>3, <1>4 DEF HasFields
  <2>2. e[4] = Sign(b[5], <<e[3]>> \o Payload(e)) /\ e[3] = tm
    BY <1>3 DEF HasFields, SignedPart
  <2>3. QED
    BY <1>5, <2>1, <2>2
<1>13. ASSUME NEW i \in 1 .. 9 PROVE g[i] = e[i]
  <2>1. i = 1 \/ i = 2 \/ i = 3 \/ i = 4 \/ i = 5 \/ i = 6 \/ i = 7 \/ i = 8 \/ i = 9
    OBVIOUS
  <2>2. /\ b[1] = 1 /\ b[2] = PROTOCOL_VERSION
        /\ b[6] = 1 /\ b[8] = Len(peers) /\ b[1 + 8] = peers[1]
    BY <1>1, <1>4 DEF HasFields
  <2>3. /\ e[1] = 1 /\ e[2] = PROTOCOL_VERSION /\ e[3] = tm /\ e[5] = b[5]
        /\ e[6] = 1 /\ e[7] = b[7] /\ e[8] = Len(peers) /\ e[1 + 8] = peers[1]
    BY <1>1, <1>3 DEF HasFields
  <2>4. QED
    BY <1>9, <1>11, <1>12, <2>1, <2>2, <2>3
<1>14. g = e
  BY <1>6, <1>7, <1>11, <1>13, SeqEqual
<1>15. g = [b EXCEPT ![3] = tm, ![4] = Sign(b[5], <<tm>> \o Payload(b))]
  BY <1>5, <1>8, <1>10
<1>16. Intact(e)
  <2>1. e = EncodeRequest(b[5], tm, b[7], <<Other(b[5])>>)
    BY <1>1, <1>2
  <2>2. b[5] \in Clients
    BY DEF Intact
  <2>3. QED
    BY <2>1, <2>2, RequestsAreIntact
<1>17. QED
  BY <1>14, <1>15, <1>16

----------------------------------------------------------------------------
(* The invariant *)

LEMMA InitIsAuthentic == SysInit => Authentic
BY DEF SysInit, Authentic, WireIsAuthentic, DelayedIsAuthentic

\* Nothing new is on its way.
LEMMA FewerStayAuthentic ==
    ASSUME Authentic, wire' \subseteq wire, delayed' \subseteq delayed
    PROVE  Authentic'
BY DEF Authentic, WireIsAuthentic, DelayedIsAuthentic, IsMessage

\* A new datagram is intact.
LEMMA OneMoreStaysAuthentic ==
    ASSUME Authentic, delayed' \subseteq delayed,
           NEW m, IsMessage(m), ~m.garbled, m.to = "server" => Intact(m.bytes),
           wire' \subseteq wire \cup {m}
    PROVE  Authentic'
BY DEF Authentic, WireIsAuthentic, DelayedIsAuthentic, IsMessage

LEMMA PlaceStaysAuthentic ==
    ASSUME Authentic, NEW c \in Clients, PlaceConnectionRequest(c)
    PROVE  Authentic'
<1>1. PICK b : b = EncodeRequest(c, now, session[c], <<Other(c)>>)
  OBVIOUS
<1>2. PICK m : m = [to |-> "server", addr |-> socket[c], garbled |-> FALSE, bytes |-> b]
  OBVIOUS
<1>3. wire' = wire \cup {m} /\ delayed' = delayed
  BY <1>1, <1>2 DEF PlaceConnectionRequest
<1>4. Intact(b)
  BY <1>1, RequestsAreIntact
<1>5. IsMessage(m) /\ ~m.garbled /\ (m.to = "server" => Intact(m.bytes))
  BY <1>2, <1>4 DEF IsMessage
<1>6. QED
  BY <1>3, <1>5, OneMoreStaysAuthentic

\* What the server sends goes to clients.
LEMMA ServeStaysAuthentic ==
    ASSUME Authentic, NEW m \in wire, Serve(m)
    PROVE  Authentic'
<1>1. wire' = (wire \ {m}) \cup Notifications /\ delayed' = delayed
  BY DEF Serve
<1>2. ASSUME NEW n \in Notifications PROVE IsMessage(n) /\ ~n.garbled /\ n.to = "client"
  <2>1. PICK a, b : n = [to |-> "client", addr |-> a, garbled |-> FALSE, bytes |-> b]
    BY DEF Notifications
  <2>2. QED
    BY <2>1 DEF IsMessage
<1>3. WireIsAuthentic'
  <2> SUFFICES ASSUME NEW n \in wire'
               PROVE  /\ IsMessage(n)
                      /\ n.to = "server" =>
                           IF n.garbled THEN ~IsRequest(n.bytes) ELSE Intact(n.bytes)
                      /\ n.garbled => n.to = "server"
    BY DEF WireIsAuthentic
  <2>1. CASE n \in wire
    BY <2>1 DEF Authentic, WireIsAuthentic
  <2>2. CASE n \in Notifications
    BY <1>2, <2>2
  <2>3. QED
    BY <1>1, <2>1, <2>2
<1>4. DelayedIsAuthentic'
  BY <1>1 DEF Authentic, DelayedIsAuthentic
<1>5. QED
  BY <1>3, <1>4 DEF Authentic

LEMMA DelayStaysAuthentic ==
    ASSUME Authentic, NEW m \in wire, Delay(m) \/ Repeat(m)
    PROVE  Authentic'
<1>1. wire' \subseteq wire /\ delayed' = delayed \cup {m} /\ ~m.garbled
  BY DEF Delay, Repeat
<1>2. WireIsAuthentic'
  BY <1>1 DEF Authentic, WireIsAuthentic, IsMessage
<1>3. DelayedIsAuthentic'
  BY <1>1 DEF Authentic, WireIsAuthentic, DelayedIsAuthentic, IsMessage
<1>4. QED
  BY <1>2, <1>3 DEF Authentic

LEMMA ArriveLateStaysAuthentic ==
    ASSUME Authentic, NEW m \in delayed, ArriveLate(m)
    PROVE  Authentic'
<1>1. wire' = wire \cup {m} /\ delayed' \subseteq delayed
  BY DEF ArriveLate
<1>2. IsMessage(m) /\ ~m.garbled /\ (m.to = "server" => Intact(m.bytes))
  BY DEF Authentic, DelayedIsAuthentic
<1>3. QED
  BY <1>1, <1>2, OneMoreStaysAuthentic

\* A garbled request does not parse.
LEMMA GarbleStaysAuthentic ==
    ASSUME Authentic, NEW m \in wire, Garble(m)
    PROVE  Authentic'
<1>1. PICK b \in Garbled(m.bytes) \ {m.bytes} :
        wire' = (wire \ {m}) \cup {[m EXCEPT !.bytes = b, !.garbled = TRUE]}
  BY DEF Garble
<1>2. /\ m.to = "server" /\ ~m.garbled /\ delayed' = delayed
      /\ IsMessage(m) /\ Intact(m.bytes)
  BY DEF Garble, Authentic, WireIsAuthentic
<1>3. ~IsRequest(b)
  BY <1>1, <1>2, GarbledDoesNotParse
<1>4. PICK n : n = [m EXCEPT !.bytes = b, !.garbled = TRUE]
  OBVIOUS
<1>5. n = [to |-> m.to, addr |-> m.addr, garbled |-> TRUE, bytes |-> b]
  BY <1>2, <1>4 DEF IsMessage
<1>6. IsMessage(n) /\ n.garbled /\ n.to = "server" /\ ~IsRequest(n.bytes)
  BY <1>2, <1>3, <1>5 DEF IsMessage
<1>7. WireIsAuthentic'
  BY <1>1, <1>4, <1>6 DEF Authentic, WireIsAuthentic, IsMessage
<1>8. DelayedIsAuthentic'
  BY <1>2 DEF Authentic, DelayedIsAuthentic
<1>9. QED
  BY <1>7, <1>8 DEF Authentic

\* A tick signs what is delayed anew.
LEMMA TickStaysAuthentic ==
    ASSUME Authentic, SysTick
    PROVE  Authentic'
<1>1. wire = {} /\ wire' = {} /\ delayed' = {Aged(m) : m \in delayed}
  BY DEF SysTick
<1>2. ASSUME NEW m \in delayed
      PROVE  /\ IsMessage(Aged(m)) /\ ~Aged(m).garbled
             /\ Aged(m).to = "server" => Intact(Aged(m).bytes)
  <2>1. IsMessage(m) /\ ~m.garbled /\ (m.to = "server" => Intact(m.bytes))
    BY DEF Authentic, DelayedIsAuthentic
  <2>2. CASE m.to = "client"
    BY <2>1, <2>2 DEF Aged
  <2>3. CASE m.to # "client"
    <3>1. PICK tm : tm = Earlier(m.bytes[3], SIGNED_MSG_VALID_S)
      OBVIOUS
    <3>2. PICK b : b = [m.bytes EXCEPT ![3] = tm,
                          ![4] = Sign(m.bytes[5], <<tm>> \o Payload(m.bytes))]
      OBVIOUS
    <3>3. Aged(m) = [to |-> m.to, addr |-> m.addr, garbled |-> m.garbled, bytes |-> b]
      BY <2>1, <2>3, <3>1, <3>2 DEF Aged, IsMessage
    <3>4. m.to = "server" => Intact(b)
      BY <2>1, <3>2, ResignedIsIntact
    <3>5. QED
      BY <2>1, <3>3, <3>4 DEF IsMessage
  <2>4. QED
    BY <2>2, <2>3
<1>3. WireIsAuthentic'
  BY <1>1 DEF WireIsAuthentic
<1>4. DelayedIsAuthentic'
  BY <1>1, <1>2 DEF DelayedIsAuthentic, IsMessage
<1>5. QED
  BY <1>3, <1>4 DEF Authentic

LEMMA StepStaysAuthentic ==
    ASSUME Authentic, [SysNext]_sysVars
    PROVE  Authentic'
<1>1. ASSUME NEW c \in Clients, Run(c) PROVE Authentic'
  <2>1. CASE PlaceConnectionRequest(c)
    BY <2>1, PlaceStaysAuthentic
  <2>2. CASE PunchSucceeds(c) \/ PunchFails(c)
    BY <2>2, FewerStayAuthentic DEF PunchSucceeds, PunchFails, Punched
  <2>3. CASE NoticeDead(c)
    BY <2>3, FewerStayAuthentic DEF NoticeDead, on_connection_closed
  <2>4. QED
    BY <1>1, <2>1, <2>2, <2>3 DEF Run
<1>2. ASSUME NEW m \in wire, Reject(m) \/ Vanishes(m) PROVE Authentic'
  BY <1>2, FewerStayAuthentic DEF Reject, Vanishes
<1>3. ASSUME NEW m \in wire, NEW c \in Clients, AcceptInitiate(c, m) \/ IgnoreInitiate(c, m)
      PROVE  Authentic'
  BY <1>3, FewerStayAuthentic DEF AcceptInitiate, IgnoreInitiate, Receives
<1>4. CASE Arrive
  BY <1>2, <1>3, <1>4, ServeStaysAuthentic DEF Arrive
<1>5. ASSUME NEW c \in Clients, Start(c) \/ Restart(c) PROVE Authentic'
  BY <1>5, FewerStayAuthentic DEF Start, Restart
<1>6. ASSUME NEW c \in Clients, OnlyOneSucceeds(c) \/ Break(c) PROVE Authentic'
  BY <1>6, FewerStayAuthentic DEF OnlyOneSucceeds, Punched, Break, on_connection_closed
<1>7. ASSUME ServerRestarts PROVE Authentic'
  BY <1>7, FewerStayAuthentic DEF ServerRestarts
<1>8. CASE Disturbance
  BY <1>5, <1>6, <1>7, <1>8, DelayStaysAuthentic, ArriveLateStaysAuthentic, GarbleStaysAuthentic
     DEF Disturbance
<1>9. CASE UNCHANGED sysVars
  BY <1>9, FewerStayAuthentic DEF sysVars
<1>10. QED
  BY <1>1, <1>4, <1>8, <1>9, TickStaysAuthentic DEF SysNext

\* What is on its way to the server is intact, or does not parse: clients sign all their
\* requests, and the network cannot (place_connection_requests, ToServerSignedMessage).
THEOREM RequestsStayAuthentic == SysSpec => []Authentic
<1>1. Authentic /\ [SysNext]_sysVars => Authentic'
  BY StepStaysAuthentic
<1>2. QED
  BY InitIsAuthentic, <1>1, PTL DEF SysSpec

\* The server never acts on a request that was changed on its way (try_parse of
\* ToServerRawMessage and ToServerSignedMessage, recv_messages of the UDP server).
THEOREM GarbledIsNeverServed == SysSpec => GarbledIsRejected
<1>1. Authentic => \A m \in wire : Serve(m) => ~m.garbled
  BY DEF Authentic, WireIsAuthentic, Serve
<1>2. QED
  BY RequestsStayAuthentic, <1>1, PTL DEF SysSpec, GarbledIsRejected

----------------------------------------------------------------------------
(* The server between its clients implements Matchmaker *)

SlotOf(r, a) ==
    r = [requester_pubkey |-> a, requester_addr |-> r.requester_addr,
         requester_session_id |-> r.requester_session_id, tm |-> r.tm]

SlotsAreRecords ==
    \A a \in DOMAIN requests :
        a \in Keys /\ \A b \in DOMAIN requests[a] : SlotOf(requests[a][b], a)

LEMMA RecordsAreOwn == SlotsAreRecords => SlotsAreOwn
BY DEF SlotsAreRecords, SlotsAreOwn, SlotOf

\* Removed slots leave the others as they were.
LEMMA SubMapRecords ==
    ASSUME SlotsAreRecords, SubMap(requests', requests)
    PROVE  SlotsAreRecords'
BY DEF SlotsAreRecords, SubMap, SlotOf

LEMMA HandleKeepsRecords ==
    ASSUME SlotsAreRecords, NEW d, d.sender \in Keys, Handle(d)
    PROVE  SlotsAreRecords'
<1>1. CASE ReportLost(d)
  BY <1>1, CleanupSubMap, SubMapRecords DEF ReportLost
<1>2. CASE MatchRequest(d)
  BY <1>2, MatchRequestTakes, SubMapRecords
<1>3. CASE PlaceRequest(d)
  <2>1. PICK live : live = Cleanup(requests)
    OBVIOUS
  <2>2. SubMap(live, requests)
    BY <2>1, CleanupSubMap
  <2>3. /\ DOMAIN requests' = DOMAIN live \cup {d.sender}
        /\ requests'[d.sender] = SlotsOf(d)
        /\ \A a \in DOMAIN live : a # d.sender => requests'[a] = live[a]
    BY <1>3, <2>1 DEF PlaceRequest, Insert
  <2>4. \A b \in DOMAIN SlotsOf(d) : SlotOf(SlotsOf(d)[b], d.sender)
    BY DEF SlotsOf, SlotOf
  <2>5. QED
    BY <2>2, <2>3, <2>4 DEF SlotsAreRecords, SubMap
<1>4. QED
  BY <1>1, <1>2, <1>3 DEF Handle

\* Whoever's request is served is a client.
LEMMA ServedIsClient ==
    ASSUME Authentic, NEW m \in wire, Serve(m)
    PROVE  ParseRequest(m.bytes, m.addr).sender \in Keys
<1>1. Intact(m.bytes)
  BY DEF Authentic, WireIsAuthentic, Serve
<1>2. QED
  BY <1>1 DEF Intact, Clients, ParseRequest

\* The slots that are a tick older.
LEMMA TickKeepsSlots ==
    ASSUME SlotsAreRecords, SysTick
    PROVE  SlotsAreRecords' /\ Wants' = Wants /\ Introductions' = {}
<1>1. /\ DOMAIN requests' = DOMAIN requests
      /\ \A a \in DOMAIN requests :
           /\ DOMAIN requests'[a] = DOMAIN requests[a]
           /\ \A b \in DOMAIN requests[a] :
                requests'[a][b] =
                    [requests[a][b] EXCEPT !.tm = Earlier(@, REQUEST_TIMEOUT_S - 1)]
  BY DEF SysTick
<1>2. SlotsAreRecords'
  <2>1. ASSUME NEW r, NEW a, SlotOf(r, a), NEW s,
               s = [r EXCEPT !.tm = Earlier(@, REQUEST_TIMEOUT_S - 1)]
        PROVE  SlotOf(s, a)
    <3>1. PICK addr, session_id, tm :
            r = [requester_pubkey |-> a, requester_addr |-> addr,
                 requester_session_id |-> session_id, tm |-> tm]
      BY <2>1 DEF SlotOf
    <3>2. PICK t : s = [r EXCEPT !.tm = t]
      BY <2>1
    <3>3. s = [requester_pubkey |-> a, requester_addr |-> addr,
               requester_session_id |-> session_id, tm |-> t]
      BY <3>1, <3>2
    <3>4. QED
      BY <3>3 DEF SlotOf
  <2>2. SUFFICES ASSUME NEW a \in DOMAIN requests, NEW b \in DOMAIN requests[a]
                 PROVE  SlotOf(requests'[a][b], a)
    BY <1>1 DEF SlotsAreRecords
  <2>3. SlotOf(requests[a][b], a)
    BY DEF SlotsAreRecords
  <2>4. QED
    BY <1>1, <2>1, <2>3
<1>3. Wants' = Wants
  BY <1>1 DEF Wants, HasSlot
<1>4. Introductions' = {}
  BY DEF SysTick, Introductions
<1>5. QED
  BY <1>2, <1>3, <1>4

\* A server that starts again has forgotten.
LEMMA RestartForgets ==
    ASSUME ServerRestarts
    PROVE  SlotsAreRecords' /\ Promise!Forget
<1>1. DOMAIN requests' = {} /\ sent' = {}
  BY DEF ServerRestarts
<1>2. Wants' = {} /\ Introductions' = {}
  BY <1>1 DEF Wants, HasSlot, Introductions
<1>3. QED
  BY <1>1, <1>2 DEF SlotsAreRecords, Promise!Forget

\* Every other step leaves the server alone.
LEMMA OthersLeaveServer ==
    ASSUME [SysNext]_sysVars, ~SysTick, ~ServerRestarts, ~ \E m \in wire : Serve(m)
    PROVE  UNCHANGED vars
<1>1. ASSUME NEW c \in Clients, Run(c) PROVE UNCHANGED vars
  BY <1>1 DEF Run, PlaceConnectionRequest, PunchSucceeds, PunchFails, Punched, NoticeDead,
              on_connection_closed
<1>2. CASE Arrive
  BY <1>2 DEF Arrive, Reject, Vanishes, AcceptInitiate, IgnoreInitiate, Receives
<1>3. CASE Disturbance
  BY <1>3 DEF Disturbance, Delay, Repeat, Garble, ArriveLate, Start, Restart,
              OnlyOneSucceeds, Punched, Break, on_connection_closed
<1>4. CASE UNCHANGED sysVars
  BY <1>4 DEF sysVars
<1>5. QED
  BY <1>1, <1>2, <1>3, <1>4 DEF SysNext

SystemInv == Authentic /\ SlotsAreRecords

LEMMA StepKeepsPromise ==
    ASSUME SystemInv, [SysNext]_sysVars
    PROVE  SlotsAreRecords' /\ [Promise!Next]_(Promise!vars)
<1>1. ASSUME NEW m \in wire, Serve(m)
      PROVE  SlotsAreRecords' /\ Promise!Next
  <2>1. PICK d : d = ParseRequest(m.bytes, m.addr)
    OBVIOUS
  <2>2. d.sender \in Keys /\ Handle(d)
    BY <1>1, <2>1, ServedIsClient DEF SystemInv, Serve
  <2>3. QED
    BY <2>2, HandleKeepsRecords, HandleKeepsPromise, RecordsAreOwn DEF SystemInv
<1>2. CASE SysTick
  BY <1>2, TickKeepsSlots DEF SystemInv, Promise!Next, Promise!Forget
<1>3. CASE ServerRestarts
  BY <1>3, RestartForgets DEF Promise!Next
<1>4. CASE UNCHANGED vars
  BY <1>4 DEF vars, Promise!vars, Wants, HasSlot, Introductions, SystemInv,
              SlotsAreRecords, SlotOf
<1>5. QED
  BY <1>1, <1>2, <1>3, <1>4, OthersLeaveServer

LEMMA InitKeepsPromise == SysInit => SystemInv /\ Promise!Init
BY InitIsAuthentic
DEF SysInit, Init, SystemInv, SlotsAreRecords, Promise!Init, Wants, HasSlot, Introductions

LEMMA SystemStaysCorrect == SysSpec => []SystemInv
<1>1. SystemInv /\ [SysNext]_sysVars => SystemInv'
  BY StepStaysAuthentic, StepKeepsPromise DEF SystemInv
<1>2. QED
  BY InitKeepsPromise, <1>1, PTL DEF SysSpec

\* What the server promises it keeps between clients and a server that restart, with
\* requests that are lost, repeated, late and garbled: it introduces a client only to one
\* that waits for it, and the restart of the server shows as wants that are forgotten.
THEOREM SystemKeepsPromise == SysSpec => KeepsPromise
<1>1. SystemInv /\ [SysNext]_sysVars => [Promise!Next]_(Promise!vars)
  BY StepKeepsPromise
<1>2. QED
  BY InitKeepsPromise, SystemStaysCorrect, <1>1, PTL
     DEF SysSpec, KeepsPromise, Promise!Spec

\* A step of Matchmaker leaves no two clients that wait for each other.
LEMMA PromiseKeepsApart ==
    ASSUME NoMutualSlots, [Promise!Next]_(Promise!vars)
    PROVE  NoMutualSlots'
<1>1. \A a, b \in Keys : HasSlot(requests, a, b) <=> <<a, b>> \in Wants
  BY DEF Wants
<1>2. SUFFICES ASSUME NEW a \in Keys, NEW b \in Keys, a # b,
                      <<a, b>> \in Wants', <<b, a>> \in Wants'
               PROVE  FALSE
  BY DEF NoMutualSlots, Wants
<1>3. ~(<<a, b>> \in Wants /\ <<b, a>> \in Wants)
  BY <1>1, <1>2 DEF NoMutualSlots
<1>4. ASSUME NEW c \in Keys, NEW ps \in SUBSET Keys, Promise!Ask(c, ps)
      PROVE  FALSE
  <2>1. \A w \in Wants' : w \in Wants \/ (w[1] = c /\ w[2] \in ps)
    BY <1>4 DEF Promise!Ask
  <2>2. \A w \in Wants' : w[1] = c => w[2] \in ps
    BY <1>4 DEF Promise!Ask, Promise!WantsOf
  <2>3. \A p \in ps \ {c} : <<p, c>> \notin Wants'
    BY <1>4 DEF Promise!Ask
  <2>4. a # c /\ b # c
    BY <1>2, <2>2, <2>3
  <2>5. QED
    BY <1>2, <1>3, <2>1, <2>4
<1>5. ASSUME NEW p \in Keys, NEW c \in Keys, Promise!Introduce(p, c)
      PROVE  FALSE
  BY <1>2, <1>3, <1>5 DEF Promise!Introduce
<1>6. CASE Promise!Forget \/ UNCHANGED Promise!vars
  BY <1>2, <1>3, <1>6 DEF Promise!Forget, Promise!vars
<1>7. QED
  BY <1>4, <1>5, <1>6 DEF Promise!Next

\* The handler's loop keeps any two clients from waiting for each other also when either
\* of them, or the server, starts again in between.
THEOREM NobodyWaitsForEachOther == SysSpec => []NoMutualSlots
<1>1. SysInit => NoMutualSlots
  BY DEF SysInit, Init, NoMutualSlots, HasSlot
<1>2. SystemInv /\ NoMutualSlots /\ [SysNext]_sysVars => NoMutualSlots'
  BY StepKeepsPromise, PromiseKeepsApart
<1>3. QED
  BY SystemStaysCorrect, <1>1, <1>2, PTL DEF SysSpec

=============================================================================
