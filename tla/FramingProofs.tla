---------------------------- MODULE FramingProofs ----------------------------
(***************************************************************************)
(* Without segmentation a connection keeps messages apart and intact, for  *)
(* messages of any length below 19 * 2^24 and buffers of any size.         *)
(***************************************************************************)
EXTENDS Framing, SequenceTheorems, TLAPS

LEMMA Sizes ==
    /\ BufLen \in Nat \ {0} /\ MaxLen \in Nat \ {0} /\ HandshakeLen \in Nat \ {0}
    /\ BufLen > 4 /\ BufLen >= HandshakeLen /\ MaxLen >= HandshakeLen
    /\ Greeting \in Seq(Byte) /\ Len(Greeting) \in Nat \ {0} /\ HandshakeLen > Len(Greeting)
    /\ Head(Greeting) = Greeting[1] /\ Greeting[1] \in Byte
<1>1. Greeting \in Seq(Byte) /\ Greeting # <<>>
  BY FramingAssumption
<1>2. Len(Greeting) \in Nat \ {0}
  BY <1>1, EmptySeq
<1>3. 1 \in 1 .. Len(Greeting) /\ Greeting[1] \in Byte
  BY <1>1, <1>2, ElementOfSeq
<1> QED
  BY <1>1, <1>2, <1>3, FramingAssumption DEF HeaderLen

-----------------------------------------------------------------------------
(* Bytes *)

LEMMA HeaderFacts ==
    ASSUME NEW n \in Nat, n < Top * 255
    PROVE  /\ Header(n) \in Seq(Byte) /\ Len(Header(n)) = 4
           /\ BigEndian(Header(n)) = n
           /\ Top * Header(n)[1] <= n
<1> DEFINE a == (n \div Top) % 256
           b == (n \div 65536) % 256
           c == (n \div 256) % 256
           d == n % 256
<1>1. /\ a \in Byte /\ b \in Byte /\ c \in Byte /\ d \in Byte
  BY SMT DEF Byte, Top
<1>2. Top * a + 65536 * b + 256 * c + d = n /\ Top * a <= n
  <2>1. PICK q1 \in Nat : q1 = n \div 256 /\ n = 256 * q1 + d
    OBVIOUS
  <2>2. PICK q2 \in Nat : q2 = q1 \div 256 /\ q1 = 256 * q2 + c
    BY <2>1
  <2>3. PICK q3 \in Nat : q3 = q2 \div 256 /\ q2 = 256 * q3 + (q2 % 256)
    BY <2>2
  <2>4. q2 = n \div 65536 /\ q3 = n \div Top
    BY <2>1, <2>2, <2>3, SMT DEF Top
  <2>5. q3 < 256 /\ a = q3 /\ b = q2 % 256
    BY <2>4, SMT DEF Top
  <2> QED
    BY <1>1, <2>1, <2>2, <2>3, <2>5, SMT DEF Byte, Top
<1> HIDE DEF a, b, c, d
<1>3. Header(n) = <<a, b, c, d>>
  BY DEF Header, a, b, c, d
<1> QED
  BY <1>1, <1>2, <1>3 DEF BigEndian

LEMMA ByteFacts ==
    /\ 0 \in Byte
    /\ \A x \in Byte : x \in Nat /\ x <= 255
    /\ \A x \in Byte, k \in Nat : k < Top * x => k < Top * 255
    /\ \A x \in Byte, y \in Byte, k \in Nat : Top * x <= k /\ k < Top * y => x # y
<1>1. /\ 0 \in Byte
      /\ \A x \in Byte : x \in Nat /\ x <= 255
  BY DEF Byte
<1>2. ASSUME NEW x \in Byte, NEW k \in Nat, k < Top * x
      PROVE  k < Top * 255
  BY <1>1, <1>2, SMT DEF Top
<1>3. ASSUME NEW x \in Byte, NEW y \in Byte, NEW k \in Nat, Top * x <= k, k < Top * y
      PROVE  x # y
  BY <1>1, <1>3, SMT DEF Top
<1> QED
  BY <1>1, <1>2, <1>3

LEMMA ConcatBytes ==
    ASSUME NEW s \in Seq(Byte), NEW t \in Seq(Byte), NEW u \in Seq(Byte)
    PROVE  (s \o t) \o u = s \o (t \o u)
BY ConcatAssociative

LEMMA PrefixFacts ==
    ASSUME NEW S, NEW s \in Seq(S), NEW t \in Seq(S)
    PROVE  IsPrefix(s, t) <=>
               Len(s) <= Len(t) /\ \A i \in 1 .. Len(s) : s[i] = t[i]
<1>1. Len(s) \in Nat /\ Len(t) \in Nat
  BY LenProperties
<1>2. SubSeq(s, 1, Len(s)) = s
  BY SubSeqFull
<1> SUFFICES ASSUME Len(s) <= Len(t)
             PROVE  SubSeq(s, 1, Len(s)) = SubSeq(t, 1, Len(s)) <=>
                        \A i \in 1 .. Len(s) : s[i] = t[i]
  BY DEF IsPrefix
<1> DEFINE u == SubSeq(t, 1, Len(s))
<1>3. \A i \in 1 .. Len(s) : t[i] \in S
  <2>1. \A i \in 1 .. Len(s) : i \in 1 .. Len(t)
    BY <1>1
  <2> QED
    BY <2>1, ElementOfSeq
<1>4. u \in Seq(S) /\ Len(u) = Len(s) /\ \A i \in 1 .. Len(s) : u[i] = t[i]
  <2>1. /\ u \in Seq(S)
        /\ Len(u) = IF 1 <= Len(s) THEN Len(s) - 1 + 1 ELSE 0
        /\ \A i \in 1 .. Len(s) - 1 + 1 : u[i] = t[1 + i - 1]
    BY <1>1, <1>3, SubSeqProperties
  <2> QED
    BY <1>1, <2>1
<1> HIDE DEF u
<1>5. (\A i \in 1 .. Len(s) : s[i] = u[i]) => s = u
  BY <1>4, SeqEqual
<1> QED
  BY <1>2, <1>4, <1>5 DEF u

LEMMA KindFacts ==
    ASSUME NEW kind \in ToSet(Kinds)
    PROVE  /\ Id(kind) \in 0 .. 7 /\ Kinds[Id(kind) + 1] = kind
           /\ kind \notin {"HANDSHAKE", "KEEP_ALIVE", "UNKNOWN"}
<1>1. DOMAIN Kinds = 1 .. 8
  BY DEF Kinds
<1>2. PICK i \in 1 .. 8 : Kinds[i] = kind
  BY <1>1 DEF ToSet
<1>3. kind \notin {"HANDSHAKE", "KEEP_ALIVE", "UNKNOWN"}
  BY <1>2 DEF Kinds
<1> DEFINE j == CHOOSE k \in DOMAIN Kinds : Kinds[k] = kind
<1>4. j \in 1 .. 8 /\ Kinds[j] = kind
  BY <1>1, <1>2
<1>5. Id(kind) = j - 1
  BY <1>3 DEF Id
<1> HIDE DEF j
<1>6. (j - 1) + 1 = j /\ j - 1 \in 0 .. 7
  BY <1>4
<1> QED
  BY <1>3, <1>4, <1>5, <1>6

LEMMA MessageFacts ==
    ASSUME NEW m \in Messages
    PROVE  /\ m = [kind |-> m.kind, payload |-> m.payload]
           /\ m.kind \in ToSet(Kinds) \cup {"HANDSHAKE", "KEEP_ALIVE", "UNKNOWN"}
           /\ m.payload \in Seq(Byte) /\ Len(m.payload) \in Nat
           /\ 1 + Len(m.payload) < Top * Greeting[1]
           /\ 1 + Len(m.payload) < Top * 255
           /\ m.kind = "HANDSHAKE" =>
                  /\ Len(m.payload) = HandshakeLen
                  /\ IsPrefix(Append(Greeting, 0), m.payload)
           /\ m.kind = "KEEP_ALIVE" => m.payload = <<>>
<1>1. /\ m \in [kind : ToSet(Kinds) \cup {"HANDSHAKE", "KEEP_ALIVE", "UNKNOWN"},
                payload : Seq(Byte)]
      /\ 1 + Len(m.payload) < Top * Greeting[1]
      /\ m.kind = "HANDSHAKE" =>
             /\ Len(m.payload) = HandshakeLen
             /\ IsPrefix(Append(Greeting, 0), m.payload)
      /\ m.kind = "KEEP_ALIVE" => m.payload = <<>>
  BY MessageAssumption, Sizes
<1>2. m.payload \in Seq(Byte) /\ Len(m.payload) \in Nat
  BY <1>1, LenProperties
<1>3. 1 + Len(m.payload) < Top * 255
  <2>1. Greeting[1] \in Byte
    BY Sizes
  <2>2. 1 + Len(m.payload) \in Nat
    BY <1>2
  <2> QED
    BY <1>1, <2>1, <2>2, ByteFacts
<1> QED
  BY <1>1, <1>2, <1>3

(* What is written of a handshake. *)
LEMMA HandshakeBytes ==
    ASSUME NEW m \in Messages, m.kind = "HANDSHAKE"
    PROVE  /\ Bytes(m) = m.payload /\ Bytes(m) \in Seq(Byte)
           /\ Len(Bytes(m)) = HandshakeLen
           /\ \A i \in 1 .. Len(Greeting) : Bytes(m)[i] = Greeting[i]
           /\ Bytes(m)[Len(Greeting) + 1] = 0
<1>1. Bytes(m) = m.payload
  BY DEF Bytes
<1>2. /\ Append(Greeting, 0) \in Seq(Byte) /\ Len(Append(Greeting, 0)) = Len(Greeting) + 1
      /\ \A i \in 1 .. Len(Greeting) : Append(Greeting, 0)[i] = Greeting[i]
      /\ Append(Greeting, 0)[Len(Greeting) + 1] = 0
  <2>1. 0 \in Byte
    BY DEF Byte
  <2> QED
    BY <2>1, Sizes, AppendProperties
<1>3. \A i \in 1 .. Len(Greeting) + 1 : Append(Greeting, 0)[i] = m.payload[i]
  <2> DEFINE g == Append(Greeting, 0)
  <2>1. m.payload \in Seq(Byte) /\ IsPrefix(g, m.payload)
    BY MessageFacts
  <2>2. g \in Seq(Byte) /\ Len(g) = Len(Greeting) + 1
    BY <1>2
  <2> HIDE DEF g
  <2>3. \A i \in 1 .. Len(g) : g[i] = m.payload[i]
    BY <2>1, <2>2, PrefixFacts
  <2> QED
    BY <2>2, <2>3 DEF g
<1>4. /\ \A i \in 1 .. Len(Greeting) : i \in 1 .. Len(Greeting) + 1
      /\ Len(Greeting) + 1 \in 1 .. Len(Greeting) + 1
  BY Sizes
<1> QED
  BY <1>1, <1>2, <1>3, <1>4, MessageFacts

(* What is written of any other message: the prefix, and as much after it. *)
LEMMA PrefixedBytes ==
    ASSUME NEW m \in Messages, m.kind # "HANDSHAKE"
    PROVE  /\ Bytes(m) \in Seq(Byte) /\ Len(Bytes(m)) \in Nat /\ Len(Bytes(m)) >= 4
           /\ BigEndian(Bytes(m)) + 4 = Len(Bytes(m))
           /\ Bytes(m)[1] # Greeting[1]
           /\ Len(Bytes(m)) = 4 <=> m.kind = "KEEP_ALIVE"
           /\ m.kind # "KEEP_ALIVE" =>
                 /\ Len(Bytes(m)) = 5 + Len(m.payload)
                 /\ Bytes(m)[5] = Id(m.kind)
                 /\ SubSeq(Bytes(m), 6, Len(Bytes(m))) = m.payload
           /\ m.kind \in ToSet(Kinds) => Id(m.kind) \in 0 .. 7
           /\ m.kind = "UNKNOWN" => Id(m.kind) = 8
<1>0. m.payload \in Seq(Byte) /\ Len(m.payload) \in Nat
  BY MessageFacts
<1>1. CASE m.kind = "KEEP_ALIVE"
  <2>1. Bytes(m) = Header(0)
    BY <1>1 DEF Bytes
  <2>2. /\ Header(0) \in Seq(Byte) /\ Len(Header(0)) = 4 /\ BigEndian(Header(0)) = 0
        /\ Top * Header(0)[1] <= 0
    <3>1. 0 \in Nat /\ 0 < Top * 255
      BY SMT DEF Top
    <3> QED
      BY <3>1, HeaderFacts
  <2>3. Header(0)[1] \in Byte
    BY <2>2, ElementOfSeq
  <2>4. 1 + Len(m.payload) < Top * Greeting[1]
    BY MessageFacts
  <2>5. Greeting[1] # Header(0)[1]
    <3>1. 0 < Top * Greeting[1]
      <4>1. Greeting[1] \in Nat /\ Top \in Nat
        BY Sizes, ByteFacts DEF Top
      <4> QED
        BY <1>0, <2>4, <4>1
    <3>2. Greeting[1] \in Byte
      BY Sizes
    <3> QED
      BY <2>2, <2>3, <3>1, <3>2, ByteFacts
  <2>6. m.kind \notin ToSet(Kinds)
    BY <1>1, KindFacts
  <2>7. 0 + 4 = 4 /\ 4 \in Nat /\ 4 >= 4
    OBVIOUS
  <2> QED
    BY <1>1, <2>1, <2>2, <2>5, <2>6, <2>7
<1>2. CASE m.kind # "KEEP_ALIVE"
  <2> DEFINE n == 1 + Len(m.payload)
             h == Header(n)
             t == <<Id(m.kind)>> \o m.payload
  <2>1. m.kind \in ToSet(Kinds) \/ m.kind = "UNKNOWN"
    BY <1>2, MessageFacts
  <2>2. /\ Id(m.kind) \in Byte
        /\ m.kind \in ToSet(Kinds) => Id(m.kind) \in 0 .. 7
        /\ m.kind = "UNKNOWN" => Id(m.kind) = 8
    <3>1. m.kind = "UNKNOWN" => Id(m.kind) = 8
      BY DEF Id, Kinds
    <3> QED
      BY <2>1, <3>1, KindFacts DEF Byte
  <2>3. n \in Nat /\ n < Top * 255 /\ n < Top * Greeting[1]
    BY <1>0, MessageFacts
  <2>4. h \in Seq(Byte) /\ Len(h) = 4 /\ BigEndian(h) = n /\ Top * h[1] <= n
    BY <2>3, HeaderFacts
  <2>5. /\ t \in Seq(Byte) /\ Len(t) = n /\ t[1] = Id(m.kind)
        /\ \A i \in 1 .. Len(m.payload) : t[i + 1] = m.payload[i]
    <3>1. <<Id(m.kind)>> \in Seq(Byte) /\ Len(<<Id(m.kind)>>) = 1
          /\ <<Id(m.kind)>>[1] = Id(m.kind)
      BY <2>2
    <3>2. /\ t \in Seq(Byte) /\ Len(t) = 1 + Len(m.payload)
          /\ \A i \in 1 .. 1 + Len(m.payload) :
                t[i] = IF i <= 1 THEN <<Id(m.kind)>>[i] ELSE m.payload[i - 1]
      BY <1>0, <3>1, ConcatProperties
    <3>3. \A i \in 1 .. Len(m.payload) :
             i + 1 \in 1 .. 1 + Len(m.payload) /\ ~(i + 1 <= 1) /\ (i + 1) - 1 = i
      BY <1>0
    <3>4. 1 \in 1 .. 1 + Len(m.payload) /\ 1 <= 1
      BY <1>0
    <3> QED
      BY <3>1, <3>2, <3>3, <3>4
  <2>6. Bytes(m) = h \o t
    <3> DEFINE k == <<Id(m.kind)>>
    <3>1. Bytes(m) = (h \o k) \o m.payload
      BY <1>2 DEF Bytes
    <3>2. k \in Seq(Byte)
      BY <2>2
    <3>3. t = k \o m.payload
      OBVIOUS
    <3> HIDE DEF k, h, t
    <3>4. (h \o k) \o m.payload = h \o (k \o m.payload)
      <4>1. h \in Seq(Byte) /\ m.payload \in Seq(Byte)
        BY <1>0, <2>4
      <4> QED
        BY <3>2, <4>1, ConcatBytes
    <3> QED
      BY <3>1, <3>3, <3>4
  <2> HIDE DEF n, h, t
  <2>7. /\ Bytes(m) \in Seq(Byte) /\ Len(Bytes(m)) = 4 + n
        /\ \A i \in 1 .. 4 + n : Bytes(m)[i] = IF i <= 4 THEN h[i] ELSE t[i - 4]
    <3>1. /\ h \o t \in Seq(Byte) /\ Len(h \o t) = Len(h) + Len(t)
          /\ \A i \in 1 .. Len(h) + Len(t) :
                (h \o t)[i] = IF i <= Len(h) THEN h[i] ELSE t[i - Len(h)]
      BY <2>4, <2>5, ConcatProperties
    <3>2. Len(h) = 4 /\ Len(t) = n
      BY <2>4, <2>5
    <3> QED
      BY <2>6, <3>1, <3>2
  <2>8. n = 1 + Len(m.payload)
    BY DEF n
  <2>9. \A i \in 1 .. 4 : Bytes(m)[i] = h[i]
    BY <1>0, <2>7, <2>8
  <2>10. BigEndian(Bytes(m)) = n
    BY <2>4, <2>9 DEF BigEndian
  <2>11. Bytes(m)[1] # Greeting[1]
    <3>1. h[1] \in Byte
      BY <2>4, ElementOfSeq
    <3>2. Greeting[1] \in Byte
      BY Sizes
    <3>3. h[1] # Greeting[1]
      BY <2>3, <2>4, <3>1, <3>2, ByteFacts
    <3> QED
      BY <2>9, <3>3
  <2>12. Bytes(m)[5] = Id(m.kind)
    BY <1>0, <2>5, <2>7, <2>8
  <2>13. SubSeq(Bytes(m), 6, Len(Bytes(m))) = m.payload
    <3> DEFINE u == SubSeq(Bytes(m), 6, Len(Bytes(m)))
    <3>1. \A i \in 6 .. Len(Bytes(m)) : Bytes(m)[i] \in Byte
      <4>1. \A i \in 6 .. Len(Bytes(m)) : i \in 1 .. Len(Bytes(m))
        BY <1>0, <2>7, <2>8
      <4> QED
        BY <2>7, <4>1, ElementOfSeq
    <3>2. /\ u \in Seq(Byte)
          /\ Len(u) = IF 6 <= Len(Bytes(m)) THEN Len(Bytes(m)) - 6 + 1 ELSE 0
          /\ \A i \in 1 .. Len(Bytes(m)) - 6 + 1 : u[i] = Bytes(m)[6 + i - 1]
      <4>1. 6 \in Int /\ Len(Bytes(m)) \in Int
        BY <1>0, <2>7, <2>8
      <4> QED
        BY <3>1, <4>1, SubSeqProperties
    <3>3. Len(u) = Len(m.payload)
      BY <1>0, <2>7, <2>8, <3>2
    <3>4. \A i \in 1 .. Len(m.payload) : u[i] = m.payload[i]
      <4> SUFFICES ASSUME NEW i \in 1 .. Len(m.payload) PROVE u[i] = m.payload[i]
        OBVIOUS
      <4>1. /\ i \in 1 .. Len(Bytes(m)) - 6 + 1 /\ 6 + i - 1 \in 1 .. 4 + n
            /\ ~(6 + i - 1 <= 4) /\ (6 + i - 1) - 4 = i + 1
        BY <1>0, <2>7, <2>8
      <4> QED
        BY <2>5, <2>7, <3>2, <4>1
    <3> HIDE DEF u
    <3>5. u = m.payload
      BY <1>0, <3>2, <3>3, <3>4, SeqEqual
    <3> QED
      BY <3>5 DEF u
  <2> QED
    BY <1>0, <1>2, <2>2, <2>7, <2>8, <2>10, <2>11, <2>12, <2>13
<1> QED
  BY <1>1, <1>2

(* The length is known from the bytes that are there after the first read. *)
LEMMA LengthParsed ==
    ASSUME NEW m \in Messages, NEW b \in Seq(Byte), Len(b) = BufLen,
           \A i \in 1 .. BufLen : i <= Len(Bytes(m)) => b[i] = Bytes(m)[i]
    PROVE  ParseRawPeerMsgLength(b) = Len(Bytes(m))
<1>1. CASE m.kind = "HANDSHAKE"
  <2>1. \A i \in 1 .. Len(Greeting) : i \in 1 .. BufLen /\ i <= HandshakeLen
    BY Sizes
  <2>2. \A i \in 1 .. Len(Greeting) : Greeting[i] = b[i]
    BY <1>1, <2>1, HandshakeBytes
  <2>3. Len(Greeting) <= Len(b) /\ Greeting \in Seq(Byte)
    BY Sizes
  <2>4. IsPrefix(Greeting, b)
    BY <2>2, <2>3, PrefixFacts
  <2>5. Len(Bytes(m)) = HandshakeLen
    BY <1>1, HandshakeBytes
  <2> QED
    BY <2>4, <2>5 DEF ParseRawPeerMsgLength, IsPeerHandshakeMsg
<1>2. CASE m.kind # "HANDSHAKE"
  <2>1. /\ Len(Bytes(m)) \in Nat /\ Len(Bytes(m)) >= 4
        /\ BigEndian(Bytes(m)) + 4 = Len(Bytes(m)) /\ Bytes(m)[1] # Greeting[1]
    BY <1>2, PrefixedBytes
  <2>2. \A i \in 1 .. 4 : i \in 1 .. BufLen /\ i <= Len(Bytes(m))
    BY <2>1, Sizes
  <2>3. \A i \in 1 .. 4 : b[i] = Bytes(m)[i]
    BY <2>2
  <2>4. b[1] = Bytes(m)[1] /\ b[2] = Bytes(m)[2] /\ b[3] = Bytes(m)[3] /\ b[4] = Bytes(m)[4]
    BY <2>3
  <2>5. BigEndian(b) = BigEndian(Bytes(m))
    BY <2>4 DEF BigEndian
  <2>6. ~IsPrefix(Greeting, b)
    <3>1. 1 \in 1 .. Len(Greeting) /\ Greeting \in Seq(Byte)
      BY Sizes
    <3> QED
      BY <2>1, <2>4, <3>1, PrefixFacts
  <2> QED
    BY <2>1, <2>5, <2>6 DEF ParseRawPeerMsgLength, IsPeerHandshakeMsg, HeaderLen
<1> QED
  BY <1>1, <1>2

(* What the reader makes of all bytes of a message. *)
LEMMA ParsedBack ==
    ASSUME NEW m \in Messages
    PROVE  /\ Parses(Bytes(m)) <=> m.kind # "UNKNOWN"
           /\ m.kind # "UNKNOWN" => NewPeerMsgFromBuffer(Bytes(m)) = m
<1> DEFINE p == Bytes(m)
<1>0. m = [kind |-> m.kind, payload |-> m.payload]
  BY MessageFacts
<1>1. CASE m.kind = "HANDSHAKE"
  <2>1. /\ p = m.payload /\ p \in Seq(Byte) /\ Len(p) = HandshakeLen
        /\ \A i \in 1 .. Len(Greeting) : p[i] = Greeting[i]
        /\ p[Len(Greeting) + 1] = 0
    BY <1>1, HandshakeBytes
  <2>2. Greeting \in Seq(Byte) /\ Len(Greeting) <= Len(p)
    BY <2>1, Sizes
  <2> HIDE DEF p
  <2>3. IsPrefix(Greeting, p)
    BY <2>1, <2>2, PrefixFacts
  <2>4. Rebuilt(p) = p
    <3> DEFINE g == Append(Greeting, 0)
               u == SubSeq(p, Len(Greeting) + 2, HandshakeLen)
    <3>0. Len(Greeting) \in Nat /\ HandshakeLen \in Nat /\ Len(Greeting) < HandshakeLen
      BY Sizes
    <3>1. /\ g \in Seq(Byte) /\ Len(g) = Len(Greeting) + 1
          /\ \A i \in 1 .. Len(Greeting) : g[i] = Greeting[i]
          /\ g[Len(Greeting) + 1] = 0
      BY <2>2, ByteFacts, AppendProperties
    <3>2. \A i \in 1 .. Len(Greeting) + 1 : g[i] = p[i]
      <4>1. \A i \in 1 .. Len(Greeting) + 1 : i \in 1 .. Len(Greeting) \/ i = Len(Greeting) + 1
        BY <3>0
      <4> QED
        BY <2>1, <3>1, <4>1
    <3>3. /\ u \in Seq(Byte)
          /\ Len(u) = HandshakeLen - Len(Greeting) - 1
          /\ \A i \in 1 .. HandshakeLen - Len(Greeting) - 1 : u[i] = p[Len(Greeting) + 1 + i]
      <4>1. \A i \in Len(Greeting) + 2 .. HandshakeLen : p[i] \in Byte
        <5>1. \A i \in Len(Greeting) + 2 .. HandshakeLen : i \in 1 .. Len(p)
          BY <2>1, <3>0
        <5> QED
          BY <2>1, <5>1, ElementOfSeq
      <4>2. Len(Greeting) + 2 \in Int /\ HandshakeLen \in Int
        BY <3>0
      <4>3. /\ u \in Seq(Byte)
            /\ Len(u) = IF Len(Greeting) + 2 <= HandshakeLen
                        THEN HandshakeLen - (Len(Greeting) + 2) + 1 ELSE 0
            /\ \A i \in 1 .. HandshakeLen - (Len(Greeting) + 2) + 1 :
                  u[i] = p[(Len(Greeting) + 2) + i - 1]
        BY <4>1, <4>2, SubSeqProperties
      <4>4. \A i \in 1 .. HandshakeLen - Len(Greeting) - 1 :
               /\ i \in 1 .. HandshakeLen - (Len(Greeting) + 2) + 1
               /\ (Len(Greeting) + 2) + i - 1 = Len(Greeting) + 1 + i
        BY <3>0
      <4>5. Len(u) = HandshakeLen - Len(Greeting) - 1
        BY <3>0, <4>3
      <4> QED
        BY <4>3, <4>4, <4>5
    <3>4. Rebuilt(p) = g \o u
      BY DEF Rebuilt
    <3> HIDE DEF g, u
    <3>5. /\ g \o u \in Seq(Byte) /\ Len(g \o u) = Len(g) + Len(u)
          /\ \A i \in 1 .. Len(g) + Len(u) :
                (g \o u)[i] = IF i <= Len(g) THEN g[i] ELSE u[i - Len(g)]
      BY <3>1, <3>3, ConcatProperties
    <3>6. Len(g) + Len(u) = Len(p)
      BY <2>1, <3>0, <3>1, <3>3
    <3>7. \A i \in 1 .. Len(g \o u) : (g \o u)[i] = p[i]
      <4> SUFFICES ASSUME NEW i \in 1 .. Len(p)
                   PROVE  (g \o u)[i] = p[i]
        BY <3>5, <3>6
      <4>1. CASE i <= Len(g)
        <5>1. i \in 1 .. Len(Greeting) + 1
          BY <3>0, <3>1, <4>1
        <5> QED
          BY <3>2, <3>5, <3>6, <4>1, <5>1
      <4>2. CASE ~(i <= Len(g))
        <5>1. /\ i - Len(g) \in 1 .. HandshakeLen - Len(Greeting) - 1
              /\ Len(Greeting) + 1 + (i - Len(g)) = i
          BY <2>1, <3>0, <3>1, <4>2
        <5> QED
          BY <3>3, <3>5, <3>6, <4>2, <5>1
      <4> QED
        BY <4>1, <4>2
    <3>8. g \o u = p
      BY <2>1, <3>5, <3>6, <3>7, SeqEqual
    <3> QED
      BY <3>4, <3>8
  <2>5. Parses(p) /\ NewPeerMsgFromBuffer(p) = [kind |-> "HANDSHAKE", payload |-> p]
    BY <2>3, <2>4 DEF Parses, NewPeerMsgFromBuffer, IsPeerHandshakeMsg
  <2> QED
    BY <1>0, <1>1, <2>1, <2>5 DEF p
<1>2. CASE m.kind # "HANDSHAKE"
  <2>1. /\ p \in Seq(Byte) /\ Len(p) \in Nat /\ Len(p) >= 4 /\ p[1] # Greeting[1]
        /\ Len(p) = 4 <=> m.kind = "KEEP_ALIVE"
        /\ m.kind # "KEEP_ALIVE" =>
              /\ Len(p) = 5 + Len(m.payload)
              /\ p[5] = Id(m.kind)
              /\ SubSeq(p, 6, Len(p)) = m.payload
        /\ m.kind \in ToSet(Kinds) => Id(m.kind) \in 0 .. 7
        /\ m.kind = "UNKNOWN" => Id(m.kind) = 8
    BY <1>2, PrefixedBytes
  <2>2. /\ m.kind \in ToSet(Kinds) \/ m.kind = "KEEP_ALIVE" \/ m.kind = "UNKNOWN"
        /\ m.kind = "KEEP_ALIVE" => m.payload = <<>>
    BY <1>2, MessageFacts
  <2>3. Len(Kinds) = 8
    BY DEF Kinds
  <2> HIDE DEF p
  <2>4. ~IsPrefix(Greeting, p)
    <3>1. 1 \in 1 .. Len(Greeting) /\ Greeting \in Seq(Byte)
      BY Sizes
    <3> QED
      BY <2>1, <3>1, PrefixFacts
  <2>5. CASE m.kind = "KEEP_ALIVE"
    <3>1. Len(p) <= HeaderLen /\ ~(Len(p) > HeaderLen)
      <4>1. Len(p) = 4
        BY <2>1, <2>5, Zenon
      <4> QED
        BY <4>1 DEF HeaderLen
    <3>2. Parses(p)
      BY <3>1 DEF Parses
    <3>3. NewPeerMsgFromBuffer(p) = [kind |-> "KEEP_ALIVE", payload |-> <<>>]
      BY <2>4, <3>1 DEF NewPeerMsgFromBuffer, IsPeerHandshakeMsg
    <3> QED
      BY <1>0, <2>2, <2>5, <3>2, <3>3 DEF p
  <2>6. CASE m.kind # "KEEP_ALIVE"
    <3>1. Len(p) > HeaderLen /\ ~(Len(p) <= HeaderLen)
      BY <2>1, <2>6 DEF HeaderLen
    <3>2. HeaderLen + 1 = 5 /\ HeaderLen + 2 = 6
      BY DEF HeaderLen
    <3>3. Parses(p) <=> Id(m.kind) < 8
      BY <2>1, <2>3, <2>4, <2>6, <3>1, <3>2 DEF Parses, IsPeerHandshakeMsg
    <3>4. NewPeerMsgFromBuffer(p) = [kind |-> Kinds[Id(m.kind) + 1], payload |-> m.payload]
      BY <2>1, <2>4, <2>6, <3>1, <3>2 DEF NewPeerMsgFromBuffer, IsPeerHandshakeMsg
    <3>5. CASE m.kind = "UNKNOWN"
      BY <2>1, <3>3, <3>5 DEF p
    <3>6. CASE m.kind # "UNKNOWN"
      <4>1. m.kind \in ToSet(Kinds)
        BY <2>2, <2>6, <3>6
      <4>2. Id(m.kind) \in 0 .. 7 /\ Kinds[Id(m.kind) + 1] = m.kind
        BY <4>1, KindFacts
      <4>3. Parses(p)
        BY <3>3, <4>2
      <4> QED
        BY <1>0, <3>4, <3>6, <4>2, <4>3 DEF p
    <3> QED
      BY <3>5, <3>6
  <2> QED
    BY <2>5, <2>6
<1> QED
  BY <1>1, <1>2

-----------------------------------------------------------------------------
(* One read *)

LEMMA PartOf ==
    ASSUME NEW s \in Seq(Byte), NEW a \in Nat, NEW b \in Nat, b <= Len(s)
    PROVE  /\ SubSeq(s, a + 1, b) \in Seq(Byte)
           /\ Len(SubSeq(s, a + 1, b)) = IF a <= b THEN b - a ELSE 0
           /\ \A i \in 1 .. b - a : SubSeq(s, a + 1, b)[i] = s[a + i]
<1>0. Len(s) \in Nat
  BY LenProperties
<1>1. \A i \in a + 1 .. b : s[i] \in Byte
  <2>1. \A i \in a + 1 .. b : i \in 1 .. Len(s)
    BY <1>0
  <2> QED
    BY <2>1, ElementOfSeq
<1>2. a + 1 \in Int /\ b \in Int
  OBVIOUS
<1> DEFINE u == SubSeq(s, a + 1, b)
<1>3. /\ u \in Seq(Byte)
      /\ Len(u) = IF a + 1 <= b THEN b - (a + 1) + 1 ELSE 0
      /\ \A i \in 1 .. b - (a + 1) + 1 : u[i] = s[(a + 1) + i - 1]
  BY <1>1, <1>2, SubSeqProperties
<1> HIDE DEF u
<1>4. Len(u) = IF a <= b THEN b - a ELSE 0
  BY <1>3
<1>5. \A i \in 1 .. b - a : i \in 1 .. b - (a + 1) + 1 /\ (a + 1) + i - 1 = a + i
  OBVIOUS
<1> QED
  BY <1>3, <1>4, <1>5 DEF u

LEMMA Split ==
    ASSUME NEW s \in Seq(Byte), NEW c \in Nat, c <= Len(s)
    PROVE  /\ SubSeq(s, 1, c) \in Seq(Byte) /\ Len(SubSeq(s, 1, c)) = c
           /\ \A i \in 1 .. c : SubSeq(s, 1, c)[i] = s[i]
           /\ SubSeq(s, c + 1, Len(s)) \in Seq(Byte)
           /\ Len(SubSeq(s, c + 1, Len(s))) = Len(s) - c
           /\ SubSeq(s, 1, c) \o SubSeq(s, c + 1, Len(s)) = s
<1>0. Len(s) \in Nat
  BY LenProperties
<1>1. /\ SubSeq(s, 0 + 1, c) \in Seq(Byte)
      /\ Len(SubSeq(s, 0 + 1, c)) = IF 0 <= c THEN c - 0 ELSE 0
      /\ \A i \in 1 .. c - 0 : SubSeq(s, 0 + 1, c)[i] = s[0 + i]
  BY PartOf
<1>2. /\ SubSeq(s, c + 1, Len(s)) \in Seq(Byte)
      /\ Len(SubSeq(s, c + 1, Len(s))) = IF c <= Len(s) THEN Len(s) - c ELSE 0
  BY <1>0, PartOf
<1>3. 1 \in 1 .. Len(s) + 1 /\ c \in 1 - 1 .. Len(s) /\ Len(s) \in c .. Len(s)
  BY <1>0
<1>4. SubSeq(s, 1, c) \o SubSeq(s, c + 1, Len(s)) = SubSeq(s, 1, Len(s))
  BY <1>3, ConcatAdjacentSubSeq
<1>5. 0 + 1 = 1 /\ c - 0 = c /\ \A i \in 1 .. c : 0 + i = i
  OBVIOUS
<1>6. /\ SubSeq(s, 1, c) \in Seq(Byte) /\ Len(SubSeq(s, 1, c)) = c
      /\ \A i \in 1 .. c : SubSeq(s, 1, c)[i] = s[i]
  BY <1>1, <1>5
<1>7. Len(SubSeq(s, c + 1, Len(s))) = Len(s) - c
  BY <1>0, <1>2
<1>8. SubSeq(s, 1, Len(s)) = s
  BY SubSeqFull
<1> QED
  BY <1>2, <1>4, <1>6, <1>7, <1>8, Zenon

(* Types, and what the reader has taken of the message it is reading. *)
Between == stream = <<>> /\ total = <<>> /\ remaining = 0 /\ received = sent

Within(m) ==
    /\ sent = Append(received, m)
    /\ stream # <<>> /\ total \o stream = Bytes(m)
    /\ remaining = IF total = <<>> THEN 0 ELSE Len(stream)

Types ==
    /\ sent \in Seq(Messages) /\ received \in Seq(Messages)
    /\ stream \in Seq(Byte) /\ total \in Seq(Byte)
    /\ buf \in Seq(Byte) /\ Len(buf) = BufLen
    /\ remaining \in Nat

Aligned ==
    /\ Types
    /\ reader = "reading" => Between \/ \E m \in Messages : Within(m)
    /\ reader \in {"tooBig", "unparsable"} => Len(received) < Len(sent)
    /\ RefusalsAreRight

LEMMA FilledFacts ==
    ASSUME Types, NEW c \in Nat, c <= Len(stream), c <= BufLen
    PROVE  /\ Filled(c) \in Seq(Byte) /\ Len(Filled(c)) = BufLen
           /\ \A i \in 1 .. c : Filled(c)[i] = stream[i]
<1> DEFINE u == SubSeq(stream, 1, c)
           v == SubSeq(buf, c + 1, BufLen)
<1>0. BufLen \in Nat /\ stream \in Seq(Byte) /\ buf \in Seq(Byte) /\ Len(buf) = BufLen
  BY Sizes DEF Types
<1>1. u \in Seq(Byte) /\ Len(u) = c /\ \A i \in 1 .. c : u[i] = stream[i]
  BY <1>0, Split
<1>2. v \in Seq(Byte) /\ Len(v) = IF c <= BufLen THEN BufLen - c ELSE 0
  <2>1. BufLen <= Len(buf)
    BY <1>0
  <2> QED
    BY <1>0, <2>1, PartOf
<1>3. Filled(c) = u \o v
  BY DEF Filled
<1> HIDE DEF u, v
<1>4. /\ u \o v \in Seq(Byte) /\ Len(u \o v) = Len(u) + Len(v)
      /\ \A i \in 1 .. Len(u) + Len(v) :
            (u \o v)[i] = IF i <= Len(u) THEN u[i] ELSE v[i - Len(u)]
  BY <1>1, <1>2, ConcatProperties
<1>5. Len(u) + Len(v) = BufLen
  BY <1>0, <1>1, <1>2
<1>6. \A i \in 1 .. c : i \in 1 .. BufLen /\ i <= Len(u)
  BY <1>0, <1>1
<1> QED
  BY <1>1, <1>3, <1>4, <1>5, <1>6

(* The four things that can come of a read, told from the message.         *)
Refuses(m) ==
    /\ Len(Bytes(m)) > MaxLen
    /\ reader' = "tooBig" /\ received' = received /\ sent' = sent

Goes(m) ==
    /\ Within(m)'
    /\ reader' = reader /\ received' = received /\ sent' = sent

Returns(m) ==
    /\ received' = Append(received, m) /\ stream' = <<>> /\ total' = <<>>
    /\ remaining' = 0 /\ reader' = reader /\ sent' = sent

Breaks(m) ==
    /\ m.kind = "UNKNOWN"
    /\ reader' = "unparsable" /\ received' = received /\ sent' = sent

LEMMA StartTypes ==
    ASSUME StartAnew
    PROVE  total' \in Seq(Byte) /\ buf' \in Seq(Byte) /\ Len(buf') = BufLen /\ remaining' \in Nat
<1>1. BufLen \in Nat /\ 0 \in Byte
  BY Sizes, ByteFacts
<1>2. EmptyBuf \in Seq(Byte) /\ Len(EmptyBuf) = BufLen
  BY <1>1 DEF EmptyBuf
<1> QED
  BY <1>2 DEF StartAnew

LEMMA ReadStep ==
    ASSUME ~Segmented, Aligned, NEW c \in ReadSizes, Read(c)
    PROVE  \E m \in Messages :
               /\ reader = "reading" /\ Within(m)
               /\ Types'
               /\ Refuses(m) \/ Goes(m) \/ Returns(m) \/ Breaks(m)
<1> DEFINE bytes == Filled(c)
           need == IF remaining = 0 THEN ParseRawPeerMsgLength(bytes) ELSE remaining
           left == need - Take(need)
           all == total \o SubSeq(bytes, 1, Take(need))
           refused == remaining = 0 /\ TooBig(need)
<1>1. reader = "reading" /\ Types
  BY DEF Read, Aligned
<1>2. /\ stream \in Seq(Byte) /\ Len(stream) \in Nat /\ total \in Seq(Byte)
      /\ BufLen \in Nat \ {0}
  BY <1>1, Sizes, LenProperties DEF Types
<1>3. /\ c = AtMost(BufLen, Len(stream)) /\ c # 0
      /\ c \in Nat \ {0} /\ c <= BufLen /\ c <= Len(stream)
      /\ BufLen <= Len(stream) => c = BufLen
      /\ Len(stream) < BufLen => c = Len(stream)
  <2>1. c = AtMost(BufLen, Len(stream)) /\ c # 0
    BY DEF ReadSizes
  <2> QED
    BY <1>2, <2>1 DEF AtMost
<1>4. stream # <<>>
  BY <1>3, EmptySeq
<1>5. PICK m \in Messages : Within(m)
  BY <1>1, <1>4 DEF Aligned, Between
<1>6. bytes \in Seq(Byte) /\ Len(bytes) = BufLen /\ \A i \in 1 .. c : bytes[i] = stream[i]
  BY <1>1, <1>3, FilledFacts
<1> HIDE DEF bytes
<1>7. need = Len(stream) /\ (remaining = 0 => need = Len(Bytes(m)))
  <2>1. CASE total = <<>>
    <3>1. remaining = 0 /\ <<>> \o stream = Bytes(m)
      BY <1>5, <2>1 DEF Within
    <3>2. stream = Bytes(m)
      BY <1>2, <3>1, ConcatEmptySeq
    <3>3. \A i \in 1 .. BufLen : i <= Len(stream) => i \in 1 .. c
      BY <1>2, <1>3
    <3>4. \A i \in 1 .. BufLen : i <= Len(Bytes(m)) => bytes[i] = Bytes(m)[i]
      BY <1>6, <3>2, <3>3
    <3>5. ParseRawPeerMsgLength(bytes) = Len(Bytes(m))
      BY <1>6, <3>4, LengthParsed
    <3> QED
      BY <3>1, <3>2, <3>5
  <2>2. CASE total # <<>>
    <3>1. remaining = Len(stream)
      BY <1>5, <2>2 DEF Within
    <3>2. Len(stream) # 0
      BY <1>2, <1>4, EmptySeq
    <3> QED
      BY <3>1, <3>2
  <2> QED
    BY <2>1, <2>2
<1> HIDE DEF need
<1>8. Take(need) = c
  BY <1>3, <1>7 DEF Take
<1>9. left = Len(stream) - c
  BY <1>7, <1>8
<1> DEFINE part == SubSeq(stream, 1, c)
           rest == SubSeq(stream, c + 1, Len(stream))
<1>10. /\ part \in Seq(Byte) /\ Len(part) = c /\ \A i \in 1 .. c : part[i] = stream[i]
       /\ rest \in Seq(Byte) /\ Len(rest) = Len(stream) - c /\ part \o rest = stream
  BY <1>2, <1>3, Split
<1>11. SubSeq(bytes, 1, c) = part
  <2>1. /\ SubSeq(bytes, 1, c) \in Seq(Byte) /\ Len(SubSeq(bytes, 1, c)) = c
        /\ \A i \in 1 .. c : SubSeq(bytes, 1, c)[i] = bytes[i]
    <3>1. c \in Nat /\ c <= Len(bytes)
      BY <1>3, <1>6
    <3> QED
      BY <1>6, <3>1, Split
  <2> DEFINE u == SubSeq(bytes, 1, c)
  <2> HIDE DEF u, part
  <2>2. u \in Seq(Byte) /\ Len(u) = Len(part) /\ \A i \in 1 .. Len(u) : u[i] = part[i]
    BY <1>6, <1>10, <2>1 DEF u
  <2>3. u = part
    BY <1>10, <2>2, SeqEqual
  <2> QED
    BY <2>3 DEF u
<1>12. all = total \o part
  BY <1>8, <1>11
<1>13. stream' = rest /\ sent' = sent
  BY DEF Read
<1> HIDE DEF part, rest, left, all
<1>14. /\ all \in Seq(Byte) /\ Len(all) = Len(total) + c /\ all \o rest = Bytes(m)
  <2>1. all \in Seq(Byte) /\ Len(all) = Len(total) + Len(part)
    BY <1>2, <1>10, <1>12, ConcatProperties
  <2>2. (total \o part) \o rest = total \o (part \o rest)
    BY <1>2, <1>10, ConcatBytes
  <2>3. total \o stream = Bytes(m)
    BY <1>5 DEF Within
  <2> QED
    BY <1>10, <1>12, <2>1, <2>2, <2>3
<1>15. \/ refused /\ Fail("tooBig")
       \/ /\ ~refused /\ ~Complete(left)
          /\ buf' = bytes /\ total' = all /\ remaining' = left
          /\ received' = received /\ reader' = reader
       \/ /\ ~refused /\ Complete(left) /\ Parses(all)
          /\ received' = Append(received, NewPeerMsgFromBuffer(all))
          /\ StartAnew /\ reader' = reader
       \/ /\ ~refused /\ Complete(left) /\ ~Parses(all)
          /\ Fail("unparsable")
  BY DEF Read, left, all, need, bytes
<1>16. sent' \in Seq(Messages) /\ received \in Seq(Messages) /\ stream' \in Seq(Byte)
  BY <1>1, <1>10, <1>13 DEF Types
<1>17. Complete(left) => rest = <<>> /\ all = Bytes(m)
  <2> SUFFICES ASSUME Complete(left) PROVE rest = <<>> /\ all = Bytes(m)
    OBVIOUS
  <2>1. Len(rest) = 0
    BY <1>9, <1>10 DEF Complete
  <2>2. rest = <<>>
    BY <1>10, <2>1, EmptySeq
  <2>3. all \o <<>> = all
    BY <1>14, ConcatEmptySeq
  <2> QED
    BY <1>14, <2>2, <2>3
<1>18. CASE refused /\ Fail("tooBig")
  <2>1. Len(Bytes(m)) > MaxLen
    BY <1>7, <1>18 DEF TooBig
  <2>2. Types'
    BY <1>16, <1>18, StartTypes DEF Types, Fail
  <2> QED
    BY <1>1, <1>5, <1>13, <1>18, <2>1, <2>2 DEF Refuses, Fail
<1>19. CASE /\ ~refused /\ ~Complete(left)
            /\ buf' = bytes /\ total' = all /\ remaining' = left
            /\ received' = received /\ reader' = reader
  <2>1. left = Len(rest) /\ left # 0 /\ left \in Nat
    BY <1>2, <1>3, <1>9, <1>10, <1>19 DEF Complete
  <2>2. rest # <<>>
    BY <2>1, EmptySeq
  <2>3. all # <<>>
    <3>1. Len(total) \in Nat
      BY <1>2, LenProperties
    <3>2. Len(all) # 0
      BY <1>3, <1>14, <3>1
    <3> QED
      BY <3>2, EmptySeq
  <2>4. sent = Append(received, m)
    BY <1>5 DEF Within
  <2>5. Within(m)'
    BY <1>13, <1>14, <1>19, <2>1, <2>2, <2>3, <2>4 DEF Within
  <2>6. Types'
    BY <1>6, <1>14, <1>16, <1>19, <2>1 DEF Types
  <2> QED
    BY <1>1, <1>5, <1>13, <1>19, <2>5, <2>6 DEF Goes
<1>20. CASE /\ ~refused /\ Complete(left) /\ Parses(all)
            /\ received' = Append(received, NewPeerMsgFromBuffer(all))
            /\ StartAnew /\ reader' = reader
  <2>1. NewPeerMsgFromBuffer(all) = m
    BY <1>17, <1>20, ParsedBack
  <2>2. Append(received, m) \in Seq(Messages)
    BY <1>16, AppendProperties
  <2>3. Types'
    BY <1>16, <1>20, <2>1, <2>2, StartTypes DEF Types
  <2>4. stream' = <<>>
    BY <1>13, <1>17, <1>20
  <2> QED
    BY <1>1, <1>5, <1>13, <1>20, <2>1, <2>3, <2>4 DEF Returns, StartAnew
<1>21. CASE /\ ~refused /\ Complete(left) /\ ~Parses(all)
            /\ Fail("unparsable")
  <2>1. m.kind = "UNKNOWN"
    BY <1>17, <1>21, ParsedBack
  <2>2. Types'
    BY <1>16, <1>21, StartTypes DEF Types, Fail
  <2> QED
    BY <1>1, <1>5, <1>13, <1>21, <2>1, <2>2 DEF Breaks, Fail
<1> QED
  BY <1>15, <1>18, <1>19, <1>20, <1>21

-----------------------------------------------------------------------------
(* The invariant *)

LEMMA PendingOf ==
    ASSUME NEW m \in Messages, received \in Seq(Messages), sent = Append(received, m)
    PROVE  /\ Len(sent) = Len(received) + 1 /\ Len(received) \in Nat
           /\ Len(received) < Len(sent) /\ Pending = m
<1>1. Len(sent) = Len(received) + 1 /\ sent[Len(received) + 1] = m
  BY AppendProperties
<1>2. Len(received) \in Nat
  BY LenProperties
<1> QED
  BY <1>1, <1>2 DEF Pending

LEMMA AlignedInit ==
    ASSUME Init
    PROVE  Aligned
<1>1. BufLen \in Nat /\ 0 \in Byte
  BY Sizes, ByteFacts
<1>2. EmptyBuf \in Seq(Byte) /\ Len(EmptyBuf) = BufLen
  BY <1>1 DEF EmptyBuf
<1>3. Types
  BY <1>2 DEF Init, Types
<1>4. Between
  BY DEF Init, Between
<1>5. reader = "reading"
  BY DEF Init
<1> QED
  BY <1>3, <1>4, <1>5 DEF Aligned, RefusalsAreRight

LEMMA WriteKeeps ==
    ASSUME ~Segmented, Aligned, NEW m \in Messages, Write(m)
    PROVE  Aligned'
<1>1. /\ sent' = Append(sent, m) /\ stream = <<>> /\ stream' = stream \o Bytes(m)
      /\ open' = open /\ buf' = buf /\ total' = total /\ remaining' = remaining
      /\ received' = received /\ reader' = reader
  BY DEF Write, callVars
<1>2. Types
  BY DEF Aligned
<1>3. Bytes(m) \in Seq(Byte) /\ Bytes(m) # <<>>
  <2>1. CASE m.kind = "HANDSHAKE"
    <3>1. Bytes(m) \in Seq(Byte) /\ Len(Bytes(m)) = HandshakeLen /\ HandshakeLen # 0
      BY <2>1, HandshakeBytes, Sizes
    <3> QED
      BY <3>1, EmptySeq
  <2>2. CASE m.kind # "HANDSHAKE"
    <3>1. Bytes(m) \in Seq(Byte) /\ Len(Bytes(m)) \in Nat /\ Len(Bytes(m)) >= 4
      BY <2>2, PrefixedBytes
    <3>2. Len(Bytes(m)) # 0
      BY <3>1
    <3> QED
      BY <3>1, <3>2, EmptySeq
  <2> QED
    BY <2>1, <2>2
<1>4. stream' = Bytes(m)
  BY <1>1, <1>3, ConcatEmptySeq
<1>5. /\ sent \in Seq(Messages) /\ received \in Seq(Messages)
      /\ Append(sent, m) \in Seq(Messages) /\ Len(Append(sent, m)) = Len(sent) + 1
      /\ \A i \in 1 .. Len(sent) : Append(sent, m)[i] = sent[i]
      /\ Len(sent) \in Nat /\ Len(received) \in Nat
  BY <1>2, AppendProperties, LenProperties DEF Types
<1>6. Types'
  BY <1>1, <1>2, <1>3, <1>4, <1>5 DEF Types
<1>7. reader = "reading" => Within(m)'
  <2> SUFFICES ASSUME reader = "reading" PROVE Within(m)'
    OBVIOUS
  <2>1. Between
    BY <1>1 DEF Aligned, Within
  <2>2. <<>> \o Bytes(m) = Bytes(m)
    BY <1>3, ConcatEmptySeq
  <2> QED
    BY <1>1, <1>3, <1>4, <2>1, <2>2 DEF Between, Within
<1>8. reader \in {"tooBig", "unparsable"} =>
          Len(received) < Len(sent) /\ Len(received') < Len(sent') /\ Pending' = Pending
  <2> SUFFICES ASSUME reader \in {"tooBig", "unparsable"}
               PROVE  /\ Len(received) < Len(sent) /\ Len(received') < Len(sent')
                      /\ Pending' = Pending
    OBVIOUS
  <2>1. Len(received) < Len(sent)
    BY DEF Aligned
  <2>2. Len(received') < Len(sent')
    BY <1>1, <1>5, <2>1
  <2>3. Len(received) + 1 \in 1 .. Len(sent)
    BY <1>5, <2>1
  <2>4. Append(sent, m)[Len(received) + 1] = sent[Len(received) + 1]
    BY <1>5, <2>3
  <2> QED
    BY <1>1, <2>1, <2>2, <2>4 DEF Pending
<1>9. RefusalsAreRight'
  BY <1>1, <1>8 DEF Aligned, RefusalsAreRight
<1> QED
  BY <1>1, <1>6, <1>7, <1>8, <1>9 DEF Aligned

LEMMA ReadKeeps ==
    ASSUME ~Segmented, Aligned, NEW c \in ReadSizes, Read(c)
    PROVE  Aligned'
<1>1. PICK m \in Messages :
          /\ reader = "reading" /\ Within(m)
          /\ Types'
          /\ Refuses(m) \/ Goes(m) \/ Returns(m) \/ Breaks(m)
  BY ReadStep
<1>2. received \in Seq(Messages) /\ sent = Append(received, m)
  BY <1>1 DEF Aligned, Types, Within
<1>3. Len(received) < Len(sent) /\ Pending = m
  BY <1>2, PendingOf
<1>4. received' = received /\ sent' = sent => Pending' = m /\ Len(received') < Len(sent')
  BY <1>3 DEF Pending
<1>5. CASE Refuses(m)
  <2>1. reader' = "tooBig" /\ Pending' = m /\ Len(received') < Len(sent') /\ Len(Bytes(m)) > MaxLen
    BY <1>4, <1>5 DEF Refuses
  <2>2. RefusalsAreRight'
    BY <2>1 DEF RefusalsAreRight
  <2> QED
    BY <1>1, <2>1, <2>2 DEF Aligned
<1>6. CASE Goes(m)
  BY <1>1, <1>6 DEF Goes, Aligned, RefusalsAreRight
<1>7. CASE Returns(m)
  <2>1. Between'
    BY <1>2, <1>7 DEF Returns, Between
  <2> QED
    BY <1>1, <1>7, <2>1 DEF Returns, Aligned, RefusalsAreRight
<1>8. CASE Breaks(m)
  <2>1. reader' = "unparsable" /\ Pending' = m /\ Len(received') < Len(sent') /\ m.kind = "UNKNOWN"
    BY <1>4, <1>8 DEF Breaks
  <2>2. RefusalsAreRight'
    BY <2>1 DEF RefusalsAreRight
  <2> QED
    BY <1>1, <2>1, <2>2 DEF Aligned
<1> QED
  BY <1>1, <1>5, <1>6, <1>7, <1>8

LEMMA AlignedStep ==
    ASSUME ~Segmented, Aligned, [Next]_vars
    PROVE  Aligned'
<1>1. CASE \E m \in Messages : Write(m)
  BY <1>1, WriteKeeps
<1>2. CASE \E c \in ReadSizes : Read(c)
  BY <1>2, ReadKeeps
<1>3. CASE CloseWriter \/ UNCHANGED vars
  <2>1. /\ sent' = sent /\ stream' = stream /\ buf' = buf /\ total' = total
        /\ remaining' = remaining /\ received' = received /\ reader' = reader
    BY <1>3 DEF CloseWriter, vars, callVars
  <2>2. Types' /\ (Between' <=> Between) /\ \A m \in Messages : Within(m)' <=> Within(m)
    BY <2>1 DEF Aligned, Types, Between, Within
  <2>3. RefusalsAreRight'
    BY <2>1 DEF Aligned, RefusalsAreRight, Pending
  <2> QED
    BY <2>1, <2>2, <2>3 DEF Aligned
<1>4. CASE \E why \in {"eof", "timeout"} : ReadEnds(why)
  <2>1. /\ sent' = sent /\ stream' = stream /\ received' = received
        /\ reader' \in {"eof", "timeout"} /\ StartAnew
    BY <1>4 DEF ReadEnds, Fail
  <2>2. Types'
    BY <2>1, StartTypes DEF Aligned, Types
  <2> QED
    BY <2>1, <2>2 DEF Aligned, RefusalsAreRight
<1> QED
  BY <1>1, <1>2, <1>3, <1>4 DEF Next

LEMMA AlignedHolds ==
    ASSUME ~Segmented
    PROVE  Spec => []Aligned
<1>1. Init => Aligned
  BY AlignedInit
<1>2. Aligned /\ [Next]_vars => Aligned'
  BY AlignedStep
<1> QED
  BY <1>1, <1>2, PTL DEF Spec

-----------------------------------------------------------------------------
(* Theorems *)

(* When the socket hands over what was written, ReadPeerMsg stays in step  *)
(* with the writer: after each pass of its loop, totalBuff and the bytes   *)
(* still in the socket are the message, and remainingMsgLen counts the     *)
(* latter, for messages of any length and a msgBuf of any size.            *)
THEOREM InStepHolds ==
    ASSUME ~Segmented
    PROVE  Spec => []InStep
<1>1. Aligned => InStep
  <2> SUFFICES ASSUME Aligned, reader = "reading", ~Between
               PROVE  InStep
    BY DEF InStep, Between
  <2>1. PICK m \in Messages : Within(m)
    BY DEF Aligned
  <2>2. received \in Seq(Messages) /\ sent = Append(received, m)
    BY <2>1 DEF Within, Aligned, Types
  <2>3. Len(sent) = Len(received) + 1 /\ Pending = m
    BY <2>2, PendingOf
  <2> QED
    BY <2>1, <2>3 DEF InStep, Within
<1> QED
  BY <1>1, AlignedHolds, PTL

(* ParseRawPeerMsgLength refuses only a message above the limit, and       *)
(* NewPeerMsgFromBuffer only one whose identifier it does not know.        *)
THEOREM RefusalsAreRightHolds ==
    ASSUME ~Segmented
    PROVE  Spec => []RefusalsAreRight
<1>1. Aligned => RefusalsAreRight
  BY DEF Aligned
<1> QED
  BY <1>1, AlignedHolds, PTL

(* The connection implements Wire: Write is a Send, the pass that          *)
(* completes a message is its Receive, and every other step of reader and  *)
(* writer leaves the messages as they are.                                 *)
THEOREM KeepsWireHolds ==
    ASSUME ~Segmented
    PROVE  Spec => KeepsWire
<1>1. Init => W!Init
  BY DEF Init, W!Init
<1>2. ASSUME Aligned, [Next]_vars
      PROVE  [W!Send \/ W!Receive]_<<sent, received>>
  <2>1. CASE \E m \in Messages : Write(m)
    BY <2>1 DEF Write, W!Send
  <2>2. CASE \E c \in ReadSizes : Read(c)
    <3>1. PICK m \in Messages :
              /\ Within(m)
              /\ Refuses(m) \/ Goes(m) \/ Returns(m) \/ Breaks(m)
      BY <1>2, <2>2, ReadStep
    <3>2. received \in Seq(Messages) /\ sent = Append(received, m)
      BY <1>2, <3>1 DEF Aligned, Types, Within
    <3>3. Len(received) < Len(sent) /\ sent[Len(received) + 1] = m
      BY <3>2, PendingOf DEF Pending
    <3>4. CASE Returns(m)
      BY <3>3, <3>4 DEF Returns, W!Receive
    <3>5. CASE Refuses(m) \/ Goes(m) \/ Breaks(m)
      BY <3>5 DEF Refuses, Goes, Breaks
    <3> QED
      BY <3>1, <3>4, <3>5
  <2>3. CASE CloseWriter \/ UNCHANGED vars
    BY <2>3 DEF CloseWriter, vars
  <2>4. CASE \E why \in {"eof", "timeout"} : ReadEnds(why)
    BY <2>4 DEF ReadEnds, Fail
  <2> QED
    BY <1>2, <2>1, <2>2, <2>3, <2>4 DEF Next
<1> QED
  BY <1>1, <1>2, AlignedHolds, PTL DEF Spec, KeepsWire, W!Spec

=============================================================================
