------------------------------- MODULE Framing -------------------------------
(***************************************************************************)
(* How a connection turns messages into bytes and back: PeerMsg.Bytes and  *)
(* the writer goroutine at one end, ReadPeerMsg, ParseRawPeerMsgLength and *)
(* NewPeerMsgFromBuffer at the other, over a socket that returns as many   *)
(* bytes as it likes.  Buffer, limit and handshake may be smaller than the *)
(* code's.                                                                 *)
(***************************************************************************)
EXTENDS Integers, Sequences, SequencesExt

CONSTANTS
    Messages,       \* messages a peer may write: records [kind, payload]
    BufLen,         \* bytes of msgBuf: 1024
    MaxLen,         \* longest message accepted: 16640
    Greeting,       \* how a handshake begins: <<19>> and the protocol's name
    HandshakeLen,   \* bytes of a handshake: 68
    MaxMessages,    \* BOUND: messages written
    Segmented       \* whether the network cuts and joins what was written

Kinds == <<"CHOKED", "UNCHOKED", "INTERESTED", "NOT_INTERESTED", "HAVE",
           "BITFIELD", "REQUEST", "PIECE">>

Byte == 0 .. 255

HeaderLen == 4      \* bytes of the length prefix

Top == 16777216     \* what its first byte counts: 2^24

ASSUME FramingAssumption ==
    /\ \A n \in {BufLen, MaxLen, HandshakeLen, MaxMessages} : n \in Nat \ {0}
    /\ BufLen > HeaderLen /\ BufLen >= HandshakeLen /\ MaxLen >= HandshakeLen
    /\ Segmented \in BOOLEAN
    /\ Greeting \in Seq(Byte) /\ Greeting # <<>>
    /\ HandshakeLen > Len(Greeting)

(* A handshake is built with its greeting and reserved bytes that are 0;   *)
(* no message is so long that its prefix begins as a greeting does, which  *)
(* takes 19 * 2^24 bytes.                                                  *)
ASSUME MessageAssumption ==
    \A m \in Messages :
        /\ m \in [kind : ToSet(Kinds) \cup {"HANDSHAKE", "KEEP_ALIVE", "UNKNOWN"},
                 payload : Seq(Byte)]
        /\ 1 + Len(m.payload) < Top * Head(Greeting)
        /\ m.kind = "HANDSHAKE" =>
               /\ Len(m.payload) = HandshakeLen
               /\ IsPrefix(Append(Greeting, 0), m.payload)
        /\ m.kind \in {"KEEP_ALIVE", "CHOKED", "UNCHOKED", "INTERESTED",
                       "NOT_INTERESTED"} => m.payload = <<>>

VARIABLES
    sent,       \* messages written
    open,       \* whether the writing end is open
    stream,     \* bytes in the socket
    buf,        \* msgBuf of the ReadPeerMsg under way
    total,      \* totalBuff of it
    remaining,  \* remainingMsgLen of it
    received,   \* messages ReadPeerMsg returned
    reader      \* "reading", or the error that ended the reader's loop

callVars == <<buf, total, remaining>>
vars == <<sent, open, stream, callVars, received, reader>>

-----------------------------------------------------------------------------
(* Messages and bytes *)

Header(n) ==
    <<(n \div Top) % 256, (n \div 65536) % 256, (n \div 256) % 256, n % 256>>

BigEndian(b) == Top * b[1] + 65536 * b[2] + 256 * b[3] + b[4]

(* Other clients also send messages this one has no identifier for. *)
Id(kind) ==
    IF kind = "UNKNOWN" THEN Len(Kinds)
    ELSE (CHOOSE i \in DOMAIN Kinds : Kinds[i] = kind) - 1

Bytes(m) ==
    CASE m.kind = "HANDSHAKE" -> m.payload
      [] m.kind = "KEEP_ALIVE" -> Header(0)
      [] OTHER -> Header(1 + Len(m.payload)) \o <<Id(m.kind)>> \o m.payload

IsPeerHandshakeMsg(bytes) == IsPrefix(Greeting, bytes)

\* Seeded fault: the length of the prefix itself is not added.
LengthOfBody(bytes) ==
    IF IsPeerHandshakeMsg(bytes) THEN HandshakeLen
    ELSE BigEndian(bytes)

ParseRawPeerMsgLength(bytes) ==
    IF IsPeerHandshakeMsg(bytes) THEN HandshakeLen
    ELSE BigEndian(bytes) + HeaderLen

\* Seeded fault: the longest message is refused too.
TooBigAtLimit(n) == n >= MaxLen

TooBig(n) == n > MaxLen

(* BuildPeerHandshakeMsgFromRawBytes keeps hash and identifier and builds  *)
(* the rest anew, reserved bytes included.                                 *)
Rebuilt(bytes) == Append(Greeting, 0) \o SubSeq(bytes, Len(Greeting) + 2, HandshakeLen)

Parses(bytes) ==
    ~IsPeerHandshakeMsg(bytes) /\ Len(bytes) > HeaderLen =>
        bytes[HeaderLen + 1] < Len(Kinds)

NewPeerMsgFromBuffer(bytes) ==
    IF IsPeerHandshakeMsg(bytes)
    THEN [kind |-> "HANDSHAKE", payload |-> Rebuilt(bytes)]
    ELSE IF Len(bytes) <= HeaderLen
    THEN [kind |-> "KEEP_ALIVE", payload |-> <<>>]
    ELSE [kind |-> Kinds[bytes[HeaderLen + 1] + 1],
          payload |-> SubSeq(bytes, HeaderLen + 2, Len(bytes))]

-----------------------------------------------------------------------------
EmptyBuf == [i \in 1 .. BufLen |-> 0]

Init ==
    /\ sent = <<>> /\ open = TRUE /\ stream = <<>>
    /\ buf = EmptyBuf /\ total = <<>> /\ remaining = 0
    /\ received = <<>> /\ reader = "reading"

(* The writer goroutine writes one message at a time and sleeps; unless    *)
(* the network gets in between, that is time enough to read all of it.     *)
Write(m) ==
    /\ open /\ Len(sent) < MaxMessages
    /\ ~Segmented => stream = <<>>
    /\ sent' = Append(sent, m)
    /\ stream' = stream \o Bytes(m)
    /\ UNCHANGED <<open, callVars, received, reader>>

CloseWriter ==
    /\ open
    /\ open' = FALSE
    /\ UNCHANGED <<sent, stream, callVars, received, reader>>

AtMost(a, b) == IF a < b THEN a ELSE b

(* What Conn.Read may return: all there is, up to the buffer's size, or    *)
(* less of it when the network segments.                                   *)
ReadSizes ==
    LET most == AtMost(BufLen, Len(stream))
    IN  IF Segmented THEN 1 .. most ELSE {most} \ {0}

(* c bytes overwrite the beginning of the buffer. *)
Filled(c) == SubSeq(stream, 1, c) \o SubSeq(buf, c + 1, BufLen)

Take(need) == AtMost(BufLen, need)

\* Seeded fault: one more read is made before the message is parsed.
CompleteBelowZero(left) == left < 0

\* Seeded fault: the last read of a message is left out.
CompleteEarly(left) == left < BufLen

Complete(left) == left = 0

StartAnew == buf' = EmptyBuf /\ total' = <<>> /\ remaining' = 0

Fail(why) ==
    /\ reader' = why
    /\ StartAnew
    /\ UNCHANGED received

(* One pass of the loop of ReadPeerMsg, up to the next read: the length is *)
(* taken from the first pass, and the bytes from the buffer, however many  *)
(* of them this read has put there.                                        *)
Read(c) ==
    LET bytes == Filled(c)
        need == IF remaining = 0 THEN ParseRawPeerMsgLength(bytes) ELSE remaining
        left == need - Take(need)
        all == total \o SubSeq(bytes, 1, Take(need))
        refused == remaining = 0 /\ TooBig(need)
    IN  /\ reader = "reading"
        /\ stream' = SubSeq(stream, c + 1, Len(stream))
        /\ \/ /\ refused
              /\ Fail("tooBig")
           \/ /\ ~refused /\ ~Complete(left)
              /\ buf' = bytes /\ total' = all /\ remaining' = left
              /\ UNCHANGED <<received, reader>>
           \/ /\ ~refused /\ Complete(left) /\ Parses(all)
              /\ received' = Append(received, NewPeerMsgFromBuffer(all))
              /\ StartAnew
              /\ UNCHANGED reader
           \/ /\ ~refused /\ Complete(left) /\ ~Parses(all)
              /\ Fail("unparsable")
        /\ UNCHANGED <<sent, open>>

(* Nothing more will come; or nothing comes for 20 seconds and the client  *)
(* is not downloading.  A message read in part is forgotten.               *)
ReadEnds(why) ==
    /\ reader = "reading" /\ stream = <<>>
    /\ why = "eof" => ~open
    /\ Fail(why)
    /\ UNCHANGED <<sent, open, stream>>

Next ==
    \/ \E m \in Messages : Write(m)
    \/ CloseWriter
    \/ \E c \in ReadSizes : Read(c)
    \/ \E why \in {"eof", "timeout"} : ReadEnds(why)

Spec == Init /\ [][Next]_vars

(* Bytes in the socket are read. *)
FairSpec == Spec /\ WF_vars(\E c \in ReadSizes : Read(c))
-----------------------------------------------------------------------------
(* Properties *)

(* What ReadPeerMsg has returned is the beginning of what was written: "so *)
(* that messages arrive intact" (NewPeerConnection).                       *)
MessagesArriveIntact == IsPrefix(received, sent)

(* The connection implements the wire: nothing is lost, doubled, changed   *)
(* or reordered between Bytes and NewPeerMsgFromBuffer.                     *)
W == INSTANCE Wire

KeepsWire == W!Spec

\* The message that is to be received next.
Pending == sent[Len(received) + 1]

(* Reader and writer stay in step: between two messages nothing is left    *)
(* over, and within one, what was taken and what is still in the socket    *)
(* make up the message, with remainingMsgLen the length of the latter.     *)
InStep ==
    reader = "reading" =>
        \/ /\ stream = <<>> /\ total = <<>> /\ remaining = 0
           /\ received = sent
        \/ /\ Len(sent) = Len(received) + 1
           /\ total \o stream = Bytes(Pending)
           /\ remaining = IF total = <<>> THEN 0 ELSE Len(stream)

(* ParseRawPeerMsgLength refuses only messages above the limit, and        *)
(* NewPeerMsgFromBuffer only those of a kind it does not know.             *)
RefusalsAreRight ==
    /\ reader = "tooBig" => Len(Bytes(Pending)) > MaxLen
    /\ reader = "unparsable" => Pending.kind = "UNKNOWN"

(* A message written to a connection that is being read arrives, unless    *)
(* it is refused or the reader gave up before.                             *)
EveryMessageArrives ==
    \A n \in 1 .. MaxMessages :
        Len(sent) >= n ~> Len(received) >= n \/ reader # "reading"
=============================================================================
