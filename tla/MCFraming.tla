------------------------------ MODULE MCFraming ------------------------------
(* Instances of Framing with buffers of seven bytes. *)
EXTENDS Framing

Protocol == <<19, 1>>

Handshake == [kind |-> "HANDSHAKE", payload |-> Protocol \o <<0, 3, 4, 5, 6>>]
KeepAlive == [kind |-> "KEEP_ALIVE", payload |-> <<>>]
Unchoked == [kind |-> "UNCHOKED", payload |-> <<>>]
Have == [kind |-> "HAVE", payload |-> <<0, 1>>]

(* As long as two buffers, as long as the limit, and longer. *)
Piece == [kind |-> "PIECE", payload |-> <<0, 1, 19, 1, 0, 6, 5, 0, 0>>]
FullPiece == [kind |-> "PIECE", payload |-> <<0, 2, 19, 1, 0, 6, 5, 4, 0, 0, 9>>]
HugeField == [kind |-> "BITFIELD", payload |-> <<7, 7, 7, 7, 7, 7, 7, 7, 7, 7, 7, 7>>]

Foreign == [kind |-> "UNKNOWN", payload |-> <<1>>]

AllSizes == {Foreign, Handshake, KeepAlive, Unchoked, Have, Piece, FullPiece, HugeField}

Small == {Handshake, KeepAlive, Have}
=============================================================================
