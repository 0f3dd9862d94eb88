----------------------------- MODULE MCDownload -----------------------------
(* Instances of Download: two peers, c1 and c2, and what each announces. *)
EXTENDS Download

CONSTANTS c1, c2

Have(c, p) == [conn |-> c, kind |-> "HAVE", pieces |-> <<p>>]
Bitfield(c, s) == [conn |-> c, kind |-> "BITFIELD", pieces |-> s]

(* Two complete peers of a torrent of two pieces. *)
TwoSmallSeeds == {Bitfield(c1, <<0, 1>>), Bitfield(c2, <<0, 1>>)}

(* A peer that has only the first piece, next to a complete one. *)
PartAndSeed == {Bitfield(c1, <<0>>), Bitfield(c2, <<0, 1>>)}

(* One complete peer of a torrent of one piece. *)
OnePiece == {Bitfield(c1, <<0>>)}

(* A peer that gains a piece while the client downloads from it, alone and *)
(* next to one that has that piece.                                        *)
Growing == {Bitfield(c1, <<0>>), Have(c1, 1)}
GrowingAndSeed == Growing \cup {Bitfield(c2, <<1>>)}

(* Block counts. *)
TwoEach == [p \in 0 .. NumPieces - 1 |-> 2]
OneEach == [p \in 0 .. NumPieces - 1 |-> 1]
=============================================================================
