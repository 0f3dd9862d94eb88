----------------------------- MODULE MCTransfer -----------------------------
(* Instances of Transfer: torrents of two blocks to a piece, and of one.   *)
EXTENDS Transfer

Shapes(pieceLength, lengths) ==
    {[length |-> l, pieceLength |-> pieceLength] : l \in lengths}

(* Pieces all alike, a last piece of one block instead of two, a shorter   *)
(* last block with one before it and with none; one piece, nine pieces, a  *)
(* last piece that fills no block in any of these.                         *)
SomeTorrents ==
    Shapes(6, {12, 18, 15, 17, 13, 6, 4}) \cup Shapes(3, {6, 24, 27, 30, 26})
=============================================================================
