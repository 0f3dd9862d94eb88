----------------------------- MODULE SafePieces -----------------------------
(***************************************************************************)
(* The piece table that every peer connection of a client shares           *)
(* (SafePiecesImpl, src/piece/piece.go).  Its mutex makes each operation   *)
(* below one atomic step.  The table itself does not check who calls       *)
(* MarkAsDone: that only the holder of a piece finishes it is a property   *)
(* of the download protocol (see Download and PieceLedger).                *)
(***************************************************************************)
EXTENDS FiniteSets

CONSTANTS
    Pieces,     \* indices of the torrent's pieces
    Conns,      \* peer connections; a connection stands for the ID of its peer
    NoConn      \* the empty downloader of a piece nobody has reserved

VARIABLES
    status,     \* status[p]: IDLE, DOWNLOADING or DONE
    downloader  \* downloader[p]: who reserved p

PieceStatus == {"IDLE", "DOWNLOADING", "DONE"}

TableTypeOK ==
    /\ status \in [Pieces -> PieceStatus]
    /\ downloader \in [Pieces -> Conns \cup {NoConn}]

(* CalculateNewPiece with isSeeding = false: everything is still to fetch. *)
TableInit ==
    /\ status = [p \in Pieces |-> "IDLE"]
    /\ downloader = [p \in Pieces |-> NoConn]

\* Seeded fault: only finished pieces are refused.
NotDone(p) == status[p] # "DONE"

(* TryToReserve succeeds, with Reserve, or is refused. *)
CanReserve(p) == status[p] = "IDLE"

Reserve(p, c) ==
    /\ CanReserve(p)
    /\ status' = [status EXCEPT ![p] = "DOWNLOADING"]
    /\ downloader' = [downloader EXCEPT ![p] = c]

\* Seeded fault: the status is not written.
MarkNothing(p) == UNCHANGED <<status, downloader>>

MarkAsDone(p) ==
    /\ status' = [status EXCEPT ![p] = "DONE"]
    /\ UNCHANGED downloader

Undone == {p \in Pieces : status[p] # "DONE"}
=============================================================================
