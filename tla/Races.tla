------------------------------- MODULE Races -------------------------------
(***************************************************************************)
(* The download routine together with a record of the races its            *)
(* connections have been through.  The record changes nothing; it is there *)
(* to say which races a lost piece or a panic takes.                       *)
(***************************************************************************)
EXTENDS Download

VARIABLES
    overlap,    \* connections of which two handlers were at the queue at once
    crowded     \* connections with two REQUESTs for one block number at once

raceVars == <<vars, overlap, crowded>>

(* From reading the queue, or from finding that it is not empty, until the *)
(* queue is stored or read again: peerConn.piecesToDownloadQueue has no    *)
(* lock.                                                                   *)
AtQueue(h) == pc[h] \in {"write", "start", "begin", "dequeue", "advance"}

(* Made, and its answer not yet matched with a channel. *)
InFlight(r) == pc[r] \in {"ask", "sent", "recv", "lock"}

Overlapping ==
    {c \in Conns : \E h1, h2 \in Handlers :
        h1 # h2 /\ h1.conn = c /\ h2.conn = c /\ AtQueue(h1) /\ AtQueue(h2)}

Crowding ==
    {c \in Conns : \E r1, r2 \in Requests :
        /\ r1 # r2 /\ r1.conn = c /\ r2.conn = c /\ r1.blk = r2.blk
        /\ InFlight(r1) /\ InFlight(r2)}

RaceInit == Init /\ overlap = {} /\ crowded = {}

RaceNext ==
    /\ Next
    /\ overlap' = overlap \cup Overlapping'
    /\ crowded' = crowded \cup Crowding'

RaceSpec == RaceInit /\ [][RaceNext]_raceVars

-----------------------------------------------------------------------------
(* A piece that a HAVE or a BITFIELD has put into the queue is dropped     *)
(* before it is reserved only on a connection of which two handlers were   *)
(* at the queue at once: the queue's reads and writes in the handlers and  *)
(* in RequestNextPiece are not synchronised.                               *)
PieceLostOnlyByOverlap ==
    \A a \in Announcements : a.conn \notin overlap => Kept(a)

(* The process dies of an index into an empty queue only after two         *)
(* handlers of a connection were at its queue at once, and of a channel    *)
(* closed twice (onBlockReceive) only after a connection had two REQUESTs  *)
(* for one block number in flight, or had repeated one.                    *)
PanicsOnlyUnderRaces ==
    /\ crash = "emptyQueue" => overlap # {}
    /\ crash = "closedChannel" =>
           \/ crowded # {}
           \/ \E r \in Requests : r.try > 1 /\ pc[r] # "idle"
=============================================================================
