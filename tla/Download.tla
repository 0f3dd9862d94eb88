------------------------------ MODULE Download ------------------------------
(***************************************************************************)
(* The download routine of a client (src/peer): per-connection queues of   *)
(* announced pieces, the shared piece table, the block requesters with     *)
(* their misfire timers, and the goroutine that every incoming message     *)
(* gets.  A handler is split wherever another goroutine can act between    *)
(* two of its steps; an unsynchronised read-modify-write is two steps.     *)
(***************************************************************************)
EXTENDS Integers, Sequences, FiniteSets, SequencesExt, Order

CONSTANTS
    Conns, NoConn,      \* the client's peer connections; nobody
    NumPieces,          \* pieces of the torrent
    BlockCount,         \* BlockCount[p]: blocks of piece p
    Announcements,      \* HAVE and BITFIELD messages the peers may send
    MaxTries,           \* BOUND: REQUESTs sent for one block
    AllowedMisfires,    \* BlockRequestTotalAllowedMisfires
    Nil,                \* a nil channel; nobody holding a mutex
    SlowConns,          \* peers that may take longer than the timeouts
    LossyConns,         \* peers whose socket may end or break
    PacedConns,         \* peers that let one message be handled before the next
    DiskMayFail         \* whether writing a block may fail

Pieces == 0 .. NumPieces - 1

ASSUME CountAssumption ==
    /\ NumPieces \in Nat \ {0}
    /\ BlockCount \in [Pieces -> Nat \ {0}]
    /\ MaxTries \in Nat \ {0}
    /\ AllowedMisfires \in Nat

ASSUME ConnAssumption ==
    /\ NoConn \notin Conns
    /\ SlowConns \subseteq Conns
    /\ LossyConns \subseteq Conns
    /\ PacedConns \subseteq Conns
    /\ DiskMayFail \in BOOLEAN

(* GetPieceIndices lists a BITFIELD's pieces in order; a HAVE names one.   *)
ASSUME AnnouncementAssumption ==
    \A a \in Announcements :
        /\ a.conn \in Conns
        /\ a.pieces \in Seq(Pieces)
        /\ a.kind \in {"HAVE", "BITFIELD"}
        /\ a.kind = "HAVE" => Len(a.pieces) = 1

Slots == UNION {0 .. BlockCount[p] - 1 : p \in Pieces}

(* A REQUEST, and at once the channel made for it, its misfire timer and   *)
(* the handler of the PIECE message that answers it.                       *)
Requests ==
    {r \in [conn : Conns, piece : Pieces, blk : Slots, try : 1 .. MaxTries] :
        r.blk < BlockCount[r.piece]}

ASSUME NilAssumption ==
    /\ Nil \notin Requests
    /\ Announcements \cap Requests = {}

Handlers == Announcements \cup Requests

Blocks == {b \in Pieces \X Slots : b[2] < BlockCount[b[1]]}
BlockOf(r) == <<r.piece, r.blk>>

VARIABLES
    status, downloader, \* the piece table
    queue,              \* queue[c]: piecesToDownloadQueue
    requesters,         \* requesters[c]: every BlockRequester made; the last is current
    misfires, weak,     \* misfires[c], and ToPeer.IsWeak
    alive,              \* alive[c]: messages of c are still read
    downloading,        \* FromPeer.isDownloading, one flag for all connections
    pc,                 \* pc[h]: where handler h stands
    first,              \* handlers that found the queue empty (wasQueueEmpty)
    seen,               \* seen[h]: the queue as h last read it
    inHand, nextBlock,  \* dequeuedPieceIdx, and the next block h requests
    at,                 \* at[r]: the requester whose mutex handler r waits for
    timer, owner, tally,\* misfire goroutine of r, its requester, misfires it read
    closed,             \* channels that were signalled and closed
    disk, final,        \* blocks in DownloadedBlocksDir and in the assembled file
    assembled, seeding, \* the final file exists; FileInfo.IsSeeding
    crash               \* how the process died, if it did

tableVars  == <<status, downloader>>
timerVars  == <<timer, owner, tally, misfires, weak>>
localVars  == <<first, seen, inHand, nextBlock, at>>
fileVars   == <<disk, final, assembled, seeding>>
clientVars == <<downloading, alive, crash>>
vars == <<tableVars, queue, requesters, closed, pc, timerVars, localVars,
          fileVars, clientVars>>

Table == INSTANCE SafePieces

PCs == {"idle", "ask", "sent", "check", "read", "write", "start", "next",
        "begin", "stop", "dequeue", "advance", "reserve", "request", "recv",
        "lock", "decrement", "save", "fail", "count", "wait", "reset", "mark",
        "tally", "finalize", "hung", "end"}

Timers == {"off", "armed", "late", "raised", "retry"}

Requester ==
    [total : Nat, left : Int, data : [Slots -> Requests \cup {Nil}],
     holder : Requests \cup {Nil}, read : Int]

NewBlockRequester(p) ==
    [total |-> BlockCount[p], left |-> BlockCount[p],
     data |-> [s \in Slots |-> Nil], holder |-> Nil, read |-> 0]

Current(c) == requesters[c][Len(requesters[c])]

SetRequester(c, g, b) == requesters' = [requesters EXCEPT ![c][g] = b]
SetCurrent(c, b) == SetRequester(c, Len(requesters[c]), b)

-----------------------------------------------------------------------------
Init ==
    /\ Table!TableInit
    /\ queue = [c \in Conns |-> <<>>]
    /\ requesters = [c \in Conns |-> <<>>]
    /\ closed = {}
    /\ pc = [h \in Handlers |-> "idle"]
    /\ first = {}
    /\ seen = [h \in Handlers |-> <<>>]
    /\ inHand = [h \in Handlers |-> 0]
    /\ nextBlock = [h \in Handlers |-> 0]
    /\ at = [r \in Requests |-> 0]
    /\ timer = [r \in Requests |-> "off"]
    /\ owner = [r \in Requests |-> 0]
    /\ tally = [r \in Requests |-> 0]
    /\ misfires = [c \in Conns |-> 0]
    /\ weak = [c \in Conns |-> FALSE]
    /\ alive = [c \in Conns |-> TRUE]
    /\ downloading = FALSE
    /\ disk = {} /\ final = {} /\ assembled = FALSE /\ seeding = FALSE
    /\ crash = "none"

Goto(h, from, to) ==
    /\ pc[h] = from
    /\ pc' = [pc EXCEPT ![h] = to]

(* A panic in any goroutine ends the process where it stands. *)
Panic(why) ==
    /\ crash' = why
    /\ UNCHANGED <<tableVars, queue, requesters, closed, pc, timerVars,
                   localVars, fileVars, downloading, alive>>

(* A handler that is busy other than by sleeping between two REQUESTs. *)
Busy(h) == pc[h] \notin {"idle", "ask", "sent", "request", "hung", "end"}

(* The receiver loop starts a goroutine for the next message of h.conn: an *)
(* announcement, or the answer to a REQUEST that was sent.                 *)
Deliver(h) ==
    /\ IF h \in Requests THEN Goto(h, "sent", "recv") ELSE Goto(h, "idle", "check")
    /\ alive[h.conn]
    /\ h.conn \in PacedConns =>
           \A other \in Handlers : other.conn = h.conn => ~Busy(other)
    /\ UNCHANGED <<tableVars, queue, requesters, closed, timerVars, localVars,
                   fileVars, clientVars>>

-----------------------------------------------------------------------------
(* HAVE and BITFIELD *)

(* wasQueueEmpty and the early returns: an empty BITFIELD, a HAVE already queued. *)
CheckQueue(a) ==
    LET had == queue[a.conn]
        nothingNew == IF a.kind = "HAVE" THEN a.pieces[1] \in ToSet(had)
                      ELSE a.pieces = <<>>
    IN  /\ Goto(a, "check", IF nothingNew THEN "end" ELSE "read")
        /\ first' = IF had = <<>> /\ ~nothingNew THEN first \cup {a} ELSE first
        /\ UNCHANGED <<tableVars, queue, requesters, closed, timerVars, seen,
                       inHand, nextBlock, at, fileVars, clientVars>>

ReadQueue(a) ==
    /\ Goto(a, "read", "write")
    /\ seen' = [seen EXCEPT ![a] = queue[a.conn]]
    /\ UNCHANGED <<tableVars, queue, requesters, closed, timerVars, first,
                   inHand, nextBlock, at, fileVars, clientVars>>

(* Every element of a and then of b is appended unless it is there already. *)
UniqueMerge(a, b) == Distinct(a \o b)

WriteQueue(a) ==
    /\ Goto(a, "write", IF a \in first THEN "start" ELSE "end")
    /\ queue' = [queue EXCEPT ![a.conn] =
                    IF a.kind = "HAVE" THEN seen[a] \o a.pieces
                    ELSE UniqueMerge(seen[a], a.pieces)]
    /\ seen' = [seen EXCEPT ![a] = <<>>]
    /\ UNCHANGED <<tableVars, requesters, closed, timerVars, first, inHand,
                   nextBlock, at, fileVars, clientVars>>

(* The queue was empty: start with a new BlockRequester, sized for the     *)
(* HAVE's piece or for the head of the queue.                              *)
StartRequester(a) ==
    LET from == IF a.kind = "HAVE" THEN a.pieces ELSE queue[a.conn]
    IN  /\ Goto(a, "start", "next")
        /\ from # <<>>
        /\ \E p \in Pieces :
              /\ p = Head(from)
              /\ requesters' = [requesters EXCEPT ![a.conn] =
                                    Append(@, NewBlockRequester(p))]
        /\ first' = first \ {a}
        /\ UNCHANGED <<tableVars, queue, closed, timerVars, seen, inHand,
                       nextBlock, at, fileVars, clientVars>>

(* piecesToDownloadQueue[0] after another handler drained the queue. *)
StartOnEmptyQueue(a) ==
    /\ pc[a] = "start" /\ a.kind = "BITFIELD"
    /\ queue[a.conn] = <<>>
    /\ Panic("emptyQueue")

-----------------------------------------------------------------------------
(* RequestNextPiece *)

\* Seeded fault: the length check is dropped.
QueueEmptyUnchecked(c) == FALSE

QueueEmpty(c) == queue[c] = <<>>

(* The length of the queue decides whether the routine goes on. *)
NextPiece(h) ==
    /\ Goto(h, "next", IF QueueEmpty(h.conn) THEN "stop" ELSE "begin")
    /\ UNCHANGED <<tableVars, queue, requesters, closed, timerVars, localVars,
                   fileVars, clientVars>>

(* Either way it then writes the flag of the whole client. *)
StopRequesting(h) ==
    /\ Goto(h, "stop", "end")
    /\ downloading' = FALSE
    /\ UNCHANGED <<tableVars, queue, requesters, closed, timerVars, localVars,
                   fileVars, alive, crash>>

BeginPiece(h) ==
    /\ Goto(h, "begin", "dequeue")
    /\ downloading' = TRUE
    /\ UNCHANGED <<tableVars, queue, requesters, closed, timerVars, localVars,
                   fileVars, alive, crash>>

\* Seeded fault: the slice is cut at the wrong end.
RestCutAtEnd(q) == Front(q)

Rest(q) == Tail(q)

(* queue[0] and queue[1:] are read, then stored, without a lock. *)
Dequeue(h) ==
    /\ Goto(h, "dequeue", "advance")
    /\ queue[h.conn] # <<>>
    /\ \E p \in Pieces :
          /\ p = Head(queue[h.conn])
          /\ inHand' = [inHand EXCEPT ![h] = p]
    /\ seen' = [seen EXCEPT ![h] = Rest(queue[h.conn])]
    /\ UNCHANGED <<tableVars, queue, requesters, closed, timerVars, first,
                   nextBlock, at, fileVars, clientVars>>

DequeueFromEmpty(h) ==
    /\ pc[h] = "dequeue"
    /\ queue[h.conn] = <<>>
    /\ Panic("emptyQueue")

AdvanceQueue(h) ==
    /\ Goto(h, "advance", "reserve")
    /\ queue' = [queue EXCEPT ![h.conn] = seen[h]]
    /\ seen' = [seen EXCEPT ![h] = <<>>]
    /\ UNCHANGED <<tableVars, requesters, closed, timerVars, first, inHand,
                   nextBlock, at, fileVars, clientVars>>

ReservePiece(h) ==
    /\ Goto(h, "reserve", "request")
    /\ Table!Reserve(inHand[h], h.conn)
    /\ nextBlock' = [nextBlock EXCEPT ![h] = 0]
    /\ UNCHANGED <<queue, requesters, closed, timerVars, first, seen, inHand,
                   at, fileVars, clientVars>>

(* "Trying the next one": back to the loop. *)
ReservationRefused(h) ==
    /\ Goto(h, "reserve", "next")
    /\ ~Table!CanReserve(inHand[h])
    /\ inHand' = [inHand EXCEPT ![h] = 0]
    /\ UNCHANGED <<tableVars, queue, requesters, closed, timerVars, first, seen,
                   nextBlock, at, fileVars, clientVars>>

\* Seeded fault: the slot of the map stays empty.
NoChannel(r, g) == UNCHANGED requesters

MakeChannel(r, g) ==
    SetRequester(r.conn, g, [requesters[r.conn][g] EXCEPT !.data[r.blk] = r])

\* Seeded fault: the loop over the blocks ends one early.
StopsEarly(p, n) == n + 2 = BlockCount[p]

IsLast(p, n) == n + 1 = BlockCount[p]

(* "go self.blockRequester.request(block)": the goroutine gets the         *)
(* requester that is current now, and the loop goes on.  (A piece is       *)
(* reserved once, so each block is requested once.)                        *)
RequestBlock(h) ==
    /\ pc[h] = "request"
    /\ \E r \in Requests :
        /\ pc[r] = "idle"
        /\ r.conn = h.conn /\ r.piece = inHand[h]
        /\ r.blk = nextBlock[h] /\ r.try = 1
        /\ owner' = [owner EXCEPT ![r] = Len(requesters[h.conn])]
        /\ LET last == IsLast(r.piece, nextBlock[h])
           IN  /\ pc' = [pc EXCEPT ![r] = "ask", ![h] = IF last THEN "end" ELSE @]
               /\ nextBlock' = [nextBlock EXCEPT ![h] = IF last THEN 0 ELSE @ + 1]
               /\ inHand' = [inHand EXCEPT ![h] = IF last THEN 0 ELSE @]
        /\ UNCHANGED <<tableVars, queue, requesters, closed, timer, tally,
                       misfires, weak, first, seen, at, fileVars, clientVars>>

(* BlockRequester.request on requester g, once its mutex is free: a new    *)
(* channel for the block's slot and the REQUEST.                           *)
Send(r, g) ==
    /\ requesters[r.conn][g].holder = Nil
    /\ MakeChannel(r, g)

(* The goroutine of a block's first REQUEST, which leaves one behind that  *)
(* waits for the answer.                                                   *)
SendFirst(r) ==
    /\ Goto(r, "ask", "sent")
    /\ Send(r, owner[r])
    /\ timer' = [timer EXCEPT ![r] = "armed"]
    /\ UNCHANGED <<tableVars, queue, closed, owner, tally, misfires, weak,
                   localVars, fileVars, clientVars>>

-----------------------------------------------------------------------------
(* PIECE: onBlockReceive and handlePeerPieceMessage *)

(* peerConn.blockRequester is read first; the handler then waits for the   *)
(* mutex of that requester, even if another one takes its place meanwhile. *)
LookUp(r) ==
    /\ Goto(r, "recv", "lock") \/ Goto(r, "count", "wait")
    /\ at' = [at EXCEPT ![r] = Len(requesters[r.conn])]
    /\ UNCHANGED <<tableVars, queue, requesters, closed, timerVars, first, seen,
                   inHand, nextBlock, fileVars, clientVars>>

Looked(r) == requesters[r.conn][at[r]]

(* Lock the requester, signal and close the channel of the slot, and read  *)
(* blocksLeft.  A goroutine still waiting on the channel is dismissed; one *)
(* whose timeout came first is "late" already.                             *)
ReceiveBlock(r) ==
    LET b == Looked(r)
    IN  /\ Goto(r, "lock", "decrement")
        /\ b.holder = Nil
        /\ b.data[r.blk] # Nil /\ b.data[r.blk] \notin closed
        /\ closed' = closed \cup {b.data[r.blk]}
        /\ timer' = [timer EXCEPT ![b.data[r.blk]] = IF @ = "armed" THEN "off" ELSE @]
        /\ SetRequester(r.conn, at[r], [b EXCEPT !.holder = r, !.read = b.left])
        /\ at' = [at EXCEPT ![r] = 0]
        /\ UNCHANGED <<tableVars, queue, owner, tally, misfires, weak, first,
                       seen, inHand, nextBlock, fileVars, clientVars>>

(* The slot is absent: sending on a nil channel never returns, and the     *)
(* requester's mutex is never released.                                    *)
ReceiveOnNilChannel(r) ==
    LET b == Looked(r)
    IN  /\ Goto(r, "lock", "hung")
        /\ b.holder = Nil
        /\ b.data[r.blk] = Nil
        /\ SetRequester(r.conn, at[r], [b EXCEPT !.holder = r])
        /\ at' = [at EXCEPT ![r] = 0]
        /\ UNCHANGED <<tableVars, queue, closed, timerVars, first, seen, inHand,
                       nextBlock, fileVars, clientVars>>

ReceiveOnClosedChannel(r) ==
    /\ pc[r] = "lock"
    /\ Looked(r).holder = Nil
    /\ Looked(r).data[r.blk] \in closed
    /\ Panic("closedChannel")

\* Seeded fault: blocksLeft is not lowered.
LeftUnchanged(b) == b.read

LeftAfter(b) == b.read - 1

(* blocksLeft is stored and the mutex released, on the requester that was  *)
(* locked, whichever is current by now.                                    *)
DecrementLeft(r) ==
    \E g \in DOMAIN requesters[r.conn] :
        LET b == requesters[r.conn][g]
        IN  /\ b.holder = r
            /\ Goto(r, "decrement", "save")
            /\ SetRequester(r.conn, g, [b EXCEPT !.left = LeftAfter(b),
                                                 !.holder = Nil, !.read = 0])
            /\ UNCHANGED <<tableVars, queue, closed, timerVars, localVars,
                           fileVars, clientVars>>

SaveBlock(r) ==
    /\ Goto(r, "save", "count")
    /\ disk' = disk \cup {BlockOf(r)}
    /\ UNCHANGED <<tableVars, queue, requesters, closed, timerVars, localVars,
                   final, assembled, seeding, clientVars>>

SaveBlockFails(r) ==
    /\ DiskMayFail
    /\ Goto(r, "save", "fail")
    /\ UNCHANGED <<tableVars, queue, requesters, closed, timerVars, localVars,
                   fileVars, clientVars>>

(* The error reaches ConnectWithAllPeers as an error of the client itself, *)
(* which closes the client with every connection it has.                   *)
ReportError(r) ==
    /\ alive[r.conn]
    /\ Goto(r, "fail", "end")
    /\ alive' = [c \in Conns |-> FALSE]
    /\ UNCHANGED <<tableVars, queue, requesters, closed, timerVars, localVars,
                   fileVars, downloading, crash>>

\* Seeded fault: the last block is not waited for.
OneLeft(b) == b.left <= 1

NothingLeft(b) == b.left = 0

CountLeft(r) ==
    /\ Goto(r, "wait", IF NothingLeft(Looked(r)) THEN "reset" ELSE "end")
    /\ Looked(r).holder = Nil
    /\ at' = [at EXCEPT ![r] = 0]
    /\ UNCHANGED <<tableVars, queue, requesters, closed, timerVars, first, seen,
                   inHand, nextBlock, fileVars, clientVars>>

\* Seeded fault: blocksLeft is not reset.
LeftKept(b) == b

LeftReset(b) == [b EXCEPT !.left = b.total]

(* reset does not take the mutex. *)
ResetLeft(r) ==
    /\ Goto(r, "reset", "mark")
    /\ SetCurrent(r.conn, LeftReset(Current(r.conn)))
    /\ UNCHANGED <<tableVars, queue, closed, timerVars, localVars, fileVars,
                   clientVars>>

MarkDone(r) ==
    /\ Goto(r, "mark", "tally")
    /\ Table!MarkAsDone(r.piece)
    /\ UNCHANGED <<queue, requesters, closed, timerVars, localVars, fileVars,
                   clientVars>>

\* Seeded fault: the piece another connection is downloading is overlooked.
AtMostOneUndone == Cardinality(Table!Undone) <= 1

AllDone == Table!Undone = {}

TallyUndone(r) ==
    /\ Goto(r, "tally", IF AllDone THEN "finalize" ELSE "next")
    /\ UNCHANGED <<tableVars, queue, requesters, closed, timerVars, localVars,
                   fileVars, clientVars>>

AlreadyExists == assembled

(* MarkAsNotDownloading and DefaultFinalizeFunc: the blocks move into the  *)
(* final file unless it exists already.  The file operations are taken     *)
(* together here; module Assembly takes them one by one.                   *)
Finalize(r) ==
    /\ Goto(r, "finalize", "end")
    /\ downloading' = FALSE
    /\ final' = IF AlreadyExists THEN final ELSE disk
    /\ disk' = IF AlreadyExists THEN disk ELSE {}
    /\ assembled' = TRUE
    /\ seeding' = TRUE
    /\ UNCHANGED <<tableVars, queue, requesters, closed, timerVars, localVars,
                   alive, crash>>

-----------------------------------------------------------------------------
(* Misfire goroutines and the connection's end *)

(* No answer in time: misfires++ reads the counter, unsynchronised. *)
TimerExpires(r) ==
    /\ timer[r] = "armed"
    /\ r.conn \in SlowConns \/ ~alive[r.conn]
    /\ timer' = [timer EXCEPT ![r] = "late"]
    /\ tally' = [tally EXCEPT ![r] = misfires[r.conn]]
    /\ UNCHANGED <<tableVars, queue, requesters, closed, pc, owner,
                   misfires, weak, localVars, fileVars, clientVars>>

\* Seeded fault: the unsigned counter is lowered.
Lowered(n) == n - 1

Raised(n) == n + 1

(* The raised counter is stored. *)
Misfire(r) ==
    /\ timer[r] = "late"
    /\ misfires' = [misfires EXCEPT ![r.conn] = Raised(tally[r])]
    /\ timer' = [timer EXCEPT ![r] = "raised"]
    /\ tally' = [tally EXCEPT ![r] = 0]
    /\ UNCHANGED <<tableVars, queue, requesters, closed, pc, owner, weak,
                   localVars, fileVars, clientVars>>

(* The counter is read again: past the limit the peer is weak and the      *)
(* goroutine ends.                                                         *)
JudgePeer(r) ==
    LET tooMany == misfires[r.conn] > AllowedMisfires
    IN  /\ timer[r] = "raised"
        /\ weak' = [weak EXCEPT ![r.conn] = @ \/ tooMany]
        /\ timer' = [timer EXCEPT ![r] = IF tooMany THEN "off" ELSE "retry"]
        /\ UNCHANGED <<tableVars, queue, requesters, closed, pc, owner, tally,
                       misfires, localVars, fileVars, clientVars>>

\* Seeded fault: the goroutine goes on after its retry.
TimerForks(r, again) == [timer EXCEPT ![again] = "armed"]

TimerHandedOver(r, again) == [timer EXCEPT ![r] = "off", ![again] = "armed"]

(* The goroutine re-runs request() on its own requester, current or not,   *)
(* and is the one that waits for the mutex.  Each retry has a number of    *)
(* its own; none beyond MaxTries is modelled.                              *)
Retry(r) ==
    /\ timer[r] = "retry"
    /\ \E again \in Requests :
        /\ again = [r EXCEPT !.try = @ + 1]
        /\ pc[again] = "idle"
        /\ Send(again, owner[r])
        /\ owner' = [owner EXCEPT ![again] = owner[r]]
        /\ timer' = TimerHandedOver(r, again)
        /\ pc' = [pc EXCEPT ![again] = "sent"]
        /\ UNCHANGED <<tableVars, queue, closed, tally, misfires, weak,
                       localVars, fileVars, clientVars>>

(* Reading is given up after ReadTimeoutDuration, unless the client-wide   *)
(* flag says that something is being downloaded.                           *)
ReadTimeout(c) ==
    /\ c \in SlowConns
    /\ alive[c] /\ ~downloading
    /\ alive' = [alive EXCEPT ![c] = FALSE]
    /\ UNCHANGED <<tableVars, queue, requesters, closed, pc, timerVars,
                   localVars, fileVars, downloading, crash>>

(* End of file, a reset, or Close() from a CHOKED or NOT_INTERESTED handler. *)
Disconnect(c) ==
    /\ c \in LossyConns
    /\ alive[c]
    /\ alive' = [alive EXCEPT ![c] = FALSE]
    /\ UNCHANGED <<tableVars, queue, requesters, closed, pc, timerVars,
                   localVars, fileVars, downloading, crash>>

-----------------------------------------------------------------------------
AnnouncementStep(a) ==
    \/ CheckQueue(a) \/ ReadQueue(a) \/ WriteQueue(a)
    \/ StartRequester(a) \/ StartOnEmptyQueue(a)

RequestNextPiece(h) ==
    \/ NextPiece(h) \/ StopRequesting(h) \/ BeginPiece(h)
    \/ Dequeue(h) \/ DequeueFromEmpty(h) \/ AdvanceQueue(h)
    \/ ReservePiece(h) \/ ReservationRefused(h) \/ RequestBlock(h)

PieceStep(r) ==
    \/ LookUp(r) \/ ReceiveBlock(r) \/ ReceiveOnNilChannel(r) \/ ReceiveOnClosedChannel(r)
    \/ DecrementLeft(r) \/ SaveBlock(r) \/ SaveBlockFails(r) \/ ReportError(r)
    \/ CountLeft(r) \/ ResetLeft(r) \/ MarkDone(r) \/ TallyUndone(r)
    \/ Finalize(r)

SenderStep(r) ==
    \/ SendFirst(r) \/ TimerExpires(r) \/ Misfire(r) \/ JudgePeer(r) \/ Retry(r)

Next ==
    /\ crash = "none"
    /\ \/ \E h \in Handlers : Deliver(h) \/ RequestNextPiece(h)
       \/ \E a \in Announcements : AnnouncementStep(a)
       \/ \E r \in Requests : PieceStep(r) \/ SenderStep(r)
       \/ \E c \in Conns : ReadTimeout(c) \/ Disconnect(c)

Spec == Init /\ [][Next]_vars

(* The Go scheduler runs every goroutine that can run: one for a message,  *)
(* from its delivery on (a peer that is connected answers), and one for a  *)
(* REQUEST, whose timer fires unless it is dismissed.  Read timeouts,      *)
(* disconnections and disk failures need never happen.                     *)
Fairness ==
    /\ \A a \in Announcements :
          WF_vars(/\ crash = "none"
                  /\ pc[a] # "end"
                  /\ Deliver(a) \/ AnnouncementStep(a) \/ RequestNextPiece(a))
    /\ \A r \in Requests :
          /\ WF_vars(/\ crash = "none"
                     /\ pc[r] \notin {"idle", "ask", "hung", "end"}
                     /\ Deliver(r) \/ PieceStep(r) \/ RequestNextPiece(r))
          /\ WF_vars(/\ crash = "none"
                     /\ pc[r] = "ask" \/ timer[r] # "off"
                     /\ SenderStep(r))

FairSpec == Spec /\ Fairness
-----------------------------------------------------------------------------
(* Properties *)

Sent(r) == pc[r] \notin {"idle", "ask"}

BlocksOf(p) == {b \in Blocks : b[1] = p}

DonePieces == {p \in Pieces : status[p] = "DONE"}

HeldBy(c) == {p \in Pieces : status[p] = "DOWNLOADING" /\ downloader[p] = c}

Rests(h) == pc[h] \in {"idle", "ask", "sent", "end"}

Quiet == \A h \in Handlers : Rests(h)

(* Everything but the queues' elements; see TypeOK. *)
TypeCore ==
    /\ Table!TableTypeOK
    /\ requesters \in [Conns -> Seq(Requester)]
    /\ closed \subseteq Requests
    /\ pc \in [Handlers -> PCs]
    /\ first \subseteq Announcements
    /\ inHand \in [Handlers -> Pieces]
    /\ nextBlock \in [Handlers -> Nat]
    /\ at \in [Requests -> Nat]
    /\ timer \in [Requests -> Timers]
    /\ owner \in [Requests -> Nat]
    /\ tally \in [Requests -> Nat]
    /\ misfires \in [Conns -> Nat]
    /\ weak \in [Conns -> BOOLEAN]
    /\ alive \in [Conns -> BOOLEAN]
    /\ downloading \in BOOLEAN
    /\ disk \subseteq Blocks /\ final \subseteq Blocks
    /\ assembled \in BOOLEAN /\ seeding \in BOOLEAN
    /\ crash \in {"none", "emptyQueue", "closedChannel"}

(* Type invariant: the state keeps its shape, and a queue or a copy of one *)
(* (piecesToDownloadQueue) only ever holds pieces of the torrent.          *)
TypeOK ==
    /\ TypeCore
    /\ queue \in [Conns -> Seq(Pieces)]
    /\ seen \in [Handlers -> Seq(Pieces)]

(* A REQUEST is made for a piece only by the connection that holds the     *)
(* reservation, whatever handlers, retries and replaced requesters do      *)
(* (TryToReserve guards RequestNextPiece, and request() retries).          *)
OnlyOwnerRequests ==
    \A r \in Requests :
        pc[r] # "idle" => /\ downloader[r.piece] = r.conn
                          /\ status[r.piece] # "IDLE"

(* The download routine keeps the promise of the ledger: reservations are  *)
(* exclusive and final, and only reserved pieces are marked as done.       *)
Ledger == INSTANCE PieceLedger
              WITH owner <- downloader, finished <- DonePieces

KeepsLedger == Ledger!Spec

(* A PIECE handler hangs on a nil channel only when the requester that     *)
(* asked for its block was replaced by a later HAVE or BITFIELD.           *)
HungOnlyAfterReplacement ==
    \A r \in Requests :
        pc[r] = "hung" => owner[r] < Len(requesters[r.conn])

(* Retries never fork: at most one goroutine waits for an answer to one    *)
(* block, and none waits for a block that was not asked for.               *)
OneTimerPerBlock ==
    \A r1, r2 \in Requests :
        /\ timer[r1] # "off" => Sent(r1)
        /\ timer[r1] # "off" /\ timer[r2] # "off"
              /\ r1.conn = r2.conn /\ BlockOf(r1) = BlockOf(r2) => r1 = r2

(* A piece marked as done has every one of its blocks on disk, or in the   *)
(* file assembled from it: blocksLeft, which decides, and SaveBlock, which *)
(* stores, are updated apart in handlePeerPieceMessage.                    *)
DoneImpliesStored ==
    \A p \in DonePieces : BlocksOf(p) \subseteq disk \cup final

(* Conversely, when all handlers rest, a piece whose blocks are all stored *)
(* has been marked as done: the countdown did not miss zero.               *)
StoredImpliesDone ==
    Quiet => \A p \in Pieces :
                 BlocksOf(p) \subseteq disk \cup final => p \in DonePieces

(* A connection downloads one piece at a time; its one blocksLeft counter  *)
(* and its map keyed by block index alone rest on it.                      *)
OnePieceAtATime == \A c \in Conns : Cardinality(HeldBy(c)) <= 1

(* Whatever a has put into the queue is reserved, in the queue, or in the  *)
(* hands of a handler about to reserve it.                                 *)
Kept(a) ==
    pc[a] \notin {"idle", "check", "read", "write"} =>
        \A p \in ToSet(a.pieces) :
            \/ status[p] # "IDLE"
            \/ p \in ToSet(queue[a.conn])
            \/ \E h \in Handlers :
                   h.conn = a.conn /\ pc[h] \in {"advance", "reserve"} /\ inHand[h] = p

(* No piece a HAVE or BITFIELD has put into the queue is dropped before it *)
(* is reserved.                                                            *)
NoPieceLost == \A a \in Announcements : Kept(a)

(* DefaultFinalizeFunc assembles a file with every block of the torrent.   *)
FinalFileComplete == assembled => final = Blocks

(* blocksLeft of a connection whose handlers rest is the number of blocks  *)
(* of its piece that are not stored yet.                                   *)
LeftCountsMissing ==
    \A c \in Conns : \A p \in HeldBy(c) :
        (\A h \in Handlers : h.conn = c => Rests(h))
            => Current(c).left = Cardinality(BlocksOf(p) \ disk)

(* A reservation does not last forever: the piece gets done, or a misfire  *)
(* makes it available again.                                               *)
ReservationEnds ==
    \A p \in Pieces : status[p] = "DOWNLOADING" ~> status[p] # "DOWNLOADING"

(* The client ends up seeding, unless a peer that has vanished keeps a      *)
(* piece: one that vanishes without a reservation does not matter.         *)
EventuallySeeding ==
    <>[](seeding \/ \E c \in Conns : ~alive[c] /\ HeldBy(c) # {})
=============================================================================
