----------------------------- MODULE PacedProofs -----------------------------
(***************************************************************************)
(* What the download routine achieves when every peer lets one message be  *)
(* handled before it sends the next and answers in time or vanishes, the   *)
(* disk works, each connection gets one announcement and all pieces have   *)
(* the same number of blocks: countdown, disk and piece table agree, and   *)
(* the assembled file is complete.                                         *)
(***************************************************************************)
EXTENDS DownloadProofs

PacedNetwork ==
    /\ PacedConns = Conns
    /\ SlowConns = {} /\ DiskMayFail = FALSE
    /\ \A a, b \in Announcements : a.conn = b.conn => a = b
    /\ \A p, q \in Pieces : BlockCount[p] = BlockCount[q]

K == BlockCount[0]

Indices == 0 .. K - 1

-----------------------------------------------------------------------------
(* Nothing is late, and one handler of a connection works at a time *)

Calm ==
    /\ \A r \in Requests : timer[r] \in {"late", "raised", "retry"} => ~alive[r.conn]
    /\ \A r \in Requests :
          pc[r] # "idle" /\ r.try # 1 => pc[r] = "sent" /\ ~alive[r.conn]
    /\ \A h \in Handlers : pc[h] # "fail"

OneBusy ==
    \A h, k \in Handlers : h.conn = k.conn /\ Busy(h) /\ Busy(k) => h = k

PaceInv == Calm /\ OneBusy

(* Only the delivery of a message makes a handler busy. *)
LEMMA BusyOnlyByDelivery ==
    ASSUME TypeCore, Calm, PacedNetwork,
           \/ \E h \in Handlers : RequestNextPiece(h)
           \/ \E a \in Announcements : AnnouncementStep(a)
           \/ \E r \in Requests : PieceStep(r) \/ SenderStep(r)
           \/ \E c \in Conns : ReadTimeout(c) \/ Disconnect(c)
    PROVE  /\ \A h \in Handlers : Busy(h)' => Busy(h)
           /\ Calm'
<1>0. /\ pc \in [Handlers -> PCs] /\ timer \in [Requests -> Timers]
      /\ alive \in [Conns -> BOOLEAN]
  BY DEF TypeCore
<1> USE DEF Busy, Calm
<1>1. ASSUME NEW h \in Handlers, RequestNextPiece(h)
      PROVE  (\A k \in Handlers : Busy(k)' => Busy(k)) /\ Calm'
  <2>1. CASE RequestBlock(h)
    <3>1. PICK r \in Requests :
             /\ pc[h] = "request" /\ r.try = 1 /\ pc[r] = "idle"
             /\ UNCHANGED <<alive, timer>>
             /\ \E last \in {"end", pc[h]} : pc' = [pc EXCEPT ![r] = "ask", ![h] = last]
      <4>1. PICK r \in Requests :
               /\ pc[h] = "request" /\ r.try = 1 /\ pc[r] = "idle"
               /\ UNCHANGED <<alive, timer>>
               /\ pc' = [pc EXCEPT ![r] = "ask",
                            ![h] = IF IsLast(r.piece, nextBlock[h]) THEN "end" ELSE @]
        BY <2>1 DEF RequestBlock, clientVars
      <4> QED
        BY <1>0, <4>1, RequestFields
    <3> QED
      BY <1>0, <3>1, RequestFields
  <2>2. CASE ~RequestBlock(h)
    <3>1. timer' = timer /\ alive' = alive
      BY <1>1, <2>2 DEF RequestNextPiece, NextPiece, StopRequesting, BeginPiece, Dequeue,
         DequeueFromEmpty, AdvanceQueue, ReservePiece, ReservationRefused, Panic, timerVars, clientVars
    <3>2. \/ UNCHANGED pc
          \/ /\ pc[h] \in Requesting \ {"request"}
             /\ \E to \in Requesting \cup {"end"} : pc' = [pc EXCEPT ![h] = to]
      BY <1>1, <2>2 DEF RequestNextPiece, NextPiece, StopRequesting, BeginPiece, Dequeue,
         DequeueFromEmpty, AdvanceQueue, ReservePiece, ReservationRefused, Panic, Goto, Requesting
    <3> QED
      BY <1>0, <3>1, <3>2, RequestFields DEF Requesting
  <2> QED
    BY <2>1, <2>2
<1>2. ASSUME NEW a \in Announcements, AnnouncementStep(a)
      PROVE  (\A k \in Handlers : Busy(k)' => Busy(k)) /\ Calm'
  <2>1. a \in Handlers /\ a \notin Requests
    BY NilAssumption DEF Handlers
  <2>2. timer' = timer /\ alive' = alive
    BY <1>2 DEF AnnouncementStep, CheckQueue, ReadQueue, WriteQueue, StartRequester,
                StartOnEmptyQueue, Panic, timerVars, clientVars
  <2>3. \/ UNCHANGED pc
        \/ /\ pc[a] \in {"check", "read", "write", "start"}
           /\ \E to \in {"read", "write", "start", "next", "end"} :
                 pc' = [pc EXCEPT ![a] = to]
    BY <1>2 DEF AnnouncementStep, CheckQueue, ReadQueue, WriteQueue, StartRequester,
                StartOnEmptyQueue, Panic, Goto
  <2> QED
    BY <1>0, <2>1, <2>2, <2>3, RequestFields
<1>3. ASSUME NEW r \in Requests, PieceStep(r)
      PROVE  (\A k \in Handlers : Busy(k)' => Busy(k)) /\ Calm'
  <2>1. r \in Handlers /\ pc[r] # "fail" /\ DiskMayFail = FALSE
    BY RequestFields DEF PacedNetwork
  <2>2. \A q \in Requests : timer'[q] = timer[q] \/ timer'[q] = "off"
    <3>1. CASE ReceiveBlock(r)
      BY <1>0, <3>1 DEF ReceiveBlock
    <3>2. CASE ~ReceiveBlock(r)
      BY <1>3, <3>2
      DEF PieceStep, LookUp, ReceiveOnNilChannel, ReceiveOnClosedChannel, DecrementLeft,
          SaveBlock, SaveBlockFails, ReportError, CountLeft, ResetLeft, MarkDone,
          TallyUndone, Finalize, Panic, timerVars
    <3> QED
      BY <3>1, <3>2
  <2>3. alive' = alive
    BY <1>3, <2>1
    DEF PieceStep, LookUp, ReceiveBlock, ReceiveOnNilChannel, ReceiveOnClosedChannel,
        DecrementLeft, SaveBlock, SaveBlockFails, ReportError, CountLeft, ResetLeft,
        MarkDone, TallyUndone, Finalize, Panic, clientVars, Goto
  <2>4. \/ UNCHANGED pc
        \/ /\ pc[r] \in {"recv", "lock", "decrement", "save", "count", "wait",
                         "reset", "mark", "tally", "finalize"}
           /\ \E to \in {"lock", "hung", "decrement", "save", "count", "wait",
                          "reset", "mark", "tally", "finalize", "next", "end"} :
                 pc' = [pc EXCEPT ![r] = to]
    BY <1>3, <2>1
    DEF PieceStep, LookUp, ReceiveBlock, ReceiveOnNilChannel, ReceiveOnClosedChannel,
        DecrementLeft, SaveBlock, SaveBlockFails, ReportError, CountLeft, ResetLeft,
        MarkDone, TallyUndone, Finalize, Panic, Goto
  <2> QED
    BY <1>0, <2>1, <2>2, <2>3, <2>4, RequestFields
<1>4. ASSUME NEW r \in Requests, SenderStep(r)
      PROVE  (\A k \in Handlers : Busy(k)' => Busy(k)) /\ Calm'
  <2>1. CASE TimerExpires(r) \/ Misfire(r) \/ JudgePeer(r)
    <3>1. /\ UNCHANGED <<pc, alive>> /\ ~alive[r.conn]
          /\ \A q \in Requests \ {r} : timer'[q] = timer[q]
      BY <1>0, <2>1 DEF TimerExpires, Misfire, JudgePeer, PacedNetwork, clientVars
    <3> QED
      BY <3>1
  <2>3. CASE SendFirst(r)
    <3>1. /\ pc[r] = "ask" /\ pc' = [pc EXCEPT ![r] = "sent"]
          /\ timer' = [timer EXCEPT ![r] = "armed"] /\ UNCHANGED alive
      BY <2>3 DEF SendFirst, Goto, clientVars
    <3> QED
      BY <1>0, <3>1, RequestFields
  <2>2. CASE Retry(r)
    <3>1. PICK again \in Requests :
             /\ again.conn = r.conn /\ again.try # 1
             /\ pc' = [pc EXCEPT ![again] = "sent"]
             /\ timer' = [timer EXCEPT ![r] = "off", ![again] = "armed"]
             /\ timer[r] = "retry" /\ alive' = alive
      <4>1. r.try \in 1 .. MaxTries /\ \A n \in 1 .. MaxTries : n + 1 # 1
        BY CountAssumption DEF Requests
      <4>2. PICK again \in Requests :
               /\ again = [r EXCEPT !.try = @ + 1]
               /\ pc' = [pc EXCEPT ![again] = "sent"]
               /\ timer' = [timer EXCEPT ![r] = "off", ![again] = "armed"]
               /\ timer[r] = "retry" /\ alive' = alive
        BY <2>2 DEF Retry, TimerHandedOver, clientVars
      <4>3. again.conn = r.conn /\ again.try = r.try + 1
        BY <4>2 DEF Requests
      <4> QED
        BY <4>1, <4>2, <4>3
    <3>2. ~alive[again.conn]
      BY <3>1
    <3>3. pc'[again] = "sent" /\ \A k \in Handlers \ {again} : pc'[k] = pc[k]
      BY <1>0, <3>1, RequestFields
    <3>4. \A q \in Requests : timer'[q] \in {"late", "raised", "retry"}
                                 => timer[q] \in {"late", "raised", "retry"}
      BY <1>0, <3>1
    <3> QED
      BY <3>1, <3>2, <3>3, <3>4, RequestFields
  <2> QED
    BY <1>4, <2>1, <2>2, <2>3 DEF SenderStep
<1>5. ASSUME NEW c \in Conns, ReadTimeout(c) \/ Disconnect(c)
      PROVE  (\A k \in Handlers : Busy(k)' => Busy(k)) /\ Calm'
  <2>1. UNCHANGED <<pc, timer>> /\ alive' = [alive EXCEPT ![c] = FALSE]
    BY <1>5 DEF ReadTimeout, Disconnect, timerVars
  <2>2. \A r \in Requests : ~alive[r.conn] => ~alive'[r.conn]
    BY <1>0, <2>1, RequestFields
  <2> QED
    BY <2>1, <2>2
<1> QED
  BY <1>1, <1>2, <1>3, <1>4, <1>5

LEMMA DeliveryWaits ==
    ASSUME TypeCore, PaceInv, PacedNetwork, NEW h \in Handlers, Deliver(h)
    PROVE  PaceInv'
<1>1. /\ pc \in [Handlers -> PCs] /\ h.conn \in Conns
      /\ timer' = timer /\ alive' = alive
  BY HandlerConn DEF TypeCore, Deliver, timerVars, clientVars
<1>2. /\ \A k \in Handlers : k.conn = h.conn => ~Busy(k)
      /\ \E to \in {"recv", "check"} : pc' = [pc EXCEPT ![h] = to]
      /\ h \in Requests => pc[h] = "sent"
      /\ alive[h.conn]
  BY <1>1 DEF Deliver, Goto, PacedNetwork
<1>3. \A k \in Handlers : Busy(k)' => Busy(k) \/ k = h
  BY <1>1, <1>2 DEF Busy
<1>4. OneBusy'
  BY <1>2, <1>3 DEF PaceInv, OneBusy
<1>5. Calm'
  BY <1>1, <1>2, RequestFields DEF PaceInv, Calm
<1> QED
  BY <1>4, <1>5 DEF PaceInv

LEMMA PaceStep ==
    PacedNetwork /\ TypeCore /\ PaceInv /\ [Next]_vars => PaceInv'
<1> SUFFICES ASSUME PacedNetwork, TypeCore, PaceInv, [Next]_vars PROVE PaceInv'
  OBVIOUS
<1>1. CASE UNCHANGED vars
  BY <1>1 DEF vars, timerVars, clientVars, PaceInv, Calm, OneBusy, Busy
<1>2. ASSUME NEW h \in Handlers, Deliver(h) PROVE PaceInv'
  BY <1>2, DeliveryWaits
<1>3. ASSUME \/ \E h \in Handlers : RequestNextPiece(h)
             \/ \E a \in Announcements : AnnouncementStep(a)
             \/ \E r \in Requests : PieceStep(r) \/ SenderStep(r)
             \/ \E c \in Conns : ReadTimeout(c) \/ Disconnect(c)
      PROVE  PaceInv'
  <2>1. (\A h \in Handlers : Busy(h)' => Busy(h)) /\ Calm'
    BY <1>3, BusyOnlyByDelivery DEF PaceInv
  <2> QED
    BY <2>1 DEF PaceInv, OneBusy
<1> QED
  BY <1>1, <1>2, <1>3 DEF Next

LEMMA PaceInvariant == ASSUME PacedNetwork PROVE Spec => []PaceInv
<1>1. Init => PaceInv
  BY RequestFields DEF Init, PaceInv, Calm, OneBusy, Busy
<1>2. TypeCore /\ PaceInv /\ [Next]_vars => PaceInv'
  BY PaceStep
<1> QED
  BY <1>1, <1>2, TypeCoreHolds, PTL DEF Spec

-----------------------------------------------------------------------------
(* Blocks: what was asked for, answered, counted and stored *)

Req(c, p, b) == [conn |-> c, piece |-> p, blk |-> b, try |-> 1]

Unanswered == {"idle", "ask", "sent", "recv", "lock"}
Uncounted == Unanswered \cup {"decrement"}
Unsaved == Uncounted \cup {"save"}

(* Places of a handler whose connection is not downloading a piece. *)
Between == {"check", "read", "write", "start", "next", "begin", "stop", "dequeue",
            "advance", "reserve", "tally", "finalize"}

(* Places of the handlers of a piece that is not done. *)
Within == {"ask", "sent", "recv", "lock", "decrement", "save", "count", "wait",
           "reset", "mark"}

(* Places of a handler that has announced nothing yet. *)
Announcing == {"idle", "check", "read", "write", "start"}

Holds(c, p) == status[p] = "DOWNLOADING" /\ downloader[p] = c

OneHeld ==
    \A p, q \in Pieces : \A c \in Conns : Holds(c, p) /\ Holds(c, q) => p = q

Phases ==
    /\ \A h \in Handlers : pc[h] \in Between => \A p \in Pieces : ~Holds(h.conn, p)
    /\ \A r \in Requests :
          r.try = 1 /\ pc[r] \in Within => status[r.piece] = "DOWNLOADING"

(* One handler of a connection sends REQUESTs, in order. *)
Sending ==
    \A h \in Handlers : pc[h] = "request" =>
        /\ status[inHand[h]] = "DOWNLOADING"
        /\ nextBlock[h] \in Indices
        /\ \A b \in Indices :
              b >= nextBlock[h] => pc[Req(h.conn, inHand[h], b)] = "idle"
        /\ \A k \in Handlers : k.conn = h.conn /\ pc[k] = "request" => k = h

(* One requester serves a connection, with a channel for every REQUEST.    *)
OneRequester ==
    /\ \A c \in Conns : Len(requesters[c]) \in {0, 1}
    /\ \A a \in Announcements :
          pc[a] \in {"idle", "check", "read", "write", "start"} =>
              Len(requesters[a.conn]) = 0
    /\ \A c \in Conns, p \in Pieces : Holds(c, p) => Len(requesters[c]) = 1

(* A channel made for the block r, or a retry of it, is for.               *)
OpenFor(r, d) ==
    d \in Requests /\ d.conn = r.conn /\ d.blk = r.blk /\ d \notin closed /\ Sent(d)

Channels ==
    /\ \A r \in Requests :
          r.try = 1 /\ pc[r] \in {"sent", "recv", "lock"} =>
              OpenFor(r, requesters[r.conn][1].data[r.blk])
    /\ \A r \in closed : Sent(r)

Locks ==
    /\ \A r \in Requests :
          pc[r] = "decrement" =>
              /\ requesters[r.conn][1].holder = r
              /\ requesters[r.conn][1].read = requesters[r.conn][1].left
    /\ \A c \in Conns :
          Len(requesters[c]) = 1 /\ requesters[c][1].holder # Nil =>
              /\ requesters[c][1].holder.conn = c
              /\ pc[requesters[c][1].holder] = "decrement"

Counted(c, p) == {b \in Indices : pc[Req(c, p, b)] \notin Uncounted}

(* The countdown is reset and its piece is not marked yet. *)
Marking(c) == \E r \in Requests : r.conn = c /\ pc[r] = "mark"

Countdown ==
    \A c \in Conns : Len(requesters[c]) = 1 =>
        /\ requesters[c][1].total = K
        /\ Marking(c) => requesters[c][1].left = K
        /\ (\A p \in Pieces : ~Holds(c, p)) => requesters[c][1].left = K
        /\ \A p \in Pieces :
              Holds(c, p) /\ ~Marking(c) =>
                  requesters[c][1].left = K - Cardinality(Counted(c, p))

(* All blocks of a piece that is about to be marked, or is, are saved. *)
AllSaved ==
    /\ \A r \in Requests : pc[r] \in {"reset", "mark"} =>
          \A b \in Indices : pc[Req(r.conn, r.piece, b)] \notin Unsaved
    /\ \A p \in Pieces : status[p] = "DONE" =>
          \A b \in Indices : pc[Req(downloader[p], p, b)] \notin Unsaved

(* The last block that is counted is not overlooked. *)
Noticed ==
    \A c \in Conns, p \in Pieces :
        Holds(c, p) /\ (\A b \in Indices : pc[Req(c, p, b)] \notin Uncounted) =>
            \E r \in Requests : /\ r.conn = c
                                /\ pc[r] \in {"save", "count", "wait", "reset", "mark"}

Saved ==
    \A x \in Blocks :
        x \in disk \cup final <=>
            \E r \in Requests : BlockOf(r) = x /\ pc[r] \notin Unsaved

Assembled ==
    /\ \A r \in Requests : pc[r] = "finalize" => \A p \in Pieces : status[p] = "DONE"
    /\ assembled => \A p \in Pieces : status[p] = "DONE"
    /\ ~assembled => final = {}
    /\ assembled => final = Blocks

BlockInv ==
    /\ OneHeld /\ Phases /\ Sending /\ OneRequester /\ Channels /\ Locks
    /\ Countdown /\ AllSaved /\ Noticed /\ Saved /\ Assembled

(* What the earlier invariants and the hypothesis give. *)
Context == PacedNetwork /\ RequesterInv /\ Reservations /\ PaceInv

LEMMA PieceSize ==
    ASSUME PacedNetwork
    PROVE  /\ K \in Nat \ {0} /\ 0 \in Pieces /\ Slots = Indices
           /\ \A p \in Pieces : BlockCount[p] = K
           /\ Blocks = Pieces \X Indices
<1>1. 0 \in Pieces
  BY CountAssumption DEF Pieces
<1>2. K \in Nat \ {0} /\ \A p \in Pieces : BlockCount[p] = K
  BY <1>1, CountAssumption DEF K, PacedNetwork
<1>3. Slots = Indices
  BY <1>1, <1>2, Zenon DEF Slots, Indices
<1>4. Blocks = Pieces \X Indices
  <2>1. \A b \in Indices : b < K
    BY <1>2 DEF Indices
  <2> QED
    BY <1>2, <1>3, <2>1 DEF Blocks
<1> QED
  BY <1>1, <1>2, <1>3, <1>4

LEMMA ReqFacts ==
    ASSUME PacedNetwork
    PROVE  /\ \A c \in Conns, p \in Pieces, b \in Indices :
                 /\ Req(c, p, b) \in Requests /\ Req(c, p, b) \in Handlers
                 /\ Req(c, p, b).conn = c /\ Req(c, p, b).piece = p
                 /\ Req(c, p, b).blk = b /\ Req(c, p, b).try = 1
           /\ \A r \in Requests :
                 /\ r.conn \in Conns /\ r.piece \in Pieces /\ r.blk \in Indices
                 /\ r \in Handlers /\ r \notin Announcements
                 /\ r.try = 1 => r = Req(r.conn, r.piece, r.blk)
<1>1. /\ K \in Nat \ {0} /\ Slots = Indices
      /\ \A p \in Pieces : BlockCount[p] = K
  BY PieceSize
<1>2. 1 \in 1 .. MaxTries
  BY CountAssumption
<1>3. ASSUME NEW c \in Conns, NEW p \in Pieces, NEW b \in Indices
      PROVE  /\ Req(c, p, b) \in Requests
             /\ Req(c, p, b).conn = c /\ Req(c, p, b).piece = p
             /\ Req(c, p, b).blk = b /\ Req(c, p, b).try = 1
  <2>1. b < K
    BY <1>1 DEF Indices
  <2> QED
    BY <1>1, <1>2, <2>1 DEF Req, Requests
<1>4. ASSUME NEW r \in Requests
      PROVE  /\ r.conn \in Conns /\ r.piece \in Pieces /\ r.blk \in Indices
             /\ r \in Handlers /\ r \notin Announcements
             /\ r.try = 1 => r = Req(r.conn, r.piece, r.blk)
  BY <1>1, RequestFields, NilAssumption DEF Requests, Req
<1> QED
  BY <1>3, <1>4 DEF Handlers

(* A request that was sent is one by the holder of its piece, through the  *)
(* one requester of its connection; if it was answered, it is a first try. *)
LEMMA SentFacts ==
    ASSUME Context, OneRequester, NEW r \in Requests, pc[r] # "idle"
    PROVE  /\ r.try = 1 \/ pc[r] # "sent" =>
                  r.try = 1 /\ r = Req(r.conn, r.piece, r.blk)
           /\ downloader[r.piece] = r.conn
           /\ Len(requesters[r.conn]) = 1
<1>1. /\ r.conn \in Conns
      /\ r.try = 1 \/ pc[r] # "sent" => r.try = 1 /\ r = Req(r.conn, r.piece, r.blk)
  BY ReqFacts DEF Context, PaceInv, Calm
<1>2. downloader[r.piece] = r.conn
  BY DEF Context, Reservations, SenderHolds
<1>3. owner[r] \in 1 .. Len(requesters[r.conn])
  BY DEF Context, RequesterInv, Requested, RequestedSlot
<1>4. Len(requesters[r.conn]) \in {0, 1}
  BY <1>1 DEF OneRequester
<1>5. \A n \in {0, 1} : \A i : i \in 1 .. n => n = 1
  OBVIOUS
<1>6. Len(requesters[r.conn]) = 1
  BY <1>3, <1>4, <1>5, Zenon
<1> QED
  BY <1>1, <1>2, <1>6

LEMMA TheRequester ==
    ASSUME requesters \in [Conns -> Seq(Requester)],
           NEW c \in Conns, Len(requesters[c]) = 1
    PROVE  requesters[c][1] \in Requester /\ Current(c) = requesters[c][1]
<1>1. requesters[c] \in Seq(Requester) /\ 1 \in 1 .. Len(requesters[c])
  OBVIOUS
<1>2. requesters[c][1] \in Requester
  BY <1>1, ElementOfSeq
<1> QED
  BY <1>2 DEF Current

(* The one requester of c is written. *)
LEMMA RequesterWritten ==
    ASSUME requesters \in [Conns -> Seq(Requester)],
           NEW c \in Conns, Len(requesters[c]) = 1, NEW b,
           SetRequester(c, 1, b)
    PROVE  /\ Len(requesters'[c]) = 1 /\ requesters'[c][1] = b
           /\ \A d \in Conns \ {c} : requesters'[d] = requesters[d]
<1>1. requesters[c] \in Seq(Requester) /\ DOMAIN requesters[c] = 1 .. 1
  BY LenProperties
<1>2. requesters' = [requesters EXCEPT ![c] = [requesters[c] EXCEPT ![1] = b]]
  BY DEF SetRequester
<1> DEFINE t == [requesters[c] EXCEPT ![1] = b]
<1>3. DOMAIN t = 1 .. 1 /\ t[1] = b
  BY <1>1
<1>4. t \in Seq(Requester \cup {b})
  <2>1. t \in [1 .. 1 -> Requester \cup {b}]
    BY <1>1
  <2>2. [1 .. 1 -> Requester \cup {b}] \in {[1 .. n -> Requester \cup {b}] : n \in Nat}
    OBVIOUS
  <2> QED
    BY <2>1, <2>2, SeqDef
<1>5. Len(t) \in Nat /\ DOMAIN t = 1 .. Len(t)
  BY <1>4, LenProperties
<1>6. Len(t) = 1
  BY <1>3, <1>5
<1> HIDE DEF t
<1> QED
  BY <1>2, <1>3, <1>6 DEF t

(* Steps that leave the piece table alone. *)
LEMMA TableFrame ==
    ASSUME Context, BlockInv, UNCHANGED <<tableVars, nextBlock>>,
           \A k \in Handlers :
               pc'[k] = "request" => pc[k] = "request" /\ inHand'[k] = inHand[k],
           \A k \in Handlers :
               pc'[k] \in Between =>
                   pc[k] \in Between \/ \A p \in Pieces : ~Holds(k.conn, p),
           \A r \in Requests : r.try = 1 /\ pc'[r] \in Within => pc[r] \in Within,
           \A r \in Requests : r.try = 1 /\ pc[r] = "idle" => pc'[r] = "idle",
           \A r \in Requests : pc'[r] \in Unsaved => pc[r] \in Unsaved,
           \A r \in Requests :
               pc'[r] \in {"reset", "mark"} =>
                   \A b \in Indices : pc[Req(r.conn, r.piece, b)] \notin Unsaved
    PROVE  OneHeld' /\ Phases' /\ Sending' /\ AllSaved'
<1> USE DEF BlockInv, tableVars
<1>0. /\ \A c \in Conns, p \in Pieces : Holds(c, p)' <=> Holds(c, p)
      /\ PacedNetwork /\ \A h \in Handlers : h.conn \in Conns
      /\ inHand \in [Handlers -> Pieces]
  BY HandlerConn DEF Holds, Context, RequesterInv, TypeCore
<1>1. OneHeld' /\ Phases'
  BY <1>0 DEF OneHeld, Phases
<1>2. Sending'
  BY <1>0, ReqFacts DEF Sending
<1>3. AllSaved'
  <2>1. \A p \in Pieces : status[p] = "DONE" => downloader[p] \in Conns
    BY DEF Context, Reservations, ProtocolTypeOK, ReservedHasOwner
  <2> QED
    BY <1>0, <2>1, ReqFacts DEF AllSaved
<1> QED
  BY <1>1, <1>2, <1>3

(* Steps that leave the channels alone. *)
LEMMA ChannelsFrame ==
    ASSUME Channels, closed' = closed,
           \A r \in Requests : Sent(r) => Sent(r)',
           \A r \in Requests :
               r.try = 1 /\ pc'[r] \in {"sent", "recv", "lock"} =>
                   /\ pc[r] \in {"sent", "recv", "lock"}
                   /\ requesters'[r.conn][1].data[r.blk] = requesters[r.conn][1].data[r.blk],
           closed \subseteq Requests
    PROVE  Channels'
<1>1. \A r \in closed' : Sent(r)'
  BY DEF Channels
<1>2. ASSUME NEW r \in Requests, r.try = 1, pc'[r] \in {"sent", "recv", "lock"}
      PROVE  OpenFor(r, requesters[r.conn][1].data[r.blk])'
  <2> DEFINE d == requesters[r.conn][1].data[r.blk]
  <2>1. OpenFor(r, d) /\ d' = d
    BY <1>2 DEF Channels
  <2> HIDE DEF d
  <2>2. OpenFor(r, d)'
    BY <2>1 DEF OpenFor
  <2> QED
    BY <2>2 DEF d
<1> QED
  BY <1>1, <1>2 DEF Channels

(* Steps that leave the requesters alone. *)
LEMMA RequesterFrame ==
    ASSUME Context, BlockInv, UNCHANGED <<tableVars, requesters, closed>>,
           \A r \in Requests : pc'[r] \in {"sent", "recv", "lock"} => pc[r] \in {"sent", "recv", "lock"},
           \A r \in Requests : Sent(r) => Sent(r)',
           \A r \in Requests : pc'[r] = "decrement" <=> pc[r] = "decrement",
           \A r \in Requests : pc'[r] \in Uncounted <=> pc[r] \in Uncounted,
           \A r \in Requests : pc'[r] = "mark" <=> pc[r] = "mark",
           \A a \in Announcements : pc'[a] \in Announcing => pc[a] \in Announcing
    PROVE  OneRequester' /\ Channels' /\ Locks' /\ Countdown'
<1> USE DEF BlockInv, tableVars
<1>0. /\ \A c \in Conns, p \in Pieces : Holds(c, p)' <=> Holds(c, p)
      /\ \A c \in Conns : Marking(c)' <=> Marking(c)
      /\ PacedNetwork
  BY DEF Holds, Marking, Context
<1>1. OneRequester'
  BY <1>0 DEF OneRequester, Announcing
<1>2. Channels'
  <2>1. closed \subseteq Requests
    BY DEF Context, RequesterInv, TypeCore
  <2> QED
    BY <2>1, ChannelsFrame
<1>3. Locks'
  <2>1. \A c \in Conns : Len(requesters[c]) = 1 =>
           requesters[c][1].holder \in Requests \cup {Nil}
    BY RequesterFields, TheRequester DEF Context, RequesterInv, TypeCore
  <2> QED
    BY <2>1 DEF Locks
<1>4. Countdown'
  <2>1. \A c \in Conns, p \in Pieces : Counted(c, p)' = Counted(c, p)
    BY <1>0, ReqFacts DEF Counted
  <2> QED
    BY <1>0, <2>1 DEF Countdown
<1> QED
  BY <1>1, <1>2, <1>3, <1>4

(* Steps that leave the files alone. *)
LEMMA FileFrame ==
    ASSUME BlockInv, UNCHANGED fileVars,
           \A p \in Pieces : status[p] = "DONE" => status'[p] = "DONE",
           \A r \in Requests : pc'[r] \in Unsaved <=> pc[r] \in Unsaved,
           \A r \in Requests :
               pc'[r] = "finalize" =>
                   pc[r] = "finalize" \/ \A p \in Pieces : status[p] = "DONE"
    PROVE  Saved' /\ Assembled'
<1> USE DEF BlockInv, fileVars
<1>1. Saved'
  <2>1. \A r \in Requests : BlockOf(r)' = BlockOf(r)
    BY DEF BlockOf
  <2> QED
    BY <2>1 DEF Saved
<1>2. Assembled'
  BY DEF Assembled
<1> QED
  BY <1>1, <1>2

(* The witnesses of Noticed move on but stay. *)
LEMMA NoticedFrame ==
    ASSUME Context, BlockInv,
           \A c \in Conns, p \in Pieces : Holds(c, p)' => Holds(c, p),
           \A r \in Requests : pc[r] \in Uncounted => pc'[r] \in Uncounted,
           \A r \in Requests :
               pc[r] \in {"save", "count", "wait", "reset", "mark"} =>
                   \/ pc'[r] \in {"save", "count", "wait", "reset", "mark"}
                   \/ \A p \in Pieces : ~Holds(r.conn, p)'
    PROVE  Noticed'
<1>1. PacedNetwork
  BY DEF Context
<1> QED
  BY <1>1, ReqFacts DEF BlockInv, Noticed

Active == Within \cup {"idle"}

(* Steps after which every block is as it was. *)
LEMMA BlocksUntouched ==
    ASSUME Context, BlockInv,
           UNCHANGED <<tableVars, requesters, closed, nextBlock, fileVars>>,
           \A k \in Handlers :
               pc'[k] = "request" => pc[k] = "request" /\ inHand'[k] = inHand[k],
           \A k \in Handlers :
               pc'[k] \in Between =>
                   pc[k] \in Between \/ \A p \in Pieces : ~Holds(k.conn, p),
           \A r \in Requests :
               pc[r] \in Active \/ pc'[r] \in Active =>
                   \/ pc'[r] = pc[r]
                   \/ pc[r] = "sent" /\ pc'[r] = "recv"
                   \/ pc[r] = "recv" /\ pc'[r] = "lock"
                   \/ pc[r] = "count" /\ pc'[r] = "wait",
           \A a \in Announcements : pc'[a] \in Announcing => pc[a] \in Announcing,
           \A r \in Requests :
               pc'[r] = "finalize" =>
                   pc[r] = "finalize" \/ \A p \in Pieces : status[p] = "DONE"
    PROVE  BlockInv'
<1>1. \A r \in Requests :
         /\ pc'[r] \in Uncounted <=> pc[r] \in Uncounted
         /\ pc'[r] \in Unsaved <=> pc[r] \in Unsaved
         /\ pc'[r] \in Unanswered <=> pc[r] \in Unanswered
         /\ pc'[r] \in Within <=> pc[r] \in Within
         /\ pc'[r] = "idle" <=> pc[r] = "idle"
         /\ Sent(r) <=> Sent(r)'
         /\ pc'[r] = "decrement" <=> pc[r] = "decrement"
         /\ pc'[r] = "mark" <=> pc[r] = "mark"
         /\ pc'[r] \in {"reset", "mark"} => pc[r] \in {"reset", "mark"}
         /\ pc'[r] \in {"sent", "recv", "lock"} => pc[r] \in {"sent", "recv", "lock"}
         /\ pc[r] \in {"save", "count", "wait", "reset", "mark"}
               => pc'[r] \in {"save", "count", "wait", "reset", "mark"}
  BY DEF Unsaved, Uncounted, Unanswered, Active, Within, Sent
<1>2. OneHeld' /\ Phases' /\ Sending' /\ AllSaved'
  <2>1. \A r \in Requests :
           pc[r] \in {"reset", "mark"} =>
               \A b \in Indices : pc[Req(r.conn, r.piece, b)] \notin Unsaved
    BY DEF BlockInv, AllSaved
  <2> QED
    BY <1>1, <2>1, TableFrame
<1>3. OneRequester' /\ Channels' /\ Locks' /\ Countdown'
  BY <1>1, RequesterFrame
<1>4. Saved' /\ Assembled'
  BY <1>1, FileFrame DEF tableVars
<1>5. Noticed'
  BY <1>1, NoticedFrame DEF Holds, tableVars
<1> QED
  BY <1>2, <1>3, <1>4, <1>5 DEF BlockInv

LEMMA DeliverBlocks ==
    ASSUME Context, BlockInv, NEW h \in Handlers, Deliver(h)
    PROVE  BlockInv'
<1>0. pc \in [Handlers -> PCs] /\ h.conn \in Conns /\ PacedNetwork
  BY HandlerConn DEF Context, RequesterInv, TypeCore
<1>1. UNCHANGED <<tableVars, requesters, closed, nextBlock, fileVars, inHand>>
  BY DEF Deliver, localVars
<1>2. CASE h \in Requests
  <2>1. pc[h] = "sent" /\ pc' = [pc EXCEPT ![h] = "recv"]
    BY <1>2 DEF Deliver, Goto
  <2>2. pc'[h] = "recv" /\ \A k \in Handlers \ {h} : pc'[k] = pc[k]
    BY <1>0, <2>1
  <2>3. \A k \in Handlers :
           /\ pc'[k] = "request" => pc[k] = "request" /\ inHand'[k] = inHand[k]
           /\ pc'[k] \in Between => pc[k] \in Between
           /\ pc'[k] = pc[k] \/ (pc[k] = "sent" /\ pc'[k] = "recv")
           /\ pc'[k] \in Announcing => pc[k] \in Announcing
           /\ pc'[k] = "finalize" => pc[k] = "finalize"
    BY <1>1, <2>1, <2>2 DEF Between, Announcing
  <2>4. Requests \subseteq Handlers /\ Announcements \subseteq Handlers
    BY DEF Handlers
  <2> QED
    BY <1>1, <2>3, <2>4, BlocksUntouched
<1>3. CASE h \notin Requests
  <2>1. h \in Announcements /\ pc[h] = "idle" /\ pc' = [pc EXCEPT ![h] = "check"]
    BY <1>3 DEF Deliver, Goto, Handlers
  <2>2. \A p \in Pieces : ~Holds(h.conn, p)
    BY <1>0, <2>1 DEF BlockInv, OneRequester
  <2>3. \A k \in Handlers \ {h} : pc'[k] = pc[k]
    BY <1>0, <2>1
  <2>4. \A r \in Requests : r \in Handlers \ {h}
    BY <1>0, <1>3, ReqFacts
  <2>5. \A a \in Announcements : a \in Handlers
    BY DEF Handlers
  <2>6. pc'[h] = "check"
    BY <1>0, <2>1
  <2>7. \A k \in Handlers :
           /\ pc'[k] = "request" => pc[k] = "request" /\ inHand'[k] = inHand[k]
           /\ pc'[k] \in Between => pc[k] \in Between \/ \A p \in Pieces : ~Holds(k.conn, p)
           /\ pc'[k] \in Announcing => pc[k] \in Announcing
    BY <1>1, <2>1, <2>2, <2>3, <2>6 DEF Announcing
  <2>8. \A r \in Requests : pc'[r] = pc[r]
    BY <2>3, <2>4
  <2> QED
    BY <1>1, <2>5, <2>7, <2>8, BlocksUntouched
<1> QED
  BY <1>2, <1>3

(* A handler between two pieces moves on, or ends. *)
LEMMA MoveBetween ==
    ASSUME Context, BlockInv,
           UNCHANGED <<tableVars, requesters, closed, nextBlock, fileVars>>,
           NEW h \in Handlers, pc[h] \in Between,
           NEW to \in Between \cup {"end"}, pc' = [pc EXCEPT ![h] = to],
           to \in Announcing => pc[h] \in Announcing,
           to = "finalize" => \A p \in Pieces : status[p] = "DONE",
           \A k \in Handlers \ {h} : inHand'[k] = inHand[k]
    PROVE  BlockInv'
<1>0. /\ pc \in [Handlers -> PCs] /\ PacedNetwork
      /\ \A r \in Requests : r \in Handlers /\ r \notin Announcements
      /\ \A a \in Announcements : a \in Handlers
  BY ReqFacts DEF Context, RequesterInv, TypeCore, Handlers
<1>1. pc'[h] = to /\ \A k \in Handlers \ {h} : pc'[k] = pc[k]
  BY <1>0
<1>2. \A k \in Handlers :
         pc'[k] = "request" => pc[k] = "request" /\ inHand'[k] = inHand[k]
  BY <1>1 DEF Between
<1>3. \A k \in Handlers : pc'[k] \in Between => pc[k] \in Between
  BY <1>1
<1>4. \A r \in Requests : pc[r] \in Active \/ pc'[r] \in Active => pc'[r] = pc[r]
  BY <1>0, <1>1 DEF Active, Within, Between
<1>5. \A a \in Announcements : pc'[a] \in Announcing => pc[a] \in Announcing
  BY <1>0, <1>1
<1>6. \A r \in Requests : pc'[r] = "finalize" =>
          pc[r] = "finalize" \/ \A p \in Pieces : status[p] = "DONE"
  BY <1>0, <1>1
<1> QED
  BY <1>2, <1>3, <1>4, <1>5, <1>6, BlocksUntouched

LEMMA StartBlocks ==
    ASSUME Context, BlockInv, NEW a \in Announcements, StartRequester(a)
    PROVE  BlockInv'
<1> DEFINE c == a.conn
<1>0. /\ pc \in [Handlers -> PCs] /\ requesters \in [Conns -> Seq(Requester)]
      /\ a \in Handlers /\ c \in Conns /\ PacedNetwork /\ closed \subseteq Requests
      /\ \A r \in Requests : r \in Handlers /\ r \notin Announcements /\ r.conn \in Conns
      /\ \A b \in Announcements : b \in Handlers
  BY ReqFacts, HandlerConn DEF Context, RequesterInv, TypeCore, Handlers
<1>c. \A b \in Announcements : b.conn = c => b = a
  BY <1>0 DEF PacedNetwork
<1> HIDE DEF c
<1>1. PICK p \in Pieces :
         /\ pc[a] = "start" /\ pc' = [pc EXCEPT ![a] = "next"]
         /\ requesters' = [requesters EXCEPT ![c] = Append(@, NewBlockRequester(p))]
         /\ UNCHANGED <<tableVars, closed, nextBlock, fileVars, inHand>>
  BY DEF StartRequester, Goto, c
<1>2. /\ pc'[a] = "next" /\ \A k \in Handlers \ {a} : pc'[k] = pc[k]
      /\ \A r \in Requests : pc'[r] = pc[r]
  BY <1>0, <1>1
<1>3. Len(requesters[c]) = 0
  BY <1>1 DEF BlockInv, OneRequester, c
<1>4. /\ Len(requesters'[c]) = 1 /\ requesters'[c][1] = NewBlockRequester(p)
      /\ \A d \in Conns \ {c} : requesters'[d] = requesters[d]
  <2>1. NewBlockRequester(p) \in Requester
    BY CountAssumption DEF NewBlockRequester, Requester
  <2>2. /\ requesters[c] \in Seq(Requester)
        /\ requesters'[c] = Append(requesters[c], NewBlockRequester(p))
    BY <1>0, <1>1
  <2> QED
    BY <1>0, <1>1, <1>3, <2>1, <2>2, AppendProperties
<1>5. /\ NewBlockRequester(p).total = K /\ NewBlockRequester(p).left = K
      /\ NewBlockRequester(p).holder = Nil
  BY <1>0, PieceSize DEF NewBlockRequester
<1>6. \A r \in Requests : r.conn = c => pc[r] = "idle"
  BY <1>3, SentFacts DEF BlockInv
<1>7. \A q \in Pieces : ~Holds(c, q)
  BY <1>0, <1>3 DEF BlockInv, OneRequester
<1>8. OneHeld' /\ Phases' /\ Sending' /\ AllSaved'
  <2>1. \A k \in Handlers :
           /\ pc'[k] = "request" => pc[k] = "request" /\ inHand'[k] = inHand[k]
           /\ pc'[k] \in Between => pc[k] \in Between
    BY <1>1, <1>2 DEF Between
  <2>2. \A r \in Requests :
           pc[r] \in {"reset", "mark"} =>
               \A b \in Indices : pc[Req(r.conn, r.piece, b)] \notin Unsaved
    BY DEF BlockInv, AllSaved
  <2> QED
    BY <1>1, <1>2, <2>1, <2>2, TableFrame
<1>9. Saved' /\ Assembled'
  BY <1>1, <1>2, FileFrame DEF tableVars
<1>10. Noticed'
  BY <1>1, <1>2, NoticedFrame DEF Holds, tableVars
<1>11. \A d \in Conns, q \in Pieces : Holds(d, q)' <=> Holds(d, q)
  BY <1>1 DEF Holds, tableVars
<1>12. OneRequester'
  <2>1. \A b \in Announcements \ {a} : b.conn # c
    BY <1>c
  <2> QED
    <3>1. ASSUME NEW d \in Conns PROVE Len(requesters'[d]) \in {0, 1}
      BY <1>4 DEF BlockInv, OneRequester
    <3>2. ASSUME NEW b \in Announcements,
                 pc'[b] \in {"idle", "check", "read", "write", "start"}
          PROVE  Len(requesters'[b.conn]) = 0
      <4>1. b # a /\ b.conn \in Conns /\ pc'[b] = pc[b]
        BY <1>0, <1>2, <3>2, HandlerConn
      <4>2. Len(requesters[b.conn]) = 0 /\ b.conn # c
        BY <2>1, <3>2, <4>1 DEF BlockInv, OneRequester
      <4> QED
        BY <1>4, <4>1, <4>2
    <3>3. ASSUME NEW d \in Conns, NEW q \in Pieces, Holds(d, q)'
          PROVE  Len(requesters'[d]) = 1
      BY <1>4, <1>11, <3>3 DEF BlockInv, OneRequester
    <3> QED
      BY <3>1, <3>2, <3>3 DEF OneRequester
<1>13. Channels'
  <2>1. ASSUME NEW r \in Requests, pc'[r] \in {"sent", "recv", "lock"}
        PROVE  requesters'[r.conn] = requesters[r.conn]
    BY <1>0, <1>2, <1>4, <1>6, <2>1
  <2> QED
    BY <1>0, <1>1, <1>2, <2>1, ChannelsFrame DEF BlockInv, Sent
<1>14. Locks'
  <2>1. \A d \in Conns : Len(requesters[d]) = 1 =>
           requesters[d][1].holder \in Requests \cup {Nil}
    BY <1>0, RequesterFields, TheRequester
  <2> QED
    <3>1. ASSUME NEW r \in Requests, pc'[r] = "decrement"
          PROVE  /\ requesters'[r.conn][1].holder = r
                 /\ requesters'[r.conn][1].read = requesters'[r.conn][1].left
      <4>1. pc[r] = "decrement" /\ r.conn # c /\ r.conn \in Conns
        BY <1>0, <1>2, <1>6, <3>1
      <4> QED
        BY <1>4, <4>1 DEF BlockInv, Locks
    <3>2. ASSUME NEW d \in Conns, Len(requesters'[d]) = 1, requesters'[d][1].holder # Nil
          PROVE  /\ requesters'[d][1].holder.conn = d
                 /\ pc'[requesters'[d][1].holder] = "decrement"
      <4>1. d # c
        BY <1>4, <1>5, <3>2
      <4>2. requesters'[d] = requesters[d]
        BY <1>4, <4>1
      <4> QED
        BY <1>2, <2>1, <3>2, <4>2 DEF BlockInv, Locks
    <3> QED
      BY <3>1, <3>2 DEF Locks
<1>15. Countdown'
  <2>1. \A d \in Conns, q \in Pieces : Counted(d, q)' = Counted(d, q)
    BY <1>0, <1>2, ReqFacts DEF Counted
  <2>2. \A d \in Conns : Marking(d)' <=> Marking(d)
    BY <1>2 DEF Marking
  <2> QED
    BY <1>4, <1>5, <1>7, <1>11, <2>1, <2>2 DEF BlockInv, Countdown
<1> QED
  BY <1>8, <1>9, <1>10, <1>12, <1>13, <1>14, <1>15 DEF BlockInv

LEMMA AnnouncementBlocks ==
    ASSUME Context, BlockInv, NEW a \in Announcements, AnnouncementStep(a)
    PROVE  BlockInv'
<1>0. a \in Handlers /\ \A k \in Handlers : inHand[k] = inHand[k]
  BY DEF Handlers
<1>1. CASE CheckQueue(a)
  <2>1. /\ pc[a] = "check" /\ \E to \in {"end", "read"} : pc' = [pc EXCEPT ![a] = to]
        /\ UNCHANGED <<tableVars, requesters, closed, nextBlock, fileVars, inHand>>
    BY <1>1 DEF CheckQueue, Goto
  <2> QED
    BY <1>0, <2>1, MoveBetween DEF Between, Announcing
<1>2. CASE ReadQueue(a)
  <2>1. /\ pc[a] = "read" /\ pc' = [pc EXCEPT ![a] = "write"]
        /\ UNCHANGED <<tableVars, requesters, closed, nextBlock, fileVars, inHand>>
    BY <1>2 DEF ReadQueue, Goto
  <2> QED
    BY <1>0, <2>1, MoveBetween DEF Between, Announcing
<1>3. CASE WriteQueue(a)
  <2>1. /\ pc[a] = "write" /\ \E to \in {"end", "start"} : pc' = [pc EXCEPT ![a] = to]
        /\ UNCHANGED <<tableVars, requesters, closed, nextBlock, fileVars, inHand>>
    BY <1>3 DEF WriteQueue, Goto
  <2> QED
    BY <1>0, <2>1, MoveBetween DEF Between, Announcing
<1>4. CASE StartRequester(a)
  BY <1>4, StartBlocks
<1>5. CASE StartOnEmptyQueue(a)
  <2>1. UNCHANGED <<tableVars, requesters, closed, pc, nextBlock, fileVars, inHand>>
    BY <1>5 DEF StartOnEmptyQueue, Panic, localVars
  <2> QED
    BY <2>1, BlocksUntouched
<1> QED
  BY <1>1, <1>2, <1>3, <1>4, <1>5 DEF AnnouncementStep

(* A connection between two pieces reserves one that nobody asked for. *)
LEMMA ReserveBlocks ==
    ASSUME Context, BlockInv, NEW h \in Handlers, ReservePiece(h)
    PROVE  BlockInv'
<1>a. h.conn \in Conns /\ inHand[h] \in Pieces
  BY HandlerConn DEF Context, RequesterInv, TypeCore
<1>b. PICK c \in Conns : c = h.conn
  BY <1>a
<1>c. PICK p \in Pieces : p = inHand[h]
  BY <1>a
<1>0. /\ pc \in [Handlers -> PCs] /\ inHand \in [Handlers -> Pieces]
      /\ nextBlock \in [Handlers -> Nat]
      /\ status \in [Pieces -> Table!PieceStatus]
      /\ downloader \in [Pieces -> Conns \cup {NoConn}]
      /\ requesters \in [Conns -> Seq(Requester)]
      /\ PacedNetwork
      /\ \A k \in Handlers : k.conn \in Conns
      /\ K \in Nat \ {0}
  BY HandlerConn, PieceSize DEF Context, RequesterInv, TypeCore, Table!TableTypeOK
<1>1. /\ pc[h] = "reserve" /\ pc' = [pc EXCEPT ![h] = "request"]
      /\ status[p] = "IDLE"
      /\ status' = [status EXCEPT ![p] = "DOWNLOADING"]
      /\ downloader' = [downloader EXCEPT ![p] = c]
      /\ nextBlock' = [nextBlock EXCEPT ![h] = 0]
      /\ UNCHANGED <<requesters, closed, fileVars, inHand>>
  BY <1>b, <1>c DEF ReservePiece, Goto, Table!Reserve, Table!CanReserve
<1>2. \A r \in Requests : r.piece = p => pc[r] = "idle"
  <2>1. downloader[p] = NoConn /\ NoConn \notin Conns
    BY <1>1, ConnAssumption DEF Context, Reservations, ReservedHasOwner
  <2>2. \A r \in Requests : r.conn \in Conns
    BY RequestFields
  <2> QED
    BY <2>1, <2>2 DEF Context, Reservations, SenderHolds
<1>3. \A q \in Pieces : ~Holds(c, q)
  BY <1>1, <1>b DEF BlockInv, Phases, Between
<1>4. Len(requesters[c]) = 1
  <2>1. Len(requesters[c]) >= 1 /\ Len(requesters[c]) \in {0, 1}
    BY <1>1, <1>b DEF Context, RequesterInv, Started, Requesting, BlockInv, OneRequester
  <2> QED
    BY <2>1
<1>5. /\ pc'[h] = "request" /\ \A k \in Handlers \ {h} : pc'[k] = pc[k]
      /\ nextBlock'[h] = 0 /\ \A k \in Handlers \ {h} : nextBlock'[k] = nextBlock[k]
      /\ status'[p] = "DOWNLOADING" /\ downloader'[p] = c
      /\ \A q \in Pieces \ {p} : status'[q] = status[q] /\ downloader'[q] = downloader[q]
  BY <1>0, <1>1
<1>6. \A d \in Conns, q \in Pieces :
         Holds(d, q)' <=> (Holds(d, q) \/ (d = c /\ q = p))
  BY <1>0, <1>1, <1>5 DEF Holds
<1>7. /\ \A r \in Requests : r \in Handlers /\ r.conn \in Conns /\ r.piece \in Pieces
      /\ \A r \in Requests : pc'[r] = pc[r] \/ (pc[r] = "reserve" /\ pc'[r] = "request")
      /\ \A a \in Announcements : a \in Handlers
  BY <1>0, <1>1, <1>5, ReqFacts DEF Handlers
<1>8. /\ \A r \in Requests : pc'[r] \in Uncounted <=> pc[r] \in Uncounted
      /\ \A r \in Requests : pc'[r] \in Unsaved <=> pc[r] \in Unsaved
      /\ \A r \in Requests : pc'[r] \in Unanswered <=> pc[r] \in Unanswered
      /\ \A r \in Requests : pc'[r] \in Within => pc[r] \in Within
  BY <1>7 DEF Unsaved, Uncounted, Unanswered, Within, Sent
<1>9. OneHeld'
  BY <1>3, <1>6 DEF BlockInv, OneHeld
<1>10. Phases'
  <2>1. ASSUME NEW k \in Handlers, pc'[k] \in Between, NEW q \in Pieces
        PROVE  ~Holds(k.conn, q)'
    <3>1. k # h /\ pc[k] \in Between /\ k.conn \in Conns
      BY <1>0, <1>5, <2>1 DEF Between
    <3>2. k.conn # c
      BY <1>1, <1>b, <3>1 DEF Context, PaceInv, OneBusy, Busy, Between
    <3> QED
      BY <1>6, <3>1, <3>2 DEF BlockInv, Phases
  <2>2. ASSUME NEW r \in Requests, r.try = 1, pc'[r] \in Within
        PROVE  status'[r.piece] = "DOWNLOADING"
    BY <1>5, <1>7, <1>8, <2>2 DEF BlockInv, Phases
  <2> QED
    BY <2>1, <2>2 DEF Phases
<1>11. Sending'
  <2> SUFFICES ASSUME NEW k \in Handlers, pc'[k] = "request"
               PROVE  /\ status'[inHand'[k]] = "DOWNLOADING"
                      /\ nextBlock'[k] \in Indices
                      /\ \A b \in Indices : b >= nextBlock'[k] =>
                            pc'[Req(k.conn, inHand'[k], b)] = "idle"
                      /\ \A j \in Handlers :
                            j.conn = k.conn /\ pc'[j] = "request" => j = k
    BY DEF Sending
  <2>1. ASSUME NEW j \in Handlers, pc[j] = "request" PROVE j.conn # c
    <3>1. status[inHand[j]] = "DOWNLOADING" /\ downloader[inHand[j]] = j.conn
      BY <2>1 DEF BlockInv, Sending, Context, Reservations, RequesterHolds
    <3> QED
      BY <1>0, <1>3, <3>1 DEF Holds
  <2>2. CASE k = h
    <3>1. inHand'[k] = p /\ k.conn = c
      BY <1>1, <1>b, <1>c, <2>2
    <3>2. ASSUME NEW b \in Indices PROVE pc'[Req(c, p, b)] = "idle"
      <4>1. Req(c, p, b) \in Requests /\ Req(c, p, b).piece = p
        BY <1>0, ReqFacts
      <4> QED
        BY <1>2, <1>7, <4>1
    <3>3. 0 \in Indices
      BY <1>0 DEF Indices
    <3> QED
      BY <1>5, <2>1, <2>2, <3>1, <3>2, <3>3
  <2>3. CASE k # h
    <3>1. pc[k] = "request" /\ inHand'[k] = inHand[k] /\ inHand[k] \in Pieces
          /\ k.conn \in Conns /\ k.conn # c
      BY <1>0, <1>1, <1>5, <2>1, <2>3
    <3>2. status'[inHand[k]] = "DOWNLOADING"
      BY <1>5, <3>1 DEF BlockInv, Sending
    <3>3. ASSUME NEW b \in Indices, b >= nextBlock[k]
          PROVE  pc'[Req(k.conn, inHand[k], b)] = "idle"
      <4>1. Req(k.conn, inHand[k], b) \in Requests
        BY <1>0, <3>1, ReqFacts
      <4>2. pc[Req(k.conn, inHand[k], b)] = "idle"
        BY <3>1, <3>3 DEF BlockInv, Sending
      <4> QED
        BY <1>7, <4>1, <4>2
    <3>4. \A j \in Handlers : j.conn = k.conn /\ pc'[j] = "request" => j = k
      <4>1. h.conn # k.conn
        BY <1>b, <3>1
      <4> QED
        BY <1>5, <3>1, <4>1 DEF BlockInv, Sending
    <3> QED
      BY <1>5, <2>3, <3>1, <3>2, <3>3, <3>4 DEF BlockInv, Sending
  <2> QED
    BY <2>2, <2>3
<1>12. OneRequester'
  BY <1>1, <1>4, <1>5, <1>6, <1>7 DEF BlockInv, OneRequester
<1>13. Channels'
  <2>1. closed \subseteq Requests
    BY DEF Context, RequesterInv, TypeCore
  <2> QED
    BY <1>1, <1>7, <2>1, ChannelsFrame DEF BlockInv, Sent
<1>14. Locks'
  <2>1. \A d \in Conns : Len(requesters[d]) = 1 =>
           requesters[d][1].holder \in Requests \cup {Nil}
    BY <1>0, RequesterFields, TheRequester
  <2> QED
    BY <1>1, <1>7, <2>1 DEF BlockInv, Locks
<1>15. Countdown'
  <2>1. \A d \in Conns, q \in Pieces : Counted(d, q)' = Counted(d, q)
    BY <1>0, <1>8, ReqFacts, ZenonT(60) DEF Counted
  <2>2. \A d \in Conns : Marking(d)' <=> Marking(d)
    BY <1>7 DEF Marking
  <2>3. Cardinality(Counted(c, p)) = 0
    <3>1. Counted(c, p) = {}
      BY <1>0, <1>2, ReqFacts DEF Counted, Uncounted, Unanswered
    <3> QED
      BY <3>1, FS_EmptySet
  <2>4. requesters[c][1].total = K /\ requesters[c][1].left = K
    BY <1>0, <1>3, <1>4 DEF BlockInv, Countdown
  <2>5. ASSUME NEW d \in Conns, Len(requesters'[d]) = 1
        PROVE  /\ requesters'[d][1].total = K
               /\ Marking(d)' => requesters'[d][1].left = K
               /\ (\A q \in Pieces : ~Holds(d, q)') => requesters'[d][1].left = K
               /\ \A q \in Pieces : Holds(d, q)' /\ ~Marking(d)' =>
                     requesters'[d][1].left = K - Cardinality(Counted(d, q)')
    <3>1. CASE d = c
      <4>1. \A q \in Pieces : Holds(d, q)' => q = p
        BY <1>3, <1>6, <3>1
      <4>2. Cardinality(Counted(c, p)') = 0 /\ K - 0 = K
        BY <1>0, <2>1, <2>3
      <4> QED
        BY <1>1, <2>4, <3>1, <4>1, <4>2
    <3>2. CASE d # c
      BY <1>1, <1>6, <2>1, <2>2, <2>5, <3>2 DEF BlockInv, Countdown
    <3> QED
      BY <3>1, <3>2
  <2> QED
    BY <2>5 DEF Countdown
<1>16. AllSaved'
  <2>1. ASSUME NEW q \in Pieces, status'[q] = "DONE"
        PROVE  status[q] = "DONE" /\ downloader'[q] = downloader[q] /\ downloader[q] \in Conns
    BY <1>5, <2>1 DEF Context, Reservations, ProtocolTypeOK, ReservedHasOwner
  <2>2. \A r \in Requests : pc'[r] \in {"reset", "mark"} => pc[r] \in {"reset", "mark"}
    BY <1>7
  <2> QED
    BY <1>0, <1>7, <1>8, <2>1, <2>2, ReqFacts DEF BlockInv, AllSaved
<1>17. Noticed'
  <2> SUFFICES ASSUME NEW d \in Conns, NEW q \in Pieces, Holds(d, q)',
                      \A b \in Indices : pc'[Req(d, q, b)] \notin Uncounted
               PROVE  \E r \in Requests :
                         r.conn = d /\ pc'[r] \in {"save", "count", "wait", "reset", "mark"}
    BY DEF Noticed
  <2>1. \A b \in Indices : pc[Req(d, q, b)] \notin Uncounted
    BY <1>0, <1>8, ReqFacts
  <2>2. q # p
    <3>1. 0 \in Indices
      BY <1>0 DEF Indices
    <3> QED
      BY <1>0, <1>2, <2>1, <3>1, ReqFacts DEF Uncounted, Unanswered
  <2>3. PICK r \in Requests :
           r.conn = d /\ pc[r] \in {"save", "count", "wait", "reset", "mark"}
    BY <1>6, <2>1, <2>2 DEF BlockInv, Noticed
  <2> QED
    BY <1>7, <2>3
<1>18. Saved' /\ Assembled'
  <2>1. ~assembled /\ \A r \in Requests : pc[r] # "finalize"
    BY <1>0, <1>1 DEF BlockInv, Assembled
  <2> QED
    BY <1>1, <1>5, <1>7, <1>8, FileFrame
<1> QED
  BY <1>9, <1>10, <1>11, <1>12, <1>13, <1>14, <1>15, <1>16, <1>17, <1>18 DEF BlockInv

(* The next block of the piece in hand is asked for. *)
LEMMA RequestBlocks ==
    ASSUME Context, BlockInv, NEW h \in Handlers, RequestBlock(h)
    PROVE  BlockInv'
<1>0. /\ pc \in [Handlers -> PCs] /\ inHand \in [Handlers -> Pieces]
      /\ nextBlock \in [Handlers -> Nat] /\ closed \subseteq Requests
      /\ requesters \in [Conns -> Seq(Requester)]
      /\ PacedNetwork /\ K \in Nat \ {0}
      /\ \A k \in Handlers : k.conn \in Conns
  BY HandlerConn, PieceSize DEF Context, RequesterInv, TypeCore
<1>a. PICK c \in Conns : c = h.conn
  BY <1>0
<1>b. PICK p \in Pieces : p = inHand[h]
  BY <1>0
<1>c. PICK n \in Indices : n = nextBlock[h]
  BY DEF RequestBlock, BlockInv, Sending
<1>d. pc[h] = "request" /\ Holds(c, p)
  BY <1>a, <1>b
  DEF RequestBlock, BlockInv, Sending, Holds, Context, Reservations, RequesterHolds
<1>1. PICK r \in Requests :
         /\ r = Req(c, p, n) /\ pc[r] = "idle" /\ r # h
         /\ pc' = [pc EXCEPT ![r] = "ask", ![h] = IF n + 1 = K THEN "end" ELSE @]
         /\ nextBlock' = [nextBlock EXCEPT ![h] = IF n + 1 = K THEN 0 ELSE @ + 1]
         /\ inHand' = [inHand EXCEPT ![h] = IF n + 1 = K THEN 0 ELSE @]
         /\ UNCHANGED <<tableVars, requesters, closed, fileVars>>
  <2>1. PICK r \in Requests :
           /\ r.conn = c /\ r.piece = p /\ r.blk = n /\ r.try = 1
           /\ pc[r] = "idle"
           /\ pc' = [pc EXCEPT ![r] = "ask", ![h] = IF IsLast(p, n) THEN "end" ELSE @]
           /\ nextBlock' = [nextBlock EXCEPT ![h] = IF IsLast(p, n) THEN 0 ELSE @ + 1]
           /\ inHand' = [inHand EXCEPT ![h] = IF IsLast(p, n) THEN 0 ELSE @]
           /\ UNCHANGED <<tableVars, requesters, closed, fileVars>>
    BY <1>a, <1>b, <1>c DEF RequestBlock
  <2>2. IsLast(p, n) <=> n + 1 = K
    BY <1>0, PieceSize DEF IsLast
  <2>3. r = Req(c, p, n)
    BY <1>0, <2>1, ReqFacts
  <2>4. pc[r] = "idle" /\ r # h
    BY <1>d, <2>1
  <2> QED
    BY <2>1, <2>2, <2>3, <2>4
<1>2. /\ Req(c, p, n) = r /\ r \in Handlers /\ r.conn = c /\ r.piece = p /\ r.blk = n
      /\ \A q \in Requests : q \in Handlers /\ q.conn \in Conns /\ q.piece \in Pieces
      /\ \A q \in Requests : q.blk \in Indices /\ q \notin Announcements
      /\ \A a \in Announcements : a \in Handlers
  BY <1>0, <1>1, ReqFacts DEF Handlers
<1>3. /\ pc'[r] = "ask" /\ pc'[h] = (IF n + 1 = K THEN "end" ELSE "request")
      /\ \A k \in Handlers \ {r, h} : pc'[k] = pc[k]
      /\ nextBlock'[h] = (IF n + 1 = K THEN 0 ELSE n + 1)
      /\ inHand'[h] = (IF n + 1 = K THEN 0 ELSE p)
      /\ \A k \in Handlers \ {h} : nextBlock'[k] = nextBlock[k] /\ inHand'[k] = inHand[k]
  BY <1>0, <1>b, <1>c, <1>d, <1>1, <1>2
<1>7. \A d \in Conns, q \in Pieces : Holds(d, q)' <=> Holds(d, q)
  BY <1>1 DEF Holds, tableVars
<1>r. \A d \in Conns, q \in Pieces, i \in Indices :
         /\ Req(d, q, i) \in Requests /\ Req(d, q, i).conn = d /\ Req(d, q, i).blk = i
  BY <1>0, ReqFacts
<1>s. \A q \in Requests :
         \/ pc'[q] = pc[q] /\ q # r
         \/ q = r /\ pc[q] = "idle" /\ pc'[q] = "ask"
         \/ q # r /\ pc[q] = "request" /\ pc'[q] = "end"
  BY <1>1, <1>2, <1>3, <1>d
<1>8. /\ \A q \in Requests : pc'[q] \in Uncounted <=> pc[q] \in Uncounted
      /\ \A q \in Requests : pc'[q] \in Unsaved <=> pc[q] \in Unsaved
      /\ \A q \in Requests : pc'[q] \in Unanswered <=> pc[q] \in Unanswered
      /\ \A q \in Requests \ {r} : pc'[q] \in Within => pc'[q] = pc[q]
      /\ \A q \in Requests : pc'[q] \in {"decrement", "mark", "reset", "finalize"}
                                  => pc'[q] = pc[q]
      /\ \A q \in Requests : pc[q] \in {"decrement", "save", "count", "wait", "reset", "mark"}
                                  => pc'[q] = pc[q]
      /\ \A q \in Requests : pc[q] = "idle" /\ q # r => pc'[q] = "idle"
      /\ \A q \in Requests : Sent(q) => Sent(q)'
      /\ \A q \in Requests : pc'[q] \in {"sent", "recv", "lock"} => pc'[q] = pc[q]
      /\ \A q \in Requests : pc'[q] = "decrement" <=> pc[q] = "decrement"
      /\ \A q \in Requests : pc'[q] = "mark" <=> pc[q] = "mark"
  BY <1>s DEF Unsaved, Uncounted, Unanswered, Within, Sent
<1>9. OneHeld'
  BY <1>7 DEF BlockInv, OneHeld
<1>10. Phases'
  <2>1. \A k \in Handlers : pc'[k] \in Between => pc[k] \in Between
    BY <1>2, <1>3 DEF Between
  <2>2. \A q \in Requests :
           q.try = 1 /\ pc'[q] \in Within => status'[q.piece] = "DOWNLOADING"
    BY <1>1, <1>2, <1>8, <1>d DEF BlockInv, Phases, Holds, tableVars
  <2> QED
    BY <1>0, <1>7, <2>1, <2>2 DEF BlockInv, Phases
<1>11. Sending'
  <2> SUFFICES ASSUME NEW k \in Handlers, pc'[k] = "request"
               PROVE  /\ status'[inHand'[k]] = "DOWNLOADING"
                      /\ nextBlock'[k] \in Indices
                      /\ \A i \in Indices : i >= nextBlock'[k] =>
                            pc'[Req(k.conn, inHand'[k], i)] = "idle"
                      /\ \A j \in Handlers :
                            j.conn = k.conn /\ pc'[j] = "request" => j = k
    BY DEF Sending
  <2>1. pc[k] = "request" /\ k # r /\ \A j \in Handlers : pc'[j] = "request" => pc[j] = "request"
    BY <1>1, <1>3, <1>d
  <2>2. \A j \in Handlers : j.conn = k.conn /\ pc'[j] = "request" => j = k
    BY <2>1 DEF BlockInv, Sending
  <2>3. CASE k = h
    <3>1. n + 1 # K /\ inHand'[k] = p /\ nextBlock'[k] = n + 1 /\ k.conn = c
      BY <1>3, <1>a, <2>3
    <3>2. n + 1 \in Indices
      BY <1>0, <3>1 DEF Indices
    <3>3. ASSUME NEW i \in Indices, i >= n + 1 PROVE pc'[Req(c, p, i)] = "idle"
      <4>1. Req(c, p, i) \in Requests /\ Req(c, p, i) # r
        <5>1. i # n
          BY <1>0, <3>3 DEF Indices
        <5> QED
          BY <1>2, <1>r, <5>1
      <4>2. i >= nextBlock[h]
        BY <1>0, <1>c, <3>3 DEF Indices
      <4>3. pc[Req(c, p, i)] = "idle"
        BY <1>a, <1>b, <1>d, <4>2 DEF BlockInv, Sending
      <4> QED
        BY <1>8, <4>1, <4>3
    <3>4. status'[p] = "DOWNLOADING"
      BY <1>1, <1>d DEF Holds, tableVars
    <3> QED
      BY <2>2, <3>1, <3>2, <3>3, <3>4
  <2>4. CASE k # h
    <3>1. k.conn # c /\ k.conn \in Conns /\ inHand[k] \in Pieces
          /\ inHand'[k] = inHand[k] /\ nextBlock'[k] = nextBlock[k]
      <4>1. k.conn # h.conn
        BY <1>d, <2>1, <2>4 DEF BlockInv, Sending
      <4> QED
        BY <1>0, <1>3, <1>a, <2>4, <4>1
    <3>2. ASSUME NEW i \in Indices, i >= nextBlock[k]
          PROVE  pc'[Req(k.conn, inHand[k], i)] = "idle"
      <4>1. Req(k.conn, inHand[k], i) \in Requests /\ Req(k.conn, inHand[k], i) # r
        BY <1>2, <1>r, <3>1
      <4>2. pc[Req(k.conn, inHand[k], i)] = "idle"
        BY <2>1, <3>2 DEF BlockInv, Sending
      <4> QED
        BY <1>8, <4>1, <4>2
    <3>3. status'[inHand[k]] = "DOWNLOADING" /\ nextBlock[k] \in Indices
      BY <1>1, <2>1 DEF BlockInv, Sending, tableVars
    <3> QED
      BY <2>2, <3>1, <3>2, <3>3
  <2> QED
    BY <2>3, <2>4
<1>12. OneRequester' /\ Channels' /\ Locks' /\ Countdown'
  <2>1. \A a \in Announcements : pc'[a] \in Announcing => pc[a] \in Announcing
    BY <1>2, <1>3 DEF Announcing
  <2> QED
    BY <1>1, <1>8, <2>1, RequesterFrame
<1>16. AllSaved'
  <2>1. \A q \in Pieces : status[q] = "DONE" => downloader[q] \in Conns
    BY DEF Context, Reservations, ProtocolTypeOK, ReservedHasOwner
  <2> QED
    BY <1>1, <1>2, <1>8, <1>r, <2>1, ZenonT(60) DEF BlockInv, AllSaved, tableVars
<1>17. Noticed'
  BY <1>7, <1>8, NoticedFrame
<1>18. Saved' /\ Assembled'
  BY <1>1, <1>8, FileFrame DEF tableVars
<1> QED
  BY <1>9, <1>10, <1>11, <1>12, <1>16, <1>17, <1>18 DEF BlockInv

(* The REQUEST for a block of the piece in hand gets a channel of its own. *)
LEMMA SendFirstBlocks ==
    ASSUME Context, BlockInv, NEW r \in Requests, SendFirst(r)
    PROVE  BlockInv'
<1>0. /\ pc \in [Handlers -> PCs] /\ closed \subseteq Requests
      /\ requesters \in [Conns -> Seq(Requester)] /\ PacedNetwork
  BY DEF Context, RequesterInv, TypeCore
<1>a. PICK c \in Conns : c = r.conn
  BY <1>0, ReqFacts
<1>b. PICK p \in Pieces : p = r.piece
  BY <1>0, ReqFacts
<1>c. PICK n \in Indices : n = r.blk
  BY <1>0, ReqFacts
<1>f. pc[r] = "ask" /\ pc' = [pc EXCEPT ![r] = "sent"]
      /\ UNCHANGED <<tableVars, closed, nextBlock, inHand, fileVars>>
  BY DEF SendFirst, Goto, localVars
<1>e. /\ Len(requesters[c]) = 1 /\ r.try = 1 /\ r = Req(c, p, n) /\ Holds(c, p)
  <2>1. r.try = 1 /\ r = Req(c, p, n) /\ downloader[p] = c /\ Len(requesters[c]) = 1
    BY <1>f, <1>a, <1>b, <1>c, SentFacts DEF BlockInv
  <2> QED
    BY <1>f, <1>b, <2>1 DEF BlockInv, Phases, Within, Holds
<1>1. SetRequester(c, 1, [requesters[c][1] EXCEPT !.data[n] = r])
  <2>1. owner[r] = 1
    <3>1. owner[r] \in 1 .. Len(requesters[c])
      BY <1>a, <1>f, HasRequester DEF Context
    <3> QED
      BY <1>e, <3>1
  <2> QED
    BY <1>a, <1>c, <2>1 DEF SendFirst, Send, MakeChannel
<1>2. /\ r \in Handlers /\ r.conn = c /\ r.piece = p /\ r.blk = n
      /\ \A q \in Requests : q \in Handlers /\ q.conn \in Conns /\ q.piece \in Pieces
      /\ \A q \in Requests : q.blk \in Indices /\ q \notin Announcements
      /\ \A a \in Announcements : a \in Handlers /\ a.conn \in Conns
  BY <1>0, <1>a, <1>b, <1>c, ReqFacts, HandlerConn DEF Handlers
<1>3. pc'[r] = "sent" /\ \A k \in Handlers \ {r} : pc'[k] = pc[k]
  BY <1>0, <1>2, <1>f
<1>4. PICK b : /\ b = [requesters[c][1] EXCEPT !.data[n] = r]
               /\ SetRequester(c, 1, b)
  BY <1>1
<1>5. /\ requesters[c][1] \in Requester /\ b.total = requesters[c][1].total
      /\ b.left = requesters[c][1].left /\ b.read = requesters[c][1].read
      /\ b.holder = requesters[c][1].holder
      /\ b.data[n] = r /\ \A i \in Indices \ {n} : b.data[i] = requesters[c][1].data[i]
  <2>1. requesters[c][1] \in Requester
    BY <1>0, <1>e, TheRequester
  <2>2. requesters[c][1].data \in [Indices -> Requests \cup {Nil}]
    BY <1>0, <2>1, RequesterFields, PieceSize
  <2> QED
    BY <1>4, <2>1, <2>2 DEF Requester
<1>6. /\ Len(requesters'[c]) = 1 /\ requesters'[c][1] = b
      /\ \A d \in Conns \ {c} : requesters'[d] = requesters[d]
  BY <1>0, <1>e, <1>4, RequesterWritten
<1>7. \A d \in Conns, q \in Pieces : Holds(d, q)' <=> Holds(d, q)
  BY <1>f DEF Holds, tableVars
<1>s. \A q \in Requests :
         \/ pc'[q] = pc[q] /\ q # r
         \/ q = r /\ pc[q] = "ask" /\ pc'[q] = "sent"
  BY <1>2, <1>3, <1>f
<1>8. /\ \A q \in Requests : pc'[q] \in Uncounted <=> pc[q] \in Uncounted
      /\ \A q \in Requests : pc'[q] \in Unsaved <=> pc[q] \in Unsaved
      /\ \A q \in Requests : pc'[q] \in Within => pc[q] \in Within
      /\ \A q \in Requests \ {r} : pc'[q] \in Within => pc'[q] = pc[q]
      /\ \A q \in Requests : pc'[q] \in {"decrement", "mark", "reset", "finalize"}
                                  => pc'[q] = pc[q]
      /\ \A q \in Requests : pc[q] \in {"decrement", "save", "count", "wait", "reset", "mark"}
                                  => pc'[q] = pc[q]
      /\ \A q \in Requests : pc[q] = "idle" => pc'[q] = "idle"
  BY <1>s DEF Unsaved, Uncounted, Unanswered, Within
<1>9. OneHeld' /\ Phases' /\ Sending' /\ AllSaved'
  <2>1. \A k \in Handlers :
           /\ pc'[k] = "request" => pc[k] = "request" /\ inHand'[k] = inHand[k]
           /\ pc'[k] \in Between => pc[k] \in Between
    BY <1>3, <1>f DEF Between
  <2>2. \A q \in Requests :
           pc'[q] \in {"reset", "mark"} =>
               \A i \in Indices : pc[Req(q.conn, q.piece, i)] \notin Unsaved
    BY <1>8 DEF BlockInv, AllSaved
  <2> QED
    BY <1>f, <1>8, <2>1, <2>2, TableFrame
<1>12. OneRequester'
  <2>1. \A d \in Conns : Len(requesters'[d]) = Len(requesters[d])
    BY <1>6, <1>e
  <2>2. \A a \in Announcements : pc'[a] = pc[a] /\ a.conn \in Conns
    BY <1>2, <1>3
  <2> QED
    BY <1>7, <2>1, <2>2 DEF BlockInv, OneRequester
<1>13. Channels'
  <2> DEFINE d(q) == requesters[q.conn][1].data[q.blk]
  <2>0. /\ \A x \in Requests : Sent(x) => Sent(x)'
        /\ Sent(r)' /\ ~Sent(r) /\ closed' = closed
    BY <1>3, <1>f, <1>s DEF Sent
  <2>1. ASSUME NEW q \in Requests, q.try = 1, pc'[q] \in {"sent", "recv", "lock"}
        PROVE  OpenFor(q, d(q))'
    <3>1. CASE q = r
      <4>1. d(q)' = r /\ r \notin closed
        BY <1>2, <1>5, <1>6, <2>0, <3>1 DEF BlockInv, Channels
      <4> QED
        BY <2>0, <3>1, <4>1 DEF OpenFor
    <3>2. CASE q # r
      <4>1. pc[q] \in {"sent", "recv", "lock"}
        BY <1>8, <2>1, <3>2 DEF Within
      <4>2. OpenFor(q, d(q))
        BY <2>1, <4>1 DEF BlockInv, Channels
      <4>a. d(q)' = d(q) => OpenFor(q, d(q))'
        <5>1. ASSUME NEW x, OpenFor(q, x), d(q)' = x PROVE OpenFor(q, d(q))'
          BY <2>0, <5>1 DEF OpenFor
        <5> QED
          BY <4>2, <5>1
      <4>3. CASE q.conn # c
        BY <1>2, <1>6, <4>a, <4>3
      <4>4. CASE q.conn = c
        <5>1. q = Req(c, q.piece, q.blk) /\ Holds(c, q.piece)
          BY <2>1, <4>1, <4>4, SentFacts DEF BlockInv, Phases, Within, Holds
        <5>2. q.piece = p
          BY <1>2, <1>e, <5>1 DEF BlockInv, OneHeld
        <5>3. q.blk # n
          BY <1>e, <3>2, <5>1, <5>2
        <5> QED
          BY <1>2, <1>5, <1>6, <4>a, <4>4, <5>3
      <4> QED
        BY <4>3, <4>4
    <3> QED
      BY <3>1, <3>2
  <2>2. \A q \in closed' : Sent(q)'
    BY <1>0, <2>0 DEF BlockInv, Channels
  <2> QED
    BY <2>1, <2>2 DEF Channels
<1>14. Locks'
  <2>1. ASSUME NEW q \in Requests, pc'[q] = "decrement"
        PROVE  /\ requesters'[q.conn][1].holder = q
               /\ requesters'[q.conn][1].read = requesters'[q.conn][1].left
    BY <1>2, <1>5, <1>6, <1>8, <2>1 DEF BlockInv, Locks
  <2>2. ASSUME NEW d \in Conns, Len(requesters'[d]) = 1, requesters'[d][1].holder # Nil
        PROVE  /\ requesters'[d][1].holder.conn = d
               /\ pc'[requesters'[d][1].holder] = "decrement"
    <3>1. Len(requesters[d]) = 1 /\ requesters'[d][1].holder = requesters[d][1].holder
      BY <1>5, <1>6, <1>e, <2>2
    <3>2. requesters[d][1].holder \in Requests
      BY <1>0, <2>2, <3>1, RequesterFields, TheRequester
    <3> QED
      BY <1>8, <2>2, <3>1, <3>2 DEF BlockInv, Locks
  <2> QED
    BY <2>1, <2>2 DEF Locks
<1>15. Countdown'
  <2>1. \A d \in Conns, q \in Pieces : Counted(d, q)' = Counted(d, q)
    BY <1>0, <1>8, ReqFacts DEF Counted
  <2>2. \A d \in Conns : Marking(d)' <=> Marking(d)
    BY <1>8 DEF Marking
  <2>3. \A d \in Conns :
           /\ Len(requesters'[d]) = Len(requesters[d])
           /\ requesters'[d][1].total = requesters[d][1].total
           /\ requesters'[d][1].left = requesters[d][1].left
    BY <1>5, <1>6, <1>e
  <2> QED
    BY <1>7, <2>1, <2>2, <2>3 DEF BlockInv, Countdown
<1>17. Noticed'
  BY <1>7, <1>8, NoticedFrame
<1>18. Saved' /\ Assembled'
  BY <1>f, <1>8, FileFrame DEF tableVars
<1> QED
  BY <1>9, <1>12, <1>13, <1>14, <1>15, <1>17, <1>18 DEF BlockInv

LEMMA RequestNextPieceBlocks ==
    ASSUME Context, BlockInv, NEW h \in Handlers, RequestNextPiece(h)
    PROVE  BlockInv'
<1>0. inHand \in [Handlers -> Pieces]
  BY DEF Context, RequesterInv, TypeCore
<1>1. CASE NextPiece(h) \/ StopRequesting(h) \/ BeginPiece(h)
  <2>1. /\ pc[h] \in {"next", "stop", "begin"}
        /\ \E to \in {"stop", "begin", "end", "dequeue"} : pc' = [pc EXCEPT ![h] = to]
        /\ UNCHANGED <<tableVars, requesters, closed, nextBlock, fileVars, inHand>>
    BY <1>1 DEF NextPiece, StopRequesting, BeginPiece, Goto, localVars
  <2> QED
    BY <2>1, MoveBetween DEF Between, Announcing
<1>2. CASE Dequeue(h)
  <2>1. /\ pc[h] = "dequeue" /\ pc' = [pc EXCEPT ![h] = "advance"]
        /\ UNCHANGED <<tableVars, requesters, closed, nextBlock, fileVars>>
        /\ \A k \in Handlers \ {h} : inHand'[k] = inHand[k]
    BY <1>0, <1>2 DEF Dequeue, Goto
  <2> QED
    BY <2>1, MoveBetween DEF Between, Announcing
<1>3. CASE DequeueFromEmpty(h)
  <2>1. UNCHANGED <<tableVars, requesters, closed, pc, nextBlock, fileVars, inHand>>
    BY <1>3 DEF DequeueFromEmpty, Panic, localVars
  <2> QED
    BY <2>1, BlocksUntouched
<1>4. CASE AdvanceQueue(h)
  <2>1. /\ pc[h] = "advance" /\ pc' = [pc EXCEPT ![h] = "reserve"]
        /\ UNCHANGED <<tableVars, requesters, closed, nextBlock, fileVars, inHand>>
    BY <1>4 DEF AdvanceQueue, Goto
  <2> QED
    BY <2>1, MoveBetween DEF Between, Announcing
<1>5. CASE ReservePiece(h)
  BY <1>5, ReserveBlocks
<1>6. CASE ReservationRefused(h)
  <2>1. /\ pc[h] = "reserve" /\ pc' = [pc EXCEPT ![h] = "next"]
        /\ UNCHANGED <<tableVars, requesters, closed, nextBlock, fileVars>>
        /\ \A k \in Handlers \ {h} : inHand'[k] = inHand[k]
    BY <1>0, <1>6 DEF ReservationRefused, Goto
  <2> QED
    BY <2>1, MoveBetween DEF Between, Announcing
<1>7. CASE RequestBlock(h)
  BY <1>7, RequestBlocks
<1> QED
  BY <1>1, <1>2, <1>3, <1>4, <1>5, <1>6, <1>7 DEF RequestNextPiece

(* A PIECE handler that works alone on its connection takes one step. *)
LEMMA AloneStep ==
    ASSUME Context, BlockInv, NEW r \in Requests, pc[r] \in Within \ {"ask", "sent"},
           NEW to, pc' = [pc EXCEPT ![r] = to]
    PROVE  /\ r.try = 1 /\ r = Req(r.conn, r.piece, r.blk)
           /\ r.conn \in Conns /\ r.piece \in Pieces
           /\ r.blk \in Indices /\ Holds(r.conn, r.piece)
           /\ Len(requesters[r.conn]) = 1
           /\ \A p \in Pieces : Holds(r.conn, p) => p = r.piece
           /\ pc'[r] = to /\ \A k \in Handlers \ {r} : pc'[k] = pc[k]
           /\ \A q \in Requests \ {r} : q \in Handlers /\ q.conn \in Conns
                                           /\ pc'[q] = pc[q]
           /\ \A a \in Announcements : a \in Handlers /\ a # r /\ pc'[a] = pc[a]
           /\ \A k \in Handlers \ {r} :
                 k.conn = r.conn => pc[k] \in {"idle", "ask", "sent", "request", "hung", "end"}
<1>0. pc \in [Handlers -> PCs] /\ PacedNetwork
  BY DEF Context, RequesterInv, TypeCore
<1>1. /\ r.conn \in Conns /\ r.piece \in Pieces /\ r.blk \in Indices /\ r \in Handlers
      /\ \A q \in Requests : q \in Handlers /\ q \notin Announcements /\ q.conn \in Conns
      /\ \A a \in Announcements : a \in Handlers
  BY <1>0, ReqFacts DEF Handlers
<1>2. pc[r] \notin {"idle", "ask", "sent"} /\ OneRequester
  BY DEF BlockInv, Within
<1>3. /\ r.try = 1 /\ r = Req(r.conn, r.piece, r.blk) /\ Len(requesters[r.conn]) = 1
      /\ downloader[r.piece] = r.conn
  BY <1>2, SentFacts
<1>4. Holds(r.conn, r.piece)
  BY <1>3 DEF BlockInv, Phases, Holds
<1>5. \A p \in Pieces : Holds(r.conn, p) => p = r.piece
  BY <1>1, <1>4 DEF BlockInv, OneHeld
<1>6. pc'[r] = to /\ \A k \in Handlers \ {r} : pc'[k] = pc[k]
  BY <1>0, <1>1
<1>7. \A k \in Handlers \ {r} :
         k.conn = r.conn => pc[k] \in {"idle", "ask", "sent", "request", "hung", "end"}
  BY <1>1 DEF Context, PaceInv, OneBusy, Busy, Within
<1> QED
  BY <1>1, <1>3, <1>4, <1>5, <1>6, <1>7

(* With one requester, it is the one that was looked up. *)
LEMMA LooksAtTheOne ==
    ASSUME Context, OneRequester, NEW r \in Requests, pc[r] \in {"lock", "wait"}
    PROVE  at[r] = 1 /\ Looked(r) = requesters[r.conn][1]
<1>1. Len(requesters[r.conn]) = 1
  BY SentFacts
<1>2. at[r] \in 1 .. Len(requesters[r.conn])
  BY LookedIsRequester DEF Context, Looking
<1>3. at[r] = 1
  BY <1>1, <1>2
<1> QED
  BY <1>3 DEF Looked

LEMMA ReceiveBlocks ==
    ASSUME Context, BlockInv, NEW r \in Requests, ReceiveBlock(r)
    PROVE  BlockInv'
<1>0. /\ requesters \in [Conns -> Seq(Requester)] /\ PacedNetwork
      /\ closed \subseteq Requests
  BY DEF Context, RequesterInv, TypeCore
<1>1. /\ pc[r] = "lock" /\ pc' = [pc EXCEPT ![r] = "decrement"]
      /\ UNCHANGED <<tableVars, nextBlock, fileVars, inHand>>
  BY DEF ReceiveBlock, Goto, localVars
<1>2. pc[r] \in Within \ {"ask", "sent"}
  BY <1>1 DEF Within
<1>a. PICK c \in Conns : c = r.conn
  BY <1>0, ReqFacts
<1>3. /\ Len(requesters[c]) = 1 /\ r.piece \in Pieces /\ r.blk \in Indices
      /\ r.try = 1 /\ r = Req(c, r.piece, r.blk) /\ Holds(c, r.piece)
      /\ \A q \in Pieces : Holds(c, q) => q = r.piece
      /\ pc'[r] = "decrement" /\ \A k \in Handlers \ {r} : pc'[k] = pc[k]
      /\ \A q \in Requests \ {r} : q \in Handlers /\ q.conn \in Conns /\ pc'[q] = pc[q]
      /\ \A a \in Announcements : a \in Handlers /\ a # r /\ pc'[a] = pc[a]
  BY <1>1, <1>2, <1>a, AloneStep
<1>4. PICK old \in Requester : old = requesters[c][1] /\ old = Looked(r) /\ at[r] = 1
  BY <1>0, <1>1, <1>3, <1>a, TheRequester, LooksAtTheOne DEF BlockInv
<1>5. PICK ch \in Requests : ch = old.data[r.blk] /\ OpenFor(r, ch)
  BY <1>1, <1>3, <1>4, <1>a DEF BlockInv, Channels, OpenFor
<1>6. PICK b : /\ b = [old EXCEPT !.holder = r, !.read = old.left]
               /\ SetRequester(c, 1, b) /\ old.holder = Nil /\ closed' = closed \cup {ch}
  BY <1>4, <1>5, <1>a DEF ReceiveBlock
<1>7. /\ b.total = old.total /\ b.left = old.left /\ b.data = old.data
      /\ b.holder = r /\ b.read = b.left
  BY <1>6 DEF Requester
<1>8. /\ Len(requesters'[c]) = 1 /\ requesters'[c][1] = b
      /\ \A d \in Conns \ {c} : requesters'[d] = requesters[d]
  BY <1>0, <1>3, <1>6, RequesterWritten
<1>9. \A d \in Conns, q \in Pieces : Holds(d, q)' <=> Holds(d, q)
  BY <1>1 DEF Holds, tableVars
<1>10. \A q \in Requests :
          \/ pc'[q] = pc[q]
          \/ q = r /\ pc[q] = "lock" /\ pc'[q] = "decrement"
  BY <1>1, <1>3
<1>11. /\ \A q \in Requests : pc'[q] \in Uncounted <=> pc[q] \in Uncounted
       /\ \A q \in Requests : pc'[q] \in Unsaved <=> pc[q] \in Unsaved
       /\ \A q \in Requests : Sent(q) => Sent(q)'
       /\ \A q \in Requests : pc'[q] \in Within => pc[q] \in Within
       /\ \A q \in Requests : pc[q] = "idle" => pc'[q] = "idle"
       /\ \A q \in Requests : pc'[q] \in {"mark", "reset", "finalize"}
                                  => pc'[q] = pc[q]
       /\ \A q \in Requests : pc[q] \in {"save", "count", "wait", "reset", "mark"}
                                  => pc'[q] = pc[q]
       /\ \A q \in Requests : pc'[q] \in {"sent", "recv", "lock"} => pc[q] = pc'[q]
  BY <1>10 DEF Unsaved, Uncounted, Unanswered, Within, Sent
<1>12. OneHeld' /\ Phases' /\ Sending' /\ AllSaved'
  <2>1. \A k \in Handlers :
           /\ pc'[k] = "request" => pc[k] = "request" /\ inHand'[k] = inHand[k]
           /\ pc'[k] \in Between => pc[k] \in Between
    BY <1>1, <1>3 DEF Between
  <2>2. \A q \in Requests :
           pc'[q] \in {"reset", "mark"} =>
               \A i \in Indices : pc[Req(q.conn, q.piece, i)] \notin Unsaved
    BY <1>11 DEF BlockInv, AllSaved
  <2> QED
    BY <1>1, <1>11, <2>1, <2>2, TableFrame
<1>13. OneRequester'
  <2>1. \A d \in Conns : Len(requesters'[d]) = Len(requesters[d])
    BY <1>3, <1>8
  <2>2. \A a \in Announcements : a.conn \in Conns
    BY <1>3, HandlerConn
  <2> QED
    BY <1>3, <1>9, <2>1, <2>2 DEF BlockInv, OneRequester
<1>14. Channels'
  <2> DEFINE d(q) == requesters[q.conn][1].data[q.blk]
  <2>1. ASSUME NEW q \in Requests, q.try = 1, pc'[q] \in {"sent", "recv", "lock"}
        PROVE  OpenFor(q, d(q))'
    <3>1. q # r /\ q.conn \in Conns /\ pc[q] \in {"sent", "recv", "lock"}
      BY <1>3, <1>11, <2>1
    <3>2. OpenFor(q, d(q)) /\ d(q)' = d(q)
      BY <1>4, <1>7, <1>8, <2>1, <3>1 DEF BlockInv, Channels
    <3>3. d(q) # ch
      <4>1. CASE q.conn # c
        BY <1>5, <1>a, <3>2, <4>1 DEF OpenFor
      <4>2. CASE q.conn = c
        <5>1. q = Req(c, q.piece, q.blk) /\ Holds(c, q.piece)
          BY <2>1, <3>1, <4>2, SentFacts DEF BlockInv, Phases, Within, Holds
        <5>2. q.piece = r.piece
          BY <1>0, <1>3, <5>1, ReqFacts
        <5>3. q.blk # r.blk
          BY <1>3, <3>1, <5>1, <5>2
        <5> QED
          BY <1>5, <3>2, <5>3 DEF OpenFor
      <4> QED
        BY <4>1, <4>2
    <3>4. ASSUME NEW x, OpenFor(q, x), x # ch, d(q)' = x PROVE OpenFor(q, d(q))'
      BY <1>6, <1>11, <3>4 DEF OpenFor
    <3> QED
      BY <3>2, <3>3, <3>4
  <2>2. \A q \in closed' : Sent(q)'
    <3>1. (\A q \in closed : Sent(q)) /\ Sent(ch)
      BY <1>5 DEF BlockInv, Channels, OpenFor
    <3>2. closed' = closed \cup {ch} /\ closed' \subseteq Requests
      BY <1>0, <1>5, <1>6
    <3> QED
      BY <1>11, <3>1, <3>2
  <2> QED
    BY <2>1, <2>2 DEF Channels
<1>15. Locks'
  <2>1. ASSUME NEW q \in Requests, pc'[q] = "decrement"
        PROVE  /\ requesters'[q.conn][1].holder = q
               /\ requesters'[q.conn][1].read = requesters'[q.conn][1].left
    <3>1. CASE q = r
      BY <1>a, <1>7, <1>8, <3>1
    <3>2. CASE q # r
      <4>1. q.conn \in Conns /\ pc[q] = "decrement"
        BY <1>3, <2>1, <3>2
      <4>2. /\ requesters[q.conn][1].holder = q
            /\ requesters[q.conn][1].read = requesters[q.conn][1].left
        BY <4>1 DEF BlockInv, Locks
      <4>3. q.conn # c
        BY <1>4, <1>6, <4>2, NilAssumption
      <4> QED
        BY <1>8, <4>1, <4>2, <4>3
    <3> QED
      BY <3>1, <3>2
  <2>2. ASSUME NEW d \in Conns, Len(requesters'[d]) = 1, requesters'[d][1].holder # Nil
        PROVE  /\ requesters'[d][1].holder.conn = d
               /\ pc'[requesters'[d][1].holder] = "decrement"
    <3>1. CASE d = c
      BY <1>3, <1>7, <1>8, <1>a, <3>1
    <3>2. CASE d # c
      <4>1. requesters'[d] = requesters[d]
        BY <1>8, <3>2
      <4>2. requesters[d][1].holder \in Requests
        BY <1>0, <2>2, <4>1, RequesterFields, TheRequester
      <4>3. requesters[d][1].holder.conn = d /\ pc[requesters[d][1].holder] = "decrement"
        BY <2>2, <4>1 DEF BlockInv, Locks
      <4> QED
        BY <1>10, <4>1, <4>2, <4>3
    <3> QED
      BY <3>1, <3>2
  <2> QED
    BY <2>1, <2>2 DEF Locks
<1>16. Countdown'
  <2>1. \A d \in Conns, q \in Pieces : Counted(d, q)' = Counted(d, q)
    BY <1>0, <1>11, ReqFacts DEF Counted
  <2>2. \A d \in Conns : Marking(d)' <=> Marking(d)
    BY <1>11 DEF Marking
  <2>3. \A d \in Conns :
           /\ Len(requesters'[d]) = Len(requesters[d])
           /\ requesters'[d][1].total = requesters[d][1].total
           /\ requesters'[d][1].left = requesters[d][1].left
    BY <1>3, <1>4, <1>7, <1>8
  <2> QED
    BY <1>9, <2>1, <2>2, <2>3 DEF BlockInv, Countdown
<1>17. Noticed'
  BY <1>9, <1>11, NoticedFrame
<1>18. Saved' /\ Assembled'
  BY <1>1, <1>11, FileFrame DEF tableVars
<1> QED
  BY <1>12, <1>13, <1>14, <1>15, <1>16, <1>17, <1>18 DEF BlockInv

LEMMA CountedFinite ==
    ASSUME PacedNetwork, NEW c, NEW p
    PROVE  /\ IsFiniteSet(Counted(c, p)) /\ Cardinality(Counted(c, p)) \in Nat
           /\ IsFiniteSet(Indices) /\ Cardinality(Indices) = K
           /\ Cardinality(Counted(c, p)) = K => Counted(c, p) = Indices
<1>1. K \in Nat \ {0}
  BY PieceSize
<1>2. IsFiniteSet(Indices) /\ Cardinality(Indices) = K
  <2>1. 0 \in Int /\ K - 1 \in Int /\ ~(0 > K - 1) /\ (K - 1) - 0 + 1 = K
    BY <1>1
  <2> QED
    BY <2>1, FS_Interval DEF Indices
<1>3. Counted(c, p) \subseteq Indices
  BY DEF Counted
<1> QED
  BY <1>2, <1>3, FS_Subset, FS_CardinalityType

LEMMA DecrementBlocks ==
    ASSUME Context, BlockInv, NEW r \in Requests, DecrementLeft(r)
    PROVE  BlockInv'
<1>0. /\ requesters \in [Conns -> Seq(Requester)] /\ PacedNetwork
      /\ closed \subseteq Requests /\ K \in Nat \ {0}
  BY PieceSize DEF Context, RequesterInv, TypeCore
<1>1. /\ pc[r] = "decrement" /\ pc' = [pc EXCEPT ![r] = "save"]
      /\ UNCHANGED <<tableVars, closed, nextBlock, fileVars, inHand>>
  BY DEF DecrementLeft, Goto, localVars
<1>2. pc[r] \in Within \ {"ask", "sent"}
  BY <1>1 DEF Within
<1>a. PICK c \in Conns : c = r.conn
  BY <1>0, ReqFacts
<1>b. PICK p \in Pieces : p = r.piece
  BY <1>0, ReqFacts
<1>3. /\ Len(requesters[c]) = 1 /\ r.blk \in Indices /\ r = Req(c, p, r.blk)
      /\ Holds(c, p) /\ \A q \in Pieces : Holds(c, q) => q = p
      /\ pc'[r] = "save" /\ \A k \in Handlers \ {r} : pc'[k] = pc[k]
      /\ \A q \in Requests \ {r} : q \in Handlers /\ q.conn \in Conns /\ pc'[q] = pc[q]
      /\ \A a \in Announcements : a \in Handlers /\ a # r /\ pc'[a] = pc[a]
      /\ \A q \in Requests \ {r} :
            q.conn = c => pc[q] \in {"idle", "ask", "sent", "request", "hung", "end"}
  BY <1>1, <1>2, <1>a, <1>b, AloneStep
<1>4. PICK old \in Requester : old = requesters[c][1]
  BY <1>0, <1>3, TheRequester
<1>5. /\ old.holder = r /\ old.read = old.left /\ old.left \in Int
      /\ SetRequester(c, 1, [old EXCEPT !.left = old.read - 1, !.holder = Nil, !.read = 0])
  <2>1. DOMAIN requesters[c] = {1}
    <3>1. DOMAIN requesters[c] = 1 .. 1
      BY <1>0, <1>3, LenProperties
    <3> QED
      BY <3>1
  <2>2. old.holder = r /\ old.read = old.left
    BY <1>1, <1>4, <1>a DEF BlockInv, Locks
  <2>3. SetRequester(c, 1, [old EXCEPT !.left = old.read - 1, !.holder = Nil, !.read = 0])
    BY <1>4, <1>a, <2>1 DEF DecrementLeft, LeftAfter
  <2> QED
    BY <2>2, <2>3, RequesterFields
<1>6. PICK b : /\ b = [old EXCEPT !.left = old.read - 1, !.holder = Nil, !.read = 0]
               /\ SetRequester(c, 1, b)
  BY <1>5
<1>7. /\ b.total = old.total /\ b.left = old.left - 1 /\ b.data = old.data
      /\ b.holder = Nil
  BY <1>5, <1>6 DEF Requester
<1>8. /\ Len(requesters'[c]) = 1 /\ requesters'[c][1] = b
      /\ \A d \in Conns \ {c} : requesters'[d] = requesters[d]
  BY <1>0, <1>3, <1>6, RequesterWritten
<1>9. \A d \in Conns, q \in Pieces : Holds(d, q)' <=> Holds(d, q)
  BY <1>1 DEF Holds, tableVars
<1>10. \A q \in Requests :
          \/ pc'[q] = pc[q] /\ q # r
          \/ q = r /\ pc[q] = "decrement" /\ pc'[q] = "save"
  BY <1>1, <1>3
<1>11. /\ \A q \in Requests \ {r} : pc'[q] \in Uncounted <=> pc[q] \in Uncounted
       /\ pc[r] \in Uncounted /\ pc'[r] \notin Uncounted
       /\ \A q \in Requests : pc'[q] \in Unsaved <=> pc[q] \in Unsaved
       /\ \A q \in Requests : Sent(q) => Sent(q)'
       /\ \A q \in Requests : pc'[q] \in Within => pc[q] \in Within
       /\ \A q \in Requests : pc[q] = "idle" => pc'[q] = "idle"
       /\ \A q \in Requests : pc'[q] \in {"mark", "reset", "finalize"}
                                  => pc'[q] = pc[q]
       /\ \A q \in Requests : pc[q] \in {"save", "count", "wait", "reset", "mark"}
                                  => pc'[q] = pc[q]
       /\ \A q \in Requests : pc'[q] \in {"sent", "recv", "lock"} => pc[q] = pc'[q]
  BY <1>10 DEF Unsaved, Uncounted, Unanswered, Within, Sent
<1>12. OneHeld' /\ Phases' /\ Sending' /\ AllSaved'
  <2>1. \A k \in Handlers :
           /\ pc'[k] = "request" => pc[k] = "request" /\ inHand'[k] = inHand[k]
           /\ pc'[k] \in Between => pc[k] \in Between
    BY <1>1, <1>3 DEF Between
  <2>2. \A q \in Requests :
           pc'[q] \in {"reset", "mark"} =>
               \A i \in Indices : pc[Req(q.conn, q.piece, i)] \notin Unsaved
    BY <1>11 DEF BlockInv, AllSaved
  <2> QED
    BY <1>1, <1>11, <2>1, <2>2, TableFrame
<1>13. OneRequester'
  <2>1. \A d \in Conns : Len(requesters'[d]) = Len(requesters[d])
    BY <1>3, <1>8
  <2>2. \A a \in Announcements : a.conn \in Conns
    BY <1>3, HandlerConn
  <2> QED
    BY <1>3, <1>9, <2>1, <2>2 DEF BlockInv, OneRequester
<1>14. Channels'
  <2>1. ASSUME NEW q \in Requests, pc'[q] \in {"sent", "recv", "lock"}
        PROVE  requesters'[q.conn][1].data[q.blk] = requesters[q.conn][1].data[q.blk]
    <3>1. q # r /\ q.conn \in Conns
      BY <1>3, <2>1
    <3> QED
      BY <1>4, <1>7, <1>8, <3>1
  <2> QED
    BY <1>0, <1>1, <1>11, <2>1, ChannelsFrame DEF BlockInv
<1>15. Locks'
  <2>1. ASSUME NEW q \in Requests, pc'[q] = "decrement"
        PROVE  /\ requesters'[q.conn][1].holder = q
               /\ requesters'[q.conn][1].read = requesters'[q.conn][1].left
    <3>1. q # r /\ q.conn \in Conns /\ pc[q] = "decrement" /\ q.conn # c
      BY <1>3, <2>1
    <3> QED
      BY <1>8, <3>1 DEF BlockInv, Locks
  <2>2. ASSUME NEW d \in Conns, Len(requesters'[d]) = 1, requesters'[d][1].holder # Nil
        PROVE  /\ requesters'[d][1].holder.conn = d
               /\ pc'[requesters'[d][1].holder] = "decrement"
    <3>1. d # c
      BY <1>7, <1>8, <2>2
    <3>2. requesters'[d] = requesters[d]
      BY <1>8, <3>1
    <3>3. requesters[d][1].holder \in Requests
      BY <1>0, <2>2, <3>2, RequesterFields, TheRequester
    <3>4. requesters[d][1].holder.conn = d /\ pc[requesters[d][1].holder] = "decrement"
      BY <2>2, <3>2 DEF BlockInv, Locks
    <3>5. requesters[d][1].holder # r
      BY <1>a, <3>1, <3>4
    <3> QED
      BY <1>10, <3>2, <3>3, <3>4, <3>5
  <2> QED
    BY <2>1, <2>2 DEF Locks
<1>16. Countdown'
  <2>1. \A d \in Conns : Marking(d)' <=> Marking(d)
    BY <1>11 DEF Marking
  <2>2. ~Marking(c)
    BY <1>1, <1>3 DEF Marking
  <2>3. old.total = K /\ old.left = K - Cardinality(Counted(c, p))
    BY <1>3, <1>4, <2>2 DEF BlockInv, Countdown
  <2>4. Counted(c, p)' = Counted(c, p) \cup {r.blk} /\ r.blk \notin Counted(c, p)
    <3>1. \A i \in Indices : Req(c, p, i) \in Requests /\ Req(c, p, i).blk = i
      BY <1>0, ReqFacts
    <3>2. \A i \in Indices \ {r.blk} : Req(c, p, i) # r
      BY <3>1
    <3> QED
      BY <1>3, <1>11, <3>1, <3>2 DEF Counted
  <2>5. Cardinality(Counted(c, p)') = Cardinality(Counted(c, p)) + 1
        /\ Cardinality(Counted(c, p)) \in Nat
    BY <1>0, <2>4, CountedFinite, FS_AddElement
  <2>6. b.left = K - Cardinality(Counted(c, p)')
    BY <1>0, <1>7, <2>3, <2>5
  <2>7. ASSUME NEW d \in Conns, Len(requesters'[d]) = 1
        PROVE  /\ requesters'[d][1].total = K
               /\ Marking(d)' => requesters'[d][1].left = K
               /\ (\A q \in Pieces : ~Holds(d, q)') => requesters'[d][1].left = K
               /\ \A q \in Pieces : Holds(d, q)' /\ ~Marking(d)' =>
                     requesters'[d][1].left = K - Cardinality(Counted(d, q)')
    <3>1. CASE d = c
      <4>1. (\A q \in Pieces : Holds(d, q)' => q = p) /\ Holds(d, p)'
        BY <1>3, <1>9, <3>1
      <4> QED
        BY <1>7, <1>8, <2>1, <2>2, <2>3, <2>6, <3>1, <4>1
    <3>2. CASE d # c
      <4>1. \A q \in Pieces : Counted(d, q)' = Counted(d, q)
        <5>1. \A q \in Pieces, i \in Indices :
                 Req(d, q, i) \in Requests /\ Req(d, q, i).conn = d
          BY <1>0, ReqFacts
        <5>2. \A q \in Pieces, i \in Indices : Req(d, q, i) \in Requests \ {r}
          BY <1>a, <3>2, <5>1
        <5> QED
          BY <1>11, <5>2 DEF Counted
      <4> QED
        BY <1>8, <1>9, <2>1, <2>7, <3>2, <4>1 DEF BlockInv, Countdown
    <3> QED
      BY <3>1, <3>2
  <2> QED
    BY <2>7 DEF Countdown
<1>17. Noticed'
  <2> SUFFICES ASSUME NEW d \in Conns, NEW q \in Pieces, Holds(d, q)',
                      \A i \in Indices : pc'[Req(d, q, i)] \notin Uncounted
               PROVE  \E x \in Requests :
                         x.conn = d /\ pc'[x] \in {"save", "count", "wait", "reset", "mark"}
    BY DEF Noticed
  <2>1. CASE d = c
    BY <1>3, <1>a, <2>1
  <2>2. CASE d # c
    <3>1. \A i \in Indices : Req(d, q, i) \in Requests /\ Req(d, q, i).conn = d
      BY <1>0, ReqFacts
    <3>2. \A i \in Indices : Req(d, q, i) \in Requests \ {r}
      BY <1>a, <2>2, <3>1
    <3>3. PICK x \in Requests : x.conn = d /\ pc[x] \in {"save", "count", "wait", "reset", "mark"}
      BY <1>9, <1>11, <3>2 DEF BlockInv, Noticed
    <3> QED
      BY <1>11, <3>3
  <2> QED
    BY <2>1, <2>2
<1>18. Saved' /\ Assembled'
  BY <1>1, <1>11, FileFrame DEF tableVars
<1> QED
  BY <1>12, <1>13, <1>14, <1>15, <1>16, <1>17, <1>18 DEF BlockInv

(* An answer always finds its channel, open. *)
LEMMA ChannelIsThere ==
    ASSUME Context, BlockInv, NEW r \in Requests, pc[r] = "lock"
    PROVE  /\ Looked(r).data[r.blk] # Nil
           /\ Looked(r).data[r.blk] \notin closed
<1>1. OneRequester /\ pc[r] \notin {"idle", "sent"}
  BY DEF BlockInv
<1>2. Looked(r) = requesters[r.conn][1] /\ r.try = 1
  BY <1>1, SentFacts, LooksAtTheOne
<1>3. OpenFor(r, Looked(r).data[r.blk])
  BY <1>2 DEF BlockInv, Channels
<1> QED
  BY <1>3, NilAssumption DEF OpenFor

LEMMA SaveBlocks ==
    ASSUME Context, BlockInv, NEW r \in Requests, SaveBlock(r)
    PROVE  BlockInv'
<1>0. PacedNetwork
  BY DEF Context
<1>1. /\ pc[r] = "save" /\ pc' = [pc EXCEPT ![r] = "count"]
      /\ disk' = disk \cup {BlockOf(r)}
      /\ UNCHANGED <<tableVars, requesters, closed, nextBlock, inHand, final, assembled>>
  BY DEF SaveBlock, Goto, localVars
<1>2. pc[r] \in Within \ {"ask", "sent"}
  BY <1>1 DEF Within
<1>3. /\ pc'[r] = "count" /\ \A k \in Handlers \ {r} : pc'[k] = pc[k]
      /\ \A q \in Requests \ {r} : pc'[q] = pc[q]
      /\ \A a \in Announcements : pc'[a] = pc[a]
  BY <1>1, <1>2, AloneStep
<1>4. /\ \A q \in Requests : pc'[q] \in Uncounted <=> pc[q] \in Uncounted
      /\ \A q \in Requests : pc'[q] \in Unsaved => pc[q] \in Unsaved
      /\ \A q \in Requests : pc'[q] \notin Unsaved <=> pc[q] \notin Unsaved \/ q = r
      /\ \A q \in Requests : Sent(q) => Sent(q)'
      /\ \A q \in Requests : pc'[q] \in Within => pc[q] \in Within
      /\ \A q \in Requests : pc[q] = "idle" => pc'[q] = "idle"
      /\ \A q \in Requests : pc'[q] \in {"sent", "recv", "lock"} => pc[q] \in {"sent", "recv", "lock"}
      /\ \A q \in Requests : pc'[q] = "decrement" <=> pc[q] = "decrement"
      /\ \A q \in Requests : pc'[q] = "mark" <=> pc[q] = "mark"
      /\ \A q \in Requests : pc'[q] \in {"reset", "mark"} => pc[q] \in {"reset", "mark"}
      /\ \A q \in Requests : pc'[q] = "finalize" => pc[q] = "finalize"
      /\ \A q \in Requests : pc[q] \in {"save", "count", "wait", "reset", "mark"}
                                 => pc'[q] \in {"save", "count", "wait", "reset", "mark"}
  BY <1>1, <1>3 DEF Unsaved, Uncounted, Unanswered, Within, Sent
<1>5. OneHeld' /\ Phases' /\ Sending' /\ AllSaved'
  <2>1. \A k \in Handlers :
           /\ pc'[k] = "request" => pc[k] = "request" /\ inHand'[k] = inHand[k]
           /\ pc'[k] \in Between => pc[k] \in Between
    BY <1>1, <1>3 DEF Between
  <2>2. \A q \in Requests :
           pc'[q] \in {"reset", "mark"} =>
               \A i \in Indices : pc[Req(q.conn, q.piece, i)] \notin Unsaved
    BY <1>4 DEF BlockInv, AllSaved
  <2> QED
    BY <1>1, <1>4, <2>1, <2>2, TableFrame
<1>6. OneRequester' /\ Channels' /\ Locks' /\ Countdown'
  BY <1>1, <1>3, <1>4, RequesterFrame
<1>7. Noticed'
  BY <1>1, <1>4, NoticedFrame DEF Holds, tableVars
<1>8. Saved'
  <2>1. \A q \in Requests : BlockOf(q)' = BlockOf(q)
    BY DEF BlockOf
  <2>2. \A x \in Blocks :
           x \in disk \cup final <=>
               \E q \in Requests : BlockOf(q) = x /\ pc[q] \notin Unsaved
    BY DEF BlockInv, Saved
  <2>3. \A x \in Blocks :
           x \in disk' \cup final' <=>
               \E q \in Requests : BlockOf(q) = x /\ pc'[q] \notin Unsaved
    <3>1. \A x : x \in disk' \cup final' <=> x \in disk \cup final \/ x = BlockOf(r)
      BY <1>1
    <3> QED
      BY <1>4, <2>2, <3>1
  <2> QED
    BY <2>1, <2>3 DEF Saved
<1>9. Assembled'
  BY <1>1, <1>4 DEF BlockInv, Assembled, tableVars
<1> QED
  BY <1>5, <1>6, <1>7, <1>8, <1>9 DEF BlockInv

(* blocksLeft is zero exactly when the last block of the piece has come. *)
LEMMA CountBlocks ==
    ASSUME Context, BlockInv, NEW r \in Requests, CountLeft(r)
    PROVE  BlockInv'
<1>0. PacedNetwork /\ requesters \in [Conns -> Seq(Requester)] /\ K \in Nat \ {0}
  BY PieceSize DEF Context, RequesterInv, TypeCore
<1>a. PICK c \in Conns : c = r.conn
  BY <1>0, ReqFacts
<1>b. PICK p \in Pieces : p = r.piece
  BY <1>0, ReqFacts
<1>c. PICK to \in {"reset", "end"} : to = IF NothingLeft(Looked(r)) THEN "reset" ELSE "end"
  OBVIOUS
<1>1. /\ pc[r] = "wait" /\ pc' = [pc EXCEPT ![r] = to]
      /\ UNCHANGED <<tableVars, requesters, closed, nextBlock, inHand, fileVars>>
  BY <1>c DEF CountLeft, Goto, localVars
<1>2. pc[r] \in Within \ {"ask", "sent"}
  BY <1>1 DEF Within
<1>3. /\ pc'[r] = to /\ \A k \in Handlers \ {r} : pc'[k] = pc[k]
      /\ \A q \in Requests \ {r} : q \in Handlers /\ pc'[q] = pc[q]
      /\ \A a \in Announcements : pc'[a] = pc[a]
      /\ Len(requesters[c]) = 1 /\ Holds(c, p) /\ \A q \in Pieces : Holds(c, q) => q = p
      /\ \A k \in Handlers \ {r} :
            k.conn = c => pc[k] \in {"idle", "ask", "sent", "request", "hung", "end"}
  BY <1>1, <1>2, <1>a, <1>b, AloneStep
<1>4. /\ \A q \in Requests : pc'[q] \in Uncounted <=> pc[q] \in Uncounted
      /\ \A q \in Requests : pc'[q] \in Unsaved <=> pc[q] \in Unsaved
      /\ \A q \in Requests : Sent(q) => Sent(q)'
      /\ \A q \in Requests : pc'[q] \in Within => pc[q] \in Within
      /\ \A q \in Requests : pc[q] = "idle" => pc'[q] = "idle"
      /\ \A q \in Requests : pc'[q] \in {"sent", "recv", "lock"} => pc[q] \in {"sent", "recv", "lock"}
      /\ \A q \in Requests : pc'[q] = "decrement" <=> pc[q] = "decrement"
      /\ \A q \in Requests : pc'[q] = "mark" <=> pc[q] = "mark"
      /\ \A q \in Requests \ {r} : pc'[q] \in {"reset", "mark"} => pc[q] \in {"reset", "mark"}
      /\ \A q \in Requests : pc'[q] = "finalize" => pc[q] = "finalize"
  BY <1>1, <1>3 DEF Unsaved, Uncounted, Unanswered, Within, Sent
<1>5. to = "reset" <=> \A i \in Indices : pc[Req(c, p, i)] \notin Uncounted
  <2>1. to = "reset" <=> requesters[c][1].left = 0
    <3>1. Looked(r) = requesters[c][1]
      BY <1>1, <1>a, LooksAtTheOne DEF BlockInv
    <3> QED
      BY <1>c, <3>1 DEF NothingLeft
  <2>2. ~Marking(c)
    BY <1>1, <1>3 DEF Marking
  <2>3. requesters[c][1].left = K - Cardinality(Counted(c, p))
    BY <1>3, <2>2 DEF BlockInv, Countdown
  <2>4. /\ Cardinality(Counted(c, p)) \in Nat
        /\ Cardinality(Counted(c, p)) = K <=> Counted(c, p) = Indices
    BY <1>0, CountedFinite
  <2>5. requesters[c][1].left = 0 <=> Counted(c, p) = Indices
    BY <1>0, <2>3, <2>4
  <2>6. Counted(c, p) = Indices <=> \A i \in Indices : pc[Req(c, p, i)] \notin Uncounted
    BY DEF Counted
  <2> QED
    BY <2>1, <2>5, <2>6
<1>6. OneHeld' /\ Phases' /\ Sending' /\ AllSaved'
  <2>1. \A k \in Handlers :
           /\ pc'[k] = "request" => pc[k] = "request" /\ inHand'[k] = inHand[k]
           /\ pc'[k] \in Between => pc[k] \in Between
    BY <1>1, <1>3 DEF Between
  <2>2. ASSUME NEW q \in Requests, pc'[q] \in {"reset", "mark"}
        PROVE  \A i \in Indices : pc[Req(q.conn, q.piece, i)] \notin Unsaved
    <3>1. CASE q = r
      <4>1. \A i \in Indices : pc[Req(c, p, i)] \notin Uncounted
        BY <1>3, <1>5, <2>2, <3>1
      <4>2. \A i \in Indices : Req(c, p, i) \in Handlers /\ Req(c, p, i).conn = c
        BY <1>0, ReqFacts
      <4>3. \A i \in Indices : pc[Req(c, p, i)] # "save"
        BY <1>1, <1>3, <4>2
      <4> QED
        BY <1>a, <1>b, <3>1, <4>1, <4>3 DEF Unsaved
    <3>2. CASE q # r
      BY <1>4, <2>2, <3>2 DEF BlockInv, AllSaved
    <3> QED
      BY <3>1, <3>2
  <2> QED
    BY <1>1, <1>4, <2>1, <2>2, TableFrame
<1>7. OneRequester' /\ Channels' /\ Locks' /\ Countdown'
  BY <1>1, <1>3, <1>4, RequesterFrame
<1>8. Noticed'
  <2> SUFFICES ASSUME NEW d \in Conns, NEW q \in Pieces, Holds(d, q)',
                      \A i \in Indices : pc'[Req(d, q, i)] \notin Uncounted
               PROVE  \E x \in Requests :
                         x.conn = d /\ pc'[x] \in {"save", "count", "wait", "reset", "mark"}
    BY DEF Noticed
  <2>0. Holds(d, q) /\ \A i \in Indices : pc[Req(d, q, i)] \notin Uncounted
    <3>1. \A i \in Indices : Req(d, q, i) \in Requests
      BY <1>0, ReqFacts
    <3> QED
      BY <1>1, <1>4, <3>1 DEF Holds, tableVars
  <2>1. CASE d = c
    <3>1. pc'[r] = "reset"
      BY <1>3, <1>5, <2>0, <2>1
    <3> QED
      BY <1>a, <2>1, <3>1
  <2>2. CASE d # c
    <3>1. PICK x \in Requests : x.conn = d /\ pc[x] \in {"save", "count", "wait", "reset", "mark"}
      BY <2>0 DEF BlockInv, Noticed
    <3> QED
      BY <1>3, <1>a, <2>2, <3>1
  <2> QED
    BY <2>1, <2>2
<1>9. Saved' /\ Assembled'
  BY <1>1, <1>4, FileFrame DEF tableVars
<1> QED
  BY <1>6, <1>7, <1>8, <1>9 DEF BlockInv

LEMMA ResetBlocks ==
    ASSUME Context, BlockInv, NEW r \in Requests, ResetLeft(r)
    PROVE  BlockInv'
<1>0. PacedNetwork /\ requesters \in [Conns -> Seq(Requester)] /\ closed \subseteq Requests
  BY DEF Context, RequesterInv, TypeCore
<1>a. PICK c \in Conns : c = r.conn
  BY <1>0, ReqFacts
<1>1. /\ pc[r] = "reset" /\ pc' = [pc EXCEPT ![r] = "mark"]
      /\ UNCHANGED <<tableVars, closed, nextBlock, inHand, fileVars>>
  BY DEF ResetLeft, Goto, localVars
<1>2. pc[r] \in Within \ {"ask", "sent"}
  BY <1>1 DEF Within
<1>3. /\ pc'[r] = "mark" /\ \A k \in Handlers \ {r} : pc'[k] = pc[k]
      /\ \A q \in Requests \ {r} : q \in Handlers /\ q.conn \in Conns /\ pc'[q] = pc[q]
      /\ \A a \in Announcements : a \in Handlers /\ pc'[a] = pc[a]
      /\ Len(requesters[c]) = 1
      /\ \A k \in Handlers \ {r} :
            k.conn = c => pc[k] \in {"idle", "ask", "sent", "request", "hung", "end"}
  BY <1>1, <1>2, <1>a, AloneStep
<1>4. PICK old \in Requester : old = requesters[c][1] /\ old = Current(c)
  BY <1>0, <1>3, TheRequester
<1>5. PICK b : b = [old EXCEPT !.left = old.total] /\ SetRequester(c, 1, b)
  BY <1>3, <1>4, <1>a DEF ResetLeft, SetCurrent, LeftReset
<1>6. /\ b.total = old.total /\ b.left = old.total /\ b.data = old.data
      /\ b.holder = old.holder
  BY <1>5 DEF Requester
<1>7. /\ Len(requesters'[c]) = 1 /\ requesters'[c][1] = b
      /\ \A d \in Conns \ {c} : requesters'[d] = requesters[d]
  BY <1>0, <1>3, <1>5, RequesterWritten
<1>8. \A d \in Conns, q \in Pieces : Holds(d, q)' <=> Holds(d, q)
  BY <1>1 DEF Holds, tableVars
<1>9. /\ \A q \in Requests : pc'[q] \in Uncounted <=> pc[q] \in Uncounted
      /\ \A q \in Requests : pc'[q] \in Unsaved <=> pc[q] \in Unsaved
      /\ \A q \in Requests : Sent(q) => Sent(q)'
      /\ \A q \in Requests : pc'[q] \in Within => pc[q] \in Within
      /\ \A q \in Requests : pc[q] = "idle" => pc'[q] = "idle"
      /\ \A q \in Requests : pc'[q] \in {"sent", "recv", "lock"} => pc[q] \in {"sent", "recv", "lock"}
      /\ \A q \in Requests : pc'[q] = "decrement" <=> pc[q] = "decrement"
      /\ \A q \in Requests : pc'[q] \in {"reset", "mark"} => pc[q] \in {"reset", "mark"}
      /\ \A q \in Requests : pc'[q] = "finalize" => pc[q] = "finalize"
      /\ \A q \in Requests : pc[q] \in {"save", "count", "wait", "reset", "mark"}
                                 => pc'[q] \in {"save", "count", "wait", "reset", "mark"}
  BY <1>1, <1>3 DEF Unsaved, Uncounted, Unanswered, Within, Sent
<1>10. OneHeld' /\ Phases' /\ Sending' /\ AllSaved'
  <2>1. \A k \in Handlers :
           /\ pc'[k] = "request" => pc[k] = "request" /\ inHand'[k] = inHand[k]
           /\ pc'[k] \in Between => pc[k] \in Between
    BY <1>1, <1>3 DEF Between
  <2>2. \A q \in Requests :
           pc'[q] \in {"reset", "mark"} =>
               \A i \in Indices : pc[Req(q.conn, q.piece, i)] \notin Unsaved
    BY <1>9 DEF BlockInv, AllSaved
  <2> QED
    BY <1>1, <1>9, <2>1, <2>2, TableFrame
<1>11. OneRequester'
  <2>1. \A d \in Conns : Len(requesters'[d]) = Len(requesters[d])
    BY <1>3, <1>7
  <2>2. \A a \in Announcements : a.conn \in Conns
    BY <1>3, HandlerConn
  <2> QED
    BY <1>3, <1>8, <2>1, <2>2 DEF BlockInv, OneRequester
<1>12. Channels'
  <2>1. ASSUME NEW q \in Requests, pc'[q] \in {"sent", "recv", "lock"}
        PROVE  requesters'[q.conn][1].data[q.blk] = requesters[q.conn][1].data[q.blk]
    <3>1. q # r /\ q.conn \in Conns
      BY <1>3, <2>1
    <3> QED
      BY <1>4, <1>6, <1>7, <3>1
  <2> QED
    BY <1>0, <1>1, <1>9, <2>1, ChannelsFrame DEF BlockInv
<1>13. Locks'
  <2>1. ASSUME NEW q \in Requests, pc'[q] = "decrement"
        PROVE  /\ requesters'[q.conn][1].holder = q
               /\ requesters'[q.conn][1].read = requesters'[q.conn][1].left
    <3>1. q # r /\ q.conn \in Conns /\ pc[q] = "decrement" /\ q.conn # c
      BY <1>3, <2>1
    <3> QED
      BY <1>7, <3>1 DEF BlockInv, Locks
  <2>2. ASSUME NEW d \in Conns, Len(requesters'[d]) = 1, requesters'[d][1].holder # Nil
        PROVE  /\ requesters'[d][1].holder.conn = d
               /\ pc'[requesters'[d][1].holder] = "decrement"
    <3>1. Len(requesters[d]) = 1 /\ requesters'[d][1].holder = requesters[d][1].holder
      BY <1>3, <1>4, <1>6, <1>7, <2>2
    <3>2. requesters[d][1].holder \in Requests
      BY <1>0, <2>2, <3>1, RequesterFields, TheRequester
    <3>3. requesters[d][1].holder.conn = d /\ pc[requesters[d][1].holder] = "decrement"
      BY <2>2, <3>1 DEF BlockInv, Locks
    <3> QED
      BY <1>9, <3>1, <3>2, <3>3
  <2> QED
    BY <2>1, <2>2 DEF Locks
<1>14. Countdown'
  <2>1. \A d \in Conns, q \in Pieces : Counted(d, q)' = Counted(d, q)
    BY <1>0, <1>9, ReqFacts DEF Counted
  <2>2. Marking(c)'
    BY <1>3, <1>a DEF Marking
  <2>3. \A d \in Conns \ {c} : Marking(d)' <=> Marking(d)
    BY <1>3, <1>a DEF Marking
  <2>4. old.total = K
    BY <1>3, <1>4 DEF BlockInv, Countdown
  <2>5. ASSUME NEW d \in Conns, Len(requesters'[d]) = 1
        PROVE  /\ requesters'[d][1].total = K
               /\ Marking(d)' => requesters'[d][1].left = K
               /\ (\A q \in Pieces : ~Holds(d, q)') => requesters'[d][1].left = K
               /\ \A q \in Pieces : Holds(d, q)' /\ ~Marking(d)' =>
                     requesters'[d][1].left = K - Cardinality(Counted(d, q)')
    <3>1. CASE d = c
      BY <1>6, <1>7, <2>2, <2>4, <3>1
    <3>2. CASE d # c
      BY <1>7, <1>8, <2>1, <2>3, <2>5, <3>2 DEF BlockInv, Countdown
    <3> QED
      BY <3>1, <3>2
  <2> QED
    BY <2>5 DEF Countdown
<1>15. Noticed'
  BY <1>8, <1>9, NoticedFrame
<1>16. Saved' /\ Assembled'
  BY <1>1, <1>9, FileFrame DEF tableVars
<1> QED
  BY <1>10, <1>11, <1>12, <1>13, <1>14, <1>15, <1>16 DEF BlockInv

(* The piece is released: its blocks are saved, its counter is full again. *)
LEMMA MarkBlocks ==
    ASSUME Context, BlockInv, NEW r \in Requests, MarkDone(r)
    PROVE  BlockInv'
<1>0. /\ PacedNetwork /\ requesters \in [Conns -> Seq(Requester)]
      /\ closed \subseteq Requests /\ status \in [Pieces -> Table!PieceStatus]
      /\ inHand \in [Handlers -> Pieces] /\ \A k \in Handlers : k.conn \in Conns
  BY HandlerConn DEF Context, RequesterInv, TypeCore, Table!TableTypeOK
<1>a. PICK c \in Conns : c = r.conn
  BY <1>0, ReqFacts
<1>b. PICK p \in Pieces : p = r.piece
  BY <1>0, ReqFacts
<1>1. /\ pc[r] = "mark" /\ pc' = [pc EXCEPT ![r] = "tally"]
      /\ status' = [status EXCEPT ![p] = "DONE"] /\ downloader' = downloader
      /\ UNCHANGED <<requesters, closed, nextBlock, inHand, fileVars>>
  BY <1>b DEF MarkDone, Table!MarkAsDone, Goto, localVars
<1>2. pc[r] \in Within \ {"ask", "sent"}
  BY <1>1 DEF Within
<1>3. /\ pc'[r] = "tally" /\ \A k \in Handlers \ {r} : pc'[k] = pc[k]
      /\ \A q \in Requests \ {r} : q \in Handlers /\ q.conn \in Conns /\ pc'[q] = pc[q]
      /\ \A a \in Announcements : a \in Handlers /\ pc'[a] = pc[a]
      /\ Len(requesters[c]) = 1 /\ Holds(c, p) /\ \A q \in Pieces : Holds(c, q) => q = p
      /\ \A k \in Handlers \ {r} :
            k.conn = c => pc[k] \in {"idle", "ask", "sent", "request", "hung", "end"}
  BY <1>1, <1>2, <1>a, <1>b, AloneStep
<1>4. status'[p] = "DONE" /\ \A q \in Pieces \ {p} : status'[q] = status[q]
  BY <1>0, <1>1
<1>5. /\ \A d \in Conns, q \in Pieces : Holds(d, q)' <=> Holds(d, q) /\ q # p
      /\ \A q \in Pieces : ~Holds(c, q)'
      /\ \A d \in Conns \ {c} : \A q \in Pieces : Holds(d, q)' <=> Holds(d, q)
  BY <1>1, <1>3, <1>4 DEF Holds
<1>6. /\ \A q \in Requests : pc'[q] \in Uncounted <=> pc[q] \in Uncounted
      /\ \A q \in Requests : pc'[q] \in Unsaved <=> pc[q] \in Unsaved
      /\ \A q \in Requests : Sent(q) => Sent(q)'
      /\ \A q \in Requests : pc'[q] \in Within => pc[q] \in Within /\ q # r
      /\ \A q \in Requests : pc[q] = "idle" => pc'[q] = "idle"
      /\ \A q \in Requests : pc'[q] \in {"sent", "recv", "lock"} => pc[q] \in {"sent", "recv", "lock"}
      /\ \A q \in Requests : pc'[q] = "decrement" <=> pc[q] = "decrement"
      /\ \A q \in Requests : pc'[q] \in {"reset", "mark"} => pc[q] \in {"reset", "mark"}
      /\ \A q \in Requests : pc'[q] = "finalize" => pc[q] = "finalize"
      /\ \A q \in Requests : pc[q] \in {"save", "count", "wait", "reset", "mark"}
             => pc'[q] \in {"save", "count", "wait", "reset", "mark"} \/ q = r
  BY <1>1, <1>3 DEF Unsaved, Uncounted, Unanswered, Within, Sent
<1>7. \A i \in Indices : pc[Req(c, p, i)] \notin Unsaved
  BY <1>1, <1>a, <1>b DEF BlockInv, AllSaved
<1>8. OneHeld'
  BY <1>5 DEF BlockInv, OneHeld
<1>9. Phases'
  <2>1. ASSUME NEW k \in Handlers, pc'[k] \in Between
        PROVE  \A q \in Pieces : ~Holds(k.conn, q)'
    <3>1. CASE k = r
      BY <1>5, <1>a, <3>1
    <3>2. CASE k # r
      BY <1>0, <1>3, <1>5, <2>1, <3>2 DEF BlockInv, Phases
    <3> QED
      BY <3>1, <3>2
  <2>2. ASSUME NEW q \in Requests, q.try = 1, pc'[q] \in Within
        PROVE  status'[q.piece] = "DOWNLOADING"
    <3>1. pc[q] \in Within /\ q # r /\ q.piece \in Pieces /\ OneRequester /\ pc[q] # "idle"
      BY <1>0, <1>6, <2>2, ReqFacts DEF BlockInv, Within
    <3>2. status[q.piece] = "DOWNLOADING"
      BY <2>2, <3>1 DEF BlockInv, Phases
    <3>3. CASE q.piece # p
      BY <1>4, <3>1, <3>2, <3>3
    <3>4. CASE q.piece = p
      <4>1. q = Req(q.conn, p, q.blk) /\ downloader[p] = q.conn
        BY <2>2, <3>1, <3>4, SentFacts
      <4>2. q.conn = c /\ q.blk \in Indices
        BY <1>0, <1>3, <4>1, ReqFacts DEF Holds
      <4>3. pc[q] \notin Unsaved
        BY <1>7, <4>1, <4>2
      <4>4. pc[q] \in {"idle", "ask", "sent", "request", "hung", "end"}
        BY <1>3, <3>1, <4>2
      <4> QED
        BY <3>1, <4>3, <4>4 DEF Within, Unsaved, Uncounted, Unanswered
    <3> QED
      BY <3>3, <3>4
  <2> QED
    BY <2>1, <2>2 DEF Phases
<1>10. Sending'
  <2> SUFFICES ASSUME NEW h \in Handlers, pc'[h] = "request"
               PROVE  /\ status'[inHand'[h]] = "DOWNLOADING"
                      /\ nextBlock'[h] \in Indices
                      /\ \A i \in Indices : i >= nextBlock'[h] =>
                            pc'[Req(h.conn, inHand'[h], i)] = "idle"
                      /\ \A k \in Handlers :
                            k.conn = h.conn /\ pc'[k] = "request" => k = h
    BY DEF Sending
  <2>1. h # r /\ pc[h] = "request" /\ h.conn \in Conns /\ inHand[h] \in Pieces
    BY <1>0, <1>3
  <2>2. /\ status[inHand[h]] = "DOWNLOADING" /\ nextBlock[h] \in Indices
        /\ \A i \in Indices : i >= nextBlock[h] => pc[Req(h.conn, inHand[h], i)] = "idle"
        /\ \A k \in Handlers : k.conn = h.conn /\ pc[k] = "request" => k = h
    BY <2>1 DEF BlockInv, Sending
  <2>3. pc[Req(h.conn, inHand[h], nextBlock[h])] = "idle"
    <3>1. nextBlock[h] >= nextBlock[h]
      BY <2>2 DEF Indices
    <3> QED
      BY <2>2, <3>1
  <2>4. downloader[inHand[h]] = h.conn
    BY <2>1 DEF Context, Reservations, RequesterHolds
  <2>5. inHand[h] # p
    BY <1>3, <1>7, <2>2, <2>3, <2>4 DEF Holds, Unsaved, Uncounted, Unanswered
  <2>6. \A i \in Indices : Req(h.conn, inHand[h], i) \in Requests
    BY <1>0, <2>1, ReqFacts
  <2>7. \A i \in Indices : i >= nextBlock[h] => pc'[Req(h.conn, inHand[h], i)] = "idle"
    BY <1>6, <2>2, <2>6
  <2>8. \A k \in Handlers : pc'[k] = "request" => pc[k] = "request"
    BY <1>3
  <2> QED
    BY <1>1, <1>4, <2>1, <2>2, <2>5, <2>7, <2>8
<1>11. OneRequester'
  BY <1>1, <1>3, <1>5 DEF BlockInv, OneRequester
<1>12. Channels'
  BY <1>0, <1>1, <1>6, ChannelsFrame DEF BlockInv
<1>13. Locks'
  <2>1. \A d \in Conns : Len(requesters[d]) = 1 =>
           requesters[d][1].holder \in Requests \cup {Nil}
    BY <1>0, RequesterFields, TheRequester
  <2> QED
    BY <1>1, <1>6, <2>1 DEF BlockInv, Locks
<1>14. Countdown'
  <2>1. \A d \in Conns, q \in Pieces : Counted(d, q)' = Counted(d, q)
    BY <1>0, <1>6, ReqFacts DEF Counted
  <2>2. \A d \in Conns \ {c} : Marking(d)' <=> Marking(d)
    BY <1>3, <1>a DEF Marking
  <2>3. Marking(c)
    BY <1>1, <1>a DEF Marking
  <2>4. ASSUME NEW d \in Conns, Len(requesters'[d]) = 1
        PROVE  /\ requesters'[d][1].total = K
               /\ Marking(d)' => requesters'[d][1].left = K
               /\ (\A q \in Pieces : ~Holds(d, q)') => requesters'[d][1].left = K
               /\ \A q \in Pieces : Holds(d, q)' /\ ~Marking(d)' =>
                     requesters'[d][1].left = K - Cardinality(Counted(d, q)')
    <3>1. CASE d = c
      BY <1>1, <1>3, <1>5, <2>3, <3>1 DEF BlockInv, Countdown
    <3>2. CASE d # c
      BY <1>1, <1>5, <2>1, <2>2, <2>4, <3>2 DEF BlockInv, Countdown
    <3> QED
      BY <3>1, <3>2
  <2> QED
    BY <2>4 DEF Countdown
<1>15. AllSaved'
  <2>1. \A d \in Conns, q \in Pieces, i \in Indices : Req(d, q, i) \in Requests
    BY <1>0, ReqFacts
  <2>2. ASSUME NEW q \in Requests, pc'[q] \in {"reset", "mark"}
        PROVE  \A i \in Indices : pc'[Req(q.conn, q.piece, i)] \notin Unsaved
    <3>1. \A i \in Indices : pc[Req(q.conn, q.piece, i)] \notin Unsaved
      BY <1>6, <2>2 DEF BlockInv, AllSaved
    <3>2. q.conn \in Conns /\ q.piece \in Pieces
      BY <1>0, ReqFacts
    <3> QED
      BY <1>6, <2>1, <3>1, <3>2
  <2>3. ASSUME NEW q \in Pieces, status'[q] = "DONE"
        PROVE  \A i \in Indices : pc'[Req(downloader[q], q, i)] \notin Unsaved
    <3>1. CASE q = p
      BY <1>3, <1>6, <1>7, <2>1, <3>1 DEF Holds
    <3>2. CASE q # p
      <4>1. status[q] = "DONE"
        BY <1>4, <2>3, <3>2
      <4>2. downloader[q] \in Conns
        BY <4>1 DEF Context, Reservations, ProtocolTypeOK, ReservedHasOwner
      <4>3. \A i \in Indices : pc[Req(downloader[q], q, i)] \notin Unsaved
        BY <4>1 DEF BlockInv, AllSaved
      <4> QED
        BY <1>6, <2>1, <4>2, <4>3
    <3> QED
      BY <3>1, <3>2
  <2> QED
    BY <1>1, <2>2, <2>3 DEF AllSaved
<1>16. Noticed'
  <2>1. \A q \in Requests :
           pc[q] \in {"save", "count", "wait", "reset", "mark"} =>
               \/ pc'[q] \in {"save", "count", "wait", "reset", "mark"}
               \/ \A x \in Pieces : ~Holds(q.conn, x)'
    BY <1>5, <1>6, <1>a
  <2> QED
    BY <1>5, <1>6, <2>1, NoticedFrame
<1>17. Saved' /\ Assembled'
  <2>1. \A q \in Pieces : status[q] = "DONE" => status'[q] = "DONE"
    BY <1>4
  <2> QED
    BY <1>1, <1>6, <2>1, FileFrame
<1> QED
  BY <1>8, <1>9, <1>10, <1>11, <1>12, <1>13, <1>14, <1>15, <1>16, <1>17 DEF BlockInv

(* A piece that is marked has all its blocks stored. *)
LEMMA DoneIsStored ==
    ASSUME Context, BlockInv, NEW p \in Pieces, status[p] = "DONE"
    PROVE  \A x \in Blocks : x[1] = p => x \in disk \cup final
<1>0. PacedNetwork
  BY DEF Context
<1>1. downloader[p] \in Conns
  BY DEF Context, Reservations, ProtocolTypeOK, ReservedHasOwner
<1> SUFFICES ASSUME NEW x \in Blocks, x[1] = p PROVE x \in disk \cup final
  OBVIOUS
<1>2. x = <<p, x[2]>> /\ x[2] \in Indices
  BY <1>0, PieceSize
<1>3. PICK q \in Requests : q = Req(downloader[p], p, x[2]) /\ BlockOf(q) = x
  BY <1>0, <1>1, <1>2, ReqFacts DEF BlockOf
<1>4. pc[q] \notin Unsaved
  BY <1>2, <1>3 DEF BlockInv, AllSaved
<1> QED
  BY <1>3, <1>4 DEF BlockInv, Saved

LEMMA FinalizeBlocks ==
    ASSUME Context, BlockInv, NEW r \in Requests, Finalize(r)
    PROVE  BlockInv'
<1>0. /\ PacedNetwork /\ pc \in [Handlers -> PCs] /\ r \in Handlers
      /\ disk \subseteq Blocks /\ \A q \in Requests : q \in Handlers /\ q \notin Announcements
  BY ReqFacts DEF Context, RequesterInv, TypeCore
<1>1. /\ pc[r] = "finalize" /\ pc' = [pc EXCEPT ![r] = "end"]
      /\ final' = IF assembled THEN final ELSE disk
      /\ disk' = IF assembled THEN disk ELSE {}
      /\ assembled' = TRUE
      /\ UNCHANGED <<tableVars, requesters, closed, nextBlock, inHand>>
  BY DEF Finalize, AlreadyExists, Goto, localVars
<1>2. /\ pc'[r] = "end" /\ \A k \in Handlers \ {r} : pc'[k] = pc[k]
      /\ \A a \in Announcements : a \in Handlers \ {r} /\ pc'[a] = pc[a]
  BY <1>0, <1>1 DEF Handlers
<1>3. \A q \in Requests :
         \/ pc'[q] = pc[q]
         \/ pc[q] = "finalize" /\ pc'[q] = "end"
  BY <1>0, <1>1, <1>2
<1>4. /\ \A q \in Requests : pc'[q] \in Uncounted <=> pc[q] \in Uncounted
      /\ \A q \in Requests : pc'[q] \in Unsaved <=> pc[q] \in Unsaved
      /\ \A q \in Requests : Sent(q) => Sent(q)'
      /\ \A q \in Requests : pc'[q] \in Within => pc[q] \in Within
      /\ \A q \in Requests : pc[q] = "idle" => pc'[q] = "idle"
      /\ \A q \in Requests : pc'[q] \in {"sent", "recv", "lock"} => pc[q] \in {"sent", "recv", "lock"}
      /\ \A q \in Requests : pc'[q] = "decrement" <=> pc[q] = "decrement"
      /\ \A q \in Requests : pc'[q] = "mark" <=> pc[q] = "mark"
      /\ \A q \in Requests : pc'[q] \in {"reset", "mark"} => pc[q] \in {"reset", "mark"}
      /\ \A q \in Requests : pc[q] \in {"save", "count", "wait", "reset", "mark"}
                                 => pc'[q] \in {"save", "count", "wait", "reset", "mark"}
  BY <1>3 DEF Unsaved, Uncounted, Unanswered, Within, Sent
<1>5. OneHeld' /\ Phases' /\ Sending' /\ AllSaved'
  <2>1. \A k \in Handlers :
           /\ pc'[k] = "request" => pc[k] = "request" /\ inHand'[k] = inHand[k]
           /\ pc'[k] \in Between => pc[k] \in Between
    BY <1>1, <1>2 DEF Between
  <2>2. \A q \in Requests :
           pc'[q] \in {"reset", "mark"} =>
               \A i \in Indices : pc[Req(q.conn, q.piece, i)] \notin Unsaved
    BY <1>4 DEF BlockInv, AllSaved
  <2> QED
    BY <1>1, <1>4, <2>1, <2>2, TableFrame
<1>6. OneRequester' /\ Channels' /\ Locks' /\ Countdown'
  BY <1>1, <1>2, <1>4, RequesterFrame
<1>7. Noticed'
  BY <1>1, <1>4, NoticedFrame DEF Holds, tableVars
<1>8. \A p \in Pieces : status[p] = "DONE"
  BY <1>1 DEF BlockInv, Assembled
<1>9. ~assembled => final = {} /\ disk = Blocks
  <2> SUFFICES ASSUME ~assembled PROVE final = {} /\ disk = Blocks
    OBVIOUS
  <2>1. final = {}
    BY DEF BlockInv, Assembled
  <2>2. \A x \in Blocks : x[1] \in Pieces
    BY <1>0, PieceSize
  <2>3. Blocks \subseteq disk
    BY <1>8, <2>1, <2>2, DoneIsStored
  <2> QED
    BY <1>0, <2>1, <2>3
<1>10. Assembled'
  BY <1>1, <1>8, <1>9 DEF BlockInv, Assembled, tableVars
<1>11. Saved'
  <2>1. \A q \in Requests : BlockOf(q)' = BlockOf(q)
    BY DEF BlockOf
  <2>2. disk' \cup final' = disk \cup final
    BY <1>1, <1>9
  <2> QED
    BY <1>4, <2>1, <2>2 DEF BlockInv, Saved
<1> QED
  BY <1>5, <1>6, <1>7, <1>10, <1>11 DEF BlockInv

LEMMA LookUpBlocks ==
    ASSUME Context, BlockInv, NEW r \in Requests, LookUp(r)
    PROVE  BlockInv'
<1>0. /\ pc \in [Handlers -> PCs] /\ r \in Handlers /\ r \notin Announcements
      /\ \A q \in Requests : q \in Handlers
      /\ \A a \in Announcements : a \in Handlers
  BY ReqFacts DEF Context, RequesterInv, TypeCore, Handlers
<1>1. /\ \/ pc[r] = "recv" /\ pc' = [pc EXCEPT ![r] = "lock"]
         \/ pc[r] = "count" /\ pc' = [pc EXCEPT ![r] = "wait"]
      /\ UNCHANGED <<tableVars, requesters, closed, nextBlock, fileVars, inHand>>
  BY DEF LookUp, Goto
<1>2. /\ \/ pc[r] = "recv" /\ pc'[r] = "lock"
         \/ pc[r] = "count" /\ pc'[r] = "wait"
      /\ \A k \in Handlers \ {r} : pc'[k] = pc[k]
  BY <1>0, <1>1
<1>3. \A k \in Handlers :
         /\ pc'[k] = "request" => pc[k] = "request" /\ inHand'[k] = inHand[k]
         /\ pc'[k] \in Between => pc[k] \in Between
         /\ pc'[k] = "finalize" => pc[k] = "finalize"
  BY <1>1, <1>2 DEF Between
<1>4. \A a \in Announcements : pc'[a] = pc[a]
  BY <1>0, <1>2
<1>5. \A q \in Requests :
         \/ pc'[q] = pc[q]
         \/ pc[q] = "recv" /\ pc'[q] = "lock"
         \/ pc[q] = "count" /\ pc'[q] = "wait"
  BY <1>0, <1>2
<1> QED
  BY <1>0, <1>1, <1>3, <1>4, <1>5, BlocksUntouched

LEMMA PieceStepBlocks ==
    ASSUME Context, BlockInv, NEW r \in Requests, PieceStep(r)
    PROVE  BlockInv'
<1>0. PacedNetwork /\ r \in Handlers /\ pc[r] # "fail"
  BY RequestFields DEF Context, PaceInv, Calm
<1>1. CASE TallyUndone(r)
  <2>1. PICK to \in {"finalize", "next"} :
           /\ pc[r] = "tally" /\ pc' = [pc EXCEPT ![r] = to]
           /\ to = "finalize" => AllDone
           /\ UNCHANGED <<tableVars, requesters, closed, nextBlock, fileVars, inHand>>
    BY <1>1 DEF TallyUndone, Goto, localVars
  <2>2. to = "finalize" => \A p \in Pieces : status[p] = "DONE"
    BY <2>1 DEF AllDone, Table!Undone
  <2> QED
    BY <1>0, <2>1, <2>2, MoveBetween DEF Between, Announcing
<1>2. CASE ReceiveOnNilChannel(r) \/ ReceiveOnClosedChannel(r)
  BY <1>2, ChannelIsThere DEF ReceiveOnNilChannel, ReceiveOnClosedChannel, Goto
<1>3. CASE SaveBlockFails(r) \/ ReportError(r)
  BY <1>0, <1>3 DEF SaveBlockFails, ReportError, Goto, PacedNetwork
<1>4. CASE LookUp(r)
  BY <1>4, LookUpBlocks
<1> QED
  BY <1>1, <1>2, <1>3, <1>4, ReceiveBlocks, DecrementBlocks, SaveBlocks, CountBlocks,
     ResetBlocks, MarkBlocks, FinalizeBlocks DEF PieceStep

(* The retry of a request gets a channel in the slot of its block, even if *)
(* the connection is at another piece by then.  Nothing is counted by it,  *)
(* because nobody answers it.                                              *)
LEMMA RetryBlocks ==
    ASSUME Context, BlockInv, NEW r \in Requests, Retry(r)
    PROVE  BlockInv'
<1>0. /\ pc \in [Handlers -> PCs] /\ requesters \in [Conns -> Seq(Requester)]
      /\ PacedNetwork /\ closed \subseteq Requests
      /\ \A q \in Requests : /\ q \in Handlers /\ q \notin Announcements
                             /\ q.conn \in Conns /\ q.blk \in Indices
      /\ \A a \in Announcements : a \in Handlers /\ a.conn \in Conns
  BY ReqFacts, HandlerConn DEF Context, RequesterInv, TypeCore, Handlers
<1>a. PICK c \in Conns : c = r.conn
  BY <1>0
<1>1. pc[r] # "idle" /\ OneRequester /\ r.try \in Nat /\ r.try >= 1
  BY CountAssumption
  DEF Retry, Context, Reservations, TimerWasSent, BlockInv, Requests, Sent
<1>2. Len(requesters[c]) = 1
  BY <1>1, <1>a, SentFacts
<1>3. owner[r] = 1
  <2>1. owner[r] \in 1 .. Len(requesters[c])
    BY <1>1, <1>a DEF Context, RequesterInv, Requested, RequestedSlot
  <2> QED
    BY <1>2, <2>1
<1>4. PICK again \in Requests :
         /\ again.conn = c /\ again.try # 1 /\ pc[again] = "idle"
         /\ SetRequester(c, 1, [requesters[c][1] EXCEPT !.data[again.blk] = again])
         /\ pc' = [pc EXCEPT ![again] = "sent"]
         /\ UNCHANGED <<tableVars, closed, nextBlock, inHand, fileVars>>
  <2>1. PICK again \in Requests :
           /\ again = [r EXCEPT !.try = @ + 1] /\ Send(again, 1)
           /\ pc[again] = "idle"
           /\ pc' = [pc EXCEPT ![again] = "sent"]
           /\ UNCHANGED <<tableVars, closed, nextBlock, inHand, fileVars>>
    BY <1>3 DEF Retry, localVars
  <2>2. again.conn = c /\ again.try = r.try + 1
    BY <1>a, <2>1 DEF Requests
  <2>3. again.try # 1
    BY <1>1, <2>2
  <2> QED
    BY <2>1, <2>2, <2>3 DEF Send, MakeChannel
<1>5. PICK b : /\ b = [requesters[c][1] EXCEPT !.data[again.blk] = again]
               /\ SetRequester(c, 1, b)
  BY <1>4
<1>6. /\ requesters[c][1] \in Requester /\ b.total = requesters[c][1].total
      /\ b.left = requesters[c][1].left /\ b.read = requesters[c][1].read
      /\ b.holder = requesters[c][1].holder /\ b.data[again.blk] = again
      /\ \A i \in Indices \ {again.blk} : b.data[i] = requesters[c][1].data[i]
  <2>1. requesters[c][1] \in Requester
    BY <1>0, <1>2, TheRequester
  <2>2. requesters[c][1].data \in [Indices -> Requests \cup {Nil}]
    BY <1>0, <2>1, RequesterFields, PieceSize
  <2> QED
    BY <1>0, <1>5, <2>1, <2>2 DEF Requester
<1>7. /\ Len(requesters'[c]) = 1 /\ requesters'[c][1] = b
      /\ \A d \in Conns \ {c} : requesters'[d] = requesters[d]
  BY <1>0, <1>2, <1>5, RequesterWritten
<1>8. \A d \in Conns, q \in Pieces : Holds(d, q)' <=> Holds(d, q)
  BY <1>4 DEF Holds, tableVars
<1>9. pc'[again] = "sent" /\ \A k \in Handlers \ {again} : pc'[k] = pc[k]
  BY <1>0, <1>4
<1>10. \A q \in Requests : pc'[q] = pc[q] \/ (q = again /\ pc[q] = "idle" /\ pc'[q] = "sent")
  BY <1>0, <1>4, <1>9
<1>11. /\ \A q \in Requests : pc'[q] \in Uncounted <=> pc[q] \in Uncounted
       /\ \A q \in Requests : pc'[q] \in Unsaved <=> pc[q] \in Unsaved
       /\ \A q \in Requests : q.try = 1 => pc'[q] = pc[q]
       /\ \A q \in Requests : pc[q] \notin {"idle", "sent"} => pc'[q] = pc[q]
       /\ \A q \in Requests : pc'[q] \notin {"idle", "sent"} => pc'[q] = pc[q]
       /\ \A q \in Requests : Sent(q) => Sent(q)'
  BY <1>4, <1>10 DEF Unsaved, Uncounted, Unanswered, Sent
<1>12. OneHeld' /\ Phases' /\ Sending' /\ AllSaved'
  <2>1. \A k \in Handlers :
           /\ pc'[k] = "request" => pc[k] = "request" /\ inHand'[k] = inHand[k]
           /\ pc'[k] \in Between => pc[k] \in Between
    BY <1>4, <1>9 DEF Between
  <2>2. \A q \in Requests :
           pc'[q] \in {"reset", "mark"} =>
               \A i \in Indices : pc[Req(q.conn, q.piece, i)] \notin Unsaved
    BY <1>11 DEF BlockInv, AllSaved
  <2> QED
    BY <1>4, <1>11, <2>1, <2>2, TableFrame
<1>13. OneRequester'
  <2>1. \A d \in Conns : Len(requesters'[d]) = Len(requesters[d])
    BY <1>2, <1>7
  <2>2. \A a \in Announcements : pc'[a] = pc[a] /\ a.conn \in Conns
    BY <1>0, <1>9
  <2> QED
    BY <1>8, <2>1, <2>2 DEF BlockInv, OneRequester
<1>14. Channels'
  <2> DEFINE d(q) == requesters[q.conn][1].data[q.blk]
  <2>1. ASSUME NEW q \in Requests, q.try = 1, pc'[q] \in {"sent", "recv", "lock"}
        PROVE  OpenFor(q, d(q))'
    <3>1. OpenFor(q, d(q)) /\ q.conn \in Conns /\ q.blk \in Indices
      BY <1>0, <1>11, <2>1 DEF BlockInv, Channels
    <3>2. d(q)' = d(q) \/ (d(q)' = again /\ q.conn = c /\ q.blk = again.blk)
      BY <1>6, <1>7, <3>1
    <3>3. again \notin closed
      BY <1>4 DEF BlockInv, Channels, Sent
    <3>4. ASSUME NEW x, OpenFor(q, x), d(q)' = x PROVE OpenFor(q, d(q))'
      BY <1>4, <1>11, <3>4 DEF OpenFor, Sent
    <3>5. ASSUME d(q)' = again, q.conn = c, q.blk = again.blk PROVE OpenFor(q, d(q))'
      BY <1>4, <1>9, <3>3, <3>5 DEF OpenFor, Sent
    <3> QED
      BY <3>1, <3>2, <3>4, <3>5
  <2>2. \A q \in closed' : Sent(q)'
    BY <1>0, <1>4, <1>11 DEF BlockInv, Channels
  <2> QED
    BY <2>1, <2>2 DEF Channels
<1>15. Locks'
  <2>1. ASSUME NEW q \in Requests, pc'[q] = "decrement"
        PROVE  /\ requesters'[q.conn][1].holder = q
               /\ requesters'[q.conn][1].read = requesters'[q.conn][1].left
    <3>1. pc[q] = "decrement" /\ q.conn \in Conns
      BY <1>0, <1>11, <2>1
    <3> QED
      BY <1>6, <1>7, <3>1 DEF BlockInv, Locks
  <2>2. ASSUME NEW d \in Conns, Len(requesters'[d]) = 1, requesters'[d][1].holder # Nil
        PROVE  /\ requesters'[d][1].holder.conn = d
               /\ pc'[requesters'[d][1].holder] = "decrement"
    <3>1. Len(requesters[d]) = 1 /\ requesters'[d][1].holder = requesters[d][1].holder
      BY <1>2, <1>6, <1>7, <2>2
    <3>2. requesters[d][1].holder \in Requests
      BY <1>0, <2>2, <3>1, RequesterFields, TheRequester
    <3>3. requesters[d][1].holder.conn = d /\ pc[requesters[d][1].holder] = "decrement"
      BY <2>2, <3>1 DEF BlockInv, Locks
    <3> QED
      BY <1>11, <3>1, <3>2, <3>3
  <2> QED
    BY <2>1, <2>2 DEF Locks
<1>16. Countdown'
  <2>1. \A d \in Conns, q \in Pieces : Counted(d, q)' = Counted(d, q)
    BY <1>0, <1>11, ReqFacts DEF Counted
  <2>2. \A d \in Conns : Marking(d)' <=> Marking(d)
    BY <1>11 DEF Marking
  <2>3. \A d \in Conns :
           /\ Len(requesters'[d]) = Len(requesters[d])
           /\ requesters'[d][1].total = requesters[d][1].total
           /\ requesters'[d][1].left = requesters[d][1].left
    BY <1>2, <1>6, <1>7
  <2> QED
    BY <1>8, <2>1, <2>2, <2>3 DEF BlockInv, Countdown
<1>17. Noticed'
  BY <1>8, <1>11, NoticedFrame
<1>18. Saved' /\ Assembled'
  BY <1>4, <1>11, FileFrame DEF tableVars
<1> QED
  BY <1>12, <1>13, <1>14, <1>15, <1>16, <1>17, <1>18 DEF BlockInv

LEMMA BlockInvStep == Context /\ BlockInv /\ [Next]_vars => BlockInv'
<1> SUFFICES ASSUME Context, BlockInv, [Next]_vars PROVE BlockInv'
  OBVIOUS
<1>1. CASE UNCHANGED vars
  <2>1. UNCHANGED <<tableVars, requesters, closed, pc, nextBlock, fileVars, inHand>>
    BY <1>1 DEF vars, localVars
  <2> QED
    BY <2>1, BlocksUntouched
<1>2. ASSUME NEW h \in Handlers, Deliver(h) \/ RequestNextPiece(h) PROVE BlockInv'
  BY <1>2, DeliverBlocks, RequestNextPieceBlocks
<1>3. ASSUME NEW a \in Announcements, AnnouncementStep(a) PROVE BlockInv'
  BY <1>3, AnnouncementBlocks
<1>4. ASSUME NEW r \in Requests, PieceStep(r) PROVE BlockInv'
  BY <1>4, PieceStepBlocks
<1>5. ASSUME NEW r \in Requests, SenderStep(r) PROVE BlockInv'
  <2>1. CASE TimerExpires(r) \/ Misfire(r) \/ JudgePeer(r)
    <3>1. UNCHANGED <<tableVars, requesters, closed, pc, nextBlock, fileVars, inHand>>
      BY <2>1 DEF TimerExpires, Misfire, JudgePeer, localVars
    <3> QED
      BY <3>1, BlocksUntouched
  <2> QED
    BY <1>5, <2>1, SendFirstBlocks, RetryBlocks DEF SenderStep
<1>6. ASSUME NEW c \in Conns, ReadTimeout(c) \/ Disconnect(c) PROVE BlockInv'
  <2>1. UNCHANGED <<tableVars, requesters, closed, pc, nextBlock, fileVars, inHand>>
    BY <1>6 DEF ReadTimeout, Disconnect, localVars
  <2> QED
    BY <2>1, BlocksUntouched
<1> QED
  BY <1>1, <1>2, <1>3, <1>4, <1>5, <1>6 DEF Next

LEMMA BlockInvInit == ASSUME PacedNetwork, Init PROVE BlockInv
<1>1. /\ \A h \in Handlers : pc[h] = "idle"
      /\ \A c \in Conns : requesters[c] = <<>>
      /\ closed = {} /\ \A p \in Pieces : status[p] = "IDLE"
      /\ disk = {} /\ final = {} /\ assembled = FALSE
  BY DEF Init, Table!TableInit
<1>2. /\ \A r \in Requests : pc[r] = "idle"
      /\ \A a \in Announcements : a.conn \in Conns
      /\ \A c \in Conns : Len(requesters[c]) = 0
      /\ \A c \in Conns, p \in Pieces : ~Holds(c, p)
      /\ \A h \in Handlers : h.conn \in Conns
  <2>1. Len(<<>>) = 0
    OBVIOUS
  <2> QED
    BY <1>1, <2>1, RequestFields, HandlerConn, AnnouncementAssumption DEF Holds
<1>3. OneHeld /\ Phases /\ Sending /\ OneRequester
  BY <1>1, <1>2 DEF OneHeld, Phases, Sending, OneRequester, Between, Within
<1>4. Channels /\ Locks /\ Countdown
  BY <1>1, <1>2 DEF Channels, Locks, Countdown
<1>5. AllSaved /\ Noticed /\ Saved /\ Assembled
  BY <1>1, <1>2 DEF AllSaved, Noticed, Saved, Assembled, Unsaved, Uncounted, Unanswered
<1> QED
  BY <1>3, <1>4, <1>5 DEF BlockInv

LEMMA BlockInvariant == ASSUME PacedNetwork PROVE Spec => [](Context /\ BlockInv)
<1>1. Init => BlockInv
  BY BlockInvInit
<1>2. RequesterInv /\ Reservations /\ PaceInv /\ BlockInv /\ [Next]_vars => BlockInv'
  BY BlockInvStep DEF Context
<1>3. RequesterInv /\ Reservations /\ PaceInv /\ BlockInv => Context /\ BlockInv
  BY DEF Context
<1> QED
  BY <1>1, <1>2, <1>3, RequesterInvariant, ReservationsInvariant, PaceInvariant, PTL
     DEF Spec

-----------------------------------------------------------------------------
(* Theorems *)

(* On a paced network a piece marked by MarkAsDone has all its blocks      *)
(* saved, although blocksLeft is lowered before SaveBlock runs.            *)
THEOREM DoneImpliesStoredHolds == ASSUME PacedNetwork PROVE Spec => []DoneImpliesStored
<1>1. Context /\ BlockInv => DoneImpliesStored
  BY DoneIsStored DEF DoneImpliesStored, DonePieces, BlocksOf
<1> QED
  BY <1>1, BlockInvariant, PTL

(* A stored block was asked for by the connection that reserved its piece. *)
LEMMA StoredWasAsked ==
    ASSUME Context, BlockInv, NEW p \in Pieces, NEW i \in Indices,
           <<p, i>> \in disk \cup final
    PROVE  /\ downloader[p] \in Conns /\ status[p] # "IDLE"
           /\ pc[Req(downloader[p], p, i)] \notin Unsaved
<1>0. PacedNetwork
  BY DEF Context
<1>1. <<p, i>> \in Blocks
  BY <1>0, PieceSize
<1>2. PICK q \in Requests : BlockOf(q) = <<p, i>> /\ pc[q] \notin Unsaved
  BY <1>1 DEF BlockInv, Saved
<1>3. q.piece = p /\ q.blk = i /\ pc[q] \notin {"idle", "ask", "sent"} /\ q.conn \in Conns /\ OneRequester
  BY <1>0, <1>2, ReqFacts DEF BlockOf, Unsaved, Uncounted, Unanswered, BlockInv
<1>4. q = Req(q.conn, p, i) /\ downloader[p] = q.conn
  BY <1>3, SentFacts
<1>5. status[p] # "IDLE"
  BY <1>3, <1>4, ConnAssumption DEF Context, Reservations, ReservedHasOwner
<1> QED
  BY <1>2, <1>3, <1>4, <1>5

(* On a paced network the countdown does not miss zero: once all handlers  *)
(* rest, a piece whose blocks are all stored is marked as done.            *)
THEOREM StoredImpliesDoneHolds == ASSUME PacedNetwork PROVE Spec => []StoredImpliesDone
<1>1. ASSUME Context, BlockInv PROVE StoredImpliesDone
  <2> SUFFICES ASSUME Quiet, NEW p \in Pieces, BlocksOf(p) \subseteq disk \cup final
               PROVE  status[p] = "DONE"
    BY DEF StoredImpliesDone, DonePieces
  <2>0. /\ PacedNetwork /\ status \in [Pieces -> Table!PieceStatus]
        /\ \A r \in Requests : r \in Handlers
    BY <1>1, RequestFields DEF Context, RequesterInv, TypeCore, Table!TableTypeOK
  <2>1. \A i \in Indices : <<p, i>> \in disk \cup final
    BY <2>0, PieceSize DEF BlocksOf
  <2>2. 0 \in Indices
    BY <2>0, PieceSize DEF Indices
  <2>3. /\ downloader[p] \in Conns /\ status[p] # "IDLE"
        /\ \A i \in Indices : pc[Req(downloader[p], p, i)] \notin Unsaved
    BY <1>1, <2>1, <2>2, StoredWasAsked
  <2>4. ASSUME status[p] = "DOWNLOADING" PROVE FALSE
    <3>1. Holds(downloader[p], p)
      BY <2>4 DEF Holds
    <3>2. PICK r \in Requests : pc[r] \in {"save", "count", "wait", "reset", "mark"}
      BY <1>1, <2>3, <3>1 DEF BlockInv, Noticed, Unsaved
    <3> QED
      BY <2>0, <3>2 DEF Quiet, Rests
  <2> QED
    BY <2>0, <2>3, <2>4 DEF Table!PieceStatus
<1> QED
  BY <1>1, BlockInvariant, PTL

(* On a paced network DefaultFinalizeFunc assembles every block.           *)
THEOREM FinalFileCompleteHolds == ASSUME PacedNetwork PROVE Spec => []FinalFileComplete
<1>1. BlockInv => FinalFileComplete
  BY DEF BlockInv, Assembled, FinalFileComplete
<1> QED
  BY <1>1, BlockInvariant, PTL

(* On a paced network blocksLeft of a connection whose handlers rest is    *)
(* the number of blocks of its piece that are not stored.                  *)
THEOREM LeftCountsMissingHolds == ASSUME PacedNetwork PROVE Spec => []LeftCountsMissing
<1>1. ASSUME Context, BlockInv PROVE LeftCountsMissing
  <2> SUFFICES ASSUME NEW c \in Conns, NEW p \in HeldBy(c),
                      \A h \in Handlers : h.conn = c => pc[h] \in {"idle", "ask", "sent", "end"}
               PROVE  Current(c).left = Cardinality(BlocksOf(p) \ disk)
    BY DEF LeftCountsMissing, Rests
  <2>0. /\ PacedNetwork /\ requesters \in [Conns -> Seq(Requester)] /\ K \in Nat
        /\ \A r \in Requests : r \in Handlers
    BY <1>1, RequestFields, PieceSize DEF Context, RequesterInv, TypeCore
  <2>1. p \in Pieces /\ Holds(c, p) /\ Len(requesters[c]) = 1 /\ downloader[p] = c
    BY <1>1 DEF HeldBy, Holds, BlockInv, OneRequester
  <2>2. Current(c).left = K - Cardinality(Counted(c, p))
    <3>1. ~Marking(c)
      BY <2>0 DEF Marking
    <3> QED
      BY <1>1, <2>0, <2>1, <3>1, TheRequester DEF BlockInv, Countdown
  <2>3. final = {}
    BY <1>1, <2>1 DEF Holds, BlockInv, Assembled
  <2>4. \A i \in Indices : <<p, i>> \in disk <=> i \in Counted(c, p)
    <3> SUFFICES ASSUME NEW i \in Indices
                 PROVE  <<p, i>> \in disk <=> i \in Counted(c, p)
      OBVIOUS
    <3>1. Req(c, p, i) \in Requests /\ Req(c, p, i).conn = c
             /\ BlockOf(Req(c, p, i)) = <<p, i>>
      BY <2>0, <2>1, ReqFacts DEF BlockOf
    <3>2. pc[Req(c, p, i)] \in {"idle", "ask", "sent", "end"}
      BY <2>0, <3>1
    <3>3. <<p, i>> \in disk => i \in Counted(c, p)
      BY <1>1, <2>1, StoredWasAsked DEF Counted, Unsaved
    <3>4. ASSUME i \in Counted(c, p) PROVE <<p, i>> \in disk
      <4>1. pc[Req(c, p, i)] \notin Unsaved
        BY <3>2, <3>4 DEF Counted, Unsaved
      <4>2. <<p, i>> \in Blocks
        BY <2>0, <2>1, PieceSize
      <4> QED
        BY <1>1, <2>3, <3>1, <4>1, <4>2 DEF BlockInv, Saved
    <3> QED
      BY <3>3, <3>4
  <2> DEFINE missing == Indices \ Counted(c, p)
  <2>5. Cardinality(missing) = K - Cardinality(Counted(c, p)) /\ IsFiniteSet(missing)
    <3>1. Indices \cap Counted(c, p) = Counted(c, p)
      BY DEF Counted
    <3>2. IsFiniteSet(Indices) /\ Cardinality(Indices) = K
      BY <2>0, CountedFinite
    <3>3. /\ IsFiniteSet(missing)
          /\ Cardinality(missing) = Cardinality(Indices) - Cardinality(Indices \cap Counted(c, p))
      BY <3>2, FS_Difference, Zenon
    <3> HIDE DEF missing
    <3> QED
      BY <3>1, <3>2, <3>3, Zenon
  <2>6. BlocksOf(p) \ disk = {<<p, i>> : i \in missing}
    <3>1. BlocksOf(p) = {<<p, i>> : i \in Indices}
      BY <2>0, <2>1, PieceSize DEF BlocksOf
    <3> QED
      BY <2>4, <3>1
  <2>7. ExistsBijection(missing, BlocksOf(p) \ disk)
    <3> DEFINE f == [i \in missing |-> <<p, i>>]
    <3>1. f \in [missing -> BlocksOf(p) \ disk]
      BY <2>6
    <3>2. \A i, j \in missing : f[i] = f[j] => i = j
      OBVIOUS
    <3>3. \A x \in BlocksOf(p) \ disk : \E i \in missing : f[i] = x
      BY <2>6
    <3> HIDE DEF f, missing
    <3>4. f \in Bijection(missing, BlocksOf(p) \ disk)
      BY <3>1, <3>2, <3>3 DEF Bijection, Injection, Surjection, IsInjective
    <3> QED
      BY <3>4 DEF ExistsBijection
  <2> HIDE DEF missing
  <2>8. Cardinality(BlocksOf(p) \ disk) = Cardinality(missing)
    BY <2>5, <2>7, FS_Bijection
  <2> QED
    BY <2>2, <2>5, <2>8
<1> QED
  BY <1>1, BlockInvariant, PTL

=============================================================================
