--------------------------- MODULE DownloadProofs ---------------------------
(***************************************************************************)
(* Theorems about Download, for every number of pieces, blocks, peers and  *)
(* announcements: who may have reserved a piece; type correctness; why a   *)
(* PIECE handler can hang, only when the block requester that asked for    *)
(* the block was replaced; and, with the record of module Races, which     *)
(* races a lost piece or a panic takes.                                    *)
(***************************************************************************)
EXTENDS Races, OrderProofs

(* The part of the state that reservations rest on. *)
ProtocolTypeOK ==
    /\ status \in [Pieces -> Table!PieceStatus]
    /\ downloader \in [Pieces -> Conns \cup {NoConn}]
    /\ pc \in [Handlers -> PCs]
    /\ inHand \in [Handlers -> Pieces]
    /\ timer \in [Requests -> Timers]

(* A piece is idle exactly as long as nobody has reserved it. *)
ReservedHasOwner ==
    \A p \in Pieces : status[p] = "IDLE" <=> downloader[p] = NoConn

(* A handler that is sending REQUESTs holds the piece in its hand. *)
RequesterHolds ==
    \A h \in Handlers : pc[h] = "request" => downloader[inHand[h]] = h.conn

(* Every REQUEST that was made was made by the holder of its piece. *)
SenderHolds ==
    \A r \in Requests : pc[r] # "idle" => downloader[r.piece] = r.conn

(* A misfire goroutine runs only for a REQUEST that was sent. *)
TimerWasSent == \A r \in Requests : timer[r] # "off" => Sent(r)

Reservations ==
    /\ ProtocolTypeOK
    /\ ReservedHasOwner
    /\ RequesterHolds
    /\ SenderHolds
    /\ TimerWasSent

LEMMA RequestFields ==
    ASSUME NEW r \in Requests
    PROVE  r.conn \in Conns /\ r.piece \in Pieces /\ r.blk \in Slots /\ r \in Handlers
  BY DEF Requests, Handlers

LEMMA HandlerConn ==
    ASSUME NEW h \in Handlers
    PROVE  h.conn \in Conns
  BY RequestFields, AnnouncementAssumption DEF Handlers

LEMMA ReservationsInit == Init => Reservations
<1> SUFFICES ASSUME Init PROVE Reservations
  OBVIOUS
<1> 0 \in Pieces
  BY CountAssumption DEF Pieces
<1> USE DEF Init, Table!TableInit
<1>1. ProtocolTypeOK
  BY DEF ProtocolTypeOK, Table!PieceStatus, PCs, Timers
<1>2. ReservedHasOwner
  BY DEF ReservedHasOwner
<1>3. RequesterHolds /\ SenderHolds /\ TimerWasSent
  BY RequestFields DEF RequesterHolds, SenderHolds, TimerWasSent, Sent
<1> QED
  BY <1>1, <1>2, <1>3 DEF Reservations

(* A handler that moves on without asking for anything, while timers are   *)
(* at most switched off, leaves every reservation as it was.               *)
LEMMA QuietMove ==
    ASSUME Reservations, UNCHANGED tableVars,
           NEW h \in Handlers, NEW to \in PCs,
           to \notin {"idle", "ask", "request"},
           h \in Requests => pc[h] # "idle",
           pc' = [pc EXCEPT ![h] = to],
           inHand' \in [Handlers -> Pieces],
           \A k \in Handlers : k # h => inHand'[k] = inHand[k],
           timer' \in [Requests -> Timers],
           \A r \in Requests : timer'[r] # "off" => timer[r] # "off"
    PROVE  Reservations'
<1> USE DEF Reservations, ProtocolTypeOK, tableVars
<1>1. ProtocolTypeOK'
  OBVIOUS
<1>2. ReservedHasOwner'
  BY DEF ReservedHasOwner
<1>3. RequesterHolds'
  BY DEF RequesterHolds
<1>4. SenderHolds'
  BY RequestFields DEF SenderHolds
<1>5. TimerWasSent'
  BY RequestFields DEF TimerWasSent, Sent
<1> QED
  BY <1>1, <1>2, <1>3, <1>4, <1>5

(* So does a step of a timer, of the connection or of a panic. *)
LEMMA QuietElsewhere ==
    ASSUME Reservations, UNCHANGED <<tableVars, pc, inHand>>,
           timer' \in [Requests -> Timers],
           \A r \in Requests : timer'[r] # "off" => timer[r] # "off"
    PROVE  Reservations'
  BY DEF Reservations, ProtocolTypeOK, tableVars, ReservedHasOwner,
         RequesterHolds, SenderHolds, TimerWasSent, Sent

LEMMA DeliverStep ==
    ASSUME Reservations, NEW h \in Handlers, Deliver(h)
    PROVE  Reservations'
<1> DEFINE to == IF h \in Requests THEN "recv" ELSE "check"
<1>1. pc' = [pc EXCEPT ![h] = to] /\ (h \in Requests => pc[h] # "idle")
  BY DEF Deliver, Goto
<1>2. to \in PCs /\ to \notin {"idle", "ask", "request"}
  BY DEF PCs
<1>3. UNCHANGED <<tableVars, inHand, timer>>
  BY DEF Deliver, localVars, timerVars
<1> HIDE DEF to
<1> QED
  BY <1>1, <1>2, <1>3, QuietMove DEF Reservations, ProtocolTypeOK

LEMMA AnnouncementPreserves ==
    ASSUME Reservations, NEW a \in Announcements, AnnouncementStep(a)
    PROVE  Reservations'
<1>0. a \in Handlers /\ a \notin Requests
  BY NilAssumption DEF Handlers
<1> DEFINE Moved(to) == /\ to \in PCs /\ to \notin {"idle", "ask", "request"}
                        /\ pc' = [pc EXCEPT ![a] = to]
                        /\ UNCHANGED <<tableVars, inHand, timer>>
<1>1. ASSUME NEW to, Moved(to) PROVE Reservations'
  BY <1>0, <1>1, QuietMove DEF Reservations, ProtocolTypeOK
<1>2. CASE CheckQueue(a)
  <2>1. \E to \in {"end", "read"} : Moved(to)
    BY <1>2 DEF CheckQueue, Goto, PCs, timerVars
  <2> QED
    BY <1>1, <2>1
<1>3. CASE ReadQueue(a)
  <2>1. Moved("write")
    BY <1>3 DEF ReadQueue, Goto, PCs, timerVars
  <2> QED
    BY <1>1, <2>1
<1>4. CASE WriteQueue(a)
  <2>1. \E to \in {"start", "end"} : Moved(to)
    BY <1>4 DEF WriteQueue, Goto, PCs, timerVars
  <2> QED
    BY <1>1, <2>1
<1>5. CASE StartRequester(a)
  <2>1. Moved("next")
    BY <1>5 DEF StartRequester, Goto, PCs, timerVars
  <2> QED
    BY <1>1, <2>1
<1>6. CASE StartOnEmptyQueue(a)
  BY <1>6, QuietElsewhere DEF StartOnEmptyQueue, Panic, timerVars, localVars,
                             Reservations, ProtocolTypeOK
<1> QED
  BY <1>2, <1>3, <1>4, <1>5, <1>6 DEF AnnouncementStep
(* TryToReserve succeeded: the piece goes from nobody to h.conn. *)
LEMMA ReservePreserves ==
    ASSUME Reservations, NEW h \in Handlers, ReservePiece(h)
    PROVE  Reservations'
<1> DEFINE p == inHand[h]
<1>1. /\ p \in Pieces /\ h.conn \in Conns /\ h.conn # NoConn
      /\ status[p] = "IDLE" /\ downloader[p] = NoConn
      /\ status' = [status EXCEPT ![p] = "DOWNLOADING"]
      /\ downloader' = [downloader EXCEPT ![p] = h.conn]
      /\ pc[h] = "reserve" /\ pc' = [pc EXCEPT ![h] = "request"]
      /\ UNCHANGED <<inHand, timer>>
  BY HandlerConn, ConnAssumption
     DEF ReservePiece, Goto, Table!Reserve, Table!CanReserve, timerVars,
         Reservations, ProtocolTypeOK, ReservedHasOwner
<1>2. ProtocolTypeOK'
  BY <1>1 DEF Reservations, ProtocolTypeOK, PCs, Table!PieceStatus
<1>3. ReservedHasOwner'
  BY <1>1 DEF Reservations, ProtocolTypeOK, ReservedHasOwner
<1>4. RequesterHolds'
  <2> SUFFICES ASSUME NEW k \in Handlers, pc'[k] = "request"
               PROVE  downloader'[inHand[k]] = k.conn
    BY <1>1 DEF RequesterHolds
  <2>1. CASE k = h
    BY <2>1, <1>1 DEF Reservations, ProtocolTypeOK
  <2>2. CASE k # h
    <3>1. pc[k] = "request" /\ downloader[inHand[k]] = k.conn
      BY <2>2, <1>1 DEF Reservations, ProtocolTypeOK, RequesterHolds
    <3>2. inHand[k] \in Pieces /\ inHand[k] # p
      BY <3>1, <1>1, HandlerConn, ConnAssumption DEF Reservations, ProtocolTypeOK
    <3> QED
      BY <3>1, <3>2, <1>1 DEF Reservations, ProtocolTypeOK
  <2> QED
    BY <2>1, <2>2
<1>5. SenderHolds'
  <2> SUFFICES ASSUME NEW r \in Requests, pc'[r] # "idle"
               PROVE  downloader'[r.piece] = r.conn
    BY DEF SenderHolds
  <2>1. pc[r] # "idle" /\ downloader[r.piece] = r.conn
    BY <1>1, RequestFields DEF Reservations, ProtocolTypeOK, SenderHolds
  <2>2. r.piece # p
    BY <2>1, <1>1, RequestFields, ConnAssumption
  <2> QED
    BY <2>1, <2>2, <1>1, RequestFields DEF Reservations, ProtocolTypeOK
<1>6. TimerWasSent'
  BY <1>1, RequestFields DEF Reservations, ProtocolTypeOK, TimerWasSent, Sent
<1> QED
  BY <1>2, <1>3, <1>4, <1>5, <1>6 DEF Reservations

(* The handler that requests a block holds its piece. *)
LEMMA RequestPreserves ==
    ASSUME Reservations, NEW h \in Handlers, RequestBlock(h)
    PROVE  Reservations'
<1>1. PICK r \in Requests :
        /\ pc[h] = "request" /\ pc[r] = "idle"
        /\ r.conn = h.conn /\ r.piece = inHand[h]
        /\ \E to \in {"end", "request"} : pc' = [pc EXCEPT ![r] = "ask", ![h] = to]
        /\ \/ inHand' = inHand /\ pc'[h] = "request"
           \/ inHand' = [inHand EXCEPT ![h] = 0] /\ pc'[h] = "end"
        /\ UNCHANGED <<tableVars, timer>>
  <2>1. PICK r \in Requests : RequestBlock(h)!2!(r)
    BY DEF RequestBlock
  <2>2. pc \in [Handlers -> PCs] /\ r \in Handlers /\ pc[h] = "request"
    BY RequestFields DEF Reservations, ProtocolTypeOK, RequestBlock
  <2> QED
    BY <2>1, <2>2 DEF tableVars
<1> DEFINE p == inHand[h]
<1>2. r \in Handlers /\ r # h /\ p \in Pieces /\ downloader[p] = r.conn /\ 0 \in Pieces
  BY <1>1, RequestFields, CountAssumption
     DEF Reservations, ProtocolTypeOK, RequesterHolds, Pieces
<1>3. ProtocolTypeOK'
  BY <1>1, <1>2 DEF Reservations, ProtocolTypeOK, PCs, Timers, tableVars
<1>4. ReservedHasOwner'
  BY <1>1 DEF Reservations, ReservedHasOwner, tableVars
<1>5. RequesterHolds'
  BY <1>1, <1>2 DEF Reservations, ProtocolTypeOK, RequesterHolds, tableVars
<1>6. SenderHolds'
  BY <1>1, <1>2, RequestFields DEF Reservations, ProtocolTypeOK, SenderHolds, tableVars
<1>7. TimerWasSent'
  BY <1>1, <1>2, RequestFields DEF Reservations, ProtocolTypeOK, TimerWasSent, Sent
<1> QED
  BY <1>3, <1>4, <1>5, <1>6, <1>7 DEF Reservations

LEMMA RequestNextPiecePreserves ==
    ASSUME Reservations, NEW h \in Handlers, RequestNextPiece(h)
    PROVE  Reservations'
<1> DEFINE Moved(to) == /\ to \in PCs /\ to \notin {"idle", "ask", "request"}
                        /\ h \in Requests => pc[h] # "idle"
                        /\ pc' = [pc EXCEPT ![h] = to]
                        /\ inHand' \in [Handlers -> Pieces]
                        /\ \A k \in Handlers : k # h => inHand'[k] = inHand[k]
                        /\ UNCHANGED <<tableVars, timer>>
<1>1. ASSUME NEW to, Moved(to) PROVE Reservations'
  BY <1>1, QuietMove DEF Reservations, ProtocolTypeOK
<1>2. inHand \in [Handlers -> Pieces] /\ 0 \in Pieces
  BY CountAssumption DEF Reservations, ProtocolTypeOK, Pieces
<1>3. CASE NextPiece(h)
  <2>1. \E to \in {"stop", "begin"} : Moved(to)
    BY <1>3, <1>2 DEF NextPiece, Goto, PCs, timerVars, localVars
  <2> QED
    BY <1>1, <2>1
<1>4. CASE Dequeue(h)
  <2>1. Moved("advance")
    BY <1>4, <1>2 DEF Dequeue, Goto, PCs, timerVars
  <2> QED
    BY <1>1, <2>1
<1>5. CASE DequeueFromEmpty(h)
  BY <1>5, QuietElsewhere DEF DequeueFromEmpty, Panic, timerVars, localVars,
                             Reservations, ProtocolTypeOK
<1>6. CASE AdvanceQueue(h)
  <2>1. Moved("reserve")
    BY <1>6, <1>2 DEF AdvanceQueue, Goto, PCs, timerVars
  <2> QED
    BY <1>1, <2>1
<1>7. CASE ReservePiece(h)
  BY <1>7, ReservePreserves
<1>8. CASE ReservationRefused(h)
  <2>1. Moved("next")
    BY <1>8, <1>2 DEF ReservationRefused, Goto, PCs, timerVars
  <2> QED
    BY <1>1, <2>1
<1>9. CASE RequestBlock(h)
  BY <1>9, RequestPreserves
<1>10. CASE StopRequesting(h)
  <2>1. Moved("end")
    BY <1>10, <1>2 DEF StopRequesting, Goto, PCs, timerVars, localVars
  <2> QED
    BY <1>1, <2>1
<1>11. CASE BeginPiece(h)
  <2>1. Moved("dequeue")
    BY <1>11, <1>2 DEF BeginPiece, Goto, PCs, timerVars, localVars
  <2> QED
    BY <1>1, <2>1
<1> QED
  BY <1>3, <1>4, <1>5, <1>6, <1>7, <1>8, <1>9, <1>10, <1>11 DEF RequestNextPiece

LEMMA PiecePreserves ==
    ASSUME Reservations, NEW r \in Requests, PieceStep(r)
    PROVE  Reservations'
<1>0. r \in Handlers /\ r.piece \in Pieces /\ r.conn \in Conns
  BY RequestFields
<1> DEFINE Moved(to) == /\ to \in PCs /\ to \notin {"idle", "ask", "request"}
                        /\ pc[r] # "idle" /\ pc' = [pc EXCEPT ![r] = to]
                        /\ UNCHANGED <<tableVars, inHand, timer>>
<1>1. ASSUME NEW to, Moved(to) PROVE Reservations'
  BY <1>0, <1>1, QuietMove DEF Reservations, ProtocolTypeOK
<1>2. CASE ReceiveBlock(r)
  <2> DEFINE ch == Looked(r).data[r.blk]
  <2>1. /\ pc[r] = "lock" /\ pc' = [pc EXCEPT ![r] = "decrement"]
        /\ timer' = [timer EXCEPT ![ch] = IF @ = "armed" THEN "off" ELSE @]
        /\ UNCHANGED <<tableVars, inHand>>
    BY <1>2 DEF ReceiveBlock, Goto, localVars
  <2> HIDE DEF ch
  <2>2. /\ timer' \in [Requests -> Timers] /\ inHand' \in [Handlers -> Pieces]
        /\ \A q \in Requests : timer'[q] # "off" => timer[q] # "off"
    BY <2>1 DEF Reservations, ProtocolTypeOK, Timers
  <2>3. "decrement" \in PCs \ {"idle", "ask", "request"}
    BY DEF PCs
  <2> QED
    BY <1>0, <2>1, <2>2, <2>3, QuietMove
<1>3. CASE ReceiveOnNilChannel(r)
  <2>1. Moved("hung")
    BY <1>3 DEF ReceiveOnNilChannel, Goto, PCs, timerVars, localVars
  <2> QED
    BY <1>1, <2>1
<1>4. CASE ReceiveOnClosedChannel(r)
  BY <1>4, QuietElsewhere DEF ReceiveOnClosedChannel, Panic, timerVars, localVars,
                             Reservations, ProtocolTypeOK
<1>5. CASE DecrementLeft(r)
  <2>1. Moved("save")
    BY <1>5 DEF DecrementLeft, Goto, PCs, timerVars, localVars
  <2> QED
    BY <1>1, <2>1
<1>6. CASE SaveBlock(r)
  <2>1. Moved("count")
    BY <1>6 DEF SaveBlock, Goto, PCs, timerVars, localVars
  <2> QED
    BY <1>1, <2>1
<1>7. CASE SaveBlockFails(r)
  <2>1. Moved("fail")
    BY <1>7 DEF SaveBlockFails, Goto, PCs, timerVars, localVars
  <2> QED
    BY <1>1, <2>1
<1>8. CASE ReportError(r)
  <2>1. Moved("end")
    BY <1>8 DEF ReportError, Goto, PCs, timerVars, localVars
  <2> QED
    BY <1>1, <2>1
<1>9. CASE CountLeft(r)
  <2>1. \E to \in {"reset", "end"} : Moved(to)
    BY <1>9 DEF CountLeft, Goto, PCs, timerVars, localVars
  <2> QED
    BY <1>1, <2>1
<1>10. CASE ResetLeft(r)
  <2>1. Moved("mark")
    BY <1>10 DEF ResetLeft, Goto, PCs, timerVars, localVars
  <2> QED
    BY <1>1, <2>1
<1>11. CASE MarkDone(r)
  <2>1. /\ pc[r] = "mark" /\ pc' = [pc EXCEPT ![r] = "tally"]
        /\ status' = [status EXCEPT ![r.piece] = "DONE"]
        /\ UNCHANGED <<downloader, inHand, timer>>
        /\ downloader[r.piece] = r.conn
    BY <1>11 DEF MarkDone, Goto, Table!MarkAsDone, timerVars, localVars,
                 Reservations, SenderHolds
  <2>2. ProtocolTypeOK'
    BY <2>1 DEF Reservations, ProtocolTypeOK, PCs, Table!PieceStatus
  <2>3. ReservedHasOwner'
    BY <1>0, <2>1, ConnAssumption DEF Reservations, ProtocolTypeOK, ReservedHasOwner
  <2>4. RequesterHolds'
    BY <2>1 DEF Reservations, ProtocolTypeOK, RequesterHolds
  <2>5. SenderHolds' /\ TimerWasSent'
    BY <2>1, RequestFields
       DEF Reservations, ProtocolTypeOK, SenderHolds, TimerWasSent, Sent
  <2> QED
    BY <2>2, <2>3, <2>4, <2>5 DEF Reservations
<1>12. CASE TallyUndone(r)
  <2>1. \E to \in {"finalize", "next"} : Moved(to)
    BY <1>12 DEF TallyUndone, Goto, PCs, timerVars, localVars
  <2> QED
    BY <1>1, <2>1
<1>13. CASE Finalize(r)
  <2>1. Moved("end")
    BY <1>13 DEF Finalize, Goto, PCs, timerVars, localVars
  <2> QED
    BY <1>1, <2>1
<1>14. CASE LookUp(r)
  <2>1. \E to \in {"lock", "wait"} : Moved(to)
    BY <1>14 DEF LookUp, Goto, PCs, timerVars, localVars
  <2> QED
    BY <1>1, <2>1
<1> QED
  BY <1>2, <1>3, <1>4, <1>5, <1>6, <1>7, <1>8, <1>9, <1>10, <1>11, <1>12, <1>13,
     <1>14 DEF PieceStep

LEMMA SenderPreserves ==
    ASSUME Reservations, NEW r \in Requests, SenderStep(r)
    PROVE  Reservations'
<1>1. CASE TimerExpires(r) \/ Misfire(r) \/ JudgePeer(r)
  <2>1. /\ UNCHANGED <<tableVars, pc, inHand>>
        /\ timer[r] # "off"
        /\ \E to \in {"off", "late", "raised", "retry"} :
              timer' = [timer EXCEPT ![r] = to]
    BY <1>1 DEF TimerExpires, Misfire, JudgePeer, localVars
  <2>2. /\ timer' \in [Requests -> Timers]
        /\ \A q \in Requests : timer'[q] # "off" => timer[q] # "off"
    BY <2>1 DEF Reservations, ProtocolTypeOK, Timers
  <2> QED
    BY <2>1, <2>2, QuietElsewhere
<1>2. CASE Retry(r)
  <2>1. PICK again \in Requests :
          /\ again.conn = r.conn /\ again.piece = r.piece
          /\ timer[r] = "retry" /\ pc[again] = "idle"
          /\ timer' = [timer EXCEPT ![r] = "off", ![again] = "armed"]
          /\ pc' = [pc EXCEPT ![again] = "sent"]
          /\ UNCHANGED <<tableVars, inHand>>
    BY <1>2 DEF Retry, Send, TimerHandedOver, Requests, localVars
  <2>2. again \in Handlers /\ downloader[again.piece] = again.conn
    BY <2>1, RequestFields DEF Reservations, SenderHolds, TimerWasSent, Sent
  <2>3. ProtocolTypeOK' /\ ReservedHasOwner'
    BY <2>1, <2>2 DEF Reservations, ProtocolTypeOK, ReservedHasOwner, PCs, Timers,
                      tableVars
  <2>4. RequesterHolds'
    BY <2>1, <2>2 DEF Reservations, ProtocolTypeOK, RequesterHolds, tableVars
  <2>5. SenderHolds'
    BY <2>1, <2>2, RequestFields DEF Reservations, ProtocolTypeOK, SenderHolds, tableVars
  <2>6. TimerWasSent'
    BY <2>1, <2>2, RequestFields DEF Reservations, ProtocolTypeOK, TimerWasSent, Sent
  <2> QED
    BY <2>3, <2>4, <2>5, <2>6 DEF Reservations
<1>3. CASE SendFirst(r)
  <2>1. /\ pc[r] = "ask" /\ pc' = [pc EXCEPT ![r] = "sent"]
        /\ timer' = [timer EXCEPT ![r] = "armed"]
        /\ UNCHANGED <<tableVars, inHand>>
    BY <1>3 DEF SendFirst, Goto, localVars
  <2>2. r \in Handlers /\ downloader[r.piece] = r.conn
    BY <2>1, RequestFields DEF Reservations, SenderHolds
  <2>3. ProtocolTypeOK' /\ ReservedHasOwner'
    BY <2>1, <2>2 DEF Reservations, ProtocolTypeOK, ReservedHasOwner, PCs, Timers,
                      tableVars
  <2>4. RequesterHolds'
    BY <2>1, <2>2 DEF Reservations, ProtocolTypeOK, RequesterHolds, tableVars
  <2>5. SenderHolds'
    BY <2>1, <2>2, RequestFields DEF Reservations, ProtocolTypeOK, SenderHolds, tableVars
  <2>6. TimerWasSent'
    BY <2>1, <2>2, RequestFields DEF Reservations, ProtocolTypeOK, TimerWasSent, Sent
  <2> QED
    BY <2>3, <2>4, <2>5, <2>6 DEF Reservations
<1> QED
  BY <1>1, <1>2, <1>3 DEF SenderStep

LEMMA ReservationsStep == Reservations /\ [Next]_vars => Reservations'
<1> SUFFICES ASSUME Reservations, [Next]_vars PROVE Reservations'
  OBVIOUS
<1>1. CASE UNCHANGED vars
  BY <1>1, QuietElsewhere DEF vars, timerVars, localVars, Reservations, ProtocolTypeOK
<1>2. CASE \E h \in Handlers : Deliver(h) \/ RequestNextPiece(h)
  BY <1>2, DeliverStep, RequestNextPiecePreserves
<1>3. CASE \E a \in Announcements : AnnouncementStep(a)
  BY <1>3, AnnouncementPreserves
<1>4. CASE \E r \in Requests : PieceStep(r) \/ SenderStep(r)
  BY <1>4, PiecePreserves, SenderPreserves
<1>5. CASE \E c \in Conns : ReadTimeout(c) \/ Disconnect(c)
  BY <1>5, QuietElsewhere DEF ReadTimeout, Disconnect, timerVars, localVars,
                              Reservations, ProtocolTypeOK
<1> QED
  BY <1>1, <1>2, <1>3, <1>4, <1>5 DEF Next

(* Reservations is an invariant of the download routine. *)
THEOREM ReservationsInvariant == Spec => []Reservations
<1>1. Init => Reservations
  BY ReservationsInit
<1>2. Reservations /\ [Next]_vars => Reservations'
  BY ReservationsStep
<1> QED
  BY <1>1, <1>2, PTL DEF Spec

(* REQUESTs are sent only by the connection that reserved their piece      *)
(* (TryToReserve in RequestNextPiece, and the retries of request()).       *)
THEOREM OnlyOwnerRequestsHolds == Spec => []OnlyOwnerRequests
<1>1. Reservations => OnlyOwnerRequests
  BY RequestFields, ConnAssumption
     DEF Reservations, ReservedHasOwner, SenderHolds, OnlyOwnerRequests
<1> QED
  BY <1>1, ReservationsInvariant, PTL

(* No piece is ever requested from two peers. *)
OneSourcePerPiece ==
    \A r1, r2 \in Requests :
        Sent(r1) /\ Sent(r2) /\ r1.piece = r2.piece => r1.conn = r2.conn

(* RequestNextPiece on different connections never downloads a piece twice. *)
THEOREM OneSourcePerPieceHolds == Spec => []OneSourcePerPiece
<1>1. OnlyOwnerRequests => OneSourcePerPiece
  BY DEF OnlyOwnerRequests, OneSourcePerPiece, Sent
<1> QED
  BY <1>1, OnlyOwnerRequestsHolds, PTL

-----------------------------------------------------------------------------
(* Download implements PieceLedger *)

LEMMA LedgerInit == Init => Ledger!Init
  BY DEF Init, Table!TableInit, Ledger!Init, DonePieces

(* A step that leaves the table alone is a stuttering step of the ledger. *)
LEMMA LedgerStutter ==
    ASSUME UNCHANGED tableVars
    PROVE  UNCHANGED Ledger!vars
  BY DEF tableVars, Ledger!vars, DonePieces

LEMMA LedgerClaim ==
    ASSUME Reservations, NEW h \in Handlers, ReservePiece(h)
    PROVE  Ledger!Next
<1>1. /\ inHand[h] \in Pieces /\ h.conn \in Conns
      /\ status[inHand[h]] = "IDLE" /\ downloader[inHand[h]] = NoConn
      /\ status' = [status EXCEPT ![inHand[h]] = "DOWNLOADING"]
      /\ downloader' = [downloader EXCEPT ![inHand[h]] = h.conn]
  BY HandlerConn DEF ReservePiece, Table!Reserve, Table!CanReserve, Reservations,
                     ProtocolTypeOK, ReservedHasOwner
<1>2. DonePieces' = DonePieces
  BY <1>1 DEF DonePieces, Reservations, ProtocolTypeOK
<1>3. Ledger!Claim(inHand[h], h.conn)
  BY <1>1, <1>2 DEF Ledger!Claim
<1> QED
  BY <1>1, <1>3 DEF Ledger!Next

LEMMA LedgerFinish ==
    ASSUME Reservations, NEW r \in Requests, MarkDone(r)
    PROVE  Ledger!Next
<1>1. /\ r.piece \in Pieces /\ r.conn \in Conns /\ r \in Handlers
      /\ downloader[r.piece] = r.conn /\ UNCHANGED downloader
      /\ status' = [status EXCEPT ![r.piece] = "DONE"]
  BY RequestFields DEF MarkDone, Goto, Table!MarkAsDone, Reservations, SenderHolds
<1>2. DonePieces' = DonePieces \cup {r.piece}
  BY <1>1 DEF DonePieces, Reservations, ProtocolTypeOK
<1>3. Ledger!Finish(r.piece)
  BY <1>1, <1>2, ConnAssumption DEF Ledger!Finish
<1> QED
  BY <1>1, <1>3 DEF Ledger!Next

LEMMA LedgerStep == Reservations /\ [Next]_vars => [Ledger!Next]_(Ledger!vars)
<1> SUFFICES ASSUME Reservations, [Next]_vars
             PROVE  Ledger!Next \/ UNCHANGED Ledger!vars
  OBVIOUS
<1>1. CASE UNCHANGED tableVars
  BY <1>1, LedgerStutter
<1>2. CASE \E h \in Handlers : ReservePiece(h)
  BY <1>2, LedgerClaim
<1>3. CASE \E r \in Requests : MarkDone(r)
  BY <1>3, LedgerFinish
<1>4. ASSUME NEW h \in Handlers, Deliver(h) \/ RequestNextPiece(h)
      PROVE  UNCHANGED tableVars \/ ReservePiece(h)
  BY <1>4 DEF Deliver, RequestNextPiece, NextPiece, StopRequesting, BeginPiece, Dequeue,
              DequeueFromEmpty, Panic, AdvanceQueue, ReservationRefused, RequestBlock
<1>5. ASSUME NEW a \in Announcements, AnnouncementStep(a)
      PROVE  UNCHANGED tableVars
  BY <1>5 DEF AnnouncementStep, CheckQueue, ReadQueue, WriteQueue, StartRequester,
              StartOnEmptyQueue, Panic
<1>6. ASSUME NEW r \in Requests, PieceStep(r)
      PROVE  UNCHANGED tableVars \/ MarkDone(r)
  BY <1>6 DEF PieceStep, LookUp, ReceiveBlock, ReceiveOnNilChannel,
              ReceiveOnClosedChannel, DecrementLeft, SaveBlock, SaveBlockFails, ReportError, CountLeft,
              ResetLeft, TallyUndone, Finalize, Panic
<1>7. ASSUME NEW r \in Requests, SenderStep(r)
      PROVE  UNCHANGED tableVars
  BY <1>7 DEF SenderStep, SendFirst, TimerExpires, Misfire, JudgePeer, Retry
<1>8. CASE \E c \in Conns : ReadTimeout(c) \/ Disconnect(c)
  BY <1>8, <1>1 DEF ReadTimeout, Disconnect
<1>9. CASE UNCHANGED vars
  BY <1>9, <1>1 DEF vars
<1> QED
  BY <1>1, <1>2, <1>3, <1>4, <1>5, <1>6, <1>7, <1>8, <1>9 DEF Next

(* The download routine implements the ledger: a reservation is exclusive, *)
(* lasts for ever, and precedes MarkAsDone.                                *)
THEOREM ImplementsLedger == Spec => KeepsLedger
<1>1. Init => Ledger!Init
  BY LedgerInit
<1>2. Reservations /\ [Next]_vars => [Ledger!Next]_(Ledger!vars)
  BY LedgerStep
<1> QED
  BY <1>1, <1>2, ReservationsInvariant, PTL DEF Spec, KeepsLedger, Ledger!Spec

-----------------------------------------------------------------------------
(* Types, and the block requesters                                         *)

(* Every REQUEST is made through a requester of its connection, which has  *)
(* a channel in the block's slot ever since it was sent.                   *)
RequestedSlot(r) ==
    /\ owner[r] \in 1 .. Len(requesters[r.conn])
    /\ Sent(r) => requesters[r.conn][owner[r]].data[r.blk] # Nil

Requested == \A r \in Requests : pc[r] # "idle" => RequestedSlot(r)

(* The requester a PIECE handler waits for is no older than the one that   *)
(* asked for the block.                                                    *)
Looking(r) == pc[r] \in {"lock", "wait"}

LookedUp ==
    \A r \in Requests :
        Looking(r) => at[r] \in owner[r] .. Len(requesters[r.conn])

(* A handler inside RequestNextPiece belongs to a connection that has a    *)
(* requester.                                                              *)
Requesting == {"next", "begin", "stop", "dequeue", "advance", "reserve", "request"}

Started ==
    \A h \in Handlers :
        pc[h] \in Requesting => Len(requesters[h.conn]) >= 1

RequesterInv ==
    /\ TypeCore
    /\ Requested
    /\ LookedUp
    /\ Started
    /\ HungOnlyAfterReplacement

LEMMA RequesterFields ==
    ASSUME NEW b \in Requester
    PROVE  /\ b.total \in Nat /\ b.left \in Int /\ b.read \in Int
           /\ b.data \in [Slots -> Requests \cup {Nil}]
           /\ b.holder \in Requests \cup {Nil}
  BY DEF Requester

(* Channels are added to requesters, and requesters to connections; none   *)
(* is ever taken away.                                                     *)
Grows ==
    \A c \in Conns :
        /\ Len(requesters'[c]) \in Nat
        /\ Len(requesters[c]) <= Len(requesters'[c])
        /\ \A g \in 1 .. Len(requesters[c]), s \in Slots :
              requesters[c][g].data[s] # Nil => requesters'[c][g].data[s] # Nil

LEMMA UpdateRequester ==
    ASSUME requesters \in [Conns -> Seq(Requester)],
           NEW c \in Conns, NEW g \in 1 .. Len(requesters[c]), NEW b \in Requester,
           \A s \in Slots : requesters[c][g].data[s] # Nil => b.data[s] # Nil,
           SetRequester(c, g, b)
    PROVE  /\ requesters' \in [Conns -> Seq(Requester)]
           /\ Grows
           /\ Len(requesters'[c]) = Len(requesters[c])
           /\ requesters'[c][g] = b
<1> DEFINE s == requesters[c]
           t == [s EXCEPT ![g] = b]
<1>1. s \in Seq(Requester)
  OBVIOUS
<1>2. /\ t \in Seq(Requester) /\ Len(t) = Len(s)
      /\ \A j \in 1 .. Len(s) : t[j] = IF j = g THEN b ELSE s[j]
  BY <1>1, ExceptSeq
<1>3. requesters' = [requesters EXCEPT ![c] = t]
  BY DEF SetRequester
<1> HIDE DEF t
<1>4. requesters' \in [Conns -> Seq(Requester)] /\ requesters'[c] = t
  BY <1>2, <1>3
<1>5. Grows
  <2> SUFFICES ASSUME NEW d \in Conns
               PROVE  /\ Len(requesters'[d]) \in Nat
                      /\ Len(requesters[d]) <= Len(requesters'[d])
                      /\ \A k \in 1 .. Len(requesters[d]), x \in Slots :
                            requesters[d][k].data[x] # Nil
                                => requesters'[d][k].data[x] # Nil
    BY DEF Grows
  <2>1. requesters[d] \in Seq(Requester) /\ Len(requesters[d]) \in Nat
    BY LenProperties
  <2>2. CASE d = c
    BY <2>1, <2>2, <1>2, <1>4
  <2>3. CASE d # c
    <3>1. requesters'[d] = requesters[d]
      BY <2>3, <1>3
    <3> QED
      BY <2>1, <3>1
  <2> QED
    BY <2>2, <2>3
<1> QED
  BY <1>2, <1>4, <1>5

LEMMA AppendRequester ==
    ASSUME requesters \in [Conns -> Seq(Requester)],
           NEW c \in Conns, NEW b \in Requester,
           requesters' = [requesters EXCEPT ![c] = Append(@, b)]
    PROVE  /\ requesters' \in [Conns -> Seq(Requester)]
           /\ Grows
           /\ Len(requesters'[c]) >= 1
<1> DEFINE s == requesters[c]
           t == Append(s, b)
<1>1. s \in Seq(Requester) /\ Len(s) \in Nat
  BY LenProperties
<1>2. /\ t \in Seq(Requester) /\ Len(t) = Len(s) + 1
      /\ \A j \in 1 .. Len(s) : t[j] = s[j]
  BY <1>1, AppendProperties
<1>3. requesters' = [requesters EXCEPT ![c] = t]
  BY DEF SetRequester
<1> HIDE DEF t
<1>4. requesters' \in [Conns -> Seq(Requester)] /\ requesters'[c] = t
  BY <1>2, <1>3
<1>5. ASSUME NEW d \in Conns
      PROVE  /\ Len(requesters'[d]) \in Nat
             /\ Len(requesters[d]) <= Len(requesters'[d])
             /\ \A k \in 1 .. Len(requesters[d]) :
                   requesters'[d][k] = requesters[d][k]
  <2>1. requesters[d] \in Seq(Requester) /\ Len(requesters[d]) \in Nat
    BY LenProperties
  <2>2. CASE d = c
    BY <2>2, <1>1, <1>2, <1>4
  <2>3. CASE d # c
    <3>1. requesters'[d] = requesters[d]
      BY <2>3, <1>3
    <3> QED
      BY <2>1, <3>1
  <2> QED
    BY <2>2, <2>3
<1>6. Grows
  BY <1>5 DEF Grows
<1> QED
  BY <1>1, <1>2, <1>4, <1>6

(* What a step must respect to keep the invariant when no REQUEST is made  *)
(* or sent and a handler hangs only on a replaced requester.               *)
LEMMA KeepsInv ==
    ASSUME RequesterInv, TypeCore', Grows, UNCHANGED owner,
           \A r \in Requests : pc'[r] # "idle" => pc[r] # "idle",
           \A r \in Requests : Sent(r)' => Sent(r),
           \A r \in Requests :
               Looking(r)' => \/ Looking(r) /\ at'[r] = at[r]
                              \/ at'[r] = Len(requesters[r.conn]),
           \A r \in Requests :
               pc'[r] = "hung" => \/ pc[r] = "hung"
                                  \/ owner[r] < Len(requesters[r.conn]),
           \A h \in Handlers :
               pc'[h] \in Requesting =>
                   \/ pc[h] \in Requesting
                   \/ Len(requesters'[h.conn]) >= 1
    PROVE  RequesterInv'
<1> USE RequestFields, HandlerConn DEF RequesterInv
<1>0. ASSUME NEW c \in Conns PROVE Len(requesters[c]) \in Nat
  BY LenProperties DEF TypeCore
<1>1. Requested'
  <2> SUFFICES ASSUME NEW r \in Requests, pc'[r] # "idle"
               PROVE  RequestedSlot(r)'
    BY DEF Requested
  <2>1. RequestedSlot(r)
    BY DEF Requested
  <2> QED
    BY <2>1, <1>0 DEF RequestedSlot, Grows
<1>2. LookedUp'
  <2> SUFFICES ASSUME NEW r \in Requests, Looking(r)'
               PROVE  at'[r] \in owner[r] .. Len(requesters'[r.conn])
    BY DEF LookedUp
  <2>1. pc[r] # "idle"
    BY DEF Looking
  <2>2. owner[r] \in 1 .. Len(requesters[r.conn])
    BY <2>1 DEF Requested, RequestedSlot
  <2>3. at'[r] \in owner[r] .. Len(requesters[r.conn])
    BY <2>2, <1>0 DEF LookedUp
  <2> QED
    BY <2>3, <1>0 DEF Grows
<1>3. Started'
  BY <1>0 DEF Started, Grows
<1>4. HungOnlyAfterReplacement'
  <2> SUFFICES ASSUME NEW r \in Requests, pc'[r] = "hung"
               PROVE  owner[r] < Len(requesters'[r.conn])
    BY DEF HungOnlyAfterReplacement
  <2>1. owner[r] < Len(requesters[r.conn]) /\ owner[r] \in Nat
    BY DEF HungOnlyAfterReplacement, TypeCore
  <2> QED
    BY <2>1, <1>0 DEF Grows
<1> QED
  BY <1>1, <1>2, <1>3, <1>4

LEMMA HasRequester ==
    ASSUME RequesterInv, NEW r \in Requests, pc[r] # "idle"
    PROVE  /\ Len(requesters[r.conn]) \in Nat /\ Len(requesters[r.conn]) >= 1
           /\ owner[r] \in 1 .. Len(requesters[r.conn])
<1>1. r.conn \in Conns /\ requesters \in [Conns -> Seq(Requester)]
  BY RequestFields DEF RequesterInv, TypeCore
<1>2. owner[r] \in 1 .. Len(requesters[r.conn])
  BY DEF RequesterInv, Requested, RequestedSlot
<1> QED
  BY <1>1, <1>2, LenProperties

(* Steps of one handler, in which requesters and channels at most grow. *)
LEMMA GrowingMove ==
    ASSUME RequesterInv, TypeCore', Grows, UNCHANGED owner,
           NEW h \in Handlers, NEW to,
           to \notin {"idle", "hung", "lock", "wait"},
           h \in Requests => Sent(h),
           to \in Requesting => h \in Requests \/ pc[h] \in Requesting,
           pc' = [pc EXCEPT ![h] = to],
           \A q \in Requests : q # h => at'[q] = at[q]
    PROVE  RequesterInv'
<1>1. pc \in [Handlers -> PCs] /\ Requests \subseteq Handlers
  BY DEF RequesterInv, TypeCore, Handlers
<1>2. h \in Requests => Len(requesters'[h.conn]) >= 1
  BY HasRequester, RequestFields DEF Sent, Grows
<1>3. /\ \A q \in Requests : pc'[q] # "idle" => pc[q] # "idle"
      /\ \A q \in Requests : Sent(q)' => Sent(q)
  BY <1>1 DEF Sent
<1>4. \A q \in Requests : Looking(q)' => Looking(q) /\ at'[q] = at[q]
  BY <1>1 DEF Looking
<1>5. \A q \in Requests : pc'[q] = "hung" => pc[q] = "hung"
  BY <1>1
<1>6. \A k \in Handlers : pc'[k] \in Requesting =>
          pc[k] \in Requesting \/ Len(requesters'[k.conn]) >= 1
  BY <1>1, <1>2
<1> QED
  BY <1>3, <1>4, <1>5, <1>6, KeepsInv

LEMMA SameRequesters ==
    ASSUME RequesterInv, UNCHANGED requesters
    PROVE  Grows
  BY LenProperties DEF Grows, RequesterInv, TypeCore

(* Steps of one handler that touch no requester. *)
LEMMA HandlerMove ==
    ASSUME RequesterInv, TypeCore', UNCHANGED <<requesters, owner, at>>,
           NEW h \in Handlers, NEW to,
           to \notin {"idle", "hung", "lock", "wait"},
           h \in Requests => Sent(h),
           to \in Requesting => h \in Requests \/ pc[h] \in Requesting,
           pc' = [pc EXCEPT ![h] = to]
    PROVE  RequesterInv'
  BY SameRequesters, GrowingMove

(* Steps of timers, connections and panics. *)
LEMMA NoHandlerMove ==
    ASSUME RequesterInv, TypeCore', UNCHANGED <<requesters, owner, at, pc>>
    PROVE  RequesterInv'
  BY SameRequesters, KeepsInv DEF Sent, Looking

LEMMA InitRequesterInv == Init => RequesterInv
<1> SUFFICES ASSUME Init PROVE RequesterInv
  OBVIOUS
<1> USE DEF Init, Table!TableInit
<1>1. TypeCore
  <2>1. 0 \in Pieces
    BY CountAssumption DEF Pieces
  <2>2. <<>> \in Seq(Requester)
    BY EmptySeq
  <2>3. Table!TableTypeOK
    BY DEF Table!TableTypeOK, Table!PieceStatus
  <2> QED
    BY <2>1, <2>2, <2>3 DEF TypeCore, PCs, Timers
<1>2. Requested /\ LookedUp /\ Started /\ HungOnlyAfterReplacement
  BY RequestFields DEF Requested, LookedUp, Looking, Started, Requesting,
                       HungOnlyAfterReplacement
<1> QED
  BY <1>1, <1>2 DEF RequesterInv

LEMMA DeliverKeeps ==
    ASSUME RequesterInv, NEW h \in Handlers, Deliver(h)
    PROVE  RequesterInv'
<1> DEFINE to == IF h \in Requests THEN "recv" ELSE "check"
<1>1. /\ pc' = [pc EXCEPT ![h] = to]
      /\ h \in Requests => Sent(h)
      /\ to \in PCs /\ to \notin {"idle", "hung", "lock", "wait"}
      /\ to \notin Requesting
  BY DEF Deliver, Goto, PCs, Requesting, Sent
<1> HIDE DEF to
<1>2. TypeCore'
  BY <1>1 DEF Deliver, RequesterInv, TypeCore, Table!TableTypeOK, tableVars, timerVars,
              localVars, fileVars, clientVars
<1> QED
  BY <1>1, <1>2, HandlerMove DEF Deliver, timerVars, localVars

LEMMA AnnouncementKeeps ==
    ASSUME RequesterInv, NEW a \in Announcements, AnnouncementStep(a)
    PROVE  RequesterInv'
<1>0. a \in Handlers /\ a \notin Requests
  BY NilAssumption DEF Handlers
<1> USE DEF RequesterInv, TypeCore, Table!TableTypeOK, tableVars, timerVars,
            localVars, fileVars, clientVars
<1>1. CASE CheckQueue(a)
  <2>1. \E to \in {"end", "read"} : pc' = [pc EXCEPT ![a] = to]
    BY <1>1 DEF CheckQueue, Goto
  <2>2. TypeCore'
    BY <1>1, <2>1 DEF CheckQueue, PCs
  <2> QED
    BY <1>0, <1>1, <2>1, <2>2, HandlerMove DEF CheckQueue, Requesting
<1>2. CASE ReadQueue(a)
  <2>1. TypeCore'
    BY <1>2 DEF ReadQueue, Goto, PCs
  <2> QED
    BY <1>0, <1>2, <2>1, HandlerMove DEF ReadQueue, Goto, Requesting
<1>3. CASE WriteQueue(a)
  <2>1. \E to \in {"start", "end"} : pc' = [pc EXCEPT ![a] = to]
    BY <1>3 DEF WriteQueue, Goto
  <2>2. TypeCore'
    BY <1>3, <2>1 DEF WriteQueue, PCs
  <2> QED
    BY <1>0, <1>3, <2>1, <2>2, HandlerMove DEF WriteQueue, Requesting
<1>4. CASE StartOnEmptyQueue(a)
  <2>1. TypeCore'
    BY <1>4 DEF StartOnEmptyQueue, Panic
  <2> QED
    BY <1>4, <2>1, NoHandlerMove DEF StartOnEmptyQueue, Panic
<1>5. CASE StartRequester(a)
  <2>1. PICK p \in Pieces : requesters' = [requesters EXCEPT ![a.conn] =
                                              Append(@, NewBlockRequester(p))]
    BY <1>5 DEF StartRequester
  <2>2. NewBlockRequester(p) \in Requester
    BY CountAssumption DEF NewBlockRequester, Requester
  <2>3. /\ requesters' \in [Conns -> Seq(Requester)] /\ Grows
        /\ Len(requesters'[a.conn]) >= 1
    BY <1>0, <2>1, <2>2, HandlerConn, AppendRequester
  <2>4. TypeCore'
    BY <1>5, <2>3 DEF StartRequester, Goto, PCs
  <2>5. pc' = [pc EXCEPT ![a] = "next"] /\ UNCHANGED <<owner, at>>
    BY <1>5 DEF StartRequester, Goto
  <2>6. \A r \in Requests : pc'[r] = pc[r]
    BY <1>0, <2>5, RequestFields
  <2>7. \A h \in Handlers : pc'[h] \in Requesting =>
            pc[h] \in Requesting \/ Len(requesters'[h.conn]) >= 1
    BY <1>0, <2>3, <2>5
  <2> QED
    BY <2>3, <2>4, <2>5, <2>6, <2>7, KeepsInv DEF Sent, Looking
<1> QED
  BY <1>1, <1>2, <1>3, <1>4, <1>5 DEF AnnouncementStep

(* Request r makes its channel through requester g. *)
LEMMA ChannelMade ==
    ASSUME requesters \in [Conns -> Seq(Requester)],
           NEW r \in Requests, NEW g \in 1 .. Len(requesters[r.conn]),
           MakeChannel(r, g)
    PROVE  /\ requesters' \in [Conns -> Seq(Requester)]
           /\ Grows
           /\ g <= Len(requesters'[r.conn])
           /\ requesters'[r.conn][g].data[r.blk] # Nil
<1> DEFINE c == r.conn
           old == requesters[c][g]
<1>0. c \in Conns /\ r.blk \in Slots /\ r # Nil
  BY RequestFields, NilAssumption
<1>1. old \in Requester /\ Len(requesters[c]) \in Nat
  BY <1>0, LenProperties, ElementOfSeq
<1>2. PICK b \in Requester : /\ SetRequester(c, g, b)
                             /\ b.data = [old.data EXCEPT ![r.blk] = r]
  <2> DEFINE b == [old EXCEPT !.data[r.blk] = r]
  <2>1. b \in Requester /\ b.data = [old.data EXCEPT ![r.blk] = r]
    BY <1>0, <1>1, RequesterFields DEF Requester
  <2>2. SetRequester(c, g, b)
    BY DEF MakeChannel
  <2> HIDE DEF b
  <2> QED
    BY <2>1, <2>2 DEF SetRequester
<1>3. old.data \in [Slots -> Requests \cup {Nil}]
  BY <1>1, RequesterFields
<1>4. /\ \A s \in Slots : old.data[s] # Nil => b.data[s] # Nil
      /\ b.data[r.blk] # Nil
  BY <1>0, <1>2, <1>3
<1>5. /\ requesters' \in [Conns -> Seq(Requester)] /\ Grows
      /\ Len(requesters'[c]) = Len(requesters[c])
      /\ requesters'[c][g] = b
  <2>1. /\ g \in 1 .. Len(requesters[c])
        /\ \A s \in Slots : requesters[c][g].data[s] # Nil => b.data[s] # Nil
    BY <1>4
  <2>2. SetRequester(c, g, b)
    BY <1>2
  <2> HIDE DEF c, old
  <2> QED
    BY <1>0, <2>1, <2>2, UpdateRequester
<1> QED
  BY <1>1, <1>4, <1>5

(* A requester is locked, released or reset; its channels stay. *)
LEMMA RequesterUpdated ==
    ASSUME requesters \in [Conns -> Seq(Requester)],
           NEW c \in Conns, NEW g \in 1 .. Len(requesters[c]),
           NEW b \in Requester, b.data = requesters[c][g].data,
           SetRequester(c, g, b)
    PROVE  requesters' \in [Conns -> Seq(Requester)] /\ Grows
<1>1. \A s \in Slots : requesters[c][g].data[s] # Nil => b.data[s] # Nil
  OBVIOUS
<1> QED
  BY <1>1, UpdateRequester

LEMMA CurrentIsRequester ==
    ASSUME RequesterInv, NEW r \in Requests, pc[r] # "idle"
    PROVE  /\ Len(requesters[r.conn]) \in 1 .. Len(requesters[r.conn])
           /\ Current(r.conn) \in Requester
<1>1. r.conn \in Conns /\ requesters \in [Conns -> Seq(Requester)]
  BY RequestFields DEF RequesterInv, TypeCore
<1> QED
  BY <1>1, HasRequester, ElementOfSeq DEF Current

LEMMA LookedIsRequester ==
    ASSUME RequesterInv, NEW r \in Requests, Looking(r)
    PROVE  /\ at[r] \in 1 .. Len(requesters[r.conn])
           /\ owner[r] <= at[r]
           /\ Looked(r) \in Requester
<1>1. r.conn \in Conns /\ requesters \in [Conns -> Seq(Requester)]
  BY RequestFields DEF RequesterInv, TypeCore
<1>2. Len(requesters[r.conn]) \in Nat /\ owner[r] \in 1 .. Len(requesters[r.conn])
  BY HasRequester DEF Looking
<1>3. at[r] \in owner[r] .. Len(requesters[r.conn])
  BY DEF RequesterInv, LookedUp
<1>4. at[r] \in 1 .. Len(requesters[r.conn]) /\ owner[r] <= at[r]
  BY <1>2, <1>3
<1> QED
  BY <1>1, <1>4, ElementOfSeq DEF Looked

(* Steps that send request r through requester g. *)
LEMMA SendKeeps ==
    ASSUME RequesterInv, TypeCore',
           NEW r \in Requests, NEW g \in 1 .. Len(requesters[r.conn]), Send(r, g),
           owner' = [owner EXCEPT ![r] = g],
           pc' = [pc EXCEPT ![r] = "sent"],
           UNCHANGED at
    PROVE  RequesterInv'
<1> USE RequestFields, HandlerConn
<1>1. /\ requesters \in [Conns -> Seq(Requester)] /\ owner \in [Requests -> Nat]
      /\ pc \in [Handlers -> PCs]
      /\ \A c \in Conns : Len(requesters[c]) \in Nat
  BY LenProperties DEF RequesterInv, TypeCore
<1>2. /\ Grows /\ g <= Len(requesters'[r.conn])
      /\ requesters'[r.conn][g].data[r.blk] # Nil
  BY <1>1, ChannelMade DEF Send
<1>3. pc'[r] = "sent" /\ \A h \in Handlers \ {r} : pc'[h] = pc[h]
  BY <1>1
<1>4. Requested'
  <2> SUFFICES ASSUME NEW q \in Requests, pc'[q] # "idle"
               PROVE  RequestedSlot(q)'
    BY DEF Requested
  <2>1. CASE q = r
    BY <2>1, <1>1, <1>2 DEF RequestedSlot, Grows
  <2>2. CASE q # r
    <3>1. RequestedSlot(q) /\ pc'[q] = pc[q]
      BY <2>2, <1>3 DEF RequesterInv, Requested, Handlers
    <3>2. owner'[q] = owner[q]
      BY <2>2, <1>1
    <3> QED
      BY <3>1, <3>2, <1>1, <1>2 DEF RequestedSlot, Grows, Sent
  <2> QED
    BY <2>1, <2>2
<1>5. LookedUp'
  <2> SUFFICES ASSUME NEW q \in Requests, Looking(q)'
               PROVE  at'[q] \in owner'[q] .. Len(requesters'[q.conn])
    BY DEF LookedUp
  <2>1. q # r /\ Looking(q) /\ owner'[q] = owner[q]
    BY <1>1, <1>3 DEF Looking, Handlers
  <2>2. at'[q] = at[q] /\ at[q] \in owner[q] .. Len(requesters[q.conn])
    BY <2>1 DEF RequesterInv, LookedUp
  <2>3. Len(requesters[q.conn]) <= Len(requesters'[q.conn])
    BY <1>2 DEF Grows
  <2>4. /\ owner[q] \in Nat /\ Len(requesters[q.conn]) \in Nat
        /\ Len(requesters'[q.conn]) \in Nat
    BY <1>1, LenProperties DEF TypeCore
  <2> QED
    BY <2>1, <2>2, <2>3, <2>4
<1>6. Started'
  <2> SUFFICES ASSUME NEW k \in Handlers, pc'[k] \in Requesting
               PROVE  Len(requesters'[k.conn]) >= 1
    BY DEF Started
  <2>1. pc[k] \in Requesting
    BY <1>3 DEF Requesting
  <2> QED
    BY <2>1, <1>1, <1>2 DEF RequesterInv, Started, Grows
<1>7. HungOnlyAfterReplacement'
  <2> SUFFICES ASSUME NEW q \in Requests, pc'[q] = "hung"
               PROVE  owner'[q] < Len(requesters'[q.conn])
    BY DEF HungOnlyAfterReplacement
  <2>1. q # r /\ pc[q] = "hung"
    BY <1>3 DEF Handlers
  <2>2. owner'[q] = owner[q]
    BY <2>1, <1>1
  <2> QED
    BY <2>1, <2>2, <1>1, <1>2 DEF RequesterInv, HungOnlyAfterReplacement, Grows
<1> QED
  BY <1>4, <1>5, <1>6, <1>7 DEF RequesterInv

(* A block's request gets the requester that is current. *)
LEMMA RequestBlockKeeps ==
    ASSUME RequesterInv, NEW h \in Handlers, RequestBlock(h)
    PROVE  RequesterInv'
<1>0. /\ h.conn \in Conns /\ requesters \in [Conns -> Seq(Requester)]
      /\ pc \in [Handlers -> PCs] /\ Requests \subseteq Handlers
      /\ owner \in [Requests -> Nat] /\ 0 \in Pieces
  BY HandlerConn, CountAssumption DEF RequesterInv, TypeCore, Handlers, Pieces
<1>1. pc[h] = "request" /\ Len(requesters[h.conn]) \in Nat /\ Len(requesters[h.conn]) >= 1
  BY <1>0, LenProperties DEF RequestBlock, RequesterInv, Started, Requesting
<1>2. PICK r \in Requests :
         /\ r.conn = h.conn /\ pc[r] = "idle"
         /\ owner' = [owner EXCEPT ![r] = Len(requesters[h.conn])]
         /\ \E last \in BOOLEAN :
               /\ pc' = [pc EXCEPT ![r] = "ask", ![h] = IF last THEN "end" ELSE @]
               /\ nextBlock' = [nextBlock EXCEPT ![h] = IF last THEN 0 ELSE @ + 1]
               /\ inHand' = [inHand EXCEPT ![h] = IF last THEN 0 ELSE @]
         /\ UNCHANGED <<tableVars, queue, requesters, closed, timer, tally, misfires,
                        weak, first, seen, at, fileVars, clientVars>>
  BY DEF RequestBlock, IsLast
<1>3. r # h /\ pc'[r] = "ask"
      /\ \A k \in Handlers \ {r} : \/ pc'[k] = pc[k]
                                   \/ pc[k] = "request" /\ pc'[k] = "end"
  BY <1>0, <1>1, <1>2
<1>4. TypeCore'
  <2>1. pc' \in [Handlers -> PCs]
    BY <1>0, <1>2 DEF PCs
  <2>2. /\ owner' \in [Requests -> Nat]
        /\ nextBlock' \in [Handlers -> Nat] /\ inHand' \in [Handlers -> Pieces]
    BY <1>0, <1>1, <1>2 DEF RequesterInv, TypeCore
  <2> QED
    BY <1>2, <2>1, <2>2
    DEF RequesterInv, TypeCore, Table!TableTypeOK, tableVars, fileVars, clientVars
<1>5. ASSUME NEW q \in Requests, q # r PROVE owner'[q] = owner[q] /\ q \in Handlers \ {r}
  BY <1>0, <1>2, <1>5
<1>6. Requested'
  <2> SUFFICES ASSUME NEW q \in Requests, pc'[q] # "idle"
               PROVE  RequestedSlot(q)'
    BY DEF Requested
  <2>1. CASE q = r
    BY <2>1, <1>0, <1>1, <1>2, <1>3 DEF RequestedSlot, Sent
  <2>2. CASE q # r
    <3>1. pc[q] # "idle" /\ (Sent(q)' => Sent(q)) /\ owner'[q] = owner[q]
      BY <2>2, <1>3, <1>5 DEF Sent
    <3> QED
      BY <3>1, <1>2 DEF RequesterInv, Requested, RequestedSlot
  <2> QED
    BY <2>1, <2>2
<1>7. LookedUp'
  <2> SUFFICES ASSUME NEW q \in Requests, Looking(q)'
               PROVE  at'[q] \in owner'[q] .. Len(requesters'[q.conn])
    BY DEF LookedUp
  <2>1. q # r
    BY <1>3 DEF Looking
  <2>2. Looking(q) /\ owner'[q] = owner[q]
    BY <2>1, <1>3, <1>5 DEF Looking
  <2> QED
    BY <2>2, <1>2 DEF RequesterInv, LookedUp
<1>8. Started'
  <2> SUFFICES ASSUME NEW k \in Handlers, pc'[k] \in Requesting
               PROVE  Len(requesters'[k.conn]) >= 1
    BY DEF Started
  <2>1. k # r
    BY <1>3 DEF Requesting
  <2>2. pc[k] \in Requesting
    BY <2>1, <1>3 DEF Requesting
  <2> QED
    BY <2>2, <1>2 DEF RequesterInv, Started
<1>9. HungOnlyAfterReplacement'
  <2> SUFFICES ASSUME NEW q \in Requests, pc'[q] = "hung"
               PROVE  owner'[q] < Len(requesters'[q.conn])
    BY DEF HungOnlyAfterReplacement
  <2>1. q # r
    BY <1>3
  <2>2. pc[q] = "hung" /\ owner'[q] = owner[q]
    BY <2>1, <1>3, <1>5
  <2> QED
    BY <2>2, <1>2 DEF RequesterInv, HungOnlyAfterReplacement
<1> QED
  BY <1>4, <1>6, <1>7, <1>8, <1>9 DEF RequesterInv

LEMMA RequestNextPieceKeeps ==
    ASSUME RequesterInv, NEW h \in Handlers, RequestNextPiece(h)
    PROVE  RequesterInv'
<1> USE HandlerConn DEF RequesterInv, TypeCore, Table!TableTypeOK, tableVars,
            timerVars, localVars, fileVars, clientVars
<1>1. CASE NextPiece(h)
  <2>1. \E to \in {"stop", "begin"} : pc' = [pc EXCEPT ![h] = to]
    BY <1>1 DEF NextPiece, Goto
  <2>2. TypeCore'
    BY <1>1, <2>1 DEF NextPiece, PCs
  <2> QED
    BY <1>1, <2>1, <2>2, HandlerMove DEF NextPiece, Goto, Requesting, Sent
<1>2. CASE Dequeue(h)
  <2>1. TypeCore'
    BY <1>2 DEF Dequeue, Goto, PCs
  <2> QED
    BY <1>2, <2>1, HandlerMove DEF Dequeue, Goto, Requesting, Sent
<1>3. CASE DequeueFromEmpty(h)
  <2>1. TypeCore'
    BY <1>3 DEF DequeueFromEmpty, Panic
  <2> QED
    BY <1>3, <2>1, NoHandlerMove DEF DequeueFromEmpty, Panic
<1>4. CASE AdvanceQueue(h)
  <2>1. TypeCore'
    BY <1>4 DEF AdvanceQueue, Goto, PCs
  <2> QED
    BY <1>4, <2>1, HandlerMove DEF AdvanceQueue, Goto, Requesting, Sent
<1>5. CASE ReservePiece(h)
  <2>1. TypeCore'
    BY <1>5 DEF ReservePiece, Table!Reserve, Table!PieceStatus, Goto, PCs
  <2> QED
    BY <1>5, <2>1, HandlerMove DEF ReservePiece, Goto, Requesting, Sent
<1>6. CASE ReservationRefused(h)
  <2>1. TypeCore'
    BY <1>6, CountAssumption DEF ReservationRefused, Goto, PCs, Pieces
  <2> QED
    BY <1>6, <2>1, HandlerMove DEF ReservationRefused, Goto, Requesting, Sent
<1>7. CASE RequestBlock(h)
  BY <1>7, RequestBlockKeeps
<1>8. CASE StopRequesting(h)
  <2>1. TypeCore'
    BY <1>8 DEF StopRequesting, Goto, PCs
  <2> QED
    BY <1>8, <2>1, HandlerMove DEF StopRequesting, Goto, Requesting, Sent
<1>9. CASE BeginPiece(h)
  <2>1. TypeCore'
    BY <1>9 DEF BeginPiece, Goto, PCs
  <2> QED
    BY <1>9, <2>1, HandlerMove DEF BeginPiece, Goto, Requesting, Sent
<1> QED
  BY <1>1, <1>2, <1>3, <1>4, <1>5, <1>6, <1>7, <1>8, <1>9 DEF RequestNextPiece

(* Steps of a PIECE handler that update a requester. *)
LEMMA RequesterMove ==
    ASSUME RequesterInv, NEW r \in Requests, Sent(r),
           NEW g \in 1 .. Len(requesters[r.conn]),
           NEW b \in Requester, b.data = requesters[r.conn][g].data,
           SetRequester(r.conn, g, b),
           UNCHANGED owner, NEW to, to \notin {"idle", "hung", "lock", "wait"},
           pc' = [pc EXCEPT ![r] = to],
           \A q \in Requests : q # r => at'[q] = at[q],
           requesters' \in [Conns -> Seq(Requester)] => TypeCore'
    PROVE  RequesterInv'
<1>1. /\ r.conn \in Conns /\ requesters \in [Conns -> Seq(Requester)]
      /\ r \in Handlers
  BY RequestFields DEF RequesterInv, TypeCore
<1>2. requesters' \in [Conns -> Seq(Requester)] /\ Grows
  BY <1>1, RequesterUpdated
<1> QED
  BY <1>1, <1>2, GrowingMove

LEMMA ReceiveKeeps ==
    ASSUME RequesterInv, NEW r \in Requests, ReceiveBlock(r)
    PROVE  RequesterInv'
<1> DEFINE got == Looked(r)
<1>1. pc[r] = "lock" /\ pc' = [pc EXCEPT ![r] = "decrement"]
  BY DEF ReceiveBlock, Goto
<1>2. PICK g \in 1 .. Len(requesters[r.conn]) : g = at[r]
  BY <1>1, LookedIsRequester DEF Looking
<1>3. got \in Requester /\ r.blk \in Slots /\ got = requesters[r.conn][g]
  BY <1>1, <1>2, LookedIsRequester, RequestFields DEF Looking, Looked
<1>4. PICK b \in Requester : b.data = got.data /\ SetRequester(r.conn, g, b)
  <2> DEFINE b == [got EXCEPT !.holder = r, !.read = got.left]
  <2>1. b \in Requester /\ b.data = got.data
    BY <1>3 DEF Requester
  <2>2. SetRequester(r.conn, g, b)
    BY <1>2 DEF ReceiveBlock
  <2> HIDE DEF b
  <2> QED
    BY <2>1, <2>2 DEF SetRequester
<1>5. got.data[r.blk] \in Requests
  BY <1>3, RequesterFields DEF ReceiveBlock
<1>6. UNCHANGED owner /\ at' = [at EXCEPT ![r] = 0]
  BY DEF ReceiveBlock
<1>7. requesters' \in [Conns -> Seq(Requester)] => TypeCore'
  <2>1. pc' \in [Handlers -> PCs] /\ closed' \subseteq Requests
        /\ timer' \in [Requests -> Timers]
    BY <1>1, <1>5 DEF ReceiveBlock, RequesterInv, TypeCore, PCs, Timers
  <2>2. at' \in [Requests -> Nat]
    BY <1>6 DEF RequesterInv, TypeCore
  <2> QED
    BY <2>1, <2>2 DEF ReceiveBlock, RequesterInv, TypeCore, Table!TableTypeOK,
                      tableVars, fileVars, clientVars
<1>8. \A q \in Requests : q # r => at'[q] = at[q]
  BY <1>6 DEF RequesterInv, TypeCore
<1> HIDE DEF got
<1>9. b.data = requesters[r.conn][g].data /\ Sent(r)
  BY <1>1, <1>3, <1>4 DEF Sent
<1> QED
  BY <1>1, <1>4, <1>6, <1>7, <1>8, <1>9, RequesterMove

LEMMA ReceiveOnNilKeeps ==
    ASSUME RequesterInv, NEW r \in Requests, ReceiveOnNilChannel(r)
    PROVE  RequesterInv'
<1> DEFINE got == Looked(r)
<1>1. /\ pc[r] = "lock" /\ pc' = [pc EXCEPT ![r] = "hung"] /\ UNCHANGED owner
      /\ at' = [at EXCEPT ![r] = 0]
  BY DEF ReceiveOnNilChannel, Goto, timerVars
<1>2. PICK g \in 1 .. Len(requesters[r.conn]) : g = at[r] /\ owner[r] <= g
  BY <1>1, LookedIsRequester DEF Looking
<1>3. got \in Requester /\ got = requesters[r.conn][g]
  BY <1>1, <1>2, LookedIsRequester DEF Looking, Looked
<1>4. PICK b \in Requester : b.data = got.data /\ SetRequester(r.conn, g, b)
  <2> DEFINE b == [got EXCEPT !.holder = r]
  <2>1. b \in Requester /\ b.data = got.data
    BY <1>3 DEF Requester
  <2>2. SetRequester(r.conn, g, b)
    BY <1>2 DEF ReceiveOnNilChannel
  <2> HIDE DEF b
  <2> QED
    BY <2>1, <2>2 DEF SetRequester
<1>5. /\ r.conn \in Conns /\ requesters \in [Conns -> Seq(Requester)]
      /\ pc \in [Handlers -> PCs] /\ at \in [Requests -> Nat]
  BY RequestFields DEF RequesterInv, TypeCore
<1>6. requesters' \in [Conns -> Seq(Requester)] /\ Grows
  BY <1>3, <1>4, <1>5, RequesterUpdated
<1>7. owner[r] < Len(requesters[r.conn])
  <2>1. RequestedSlot(r)
    BY <1>1 DEF RequesterInv, Requested
  <2>2. requesters[r.conn][owner[r]].data[r.blk] # Nil
    BY <1>1, <2>1 DEF RequestedSlot, Sent
  <2>3. requesters[r.conn][g].data[r.blk] = Nil
    BY <1>3 DEF ReceiveOnNilChannel
  <2>4. owner[r] # g
    BY <2>2, <2>3
  <2>5. Len(requesters[r.conn]) \in Nat /\ owner[r] \in Nat
    BY <1>1, HasRequester
  <2> QED
    BY <2>4, <2>5, <1>2
<1>8. TypeCore'
  <2>1. pc' \in [Handlers -> PCs] /\ at' \in [Requests -> Nat]
    BY <1>1, <1>5 DEF PCs
  <2> QED
    BY <1>6, <2>1 DEF ReceiveOnNilChannel, RequesterInv, TypeCore, Table!TableTypeOK,
                      tableVars, timerVars, fileVars, clientVars
<1>9. /\ \A q \in Requests : pc'[q] # "idle" => pc[q] # "idle"
      /\ \A q \in Requests : Sent(q)' => Sent(q)
      /\ \A q \in Requests : Looking(q)' => Looking(q) /\ at'[q] = at[q]
      /\ \A q \in Requests : pc'[q] = "hung" =>
             pc[q] = "hung" \/ owner[q] < Len(requesters[q.conn])
      /\ \A h \in Handlers : pc'[h] \in Requesting => pc[h] \in Requesting
  BY <1>1, <1>5, <1>7 DEF Handlers, Requesting, Sent, Looking
<1> QED
  BY <1>1, <1>6, <1>8, <1>9, KeepsInv

LEMMA LookUpKeeps ==
    ASSUME RequesterInv, NEW r \in Requests, LookUp(r)
    PROVE  RequesterInv'
<1>1. PICK to \in {"lock", "wait"} : pc' = [pc EXCEPT ![r] = to]
  BY DEF LookUp, Goto
<1>2. /\ Sent(r) /\ at' = [at EXCEPT ![r] = Len(requesters[r.conn])]
      /\ UNCHANGED <<requesters, owner>>
  BY DEF LookUp, Goto, Sent, timerVars
<1>3. /\ pc \in [Handlers -> PCs] /\ at \in [Requests -> Nat] /\ r \in Handlers
      /\ Len(requesters[r.conn]) \in Nat
  BY <1>2, HasRequester, RequestFields DEF RequesterInv, TypeCore, Sent
<1>4. TypeCore'
  <2>1. pc' \in [Handlers -> PCs] /\ at' \in [Requests -> Nat]
    BY <1>1, <1>2, <1>3 DEF PCs
  <2> QED
    BY <2>1 DEF LookUp, RequesterInv, TypeCore, Table!TableTypeOK, tableVars,
                timerVars, fileVars, clientVars
<1>5. /\ \A q \in Requests : pc'[q] # "idle" => pc[q] # "idle"
      /\ \A q \in Requests : Sent(q)' => Sent(q)
      /\ \A q \in Requests : Looking(q)' => \/ Looking(q) /\ at'[q] = at[q]
                                            \/ at'[q] = Len(requesters[q.conn])
      /\ \A q \in Requests : pc'[q] = "hung" => pc[q] = "hung"
      /\ \A h \in Handlers : pc'[h] \in Requesting => pc[h] \in Requesting
  BY <1>1, <1>2, <1>3 DEF Handlers, Requesting, Sent, Looking
<1>6. Grows
  BY <1>2, SameRequesters
<1> QED
  BY <1>2, <1>4, <1>5, <1>6, KeepsInv

LEMMA DecrementKeeps ==
    ASSUME RequesterInv, NEW r \in Requests, DecrementLeft(r)
    PROVE  RequesterInv'
<1>0. r.conn \in Conns /\ requesters \in [Conns -> Seq(Requester)]
      /\ pc \in [Handlers -> PCs]
  BY RequestFields DEF RequesterInv, TypeCore
<1>1. PICK g \in 1 .. Len(requesters[r.conn]) :
         LET b == requesters[r.conn][g]
         IN  SetRequester(r.conn, g, [b EXCEPT !.left = LeftAfter(b),
                                               !.holder = Nil, !.read = 0])
  BY <1>0, LenProperties DEF DecrementLeft
<1> DEFINE old == requesters[r.conn][g]
<1>2. old \in Requester
  BY <1>0, ElementOfSeq
<1>3. PICK b \in Requester : b.data = old.data /\ SetRequester(r.conn, g, b)
  <2>1. PICK n \in Int : n = LeftAfter(old)
    BY <1>2, RequesterFields DEF LeftAfter
  <2> DEFINE counted == [old EXCEPT !.left = n]
             freed == [counted EXCEPT !.holder = Nil]
             b == [freed EXCEPT !.read = 0]
  <2>2. b \in Requester /\ b.data = old.data
    <3>1. counted \in Requester /\ counted.data = old.data
      BY <1>2 DEF Requester
    <3> HIDE DEF counted
    <3>2. freed \in Requester /\ freed.data = old.data
      BY <3>1 DEF Requester
    <3> HIDE DEF freed
    <3> QED
      BY <3>2 DEF Requester
  <2>3. SetRequester(r.conn, g, b)
    BY <1>1, <2>1
  <2> HIDE DEF b
  <2> QED
    BY <2>2, <2>3 DEF SetRequester
<1>4. \A s \in Slots : requesters[r.conn][g].data[s] # Nil => b.data[s] # Nil
  BY <1>3
<1> HIDE DEF old
<1>5. requesters' \in [Conns -> Seq(Requester)] /\ Grows
  BY <1>0, <1>3, <1>4, UpdateRequester
<1>6. pc[r] = "decrement" /\ pc' = [pc EXCEPT ![r] = "save"] /\ UNCHANGED owner
  BY DEF DecrementLeft, Goto, timerVars
<1>7. TypeCore'
  <2>1. pc' \in [Handlers -> PCs]
    BY <1>0, <1>6 DEF PCs
  <2> QED
    BY <1>5, <2>1 DEF DecrementLeft, RequesterInv, TypeCore, Table!TableTypeOK,
                      tableVars, timerVars, localVars, fileVars, clientVars
<1>8. Sent(r) /\ UNCHANGED at /\ r \in Handlers /\ "save" \notin Requesting
  BY <1>6, RequestFields DEF Sent, DecrementLeft, localVars, Requesting
<1> QED
  BY <1>5, <1>6, <1>7, <1>8, GrowingMove

LEMMA ResetKeeps ==
    ASSUME RequesterInv, NEW r \in Requests, ResetLeft(r)
    PROVE  RequesterInv'
<1> DEFINE cur == Current(r.conn)
<1>1. pc[r] = "reset" /\ pc' = [pc EXCEPT ![r] = "mark"] /\ UNCHANGED <<owner, at>>
  BY DEF ResetLeft, Goto, timerVars, localVars
<1>2. PICK g \in 1 .. Len(requesters[r.conn]) : g = Len(requesters[r.conn])
  BY <1>1, CurrentIsRequester
<1>3. cur \in Requester /\ cur = requesters[r.conn][g]
  BY <1>1, <1>2, CurrentIsRequester DEF Current
<1>4. PICK b \in Requester : b.data = cur.data /\ SetRequester(r.conn, g, b)
  <2> DEFINE b == LeftReset(cur)
  <2>1. b \in Requester /\ b.data = cur.data
    BY <1>3 DEF Requester, LeftReset
  <2>2. SetRequester(r.conn, g, b)
    BY <1>2 DEF ResetLeft, SetCurrent
  <2> HIDE DEF b
  <2> QED
    BY <2>1, <2>2 DEF SetRequester
<1>5. requesters' \in [Conns -> Seq(Requester)] => TypeCore'
  <2>1. pc' \in [Handlers -> PCs]
    BY <1>1 DEF RequesterInv, TypeCore, PCs
  <2> QED
    BY <2>1 DEF ResetLeft, RequesterInv, TypeCore, Table!TableTypeOK,
                tableVars, timerVars, localVars, fileVars, clientVars
<1> HIDE DEF cur
<1>6. b.data = requesters[r.conn][g].data /\ Sent(r)
  BY <1>1, <1>3, <1>4 DEF Sent
<1> QED
  BY <1>1, <1>4, <1>5, <1>6, RequesterMove

LEMMA PieceStepKeeps ==
    ASSUME RequesterInv, NEW r \in Requests, PieceStep(r)
    PROVE  RequesterInv'
<1>0. r \in Handlers /\ BlockOf(r) \in Blocks
  BY RequestFields DEF Requests, Blocks, BlockOf
<1> USE DEF RequesterInv, TypeCore, Table!TableTypeOK, tableVars, timerVars,
            localVars, fileVars, clientVars
<1>1. CASE ReceiveBlock(r)
  BY <1>1, ReceiveKeeps
<1>2. CASE ReceiveOnNilChannel(r)
  BY <1>2, ReceiveOnNilKeeps
<1>3. CASE ReceiveOnClosedChannel(r)
  <2>1. TypeCore'
    BY <1>3 DEF ReceiveOnClosedChannel, Panic
  <2> QED
    BY <1>3, <2>1, NoHandlerMove DEF ReceiveOnClosedChannel, Panic
<1>4. CASE DecrementLeft(r)
  BY <1>4, DecrementKeeps
<1>5. CASE SaveBlock(r)
  <2>1. TypeCore'
    BY <1>0, <1>5 DEF SaveBlock, Goto, PCs
  <2> QED
    BY <1>0, <1>5, <2>1, HandlerMove DEF SaveBlock, Goto, Requesting, Sent
<1>6. CASE SaveBlockFails(r)
  <2>1. TypeCore'
    BY <1>6 DEF SaveBlockFails, Goto, PCs
  <2> QED
    BY <1>0, <1>6, <2>1, HandlerMove DEF SaveBlockFails, Goto, Requesting, Sent
<1>7. CASE ReportError(r)
  <2>1. TypeCore'
    BY <1>7 DEF ReportError, Goto, PCs
  <2> QED
    BY <1>0, <1>7, <2>1, HandlerMove DEF ReportError, Goto, Requesting, Sent
<1>8. CASE CountLeft(r)
  <2>1. \E to \in {"reset", "end"} : pc' = [pc EXCEPT ![r] = to]
    BY <1>8 DEF CountLeft, Goto
  <2>2. TypeCore' /\ \A q \in Requests : q # r => at'[q] = at[q]
    BY <1>8, <2>1 DEF CountLeft, PCs
  <2>3. Grows
    BY <1>8, SameRequesters DEF CountLeft
  <2> QED
    BY <1>0, <1>8, <2>1, <2>2, <2>3, GrowingMove DEF CountLeft, Goto, Requesting, Sent
<1>9. CASE ResetLeft(r)
  BY <1>9, ResetKeeps
<1>10. CASE MarkDone(r)
  <2>1. TypeCore'
    BY <1>10 DEF MarkDone, Table!MarkAsDone, Table!PieceStatus, Goto, PCs
  <2> QED
    BY <1>0, <1>10, <2>1, HandlerMove DEF MarkDone, Goto, Requesting, Sent
<1>11. CASE TallyUndone(r)
  <2>1. \E to \in {"finalize", "next"} :
           pc' = [pc EXCEPT ![r] = to] /\ Sent(r)
    BY <1>11 DEF TallyUndone, Goto, Sent
  <2>2. TypeCore'
    BY <1>11, <2>1 DEF TallyUndone, PCs
  <2> QED
    BY <1>0, <1>11, <2>1, <2>2, HandlerMove DEF TallyUndone, Requesting
<1>12. CASE Finalize(r)
  <2>1. TypeCore'
    BY <1>12 DEF Finalize, Goto, PCs
  <2> QED
    BY <1>0, <1>12, <2>1, HandlerMove DEF Finalize, Goto, Requesting, Sent
<1>13. CASE LookUp(r)
  BY <1>13, LookUpKeeps
<1> QED
  BY <1>1, <1>2, <1>3, <1>4, <1>5, <1>6, <1>7, <1>8, <1>9, <1>10, <1>11, <1>12, <1>13
  DEF PieceStep

(* A request that is repeated was sent, so its requester is known. *)
LEMMA SenderStepKeeps ==
    ASSUME RequesterInv, TimerWasSent, NEW r \in Requests, SenderStep(r)
    PROVE  RequesterInv'
<1>0. r.conn \in Conns /\ requesters \in [Conns -> Seq(Requester)]
      /\ pc \in [Handlers -> PCs] /\ Requests \subseteq Handlers
  BY RequestFields DEF RequesterInv, TypeCore, Handlers
<1>1. CASE TimerExpires(r)
  <2>1. TypeCore'
    BY <1>0, <1>1
    DEF TimerExpires, Timers, RequesterInv, TypeCore, Table!TableTypeOK, tableVars,
        localVars, fileVars, clientVars
  <2> QED
    BY <1>1, <2>1, NoHandlerMove DEF TimerExpires, localVars
<1>2. CASE Misfire(r)
  <2>1. /\ misfires' \in [Conns -> Nat]
        /\ timer' \in [Requests -> Timers] /\ tally' \in [Requests -> Nat]
    BY <1>0, <1>2 DEF Misfire, Raised, Timers, RequesterInv, TypeCore
  <2>2. TypeCore'
    BY <1>2, <2>1
    DEF Misfire, RequesterInv, TypeCore, Table!TableTypeOK, tableVars,
        localVars, fileVars, clientVars
  <2> QED
    BY <1>2, <2>2, NoHandlerMove DEF Misfire, localVars
<1>3. CASE Retry(r)
  <2>1. PICK again \in Requests :
           /\ again.conn = r.conn /\ timer[r] = "retry"
           /\ Send(again, owner[r])
           /\ owner' = [owner EXCEPT ![again] = owner[r]]
           /\ timer' = TimerHandedOver(r, again)
           /\ pc' = [pc EXCEPT ![again] = "sent"]
           /\ UNCHANGED <<tableVars, queue, closed, tally, misfires, weak,
                          localVars, fileVars, clientVars>>
    BY <1>3 DEF Retry, Requests
  <2>2. PICK g \in 1 .. Len(requesters[again.conn]) : g = owner[r]
    <3>1. RequestedSlot(r)
      BY <2>1 DEF TimerWasSent, Sent, RequesterInv, Requested
    <3> QED
      BY <2>1, <3>1 DEF RequestedSlot
  <2>3. Send(again, g)
    BY <2>1, <2>2 DEF Send, MakeChannel, SetRequester
  <2>4. owner' = [owner EXCEPT ![again] = g] /\ g \in Nat
    BY <2>1, <2>2
  <2>5. requesters' \in [Conns -> Seq(Requester)]
    BY <1>0, <2>2, <2>3, ChannelMade DEF Send
  <2>6. TypeCore'
    <3>1. pc' \in [Handlers -> PCs] /\ owner' \in [Requests -> Nat]
      BY <1>0, <2>1, <2>4 DEF PCs, RequesterInv, TypeCore
    <3>2. timer' \in [Requests -> Timers]
      BY <2>1 DEF TimerHandedOver, Timers, RequesterInv, TypeCore
    <3> QED
      BY <2>1, <2>5, <3>1, <3>2
      DEF RequesterInv, TypeCore, Table!TableTypeOK, tableVars, localVars,
          fileVars, clientVars
  <2> QED
    BY <2>1, <2>2, <2>3, <2>4, <2>6, SendKeeps DEF localVars
<1>4. CASE JudgePeer(r)
  <2>1. weak' \in [Conns -> BOOLEAN] /\ timer' \in [Requests -> Timers]
    BY <1>0, <1>4 DEF JudgePeer, Timers, RequesterInv, TypeCore
  <2>2. TypeCore'
    BY <1>4, <2>1
    DEF JudgePeer, RequesterInv, TypeCore, Table!TableTypeOK, tableVars,
        localVars, fileVars, clientVars
  <2> QED
    BY <1>4, <2>2, NoHandlerMove DEF JudgePeer, localVars
<1>5. CASE SendFirst(r)
  <2>1. PICK g \in 1 .. Len(requesters[r.conn]) : g = owner[r]
    BY <1>5, HasRequester DEF SendFirst, Goto
  <2>2. /\ Send(r, g) /\ pc' = [pc EXCEPT ![r] = "sent"]
        /\ timer' = [timer EXCEPT ![r] = "armed"]
        /\ UNCHANGED <<owner, at>>
    BY <1>5, <2>1 DEF SendFirst, Goto, localVars
  <2>3. owner' = [owner EXCEPT ![r] = g]
    BY <2>1, <2>2 DEF RequesterInv, TypeCore
  <2>4. requesters' \in [Conns -> Seq(Requester)]
    BY <1>0, <2>2, ChannelMade DEF Send
  <2>5. TypeCore'
    <3>1. pc' \in [Handlers -> PCs] /\ timer' \in [Requests -> Timers]
      BY <1>0, <2>2 DEF PCs, Timers, RequesterInv, TypeCore
    <3> QED
      BY <1>5, <2>4, <3>1
      DEF SendFirst, RequesterInv, TypeCore, Table!TableTypeOK, tableVars, localVars,
          fileVars, clientVars
  <2> QED
    BY <2>2, <2>3, <2>5, SendKeeps
<1> QED
  BY <1>1, <1>2, <1>3, <1>4, <1>5 DEF SenderStep

LEMMA RequesterStep ==
    RequesterInv /\ TimerWasSent /\ [Next]_vars => RequesterInv'
<1> SUFFICES ASSUME RequesterInv, TimerWasSent, [Next]_vars PROVE RequesterInv'
  OBVIOUS
<1>1. CASE UNCHANGED vars
  <2>1. TypeCore'
    BY <1>1 DEF vars, RequesterInv, TypeCore, Table!TableTypeOK, tableVars,
                timerVars, localVars, fileVars, clientVars
  <2> QED
    BY <1>1, <2>1, NoHandlerMove DEF vars, timerVars, localVars
<1>2. ASSUME NEW h \in Handlers, Deliver(h) PROVE RequesterInv'
  BY <1>2, DeliverKeeps
<1>3. ASSUME NEW h \in Handlers, RequestNextPiece(h) PROVE RequesterInv'
  BY <1>3, RequestNextPieceKeeps
<1>4. ASSUME NEW a \in Announcements, AnnouncementStep(a) PROVE RequesterInv'
  BY <1>4, AnnouncementKeeps
<1>5. ASSUME NEW r \in Requests, PieceStep(r) PROVE RequesterInv'
  BY <1>5, PieceStepKeeps
<1>6. ASSUME NEW r \in Requests, SenderStep(r) PROVE RequesterInv'
  BY <1>6, SenderStepKeeps
<1>7. ASSUME NEW c \in Conns, ReadTimeout(c) \/ Disconnect(c) PROVE RequesterInv'
  <2>1. TypeCore'
    BY <1>7 DEF ReadTimeout, Disconnect, RequesterInv, TypeCore, Table!TableTypeOK,
                tableVars, timerVars, localVars, fileVars, clientVars
  <2> QED
    BY <1>7, <2>1, NoHandlerMove DEF ReadTimeout, Disconnect, timerVars, localVars
<1> QED
  BY <1>1, <1>2, <1>3, <1>4, <1>5, <1>6, <1>7 DEF Next

THEOREM RequesterInvariant == Spec => []RequesterInv
<1>1. Init => RequesterInv
  BY InitRequesterInv
<1>2. RequesterInv /\ Reservations /\ [Next]_vars => RequesterInv'
  BY RequesterStep DEF Reservations
<1> QED
  BY <1>1, <1>2, ReservationsInvariant, PTL DEF Spec

(* Every variable of the download routine keeps its type; the elements of   *)
(* the queues follow below.                                                 *)
THEOREM TypeCoreHolds == Spec => []TypeCore
<1>1. RequesterInv => TypeCore
  BY DEF RequesterInv
<1> QED
  BY <1>1, RequesterInvariant, PTL

(* A PIECE handler hangs on a nil channel (onBlockReceive) only if the      *)
(* requester that asked for its block was replaced in the meantime.         *)
THEOREM HungOnlyAfterReplacementHolds == Spec => []HungOnlyAfterReplacement
<1>1. RequesterInv => HungOnlyAfterReplacement
  BY DEF RequesterInv
<1> QED
  BY <1>1, RequesterInvariant, PTL

-----------------------------------------------------------------------------
(* The elements of the queues *)

QueueTypes ==
    /\ queue \in [Conns -> Seq(Pieces)]
    /\ seen \in [Handlers -> Seq(Pieces)]

LEMMA AnnouncementKeepsQueues ==
    ASSUME QueueTypes, NEW a \in Announcements, AnnouncementStep(a)
    PROVE  QueueTypes'
<1> USE DEF QueueTypes
<1>0. /\ a \in Handlers /\ a.conn \in Conns /\ a.pieces \in Seq(Pieces)
      /\ <<>> \in Seq(Pieces)
  BY AnnouncementAssumption, EmptySeq DEF Handlers
<1>1. CASE CheckQueue(a) \/ StartRequester(a) \/ StartOnEmptyQueue(a)
  BY <1>1 DEF CheckQueue, StartRequester, StartOnEmptyQueue, Panic, localVars
<1>2. CASE ReadQueue(a)
  BY <1>0, <1>2 DEF ReadQueue
<1>3. CASE WriteQueue(a)
  <2> DEFINE old == seen[a]
             both == old \o a.pieces
             written == IF a.kind = "HAVE" THEN both ELSE Distinct(both)
  <2>1. old \in Seq(Pieces)
    BY <1>0
  <2>2. both \in Seq(Pieces)
    BY <1>0, <2>1, ToSetConcat
  <2> HIDE DEF both
  <2>3. Distinct(both) \in Seq(Pieces)
    BY <2>2, DistinctFacts
  <2>4. written \in Seq(Pieces)
    BY <2>2, <2>3
  <2>5. queue' = [queue EXCEPT ![a.conn] = written] /\ seen' = [seen EXCEPT ![a] = <<>>]
    BY <1>3 DEF WriteQueue, UniqueMerge, both
  <2> HIDE DEF written
  <2> QED
    BY <1>0, <2>4, <2>5
<1> QED
  BY <1>1, <1>2, <1>3 DEF AnnouncementStep

LEMMA RequestNextPieceKeepsQueues ==
    ASSUME QueueTypes, NEW h \in Handlers, RequestNextPiece(h)
    PROVE  QueueTypes'
<1> USE DEF QueueTypes
<1>0. h.conn \in Conns /\ <<>> \in Seq(Pieces)
  BY HandlerConn, EmptySeq
<1>1. CASE \/ NextPiece(h) \/ StopRequesting(h) \/ BeginPiece(h)
           \/ DequeueFromEmpty(h) \/ ReservePiece(h) \/ ReservationRefused(h) \/ RequestBlock(h)
  BY <1>1 DEF NextPiece, StopRequesting, BeginPiece, DequeueFromEmpty, ReservePiece,
              ReservationRefused, RequestBlock, Panic, localVars
<1>2. CASE Dequeue(h)
  <2> DEFINE q == queue[h.conn]
  <2>1. q \in Seq(Pieces) /\ q # <<>> /\ seen' = [seen EXCEPT ![h] = Tail(q)]
        /\ UNCHANGED queue
    BY <1>0, <1>2 DEF Dequeue, Rest
  <2>2. Tail(q) \in Seq(Pieces)
    BY <2>1, HeadTailProperties
  <2> HIDE DEF q
  <2> QED
    BY <2>1, <2>2
<1>3. CASE AdvanceQueue(h)
  BY <1>0, <1>3 DEF AdvanceQueue
<1> QED
  BY <1>1, <1>2, <1>3 DEF RequestNextPiece

LEMMA QueueStep == QueueTypes /\ [Next]_vars => QueueTypes'
<1> SUFFICES ASSUME QueueTypes, [Next]_vars PROVE QueueTypes'
  OBVIOUS
<1>1. CASE UNCHANGED vars
  BY <1>1 DEF vars, localVars, QueueTypes
<1>2. ASSUME NEW h \in Handlers, Deliver(h) PROVE QueueTypes'
  BY <1>2 DEF Deliver, localVars, QueueTypes
<1>3. ASSUME NEW h \in Handlers, RequestNextPiece(h) PROVE QueueTypes'
  BY <1>3, RequestNextPieceKeepsQueues
<1>4. ASSUME NEW a \in Announcements, AnnouncementStep(a) PROVE QueueTypes'
  BY <1>4, AnnouncementKeepsQueues
<1>5. ASSUME NEW r \in Requests, PieceStep(r) PROVE QueueTypes'
  BY <1>5 DEF PieceStep, LookUp, ReceiveBlock, ReceiveOnNilChannel, ReceiveOnClosedChannel,
              DecrementLeft, SaveBlock, SaveBlockFails, ReportError, CountLeft,
              ResetLeft, MarkDone, TallyUndone, Finalize, Panic, localVars, QueueTypes
<1>6. ASSUME NEW r \in Requests, SenderStep(r) PROVE QueueTypes'
  BY <1>6 DEF SenderStep, SendFirst, TimerExpires, Misfire, JudgePeer, Retry,
              localVars, QueueTypes
<1>7. ASSUME NEW c \in Conns, ReadTimeout(c) \/ Disconnect(c) PROVE QueueTypes'
  BY <1>7 DEF ReadTimeout, Disconnect, localVars, QueueTypes
<1> QED
  BY <1>1, <1>2, <1>3, <1>4, <1>5, <1>6, <1>7 DEF Next

(* The download routine keeps its shape, and its queues hold pieces of the  *)
(* torrent and nothing else, whatever announcements are merged into them    *)
(* (IntSliceUniqueMergeSlices) and whatever copies of them are written back.*)
THEOREM TypeOKHolds == Spec => []TypeOK
<1>1. Init => QueueTypes
  BY EmptySeq DEF Init, QueueTypes
<1>2. QueueTypes /\ [Next]_vars => QueueTypes'
  BY QueueStep
<1>3. TypeCore /\ QueueTypes => TypeOK
  BY DEF TypeOK, QueueTypes
<1> QED
  BY <1>1, <1>2, <1>3, TypeCoreHolds, PTL DEF Spec

-----------------------------------------------------------------------------
(* One misfire goroutine per block *)

FirstTry(r) == [r EXCEPT !.try = 1]

(* A REQUEST is repeated only after it was sent a first time. *)
FirstWasSent == \A r \in Requests : Sent(r) => Sent(FirstTry(r))

RetryInv == FirstWasSent /\ OneTimerPerBlock

LEMMA FirstTryFacts ==
    ASSUME NEW r \in Requests
    PROVE  /\ FirstTry(r) \in Requests
           /\ \A q \in Requests :
                 q.conn = r.conn /\ BlockOf(q) = BlockOf(r) => FirstTry(q) = FirstTry(r)
           /\ r.try = 1 => FirstTry(r) = r
BY CountAssumption DEF FirstTry, Requests, BlockOf

(* Only a block's first REQUEST is made by RequestNextPiece. *)
FirstOnly == \A r \in Requests : pc[r] = "ask" => r.try = 1

LEMMA FirstOnlyStep == FirstOnly /\ TypeCore /\ [Next]_vars => FirstOnly'
<1> SUFFICES ASSUME FirstOnly, TypeCore, [Next]_vars, NEW q \in Requests, pc'[q] = "ask",
                    pc[q] # "ask"
             PROVE  q.try = 1
  BY DEF FirstOnly
<1>0. pc \in [Handlers -> PCs] /\ q \in Handlers
  BY RequestFields DEF TypeCore
<1>1. CASE \E h \in Handlers : RequestBlock(h)
  BY <1>0, <1>1 DEF RequestBlock
<1>2. CASE \E h \in Handlers : Deliver(h) \/ (RequestNextPiece(h) /\ ~RequestBlock(h))
  BY <1>0, <1>2
  DEF Deliver, RequestNextPiece, NextPiece, StopRequesting, BeginPiece, Dequeue,
      DequeueFromEmpty, AdvanceQueue, ReservePiece, ReservationRefused, Panic, Goto
<1>3. CASE \E a \in Announcements : AnnouncementStep(a)
  BY <1>0, <1>3
  DEF AnnouncementStep, CheckQueue, ReadQueue, WriteQueue, StartRequester,
      StartOnEmptyQueue, Panic, Goto
<1>4. CASE \E r \in Requests : PieceStep(r)
  <2> PICK r \in Requests : PieceStep(r)
    BY <1>4
  <2>1. CASE LookUp(r) \/ ReceiveBlock(r) \/ ReceiveOnNilChannel(r)
    BY <1>0, <2>1 DEF LookUp, ReceiveBlock, ReceiveOnNilChannel, Goto
  <2>2. CASE DecrementLeft(r) \/ SaveBlock(r) \/ SaveBlockFails(r) \/ ReportError(r)
    BY <1>0, <2>2 DEF DecrementLeft, SaveBlock, SaveBlockFails, ReportError, Goto
  <2>3. CASE CountLeft(r) \/ ResetLeft(r) \/ MarkDone(r)
    BY <1>0, <2>3 DEF CountLeft, ResetLeft, MarkDone, Goto
  <2>4. CASE TallyUndone(r) \/ Finalize(r) \/ ReceiveOnClosedChannel(r)
    BY <1>0, <2>4 DEF TallyUndone, Finalize, ReceiveOnClosedChannel, Panic, Goto
  <2> QED
    BY <2>1, <2>2, <2>3, <2>4 DEF PieceStep
<1>5. CASE \E r \in Requests : SenderStep(r)
  BY <1>0, <1>5 DEF SenderStep, SendFirst, TimerExpires, Misfire, JudgePeer, Retry, Goto
<1>6. CASE UNCHANGED vars \/ \E c \in Conns : ReadTimeout(c) \/ Disconnect(c)
  BY <1>6 DEF vars, ReadTimeout, Disconnect
<1> QED
  BY <1>1, <1>2, <1>3, <1>4, <1>5, <1>6 DEF Next

(* Steps that send nothing and start no timer. *)
LEMMA NothingSent ==
    ASSUME RetryInv,
           \A r \in Requests : Sent(r)' <=> Sent(r),
           \A r \in Requests : timer'[r] # "off" => timer[r] # "off"
    PROVE  RetryInv'
<1>1. FirstWasSent'
  BY FirstTryFacts DEF RetryInv, FirstWasSent
<1>2. OneTimerPerBlock'
  BY DEF RetryInv, OneTimerPerBlock
<1> QED
  BY <1>1, <1>2 DEF RetryInv

(* One request gets sent, and no other timer of its block goes on. *)
LEMMA OneSent ==
    ASSUME RetryInv, NEW r \in Requests,
           Sent(r)', r.try = 1 \/ Sent(FirstTry(r)),
           \A q \in Requests \ {r} : Sent(q)' <=> Sent(q),
           \A q \in Requests \ {r} : timer'[q] # "off" => timer[q] # "off",
           \A q \in Requests \ {r} :
               q.conn = r.conn /\ BlockOf(q) = BlockOf(r) => timer'[q] = "off"
    PROVE  RetryInv'
<1>1. FirstWasSent'
  BY FirstTryFacts DEF RetryInv, FirstWasSent
<1>2. OneTimerPerBlock'
  <2>1. ASSUME NEW q \in Requests, timer'[q] # "off" PROVE Sent(q)'
    BY <2>1 DEF RetryInv, OneTimerPerBlock
  <2>2. ASSUME NEW r1 \in Requests, NEW r2 \in Requests,
               timer'[r1] # "off", timer'[r2] # "off",
               r1.conn = r2.conn, BlockOf(r1) = BlockOf(r2)
        PROVE  r1 = r2
    <3>1. CASE r1 = r \/ r2 = r
      BY <2>2, <3>1
    <3>2. CASE r1 # r /\ r2 # r
      BY <2>2, <3>2 DEF RetryInv, OneTimerPerBlock
    <3> QED
      BY <3>1, <3>2
  <2>3. \A q \in Requests : BlockOf(q)' = BlockOf(q)
    BY DEF BlockOf
  <2> QED
    BY <2>1, <2>2, <2>3 DEF OneTimerPerBlock
<1> QED
  BY <1>1, <1>2 DEF RetryInv

LEMMA HandlersSendNothing ==
    ASSUME RetryInv, TypeCore,
           \/ \E h \in Handlers : Deliver(h) \/ RequestNextPiece(h)
           \/ \E a \in Announcements : AnnouncementStep(a)
    PROVE  RetryInv'
<1>1. timer' = timer
  BY DEF Deliver, RequestNextPiece, NextPiece, StopRequesting, BeginPiece, Dequeue,
         DequeueFromEmpty, AdvanceQueue, ReservePiece, ReservationRefused, RequestBlock,
         AnnouncementStep, CheckQueue, ReadQueue, WriteQueue, StartRequester,
         StartOnEmptyQueue, Panic, timerVars
<1>2. pc \in [Handlers -> PCs]
  BY DEF TypeCore
<1>3. \A r \in Requests : Sent(r)' <=> Sent(r)
  <2>1. ASSUME NEW h \in Handlers, Deliver(h)
        PROVE  \A r \in Requests : Sent(r)' <=> Sent(r)
    BY <1>2, <2>1, RequestFields DEF Deliver, Goto, Sent
  <2>2. ASSUME NEW h \in Handlers, RequestNextPiece(h), ~RequestBlock(h)
        PROVE  \A r \in Requests : Sent(r)' <=> Sent(r)
    BY <1>2, <2>2, RequestFields
    DEF RequestNextPiece, NextPiece, StopRequesting, BeginPiece, Dequeue,
        DequeueFromEmpty, AdvanceQueue, ReservePiece, ReservationRefused, Panic, Goto,
        Sent
  <2>3. ASSUME NEW h \in Handlers, RequestBlock(h)
        PROVE  \A r \in Requests : Sent(r)' <=> Sent(r)
    <3>1. PICK q \in Requests : /\ pc[q] = "idle"
                                /\ \E last \in BOOLEAN :
                                      pc' = [pc EXCEPT ![q] = "ask",
                                                       ![h] = IF last THEN "end" ELSE @]
      BY <2>3 DEF RequestBlock, IsLast
    <3>2. pc[h] = "request" /\ q # h /\ q \in Handlers
      BY <2>3, <3>1, RequestFields DEF RequestBlock
    <3> QED
      BY <1>2, <3>1, <3>2, RequestFields DEF Sent
  <2>4. ASSUME NEW a \in Announcements, AnnouncementStep(a)
        PROVE  \A r \in Requests : Sent(r)' <=> Sent(r)
    <3>1. a \in Handlers /\ a \notin Requests
      BY NilAssumption DEF Handlers
    <3> QED
      BY <1>2, <2>4, <3>1, RequestFields
      DEF AnnouncementStep, CheckQueue, ReadQueue, WriteQueue, StartRequester,
          StartOnEmptyQueue, Panic, Goto, Sent
  <2> QED
    BY <2>1, <2>2, <2>3, <2>4
<1> QED
  BY <1>1, <1>3, NothingSent

LEMMA PieceStepSendsNothing ==
    ASSUME RetryInv, TypeCore, NEW r \in Requests, PieceStep(r)
    PROVE  RetryInv'
<1>1. pc \in [Handlers -> PCs] /\ timer \in [Requests -> Timers] /\ r \in Handlers
  BY RequestFields DEF TypeCore
<1>2. \A q \in Requests : Sent(q)' <=> Sent(q)
  BY <1>1, RequestFields
  DEF PieceStep, LookUp, ReceiveBlock, ReceiveOnNilChannel, ReceiveOnClosedChannel,
      DecrementLeft, SaveBlock, SaveBlockFails, ReportError, CountLeft,
      ResetLeft, MarkDone, TallyUndone, Finalize, Panic, Goto, Sent
<1>3. \A q \in Requests : timer'[q] # "off" => timer[q] # "off"
  <2>1. CASE ReceiveBlock(r)
    BY <1>1, <2>1 DEF ReceiveBlock
  <2>2. CASE ~ReceiveBlock(r)
    <3>1. timer' = timer
      BY <2>2
      DEF PieceStep, LookUp, ReceiveOnNilChannel, ReceiveOnClosedChannel, DecrementLeft,
          SaveBlock, SaveBlockFails, ReportError, CountLeft, ResetLeft, MarkDone,
          TallyUndone, Finalize, Panic, timerVars
    <3> QED
      BY <3>1
  <2> QED
    BY <2>1, <2>2
<1> QED
  BY <1>2, <1>3, NothingSent

(* A first REQUEST finds every timer of its block off: no try of it was     *)
(* sent yet.                                                                *)
LEMMA SendFirstKeepsOne ==
    ASSUME RetryInv, TypeCore, FirstOnly, NEW r \in Requests, SendFirst(r)
    PROVE  RetryInv'
<1>1. /\ pc[r] = "ask" /\ pc' = [pc EXCEPT ![r] = "sent"]
      /\ timer' = [timer EXCEPT ![r] = "armed"]
  BY DEF SendFirst, Goto
<1>2. /\ pc \in [Handlers -> PCs] /\ timer \in [Requests -> Timers] /\ r \in Handlers
      /\ r.try = 1
  BY <1>1, RequestFields DEF TypeCore, FirstOnly
<1>3. /\ Sent(r)' /\ ~Sent(r)
      /\ \A q \in Requests \ {r} : Sent(q)' <=> Sent(q)
      /\ \A q \in Requests \ {r} : timer'[q] = timer[q]
  BY <1>1, <1>2, RequestFields DEF Sent
<1>4. ASSUME NEW q \in Requests, q.conn = r.conn, BlockOf(q) = BlockOf(r)
      PROVE  timer[q] = "off"
  <2>1. FirstTry(q) = r
    BY <1>2, <1>4, FirstTryFacts
  <2>2. ~Sent(q)
    BY <1>3, <2>1 DEF RetryInv, FirstWasSent
  <2> QED
    BY <2>2 DEF RetryInv, OneTimerPerBlock
<1> QED
  BY <1>2, <1>3, <1>4, OneSent

(* A retry takes over from the one timer its block has. *)
LEMMA RetryKeepsOne ==
    ASSUME RetryInv, TypeCore, TimerWasSent, NEW r \in Requests, Retry(r)
    PROVE  RetryInv'
<1>1. PICK again \in Requests :
         /\ again = [r EXCEPT !.try = @ + 1]
         /\ timer[r] = "retry" /\ pc[again] = "idle"
         /\ timer' = [timer EXCEPT ![r] = "off", ![again] = "armed"]
         /\ pc' = [pc EXCEPT ![again] = "sent"]
  BY DEF Retry, TimerHandedOver
<1>2. again.conn = r.conn /\ BlockOf(again) = BlockOf(r) /\ again \in Handlers
  BY <1>1, RequestFields DEF Requests, BlockOf
<1>3. Sent(r) /\ again # r
  BY <1>1 DEF TimerWasSent, Sent
<1>4. pc \in [Handlers -> PCs] /\ timer \in [Requests -> Timers]
  BY DEF TypeCore
<1>5. Sent(FirstTry(again))
  <2>1. FirstTry(again) = FirstTry(r)
    BY <1>2, FirstTryFacts
  <2>2. Sent(FirstTry(r))
    BY <1>3 DEF RetryInv, FirstWasSent
  <2> QED
    BY <2>1, <2>2
<1>6. /\ Sent(again)'
      /\ \A q \in Requests \ {again} : Sent(q)' <=> Sent(q)
      /\ \A q \in Requests \ {again} : timer'[q] = IF q = r THEN "off" ELSE timer[q]
  BY <1>1, <1>2, <1>3, <1>4, RequestFields DEF Sent
<1>7. ASSUME NEW q \in Requests \ {again}, q.conn = again.conn, BlockOf(q) = BlockOf(again)
      PROVE  timer'[q] = "off"
  <2>1. timer[q] # "off" => q = r
    BY <1>1, <1>2, <1>7 DEF RetryInv, OneTimerPerBlock
  <2> QED
    BY <1>6, <2>1
<1>8. \A q \in Requests \ {again} : timer'[q] # "off" => timer[q] # "off"
  BY <1>6
<1> QED
  BY <1>5, <1>6, <1>7, <1>8, OneSent

LEMMA RetryStep ==
    RetryInv /\ TypeCore /\ TimerWasSent /\ FirstOnly /\ [Next]_vars => RetryInv'
<1> SUFFICES ASSUME RetryInv, TypeCore, TimerWasSent, FirstOnly, [Next]_vars
             PROVE  RetryInv'
  OBVIOUS
<1>1. CASE UNCHANGED vars
  BY <1>1, NothingSent DEF vars, timerVars, Sent
<1>2. ASSUME NEW h \in Handlers, Deliver(h) PROVE RetryInv'
  BY <1>2, HandlersSendNothing
<1>3. ASSUME NEW h \in Handlers, RequestNextPiece(h) PROVE RetryInv'
  BY <1>3, HandlersSendNothing
<1>4. ASSUME NEW a \in Announcements, AnnouncementStep(a) PROVE RetryInv'
  BY <1>4, HandlersSendNothing
<1>5. ASSUME NEW r \in Requests, PieceStep(r) PROVE RetryInv'
  BY <1>5, PieceStepSendsNothing
<1>6. ASSUME NEW r \in Requests, SenderStep(r) PROVE RetryInv'
  <2>1. CASE TimerExpires(r) \/ Misfire(r) \/ JudgePeer(r)
    <3>1. UNCHANGED pc /\ timer[r] # "off"
          /\ \E t \in {"off", "late", "raised", "retry"} :
                timer' = [timer EXCEPT ![r] = t]
      BY <2>1 DEF TimerExpires, Misfire, JudgePeer
    <3>2. \A q \in Requests : timer'[q] # "off" => timer[q] # "off"
      BY <3>1 DEF TypeCore
    <3> QED
      BY <3>1, <3>2, NothingSent DEF Sent
  <2>2. CASE Retry(r)
    BY <2>2, RetryKeepsOne
  <2>3. CASE SendFirst(r)
    BY <2>3, SendFirstKeepsOne
  <2> QED
    BY <1>6, <2>1, <2>2, <2>3 DEF SenderStep
<1>7. ASSUME NEW c \in Conns, ReadTimeout(c) \/ Disconnect(c) PROVE RetryInv'
  BY <1>7, NothingSent DEF ReadTimeout, Disconnect, timerVars, Sent
<1> QED
  BY <1>1, <1>2, <1>3, <1>4, <1>5, <1>6, <1>7 DEF Next

(* Retries never fork: however timeouts, late answers and replaced          *)
(* requesters interleave, at most one misfire goroutine waits for a block   *)
(* on a connection, and only for a block that was asked for.                *)
THEOREM OneTimerPerBlockHolds == Spec => []OneTimerPerBlock
<1>1. Init => RetryInv /\ FirstOnly
  BY RequestFields, FirstTryFacts
  DEF Init, RetryInv, FirstWasSent, OneTimerPerBlock, FirstOnly, Sent
<1>2. RetryInv /\ FirstOnly /\ TypeCore /\ Reservations /\ [Next]_vars
          => RetryInv' /\ FirstOnly'
  BY RetryStep, FirstOnlyStep DEF Reservations
<1>3. RetryInv => OneTimerPerBlock
  BY DEF RetryInv
<1> QED
  BY <1>1, <1>2, <1>3, TypeCoreHolds, ReservationsInvariant, PTL DEF Spec

-----------------------------------------------------------------------------
(* Lost pieces and panics: what it takes. *)

(* The record of races does not change what the routine does. *)
LEMMA RacesRefineDownload == RaceSpec => Spec
<1>1. RaceInit => Init
  BY DEF RaceInit
<1>2. [RaceNext]_raceVars => [Next]_vars
  BY DEF RaceNext, raceVars
<1> QED
  BY <1>1, <1>2, PTL DEF RaceSpec, Spec

OneAtQueue(c) ==
    \A h, k \in Handlers :
        h.conn = c /\ k.conn = c /\ AtQueue(h) /\ AtQueue(k) => h = k

(* What a handler has read of its queue is still true. *)
ReadsTrue(c) ==
    \A h \in Handlers : h.conn = c =>
        /\ pc[h] \in {"start", "begin", "dequeue", "advance"} => queue[c] # <<>>
        /\ pc[h] = "write" => seen[h] = queue[c]
        /\ pc[h] = "advance" => /\ inHand[h] = Head(queue[c])
                                /\ seen[h] = Tail(queue[c])

KeptAll(c) == \A a \in Announcements : a.conn = c => Kept(a)

QueueSound(c) == ReadsTrue(c) /\ KeptAll(c)

(* wasQueueEmpty matters only to an announcement of some piece. *)
FirstHasPieces == \A a \in first : a.pieces # <<>>

Unwritten == {"idle", "check", "read", "write"}
InHand == {"advance", "reserve"}

(* Steps that leave queue c, and the hands of those who read it, alone. *)
LEMMA QueueUntouched ==
    ASSUME NEW c \in Conns, QueueSound(c), queue'[c] = queue[c],
           \A p \in Pieces : status'[p] = "IDLE" => status[p] = "IDLE",
           \A k \in Handlers : k.conn = c /\ AtQueue(k)' =>
               /\ pc'[k] = pc[k]
               /\ seen'[k] = seen[k] /\ inHand'[k] = inHand[k],
           \A k \in Handlers : k.conn = c /\ pc[k] \in InHand =>
               pc'[k] \in InHand /\ inHand'[k] = inHand[k],
           \A a \in Announcements : a.conn = c /\ pc[a] \in Unwritten =>
               pc'[a] \in Unwritten
    PROVE  QueueSound(c)'
<1>1. ReadsTrue(c)'
  BY DEF QueueSound, ReadsTrue, AtQueue
<1>2. KeptAll(c)'
  <2> SUFFICES ASSUME NEW a \in Announcements, a.conn = c, pc'[a] \notin Unwritten,
                      NEW p \in ToSet(a.pieces), status'[p] = "IDLE",
                      p \notin ToSet(queue[c])
               PROVE  \E h \in Handlers :
                         h.conn = c /\ pc'[h] \in InHand /\ inHand'[h] = p
    BY DEF KeptAll, Kept, Unwritten, InHand
  <2>1. a.pieces \in Seq(Pieces) /\ pc[a] \notin Unwritten
    BY AnnouncementAssumption
  <2>2. p \in Pieces
    BY <2>1, ToSetIndexed
  <2>3. PICK h \in Handlers : h.conn = c /\ pc[h] \in InHand /\ inHand[h] = p
    BY <2>1, <2>2 DEF QueueSound, KeptAll, Kept, Unwritten, InHand
  <2> QED
    BY <2>3
<1> QED
  BY <1>1, <1>2 DEF QueueSound

(* A step of a handler of another connection. *)
LEMMA QueueElsewhere ==
    ASSUME NEW c \in Conns, QueueSound(c), queue'[c] = queue[c],
           \A p \in Pieces : status'[p] = "IDLE" => status[p] = "IDLE",
           \A k \in Handlers : k.conn = c =>
               pc'[k] = pc[k] /\ seen'[k] = seen[k] /\ inHand'[k] = inHand[k]
    PROVE  QueueSound(c)'
<1>1. Announcements \subseteq Handlers
  BY DEF Handlers
<1> QED
  BY <1>1, QueueUntouched

LEMMA AnnouncementQueue ==
    ASSUME TypeOK, FirstHasPieces, NEW c \in Conns, QueueSound(c),
           OneAtQueue(c), OneAtQueue(c)',
           NEW a \in Announcements, AnnouncementStep(a)
    PROVE  QueueSound(c)'
<1>0. /\ a \in Handlers /\ a.conn \in Conns /\ a.pieces \in Seq(Pieces)
      /\ pc \in [Handlers -> PCs] /\ queue \in [Conns -> Seq(Pieces)]
      /\ seen \in [Handlers -> Seq(Pieces)] /\ Announcements \subseteq Handlers
  BY AnnouncementAssumption DEF Handlers, TypeOK, TypeCore
<1>1. CASE a.conn # c
  <2>1. /\ \/ UNCHANGED pc
           \/ \E to \in PCs : pc' = [pc EXCEPT ![a] = to]
        /\ seen' = seen \/ \E s \in Seq(Pieces) : seen' = [seen EXCEPT ![a] = s]
        /\ queue'[c] = queue[c]
        /\ UNCHANGED <<inHand, status>>
    <3>1. CASE WriteQueue(a)
      <4>1. queue'[c] = queue[c]
        BY <1>0, <1>1, <3>1 DEF WriteQueue
      <4>2. <<>> \in Seq(Pieces)
        BY EmptySeq
      <4> QED
        BY <3>1, <4>1, <4>2 DEF WriteQueue, Goto, tableVars, PCs
    <3>2. CASE ~WriteQueue(a)
      BY <1>0, <3>2
      DEF AnnouncementStep, CheckQueue, ReadQueue, StartRequester, StartOnEmptyQueue,
          Panic, Goto, tableVars, localVars, PCs
    <3> QED
      BY <3>1, <3>2
  <2>2. \A k \in Handlers : k.conn = c => pc'[k] = pc[k] /\ seen'[k] = seen[k]
    BY <1>0, <1>1, <2>1
  <2> QED
    BY <2>1, <2>2, QueueElsewhere
<1>2. CASE a.conn = c /\ CheckQueue(a)
  <2>1. pc[a] = "check" /\ UNCHANGED <<queue, seen, inHand, status>>
    BY <1>2 DEF CheckQueue, Goto, tableVars
  <2>2. \/ pc' = [pc EXCEPT ![a] = "read"]
        \/ pc' = [pc EXCEPT ![a] = "end"] /\ ToSet(a.pieces) \subseteq ToSet(queue[c])
    <3>1. CASE a.kind = "HAVE"
      <4>1. ToSet(a.pieces) = {a.pieces[1]}
        <5>1. Len(a.pieces) = 1
          BY <3>1, AnnouncementAssumption
        <5>2. ToSet(a.pieces) = {a.pieces[i] : i \in 1 .. 1}
          BY <1>0, <5>1, ToSetIndexed
        <5>3. 1 .. 1 = {1}
          OBVIOUS
        <5> QED
          BY <5>2, <5>3
      <4> QED
        BY <1>2, <3>1, <4>1 DEF CheckQueue, Goto
    <3>2. CASE a.kind # "HAVE"
      BY <1>2, <3>2, ToSetEmpty DEF CheckQueue, Goto
    <3> QED
      BY <3>1, <3>2
  <2>3. ReadsTrue(c)'
    BY <1>0, <2>1, <2>2 DEF QueueSound, ReadsTrue
  <2>4. KeptAll(c)'
    <3> SUFFICES ASSUME NEW b \in Announcements, b.conn = c PROVE Kept(b)'
      BY DEF KeptAll
    <3>1. CASE b = a
      BY <1>0, <2>1, <2>2, <3>1 DEF Kept
    <3>2. CASE b # a
      <4>1. Kept(b) /\ pc'[b] = pc[b]
        BY <1>0, <2>2, <3>2 DEF QueueSound, KeptAll
      <4>2. \A h \in Handlers : pc[h] \in {"advance", "reserve"} => pc'[h] = pc[h]
        BY <1>0, <2>1, <2>2
      <4> QED
        BY <2>1, <4>1, <4>2 DEF Kept
    <3> QED
      BY <3>1, <3>2
  <2> QED
    BY <2>3, <2>4 DEF QueueSound
<1>3. CASE a.conn = c /\ ReadQueue(a)
  <2>1. /\ pc[a] = "read" /\ pc' = [pc EXCEPT ![a] = "write"]
        /\ seen' = [seen EXCEPT ![a] = queue[c]]
        /\ UNCHANGED <<queue, inHand, status>>
    BY <1>3 DEF ReadQueue, Goto, tableVars
  <2>2. ReadsTrue(c)'
    BY <1>0, <2>1 DEF QueueSound, ReadsTrue
  <2>3. KeptAll(c)'
    <3> SUFFICES ASSUME NEW b \in Announcements, b.conn = c PROVE Kept(b)'
      BY DEF KeptAll
    <3>1. Kept(b) /\ (b # a => pc'[b] = pc[b]) /\ pc'[a] = "write"
      BY <1>0, <2>1 DEF QueueSound, KeptAll
    <3>2. \A h \in Handlers : pc[h] \in {"advance", "reserve"} => pc'[h] = pc[h]
      BY <1>0, <2>1
    <3> QED
      BY <2>1, <3>1, <3>2 DEF Kept
  <2> QED
    BY <2>2, <2>3 DEF QueueSound
<1>4. CASE a.conn = c /\ WriteQueue(a)
  <2> DEFINE both == seen[a] \o a.pieces
             written == IF a.kind = "HAVE" THEN both ELSE Distinct(both)
  <2>1. /\ pc[a] = "write" /\ seen[a] = queue[c]
        /\ \/ pc' = [pc EXCEPT ![a] = "start"] /\ a \in first
           \/ pc' = [pc EXCEPT ![a] = "end"]
        /\ queue' = [queue EXCEPT ![c] = written]
        /\ seen' = [seen EXCEPT ![a] = <<>>]
        /\ UNCHANGED <<inHand, status>>
    BY <1>0, <1>4 DEF WriteQueue, Goto, UniqueMerge, QueueSound, ReadsTrue, tableVars
  <2>2. both \in Seq(Pieces) /\ ToSet(both) = ToSet(queue[c]) \cup ToSet(a.pieces)
    BY <1>0, <2>1, ToSetConcat
  <2> HIDE DEF both
  <2>3. ToSet(written) = ToSet(queue[c]) \cup ToSet(a.pieces) /\ written \in Seq(Pieces)
    BY <2>2, DistinctFacts
  <2> HIDE DEF written
  <2>4. a \in first => written # <<>>
    <3> SUFFICES ASSUME a \in first PROVE written # <<>>
      OBVIOUS
    <3>1. a.pieces[1] \in ToSet(a.pieces)
      <4>1. a.pieces # <<>>
        BY DEF FirstHasPieces
      <4> QED
        BY <1>0, <4>1, LenProperties, EmptySeq, ToSetIndexed
    <3> QED
      BY <2>3, <3>1, ToSetEmpty
  <2>5. queue'[c] = written
    BY <1>0, <2>1
  <2>6. \A k \in Handlers : k.conn = c /\ k # a => ~AtQueue(k) /\ pc'[k] = pc[k]
    BY <1>0, <1>4, <2>1 DEF OneAtQueue, AtQueue
  <2>7. ReadsTrue(c)'
    BY <1>0, <2>1, <2>4, <2>5, <2>6 DEF ReadsTrue, AtQueue
  <2>8. KeptAll(c)'
    <3> SUFFICES ASSUME NEW b \in Announcements, b.conn = c PROVE Kept(b)'
      BY DEF KeptAll
    <3>1. CASE b = a
      BY <1>0, <2>1, <2>3, <2>5, <3>1 DEF Kept
    <3>2. CASE b # a
      <4>1. Kept(b) /\ pc'[b] = pc[b]
        BY <1>0, <2>1, <3>2 DEF QueueSound, KeptAll
      <4>2. \A h \in Handlers : pc[h] \in {"advance", "reserve"} => pc'[h] = pc[h]
        BY <1>0, <2>1
      <4> QED
        BY <2>1, <2>3, <2>5, <4>1, <4>2 DEF Kept
    <3> QED
      BY <3>1, <3>2
  <2> QED
    BY <2>7, <2>8 DEF QueueSound
<1>5. CASE a.conn = c /\ StartRequester(a)
  <2>1. /\ pc[a] = "start" /\ pc' = [pc EXCEPT ![a] = "next"]
        /\ UNCHANGED <<queue, seen, inHand, status>>
    BY <1>5 DEF StartRequester, Goto, tableVars
  <2> QED
    BY <1>0, <2>1, QueueUntouched DEF AtQueue, InHand, Unwritten
<1>6. CASE StartOnEmptyQueue(a)
  BY <1>0, <1>6, QueueElsewhere DEF StartOnEmptyQueue, Panic, tableVars, localVars
<1> QED
  BY <1>1, <1>2, <1>3, <1>4, <1>5, <1>6 DEF AnnouncementStep

LEMMA RequestNextPieceQueue ==
    ASSUME TypeOK, NEW c \in Conns, QueueSound(c), OneAtQueue(c),
           NEW h \in Handlers, RequestNextPiece(h)
    PROVE  QueueSound(c)'
<1>0. /\ h.conn \in Conns /\ pc \in [Handlers -> PCs] /\ inHand \in [Handlers -> Pieces]
      /\ queue \in [Conns -> Seq(Pieces)] /\ seen \in [Handlers -> Seq(Pieces)]
      /\ status \in [Pieces -> Table!PieceStatus] /\ inHand[h] \in Pieces
      /\ Announcements \subseteq Handlers
  BY HandlerConn DEF Handlers, TypeOK, TypeCore, Table!TableTypeOK
<1>1. CASE RequestBlock(h)
  <2>1. PICK r \in Requests :
           /\ pc[h] = "request" /\ pc[r] = "idle"
           /\ UNCHANGED <<queue, seen, status>>
           /\ pc' = [pc EXCEPT ![r] = "ask",
                        ![h] = IF IsLast(r.piece, nextBlock[h]) THEN "end" ELSE @]
           /\ inHand' = [inHand EXCEPT
                            ![h] = IF IsLast(r.piece, nextBlock[h]) THEN 0 ELSE @]
    BY <1>1 DEF RequestBlock, tableVars
  <2>2. r \in Handlers /\ r \notin Announcements /\ r # h
    BY <2>1, RequestFields, NilAssumption
  <2>3. /\ pc'[r] = "ask" /\ pc'[h] \in {"request", "end"}
        /\ \A k \in Handlers \ {r, h} : pc'[k] = pc[k]
        /\ \A k \in Handlers \ {h} : inHand'[k] = inHand[k]
    BY <1>0, <2>1, <2>2
  <2> QED
    BY <1>0, <2>1, <2>2, <2>3, QueueUntouched DEF AtQueue, InHand, Unwritten
<1>2. CASE NextPiece(h)
  <2>1. /\ pc[h] = "next" /\ UNCHANGED <<queue, seen, inHand, status>>
        /\ \/ pc' = [pc EXCEPT ![h] = "stop"]
           \/ pc' = [pc EXCEPT ![h] = "begin"] /\ queue[h.conn] # <<>>
    BY <1>2 DEF NextPiece, QueueEmpty, Goto, localVars, tableVars
  <2>2. ReadsTrue(c)'
    BY <1>0, <2>1 DEF QueueSound, ReadsTrue
  <2>3. KeptAll(c)'
    <3> SUFFICES ASSUME NEW a \in Announcements, a.conn = c PROVE Kept(a)'
      BY DEF KeptAll
    <3>1. Kept(a) /\ (pc[a] \in Unwritten => pc'[a] \in Unwritten)
      BY <1>0, <2>1 DEF QueueSound, KeptAll, Unwritten
    <3>2. \A k \in Handlers : pc[k] \in {"advance", "reserve"} => pc'[k] = pc[k]
      BY <1>0, <2>1
    <3> QED
      BY <2>1, <3>1, <3>2 DEF Kept, Unwritten
  <2> QED
    BY <2>2, <2>3 DEF QueueSound
<1>3. CASE BeginPiece(h)
  <2>1. /\ pc[h] = "begin" /\ UNCHANGED <<queue, seen, inHand, status>>
        /\ pc' = [pc EXCEPT ![h] = "dequeue"]
    BY <1>3 DEF BeginPiece, Goto, localVars, tableVars
  <2>2. ReadsTrue(c)'
    BY <1>0, <2>1 DEF QueueSound, ReadsTrue
  <2>3. KeptAll(c)'
    <3> SUFFICES ASSUME NEW a \in Announcements, a.conn = c PROVE Kept(a)'
      BY DEF KeptAll
    <3>1. Kept(a) /\ (pc[a] \in Unwritten => pc'[a] \in Unwritten)
      BY <1>0, <2>1 DEF QueueSound, KeptAll, Unwritten
    <3>2. \A k \in Handlers : pc[k] \in {"advance", "reserve"} => pc'[k] = pc[k]
      BY <1>0, <2>1
    <3> QED
      BY <2>1, <3>1, <3>2 DEF Kept, Unwritten
  <2> QED
    BY <2>2, <2>3 DEF QueueSound
<1>4. CASE StopRequesting(h)
  <2>1. /\ pc[h] = "stop" /\ UNCHANGED <<queue, seen, inHand, status>>
        /\ pc' = [pc EXCEPT ![h] = "end"]
    BY <1>4 DEF StopRequesting, Goto, localVars, tableVars
  <2> QED
    BY <1>0, <2>1, QueueUntouched DEF AtQueue, InHand, Unwritten
<1>5. CASE Dequeue(h)
  <2>1. /\ pc[h] = "dequeue" /\ pc' = [pc EXCEPT ![h] = "advance"]
        /\ inHand' = [inHand EXCEPT ![h] = Head(queue[h.conn])]
        /\ seen' = [seen EXCEPT ![h] = Tail(queue[h.conn])]
        /\ UNCHANGED <<queue, status>>
    BY <1>5 DEF Dequeue, Rest, Goto, tableVars
  <2>2. ReadsTrue(c)'
    BY <1>0, <2>1 DEF QueueSound, ReadsTrue
  <2>3. KeptAll(c)'
    <3> SUFFICES ASSUME NEW a \in Announcements, a.conn = c PROVE Kept(a)'
      BY DEF KeptAll
    <3>1. Kept(a) /\ (pc[a] \in Unwritten => pc'[a] \in Unwritten)
      BY <1>0, <2>1 DEF QueueSound, KeptAll, Unwritten
    <3>2. \A k \in Handlers : pc[k] \in {"advance", "reserve"} =>
              pc'[k] = pc[k] /\ inHand'[k] = inHand[k]
      BY <1>0, <2>1
    <3> QED
      BY <2>1, <3>1, <3>2 DEF Kept, Unwritten
  <2> QED
    BY <2>2, <2>3 DEF QueueSound
<1>6. CASE DequeueFromEmpty(h)
  BY <1>6, QueueElsewhere DEF DequeueFromEmpty, Panic, tableVars, localVars
<1>7. CASE AdvanceQueue(h) /\ h.conn # c
  <2>1. /\ pc' = [pc EXCEPT ![h] = "reserve"] /\ UNCHANGED <<inHand, status>>
        /\ queue' = [queue EXCEPT ![h.conn] = seen[h]]
        /\ seen' = [seen EXCEPT ![h] = <<>>]
    BY <1>7 DEF AdvanceQueue, Goto, tableVars
  <2> QED
    BY <1>0, <1>7, <2>1, QueueElsewhere
<1>8. CASE AdvanceQueue(h) /\ h.conn = c
  <2> DEFINE q == queue[c]
  <2>1. /\ pc[h] = "advance" /\ pc' = [pc EXCEPT ![h] = "reserve"]
        /\ q # <<>> /\ inHand[h] = Head(q) /\ q \in Seq(Pieces)
        /\ queue' = [queue EXCEPT ![c] = Tail(q)]
        /\ seen' = [seen EXCEPT ![h] = <<>>]
        /\ UNCHANGED <<inHand, status>>
    BY <1>0, <1>8 DEF AdvanceQueue, Goto, QueueSound, ReadsTrue, tableVars
  <2>2. ToSet(q) = {inHand[h]} \cup ToSet(Tail(q)) /\ queue'[c] = Tail(q)
    BY <1>0, <2>1, ToSetTail
  <2>3. \A k \in Handlers : k.conn = c /\ k # h => ~AtQueue(k) /\ pc'[k] = pc[k]
    BY <1>0, <1>8, <2>1 DEF OneAtQueue, AtQueue
  <2>4. ReadsTrue(c)'
    BY <1>0, <2>1, <2>3 DEF ReadsTrue, AtQueue
  <2>5. KeptAll(c)'
    <3> SUFFICES ASSUME NEW a \in Announcements, a.conn = c, pc'[a] \notin Unwritten,
                        NEW p \in ToSet(a.pieces), status'[p] = "IDLE",
                        p \notin ToSet(queue'[c])
                 PROVE  \E k \in Handlers :
                           k.conn = c /\ pc'[k] \in InHand /\ inHand'[k] = p
      BY DEF KeptAll, Kept, Unwritten, InHand
    <3>1. pc[a] \notin Unwritten
      BY <1>0, <2>1 DEF Unwritten
    <3>2. CASE \E k \in Handlers : k.conn = c /\ pc[k] \in InHand /\ inHand[k] = p
      BY <1>0, <2>1, <3>2 DEF InHand
    <3>3. CASE p \in ToSet(q)
      <4>1. p = inHand[h]
        BY <2>2, <3>3
      <4> QED
        BY <1>0, <1>8, <2>1, <4>1 DEF InHand
    <3> QED
      BY <2>1, <3>1, <3>2, <3>3 DEF QueueSound, KeptAll, Kept, Unwritten, InHand
  <2> QED
    BY <2>4, <2>5 DEF QueueSound
<1>9. CASE ReservePiece(h) \/ ReservationRefused(h)
  <2>1. /\ pc[h] = "reserve"
        /\ \E to \in {"request", "next"} : pc' = [pc EXCEPT ![h] = to]
        /\ \A k \in Handlers \ {h} : inHand'[k] = inHand[k]
        /\ \A p \in Pieces : status'[p] = "IDLE" => status[p] = "IDLE" /\ p # inHand[h]
        /\ UNCHANGED <<queue, seen>>
    BY <1>0, <1>9
    DEF ReservePiece, ReservationRefused, Table!Reserve, Table!CanReserve, Goto, tableVars
  <2>2. ReadsTrue(c)'
    BY <1>0, <2>1 DEF QueueSound, ReadsTrue
  <2>3. KeptAll(c)'
    <3> SUFFICES ASSUME NEW a \in Announcements, a.conn = c, pc'[a] \notin Unwritten,
                        NEW p \in ToSet(a.pieces), status'[p] = "IDLE",
                        p \notin ToSet(queue'[c])
                 PROVE  \E k \in Handlers :
                           k.conn = c /\ pc'[k] \in InHand /\ inHand'[k] = p
      BY DEF KeptAll, Kept, Unwritten, InHand
    <3>1. pc[a] \notin Unwritten /\ p \in Pieces
      BY <1>0, <2>1, AnnouncementAssumption, ToSetIndexed DEF Unwritten
    <3>2. status[p] = "IDLE" /\ p # inHand[h]
      BY <2>1, <3>1
    <3>3. PICK k \in Handlers : k.conn = c /\ pc[k] \in InHand /\ inHand[k] = p
      BY <2>1, <3>1, <3>2 DEF QueueSound, KeptAll, Kept, Unwritten, InHand
    <3> QED
      BY <1>0, <2>1, <3>2, <3>3
  <2> QED
    BY <2>2, <2>3 DEF QueueSound
<1> QED
  BY <1>1, <1>2, <1>3, <1>4, <1>5, <1>6, <1>7, <1>8, <1>9 DEF RequestNextPiece

LEMMA QueueSoundStep ==
    ASSUME TypeOK, FirstHasPieces, NEW c \in Conns, QueueSound(c),
           OneAtQueue(c), OneAtQueue(c)', [Next]_vars
    PROVE  QueueSound(c)'
<1>0. /\ pc \in [Handlers -> PCs] /\ Announcements \subseteq Handlers
      /\ \A r \in Requests : r \in Handlers /\ r \notin Announcements
      /\ \A r \in Requests : r.piece \in Pieces
      /\ status \in [Pieces -> Table!PieceStatus]
  BY RequestFields, NilAssumption DEF TypeOK, TypeCore, Table!TableTypeOK, Handlers
<1>1. CASE UNCHANGED vars
  BY <1>1, QueueElsewhere DEF vars, localVars, tableVars
<1>2. ASSUME NEW h \in Handlers, Deliver(h) PROVE QueueSound(c)'
  <2>1. /\ \/ h \in Requests /\ pc[h] = "sent" /\ pc' = [pc EXCEPT ![h] = "recv"]
           \/ h \notin Requests /\ pc[h] = "idle" /\ pc' = [pc EXCEPT ![h] = "check"]
        /\ UNCHANGED <<queue, seen, inHand, status>>
    BY <1>2 DEF Deliver, Goto, localVars, tableVars
  <2> QED
    BY <1>0, <2>1, QueueUntouched DEF AtQueue, InHand, Unwritten
<1>3. ASSUME NEW h \in Handlers, RequestNextPiece(h) PROVE QueueSound(c)'
  BY <1>3, RequestNextPieceQueue
<1>4. ASSUME NEW a \in Announcements, AnnouncementStep(a) PROVE QueueSound(c)'
  BY <1>4, AnnouncementQueue
<1>5. ASSUME NEW r \in Requests, PieceStep(r) PROVE QueueSound(c)'
  <2>1. UNCHANGED <<queue, seen, inHand>>
    BY <1>5
    DEF PieceStep, LookUp, ReceiveBlock, ReceiveOnNilChannel, ReceiveOnClosedChannel,
        DecrementLeft, SaveBlock, SaveBlockFails, ReportError, CountLeft, ResetLeft,
        MarkDone, TallyUndone, Finalize, Panic, localVars
  <2>2. \/ UNCHANGED pc
        \/ /\ ~AtQueue(r) /\ pc[r] \notin InHand
           /\ \E to \in PCs : pc' = [pc EXCEPT ![r] = to] /\ ~AtQueue(r)'
    BY <1>0, <1>5
    DEF PieceStep, LookUp, ReceiveBlock, ReceiveOnNilChannel, ReceiveOnClosedChannel,
        DecrementLeft, SaveBlock, SaveBlockFails, ReportError, CountLeft, ResetLeft,
        MarkDone, TallyUndone, Finalize, Panic, Goto, AtQueue, InHand, PCs
  <2>3. \A p \in Pieces : status'[p] = "IDLE" => status[p] = "IDLE"
    <3>1. CASE MarkDone(r)
      BY <1>0, <3>1 DEF MarkDone, Table!MarkAsDone
    <3>2. CASE ~MarkDone(r)
      BY <1>5, <3>2
      DEF PieceStep, LookUp, ReceiveBlock, ReceiveOnNilChannel, ReceiveOnClosedChannel,
          DecrementLeft, SaveBlock, SaveBlockFails, ReportError, CountLeft, ResetLeft,
          TallyUndone, Finalize, Panic, tableVars
    <3> QED
      BY <3>1, <3>2
  <2>4. \A k \in Handlers : AtQueue(k)' => pc'[k] = pc[k]
    BY <1>0, <2>2
  <2>5. \A k \in Handlers : pc[k] \in InHand => pc'[k] = pc[k]
    BY <1>0, <2>2
  <2>6. \A a \in Announcements : pc'[a] = pc[a]
    BY <1>0, <2>2
  <2> QED
    BY <2>1, <2>3, <2>4, <2>5, <2>6, QueueUntouched
<1>6. ASSUME NEW r \in Requests, SenderStep(r) PROVE QueueSound(c)'
  <2>1. UNCHANGED <<queue, seen, inHand, status>>
    BY <1>6 DEF SenderStep, SendFirst, TimerExpires, Misfire, JudgePeer, Retry,
                localVars, tableVars
  <2>2. \/ UNCHANGED pc
        \/ \E q \in Requests :
              pc[q] \in {"idle", "ask"} /\ pc' = [pc EXCEPT ![q] = "sent"]
    BY <1>6 DEF SenderStep, SendFirst, TimerExpires, Misfire, JudgePeer, Retry, Goto
  <2> QED
    BY <1>0, <2>1, <2>2, QueueUntouched DEF AtQueue, InHand, Unwritten
<1>7. ASSUME NEW d \in Conns, ReadTimeout(d) \/ Disconnect(d) PROVE QueueSound(c)'
  BY <1>7, QueueElsewhere DEF ReadTimeout, Disconnect, localVars, tableVars
<1> QED
  BY <1>1, <1>2, <1>3, <1>4, <1>5, <1>6, <1>7 DEF Next

LEMMA FirstHasPiecesStep == FirstHasPieces /\ [Next]_vars => FirstHasPieces'
<1> SUFFICES ASSUME FirstHasPieces, [Next]_vars PROVE FirstHasPieces'
  OBVIOUS
<1>1. ASSUME NEW a \in Announcements, CheckQueue(a) PROVE FirstHasPieces'
  <2>1. a.kind = "HAVE" => Len(a.pieces) = 1
    BY AnnouncementAssumption
  <2>2. Len(<<>>) = 0
    OBVIOUS
  <2>3. first' = first \/ (first' = first \cup {a} /\ a.pieces # <<>>)
    BY <1>1, <2>1, <2>2 DEF CheckQueue
  <2> QED
    BY <2>3 DEF FirstHasPieces
<1>2. CASE first' \subseteq first
  BY <1>2 DEF FirstHasPieces
<1>3. ASSUME NEW a \in Announcements, AnnouncementStep(a), ~CheckQueue(a)
      PROVE  first' \subseteq first
  BY <1>3 DEF AnnouncementStep, ReadQueue, WriteQueue, StartRequester,
              StartOnEmptyQueue, Panic, localVars
<1>4. ASSUME NEW h \in Handlers, Deliver(h) \/ RequestNextPiece(h)
      PROVE  first' = first
  BY <1>4 DEF Deliver, RequestNextPiece, NextPiece, StopRequesting, BeginPiece, Dequeue,
              DequeueFromEmpty, AdvanceQueue, ReservePiece, ReservationRefused,
              RequestBlock, Panic, localVars
<1>5. ASSUME NEW r \in Requests, PieceStep(r) PROVE first' = first
  BY <1>5
  DEF PieceStep, LookUp, ReceiveBlock, ReceiveOnNilChannel, ReceiveOnClosedChannel,
      DecrementLeft, SaveBlock, SaveBlockFails, ReportError, CountLeft, ResetLeft,
      MarkDone, TallyUndone, Finalize, Panic, localVars
<1>6. ASSUME NEW r \in Requests, SenderStep(r) PROVE first' = first
  BY <1>6 DEF SenderStep, SendFirst, TimerExpires, Misfire, JudgePeer, Retry, localVars
<1>7. ASSUME NEW c \in Conns, ReadTimeout(c) \/ Disconnect(c) PROVE first' = first
  BY <1>7 DEF ReadTimeout, Disconnect, localVars
<1>8. CASE UNCHANGED vars
  BY <1>8 DEF vars, localVars, FirstHasPieces
<1> QED
  BY <1>1, <1>2, <1>3, <1>4, <1>5, <1>6, <1>7, <1>8 DEF Next

(* Away from the connections on record, every queue is sound. *)
OverlapInv ==
    /\ FirstHasPieces
    /\ \A c \in Conns \ overlap : OneAtQueue(c) /\ QueueSound(c)
    /\ crash = "emptyQueue" => overlap # {}

(* An index into an empty queue takes a queue that is not sound. *)
LEMMA EmptyQueuePanic ==
    ASSUME TypeOK, OverlapInv, [Next]_vars, crash' = "emptyQueue"
    PROVE  overlap # {}
<1> SUFFICES ASSUME crash # "emptyQueue" PROVE overlap # {}
  BY DEF OverlapInv
<1>1. ASSUME NEW a \in Announcements, StartOnEmptyQueue(a) PROVE overlap # {}
  BY <1>1, AnnouncementAssumption
  DEF StartOnEmptyQueue, OverlapInv, QueueSound, ReadsTrue, Handlers
<1>2. ASSUME NEW h \in Handlers, DequeueFromEmpty(h) PROVE overlap # {}
  BY <1>2, HandlerConn DEF DequeueFromEmpty, OverlapInv, QueueSound, ReadsTrue
<1>3. ASSUME NEW h \in Handlers, Deliver(h) \/ RequestNextPiece(h)
      PROVE  crash' = crash \/ DequeueFromEmpty(h)
  BY <1>3 DEF Deliver, RequestNextPiece, NextPiece, StopRequesting, BeginPiece, Dequeue,
              AdvanceQueue, ReservePiece, ReservationRefused, RequestBlock, clientVars
<1>4. ASSUME NEW a \in Announcements, AnnouncementStep(a)
      PROVE  crash' = crash \/ StartOnEmptyQueue(a)
  BY <1>4 DEF AnnouncementStep, CheckQueue, ReadQueue, WriteQueue, StartRequester,
              clientVars
<1>5. ASSUME NEW r \in Requests, PieceStep(r)
      PROVE  crash' = crash \/ crash' = "closedChannel"
  BY <1>5
  DEF PieceStep, LookUp, ReceiveBlock, ReceiveOnNilChannel, ReceiveOnClosedChannel,
      DecrementLeft, SaveBlock, SaveBlockFails, ReportError, CountLeft, ResetLeft,
      MarkDone, TallyUndone, Finalize, Panic, clientVars
<1>6. ASSUME NEW r \in Requests, SenderStep(r) PROVE crash' = crash
  BY <1>6 DEF SenderStep, SendFirst, TimerExpires, Misfire, JudgePeer, Retry, clientVars
<1>7. ASSUME NEW c \in Conns, ReadTimeout(c) \/ Disconnect(c) PROVE crash' = crash
  BY <1>7 DEF ReadTimeout, Disconnect
<1>8. ~ UNCHANGED vars
  BY DEF vars, clientVars
<1> QED
  BY <1>1, <1>2, <1>3, <1>4, <1>5, <1>6, <1>7, <1>8 DEF Next

LEMMA OverlapStep == TypeOK /\ OverlapInv /\ [RaceNext]_raceVars => OverlapInv'
<1> SUFFICES ASSUME TypeOK, OverlapInv, [RaceNext]_raceVars PROVE OverlapInv'
  OBVIOUS
<1>1. [Next]_vars
  BY DEF RaceNext, raceVars
<1>2. FirstHasPieces'
  BY <1>1, FirstHasPiecesStep DEF OverlapInv
<1>3. overlap \subseteq overlap'
  BY DEF RaceNext, raceVars
<1>4. ASSUME NEW c \in Conns \ overlap' PROVE OneAtQueue(c)' /\ QueueSound(c)'
  <2>1. OneAtQueue(c) /\ QueueSound(c)
    BY <1>3 DEF OverlapInv
  <2>2. OneAtQueue(c)'
    <3>1. CASE RaceNext
      <4>1. c \notin Overlapping'
        BY <1>4, <3>1 DEF RaceNext
      <4> QED
        BY <4>1 DEF Overlapping, OneAtQueue, AtQueue
    <3>2. CASE UNCHANGED raceVars
      BY <2>1, <3>2 DEF raceVars, vars, OneAtQueue, AtQueue
    <3> QED
      BY <3>1, <3>2
  <2> QED
    BY <1>1, <2>1, <2>2, QueueSoundStep DEF OverlapInv
<1>5. crash' = "emptyQueue" => overlap' # {}
  BY <1>1, <1>3, EmptyQueuePanic
<1> QED
  BY <1>2, <1>4, <1>5 DEF OverlapInv

LEMMA OverlapInvariant == RaceSpec => []OverlapInv
<1>1. RaceInit => OverlapInv
  <2> SUFFICES ASSUME RaceInit PROVE OverlapInv
    OBVIOUS
  <2>1. first = {} /\ crash = "none" /\ \A h \in Handlers : pc[h] = "idle"
    BY DEF RaceInit, Init
  <2>2. Announcements \subseteq Handlers
    BY DEF Handlers
  <2> QED
    BY <2>1, <2>2 DEF OverlapInv, FirstHasPieces, OneAtQueue, AtQueue, QueueSound,
                      ReadsTrue, KeptAll, Kept
<1>2. TypeOK /\ OverlapInv /\ [RaceNext]_raceVars => OverlapInv'
  BY OverlapStep
<1> QED
  BY <1>1, <1>2, RacesRefineDownload, TypeOKHolds, PTL DEF RaceSpec

(* A piece put into the queue by a HAVE or BITFIELD handler is dropped only *)
(* where two handlers of one connection were at its unlocked queue at once, *)
(* whatever the announcements, timeouts and failures were.                  *)
THEOREM PieceLostOnlyByOverlapHolds == RaceSpec => []PieceLostOnlyByOverlap
<1>1. OverlapInv => PieceLostOnlyByOverlap
  BY AnnouncementAssumption DEF OverlapInv, QueueSound, KeptAll, PieceLostOnlyByOverlap
<1> QED
  BY <1>1, OverlapInvariant, PTL

-----------------------------------------------------------------------------
(* Channels closed twice *)

Unrepeated == \A r \in Requests : r.try > 1 => pc[r] = "idle"

NoCrowd ==
    \A q, r \in Requests :
        q.conn = r.conn /\ q.blk = r.blk /\ InFlight(q) /\ InFlight(r) => q = r

Channel(c, g, s) == requesters[c][g].data[s]

(* A channel belongs to the slot, the connection and the requester of a    *)
(* REQUEST that was sent.                                                  *)
ChannelOwners ==
    \A c \in Conns, s \in Slots : \A g \in 1 .. Len(requesters[c]) :
        LET q == Channel(c, g, s)
        IN  q # Nil => /\ q \in Requests /\ q.conn = c /\ q.blk = s
                       /\ owner[q] = g /\ Sent(q)

(* The channel of an unanswered REQUEST is in its slot, and open. *)
OpenChannels ==
    \A r \in Requests : InFlight(r) /\ Sent(r) =>
        Channel(r.conn, owner[r], r.blk) = r /\ r \notin closed

ClosedWereSent == \A q \in closed : Sent(q)

(* No younger REQUEST for the slot has been made meanwhile. *)
Youngest ==
    \A q, r \in Requests :
        q.conn = r.conn /\ q.blk = r.blk /\ pc[q] # "idle" /\ InFlight(r)
            => owner[q] <= owner[r]

ChannelInv == ChannelOwners /\ OpenChannels /\ ClosedWereSent /\ Youngest

(* Requesters are added and updated, and their channels stay as they are. *)
SameChannels ==
    \A c \in Conns :
        /\ Len(requesters[c]) \in Nat /\ Len(requesters'[c]) \in Nat
        /\ Len(requesters[c]) <= Len(requesters'[c])
        /\ \A s \in Slots, g \in 1 .. Len(requesters'[c]) :
              Channel(c, g, s)' = IF g <= Len(requesters[c]) THEN Channel(c, g, s) ELSE Nil

LEMMA ChannelsKept ==
    ASSUME RequesterInv, ChannelInv, SameChannels, UNCHANGED <<owner, closed>>,
           \A r \in Requests : pc'[r] # "idle" => pc[r] # "idle",
           \A r \in Requests : Sent(r) <=> Sent(r)',
           \A r \in Requests : InFlight(r)' => InFlight(r)
    PROVE  ChannelInv'
<1>1. ChannelOwners'
  BY DEF ChannelInv, ChannelOwners, SameChannels
<1>2. OpenChannels'
  <2> SUFFICES ASSUME NEW r \in Requests, InFlight(r)', Sent(r)'
               PROVE  Channel(r.conn, owner[r], r.blk)' = r /\ r \notin closed
    BY DEF OpenChannels, Channel
  <2>1. /\ r.conn \in Conns /\ r.blk \in Slots
        /\ Channel(r.conn, owner[r], r.blk) = r /\ r \notin closed
    BY RequestFields DEF ChannelInv, OpenChannels
  <2>2. owner[r] \in 1 .. Len(requesters[r.conn])
    BY HasRequester DEF Sent
  <2> QED
    BY <2>1, <2>2 DEF SameChannels, Channel
<1>3. ClosedWereSent'
  BY DEF ChannelInv, ClosedWereSent, RequesterInv, TypeCore
<1>4. Youngest'
  BY DEF ChannelInv, Youngest
<1> QED
  BY <1>1, <1>2, <1>3, <1>4 DEF ChannelInv

LEMMA RequestersUnchanged ==
    ASSUME RequesterInv, UNCHANGED requesters
    PROVE  SameChannels
  BY LenProperties DEF RequesterInv, TypeCore, SameChannels, Channel

LEMMA RequesterAdded ==
    ASSUME RequesterInv, NEW c \in Conns, NEW p \in Pieces,
           requesters' = [requesters EXCEPT ![c] = Append(@, NewBlockRequester(p))]
    PROVE  SameChannels
<1> DEFINE b == NewBlockRequester(p)
           t == Append(requesters[c], b)
<1>0. requesters \in [Conns -> Seq(Requester)]
  BY DEF RequesterInv, TypeCore
<1>1. b \in Requester /\ \A s \in Slots : b.data[s] = Nil
  BY CountAssumption DEF NewBlockRequester, Requester
<1>2. /\ t \in Seq(Requester) /\ Len(t) = Len(requesters[c]) + 1
      /\ \A j \in 1 .. Len(requesters[c]) : t[j] = requesters[c][j]
      /\ t[Len(requesters[c]) + 1] = b
  <2> HIDE DEF b
  <2> QED
    BY <1>0, <1>1, AppendProperties
<1>3. requesters' = [requesters EXCEPT ![c] = t]
  OBVIOUS
<1> HIDE DEF t, b
<1> SUFFICES ASSUME NEW d \in Conns
             PROVE  /\ Len(requesters[d]) \in Nat /\ Len(requesters'[d]) \in Nat
                    /\ Len(requesters[d]) <= Len(requesters'[d])
                    /\ \A s \in Slots, g \in 1 .. Len(requesters'[d]) :
                          Channel(d, g, s)' = IF g <= Len(requesters[d])
                                              THEN Channel(d, g, s) ELSE Nil
  BY DEF SameChannels
<1>4. requesters[d] \in Seq(Requester) /\ Len(requesters[d]) \in Nat
  BY <1>0, LenProperties
<1>5. CASE d = c
  <2>1. requesters'[d] = t
    BY <1>0, <1>3, <1>5
  <2>2. Len(requesters'[d]) = Len(requesters[d]) + 1
    BY <1>2, <1>5, <2>1
  <2>3. ASSUME NEW s \in Slots, NEW g \in 1 .. Len(requesters'[d])
        PROVE  Channel(d, g, s)' = IF g <= Len(requesters[d])
                                   THEN Channel(d, g, s) ELSE Nil
    <3>1. CASE g <= Len(requesters[d])
      BY <1>2, <1>4, <1>5, <2>1, <2>2, <3>1 DEF Channel
    <3>2. CASE g = Len(requesters[d]) + 1
      BY <1>1, <1>2, <1>4, <1>5, <2>1, <3>2 DEF Channel
    <3> QED
      BY <1>4, <2>2, <3>1, <3>2
  <2> QED
    BY <1>4, <2>2, <2>3
<1>6. CASE d # c
  <2>1. requesters'[d] = requesters[d]
    BY <1>0, <1>3, <1>6
  <2>2. ASSUME NEW s \in Slots, NEW g \in 1 .. Len(requesters'[d])
        PROVE  g <= Len(requesters[d]) /\ Channel(d, g, s)' = Channel(d, g, s)
    <3>1. g <= Len(requesters[d])
      <4>1. g \in 1 .. Len(requesters[d])
        BY <2>1, Zenon
      <4> QED
        BY <1>4, <4>1
    <3>2. Channel(d, g, s)' = Channel(d, g, s)
      BY <2>1, Zenon DEF Channel
    <3> QED
      BY <3>1, <3>2
  <2> QED
    BY <1>4, <2>1, <2>2
<1> QED
  BY <1>5, <1>6

LEMMA RequesterRewritten ==
    ASSUME RequesterInv, NEW c \in Conns, NEW g \in 1 .. Len(requesters[c]),
           NEW b \in Requester, b.data = requesters[c][g].data,
           SetRequester(c, g, b)
    PROVE  SameChannels
<1> DEFINE s == requesters[c]
           t == [s EXCEPT ![g] = b]
<1>0. requesters \in [Conns -> Seq(Requester)] /\ s \in Seq(Requester)
  BY DEF RequesterInv, TypeCore
<1>1. /\ t \in Seq(Requester) /\ Len(t) = Len(s)
      /\ \A j \in 1 .. Len(s) : t[j] = IF j = g THEN b ELSE s[j]
  BY <1>0, ExceptSeq
<1>2. requesters' = [requesters EXCEPT ![c] = t]
  BY DEF SetRequester
<1> HIDE DEF t
<1> SUFFICES ASSUME NEW d \in Conns
             PROVE  /\ Len(requesters[d]) \in Nat /\ Len(requesters'[d]) \in Nat
                    /\ Len(requesters[d]) <= Len(requesters'[d])
                    /\ \A x \in Slots, k \in 1 .. Len(requesters'[d]) :
                          Channel(d, k, x)' = IF k <= Len(requesters[d])
                                              THEN Channel(d, k, x) ELSE Nil
  BY DEF SameChannels
<1>3. requesters[d] \in Seq(Requester) /\ Len(requesters[d]) \in Nat
  BY <1>0, LenProperties
<1>4. CASE d = c
  <2>1. requesters'[d] = t
    BY <1>0, <1>2, <1>4
  <2> QED
    BY <1>1, <1>3, <1>4, <2>1 DEF Channel
<1>5. CASE d # c
  <2>1. requesters'[d] = requesters[d]
    BY <1>2, <1>5
  <2> QED
    BY <1>3, <2>1 DEF Channel
<1> QED
  BY <1>4, <1>5

(* A handler locks, releases or resets a requester. *)
LEMMA LockedChannels ==
    ASSUME RequesterInv, NEW r \in Requests,
           ReceiveBlock(r) \/ ReceiveOnNilChannel(r) \/ DecrementLeft(r) \/ ResetLeft(r)
    PROVE  SameChannels
<1>0. r.conn \in Conns /\ requesters \in [Conns -> Seq(Requester)]
  BY RequestFields DEF RequesterInv, TypeCore
<1>1. ASSUME NEW g \in 1 .. Len(requesters[r.conn]), NEW b,
             b \in Requester => b.data = requesters[r.conn][g].data,
             requesters[r.conn][g] \in Requester => b \in Requester,
             SetRequester(r.conn, g, b)
      PROVE  SameChannels
  <2>1. requesters[r.conn][g] \in Requester
    BY <1>0, ElementOfSeq
  <2> QED
    BY <1>0, <1>1, <2>1, RequesterRewritten
<1>2. CASE ReceiveBlock(r)
  <2> DEFINE old == Looked(r)
             b == [old EXCEPT !.holder = r, !.read = old.left]
  <2>1. PICK g \in 1 .. Len(requesters[r.conn]) : g = at[r]
    BY <1>2, LookedIsRequester DEF ReceiveBlock, Goto, Looking
  <2>2. SetRequester(r.conn, g, b) /\ old = requesters[r.conn][g]
    BY <1>2, <2>1 DEF ReceiveBlock, Looked
  <2>3. old \in Requester => b \in Requester /\ b.data = old.data
    BY DEF Requester
  <2>4. old \in Requester
    BY <1>0, <2>2, ElementOfSeq
  <2> HIDE DEF b, old
  <2> QED
    BY <1>1, <2>2, <2>3, <2>4
<1>3. CASE ReceiveOnNilChannel(r)
  <2> DEFINE old == Looked(r)
             b == [old EXCEPT !.holder = r]
  <2>1. PICK g \in 1 .. Len(requesters[r.conn]) : g = at[r]
    BY <1>3, LookedIsRequester DEF ReceiveOnNilChannel, Goto, Looking
  <2>2. SetRequester(r.conn, g, b) /\ old = requesters[r.conn][g]
    BY <1>3, <2>1 DEF ReceiveOnNilChannel, Looked
  <2>3. old \in Requester => b \in Requester /\ b.data = old.data
    BY DEF Requester
  <2>4. old \in Requester
    BY <1>0, <2>2, ElementOfSeq
  <2> HIDE DEF b, old
  <2> QED
    BY <1>1, <2>2, <2>3, <2>4
<1>4. CASE DecrementLeft(r)
  <2>1. PICK g \in 1 .. Len(requesters[r.conn]) :
           LET old == requesters[r.conn][g]
           IN  SetRequester(r.conn, g, [old EXCEPT !.left = LeftAfter(old),
                                                   !.holder = Nil, !.read = 0])
    BY <1>0, <1>4, LenProperties DEF DecrementLeft
  <2> DEFINE old == requesters[r.conn][g]
             b == [old EXCEPT !.left = LeftAfter(old), !.holder = Nil, !.read = 0]
  <2>2. old \in Requester
    BY <1>0, ElementOfSeq
  <2>3. PICK n \in Int : n = LeftAfter(old)
    BY <2>2, RequesterFields DEF LeftAfter
  <2>4. b \in Requester /\ b.data = old.data
    <3> DEFINE counted == [old EXCEPT !.left = n]
               freed == [counted EXCEPT !.holder = Nil]
    <3>1. counted \in Requester /\ counted.data = old.data
      BY <2>2 DEF Requester
    <3> HIDE DEF counted
    <3>2. freed \in Requester /\ freed.data = old.data
      BY <3>1 DEF Requester
    <3> HIDE DEF freed
    <3>3. b = [freed EXCEPT !.read = 0]
      BY <2>3 DEF freed, counted
    <3> HIDE DEF b
    <3> QED
      BY <3>2, <3>3 DEF Requester
  <2>5. SetRequester(r.conn, g, b)
    BY <2>1
  <2> HIDE DEF b
  <2> QED
    BY <1>1, <2>4, <2>5
<1>5. CASE ResetLeft(r)
  <2> DEFINE old == Current(r.conn)
             b == LeftReset(old)
  <2>1. PICK g \in 1 .. Len(requesters[r.conn]) : g = Len(requesters[r.conn])
    BY <1>5, CurrentIsRequester DEF ResetLeft, Goto
  <2>2. SetRequester(r.conn, g, b) /\ old = requesters[r.conn][g]
    BY <1>5, <2>1 DEF ResetLeft, SetCurrent, Current
  <2>3. old \in Requester
    BY <1>0, <2>2, ElementOfSeq
  <2>4. b \in Requester /\ b.data = old.data
    BY <2>3 DEF Requester, LeftReset
  <2> HIDE DEF b, old
  <2> QED
    BY <1>1, <2>2, <2>3, <2>4
<1> QED
  BY <1>2, <1>3, <1>4, <1>5

(* A request made, while no other for its slot is in flight. *)
LEMMA RequestBlockChannels ==
    ASSUME RequesterInv, ChannelInv, NoCrowd', NEW h \in Handlers, RequestBlock(h)
    PROVE  ChannelInv'
<1>0. /\ pc \in [Handlers -> PCs] /\ owner \in [Requests -> Nat]
      /\ Requests \subseteq Handlers
  BY DEF RequesterInv, TypeCore, Handlers
<1>1. PICK r \in Requests :
         /\ pc[r] = "idle" /\ r.conn = h.conn
         /\ owner' = [owner EXCEPT ![r] = Len(requesters[h.conn])]
         /\ \E last \in BOOLEAN :
               pc' = [pc EXCEPT ![r] = "ask", ![h] = IF last THEN "end" ELSE @]
         /\ UNCHANGED <<requesters, closed>>
  BY DEF RequestBlock, IsLast
<1>2. /\ pc[h] = "request" /\ r # h /\ pc'[r] = "ask"
      /\ \A k \in Handlers \ {r} : \/ pc'[k] = pc[k]
                                   \/ pc[k] = "request" /\ pc'[k] = "end"
  BY <1>0, <1>1 DEF RequestBlock
<1>3. /\ \A q \in Requests : Sent(q) <=> Sent(q)'
      /\ \A q \in Requests : Sent(q) => owner'[q] = owner[q]
      /\ \A q \in Requests \ {r} : owner'[q] = owner[q]
  BY <1>0, <1>1, <1>2 DEF Sent
<1>4. ChannelOwners'
  BY <1>1, <1>3 DEF ChannelInv, ChannelOwners, Channel
<1>5. OpenChannels'
  <2> SUFFICES ASSUME NEW q \in Requests, InFlight(q)', Sent(q)'
               PROVE  requesters'[q.conn][owner'[q]].data[q.blk] = q /\ q \notin closed'
    BY DEF OpenChannels, Channel
  <2>1. q # r /\ InFlight(q) /\ Sent(q)
    BY <1>0, <1>2, <1>3 DEF InFlight, Sent
  <2> QED
    BY <1>1, <1>3, <2>1 DEF ChannelInv, OpenChannels, Channel
<1>6. ClosedWereSent'
  BY <1>1, <1>3 DEF ChannelInv, ClosedWereSent, RequesterInv, TypeCore
<1>7. Youngest'
  <2> SUFFICES ASSUME NEW q1 \in Requests, NEW q2 \in Requests, q1.conn = q2.conn,
                      q1.blk = q2.blk, pc'[q1] # "idle", InFlight(q2)'
               PROVE  owner'[q1] <= owner'[q2]
    BY DEF Youngest
  <2>1. CASE q1 = r
    <3>1. InFlight(q1)'
      BY <1>2, <2>1 DEF InFlight
    <3>2. q1 = q2
      BY <3>1 DEF NoCrowd
    <3>3. Len(requesters[h.conn]) \in Nat
      BY HandlerConn, LenProperties DEF RequesterInv, TypeCore
    <3> QED
      BY <1>0, <1>1, <2>1, <3>2, <3>3
  <2>2. CASE q1 # r /\ q2 = r
    <3>1. pc[q1] # "idle"
      BY <1>0, <1>2, <2>2
    <3>2. owner[q1] <= Len(requesters[q1.conn])
      BY <3>1, HasRequester
    <3> QED
      BY <1>0, <1>1, <1>3, <2>2, <3>2
  <2>3. CASE q1 # r /\ q2 # r
    <3>1. pc[q1] # "idle" /\ InFlight(q2)
      BY <1>0, <1>2, <2>3 DEF InFlight
    <3> QED
      BY <1>3, <2>3, <3>1 DEF ChannelInv, Youngest
  <2> QED
    BY <2>1, <2>2, <2>3
<1> QED
  BY <1>4, <1>5, <1>6, <1>7 DEF ChannelInv

(* The first REQUEST for a block is sent: its channel takes the slot. *)
LEMMA SendFirstChannels ==
    ASSUME RequesterInv, ChannelInv, NoCrowd, NEW r \in Requests, SendFirst(r)
    PROVE  ChannelInv'
<1> DEFINE c == r.conn
           g == owner[r]
           old == requesters[c][g]
           b == [old EXCEPT !.data[r.blk] = r]
           t == [requesters[c] EXCEPT ![g] = b]
<1>0. /\ pc \in [Handlers -> PCs] /\ r \in Handlers /\ c \in Conns /\ r.blk \in Slots
      /\ requesters \in [Conns -> Seq(Requester)] /\ closed \subseteq Requests
      /\ Requests \subseteq Handlers /\ r # Nil
  BY RequestFields, NilAssumption DEF RequesterInv, TypeCore, Handlers
<1>1. /\ pc[r] = "ask" /\ pc' = [pc EXCEPT ![r] = "sent"]
      /\ UNCHANGED <<owner, closed>>
      /\ requesters' = [requesters EXCEPT ![c] = t]
  BY DEF SendFirst, Goto, Send, MakeChannel, SetRequester
<1>2. g \in 1 .. Len(requesters[c]) /\ Len(requesters[c]) \in Nat
  BY <1>1, HasRequester
<1>3. old \in Requester
  BY <1>0, <1>2, ElementOfSeq
<1>4. b \in Requester /\ b.data = [old.data EXCEPT ![r.blk] = r]
  BY <1>0, <1>3, RequesterFields DEF Requester
<1>5. old.data \in [Slots -> Requests \cup {Nil}]
  BY <1>3, RequesterFields
<1>6. /\ t \in Seq(Requester) /\ Len(t) = Len(requesters[c])
      /\ \A j \in 1 .. Len(requesters[c]) : t[j] = IF j = g THEN b ELSE requesters[c][j]
  <2> HIDE DEF b
  <2> QED
    BY <1>0, <1>2, <1>4, ExceptSeq
<1> HIDE DEF t, b
<1>7. ASSUME NEW d \in Conns, NEW s \in Slots, NEW k \in 1 .. Len(requesters'[d])
      PROVE  /\ k \in 1 .. Len(requesters[d])
             /\ Channel(d, k, s)' = IF d = c /\ k = g /\ s = r.blk THEN r
                                    ELSE Channel(d, k, s)
  <2>1. CASE d # c
    BY <1>0, <1>1, <2>1 DEF Channel
  <2>2. CASE d = c
    <3>1. requesters'[d] = t
      BY <1>0, <1>1, <2>2
    <3>2. k \in 1 .. Len(requesters[c])
      BY <1>6, <3>1
    <3>3. CASE k = g
      BY <1>0, <1>4, <1>5, <1>6, <2>2, <3>1, <3>2, <3>3 DEF Channel
    <3>4. CASE k # g
      BY <1>6, <2>2, <3>1, <3>2, <3>4 DEF Channel
    <3> QED
      BY <2>2, <3>2, <3>3, <3>4
  <2> QED
    BY <2>1, <2>2
<1>8. /\ Sent(r)' /\ ~Sent(r) /\ InFlight(r)
      /\ \A q \in Requests \ {r} : (Sent(q) <=> Sent(q)') /\ (InFlight(q) <=> InFlight(q)')
  BY <1>0, <1>1 DEF Sent, InFlight
<1>9. \A d \in Conns : Len(requesters'[d]) = Len(requesters[d])
  BY <1>0, <1>1, <1>6
<1>10. ChannelOwners'
  <2> SUFFICES ASSUME NEW d \in Conns, NEW s \in Slots, NEW k \in 1 .. Len(requesters'[d]),
                      NEW q, q = Channel(d, k, s)', q # Nil
               PROVE  /\ q \in Requests /\ q.conn = d /\ q.blk = s
                      /\ owner'[q] = k /\ Sent(q)'
    BY DEF ChannelOwners
  <2>1. CASE d = c /\ k = g /\ s = r.blk
    BY <1>1, <1>7, <1>8, <2>1
  <2>2. CASE ~(d = c /\ k = g /\ s = r.blk)
    <3>1. q = Channel(d, k, s) /\ k \in 1 .. Len(requesters[d])
      BY <1>7, <2>2
    <3>2. q \in Requests /\ q.conn = d /\ q.blk = s /\ owner[q] = k /\ Sent(q)
      BY <3>1 DEF ChannelInv, ChannelOwners
    <3> QED
      BY <1>1, <1>8, <3>2
  <2> QED
    BY <2>1, <2>2
<1>11. OpenChannels'
  <2> SUFFICES ASSUME NEW q \in Requests, InFlight(q)', Sent(q)'
               PROVE  requesters'[q.conn][owner[q]].data[q.blk] = q /\ q \notin closed
    BY <1>1 DEF OpenChannels, Channel
  <2>0. q.conn \in Conns /\ q.blk \in Slots
    BY RequestFields
  <2>1. CASE q = r
    <3>1. g \in 1 .. Len(requesters'[c])
      BY <1>0, <1>2, <1>9
    <3>2. requesters'[c][g].data[r.blk] = r
      BY <1>0, <1>7, <3>1 DEF Channel
    <3>3. r \notin closed
      BY <1>8 DEF ChannelInv, ClosedWereSent
    <3> QED
      BY <2>1, <3>2, <3>3
  <2>2. CASE q # r
    <3>1. InFlight(q) /\ Sent(q) /\ ~(q.conn = c /\ q.blk = r.blk)
      BY <1>8, <2>2 DEF NoCrowd
    <3>2. owner[q] \in 1 .. Len(requesters'[q.conn])
      BY <1>9, <2>0, <3>1, HasRequester DEF Sent
    <3>3. requesters'[q.conn][owner[q]].data[q.blk] = Channel(q.conn, owner[q], q.blk)
      BY <1>7, <2>0, <3>1, <3>2 DEF Channel
    <3> QED
      BY <3>1, <3>3 DEF ChannelInv, OpenChannels
  <2> QED
    BY <2>1, <2>2
<1>12. ClosedWereSent'
  BY <1>0, <1>1, <1>8 DEF ChannelInv, ClosedWereSent
<1>13. Youngest'
  <2>1. \A q \in Requests : InFlight(q)' => InFlight(q)
    BY <1>8
  <2>2. \A q \in Requests : pc'[q] # "idle" => pc[q] # "idle"
    BY <1>0, <1>1
  <2> QED
    BY <1>1, <2>1, <2>2 DEF ChannelInv, Youngest
<1> QED
  BY <1>10, <1>11, <1>12, <1>13 DEF ChannelInv

(* An answer closes the channel of its own REQUEST, and no other's. *)
LEMMA ReceiveChannels ==
    ASSUME RequesterInv, ChannelInv, NoCrowd, NEW r \in Requests, ReceiveBlock(r)
    PROVE  ChannelInv'
<1> DEFINE ch == Channel(r.conn, at[r], r.blk)
<1>0. pc \in [Handlers -> PCs] /\ r \in Handlers /\ r.conn \in Conns /\ r.blk \in Slots
      /\ Requests \subseteq Handlers /\ closed \subseteq Requests
  BY RequestFields DEF RequesterInv, TypeCore, Handlers
<1>1. /\ pc[r] = "lock" /\ pc' = [pc EXCEPT ![r] = "decrement"]
      /\ ch # Nil /\ closed' = closed \cup {ch} /\ UNCHANGED owner
  BY DEF ReceiveBlock, Goto, Looked, Channel
<1>2. at[r] \in 1 .. Len(requesters[r.conn])
  BY <1>1, LookedIsRequester DEF Looking
<1>3. ch \in Requests /\ ch.conn = r.conn /\ ch.blk = r.blk /\ Sent(ch)
  BY <1>0, <1>1, <1>2 DEF ChannelInv, ChannelOwners
<1>4. SameChannels
  BY LockedChannels
<1> HIDE DEF ch
<1>5. /\ \A q \in Requests : Sent(q) <=> Sent(q)'
      /\ \A q \in Requests : InFlight(q)' => InFlight(q) /\ q # r
      /\ \A q \in Requests : pc'[q] # "idle" => pc[q] # "idle"
      /\ InFlight(r)
  BY <1>0, <1>1 DEF Sent, InFlight
<1>6. ChannelOwners'
  BY <1>1, <1>4, <1>5 DEF ChannelInv, ChannelOwners, SameChannels
<1>7. OpenChannels'
  <2> SUFFICES ASSUME NEW q \in Requests, InFlight(q)', Sent(q)'
               PROVE  requesters'[q.conn][owner[q]].data[q.blk] = q /\ q \notin closed'
    BY <1>1 DEF OpenChannels, Channel
  <2>1. /\ q.conn \in Conns /\ q.blk \in Slots /\ Sent(q) /\ InFlight(q) /\ q # r
        /\ Channel(q.conn, owner[q], q.blk) = q /\ q \notin closed
    BY <1>5, RequestFields DEF ChannelInv, OpenChannels
  <2>2. owner[q] \in 1 .. Len(requesters[q.conn])
    BY <2>1, HasRequester DEF Sent
  <2>3. requesters'[q.conn][owner[q]].data[q.blk] = q
    <3>1. owner[q] \in 1 .. Len(requesters'[q.conn]) /\ owner[q] <= Len(requesters[q.conn])
      BY <2>1, <2>2, <1>4 DEF SameChannels
    <3> QED
      BY <2>1, <3>1, <1>4 DEF SameChannels, Channel
  <2>4. q # ch
    BY <1>3, <1>5, <2>1 DEF NoCrowd
  <2> QED
    BY <1>1, <2>1, <2>3, <2>4
<1>8. ClosedWereSent'
  BY <1>0, <1>1, <1>3, <1>5 DEF ChannelInv, ClosedWereSent
<1>9. Youngest'
  BY <1>1, <1>5 DEF ChannelInv, Youngest
<1> QED
  BY <1>6, <1>7, <1>8, <1>9 DEF ChannelInv

(* A channel found closed takes a crowd or a retry. *)
LEMMA NoClosedChannel ==
    ASSUME RequesterInv, ChannelInv, NEW r \in Requests
    PROVE  ~ReceiveOnClosedChannel(r)
<1> SUFFICES ASSUME ReceiveOnClosedChannel(r) PROVE FALSE
  OBVIOUS
<1> DEFINE ch == Channel(r.conn, at[r], r.blk)
<1>1. pc[r] = "lock" /\ ch \in closed /\ r.conn \in Conns /\ r.blk \in Slots
  BY RequestFields DEF ReceiveOnClosedChannel, Looked, Channel
<1>2. /\ at[r] \in 1 .. Len(requesters[r.conn]) /\ owner[r] <= at[r]
      /\ owner[r] \in 1 .. Len(requesters[r.conn])
  BY <1>1, LookedIsRequester, HasRequester DEF Looking
<1>3. ch # Nil
  BY <1>1, NilAssumption DEF RequesterInv, TypeCore
<1>4. /\ ch \in Requests /\ ch.conn = r.conn /\ ch.blk = r.blk
      /\ owner[ch] = at[r] /\ pc[ch] # "idle"
  BY <1>1, <1>2, <1>3 DEF ChannelInv, ChannelOwners, Sent
<1>5. InFlight(r) /\ Sent(r)
  BY <1>1 DEF InFlight, Sent
<1>6. at[r] <= owner[r]
  BY <1>4, <1>5 DEF ChannelInv, Youngest
<1>7. at[r] = owner[r]
  BY <1>2, <1>6
<1> QED
  BY <1>1, <1>5, <1>7 DEF ChannelInv, OpenChannels

LEMMA ChannelStep ==
    ASSUME RequesterInv, ChannelInv, NoCrowd, NoCrowd', Unrepeated', [Next]_vars
    PROVE  ChannelInv' /\ (crash' = "closedChannel" => crash = "closedChannel")
<1>0. pc \in [Handlers -> PCs] /\ Requests \subseteq Handlers
  BY DEF RequesterInv, TypeCore, Handlers
<1> DEFINE Ok == ChannelInv' /\ (crash' = "closedChannel" => crash = "closedChannel")
<1>1. CASE UNCHANGED vars
  BY <1>1, RequestersUnchanged, ChannelsKept DEF vars, timerVars, clientVars, Sent, InFlight
<1>2. ASSUME NEW h \in Handlers, Deliver(h) PROVE Ok
  <2>1. UNCHANGED <<requesters, owner, closed, crash>>
    BY <1>2 DEF Deliver, timerVars, clientVars
  <2>2. /\ \A q \in Requests : pc'[q] # "idle" => pc[q] # "idle"
        /\ \A q \in Requests : Sent(q) <=> Sent(q)'
        /\ \A q \in Requests : InFlight(q)' => InFlight(q)
    BY <1>0, <1>2 DEF Deliver, Goto, Sent, InFlight
  <2> QED
    BY <2>1, <2>2, RequestersUnchanged, ChannelsKept
<1>3. ASSUME NEW h \in Handlers, RequestNextPiece(h) PROVE Ok
  <2>1. CASE RequestBlock(h)
    BY <2>1, RequestBlockChannels DEF RequestBlock, clientVars
  <2>2. CASE ~RequestBlock(h)
    <3>1. UNCHANGED <<requesters, owner, closed>> /\ crash' \in {crash, "emptyQueue"}
      BY <1>3, <2>2 DEF RequestNextPiece, NextPiece, StopRequesting, BeginPiece, Dequeue,
         DequeueFromEmpty, AdvanceQueue, ReservePiece, ReservationRefused, Panic,
         timerVars, clientVars
    <3>2. \/ UNCHANGED pc
          \/ /\ pc[h] \in Requesting \ {"request"}
             /\ \E to \in Requesting \cup {"end"} : pc' = [pc EXCEPT ![h] = to]
      BY <1>3, <2>2 DEF RequestNextPiece, NextPiece, StopRequesting, BeginPiece, Dequeue,
         DequeueFromEmpty, AdvanceQueue, ReservePiece, ReservationRefused, Panic, Goto,
         Requesting
    <3>3. /\ \A q \in Requests : pc'[q] # "idle" => pc[q] # "idle"
          /\ \A q \in Requests : Sent(q) <=> Sent(q)'
          /\ \A q \in Requests : InFlight(q)' => InFlight(q)
      BY <1>0, <3>2 DEF Requesting, Sent, InFlight
    <3> QED
      BY <3>1, <3>3, RequestersUnchanged, ChannelsKept
  <2> QED
    BY <2>1, <2>2
<1>4. ASSUME NEW a \in Announcements, AnnouncementStep(a) PROVE Ok
  <2>1. /\ UNCHANGED <<owner, closed>> /\ crash' \in {crash, "emptyQueue"}
        /\ \A q \in Requests : pc'[q] = pc[q]
    <3>1. a \in Handlers /\ a \notin Requests
      BY NilAssumption DEF Handlers
    <3> QED
      BY <1>0, <1>4, <3>1
      DEF AnnouncementStep, CheckQueue, ReadQueue, WriteQueue, StartRequester,
          StartOnEmptyQueue, Panic, Goto, timerVars, clientVars
  <2>2. SameChannels
    <3>1. CASE StartRequester(a)
      BY <3>1, AnnouncementAssumption, RequesterAdded DEF StartRequester
    <3>2. CASE ~StartRequester(a)
      <4>1. UNCHANGED requesters
        BY <1>4, <3>2 DEF AnnouncementStep, CheckQueue, ReadQueue, WriteQueue,
                          StartOnEmptyQueue, Panic
      <4> QED
        BY <4>1, RequestersUnchanged
    <3> QED
      BY <3>1, <3>2
  <2> QED
    BY <2>1, <2>2, ChannelsKept DEF Sent, InFlight
<1>5. ASSUME NEW r \in Requests, PieceStep(r) PROVE Ok
  <2>1. CASE ReceiveBlock(r)
    BY <2>1, ReceiveChannels DEF ReceiveBlock, clientVars
  <2>2. CASE ~ReceiveBlock(r)
    <3>1. ~ReceiveOnClosedChannel(r)
      BY NoClosedChannel
    <3>2. UNCHANGED <<owner, closed, crash>>
      BY <1>5, <2>2, <3>1
      DEF PieceStep, LookUp, ReceiveOnNilChannel, DecrementLeft,
          SaveBlock, SaveBlockFails, ReportError, CountLeft, ResetLeft, MarkDone,
          TallyUndone, Finalize, timerVars, clientVars
    <3>3. /\ \A q \in Requests : pc'[q] # "idle" => pc[q] # "idle"
          /\ \A q \in Requests : Sent(q) <=> Sent(q)'
          /\ \A q \in Requests : InFlight(q)' => InFlight(q)
      BY <1>0, <1>5, <2>2, <3>1
      DEF PieceStep, LookUp, ReceiveOnNilChannel, DecrementLeft,
          SaveBlock, SaveBlockFails, ReportError, CountLeft, ResetLeft, MarkDone,
          TallyUndone, Finalize, Goto, Sent, InFlight
    <3>4. SameChannels
      <4>1. CASE ReceiveOnNilChannel(r) \/ DecrementLeft(r) \/ ResetLeft(r)
        BY <4>1, LockedChannels
      <4>2. CASE ~(ReceiveOnNilChannel(r) \/ DecrementLeft(r) \/ ResetLeft(r))
        <5>1. UNCHANGED requesters
          BY <1>5, <2>2, <3>1, <4>2
          DEF PieceStep, LookUp, SaveBlock, SaveBlockFails, ReportError, CountLeft,
              MarkDone, TallyUndone, Finalize
        <5> QED
          BY <5>1, RequestersUnchanged
      <4> QED
        BY <4>1, <4>2
    <3> QED
      BY <3>2, <3>3, <3>4, ChannelsKept
  <2> QED
    BY <2>1, <2>2
<1>6. ASSUME NEW r \in Requests, SenderStep(r) PROVE Ok
  <2>1. CASE SendFirst(r)
    BY <2>1, SendFirstChannels DEF SendFirst, clientVars
  <2>2. ~Retry(r)
    <3> SUFFICES ASSUME Retry(r) PROVE FALSE
      OBVIOUS
    <3>1. PICK again \in Requests :
             again = [r EXCEPT !.try = @ + 1] /\ pc' = [pc EXCEPT ![again] = "sent"]
      BY DEF Retry
    <3>2. again.try > 1
      <4>1. r.try \in Nat /\ r.try >= 1
        BY CountAssumption DEF Requests
      <4>2. again.try = r.try + 1
        BY <3>1 DEF Requests
      <4> QED
        BY <4>1, <4>2
    <3> QED
      BY <1>0, <3>1, <3>2 DEF Unrepeated
  <2>3. CASE TimerExpires(r) \/ Misfire(r) \/ JudgePeer(r)
    <3>1. UNCHANGED <<pc, requesters, owner, closed, crash>>
      BY <2>3 DEF TimerExpires, Misfire, JudgePeer, clientVars
    <3> QED
      BY <3>1, RequestersUnchanged, ChannelsKept DEF Sent, InFlight
  <2> QED
    BY <1>6, <2>1, <2>2, <2>3 DEF SenderStep
<1>7. ASSUME NEW c \in Conns, ReadTimeout(c) \/ Disconnect(c) PROVE Ok
  <2>1. UNCHANGED <<pc, requesters, owner, closed, crash>>
    BY <1>7 DEF ReadTimeout, Disconnect, timerVars
  <2> QED
    BY <2>1, RequestersUnchanged, ChannelsKept DEF Sent, InFlight
<1> QED
  BY <1>1, <1>2, <1>3, <1>4, <1>5, <1>6, <1>7 DEF Next

(* As long as nothing is crowded or repeated, the channels are sound. *)
CrowdInv ==
    crowded = {} /\ Unrepeated =>
        NoCrowd /\ ChannelInv /\ crash # "closedChannel"

(* A request that was made stays made. *)
LEMMA NeverIdleAgain ==
    ASSUME RequesterInv, [Next]_vars, NEW q \in Requests, pc'[q] = "idle"
    PROVE  pc[q] = "idle"
<1>0. pc \in [Handlers -> PCs] /\ q \in Handlers /\ q \notin Announcements
  BY RequestFields, NilAssumption DEF RequesterInv, TypeCore
<1>1. CASE \E h \in Handlers : RequestBlock(h)
  BY <1>0, <1>1 DEF RequestBlock
<1>2. CASE \E h \in Handlers : Deliver(h) \/ (RequestNextPiece(h) /\ ~RequestBlock(h))
  BY <1>0, <1>2
  DEF Deliver, RequestNextPiece, NextPiece, StopRequesting, BeginPiece, Dequeue,
      DequeueFromEmpty, AdvanceQueue, ReservePiece, ReservationRefused, Panic, Goto
<1>3. CASE \E a \in Announcements : AnnouncementStep(a)
  BY <1>0, <1>3
  DEF AnnouncementStep, CheckQueue, ReadQueue, WriteQueue, StartRequester,
      StartOnEmptyQueue, Panic, Goto
<1>4. CASE \E r \in Requests : PieceStep(r)
  <2> PICK r \in Requests : PieceStep(r)
    BY <1>4
  <2>1. CASE LookUp(r) \/ ReceiveBlock(r) \/ ReceiveOnNilChannel(r)
    BY <1>0, <2>1 DEF LookUp, ReceiveBlock, ReceiveOnNilChannel, Goto
  <2>2. CASE DecrementLeft(r) \/ SaveBlock(r) \/ SaveBlockFails(r) \/ ReportError(r)
    BY <1>0, <2>2 DEF DecrementLeft, SaveBlock, SaveBlockFails, ReportError, Goto
  <2>3. CASE CountLeft(r) \/ ResetLeft(r) \/ MarkDone(r)
    BY <1>0, <2>3 DEF CountLeft, ResetLeft, MarkDone, Goto
  <2>4. CASE TallyUndone(r) \/ Finalize(r) \/ ReceiveOnClosedChannel(r)
    BY <1>0, <2>4 DEF TallyUndone, Finalize, ReceiveOnClosedChannel, Panic, Goto
  <2> QED
    BY <2>1, <2>2, <2>3, <2>4 DEF PieceStep
<1>5. CASE \E r \in Requests : SenderStep(r)
  BY <1>0, <1>5 DEF SenderStep, SendFirst, TimerExpires, Misfire, JudgePeer, Retry, Goto
<1>6. CASE UNCHANGED vars \/ \E c \in Conns : ReadTimeout(c) \/ Disconnect(c)
  BY <1>6 DEF vars, ReadTimeout, Disconnect
<1> QED
  BY <1>1, <1>2, <1>3, <1>4, <1>5, <1>6 DEF Next

LEMMA CrowdStep == RequesterInv /\ CrowdInv /\ [RaceNext]_raceVars => CrowdInv'
<1> SUFFICES ASSUME RequesterInv, CrowdInv, [RaceNext]_raceVars, crowded' = {}, Unrepeated'
             PROVE  NoCrowd' /\ ChannelInv' /\ crash' # "closedChannel"
  BY DEF CrowdInv
<1>1. [Next]_vars /\ crowded = {}
  BY DEF RaceNext, raceVars
<1>2. Unrepeated
  <2>1. \A r \in Requests : pc'[r] = "idle" => pc[r] = "idle"
    BY <1>1, NeverIdleAgain
  <2> QED
    BY <2>1 DEF Unrepeated
<1>3. NoCrowd /\ ChannelInv /\ crash # "closedChannel"
  BY <1>1, <1>2 DEF CrowdInv
<1>4. NoCrowd'
  <2>1. CASE RaceNext
    <3>1. Crowding' = {}
      BY <2>1 DEF RaceNext
    <3> QED
      BY <3>1, RequestFields DEF Crowding, NoCrowd, InFlight
  <2>2. CASE UNCHANGED raceVars
    BY <1>3, <2>2 DEF raceVars, vars, NoCrowd, InFlight
  <2> QED
    BY <2>1, <2>2
<1> QED
  BY <1>1, <1>3, <1>4, ChannelStep

LEMMA CrowdInvariant == RaceSpec => []CrowdInv
<1>1. RaceInit => CrowdInv
  <2> SUFFICES ASSUME RaceInit PROVE NoCrowd /\ ChannelInv /\ crash # "closedChannel"
    BY DEF CrowdInv
  <2>1. /\ crash = "none" /\ closed = {} /\ \A r \in Requests : pc[r] = "idle"
        /\ \A c \in Conns : Len(requesters[c]) = 0
    BY RequestFields DEF RaceInit, Init
  <2>2. NoCrowd /\ OpenChannels /\ Youngest
    BY <2>1 DEF NoCrowd, InFlight, OpenChannels, Youngest
  <2>3. ChannelOwners
    BY <2>1 DEF ChannelOwners
  <2>4. ClosedWereSent
    BY <2>1 DEF ClosedWereSent
  <2> QED
    BY <2>1, <2>2, <2>3, <2>4 DEF ChannelInv
<1>2. RequesterInv /\ CrowdInv /\ [RaceNext]_raceVars => CrowdInv'
  BY CrowdStep
<1> QED
  BY <1>1, <1>2, RacesRefineDownload, RequesterInvariant, PTL DEF RaceSpec

(* The process dies of an index into an empty queue only after two          *)
(* handlers of a connection were at its queue at once, and of a channel     *)
(* closed twice only after two REQUESTs for one block number were in flight *)
(* on a connection or one was repeated, for every number of peers, pieces,  *)
(* blocks and announcements (RequestNextPiece, onBlockReceive).             *)
THEOREM PanicsOnlyUnderRacesHolds == RaceSpec => []PanicsOnlyUnderRaces
<1>1. OverlapInv /\ CrowdInv => PanicsOnlyUnderRaces
  BY DEF OverlapInv, CrowdInv, Unrepeated, PanicsOnlyUnderRaces
<1> QED
  BY <1>1, OverlapInvariant, CrowdInvariant, PTL

=============================================================================
