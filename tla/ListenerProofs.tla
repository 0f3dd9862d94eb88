--------------------------- MODULE ListenerProofs ---------------------------
(***************************************************************************)
(* What Peer.Close leaves open, when it gives up, and which errors of a    *)
(* connection's goroutines reach errChan, for any number of peers, calls   *)
(* of Close and places in errChan.                                         *)
(***************************************************************************)
EXTENDS Listener, TLAPS, SequenceTheorems

(* A connection that was accepted stays so: the list and the connection in *)
(* the accept loop's hands hold none that is yet to come.                  *)
Accepted(r) == sock[r] \in {"open", "left", "closed"}

Listed ==
    /\ \A r \in ToSet(list) : Accepted(r)
    /\ \A r \in current : Accepted(r) /\ r \notin ToSet(list)
    /\ listener = "none" => \A r \in Remotes : sock[r] = "none"

(* The slice Close ranges over was the list once.                          *)
Snapped == IsInjective(snapshot) /\ ToSet(snapshot) \subseteq ToSet(list)

(* What Close has passed is closed.                                        *)
Passed ==
    /\ closing = "walk" => at >= 1 /\ \A i \in 1 .. at - 1 : ~IsOpen(snapshot[i])
    /\ closing = "ok" => \A i \in 1 .. Len(snapshot) : ~IsOpen(snapshot[i])

(* While the listener is not closed, a connection that Close has closed is *)
(* one that the call under way has passed, or there was a call before that *)
(* met a connection closed by its handler.                                 *)
MetChoked == ToSet(snapshot) \cap choked # {}

PassedNow(r) == closing = "walk" /\ \E i \in 1 .. at - 1 : snapshot[i] = r

ClosedBy ==
    listener # "closed" =>
        \A r \in Remotes :
            sock[r] = "closed" => r \in choked \/ PassedNow(r) \/ MetChoked

GaveUp == closing = "failed" /\ listener # "closed" => MetChoked

CloseParts == Listed /\ Snapped /\ Passed /\ ClosedBy /\ GaveUp

CloseInv == TypeOK /\ CloseParts

(* A goroutine that has not been overtaken finds its own result in err; and *)
(* err holds some goroutine's result.                                      *)
OwnResult(r, f) ==
    step[r][f] \in {"check", "send"} /\ ~overlap[r] =>
        /\ err[r] = result[r][f]
        /\ step[r][f] = "send" => result[r][f] # "nil"

SomeResult(r) == \E g \in Funcs : err[r] = result[r][g]

(* A function has one result, nil or its own error. *)
Results == \A r \in Remotes, f \in Funcs : result[r][f] \in {"nil", f}

Shared ==
    \A r \in Remotes, f \in Funcs : OwnResult(r, f) /\ SomeResult(r)

-----------------------------------------------------------------------------
LEMMA AppendFacts ==
    ASSUME NEW S, NEW s \in Seq(S), NEW e \in S
    PROVE  /\ Append(s, e) \in Seq(S)
           /\ Len(Append(s, e)) = Len(s) + 1
           /\ ToSet(Append(s, e)) = ToSet(s) \cup {e}
           /\ Last(Append(s, e)) = e
           /\ IsInjective(s) /\ e \notin ToSet(s) => IsInjective(Append(s, e))
<1>1. /\ Append(s, e) \in Seq(S) /\ Len(Append(s, e)) = Len(s) + 1
      /\ Len(s) \in Nat
      /\ DOMAIN s = 1 .. Len(s) /\ DOMAIN Append(s, e) = 1 .. Len(s) + 1
      /\ \A i \in 1 .. Len(s) : Append(s, e)[i] = s[i]
      /\ Append(s, e)[Len(s) + 1] = e
  BY AppendProperties, LenProperties
<1>2. ToSet(Append(s, e)) = ToSet(s) \cup {e}
  BY <1>1 DEF ToSet
<1>3. IsInjective(s) /\ e \notin ToSet(s) => IsInjective(Append(s, e))
  BY <1>1 DEF ToSet, IsInjective
<1>4. Last(Append(s, e)) = e
  BY <1>1 DEF Last
<1> QED
  BY <1>1, <1>2, <1>3, <1>4

LEMMA TailFacts ==
    ASSUME NEW S, NEW s \in Seq(S), s # <<>>
    PROVE  Tail(s) \in Seq(S) /\ Len(Tail(s)) <= Len(s)
  BY HeadTailProperties, LenProperties

LEMMA EmptyFacts ==
    IsInjective(<<>>) /\ ToSet(<<>>) = {} /\ Len(<<>>) = 0
  BY DEF IsInjective, ToSet

-----------------------------------------------------------------------------
(* Steps of the functions, of errChan and of listening leave the sockets,  *)
(* the list and Close alone.                                               *)
closeSide == <<listener, current, list, sock, closeVars, choked>>

LEMMA CloseSideKept ==
    CloseParts /\ UNCHANGED closeSide => CloseParts'
  BY DEF CloseParts, closeSide, closeVars, Listed, Accepted, Snapped, Passed, IsOpen,
         ClosedBy, PassedNow, MetChoked, GaveUp

LEMMA SendType ==
    ASSUME errs \in Seq({"nil", "error"}), Len(errs) <= Cap,
           NEW what \in {"nil", "error"}, Send(what)
    PROVE  errs' \in Seq({"nil", "error"}) /\ Len(errs') <= Cap
  BY AppendFacts, LenProperties, ListenerAssumption DEF Send

LEMMA CloseInvInit == Init => CloseInv
<1> SUFFICES ASSUME Init
             PROVE  CloseInv
  OBVIOUS
<1> USE DEF Init, PerFunc
<1>1. TypeOK
  BY EmptyFacts, ListenerAssumption DEF TypeOK
<1>2. Listed
  BY EmptyFacts DEF Listed
<1>3. Snapped /\ Passed /\ ClosedBy /\ GaveUp
  BY EmptyFacts DEF Snapped, Passed, ClosedBy, GaveUp
<1> QED
  BY <1>1, <1>2, <1>3 DEF CloseInv, CloseParts

SockStates == {"none", "waiting", "open", "left", "closed"}

(* One socket moves on: a listed one stays accepted and is not opened      *)
(* again, and one that gets closed was closed by its handler.              *)
LEMMA SocketMoves ==
    ASSUME CloseInv, NEW r \in Remotes, NEW v \in SockStates,
           sock' = [sock EXCEPT ![r] = v],
           UNCHANGED <<listener, list, closeVars>>,
           listener # "none", choked \subseteq choked',
           Accepted(r) => v \in {"open", "left", "closed"},
           r \in ToSet(list) /\ v \in {"open", "left"} => IsOpen(r),
           v = "closed" => r \in choked'
    PROVE  /\ \A q \in ToSet(list) : Accepted(q)'
           /\ Snapped' /\ Passed' /\ ClosedBy' /\ GaveUp'
<1>1. /\ sock \in [Remotes -> SockStates]
      /\ snapshot \in Seq(Remotes) /\ list \in Seq(Remotes)
      /\ closing' = closing /\ snapshot' = snapshot /\ at' = at
      /\ at \in 0 .. Len(snapshot) + 1
  BY DEF CloseInv, TypeOK, SockStates, closeVars
<1>2. \A q \in Remotes : sock'[q] = IF q = r THEN v ELSE sock[q]
  BY <1>1
<1>3. /\ Len(snapshot) \in Nat /\ DOMAIN snapshot = 1 .. Len(snapshot)
      /\ DOMAIN list = 1 .. Len(list)
      /\ ToSet(list) \subseteq Remotes /\ ToSet(snapshot) \subseteq Remotes
  BY <1>1, LenProperties DEF ToSet
<1>4. Listed /\ Snapped /\ Passed /\ ClosedBy /\ GaveUp
  BY DEF CloseInv, CloseParts
<1>5. \A q \in ToSet(list) : Accepted(q)'
  BY <1>2, <1>3, <1>4 DEF Listed, Accepted
<1>6. Snapped'
  BY <1>4, <1>1 DEF Snapped
<1>7. MetChoked => MetChoked'
  BY <1>1 DEF MetChoked
<1>8. GaveUp'
  BY <1>1, <1>4, <1>7 DEF GaveUp
<1>9. ClosedBy'
  BY <1>1, <1>2, <1>4, <1>7 DEF ClosedBy, PassedNow
<1>10. Passed'
  <2>1. \A i \in 1 .. Len(snapshot) : snapshot[i] \in ToSet(list)
    BY <1>3, <1>4 DEF Snapped, ToSet
  <2>2. \A i \in 1 .. Len(snapshot) :
            sock'[snapshot[i]] \in {"open", "left"} => IsOpen(snapshot[i])
    BY <1>2, <1>3, <2>1 DEF IsOpen
  <2>3. CASE closing = "walk"
    <3>1. at >= 1 /\ \A i \in 1 .. at - 1 : ~IsOpen(snapshot[i])
      BY <1>4, <2>3 DEF Passed
    <3>2. \A i \in 1 .. at - 1 : i \in 1 .. Len(snapshot)
      BY <1>1, <1>3
    <3>3. \A i \in 1 .. at - 1 : ~(sock'[snapshot[i]] \in {"open", "left"})
      BY <2>2, <3>1, <3>2
    <3> QED
      BY <1>1, <2>3, <3>1, <3>3 DEF Passed, IsOpen
  <2>4. CASE closing # "walk"
    <3>1. closing = "ok" => \A i \in 1 .. Len(snapshot) : ~IsOpen(snapshot[i])
      BY <1>4 DEF Passed
    <3>2. closing = "ok" =>
              \A i \in 1 .. Len(snapshot) : ~(sock'[snapshot[i]] \in {"open", "left"})
      BY <2>2, <3>1
    <3> QED
      BY <1>1, <2>4, <3>2 DEF Passed, IsOpen
  <2> QED
    BY <2>3, <2>4
<1> QED
  BY <1>5, <1>6, <1>8, <1>9, <1>10

LEMMA CloseInvStep == CloseInv /\ [Next]_vars => CloseInv'
<1> SUFFICES ASSUME CloseInv, [Next]_vars
             PROVE  CloseInv'
  OBVIOUS
<1> USE ListenerAssumption
<1>p. TypeOK /\ CloseParts
  BY DEF CloseInv
<1>q. ASSUME TypeOK', CloseParts'
      PROVE  CloseInv'
  BY <1>q DEF CloseInv
<1>s. /\ ToSet(list) \subseteq Remotes /\ current \subseteq Remotes
      /\ sock \in [Remotes -> SockStates]
      /\ list \in Seq(Remotes) /\ snapshot \in Seq(Remotes)
      /\ Len(snapshot) \in Nat /\ DOMAIN snapshot = 1 .. Len(snapshot)
      /\ Len(list) \in Nat /\ DOMAIN list = 1 .. Len(list)
  <2>1. list \in Seq(Remotes) /\ snapshot \in Seq(Remotes)
    BY <1>p DEF TypeOK
  <2> QED
    BY <1>p, <2>1, LenProperties DEF TypeOK, SockStates, ToSet
<1>1. CASE ListenForPeers
  <2>1. TypeOK'
    BY <1>p, <1>1 DEF TypeOK, ListenForPeers, funcVars, closeVars
  <2>2. CloseParts'
    BY <1>p, <1>1 DEF ListenForPeers, closeVars, CloseParts, Listed, Accepted, Snapped,
       Passed, IsOpen, ClosedBy, PassedNow, MetChoked, GaveUp
  <2> QED
    BY <2>1, <2>2, <1>q
<1>2. ASSUME NEW r \in Remotes, Accept(r)
      PROVE  CloseInv'
  <2>1. TypeOK'
    BY <1>p, <1>2 DEF TypeOK, Accept, funcVars, closeVars
  <2>2. r \notin ToSet(list)
    BY <1>p, <1>2 DEF CloseParts, Listed, Accepted, Accept
  <2>3. /\ \A q \in ToSet(list) : Accepted(q)'
        /\ Snapped' /\ Passed' /\ ClosedBy' /\ GaveUp'
    BY <1>2, <2>2, SocketMoves DEF Accept, SockStates, Accepted
  <2>4. Listed'
    BY <1>2, <1>s, <2>2, <2>3 DEF Listed, Accepted, Accept
  <2> QED
    BY <2>1, <2>3, <2>4, <1>q DEF CloseParts
<1>3. ASSUME NEW r \in Remotes, Connect(r)
      PROVE  CloseInv'
  <2>1. TypeOK'
    BY <1>p, <1>3 DEF TypeOK, Connect, loopVars, funcVars, closeVars
  <2>2. r \notin ToSet(list) \cup current
    BY <1>p, <1>3 DEF CloseParts, Listed, Accepted, Connect
  <2>3. /\ \A q \in ToSet(list) : Accepted(q)'
        /\ Snapped' /\ Passed' /\ ClosedBy' /\ GaveUp'
    BY <1>3, <2>2, SocketMoves DEF Connect, loopVars, SockStates, Accepted
  <2>4. Listed'
    BY <1>p, <1>3, <1>s, <2>2, <2>3 DEF Listed, Accepted, Connect, CloseParts, loopVars
  <2> QED
    BY <2>1, <2>3, <2>4, <1>q DEF CloseParts
<1>4. ASSUME NEW r \in Remotes, Leave(r)
      PROVE  CloseInv'
  <2>1. TypeOK'
    BY <1>p, <1>4 DEF TypeOK, Leave, loopVars, funcVars, closeVars
  <2>2. listener # "none"
    BY <1>p, <1>4 DEF CloseParts, Listed, Leave
  <2>3. /\ \A q \in ToSet(list) : Accepted(q)'
        /\ Snapped' /\ Passed' /\ ClosedBy' /\ GaveUp'
    BY <1>4, <2>2, SocketMoves DEF Leave, loopVars, SockStates, IsOpen
  <2>4. Listed'
    BY <1>p, <1>4, <1>s, <2>2, <2>3 DEF Listed, Accepted, Leave, CloseParts, loopVars
  <2> QED
    BY <2>1, <2>3, <2>4, <1>q DEF CloseParts
<1>5. ASSUME NEW r \in Remotes, CloseOnChoke(r)
      PROVE  CloseInv'
  <2>1. TypeOK'
    BY <1>p, <1>5 DEF TypeOK, CloseOnChoke, loopVars, funcVars, closeVars
  <2>2. listener # "none"
    BY <1>p, <1>5 DEF CloseParts, Listed, CloseOnChoke, IsOpen
  <2>3. /\ \A q \in ToSet(list) : Accepted(q)'
        /\ Snapped' /\ Passed' /\ ClosedBy' /\ GaveUp'
    BY <1>5, <2>2, SocketMoves DEF CloseOnChoke, loopVars, SockStates
  <2>4. Listed'
    BY <1>p, <1>5, <1>s, <2>2, <2>3 DEF Listed, Accepted, CloseOnChoke, CloseParts, loopVars
  <2> QED
    BY <2>1, <2>3, <2>4, <1>q DEF CloseParts
<1>6. CASE Add
  <2>1. PICK r \in current :
            /\ list' = Append(list, r)
            /\ step' = [step EXCEPT ![r] =
                           [f \in Funcs |-> IF r \in Slow THEN "run" ELSE "end"]]
            /\ talk' = [talk EXCEPT ![r] = "listen"]
    BY <1>6 DEF Add
  <2>2. r \in Remotes /\ Accepted(r) /\ r \notin ToSet(list)
    BY <1>p, <1>s DEF CloseParts, Listed
  <2>3. /\ list' \in Seq(Remotes) /\ ToSet(list') = ToSet(list) \cup {r}
        /\ IsInjective(list')
    BY <1>p, <1>s, <2>1, <2>2, AppendFacts DEF TypeOK
  <2>4. TypeOK'
    BY <1>p, <1>6, <2>1, <2>2, <2>3 DEF TypeOK, Add, closeVars
  <2>5. Listed'
    BY <1>p, <1>6, <2>2, <2>3 DEF Listed, Accepted, CloseParts, Add
  <2>6. Snapped'
    BY <1>p, <1>6, <2>3 DEF Snapped, CloseParts, Add, closeVars
  <2>7. Passed' /\ ClosedBy' /\ GaveUp'
    BY <1>p, <1>6 DEF CloseParts, Passed, IsOpen, ClosedBy, PassedNow, MetChoked, GaveUp,
       Add, closeVars
  <2> QED
    BY <2>4, <2>5, <2>6, <2>7, <1>q DEF CloseParts
<1>7. CASE StartClose
  <2>1. TypeOK'
    BY <1>p, <1>s, <1>7 DEF TypeOK, StartClose, loopVars, funcVars
  <2>2. Listed' /\ Snapped'
    BY <1>p, <1>7 DEF Listed, Accepted, Snapped, CloseParts, StartClose, loopVars, TypeOK
  <2>3. Passed' /\ GaveUp'
    BY <1>7 DEF Passed, GaveUp, StartClose
  <2>4. ClosedBy'
    BY <1>p, <1>7 DEF ClosedBy, PassedNow, MetChoked, CloseParts, Snapped, StartClose, loopVars
  <2> QED
    BY <2>1, <2>2, <2>3, <2>4, <1>q DEF CloseParts
<1>8. CASE CloseListener
  <2>1. TypeOK'
    BY <1>p, <1>8 DEF TypeOK, CloseListener, funcVars
  <2>2. Listed' /\ Snapped'
    BY <1>p, <1>8 DEF Listed, Accepted, Snapped, CloseParts, CloseListener
  <2>3. ClosedBy' /\ GaveUp'
    BY <1>p, <1>8 DEF ClosedBy, PassedNow, MetChoked, GaveUp, CloseParts, Listed, CloseListener, TypeOK
  <2>4. Passed'
    <3>1. at >= 1 /\ \A i \in 1 .. at - 1 : ~IsOpen(snapshot[i])
      BY <1>p, <1>8 DEF CloseParts, Passed, CloseListener
    <3>2. at \in Nat /\ at > Len(snapshot)
      BY <1>p, <1>s, <1>8 DEF TypeOK, CloseListener, AtEnd
    <3>3. \A i \in 1 .. Len(snapshot) : ~IsOpen(snapshot[i])
      BY <1>s, <3>1, <3>2
    <3> QED
      BY <1>8, <3>3 DEF Passed, IsOpen, CloseListener
  <2> QED
    BY <2>1, <2>2, <2>3, <2>4, <1>q DEF CloseParts
<1>9. CASE CloseConn
  <2> DEFINE r == snapshot[at]
  <2>1. /\ closing = "walk" /\ at \in 1 .. Len(snapshot) /\ r \in Remotes
        /\ Accepted(r) /\ r \in ToSet(snapshot) /\ listener # "none"
    <3>1. closing = "walk" /\ at \in 1 .. Len(snapshot)
      BY <1>p, <1>s, <1>9 DEF CloseConn, AtEnd, CloseParts, Passed, TypeOK
    <3>2. r \in ToSet(snapshot) /\ r \in Remotes
      BY <1>s, <3>1 DEF ToSet
    <3>3. Accepted(r)
      BY <1>p, <3>2 DEF CloseParts, Snapped, Listed
    <3> QED
      BY <1>p, <3>1, <3>2, <3>3 DEF CloseParts, Listed, Accepted
  <2>2. CASE CanClose(r)
    <3>1. /\ sock' = [sock EXCEPT ![r] = "closed"] /\ at' = at + 1
          /\ UNCHANGED <<closing, snapshot, closes, choked, loopVars, talk, funcVars, errs>>
      BY <1>9, <2>2 DEF CloseConn
    <3>2. \A q \in Remotes : sock'[q] = IF q = r THEN "closed" ELSE sock[q]
      BY <1>s, <2>1, <3>1
    <3>3. TypeOK'
      BY <1>p, <1>s, <2>1, <3>1 DEF TypeOK, loopVars, funcVars
    <3>4. Listed' /\ Snapped'
      BY <1>p, <1>s, <2>1, <3>1, <3>2 DEF Listed, Accepted, Snapped, CloseParts, loopVars
    <3>5. GaveUp'
      BY <2>1, <3>1 DEF GaveUp
    <3>6. Passed'
      <4>1. \A i \in 1 .. at - 1 : ~(sock[snapshot[i]] \in {"open", "left"})
        BY <1>p, <2>1 DEF CloseParts, Passed, IsOpen
      <4>2. \A i \in 1 .. Len(snapshot) : snapshot[i] \in Remotes
        BY <1>s, ElementOfSeq
      <4>3. \A i \in 1 .. at : ~(sock'[snapshot[i]] \in {"open", "left"})
        BY <1>s, <2>1, <3>2, <4>1, <4>2
      <4> QED
        BY <1>s, <2>1, <3>1, <4>3 DEF Passed, IsOpen
    <3>7. ClosedBy'
      <4>1. listener' = listener /\ (MetChoked => MetChoked')
        BY <3>1 DEF loopVars, MetChoked
      <4>2. \E i \in 1 .. at' - 1 : snapshot'[i] = r
        BY <1>s, <2>1, <3>1
      <4>3. \A q \in Remotes : PassedNow(q) =>
                closing' = "walk" /\ \E i \in 1 .. at' - 1 : snapshot'[i] = q
        BY <1>s, <2>1, <3>1 DEF PassedNow
      <4> QED
        BY <1>p, <2>1, <3>1, <3>2, <4>1, <4>2, <4>3 DEF ClosedBy, PassedNow, CloseParts
    <3> QED
      BY <3>3, <3>4, <3>5, <3>6, <3>7, <1>q DEF CloseParts
  <2>3. CASE ~CanClose(r)
    <3>1. /\ closing' = "failed"
          /\ UNCHANGED <<sock, at, snapshot, closes, choked, loopVars, talk, funcVars, errs>>
      BY <1>9, <2>3 DEF CloseConn
    <3>2. TypeOK'
      BY <1>p, <3>1 DEF TypeOK, loopVars, funcVars
    <3>3. Listed' /\ Snapped' /\ Passed'
      BY <1>p, <3>1 DEF Listed, Accepted, Snapped, Passed, CloseParts, loopVars
    <3>4. listener # "closed" => MetChoked
      <4>1. sock[r] = "closed"
        BY <2>1, <2>3 DEF Accepted, CanClose, IsOpen
      <4>2. ~PassedNow(r)
        BY <1>p, <1>s, <2>1 DEF PassedNow, CloseParts, Snapped, IsInjective
      <4> QED
        BY <1>p, <2>1, <4>1, <4>2 DEF ClosedBy, CloseParts, MetChoked
    <3>5. ClosedBy' /\ GaveUp'
      BY <3>1, <3>4 DEF ClosedBy, GaveUp, MetChoked, loopVars
    <3> QED
      BY <3>2, <3>3, <3>5, <1>q DEF CloseParts
  <2> QED
    BY <2>2, <2>3
<1>10. CASE AcceptPanics \/ AcceptClosed \/ ReportClosed \/ TakeErr
  <2>1. CASE AcceptPanics \/ AcceptClosed
    <3>1. TypeOK'
      BY <1>p, <2>1 DEF TypeOK, AcceptPanics, AcceptClosed, AfterClosed, funcVars, closeVars
    <3> QED
      BY <1>p, <1>q, <2>1, <3>1, CloseSideKept DEF AcceptPanics, AcceptClosed, closeSide
  <2>2. CASE ReportClosed
    <3>1. errs' \in Seq({"nil", "error"}) /\ Len(errs') <= Cap
      BY <1>p, <2>2, SendType DEF TypeOK, ReportClosed
    <3>2. TypeOK'
      BY <1>p, <2>2, <3>1 DEF TypeOK, ReportClosed, funcVars, closeVars
    <3> QED
      BY <1>p, <1>q, <2>2, <3>2, CloseSideKept DEF ReportClosed, closeSide
  <2>3. CASE TakeErr
    <3>1. errs' \in Seq({"nil", "error"}) /\ Len(errs') <= Cap
      BY <1>p, <2>3, TailFacts, LenProperties DEF TypeOK, TakeErr
    <3>2. TypeOK'
      BY <1>p, <2>3, <3>1 DEF TypeOK, TakeErr, loopVars, funcVars, closeVars
    <3> QED
      BY <1>p, <1>q, <2>3, <3>2, CloseSideKept DEF TakeErr, closeSide, loopVars
  <2> QED
    BY <1>10, <2>1, <2>2, <2>3
<1>11. ASSUME NEW r \in Remotes, StopListening(r) \/ ListenFails(r) \/ ReportBad(r)
       PROVE  CloseInv'
  <2>1. errs' \in Seq({"nil", "error"}) /\ Len(errs') <= Cap
    BY <1>p, <1>11, SendType DEF TypeOK, StopListening, ListenFails, ReportBad
  <2>2. TypeOK'
    <3>1. CASE StopListening(r)
      BY <1>p, <2>1, <3>1 DEF TypeOK, StopListening, loopVars, funcVars, closeVars
    <3>2. CASE ListenFails(r)
      BY <1>p, <2>1, <3>2 DEF TypeOK, ListenFails, loopVars, funcVars, closeVars
    <3>3. CASE ReportBad(r)
      BY <1>p, <2>1, <3>3 DEF TypeOK, ReportBad, loopVars, funcVars, closeVars
    <3> QED
      BY <1>11, <3>1, <3>2, <3>3
  <2>3. UNCHANGED closeSide
    BY <1>11 DEF StopListening, ListenFails, ReportBad, closeSide, loopVars
  <2> QED
    BY <1>p, <1>q, <2>2, <2>3, CloseSideKept
<1>12. ASSUME NEW r \in Remotes, NEW f \in Funcs,
              FuncReturns(r, f) \/ CheckErr(r, f) \/ SendErr(r, f)
       PROVE  CloseInv'
  <2>1. UNCHANGED closeSide
    BY <1>12 DEF FuncReturns, CheckErr, SendErr, closeSide, loopVars
  <2>2. CASE FuncReturns(r, f)
    <3>1. TypeOK'
      BY <1>p, <2>2 DEF TypeOK, FuncReturns, loopVars, closeVars
    <3> QED
      BY <1>p, <1>q, <2>1, <3>1, CloseSideKept
  <2>3. CASE CheckErr(r, f)
    <3>1. TypeOK'
      BY <1>p, <2>3 DEF TypeOK, CheckErr, loopVars, closeVars
    <3> QED
      BY <1>p, <1>q, <2>1, <3>1, CloseSideKept
  <2>4. CASE SendErr(r, f)
    <3>1. errs' \in Seq({"nil", "error"}) /\ Len(errs') <= Cap
      BY <1>p, <2>4, SendType DEF TypeOK, SendErr
    <3>2. TypeOK'
      BY <1>p, <2>4, <3>1 DEF TypeOK, SendErr, loopVars, closeVars
    <3> QED
      BY <1>p, <1>q, <2>1, <3>2, CloseSideKept
  <2> QED
    BY <1>12, <2>2, <2>3, <2>4
<1>13. CASE UNCHANGED vars
  <2>1. TypeOK'
    BY <1>p, <1>13 DEF TypeOK, vars, loopVars, funcVars, closeVars
  <2> QED
    BY <1>p, <1>q, <1>13, <2>1, CloseSideKept DEF vars, closeSide, loopVars
<1> QED
  BY <1>1, <1>2, <1>3, <1>4, <1>5, <1>6, <1>7, <1>8, <1>9, <1>10, <1>11, <1>12, <1>13
     DEF Next, AcceptLoop

(* Type correctness of the accept side and of Close. *)
THEOREM ListenerTypeOK == Spec => []TypeOK
<1>1. CloseInv => TypeOK
  BY DEF CloseInv
<1> QED
  BY <1>1, CloseInvInit, CloseInvStep, PTL DEF Spec

(* A Close that succeeds leaves open only connections that the accept loop *)
(* had not listed when it began.                                           *)
THEOREM LeftOpenHolds == Spec => []LeftOpen
<1>1. CloseInv => LeftOpen
  <2> SUFFICES ASSUME CloseInv, closing = "ok", NEW r \in ToSet(snapshot)
               PROVE  ~IsOpen(r)
    BY DEF LeftOpen, Held
  <2>1. snapshot \in Seq(Remotes)
    BY DEF CloseInv, TypeOK
  <2>2. DOMAIN snapshot = 1 .. Len(snapshot)
    BY <2>1, LenProperties
  <2> QED
    BY <2>2 DEF CloseInv, CloseParts, Passed, ToSet
<1> QED
  BY <1>1, CloseInvInit, CloseInvStep, PTL DEF Spec

(* Close gives up before the listener only for a connection that a handler *)
(* has closed, not for one its peer has left or an earlier Close closed.   *)
THEOREM GivesUpOnlyForTheChokedHolds == Spec => []GivesUpOnlyForTheChoked
<1>1. CloseInv => GivesUpOnlyForTheChoked
  BY DEF CloseInv, CloseParts, GaveUp, MetChoked, GivesUpOnlyForTheChoked
<1> QED
  BY <1>1, CloseInvInit, CloseInvStep, PTL DEF Spec

-----------------------------------------------------------------------------
(* The err that the goroutines of a connection share *)

LEMMA SharedInit == Init => Results /\ Shared
  BY DEF Init, PerFunc, Results, Shared, OwnResult, SomeResult

LEMMA SharedStep == CloseInv /\ Results /\ Shared /\ [Next]_vars => Results' /\ Shared'
<1> SUFFICES ASSUME CloseInv, Results, Shared, [Next]_vars
             PROVE  Results' /\ Shared'
  OBVIOUS
<1>t. /\ step \in [Remotes -> [Funcs -> {"idle", "run", "check", "send", "end"}]]
      /\ err \in [Remotes -> {"nil"} \cup Funcs]
      /\ result \in [Remotes -> [Funcs -> {"nil"} \cup Funcs]]
      /\ overlap \in [Remotes -> BOOLEAN]
  BY DEF CloseInv, TypeOK
<1>1. ASSUME UNCHANGED funcVars
      PROVE  Results' /\ Shared'
  BY <1>1 DEF funcVars, Results, Shared, OwnResult, SomeResult
<1>2. CASE Add
  <2>1. PICK r \in Remotes :
            step' = [step EXCEPT ![r] =
                        [f \in Funcs |-> IF r \in Slow THEN "run" ELSE "end"]]
    BY <1>2 DEF Add, CloseInv, TypeOK
  <2>2. UNCHANGED <<err, result, overlap>>
    BY <1>2 DEF Add
  <2>3. \A q \in Remotes, f \in Funcs :
            step'[q][f] \in {"check", "send"} => step'[q][f] = step[q][f]
    BY <1>t, <2>1
  <2> QED
    BY <2>2, <2>3 DEF Results, Shared, OwnResult, SomeResult
<1>3. ASSUME NEW r \in Remotes, NEW f \in Funcs, FuncReturns(r, f)
      PROVE  Results' /\ Shared'
  <2>1. PICK e \in {"nil", f} :
            /\ err' = [err EXCEPT ![r] = e]
            /\ result' = [result EXCEPT ![r][f] = e]
    BY <1>3 DEF FuncReturns
  <2>2. /\ \A q \in Remotes : err'[q] = IF q = r THEN e ELSE err[q]
        /\ \A q \in Remotes, g \in Funcs :
              result'[q][g] = IF q = r /\ g = f THEN e ELSE result[q][g]
        /\ \A q \in Remotes, g \in Funcs :
              step'[q][g] = IF q = r /\ g = f THEN "check" ELSE step[q][g]
    BY <1>t, <1>3, <2>1 DEF FuncReturns
  <2>3. \A q \in Remotes :
            overlap'[q] = IF q = r
                          THEN overlap[r] \/ \E g \in Others(f) : step[r][g] \in {"check", "send"}
                          ELSE overlap[q]
    BY <1>t, <1>3 DEF FuncReturns
  <2>4. Results'
    BY <2>2 DEF Results
  <2>5. ASSUME NEW q \in Remotes, NEW g \in Funcs
        PROVE  OwnResult(q, g)' /\ SomeResult(q)'
    <3>1. OwnResult(q, g) /\ SomeResult(q)
      BY DEF Shared
    <3>2. CASE q # r
      BY <2>2, <2>3, <3>1, <3>2 DEF OwnResult, SomeResult
    <3>3. CASE q = r /\ g = f
      BY <2>2, <3>3 DEF OwnResult, SomeResult
    <3>4. CASE q = r /\ g # f
      BY <2>2, <2>3, <3>4 DEF OwnResult, SomeResult, Others
    <3> QED
      BY <3>2, <3>3, <3>4
  <2> QED
    BY <2>4, <2>5 DEF Shared
<1>4. ASSUME NEW r \in Remotes, NEW f \in Funcs, CheckErr(r, f) \/ SendErr(r, f)
      PROVE  Results' /\ Shared'
  <2>1. UNCHANGED <<err, result, overlap>>
    BY <1>4 DEF CheckErr, SendErr
  <2>2. \A q \in Remotes, g \in Funcs :
            step'[q][g] \in {"check", "send"} =>
                /\ step[q][g] \in {"check", "send"}
                /\ step'[q][g] = "send" => step[q][g] = "send" \/ err[q] # "nil"
    BY <1>t, <1>4 DEF CheckErr, SendErr, Failed
  <2> QED
    BY <2>1, <2>2 DEF Results, Shared, OwnResult, SomeResult
<1>5. Next => \/ UNCHANGED funcVars \/ Add
              \/ \E r \in Remotes, f \in Funcs :
                     FuncReturns(r, f) \/ CheckErr(r, f) \/ SendErr(r, f)
  BY DEF Next, AcceptLoop, ListenForPeers, AcceptPanics, AcceptClosed, ReportClosed, Accept,
         StartClose, CloseConn, CloseListener, TakeErr, StopListening, ListenFails, ReportBad,
         CloseOnChoke, Connect, Leave
<1> QED
  BY <1>1, <1>2, <1>3, <1>4, <1>5 DEF vars

ErrorTold ==
    \A r \in Remotes, f \in Funcs :
        step[r][f] # "end" /\ step'[r][f] = "end" /\ r \in Slow =>
            LET told == step[r][f] = "send"
            IN  /\ ~overlap[r] =>
                       IF result[r][f] = "nil" THEN ~told ELSE told /\ err[r] = f
                /\ (\A g \in Funcs : result[r][g] = g) =>
                       told /\ Last(errs') = "error"

LEMMA ErrorToldStep == CloseInv /\ Results /\ Shared /\ [Next]_vars => [ErrorTold]_vars
<1> SUFFICES ASSUME CloseInv, Results, Shared, Next,
                    NEW r \in Remotes, NEW f \in Funcs,
                    step[r][f] # "end", step'[r][f] = "end", r \in Slow
             PROVE  LET told == step[r][f] = "send"
                    IN  /\ ~overlap[r] =>
                               IF result[r][f] = "nil" THEN ~told ELSE told /\ err[r] = f
                        /\ (\A g \in Funcs : result[r][g] = g) =>
                               told /\ Last(errs') = "error"
  BY DEF ErrorTold
<1>t. /\ step \in [Remotes -> [Funcs -> {"idle", "run", "check", "send", "end"}]]
      /\ errs \in Seq({"nil", "error"})
  BY DEF CloseInv, TypeOK
<1>1. CheckErr(r, f) \/ SendErr(r, f)
  <2>1. step' # step
    OBVIOUS
  <2>2. \/ Add
        \/ \E q \in Remotes, g \in Funcs :
               FuncReturns(q, g) \/ CheckErr(q, g) \/ SendErr(q, g)
    BY <2>1 DEF Next, AcceptLoop, ListenForPeers, AcceptPanics, AcceptClosed, ReportClosed,
       Accept, StartClose, CloseConn, CloseListener, TakeErr, StopListening, ListenFails,
       ReportBad, CloseOnChoke, Connect, Leave, funcVars
  <2>3. ASSUME Add  PROVE FALSE
    <3>1. PICK q \in current :
              step' = [step EXCEPT ![q] = [g \in Funcs |-> IF q \in Slow THEN "run" ELSE "end"]]
      BY <2>3 DEF Add
    <3>2. CASE q = r
      BY <1>t, <3>1, <3>2
    <3>3. CASE q # r
      BY <1>t, <3>1, <3>3
    <3> QED
      BY <3>2, <3>3
  <2>4. PICK q \in Remotes, g \in Funcs :
            FuncReturns(q, g) \/ CheckErr(q, g) \/ SendErr(q, g)
    BY <2>2, <2>3
  <2>5. q = r /\ g = f
    BY <1>t, <2>4 DEF FuncReturns, CheckErr, SendErr
  <2>6. ~FuncReturns(r, f)
    BY <1>t DEF FuncReturns
  <2> QED
    BY <2>4, <2>5, <2>6
<1>2. /\ OwnResult(r, f) /\ SomeResult(r)
      /\ \A g \in Funcs : result[r][g] \in {"nil", g}
      /\ \A g \in Funcs : g # "nil"
  BY ListenerAssumption DEF Shared, Results
<1>3. CASE CheckErr(r, f)
  <2>1. step[r][f] = "check" /\ err[r] = "nil"
    BY <1>t, <1>3 DEF CheckErr, Failed
  <2> QED
    BY <1>2, <2>1 DEF OwnResult, SomeResult
<1>4. CASE SendErr(r, f)
  <2>1. step[r][f] = "send" /\ errs' = Append(errs, IF err[r] = "nil" THEN "nil" ELSE "error")
    BY <1>4 DEF SendErr, Send
  <2>2. err[r] # "nil" => Last(errs') = "error"
    BY <1>t, <2>1, AppendFacts
  <2> QED
    BY <1>2, <2>1, <2>2 DEF OwnResult, SomeResult
<1> QED
  BY <1>1, <1>3, <1>4

(* The errors of OnConnectFunc and SendHandshakeFunc are told, and nothing *)
(* else is, as long as the two do not overlap on err; two that both fail   *)
(* are both told, overlapping or not.                                      *)
THEOREM ErrorsToldHolds == Spec => ErrorsTold
<1>1. Init => CloseInv /\ Results /\ Shared
  BY CloseInvInit, SharedInit
<1>2. CloseInv /\ Results /\ Shared /\ [Next]_vars => (CloseInv /\ Results /\ Shared)'
  BY CloseInvStep, SharedStep
<1>3. ErrorsTold <=> [][ErrorTold]_vars
  BY DEF ErrorsTold, ErrorTold
<1> QED
  BY <1>1, <1>2, <1>3, ErrorToldStep, PTL DEF Spec
=============================================================================
