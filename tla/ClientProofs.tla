---------------------------- MODULE ClientProofs ----------------------------
(***************************************************************************)
(* What the countdown of ConnectWithAllPeers is worth, and what the query  *)
(* of the trackers returns, for any number of peers, trackers and places   *)
(* in the channels, and any limit.                                         *)
(***************************************************************************)
EXTENDS Client, OrderProofs

-----------------------------------------------------------------------------
(* The reports in peersErrChan *)

Blames(s) == {i \in 1 .. Len(s) : s[i] = Client}

LEMMA BlamesFinite ==
  ASSUME NEW S, NEW s \in Seq(S)
  PROVE  /\ IsFiniteSet(Blames(s)) /\ Cardinality(Blames(s)) \in Nat
         /\ Cardinality(Blames(s)) <= Len(s)
<1>1. Len(s) \in Nat
  BY LenProperties
<1>2. IsFiniteSet(1 .. Len(s)) /\ Cardinality(1 .. Len(s)) = Len(s)
  BY <1>1, FS_Interval
<1>3. Blames(s) \in SUBSET (1 .. Len(s))
  BY DEF Blames
<1> QED
  BY <1>2, <1>3, FS_Subset, FS_CardinalityType

LEMMA BlamesAppend ==
  ASSUME NEW S, NEW s \in Seq(S), NEW e \in S
  PROVE  Cardinality(Blames(Append(s, e))) =
             Cardinality(Blames(s)) + (IF e = Client THEN 1 ELSE 0)
<1>1. /\ Len(s) \in Nat /\ Len(Append(s, e)) = Len(s) + 1
      /\ \A i \in 1 .. Len(s) : Append(s, e)[i] = s[i]
      /\ Append(s, e)[Len(s) + 1] = e
  BY AppendProperties, LenProperties
<1>2. Len(s) + 1 \notin Blames(s)
  BY <1>1 DEF Blames
<1>3. CASE e = Client
  <2>1. Blames(Append(s, e)) = Blames(s) \cup {Len(s) + 1}
    BY <1>1, <1>3 DEF Blames
  <2> QED
    BY <1>2, <1>3, <2>1, BlamesFinite, FS_AddElement
<1>4. CASE e # Client
  <2>1. Blames(Append(s, e)) = Blames(s)
    BY <1>1, <1>4 DEF Blames
  <2> QED
    BY <1>4, <2>1, BlamesFinite
<1> QED
  BY <1>3, <1>4

LEMMA BlamesTail ==
  ASSUME NEW S, NEW s \in Seq(S), s # <<>>
  PROVE  Cardinality(Blames(Tail(s))) =
             Cardinality(Blames(s)) - (IF Head(s) = Client THEN 1 ELSE 0)
<1>1. /\ Len(s) \in Nat \ {0} /\ Len(Tail(s)) = Len(s) - 1
      /\ \A i \in 1 .. Len(s) - 1 : Tail(s)[i] = s[i + 1]
      /\ Head(s) = s[1] /\ Tail(s) \in Seq(S)
  BY HeadTailProperties, LenProperties, EmptySeq
<1> DEFINE rest == Blames(s) \ {1}
           f == [i \in Blames(Tail(s)) |-> i + 1]
<1>2. \A i \in Blames(Tail(s)) : i + 1 \in rest
  BY <1>1 DEF Blames
<1>3. \A j \in rest : j - 1 \in Blames(Tail(s)) /\ (j - 1) + 1 = j
  BY <1>1 DEF Blames
<1>4. \A i, j \in Blames(Tail(s)) : i + 1 = j + 1 => i = j
  BY <1>1 DEF Blames
<1>5. f \in Bijection(Blames(Tail(s)), rest)
  <2>1. f \in [Blames(Tail(s)) -> rest]
    BY <1>2
  <2>2. \A i, j \in Blames(Tail(s)) : f[i] = f[j] => i = j
    BY <1>4
  <2>3. \A j \in rest : \E i \in Blames(Tail(s)) : f[i] = j
    BY <1>3
  <2> QED
    BY <2>1, <2>2, <2>3 DEF Bijection, Injection, Surjection, IsInjective
<1>f. /\ IsFiniteSet(Blames(s)) /\ Cardinality(Blames(s)) \in Nat
      /\ IsFiniteSet(Blames(Tail(s)))
  BY <1>1, BlamesFinite
<1>6. Cardinality(rest) = Cardinality(Blames(Tail(s)))
  <2>1. ExistsBijection(Blames(Tail(s)), rest)
    BY <1>5 DEF ExistsBijection
  <2> QED
    BY <1>f, <2>1, FS_Bijection
<1>7. 1 \in Blames(s) <=> Head(s) = Client
  BY <1>1 DEF Blames
<1>8. Cardinality(rest) = Cardinality(Blames(s)) - (IF Head(s) = Client THEN 1 ELSE 0)
  <2>1. Cardinality(Blames(s) \ {1}) =
            IF 1 \in Blames(s) THEN Cardinality(Blames(s)) - 1 ELSE Cardinality(Blames(s))
    BY <1>f, FS_RemoveElement
  <2> QED
    BY <1>7, <1>f, <2>1
<1> QED
  BY <1>6, <1>8
-----------------------------------------------------------------------------
(* ConnectWithAllPeers *)

(* A step of one of its goroutines, or of a peer. *)
Goroutine(t) == ConnectWithPeer(t) \/ Writer(t) \/ Leave(t) \/ CloseOnChoke(t)

LEMMA AppendType ==
  ASSUME NEW S, NEW s \in Seq(S), NEW e \in S
  PROVE  Append(s, e) \in Seq(S) /\ Len(Append(s, e)) = Len(s) + 1
BY AppendProperties

LEMMA TailType ==
  ASSUME NEW S, NEW s \in Seq(S), s # <<>>
  PROVE  Tail(s) \in Seq(S) /\ Len(Tail(s)) = Len(s) - 1 /\ Head(s) \in S /\ Len(s) >= 1
BY HeadTailProperties, LenProperties, EmptySeq

LEMMA MainType == TypeOK /\ MainLoop /\ UNCHANGED targets => TypeOK'
<1> SUFFICES ASSUME TypeOK, MainLoop, UNCHANGED targets  PROVE TypeOK'
  OBVIOUS
<1> USE DEF TypeOK
<1>1. CASE RefuseEmptyList \/ StartWaiting \/ Return
  BY <1>1 DEF RefuseEmptyList, StartWaiting, Return, chanVars, listVars
<1>2. CASE TakeError
  <2>1. /\ errs' = Tail(errs) /\ errs # <<>> /\ remaining # 0
        /\ remaining' = remaining - 1
        /\ blamed' \in {blamed, blamed + 1}
        /\ UNCHANGED <<main, conn, writer, dones, list, copy>>
    BY <1>2 DEF TakeError, CountDown, listVars
  <2>2. errs' \in Seq(Peers \cup {Client}) /\ Len(errs') <= Cap
    <3>1. /\ Tail(errs) \in Seq(Peers \cup {Client}) /\ Len(Tail(errs)) = Len(errs) - 1
          /\ Len(errs) \in Nat
      BY <2>1, TailType, LenProperties
    <3> QED
      BY <2>1, <3>1, ConnectionsAssumption
  <2>3. socket' \in [Peers -> {"none", "open", "left", "closed"}]
    BY <1>2 DEF TakeError
  <2> QED
    BY <2>1, <2>2, <2>3
<1>3. CASE TakeDone
  <2>1. /\ dones' = Tail(dones) /\ dones # <<>> /\ remaining # 0
        /\ remaining' = remaining - 1
        /\ UNCHANGED <<main, blamed, conn, writer, errs, list, copy, socket>>
    BY <1>3 DEF TakeDone, listVars
  <2>2. dones' \in Seq(Peers) /\ Len(dones') <= Cap
    <3>1. Tail(dones) \in Seq(Peers) /\ Len(Tail(dones)) = Len(dones) - 1 /\ Len(dones) \in Nat
      BY <2>1, TailType, LenProperties
    <3> QED
      BY <2>1, <3>1, ConnectionsAssumption
  <2> QED
    BY <2>1, <2>2
<1>4. ASSUME NEW t \in Peers, Launch(t)  PROVE TypeOK'
  BY <1>4 DEF Launch, chanVars, listVars, ConnStates
<1> QED
  BY <1>1, <1>2, <1>3, <1>4 DEF MainLoop

LEMMA GoroutineType ==
  ASSUME TypeOK, NEW t \in Peers, Goroutine(t), UNCHANGED targets
  PROVE  TypeOK'
<1> USE DEF TypeOK
<1>c. ASSUME NEW e \in Peers \cup {Client}, SendError(e)
      PROVE  errs' \in Seq(Peers \cup {Client}) /\ Len(errs') <= Cap
  <2>1. /\ Append(errs, e) \in Seq(Peers \cup {Client}) /\ Len(Append(errs, e)) = Len(errs) + 1
        /\ Len(errs) \in Nat
    BY AppendType, LenProperties
  <2> QED
    BY <1>c, <2>1, ConnectionsAssumption DEF SendError
<1>1. CASE DialFails(t) \/ StopListening(t) \/ ListenFails(t)
  BY <1>1 DEF DialFails, StopListening, ListenFails, Move, mainVars, chanVars, listVars, ConnStates
<1>2. CASE DialSucceeds(t)
  BY <1>2 DEF DialSucceeds, Move, mainVars, chanVars, ConnStates, WriterStates
<1>3. CASE Register(t)
  <2>1. Append(copy[t], t) \in Seq(Peers) /\ <<>> \in Seq(Peers)
    BY AppendType, EmptySeq
  <2> QED
    BY <1>3, <2>1 DEF Register, Move, mainVars, chanVars, ConnStates
<1>4. CASE ReportRefusal(t)
  <2>1. errs' \in Seq(Peers \cup {Client}) /\ Len(errs') <= Cap
    BY <1>4, <1>c DEF ReportRefusal, SendRefusal
  <2> QED
    BY <1>4, <2>1 DEF ReportRefusal, Move, mainVars, listVars, ConnStates
<1>5. CASE ReportBad(t)
  <2>1. errs' \in Seq(Peers \cup {Client}) /\ Len(errs') <= Cap
    BY <1>5, <1>c DEF ReportBad
  <2> QED
    BY <1>5, <2>1 DEF ReportBad, Move, mainVars, listVars, ConnStates
<1>6. CASE ReportDone(t)
  <2>1. /\ Append(dones, t) \in Seq(Peers) /\ Len(Append(dones, t)) = Len(dones) + 1
        /\ Len(dones) \in Nat
    BY AppendType, LenProperties
  <2>2. dones' \in Seq(Peers) /\ Len(dones') <= Cap
    BY <1>6, <2>1, ConnectionsAssumption DEF ReportDone
  <2> QED
    BY <1>6, <2>2 DEF ReportDone, Move, mainVars, listVars, ConnStates
<1>7. CASE WriteFails(t) \/ Leave(t) \/ CloseOnChoke(t)
  BY <1>7 DEF WriteFails, Leave, CloseOnChoke, mainVars, chanVars, listVars, WriterStates
<1>8. CASE ReportWriteError(t)
  <2>1. errs' \in Seq(Peers \cup {Client}) /\ Len(errs') <= Cap
    BY <1>8, <1>c DEF ReportWriteError
  <2> QED
    BY <1>8, <2>1 DEF ReportWriteError, mainVars, listVars, WriterStates
<1> QED
  BY <1>1, <1>2, <1>3, <1>4, <1>5, <1>6, <1>7, <1>8 DEF Goroutine, ConnectWithPeer, Writer

LEMMA TypeStep == TypeOK /\ Next => TypeOK'
BY MainType, GoroutineType DEF Next, Goroutine

LEMMA RunningFinite == IsFiniteSet(Running) /\ Cardinality(Running) \in Nat
BY ConnectionsAssumption, FS_Subset, FS_CardinalityType DEF Running

(* Of the connections, at most t moves. *)
Alone(t) == \A u \in Peers \ {t} : conn'[u] = conn[u]

LEMMA RunningMoves ==
  ASSUME NEW t \in Peers, Alone(t), conn[t] # "end"
  PROVE  /\ conn[t] # "idle" /\ conn'[t] = "end" =>
                Cardinality(Running') = Cardinality(Running) - 1
         /\ conn[t] = "idle" /\ conn'[t] \notin {"idle", "end"} =>
                Cardinality(Running') = Cardinality(Running) + 1
         /\ conn[t] # "idle" /\ conn'[t] \notin {"idle", "end"} =>
                Cardinality(Running') = Cardinality(Running)
<1>1. t \in Running <=> conn[t] # "idle"
  BY DEF Running, Alone
<1>2. ASSUME conn[t] # "idle", conn'[t] = "end"
      PROVE  Cardinality(Running') = Cardinality(Running) - 1
  <2>1. Running' = Running \ {t}
    BY <1>2 DEF Running, Alone
  <2> QED
    BY <1>1, <1>2, <2>1, RunningFinite, FS_RemoveElement
<1>3. ASSUME conn[t] = "idle", conn'[t] \notin {"idle", "end"}
      PROVE  Cardinality(Running') = Cardinality(Running) + 1
  <2>1. Running' = Running \cup {t}
    BY <1>3 DEF Running, Alone
  <2> QED
    BY <1>1, <1>3, <2>1, RunningFinite, FS_AddElement
<1>4. ASSUME conn[t] # "idle", conn'[t] \notin {"idle", "end"}
      PROVE  Running' = Running
  BY <1>4 DEF Running, Alone
<1> QED
  BY <1>2, <1>3, <1>4

Count(s) == Len(s) - Cardinality(Blames(s))

LEMMA CountFacts ==
  ASSUME TypeOK
  PROVE  /\ Len(errs) \in Nat /\ Len(dones) \in Nat /\ Count(errs) \in Nat
         /\ \A e \in Peers \cup {Client} :
                /\ Count(Append(errs, e)) = Count(errs) + (IF e = Client THEN 0 ELSE 1)
         /\ errs # <<>> =>
                /\ Head(errs) \in Peers \cup {Client}
                /\ Count(Tail(errs)) = Count(errs) - (IF Head(errs) = Client THEN 0 ELSE 1)
         /\ \A t \in Peers : Len(Append(dones, t)) = Len(dones) + 1
         /\ dones # <<>> => Len(Tail(dones)) = Len(dones) - 1
         /\ RemainingIsExact <=> remaining + blamed = Cardinality(Running) + Len(dones) + Count(errs)
<1> DEFINE S == Peers \cup {Client}
<1>1. /\ errs \in Seq(S) /\ dones \in Seq(Peers)
      /\ Len(errs) \in Nat /\ Len(dones) \in Nat
  BY LenProperties DEF TypeOK
<1>2. /\ Cardinality(Blames(errs)) \in Nat
      /\ Cardinality(Blames(errs)) <= Len(errs)
  BY <1>1, BlamesFinite
<1>3. ASSUME NEW e \in S
      PROVE  Count(Append(errs, e)) = Count(errs) + (IF e = Client THEN 0 ELSE 1)
  <2>1. /\ Len(Append(errs, e)) = Len(errs) + 1
        /\ Cardinality(Blames(Append(errs, e))) =
               Cardinality(Blames(errs)) + (IF e = Client THEN 1 ELSE 0)
    BY <1>1, AppendType, BlamesAppend
  <2> QED
    BY <1>1, <1>2, <2>1 DEF Count
<1>4. ASSUME errs # <<>>
      PROVE  /\ Head(errs) \in S
             /\ Count(Tail(errs)) = Count(errs) - (IF Head(errs) = Client THEN 0 ELSE 1)
  <2>1. /\ Len(Tail(errs)) = Len(errs) - 1 /\ Head(errs) \in S
        /\ Cardinality(Blames(Tail(errs))) =
               Cardinality(Blames(errs)) - (IF Head(errs) = Client THEN 1 ELSE 0)
    BY <1>1, <1>4, TailType, BlamesTail
  <2> QED
    BY <1>1, <1>2, <2>1 DEF Count
<1>5. /\ \A t \in Peers : Len(Append(dones, t)) = Len(dones) + 1
      /\ dones # <<>> => Len(Tail(dones)) = Len(dones) - 1
  BY <1>1, AppendType, TailType
<1>6. Complaints = Blames(errs)
  BY <1>1, LenProperties DEF Complaints, Blames
<1>7. RemainingIsExact <=> remaining + blamed = Cardinality(Running) + Len(dones) + Count(errs)
  BY <1>1, <1>2, <1>6, RunningFinite DEF RemainingIsExact, Count, TypeOK
<1> QED
  BY <1>1, <1>2, <1>3, <1>4, <1>5, <1>7 DEF Count

LEMMA CountNext ==
  ASSUME TypeOK',
         remaining' + blamed' = Cardinality(Running') + Len(dones') + Count(errs')
  PROVE  RemainingIsExact'
<1>1. errs' \in Seq(Peers \cup {Client}) /\ dones' \in Seq(Peers)
  BY DEF TypeOK
<1>2. Len(errs') \in Nat /\ Len(dones') \in Nat /\ DOMAIN errs' = 1 .. Len(errs')
  BY <1>1, LenProperties
<1>3. Cardinality(Blames(errs')) \in Nat
  BY <1>1, BlamesFinite
<1>4. Complaints' = Blames(errs')
  BY <1>2 DEF Complaints, Blames
<1>5. Cardinality(Running') \in Nat
  BY ConnectionsAssumption, FS_Subset, FS_CardinalityType DEF Running
<1> QED
  BY <1>2, <1>3, <1>4, <1>5 DEF RemainingIsExact, Count, TypeOK

LEMMA CountStep == TypeOK /\ RemainingIsExact /\ Next => RemainingIsExact'
<1> SUFFICES ASSUME TypeOK, RemainingIsExact, Next
             PROVE  RemainingIsExact'
  OBVIOUS
<1>t. /\ remaining \in Nat /\ blamed \in Nat /\ Cardinality(Running) \in Nat
      /\ Len(dones) \in Nat /\ Count(errs) \in Nat
      /\ remaining + blamed = Cardinality(Running) + Len(dones) + Count(errs)
  BY CountFacts, RunningFinite DEF TypeOK
<1>n. TypeOK'
  BY TypeStep
<1>c. conn' = conn => Running' = Running
  BY DEF Running
<1>1. CASE RefuseEmptyList \/ StartWaiting \/ Return
  <2>1. UNCHANGED <<remaining, blamed, conn, errs, dones>>
    BY <1>1 DEF RefuseEmptyList, StartWaiting, Return, chanVars
  <2> QED
    BY <1>t, <1>n, <1>c, <2>1, CountNext
<1>2. CASE TakeError
  <2>1. /\ errs # <<>> /\ errs' = Tail(errs) /\ UNCHANGED <<conn, dones>>
        /\ remaining' = remaining - 1
        /\ blamed' = IF Head(errs) = Client THEN blamed + 1 ELSE blamed
    BY <1>2 DEF TakeError, CountDown
  <2>2. Count(errs') = Count(errs) - (IF Head(errs) = Client THEN 0 ELSE 1)
    BY <2>1, CountFacts
  <2>3. remaining' + blamed' = Cardinality(Running') + Len(dones') + Count(errs')
    BY <1>t, <1>c, <2>1, <2>2
  <2> QED
    BY <1>n, <2>3, CountNext
<1>3. CASE TakeDone
  <2>1. /\ dones # <<>> /\ dones' = Tail(dones) /\ UNCHANGED <<conn, errs, blamed>>
        /\ remaining' = remaining - 1
    BY <1>3 DEF TakeDone
  <2>2. Len(dones') = Len(dones) - 1
    BY <2>1, CountFacts
  <2>3. remaining' + blamed' = Cardinality(Running') + Len(dones') + Count(errs')
    BY <1>t, <1>c, <2>1, <2>2
  <2> QED
    BY <1>n, <2>3, CountNext
<1>4. ASSUME NEW t \in Peers, Launch(t)
      PROVE  RemainingIsExact'
  <2>1. /\ conn[t] = "idle" /\ conn'[t] = "dial" /\ Alone(t)
        /\ remaining' = remaining + 1 /\ UNCHANGED <<blamed, errs, dones>>
    BY <1>4 DEF Launch, chanVars, Alone, TypeOK
  <2>2. Cardinality(Running') = Cardinality(Running) + 1
    BY <2>1, RunningMoves
  <2> QED
    BY <1>t, <1>n, <2>1, <2>2, CountNext
<1>5. ASSUME NEW t \in Peers, Goroutine(t)
      PROVE  RemainingIsExact'
  <2>1. CASE DialFails(t) \/ DialSucceeds(t) \/ Register(t) \/ StopListening(t) \/ ListenFails(t)
    <3>1. /\ UNCHANGED <<remaining, blamed, errs, dones>>
          /\ conn[t] \notin {"idle", "end"}
          /\ conn'[t] \notin {"idle", "end"} /\ Alone(t)
      BY <2>1 DEF DialFails, DialSucceeds, Register, StopListening, ListenFails, Move,
                  mainVars, chanVars, Alone, TypeOK
    <3>2. Cardinality(Running') = Cardinality(Running)
      BY <3>1, RunningMoves
    <3> QED
      BY <1>t, <1>n, <3>1, <3>2, CountNext
  <2>2. CASE ReportRefusal(t)
    <3>1. /\ UNCHANGED <<remaining, blamed, dones>> /\ errs' = Append(errs, t)
          /\ conn[t] = "refused" /\ conn'[t] = "end" /\ Alone(t)
      BY <2>2 DEF ReportRefusal, SendRefusal, SendError, Move, mainVars, Alone, TypeOK
    <3>2. Cardinality(Running') = Cardinality(Running) - 1
      BY <3>1, RunningMoves
    <3>3. Count(errs') = Count(errs) + 1
      BY <3>1, CountFacts, ConnectionsAssumption
    <3>4. remaining' + blamed' = Cardinality(Running') + Len(dones') + Count(errs')
      BY <1>t, <3>1, <3>2, <3>3
    <3> QED
      BY <1>n, <3>4, CountNext
  <2>3. CASE ReportBad(t)
    <3>1. /\ UNCHANGED <<remaining, blamed, dones>> /\ errs' = Append(errs, Client)
          /\ conn[t] = "bad" /\ conn'[t] = "quit" /\ Alone(t)
      BY <2>3 DEF ReportBad, SendError, Move, mainVars, Alone, TypeOK
    <3>2. Cardinality(Running') = Cardinality(Running)
      BY <3>1, RunningMoves
    <3>3. Count(errs') = Count(errs)
      BY <1>t, <3>1, CountFacts
    <3> QED
      BY <1>t, <1>n, <3>1, <3>2, <3>3, CountNext
  <2>4. CASE ReportDone(t)
    <3>1. /\ UNCHANGED <<remaining, blamed, errs>> /\ dones' = Append(dones, t)
          /\ conn[t] = "quit" /\ conn'[t] = "end" /\ Alone(t)
      BY <2>4 DEF ReportDone, Move, mainVars, Alone, TypeOK
    <3>2. Cardinality(Running') = Cardinality(Running) - 1
      BY <3>1, RunningMoves
    <3>3. Len(dones') = Len(dones) + 1
      BY <3>1, CountFacts
    <3>4. remaining' + blamed' = Cardinality(Running') + Len(dones') + Count(errs')
      BY <1>t, <3>1, <3>2, <3>3
    <3> QED
      BY <1>n, <3>4, CountNext
  <2>5. CASE ReportWriteError(t)
    <3>1. UNCHANGED <<remaining, blamed, dones, conn>> /\ errs' = Append(errs, Client)
      BY <2>5 DEF ReportWriteError, SendError, mainVars
    <3>2. Count(errs') = Count(errs)
      BY <1>t, <3>1, CountFacts
    <3> QED
      BY <1>t, <1>n, <1>c, <3>1, <3>2, CountNext
  <2>6. CASE WriteFails(t) \/ Leave(t) \/ CloseOnChoke(t)
    <3>1. UNCHANGED <<remaining, blamed, conn, errs, dones>>
      BY <2>6 DEF WriteFails, Leave, CloseOnChoke, mainVars, chanVars
    <3> QED
      BY <1>t, <1>n, <1>c, <3>1, CountNext
  <2> QED
    BY <1>5, <2>1, <2>2, <2>3, <2>4, <2>5, <2>6 DEF Goroutine, ConnectWithPeer, Writer
<1> QED
  BY <1>1, <1>2, <1>3, <1>4, <1>5 DEF Next, MainLoop, Goroutine

-----------------------------------------------------------------------------
(* The peers that are tried *)

Tried == {t \in Peers : conn[t] # "idle"}

(* While peers are launched nothing is counted down, so that what MayTry-  *)
(* More looks at is the number of those that were.                         *)
Launched ==
    /\ Tried \subseteq targets
    /\ main \in {"idle", "launch"} =>
           remaining = Cardinality(Tried) /\ (Limit # 0 => remaining <= Limit + 1)
    /\ main \in {"wait", "returned"} => targets # {}
    /\ main = "returned" => remaining = 0

(* When the launching loop ends, all were tried, or one more than Limit.   *)
TriedByLimit ==
    main \in {"wait", "returned"} =>
        Cardinality(Tried) = IF Limit = 0 \/ Cardinality(targets) <= Limit
                             THEN Cardinality(targets) ELSE Limit + 1

LEMMA TriedFinite == IsFiniteSet(Tried) /\ Cardinality(Tried) \in Nat
BY ConnectionsAssumption, FS_Subset, FS_CardinalityType DEF Tried

LEMMA TargetsFinite ==
  ASSUME TypeOK
  PROVE  IsFiniteSet(targets) /\ Cardinality(targets) \in Nat
BY ConnectionsAssumption, FS_Subset, FS_CardinalityType DEF TypeOK

LEMMA TriedByMain ==
  ASSUME TypeOK, Launched, TriedByLimit, MainLoop, UNCHANGED targets
  PROVE  Launched' /\ TriedByLimit'
<1>c. conn' = conn => Tried' = Tried
  BY DEF Tried
<1>1. CASE RefuseEmptyList
  BY <1>1, <1>c DEF RefuseEmptyList, Launched, TriedByLimit
<1>2. CASE StartWaiting
  <2>1. /\ main = "launch" /\ main' = "wait" /\ targets # {}
        /\ UNCHANGED <<conn, remaining>>
        /\ (Limit # 0 /\ remaining > Limit) \/ \A t \in targets : conn[t] # "idle"
    BY <1>2, ConnectionsAssumption DEF StartWaiting, MayTryMore, TypeOK
  <2>2. /\ remaining = Cardinality(Tried) /\ (Limit # 0 => remaining <= Limit + 1)
        /\ Tried \subseteq targets
    BY <2>1 DEF Launched
  <2>3. /\ Cardinality(Tried) <= Cardinality(targets)
        /\ Cardinality(Tried) \in Nat /\ Cardinality(targets) \in Nat
    BY <2>2, TargetsFinite, TriedFinite, FS_Subset
  <2>4. (\A t \in targets : conn[t] # "idle") => Tried = targets
    BY <2>2 DEF Tried, TypeOK
  <2>5. Cardinality(Tried) = IF Limit = 0 \/ Cardinality(targets) <= Limit
                             THEN Cardinality(targets) ELSE Limit + 1
    BY <2>1, <2>2, <2>3, <2>4, ConnectionsAssumption
  <2>6. TriedByLimit'
    BY <1>c, <2>1, <2>5 DEF TriedByLimit, Tried
  <2> QED
    BY <1>c, <2>1, <2>2, <2>6 DEF Launched
<1>3. CASE TakeError \/ TakeDone
  <2>1. main = "wait" /\ UNCHANGED <<main, conn>>
    BY <1>3 DEF TakeError, TakeDone
  <2> QED
    BY <1>c, <2>1 DEF Launched, TriedByLimit
<1>4. CASE Return
  <2>1. main = "wait" /\ main' = "returned" /\ remaining' = 0 /\ UNCHANGED conn
    BY <1>4 DEF Return
  <2> QED
    BY <1>c, <2>1 DEF Launched, TriedByLimit
<1>5. ASSUME NEW t \in Peers, Launch(t)
      PROVE  Launched' /\ TriedByLimit'
  <2>1. /\ main = "launch" /\ UNCHANGED main /\ t \in targets
        /\ conn[t] = "idle" /\ conn'[t] = "dial" /\ Alone(t)
        /\ remaining' = remaining + 1 /\ (Limit = 0 \/ remaining <= Limit)
    BY <1>5 DEF Launch, MayTryMore, Alone, TypeOK
  <2>2. Tried' = Tried \cup {t} /\ t \notin Tried
    BY <2>1 DEF Tried, Alone
  <2>3. Cardinality(Tried') = Cardinality(Tried) + 1
    BY <2>2, TriedFinite, FS_AddElement
  <2> QED
    BY <2>1, <2>2, <2>3, ConnectionsAssumption, TriedFinite DEF Launched, TriedByLimit
<1> QED
  BY <1>1, <1>2, <1>3, <1>4, <1>5 DEF MainLoop

LEMMA TriedByOthers ==
  ASSUME TypeOK, Launched, TriedByLimit,
         NEW t \in Peers, Goroutine(t), UNCHANGED targets
  PROVE  Launched' /\ TriedByLimit'
<1>1. UNCHANGED <<main, remaining>>
  BY DEF Goroutine, ConnectWithPeer, Writer, DialFails, DialSucceeds, Register, StopListening,
         ListenFails, ReportRefusal, ReportBad, ReportDone, WriteFails, ReportWriteError,
         Leave, CloseOnChoke, mainVars
<1>2. \/ conn' = conn
      \/ conn[t] # "idle" /\ conn'[t] # "idle" /\ Alone(t)
  BY DEF Goroutine, ConnectWithPeer, Writer, DialFails, DialSucceeds, Register, StopListening,
         ListenFails, ReportRefusal, ReportBad, ReportDone, WriteFails, ReportWriteError,
         Leave, CloseOnChoke, Move, Alone, TypeOK
<1>3. Tried' = Tried
  BY <1>2 DEF Tried, Alone
<1> QED
  BY <1>1, <1>3 DEF Launched, TriedByLimit, Tried

(* All there is to know of ConnectWithAllPeers. *)
ConnInv == TypeOK /\ RemainingIsExact /\ Launched /\ TriedByLimit

LEMMA ConnStep == ConnInv /\ Next => ConnInv'
BY TypeStep, CountStep, TriedByMain, TriedByOthers DEF ConnInv, Next, Goroutine

LEMMA ConnBegins ==
  ASSUME NEW where \in {"idle", "launch"}, InitAt(where), targets \subseteq Peers
  PROVE  ConnInv
<1>1. TypeOK
  <2>1. /\ <<>> \in Seq(Peers) /\ <<>> \in Seq(Peers \cup {Client}) /\ Len(<<>>) = 0
    BY EmptySeq
  <2> QED
    BY <2>1, ConnectionsAssumption DEF TypeOK, InitAt, ConnStates, WriterStates
<1>2. Running = {} /\ Tried = {}
  BY DEF InitAt, Running, Tried
<1>3. Cardinality({}) = 0
  BY FS_EmptySet
<1>4. RemainingIsExact
  <2>1. Complaints = {} /\ Len(errs) = 0 /\ Len(dones) = 0
    BY DEF InitAt, Complaints
  <2> QED
    BY <1>2, <1>3, <2>1 DEF RemainingIsExact, InitAt
<1>5. Launched /\ TriedByLimit
  BY <1>2, <1>3, ConnectionsAssumption DEF Launched, TriedByLimit, InitAt
<1> QED
  BY <1>1, <1>4, <1>5 DEF ConnInv

-----------------------------------------------------------------------------
(* The query of the trackers *)

Answer == [failure : BOOLEAN, peers : SUBSET Peers]

AnnounceType ==
    /\ body \in Answer /\ found \in BOOLEAN
    /\ asked \in Seq([url : Urls, answer : Answer])
    /\ query \in Outcomes \cup {"idle", "asking", "returned"}

(* decodedRespBody holds what all the answers so far have put into it. *)
Gathered ==
    /\ \A i \in 1 .. Len(asked) : asked[i].answer.peers \subseteq body.peers
    /\ body.failure <=> \E i \in 1 .. Len(asked) : asked[i].answer.failure
    /\ found => asked # <<>>

(* How the query ends depends on that, and on whether one was valid. *)
Concluded ==
    /\ query \in {"idle", "noAnswer", "noUrl", "badUrl", "panic"} => ~found
    /\ query = "ok" => found /\ ~body.failure
    /\ query = "failure" => body.failure

(* Of the servers the torrent names, those that were not asked are still   *)
(* to come, until a malformed URL is reached.                              *)
NamedUrls ==
    {metainfo.announce} \cup ToSet(metainfo.urlList) \cup
        {tier[1] : tier \in ToSet(metainfo.announceList)}

AskedUrls == {asked[i].url : i \in 1 .. Len(asked)}

Settled == Outcomes \ {"panic"}

Covered ==
    /\ metainfo \in MetaInfos
    /\ query = "idle" => asked = <<>>
    /\ query \in {"asking"} \cup Settled =>
           /\ pending \in Seq(Urls) /\ AskedUrls \cup ToSet(pending) = NamedUrls \cap Http
           /\ query = "badUrl" <=> AskedUrls \cap Malformed # {}
    /\ query \in Settled => pending = <<>> \/ found \/ query = "badUrl"

AnnounceInv == AnnounceType /\ Gathered /\ Concluded /\ Covered

LEMMA UsableUrls ==
  ASSUME metainfo \in MetaInfos,
         \A i \in DOMAIN metainfo.announceList : metainfo.announceList[i] # <<>>
  PROVE  /\ Usable(AnnounceUrls) \in Seq(Urls)
         /\ ToSet(Usable(AnnounceUrls)) = NamedUrls \cap Http
<1> DEFINE tiers == metainfo.announceList
           firsts == [i \in DOMAIN tiers |-> Head(tiers[i])]
<1>1. /\ metainfo.announce \in Urls /\ metainfo.urlList \in Seq(Urls)
      /\ tiers \in Seq(Seq(Urls))
  BY AnnounceAssumption
<1>2. Len(tiers) \in Nat /\ DOMAIN tiers = 1 .. Len(tiers)
  BY <1>1, LenProperties
<1>3. \A i \in 1 .. Len(tiers) : tiers[i] \in Seq(Urls) /\ tiers[i] # <<>>
  BY <1>1, <1>2, ElementOfSeq
<1>4. \A i \in 1 .. Len(tiers) : Head(tiers[i]) \in Urls /\ Head(tiers[i]) = tiers[i][1]
  BY <1>3, HeadTailProperties
<1>5. firsts \in Seq(Urls)
  <2>1. firsts \in [1 .. Len(tiers) -> Urls]
    BY <1>2, <1>4
  <2> QED
    BY <1>2, <2>1, SeqDef
<1>6. ToSet(firsts) = {tier[1] : tier \in ToSet(tiers)}
  BY <1>2, <1>4 DEF ToSet
<1> DEFINE one == <<metainfo.announce>>
           two == one \o firsts
           seeds == metainfo.urlList
<1>7. one \in Seq(Urls) /\ ToSet(one) = {metainfo.announce}
  BY <1>1 DEF ToSet
<1>8. AnnounceUrls = two \o seeds /\ seeds \in Seq(Urls)
  <2>1. AnnounceUrls = two \o seeds
    BY Zenon DEF AnnounceUrls
  <2> QED
    BY <1>1, <2>1
<1> HIDE DEF firsts, tiers, one, seeds
<1>9. two \in Seq(Urls) /\ ToSet(two) = ToSet(one) \cup ToSet(firsts)
  <2>1. one \in Seq(Urls) /\ firsts \in Seq(Urls)
    BY <1>5, <1>7
  <2> QED
    BY <2>1, ToSetConcat, Zenon
<1> HIDE DEF two
<1>10. two \o seeds \in Seq(Urls) /\ ToSet(two \o seeds) = ToSet(two) \cup ToSet(seeds)
  <2>1. two \in Seq(Urls)
    BY <1>9
  <2>2. seeds \in Seq(Urls)
    BY <1>8
  <2> QED
    BY <2>1, <2>2, ToSetConcat, Zenon
<1>11. AnnounceUrls \in Seq(Urls) /\ ToSet(AnnounceUrls) = ToSet(two) \cup ToSet(seeds)
  BY <1>8, <1>10, Zenon
<1>12. NamedUrls = (ToSet(one) \cup ToSet(seeds)) \cup ToSet(firsts)
  BY <1>6, <1>7, Zenon DEF NamedUrls, tiers, seeds
<1>13. ToSet(AnnounceUrls) = NamedUrls
  BY <1>9, <1>11, <1>12
<1> QED
  BY <1>11, <1>13, OnlyFacts DEF Usable

LEMMA AskCovers ==
  ASSUME AnnounceInv, NEW u \in Urls, NEW answer \in Answer, Ask(u, answer),
         query' \in {"asking", "badUrl"}, query' = "badUrl" <=> u \in Malformed
  PROVE  Covered'
<1> DEFINE entry == [url |-> u, answer |-> answer]
<1>1. /\ asked' = Append(asked, entry) /\ pending # <<>> /\ u = Head(pending)
      /\ pending' = Tail(pending) /\ metainfo' = metainfo /\ query = "asking"
  BY DEF Ask
<1>2. /\ asked \in Seq([url : Urls, answer : Answer]) /\ entry.url = u
      /\ entry \in [url : Urls, answer : Answer]
      /\ pending \in Seq(Urls) /\ AskedUrls \cup ToSet(pending) = NamedUrls \cap Http
      /\ AskedUrls \cap Malformed = {}
      /\ metainfo \in MetaInfos
  BY <1>1 DEF AnnounceInv, AnnounceType, Covered
<1> HIDE DEF entry
<1>3. /\ Len(asked) \in Nat /\ Len(asked') = Len(asked) + 1
      /\ \A i \in 1 .. Len(asked) : asked'[i] = asked[i]
      /\ asked'[Len(asked) + 1] = entry
  BY <1>1, <1>2, AppendProperties, LenProperties
<1>4. AskedUrls' = AskedUrls \cup {u}
  <2>1. /\ \A i \in 1 .. Len(asked) : i \in 1 .. Len(asked')
        /\ \A i \in 1 .. Len(asked') : i \in 1 .. Len(asked) \/ i = Len(asked) + 1
        /\ Len(asked) + 1 \in 1 .. Len(asked')
    BY <1>3
  <2>2. AskedUrls' = {asked'[i].url : i \in 1 .. Len(asked')}
    BY DEF AskedUrls
  <2> QED
    BY <1>2, <1>3, <2>1, <2>2 DEF AskedUrls
<1>5. ToSet(pending) = {u} \cup ToSet(pending') /\ pending' \in Seq(Urls)
  BY <1>1, <1>2, ToSetTail, HeadTailProperties
<1>6. NamedUrls' = NamedUrls
  BY <1>1 DEF NamedUrls
<1>7. AskedUrls' \cup ToSet(pending') = NamedUrls' \cap Http
  BY <1>2, <1>4, <1>5, <1>6
<1>8. AskedUrls' \cap Malformed # {} <=> u \in Malformed
  BY <1>2, <1>4
<1>9. query' # "idle" /\ (query' \in Settled => query' = "badUrl")
  BY DEF Settled, Outcomes
<1> QED
  BY <1>1, <1>2, <1>5, <1>7, <1>8, <1>9 DEF Covered

LEMMA AskStep ==
  ASSUME AnnounceInv, NEW u \in Urls, NEW answer \in Answer, Ask(u, answer),
         found' = found \/ found' = TRUE
  PROVE  /\ body' \in Answer /\ asked' \in Seq([url : Urls, answer : Answer])
         /\ Gathered'
<1> DEFINE entry == [url |-> u, answer |-> answer]
<1>1. /\ body \in Answer /\ asked \in Seq([url : Urls, answer : Answer])
      /\ entry \in [url : Urls, answer : Answer] /\ Len(asked) \in Nat
  BY LenProperties DEF AnnounceInv, AnnounceType
<1>2. asked' = Append(asked, entry) /\ body' = Decode(answer)
  BY DEF Ask
<1>3. /\ asked' \in Seq([url : Urls, answer : Answer]) /\ Len(asked') = Len(asked) + 1
      /\ \A i \in 1 .. Len(asked) : asked'[i] = asked[i]
      /\ asked'[Len(asked) + 1] = entry
  BY <1>1, <1>2, AppendProperties
<1>4. /\ body' \in Answer
      /\ body'.failure <=> body.failure \/ answer.failure
      /\ body'.peers = body.peers \cup answer.peers
  BY <1>1, <1>2 DEF Decode, Answer
<1>5. \A i \in 1 .. Len(asked') : i \in 1 .. Len(asked) \/ i = Len(asked) + 1
  BY <1>1, <1>3
<1>6. \A i \in 1 .. Len(asked') : asked'[i].answer.peers \subseteq body'.peers
  <2> SUFFICES ASSUME NEW i \in 1 .. Len(asked')
               PROVE  asked'[i].answer.peers \subseteq body'.peers
    OBVIOUS
  <2>1. CASE i \in 1 .. Len(asked)
    BY <1>3, <1>4, <2>1 DEF AnnounceInv, Gathered
  <2>2. CASE i = Len(asked) + 1
    BY <1>3, <1>4, <2>2
  <2> QED
    BY <1>5, <2>1, <2>2
<1>7. ASSUME body'.failure
      PROVE  \E i \in 1 .. Len(asked') : asked'[i].answer.failure
  <2>1. CASE answer.failure
    BY <1>1, <1>3, <2>1
  <2>2. CASE body.failure
    <3>1. PICK i \in 1 .. Len(asked) : asked[i].answer.failure
      BY <2>2 DEF AnnounceInv, Gathered
    <3> QED
      BY <1>1, <1>3, <3>1
  <2> QED
    BY <1>4, <1>7, <2>1, <2>2
<1>8. ASSUME NEW i \in 1 .. Len(asked'), asked'[i].answer.failure
      PROVE  body'.failure
  <2>1. CASE i \in 1 .. Len(asked)
    BY <1>3, <1>4, <1>8, <2>1 DEF AnnounceInv, Gathered
  <2>2. CASE i = Len(asked) + 1
    BY <1>3, <1>4, <1>8, <2>2
  <2> QED
    BY <1>5, <2>1, <2>2
<1>9. asked' # <<>>
  BY <1>1, <1>3, EmptySeq
<1> QED
  BY <1>3, <1>4, <1>6, <1>7, <1>8, <1>9 DEF Gathered

LEMMA AnnounceStep == AnnounceInv /\ AnnounceNext => AnnounceInv'
<1> SUFFICES ASSUME AnnounceInv, AnnounceNext  PROVE AnnounceInv'
  OBVIOUS
<1>e. Empty \in Answer
  BY DEF Empty, Answer
<1>m. metainfo \in MetaInfos
  BY DEF AnnounceInv, Covered
<1>1. CASE GetPeers
  <2>1. /\ query = "idle" /\ query' \in {"panic", "noUrl", "asking"}
        /\ UNCHANGED <<metainfo, body, found, asked>>
    BY <1>1 DEF GetPeers
  <2>2. AnnounceType' /\ Gathered' /\ Concluded'
    BY <2>1 DEF AnnounceInv, AnnounceType, Gathered, Concluded, Outcomes
  <2>3. CASE query' \in {"asking", "noUrl"}
    <3>1. /\ query' = "noUrl" => pending' = <<>>
          /\ \A i \in DOMAIN metainfo.announceList : metainfo.announceList[i] # <<>>
          /\ pending' = Usable(AnnounceUrls)
      BY <1>1, <2>3 DEF GetPeers
    <3>2. pending' \in Seq(Urls) /\ ToSet(pending') = NamedUrls \cap Http
      BY <1>m, <3>1, UsableUrls
    <3>3. AskedUrls' = {}
      BY <2>1 DEF AskedUrls, AnnounceInv, Covered
    <3>4. NamedUrls' = NamedUrls
      BY <2>1 DEF NamedUrls
    <3>5. Covered'
      BY <1>m, <2>1, <2>3, <3>1, <3>2, <3>3, <3>4 DEF Covered, Settled, Outcomes
    <3> QED
      BY <2>2, <3>5 DEF AnnounceInv
  <2>4. CASE query' = "panic"
    BY <1>m, <2>1, <2>2, <2>4 DEF AnnounceInv, Covered, Settled
  <2> QED
    BY <2>1, <2>3, <2>4
<1>2. CASE AskMalformed
  <2>1. PICK u \in Malformed : Ask(u, Empty) /\ query' = "badUrl" /\ found' = found /\ ~found
    BY <1>2 DEF AskMalformed, Ask
  <2>2. u \in Urls
    BY AnnounceAssumption
  <2>3. Covered'
    BY <1>e, <2>1, <2>2, AskCovers
  <2> QED
    BY <1>e, <2>1, <2>2, <2>3, AskStep DEF AnnounceInv, AnnounceType, Concluded, Outcomes
<1>3. CASE AskInVain \/ AskAnswered
  <2>1. PICK u \in Answering :
            \E answer \in [failure : BOOLEAN, peers : Given(u)] :
                Ask(u, answer) /\ (found' = found \/ found' = TRUE) /\ UNCHANGED query
    BY <1>3 DEF AskInVain, AskAnswered
  <2>2. u \in Urls /\ u \notin Malformed /\ Given(u) \subseteq SUBSET Peers
    BY AnnounceAssumption, ClientAssumption DEF Answering, Given
  <2>3. PICK answer \in Answer :
            Ask(u, answer) /\ (found' = found \/ found' = TRUE) /\ UNCHANGED query
    BY <2>1, <2>2 DEF Answer
  <2>4. query = "asking"
    BY <2>3 DEF Ask
  <2>5. Covered'
    BY <2>2, <2>3, <2>4, AskCovers
  <2> QED
    BY <2>2, <2>3, <2>4, <2>5, AskStep DEF AnnounceInv, AnnounceType, Concluded, Outcomes
<1>4. CASE AskMistyped
  <2>1. PICK u \in Answering : Ask(u, Empty) /\ query' = "panic" /\ found' = found /\ ~found
    BY <1>4 DEF AskMistyped, Ask
  <2>2. u \in Urls /\ metainfo' = metainfo
    BY <2>1, AnnounceAssumption DEF Ask, Answering
  <2>3. Covered'
    BY <1>m, <2>1, <2>2 DEF Covered, Settled
  <2> QED
    BY <1>e, <2>1, <2>2, <2>3, AskStep DEF AnnounceInv, AnnounceType, Concluded, Outcomes
<1>5. CASE Conclude
  <2>1. AnnounceType' /\ Gathered' /\ Concluded'
    BY <1>5 DEF Conclude, Conclusion, queryVars, AnnounceInv, AnnounceType, Gathered,
                Concluded, Outcomes
  <2>2. /\ query = "asking" /\ query' \in {"failure", "ok", "noAnswer"}
        /\ found \/ pending = <<>>
        /\ UNCHANGED <<metainfo, pending, found, asked>>
    BY <1>5 DEF Conclude, Conclusion, queryVars
  <2>3. Covered'
    BY <2>2 DEF AnnounceInv, Covered, Settled, AskedUrls, NamedUrls
  <2> QED
    BY <2>1, <2>3 DEF AnnounceInv
<1> QED
  BY <1>1, <1>2, <1>3, <1>4, <1>5 DEF AnnounceNext

-----------------------------------------------------------------------------
(* downloadTorrent *)

(* Nothing is tried before ConnectWithAllPeers is called. *)
Asleep == main = "idle" => Tried = {}

ClientInv == ConnInv /\ AnnounceInv /\ Asleep

LEMMA ClientBegins == ClientInit => ClientInv
<1> SUFFICES ASSUME ClientInit  PROVE ClientInv
  OBVIOUS
<1>1. ConnInv
  BY ConnBegins DEF ClientInit
<1>2. AnnounceInv
  <2>1. <<>> \in Seq([url : Urls, answer : Answer]) /\ Len(<<>>) = 0
    BY EmptySeq
  <2>2. /\ asked = <<>> /\ Len(asked) = 0 /\ body \in Answer /\ body.failure = FALSE
        /\ found = FALSE /\ query = "idle" /\ metainfo \in MetaInfos
    BY DEF ClientInit, AnnounceInit, Empty, Answer
  <2>3. Gathered
    BY <2>2 DEF Gathered
  <2> QED
    BY <2>1, <2>2, <2>3 DEF AnnounceInv, AnnounceType, Concluded, Covered, Settled, Outcomes
<1>3. Asleep
  BY DEF ClientInit, InitAt, Asleep, Tried
<1> QED
  BY <1>1, <1>2, <1>3 DEF ClientInv

LEMMA ClientStep == ClientInv /\ [ClientNext]_clientVars => ClientInv'
<1> SUFFICES ASSUME ClientInv, [ClientNext]_clientVars  PROVE ClientInv'
  OBVIOUS
<1>a. UNCHANGED vars => ConnInv' /\ Asleep'
  BY DEF vars, mainVars, chanVars, listVars, ClientInv, ConnInv, Asleep, TypeOK, Tried,
         RemainingIsExact, Running, Complaints, Launched, TriedByLimit
<1>b. UNCHANGED announceVars => AnnounceInv'
  BY DEF announceVars, queryVars, ClientInv, AnnounceInv, AnnounceType, Gathered, Concluded,
         Covered, AskedUrls, NamedUrls
<1>1. CASE AnnounceNext /\ UNCHANGED vars
  BY <1>1, <1>a, AnnounceStep DEF ClientInv
<1>2. CASE StartConnecting
  <2>1. /\ main = "idle" /\ main' = "launch" /\ targets' = body.peers
        /\ UNCHANGED <<remaining, blamed, conn, writer, errs, dones, list, copy, socket>>
    BY <1>2 DEF StartConnecting, chanVars, listVars
  <2>2. body.peers \subseteq Peers
    BY DEF ClientInv, AnnounceInv, AnnounceType, Answer
  <2>3. TypeOK' /\ RemainingIsExact'
    BY <2>1, <2>2 DEF ClientInv, ConnInv, TypeOK, RemainingIsExact, Running, Complaints
  <2>4. Tried' = Tried /\ Tried = {}
    BY <2>1 DEF ClientInv, Asleep, Tried
  <2>5. Launched' /\ TriedByLimit'
    BY <2>1, <2>4 DEF ClientInv, ConnInv, Launched, TriedByLimit
  <2>6. AnnounceInv'
    <3>1. <<>> \in Seq([url : Urls, answer : Answer]) /\ Len(<<>>) = 0
      BY EmptySeq
    <3>2. /\ asked' = <<>> /\ Len(asked') = 0 /\ body' \in Answer /\ body'.failure = FALSE
          /\ found' = FALSE /\ query' = "returned" /\ metainfo' \in MetaInfos
      BY <1>2 DEF StartConnecting, Empty, Answer, ClientInv, AnnounceInv, Covered
    <3>3. Gathered'
      BY <3>2 DEF Gathered
    <3> QED
      BY <3>1, <3>2, <3>3 DEF AnnounceInv, AnnounceType, Concluded, Covered, Settled, Outcomes
  <2> QED
    BY <2>1, <2>3, <2>5, <2>6 DEF ClientInv, ConnInv, Asleep
<1>3. CASE main # "idle" /\ Next /\ UNCHANGED announceVars
  <2>1. ConnInv'
    BY <1>3, ConnStep DEF ClientInv
  <2>2. main' # "idle"
    <3>1. ASSUME MainLoop  PROVE main' # "idle"
      BY <1>3, <3>1 DEF MainLoop, RefuseEmptyList, StartWaiting, TakeError, TakeDone, Return, Launch
    <3>2. ASSUME NEW t \in Peers, Goroutine(t)  PROVE main' = main
      BY <3>2 DEF Goroutine, ConnectWithPeer, Writer, DialFails, DialSucceeds, Register,
                  StopListening, ListenFails, ReportRefusal, ReportBad, ReportDone, WriteFails,
                  ReportWriteError, Leave, CloseOnChoke, mainVars
    <3> QED
      BY <1>3, <3>1, <3>2 DEF Next, Goroutine
  <2> QED
    BY <1>3, <1>b, <2>1, <2>2 DEF ClientInv, Asleep
<1>4. CASE UNCHANGED clientVars
  BY <1>4, <1>a, <1>b DEF clientVars, ClientInv
<1> QED
  BY <1>1, <1>2, <1>3, <1>4 DEF ClientNext

LEMMA ClientInvariant == ClientSpec => []ClientInv
BY ClientBegins, ClientStep, PTL DEF ClientSpec

(* ConnectWithAllPeers keeps its types: the countdown stays a natural      *)
(* number and peersErrChan and peersDoneChan within their capacity.        *)
THEOREM ConnectionsTypeOK == ClientSpec => []TypeOK
<1>1. ClientInv => TypeOK
  BY DEF ClientInv, ConnInv
<1> QED
  BY <1>1, ClientInvariant, PTL

(* peersRemaining is what is still to be heard of, less the errors blamed  *)
(* on the client: no report is lost and none is counted twice, however     *)
(* many peers there are and however full the channels get.                 *)
THEOREM RemainingIsExactHolds == ClientSpec => []RemainingIsExact
<1>1. ClientInv => RemainingIsExact
  BY DEF ClientInv, ConnInv
<1> QED
  BY <1>1, ClientInvariant, PTL

LEMMA LastAsked ==
  ASSUME AnnounceInv, found
  PROVE  /\ Len(asked) \in Nat \ {0} /\ Len(asked) \in 1 .. Len(asked)
         /\ Last(asked) = asked[Len(asked)]
<1>1. asked \in Seq([url : Urls, answer : Answer]) /\ asked # <<>>
  BY DEF AnnounceInv, AnnounceType, Gathered
<1>2. Len(asked) \in Nat \ {0}
  BY <1>1, EmptySeq, LenProperties
<1> QED
  BY <1>2 DEF Last

(* QueryAnnounceUrls succeeds only on a valid answer without a failure     *)
(* reason, and returns every peer that this answer names.                  *)
THEOREM SuccessIsAnAnswerHolds == ClientSpec => []SuccessIsAnAnswer
<1>1. ASSUME ClientInv  PROVE SuccessIsAnAnswer
  <2> SUFFICES ASSUME query = "ok"
               PROVE  /\ found
                      /\ ~Last(asked).answer.failure
                      /\ Last(asked).answer.peers \subseteq body.peers
    BY DEF SuccessIsAnAnswer
  <2>1. AnnounceInv /\ found /\ ~body.failure
    BY <1>1 DEF ClientInv, AnnounceInv, Concluded
  <2> QED
    BY <2>1, LastAsked DEF AnnounceInv, Gathered
<1> QED
  BY <1>1, ClientInvariant, PTL

(* QueryAnnounceUrls returns a good answer it has got, unless an answer it *)
(* had refused before has left its failure reason in decodedRespBody.      *)
THEOREM GoodAnswerReturnedHolds == ClientSpec => []GoodAnswerReturned
<1>1. ASSUME ClientInv  PROVE GoodAnswerReturned
  <2> SUFFICES ASSUME query \in Outcomes, found, ~Last(asked).answer.failure, query # "ok"
               PROVE  \E i \in 1 .. Len(asked) - 1 : asked[i].answer.failure
    BY DEF GoodAnswerReturned
  <2>1. AnnounceInv
    BY <1>1 DEF ClientInv
  <2>2. body.failure
    BY <2>1 DEF AnnounceInv, Concluded, Outcomes
  <2>3. PICK i \in 1 .. Len(asked) : asked[i].answer.failure
    BY <2>1, <2>2 DEF AnnounceInv, Gathered
  <2>4. i # Len(asked) /\ Len(asked) \in Nat
    BY <2>1, <2>3, LastAsked
  <2> QED
    BY <2>3, <2>4
<1> QED
  BY <1>1, ClientInvariant, PTL

(* However QueryAnnounceUrls ends, but for a crash, it has asked every     *)
(* server that the torrent names by HTTP (the main one, the first of each  *)
(* tier, the web seeds), and no other, unless one gave a valid answer or a *)
(* URL is malformed; and a malformed URL that is reached ends it.          *)
THEOREM NobodySkippedHolds == ClientSpec => []NobodySkipped
<1>1. ASSUME ClientInv  PROVE NobodySkipped
  <2> DEFINE urls == {asked[i].url : i \in DOMAIN asked}
  <2> SUFFICES ASSUME query \in Settled
               PROVE  /\ urls \subseteq NamedUrls \cap Http
                      /\ urls = NamedUrls \cap Http \/ found \/ query = "badUrl"
                      /\ query = "badUrl" <=> urls \cap Malformed # {}
    BY DEF NobodySkipped, NamedUrls, Settled
  <2>1. /\ AskedUrls \cup ToSet(pending) = NamedUrls \cap Http
        /\ pending = <<>> \/ found \/ query = "badUrl"
        /\ query = "badUrl" <=> AskedUrls \cap Malformed # {}
        /\ asked \in Seq([url : Urls, answer : Answer])
    BY <1>1 DEF ClientInv, AnnounceInv, AnnounceType, Covered
  <2>2. urls = AskedUrls
    <3>1. DOMAIN asked = 1 .. Len(asked)
      BY <2>1, LenProperties
    <3> QED
      BY <3>1 DEF AskedUrls
  <2> QED
    BY <2>1, <2>2, ToSetEmpty
<1> QED
  BY <1>1, ClientInvariant, PTL

(* The program's exit code is 0 only when some peer was tried, and all     *)
(* that were tried have reported but for what the errors blamed on the     *)
(* client have counted in their place.                                     *)
THEOREM ZeroMeansTriedHolds == ClientSpec => []ZeroMeansTried
<1>1. ASSUME ClientInv  PROVE ZeroMeansTried
  <2> SUFFICES ASSUME Exited, ExitCode = 0
               PROVE  /\ \E t \in targets : conn[t] # "idle"
                      /\ Cardinality(Running) <= blamed
    BY DEF ZeroMeansTried
  <2>1. main = "returned"
    BY DEF Exited, ExitCode, Ended
  <2>2. ConnInv /\ TypeOK
    BY <1>1 DEF ClientInv, ConnInv
  <2>3. /\ remaining = 0 /\ targets # {} /\ Tried \subseteq targets
        /\ Cardinality(Tried) = IF Limit = 0 \/ Cardinality(targets) <= Limit
                                THEN Cardinality(targets) ELSE Limit + 1
    BY <2>1, <2>2 DEF ConnInv, Launched, TriedByLimit, Tried
  <2>4. Cardinality(targets) # 0 /\ Cardinality(targets) \in Nat
    BY <2>2, <2>3, TargetsFinite, FS_EmptySet
  <2>5. Tried # {}
    BY <2>3, <2>4, ConnectionsAssumption, FS_EmptySet
  <2>6. \E t \in targets : conn[t] # "idle"
    BY <2>3, <2>5 DEF Tried
  <2>7. /\ remaining + blamed = Cardinality(Running) + Len(dones) + Count(errs)
        /\ Len(dones) \in Nat /\ Count(errs) \in Nat /\ blamed \in Nat
    BY <2>2, CountFacts DEF ConnInv, TypeOK
  <2>8. Cardinality(Running) <= blamed
    BY <2>3, <2>7, RunningFinite
  <2> QED
    BY <2>6, <2>8
<1> QED
  BY <1>1, ClientInvariant, PTL
=============================================================================
