----------------------------- MODULE Connections -----------------------------
(***************************************************************************)
(* ConnectWithAllPeers: one goroutine per peer dials, registers its        *)
(* connection, listens until the first error and reports; a writer         *)
(* goroutine per connection reports too; the main loop counts the reports  *)
(* down and returns at zero, which ends the process.                       *)
(***************************************************************************)
EXTENDS Integers, Sequences, FiniteSets, SequencesExt

CONSTANTS
    Peers,      \* peers a tracker may name, each as an entry of its list
    Client,     \* the client itself, as the subject of an error
    Limit,      \* maxPeerLimit; 0 means no limit
    Cap,        \* capacity of peersDoneChan and of peersErrChan
    Rude,       \* peers that may send what cannot be handled
    Chatty      \* peers the client still has messages for when they leave

ASSUME ConnectionsAssumption ==
    /\ Peers # {} /\ IsFiniteSet(Peers) /\ Client \notin Peers
    /\ Limit \in Nat /\ Cap \in Nat \ {0}
    /\ Rude \subseteq Peers /\ Chatty \subseteq Peers

VARIABLES
    targets,    \* targetPeers
    main,       \* the main loop: "idle", "launch", "wait", "returned", "refused"
    remaining,  \* peersTried while launching, then peersRemaining
    conn,       \* conn[t]: where connectWithPeer(t) stands
    writer,     \* writer[t]: the goroutine of NewPeerConnection
    errs, dones,\* peersErrChan and peersDoneChan
    list, copy, \* PeerConnections, and the slice as t read it to append
    socket,     \* socket[t]: "none", "open", "left" (by the peer), "closed"
    blamed      \* calls of onPeerErrorFunc that name the client itself

mainVars == <<main, remaining, blamed>>
chanVars == <<errs, dones>>
listVars == <<list, copy>>
vars == <<targets, mainVars, conn, writer, chanVars, listVars, socket>>

ConnStates == {"idle", "dial", "refused", "register", "listen", "bad", "quit", "end"}
WriterStates == {"idle", "up", "failed", "end"}

InitAt(where) ==
    /\ main = where /\ remaining = 0 /\ blamed = 0
    /\ conn = [t \in Peers |-> "idle"]
    /\ writer = [t \in Peers |-> "idle"]
    /\ errs = <<>> /\ dones = <<>>
    /\ list = <<>> /\ copy = [t \in Peers |-> <<>>]
    /\ socket = [t \in Peers |-> "none"]

Init == InitAt("launch") /\ targets \in SUBSET Peers

-----------------------------------------------------------------------------
(* The main loop *)

(* "Found no usable peers for this torrent" *)
RefuseEmptyList ==
    /\ main = "launch" /\ targets = {}
    /\ main' = "refused"
    /\ UNCHANGED <<remaining, blamed, conn, writer, chanVars, listVars, socket>>

(* The check is made before the count goes up: one peer more than Limit.   *)
MayTryMore == Limit = 0 \/ remaining <= Limit

Launch(t) ==
    /\ main = "launch" /\ MayTryMore
    /\ t \in targets /\ conn[t] = "idle"
    /\ conn' = [conn EXCEPT ![t] = "dial"]
    /\ remaining' = remaining + 1
    /\ UNCHANGED <<main, blamed, writer, chanVars, listVars, socket>>

StartWaiting ==
    /\ main = "launch" /\ targets # {}
    /\ ~MayTryMore \/ \A t \in targets : conn[t] # "idle"
    /\ main' = "wait"
    /\ UNCHANGED <<remaining, blamed, conn, writer, chanVars, listVars, socket>>

IsOpen(t) == socket[t] \in {"open", "left"}

(* Peer.Close gives up at the first connection that is closed already.     *)
ClosedInTurn ==
    {list[i] : i \in {k \in DOMAIN list : \A j \in 1 .. k : IsOpen(list[j])}}

\* Seeded fault: an error about the client itself is not counted.
CountOthers(t) == IF t = Client THEN remaining ELSE remaining - 1

\* Seeded fault: an error also counts as the report of being done.
CountTwice(t) == remaining - 2

CountDown(t) == remaining - 1

(* Every error counts; closing a peer of the tracker's closes nothing, for *)
(* the connections are the client's.                                       *)
TakeError ==
    /\ main = "wait" /\ remaining # 0
    /\ errs # <<>>
    /\ LET t == Head(errs)
       IN  /\ remaining' = CountDown(t)
           /\ blamed' = IF t = Client THEN blamed + 1 ELSE blamed
           /\ socket' = [u \in Peers |->
                            IF t = Client /\ u \in ClosedInTurn THEN "closed" ELSE socket[u]]
    /\ errs' = Tail(errs)
    /\ UNCHANGED <<main, conn, writer, dones, listVars>>

TakeDone ==
    /\ main = "wait" /\ remaining # 0
    /\ dones # <<>>
    /\ dones' = Tail(dones)
    /\ remaining' = remaining - 1
    /\ UNCHANGED <<main, blamed, conn, writer, errs, listVars, socket>>

Return ==
    /\ main = "wait" /\ remaining = 0
    /\ main' = "returned"
    /\ UNCHANGED <<remaining, blamed, conn, writer, chanVars, listVars, socket>>

-----------------------------------------------------------------------------
(* connectWithPeer.  The handshake is sent by a goroutine that would close *)
(* the connection and report a second time, under the peer's name, if the  *)
(* SendHandshakeFunc failed; the program's, DefaultSendHandshakeFunc, has  *)
(* no failure to return, so there is no such step.                         *)

Move(t, from, to) ==
    /\ conn[t] = from
    /\ conn' = [conn EXCEPT ![t] = to]

DialFails(t) ==
    /\ Move(t, "dial", "refused")
    /\ UNCHANGED <<mainVars, writer, chanVars, listVars, socket>>

(* append reads the slice, then stores the longer one, without a lock. *)
DialSucceeds(t) ==
    /\ Move(t, "dial", "register")
    /\ socket' = [socket EXCEPT ![t] = "open"]
    /\ writer' = [writer EXCEPT ![t] = "up"]
    /\ copy' = [copy EXCEPT ![t] = list]
    /\ UNCHANGED <<mainVars, chanVars, list>>

Register(t) ==
    /\ Move(t, "register", "listen")
    /\ list' = Append(copy[t], t)
    /\ copy' = [copy EXCEPT ![t] = <<>>]
    /\ UNCHANGED <<mainVars, writer, chanVars, socket>>

(* End of file, a reset, a read timeout or a socket closed by the client:  *)
(* errors listenForMessages ignores.  While the client is downloading, a   *)
(* read timeout is no end, and the connection is read again.               *)
StopListening(t) ==
    /\ Move(t, "listen", "quit")
    /\ UNCHANGED <<mainVars, writer, chanVars, listVars, socket>>

(* Any other error, of the reader or of a handler.                         *)
ListenFails(t) ==
    /\ t \in Rude
    /\ Move(t, "listen", "bad")
    /\ UNCHANGED <<mainVars, writer, chanVars, listVars, socket>>

SendError(subject) ==
    /\ Len(errs) < Cap
    /\ errs' = Append(errs, subject)

\* Seeded fault: a refused connection is not reported.
ForgetRefusal(t) == UNCHANGED errs

SendRefusal(t) == SendError(t)

ReportRefusal(t) ==
    /\ Move(t, "refused", "end")
    /\ SendRefusal(t)
    /\ UNCHANGED <<mainVars, writer, dones, listVars, socket>>

(* The error is reported as the client's own, and the goroutine goes on to *)
(* report that it is done.                                                 *)
ReportBad(t) ==
    /\ Move(t, "bad", "quit")
    /\ SendError(Client)
    /\ UNCHANGED <<mainVars, writer, dones, listVars, socket>>

ReportDone(t) ==
    /\ Move(t, "quit", "end")
    /\ Len(dones) < Cap
    /\ dones' = Append(dones, t)
    /\ UNCHANGED <<mainVars, writer, errs, listVars, socket>>

-----------------------------------------------------------------------------
(* The writer goroutine and the peer *)

(* A write fails once the peer has left or the socket is closed. *)
WriteFails(t) ==
    /\ writer[t] = "up" /\ t \in Chatty
    /\ socket[t] \in {"left", "closed"}
    /\ writer' = [writer EXCEPT ![t] = "failed"]
    /\ UNCHANGED <<mainVars, conn, chanVars, listVars, socket>>

ReportWriteError(t) ==
    /\ writer[t] = "failed"
    /\ SendError(Client)
    /\ writer' = [writer EXCEPT ![t] = "end"]
    /\ UNCHANGED <<mainVars, conn, dones, listVars, socket>>

Leave(t) ==
    /\ socket[t] = "open"
    /\ socket' = [socket EXCEPT ![t] = "left"]
    /\ UNCHANGED <<mainVars, conn, writer, chanVars, listVars>>

(* CHOKED and NOT_INTERESTED close the connection from its own handler,    *)
(* which may run after the listening has ended.                            *)
CloseOnChoke(t) ==
    /\ IsOpen(t)
    /\ conn[t] \in {"listen", "bad", "quit", "end"}
    /\ socket' = [socket EXCEPT ![t] = "closed"]
    /\ UNCHANGED <<mainVars, conn, writer, chanVars, listVars>>

ConnectWithPeer(t) ==
    \/ DialFails(t) \/ DialSucceeds(t) \/ Register(t)
    \/ StopListening(t) \/ ListenFails(t)
    \/ ReportRefusal(t) \/ ReportBad(t) \/ ReportDone(t)

Writer(t) == WriteFails(t) \/ ReportWriteError(t)

MainLoop ==
    \/ RefuseEmptyList \/ StartWaiting \/ TakeError \/ TakeDone \/ Return
    \/ \E t \in Peers : Launch(t)

(* When the main loop returns, the process exits. *)
Ended == main \in {"returned", "refused"}

Next ==
    /\ ~Ended
    /\ \/ MainLoop
       \/ \E t \in Peers : ConnectWithPeer(t) \/ Writer(t) \/ Leave(t) \/ CloseOnChoke(t)
    /\ UNCHANGED targets

Spec == Init /\ [][Next]_vars

-----------------------------------------------------------------------------
(* Properties *)

\* Connections of the launched peers whose report is still to come.
Running == {t \in Peers : conn[t] \notin {"idle", "end"}}

Complaints == {i \in DOMAIN errs : errs[i] = Client}

(* Type invariant: the main loop never counts below zero (it stops at      *)
(* exactly zero), and the channels keep to their capacity.                 *)
TypeOK ==
    /\ targets \subseteq Peers
    /\ main \in {"idle", "launch", "wait", "returned", "refused"}
    /\ remaining \in Nat /\ blamed \in Nat
    /\ conn \in [Peers -> ConnStates]
    /\ writer \in [Peers -> WriterStates]
    /\ errs \in Seq(Peers \cup {Client}) /\ dones \in Seq(Peers)
    /\ Len(errs) <= Cap /\ Len(dones) <= Cap
    /\ list \in Seq(Peers) /\ copy \in [Peers -> Seq(Peers)]
    /\ socket \in [Peers -> {"none", "open", "left", "closed"}]

(* peersRemaining is off by exactly the errors that were blamed on the     *)
(* client: every other report is the only one of its peer.  So the loop    *)
(* never waits for a report that nobody will send.                         *)
RemainingIsExact ==
    remaining + blamed =
        Cardinality(Running) + Len(dones) + Len(errs) - Cardinality(Complaints)
=============================================================================
