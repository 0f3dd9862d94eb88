------------------------------ MODULE Listener ------------------------------
(***************************************************************************)
(* The accept side: ListenForPeers' loop takes connections, lists them and *)
(* starts three goroutines for each; Peer.Close walks the list and closes  *)
(* the listener, while the loop may still be adding to it.                 *)
(***************************************************************************)
EXTENDS Naturals, Sequences, FiniteSets, SequencesExt

CONSTANTS
    Remotes,    \* peers that connect
    Slow,       \* those for which the functions take their time, or fail
    Funcs,      \* those of OnConnectFunc and SendHandshakeFunc that are set
    Cap,        \* capacity of errChan
    MaxCloses   \* bound: calls of Peer.Close

ASSUME ListenerAssumption ==
    /\ IsFiniteSet(Remotes) /\ Slow \subseteq Remotes
    /\ Funcs \subseteq {"onConnect", "sendHandshake"}
    /\ Cap \in Nat \ {0} /\ MaxCloses \in Nat

VARIABLES
    listener,   \* "none", "open", "closed"
    accept,     \* the accept loop: "idle", "accept", "add", "report", "end", "panic"
    current,    \* the connection it has just accepted
    sock,       \* sock[r]: "none", "waiting", "open", "left" (by r), "closed"
    list,       \* PeerConnections
    talk,       \* talk[r]: listenForMessages of r's connection
    step,       \* step[r][f]: the goroutine of f for r's connection
    err,        \* err[r]: the loop's err, which r's goroutines share
    errs,       \* errChan
    closing,    \* Peer.Close: "idle", "walk", "ok", "failed"
    snapshot,   \* the list it ranges over
    at,         \* where in it
    closes,     \* how many calls so far
    choked,     \* history: connections closed by their own handler
    result,     \* history: result[r][f], what f has returned
    overlap     \* history: one goroutine set err[r] before the other was done with it

loopVars == <<listener, accept, current, list>>
funcVars == <<step, err, result, overlap>>
closeVars == <<closing, snapshot, at, closes>>
vars == <<loopVars, sock, talk, funcVars, errs, closeVars, choked>>

PerFunc(value) == [r \in Remotes |-> [f \in Funcs |-> value]]

Init ==
    /\ listener = "none" /\ accept = "idle" /\ current = {} /\ list = <<>>
    /\ sock = [r \in Remotes |-> "none"] /\ talk = [r \in Remotes |-> "idle"]
    /\ step = PerFunc("idle") /\ result = PerFunc("nil")
    /\ err = [r \in Remotes |-> "nil"] /\ overlap = [r \in Remotes |-> FALSE]
    /\ errs = <<>> /\ choked = {}
    /\ closing = "idle" /\ snapshot = <<>> /\ at = 0 /\ closes = 0

IsOpen(r) == sock[r] \in {"open", "left"}

Held == {r \in Remotes : IsOpen(r)}

\* Seeded fault: one more than fits is taken.
SendOneMore(what) ==
    /\ Len(errs) <= Cap
    /\ errs' = Append(errs, what)

Send(what) ==
    /\ Len(errs) < Cap
    /\ errs' = Append(errs, what)

-----------------------------------------------------------------------------
(* ListenForPeers *)

ListenForPeers ==
    /\ listener = "none" /\ accept = "idle"
    /\ listener' = "open" /\ accept' = "accept"
    /\ UNCHANGED <<current, list, sock, talk, funcVars, errs, closeVars, choked>>

Accept(r) ==
    /\ accept = "accept" /\ listener = "open"
    /\ sock[r] = "waiting"
    /\ sock' = [sock EXCEPT ![r] = "open"]
    /\ accept' = "add" /\ current' = {r}
    /\ UNCHANGED <<listener, list, talk, funcVars, errs, closeVars, choked>>

(* The process may be out of descriptors, the more so as connections that  *)
(* ended keep theirs.  An error other than of a closed listener is passed  *)
(* over, and the connection that is not there is dereferenced.             *)
AcceptPanics ==
    /\ accept = "accept" /\ listener = "open"
    /\ \E r \in Remotes : sock[r] = "waiting"
    /\ accept' = "panic"
    /\ UNCHANGED <<listener, current, list, sock, talk, funcVars, errs, closeVars, choked>>

(* The rest of the iteration: append, and go. *)
Add ==
    /\ accept = "add"
    /\ \E r \in current :
           /\ list' = Append(list, r)
           /\ step' = [step EXCEPT ![r] =
                          [f \in Funcs |-> IF r \in Slow THEN "run" ELSE "end"]]
           /\ talk' = [talk EXCEPT ![r] = "listen"]
    /\ accept' = "accept" /\ current' = {}
    /\ UNCHANGED <<listener, sock, err, result, overlap, errs, closeVars, choked>>

\* Seeded fault: the error of a closed listener is taken for a passing one.
TryAgain == "accept"

AfterClosed == "report"

AcceptClosed ==
    /\ accept = "accept" /\ listener = "closed"
    /\ accept' = AfterClosed
    /\ UNCHANGED <<listener, current, list, sock, talk, funcVars, errs, closeVars, choked>>

ReportClosed ==
    /\ accept = "report"
    /\ Send("error")
    /\ accept' = "end"
    /\ UNCHANGED <<listener, current, list, sock, talk, funcVars, closeVars, choked>>

AcceptLoop ==
    AcceptPanics \/ Add \/ AcceptClosed \/ ReportClosed \/ \E r \in Remotes : Accept(r)

-----------------------------------------------------------------------------
(* The goroutines of a connection *)

Others(f) == Funcs \ {f}

(* err = OnConnectFunc(...): the variable is the iteration's, not the      *)
(* goroutine's.                                                            *)
FuncReturns(r, f) ==
    /\ step[r][f] = "run"
    /\ step' = [step EXCEPT ![r][f] = "check"]
    /\ \E e \in {"nil", f} :
           /\ err' = [err EXCEPT ![r] = e]
           /\ result' = [result EXCEPT ![r][f] = e]
    /\ overlap' = [overlap EXCEPT ![r] =
                      @ \/ \E g \in Others(f) : step[r][g] \in {"check", "send"}]
    /\ UNCHANGED <<loopVars, sock, talk, errs, closeVars, choked>>

\* Seeded fault: the function's result goes to a variable that shadows err.
Shadowed(r, f) == FALSE

Failed(r, f) == err[r] # "nil"

CheckErr(r, f) ==
    /\ step[r][f] = "check"
    /\ step' = [step EXCEPT ![r][f] = IF Failed(r, f) THEN "send" ELSE "end"]
    /\ UNCHANGED <<loopVars, sock, talk, err, result, overlap, errs, closeVars, choked>>

(* err is read once more to be sent. *)
SendErr(r, f) ==
    /\ step[r][f] = "send"
    /\ Send(IF err[r] = "nil" THEN "nil" ELSE "error")
    /\ step' = [step EXCEPT ![r][f] = "end"]
    /\ UNCHANGED <<loopVars, sock, talk, err, result, overlap, closeVars, choked>>

(* listenForMessages: the end of the stream, a reset, a timeout or a       *)
(* closed connection is no error; anything else is.                        *)
StopListening(r) ==
    /\ talk[r] = "listen"
    /\ talk' = [talk EXCEPT ![r] = "end"]
    /\ UNCHANGED <<loopVars, sock, funcVars, errs, closeVars, choked>>

ListenFails(r) ==
    /\ talk[r] = "listen"
    /\ talk' = [talk EXCEPT ![r] = "bad"]
    /\ UNCHANGED <<loopVars, sock, funcVars, errs, closeVars, choked>>

ReportBad(r) ==
    /\ talk[r] = "bad"
    /\ Send("error")
    /\ talk' = [talk EXCEPT ![r] = "end"]
    /\ UNCHANGED <<loopVars, sock, funcVars, closeVars, choked>>

(* CHOKED and NOT_INTERESTED; a handler may outlive listenForMessages. *)
CloseOnChoke(r) ==
    /\ talk[r] # "idle" /\ IsOpen(r)
    /\ sock' = [sock EXCEPT ![r] = "closed"]
    /\ choked' = choked \cup {r}
    /\ UNCHANGED <<loopVars, talk, funcVars, errs, closeVars>>

-----------------------------------------------------------------------------
(* Peer.Close *)

StartClose ==
    /\ closing # "walk" /\ closes < MaxCloses
    /\ closing' = "walk" /\ snapshot' = list /\ at' = 1
    /\ closes' = closes + 1
    /\ UNCHANGED <<loopVars, sock, talk, funcVars, errs, choked>>

\* Seeded fault: the last connection is left out.
AtLast == at >= Len(snapshot)

AtEnd == at > Len(snapshot)

\* Seeded fault: a connection its peer has left cannot be closed either.
NotLeft(r) == sock[r] = "open"

CanClose(r) == IsOpen(r)

(* The first connection that is closed already ends the call. *)
CloseConn ==
    /\ closing = "walk" /\ ~AtEnd
    /\ IF CanClose(snapshot[at])
       THEN /\ sock' = [sock EXCEPT ![snapshot[at]] = "closed"]
            /\ at' = at + 1 /\ UNCHANGED closing
       ELSE closing' = "failed" /\ UNCHANGED <<sock, at>>
    /\ UNCHANGED <<loopVars, talk, funcVars, errs, snapshot, closes, choked>>

CloseListener ==
    /\ closing = "walk" /\ AtEnd
    /\ listener' = IF listener = "open" THEN "closed" ELSE listener
    /\ closing' = "ok"
    /\ UNCHANGED <<accept, current, list, sock, talk, funcVars, errs, snapshot, at, closes, choked>>

-----------------------------------------------------------------------------
(* The peers that connect, and the reader of errChan *)

Connect(r) ==
    /\ sock[r] = "none" /\ listener = "open"
    /\ sock' = [sock EXCEPT ![r] = "waiting"]
    /\ UNCHANGED <<loopVars, talk, funcVars, errs, closeVars, choked>>

Leave(r) ==
    /\ sock[r] = "open"
    /\ sock' = [sock EXCEPT ![r] = "left"]
    /\ UNCHANGED <<loopVars, talk, funcVars, errs, closeVars, choked>>

TakeErr ==
    /\ errs # <<>>
    /\ errs' = Tail(errs)
    /\ UNCHANGED <<loopVars, sock, talk, funcVars, closeVars, choked>>

Next ==
    /\ accept # "panic"
    /\ \/ ListenForPeers \/ AcceptLoop
       \/ StartClose \/ CloseConn \/ CloseListener \/ TakeErr
       \/ \E r \in Remotes :
              \/ StopListening(r) \/ ListenFails(r) \/ ReportBad(r) \/ CloseOnChoke(r)
              \/ Connect(r) \/ Leave(r)
              \/ \E f \in Funcs : FuncReturns(r, f) \/ CheckErr(r, f) \/ SendErr(r, f)

(* The goroutine of the accept loop runs; nobody has to read errChan. *)
Spec == Init /\ [][Next]_vars /\ WF_vars(accept # "panic" /\ AcceptLoop)

-----------------------------------------------------------------------------
(* Properties *)

(* Type invariant: no more reports wait than errChan holds, no connection  *)
(* is listed twice, and Close's walk ends with the list.                   *)
TypeOK ==
    /\ listener \in {"none", "open", "closed"}
    /\ accept \in {"idle", "accept", "add", "report", "end", "panic"}
    /\ current \subseteq Remotes /\ list \in Seq(Remotes) /\ IsInjective(list)
    /\ sock \in [Remotes -> {"none", "waiting", "open", "left", "closed"}]
    /\ talk \in [Remotes -> {"idle", "listen", "bad", "end"}]
    /\ step \in [Remotes -> [Funcs -> {"idle", "run", "check", "send", "end"}]]
    /\ err \in [Remotes -> {"nil"} \cup Funcs]
    /\ errs \in Seq({"nil", "error"}) /\ Len(errs) <= Cap
    /\ closing \in {"idle", "walk", "ok", "failed"}
    /\ snapshot \in Seq(Remotes) /\ at \in 0 .. Len(snapshot) + 1
    /\ closes \in 0 .. MaxCloses /\ choked \subseteq Remotes
    /\ result \in [Remotes -> [Funcs -> {"nil"} \cup Funcs]]
    /\ overlap \in [Remotes -> BOOLEAN]

(* Every error of OnConnectFunc and SendHandshakeFunc reaches errChan, and *)
(* nothing else does, unless the two overlap on their shared err: then one *)
(* that returns nil may hide or double the other's error.  When both fail, *)
(* two errors are sent even then.                                          *)
ErrorsTold ==
    [][\A r \in Remotes, f \in Funcs :
           step[r][f] # "end" /\ step'[r][f] = "end" /\ r \in Slow =>
               LET told == step[r][f] = "send"
               IN  /\ ~overlap[r] =>
                          IF result[r][f] = "nil" THEN ~told ELSE told /\ err[r] = f
                   /\ (\A g \in Funcs : result[r][g] = g) =>
                          told /\ Last(errs') = "error"]_vars

(* A Close that succeeds leaves open only connections the accept loop had  *)
(* not listed when it began; those stay with their readers, for no later   *)
(* Close gets past the ones closed already.                                *)
LeftOpen ==
    closing = "ok" => Held \cap ToSet(snapshot) = {}

(* Close gives up with the listener still open only when a connection was  *)
(* closed by its handler: never because its peer has left, or because of   *)
(* an earlier Close.                                                       *)
GivesUpOnlyForTheChoked ==
    closing = "failed" /\ listener = "open" => ToSet(snapshot) \cap choked # {}

(* "no new connections will be accepted and acceptConn() will return an    *)
(* error, short-circuiting the infinite for loop": once the listener is    *)
(* closed, unless errChan is full and nobody reads it.                     *)
AcceptLoopEnds ==
    listener = "closed" ~> (accept \in {"end", "panic"} \/ Len(errs) = Cap)
=============================================================================
