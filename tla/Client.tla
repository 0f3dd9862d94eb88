------------------------------- MODULE Client -------------------------------
(***************************************************************************)
(* downloadTorrent: the torrent's trackers are asked for peers, and        *)
(* ConnectWithAllPeers is called with what they named.  What it returns    *)
(* decides the exit code.                                                  *)
(***************************************************************************)
EXTENDS Announce, Connections

ASSUME ClientAssumption == \A u \in Urls : Named[u] \subseteq SUBSET Peers

clientVars == <<announceVars, vars>>

ClientInit ==
    /\ AnnounceInit
    /\ InitAt("idle") /\ targets = {}

(* The variables of the query go with it. *)
StartConnecting ==
    /\ query = "ok" /\ main = "idle"
    /\ main' = "launch"
    /\ targets' = body.peers
    /\ query' = "returned"
    /\ pending' = <<>> /\ body' = Empty /\ found' = FALSE /\ asked' = <<>>
    /\ UNCHANGED <<metainfo, remaining, blamed, conn, writer, chanVars, listVars, socket>>

ClientNext ==
    \/ AnnounceNext /\ UNCHANGED vars
    \/ StartConnecting
    \/ main # "idle" /\ Next /\ UNCHANGED announceVars

\* Seeded fault: an empty list of peers is not an error.
ExitIgnoringPeers ==
    IF query = "panic" THEN 2
    ELSE IF query \in Outcomes \ {"ok"} THEN 1 ELSE 0

ExitCode ==
    IF query = "panic" THEN 2
    ELSE IF query \in Outcomes \ {"ok"} \/ main = "refused" THEN 1 ELSE 0

(* The connection of a peer that neither leaves nor is left: nothing ends  *)
(* the reading, for read timeouts are ignored while downloading.           *)
Lingering(t) == conn[t] = "listen" /\ socket[t] = "open"

(* A server that answers does so in the end; goroutines run; a dial ends,  *)
(* it has a timeout of its own; a connection that was closed at either end *)
(* is read up to there.  A peer need not do anything.                      *)
Fairness ==
    /\ WF_clientVars(AnnounceNext /\ UNCHANGED vars)
    /\ WF_clientVars(StartConnecting)
    /\ WF_clientVars(MainLoop /\ UNCHANGED <<targets, announceVars>>)
    /\ \A t \in Peers :
           WF_clientVars(~Ended /\ ~Lingering(t) /\ ConnectWithPeer(t)
                             /\ UNCHANGED <<targets, announceVars>>)

ClientSpec == ClientInit /\ [][ClientNext]_clientVars

FairSpec == ClientSpec /\ Fairness
-----------------------------------------------------------------------------
(* Properties *)

Exited == Ended \/ query \in Outcomes \ {"ok"}

(* The program exits: no report is lost in a full channel, and the         *)
(* countdown does not miss zero.  What can keep it running is a server     *)
(* that never answers, for the HTTP client has no timeout, and a peer that *)
(* keeps its connection open, or has vanished without closing it.          *)
EventuallyExits ==
    <>[](\/ Exited
         \/ query = "asking" /\ pending # <<>> /\ Head(pending) \in Silent
         \/ \E t \in Peers : Lingering(t))

(* The exit code is 0 only when some peer was tried and all that were have *)
(* been heard of, but for what errors blamed on the client left uncounted. *)
ZeroMeansTried ==
    Exited /\ ExitCode = 0 =>
        /\ \E t \in targets : conn[t] # "idle"
        /\ Cardinality(Running) <= blamed
=============================================================================
