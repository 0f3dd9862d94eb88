----------------------------- MODULE PieceLedger -----------------------------
(***************************************************************************)
(* What the download routine promises about pieces, with no queue, no      *)
(* message and no timer: a piece is claimed by at most one connection,     *)
(* never changes hands afterwards, and is finished only once it has been   *)
(* claimed.  Download implements this specification.                       *)
(***************************************************************************)
CONSTANTS Pieces, Conns, NoConn

VARIABLES
    owner,      \* owner[p]: the connection that claimed p
    finished    \* the pieces declared done

vars == <<owner, finished>>

Init ==
    /\ owner = [p \in Pieces |-> NoConn]
    /\ finished = {}

Claim(p, c) ==
    /\ owner[p] = NoConn
    /\ owner' = [owner EXCEPT ![p] = c]
    /\ UNCHANGED finished

Finish(p) ==
    /\ owner[p] # NoConn
    /\ finished' = finished \cup {p}
    /\ UNCHANGED owner

Next == \E p \in Pieces : Finish(p) \/ \E c \in Conns : Claim(p, c)

Spec == Init /\ [][Next]_vars
=============================================================================
