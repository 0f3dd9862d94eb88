------------------------------ MODULE MCClient ------------------------------
(* An instance of Client: two trackers that name three peers between them, *)
(* the second with another entry when it is asked again, and torrents that *)
(* name the trackers in different places.                                  *)
EXTENDS Client, TLC

CONSTANTS p1, p2, p3, u1, u2, u3, u4, dht

NamedBy ==
    (u1 :> {{p1, p2}}) @@ (u2 :> {{p3}, {p2}}) @@ (u3 :> {}) @@ (u4 :> {}) @@ (dht :> {})

Torrent(announce, tiers, seeds) ==
    [announce |-> announce, announceList |-> tiers, urlList |-> seeds]

(* One tracker and a fallback; one tracker named twice; a list of tiers,   *)
(* of which one is a DHT node's and the last one's tracker never answers;  *)
(* a malformed URL before a tracker; only a DHT node; an empty tier.       *)
Trackers ==
    {Torrent(u1, <<>>, <<u2>>),
     Torrent(u2, <<<<u2>>>>, <<>>),
     Torrent(dht, <<<<u2, u1>>, <<dht>>, <<u3>>>>, <<>>),
     Torrent(u2, <<<<u4>>>>, <<u1>>),
     Torrent(dht, <<>>, <<>>),
     Torrent(u1, <<<<>>>>, <<>>)}
=============================================================================
