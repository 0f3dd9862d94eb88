------------------------------ MODULE Announce ------------------------------
(***************************************************************************)
(* GetPeers and QueryAnnounceUrls: the announce URLs of a torrent are      *)
(* asked in turn until one gives a valid answer.  All answers are decoded  *)
(* into one record, which keeps what an invalid one has left in it.        *)
(***************************************************************************)
EXTENDS Naturals, Sequences, SequencesExt, Order

CONSTANTS
    Urls,       \* announce URLs
    Http,       \* those that begin with "http"
    Malformed,  \* those http.NewRequest refuses
    Silent,     \* those whose server accepts and never answers
    Named,      \* Named[u]: lists of peers u's server gives, each a set of entries
    MetaInfos   \* torrents: records [announce, announceList, urlList]

ASSUME AnnounceAssumption ==
    /\ Http \subseteq Urls /\ Malformed \subseteq Http /\ Silent \subseteq Http
    /\ DOMAIN Named = Urls
    /\ \A m \in MetaInfos :
           /\ m.announce \in Urls /\ m.urlList \in Seq(Urls)
           /\ m.announceList \in Seq(Seq(Urls))

VARIABLES
    metainfo,   \* the torrent
    pending,    \* usable URLs that were not asked yet
    body,       \* decodedRespBody: [failure, peers]
    found,      \* foundValidResp
    asked,      \* the servers asked, with what each has put into body
    query       \* "idle", "asking", how it ended, "returned"

queryVars == <<pending, body, found, asked>>
announceVars == <<metainfo, queryVars, query>>

Empty == [failure |-> FALSE, peers |-> {}]

Outcomes == {"ok", "failure", "noAnswer", "noUrl", "badUrl", "panic"}

AnnounceInit ==
    /\ metainfo \in MetaInfos
    /\ pending = <<>> /\ body = Empty /\ found = FALSE /\ asked = <<>>
    /\ query = "idle"

\* Seeded fault: the URLs of the last list are left out.
WithoutUrlList ==
    <<metainfo.announce>> \o [i \in DOMAIN metainfo.announceList |->
                                  Head(metainfo.announceList[i])]

(* The main URL, the first of every tier, and the web seeds. *)
AnnounceUrls ==
    <<metainfo.announce>> \o
    [i \in DOMAIN metainfo.announceList |-> Head(metainfo.announceList[i])] \o
    metainfo.urlList

Usable(urls) == Only(urls, Http)

(* l[0] of an empty tier is out of range. *)
GetPeers ==
    /\ query = "idle"
    /\ IF \E i \in DOMAIN metainfo.announceList : metainfo.announceList[i] = <<>>
       THEN query' = "panic" /\ UNCHANGED pending
       ELSE /\ pending' = Usable(AnnounceUrls)
            /\ query' = IF pending' = <<>> THEN "noUrl" ELSE "asking"
    /\ UNCHANGED <<metainfo, body, found, asked>>

(* Unmarshal sets a field that is there and appends to the peers; fields   *)
(* that are not there keep their value.  What a server names when it is    *)
(* asked again are entries of their own, see Given.                        *)
Decode(answer) ==
    [failure |-> body.failure \/ answer.failure, peers |-> body.peers \cup answer.peers]

Ask(u, answer) ==
    /\ query = "asking" /\ ~found
    /\ pending # <<>> /\ u = Head(pending)
    /\ pending' = Tail(pending)
    /\ body' = Decode(answer)
    /\ asked' = Append(asked, [url |-> u, answer |-> answer])
    /\ UNCHANGED metainfo

(* One URL that cannot be parsed ends the query. *)
AskMalformed ==
    \E u \in Malformed :
        /\ Ask(u, Empty)
        /\ query' = "badUrl"
        /\ UNCHANGED found

(* The client has no timeout: a server that does not answer is waited for. *)
Answering == Http \ (Malformed \cup Silent)

Given(u) == {{}} \cup {entries \in Named[u] : entries \cap body.peers = {}}

(* No connection, a status of 300 or more, or an answer that is cut off or *)
(* has bytes after its end: such a one is decoded up to there, and then    *)
(* refused.  The next URL is asked.                                        *)
AskInVain ==
    \E u \in Answering :
        \E answer \in [failure : BOOLEAN, peers : Given(u)] :
            /\ Ask(u, answer)
            /\ UNCHANGED <<found, query>>

(* An entry of the peers that is no dictionary, or whose address or port   *)
(* is missing or of another type, fails a type assertion; the decoder      *)
(* raises that panic again.                                                *)
AskMistyped ==
    \E u \in Answering :
        /\ Ask(u, Empty)
        /\ query' = "panic"
        /\ UNCHANGED found

AskAnswered ==
    \E u \in Answering :
        \E answer \in [failure : BOOLEAN, peers : Given(u)] :
            /\ Ask(u, answer)
            /\ found' = TRUE
            /\ UNCHANGED query

\* Seeded fault: whether an answer was valid is not looked at.
ConcludeUnchecked == IF body.failure THEN "failure" ELSE "ok"

\* Seeded fault: an answer that names no peers counts as none.
ConcludeOnPeers ==
    IF body.failure THEN "failure" ELSE IF body.peers # {} THEN "ok" ELSE "noAnswer"

(* The failure reason is looked at before whether there was an answer. *)
Conclusion ==
    IF body.failure THEN "failure" ELSE IF found THEN "ok" ELSE "noAnswer"

Conclude ==
    /\ query = "asking"
    /\ found \/ pending = <<>>
    /\ query' = Conclusion
    /\ UNCHANGED <<metainfo, queryVars>>

AnnounceNext ==
    \/ GetPeers \/ Conclude
    \/ AskMalformed \/ AskInVain \/ AskMistyped \/ AskAnswered

-----------------------------------------------------------------------------
(* Properties *)

(* The query returns peers only when a server has given a valid answer     *)
(* without a failure reason, and then it returns all that this one named.  *)
SuccessIsAnAnswer ==
    query = "ok" =>
        /\ found
        /\ ~Last(asked).answer.failure
        /\ Last(asked).answer.peers \subseteq body.peers

(* "If we get one good response, it is decoded ... and returned": unless   *)
(* an invalid one before it has left its failure reason in decodedRespBody. *)
GoodAnswerReturned ==
    query \in Outcomes /\ found /\ ~Last(asked).answer.failure =>
        \/ query = "ok"
        \/ \E i \in 1 .. Len(asked) - 1 : asked[i].answer.failure

(* However the query ends, but for a crash, every server the torrent names *)
(* by HTTP was asked (the main one, the first of each tier and the web     *)
(* seeds), unless one has given a valid answer or one of the URLs is       *)
(* malformed: the first such that is reached ends the query, whatever the  *)
(* servers after it would answer.                                          *)
NobodySkipped ==
    query \in Outcomes \ {"panic"} =>
        LET named == {metainfo.announce} \cup ToSet(metainfo.urlList) \cup
                     {tier[1] : tier \in ToSet(metainfo.announceList)}
            urls == {asked[i].url : i \in DOMAIN asked}
        IN  /\ urls \subseteq named \cap Http
            /\ urls = named \cap Http \/ found \/ query = "badUrl"
            /\ query = "badUrl" <=> urls \cap Malformed # {}
=============================================================================
