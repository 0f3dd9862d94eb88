\* Two trackers that answer, one that never does (u3), one that cannot be parsed
\* (u4) and a DHT node; three peers, of which two are tried.
CONSTANTS
    p1 = p1
    p2 = p2
    p3 = p3
    u1 = u1
    u2 = u2
    u3 = u3
    u4 = u4
    dht = dht
    Urls = {u1, u2, u3, u4, dht}
    Http = {u1, u2, u3, u4}
    Malformed = {u4}
    Silent = {u3}
    Named <- NamedBy
    MetaInfos <- Trackers
    Peers = {p1, p2, p3}
    Client = client
    Limit = 1
    Cap = 2
    Rude = {p1, p2}
    Chatty = {p1, p2}
SPECIFICATION FairSpec
CHECK_DEADLOCK FALSE
INVARIANTS
    TypeOK
    RemainingIsExact
    SuccessIsAnAnswer
    GoodAnswerReturned
    NobodySkipped
    ZeroMeansTried
PROPERTIES
    EventuallyExits
