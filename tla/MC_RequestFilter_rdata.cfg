CONSTANTS
    V4 <- MCV4
    V6 <- MCV6
    BlockingIps <- MCBlockingIps
    h4a = h4a
    h4b = h4b
    h6a = h6a
    c4a = c4a
    c6a = c6a
    Zero4 = Zero4
    Zero6 = Zero6
    NoIp = NoIp
    None = None
    t1 = t1
    a1 = a1
    x1 = x1
    p1 = p1
    pBad = pBad
    Settings <- MCSettings
    Names = {n1}
    MozillaHost = "use-application-dns.net"
    Matches <- MCMatches
    Answers <- MCAnswers
    AAnswers <- MCAAnswers
    PrefixLists <- MCPrefixLists
    BadPrefixes = {pBad}
    NumUpstreams = 2
    MaxTries = 2

SPECIFICATION Spec

INVARIANT OneAddressPerRR


\* One request is handled and the discovery thread ends: the final states
\* are the end of the computation.
CHECK_DEADLOCK FALSE
