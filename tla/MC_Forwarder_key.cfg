\* The cache key over every question of up to two labels of up to three
\* bytes among a, A and the dot byte, of two types, with DO and CD.
CONSTANTS
    Keys <- MCKeys
    Responses <- MCResponses
    CacheSize = 1
    TicksPerSec = 1
    MaxTime = 2
    U32Max = 3
    NoEntry = NoEntry
    Failure = Failure
    Threads = {t1, t2}
    MozillaHost = "use-application-dns.net"
    Settings <- MCOptimistic
    Dns64 = TRUE
    QTypes = {1, 28}
    QClasses = {1}
    ToLower <- MCLower
    Bytes = {"a", "A", "."}
    MaxLabel = 3
    MaxLabels = 2

SPECIFICATION Spec

INVARIANT CacheKeyIsFingerprint

\* After deinit the forwarder serves nothing more.
CHECK_DEADLOCK FALSE
