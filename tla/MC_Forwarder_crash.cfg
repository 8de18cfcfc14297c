\* Optimistic cache on, one tick per second: an entry stored at 0 with
\* a one-second TTL is expired at 1, and the next hit on it queues a refresh.
CONSTANTS
    Keys <- MCKeys
    Responses <- MCResponses
    CacheSize = 1
    TicksPerSec = 1
    MaxTime = 2
    U32Max = 3
    NoEntry = NoEntry
    Failure = Failure
    Threads = {t1, t2}
    MozillaHost = "use-application-dns.net"
    Settings <- MCOptimistic
    Dns64 = TRUE
    QTypes = {1, 28}
    QClasses = {1}
    ToLower <- MCLower
    Bytes = {"a", "A"}
    MaxLabel = 1
    MaxLabels = 1

SPECIFICATION Spec

INVARIANT ForwarderAlive

\* After deinit the forwarder serves nothing more.
CHECK_DEADLOCK FALSE
