\* Two caller threads, the A and AAAA keys of one name and the canary,
\* a one-entry cache, two ticks per second over four ticks.  Both
\* settings: optimistic cache on, and off with block_ipv6 on.
CONSTANTS
    Keys <- MCKeys
    Responses <- MCResponses
    CacheSize = 1
    TicksPerSec = 2
    MaxTime = 4
    U32Max = 3
    NoEntry = NoEntry
    Failure = Failure
    Threads = {t1, t2}
    MozillaHost = "use-application-dns.net"
    Settings <- MCSettings
    Dns64 = TRUE
    QTypes = {1, 28}
    QClasses = {1}
    Bytes = {"a", "A"}
    ToLower <- MCLower
    MaxLabel = 1
    MaxLabels = 1

SPECIFICATION Spec

INVARIANT TypeOK
INVARIANT EventOncePerRequest
INVARIANT ServedTtlSound
PROPERTY CacheRefinesSpec

\* After deinit the forwarder serves nothing more, and a dead process
\* takes no step: neither end is a deadlock of the code.
CHECK_DEADLOCK FALSE
