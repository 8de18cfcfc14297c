CONSTANTS
    u1 = u1
    u2 = u2
    u3 = u3
    f1 = f1
    Upstreams <- MCUpstreams
    Fallbacks <- MCFallbacks
    Threads = {t1}
    MaxRtt = 1
    NoEntry = NoEntry

SPECIFICATION Spec

INVARIANT TypeOK
INVARIANT SortedBySnapshot
PROPERTY CallReturns
