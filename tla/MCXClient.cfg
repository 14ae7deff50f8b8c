SPECIFICATION FairSpec
CONSTANTS
    Addrs = {a1, a2}
    Callers = {t1}
    MaxDials = 3
    None = None
INVARIANTS CachedIsUnclosed BroadcastKeepsFirst
PROPERTY ErrorEndsBroadcast
