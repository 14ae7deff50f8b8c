SPECIFICATION FairSpec
CONSTANTS
    Nodes = {"n1", "n2"}
    Users = {"u1", "u2"}
    Home <- MCHome
    Keys = {"k", "a b", "a+b"}
    DB = {"a b", "a+b"}
    Wire <- MCWire
    Hashes <- MCHashes
    RingSize = 8
    Replicas = 2
    PeerLists <- MCLists
    MaxHops = 2
    MaxFailures = 1
    None = None
    Err = "error"
INVARIANTS OwnerIsNearest CacheIsRight GetIsRight LoadedOnce
PROPERTY GetEnds
CHECK_DEADLOCK FALSE
