SPECIFICATION FairSpec
CONSTANTS
    c1 = c1
    c2 = c2
    none = none
    Servers = {1, 2}
    Timeout = 2
    MaxAge = 4
    Callers = {c1, c2}
    UpdateTimeout = 1
    GetDelay = 1
    Lists <- HandLists
    Indices = {3}
    MaxReaders = 1
    MaxWait = 2
    NoCaller = none
INVARIANTS FreshWhenChosen RoundRobinIsFair
PROPERTY GetReturns
