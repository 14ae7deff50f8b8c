SPECIFICATION FairSpec
CONSTANTS
    Servers = {1, 2}
    Timeout = 5
    MaxAge = 6
    Period = 2
    Delay = 1
INVARIANT BeatsInTime
PROPERTIES BeatingIsListed SilentIsForgotten
