SPECIFICATION ConnFairSpec
CONSTANTS
    MaxMsgs = 3
    Kinds = {"msg", "big"}
    Ends = {"fin", "mid", "rst"}
    Handlers = {"reply", "quiet", "stop"}
    MaxTasks = 1
INVARIANT CrashNeedsStop
PROPERTY PeerEndEndsConnection
CHECK_DEADLOCK FALSE
