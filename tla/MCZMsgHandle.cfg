SPECIFICATION FairSpec
CONSTANTS
    Conns = {0, 2, 4}
    PoolSize = 2
    MaxReqs = 2
    QueueCap = 1
INVARIANT OneWorkerPerConn
PROPERTY RequestsHandled
CHECK_DEADLOCK FALSE
