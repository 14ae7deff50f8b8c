SPECIFICATION FairSpec
CONSTANTS
    g1 = g1
    g2 = g2
    s1 = s1
    shared = shared
    own1 = own1
    NoCall = NoCall
    Calls = {s1}
    Sync = {s1}
    Deadline = {}
    Chans = {own1}
    Body <- SoloBody
    ChanOf <- SoloChan
    Cap <- SoloCap
    MaxSeq = 2
    Answers <- MixedAnswers
    MaxAnswers = 1
PROPERTY SyncReturns
CHECK_DEADLOCK FALSE
