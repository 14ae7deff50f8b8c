SPECIFICATION FairSpec
CONSTANTS
    g1 = g1
    g2 = g2
    s1 = s1
    shared = shared
    own1 = own1
    NoCall = NoCall
    Calls = {g1, g2, s1}
    Sync = {s1}
    Deadline = {s1}
    Chans = {shared, own1}
    Body <- MixedBody
    ChanOf <- MixedChan
    Cap <- RoomyCap
    MaxSeq = 3
    Answers <- MixedAnswers
    MaxAnswers = 1
INVARIANTS TypeOK NotifiedOnce NoCallLost ExitNotifiesAll
PROPERTIES ClosedCompletes NoWriteAfterShutdown
CHECK_DEADLOCK FALSE
