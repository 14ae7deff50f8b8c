SPECIFICATION FairSpec
CONSTANTS
    MaxReqs = 2
    Options = {"good", "timed", "json", "magic", "codec"}
    Methods = {"ok", "unknown", "nonptr", "badreply"}
    BodyKinds = {"match", "mismatch", "missing"}
    Eager = TRUE
    Garbage = TRUE
INVARIANTS AnsweredOnce FramesPaired ClosedMeansAnswered LeakOnlyOnTimeout
PROPERTIES HangupEndsServeConn SentIsAnswered
CHECK_DEADLOCK FALSE
