SPECIFICATION DialFairSpec
CONSTANT Dialers = {d1, d2}
INVARIANT ReturnedIsOpen
PROPERTIES FailureReleases MakerEnds
CHECK_DEADLOCK FALSE
