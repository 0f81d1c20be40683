SPECIFICATION FairSpec
CONSTANTS
    HasTimeout = TRUE
    Cap = 1
    PipeSize = 1
    MaxWrite = 2
    Faults = {"start", "poll", "eintr"}
INVARIANTS KilledGroupIsGone NothingLostSilently CleanReturn
PROPERTIES EndsUnlessEvaded
