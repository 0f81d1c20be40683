SPECIFICATION FairSpec
CONSTANTS
    N = 2
    MaxGen = 4
    Faults = {"wedge", "crash"}
INVARIANTS NoOrphanUnlessFault NoEscalation
PROPERTIES Cascade
