CONSTANTS
    MaxCalls = 2
    MaxIn = 1
    MaxOut = 2
    MaxSignals = 1
SPECIFICATION FairSpec
INVARIANTS OwnReply MissedOnlyIfCut
PROPERTIES CallsEnd
