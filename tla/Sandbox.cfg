CONSTANTS
    b1 = b1
    b2 = b2
    Boxes <- MCBoxes
    Starts <- MCStarts
    MaxFaults = 1
    MaxUser = 1
SPECIFICATION Spec
INVARIANTS HostKept WorkKept StartsUnlessBlocked
PROPERTIES StopIsHonoured
