CONSTANTS
    MaxCreated = 2
    Threads = {t1, t2}
    Styles = {"plain", "deaf", "quiet", "escaped"}
    MaxOdd = 1
    Faults = {"reader", "ttl"}
    MaxFaults = 1
    MaxSessions = 1
SPECIFICATION FairSpec
INVARIANTS TableBounds FreedAfterReader KillEndsShell ShutdownEndsSessions
PROPERTIES CallsEnd
