SPECIFICATION Spec
CONSTANTS
    c1 = c1
    c2 = c2
    c3 = c3
    N = 1
    Cmds = {c1, c2}
    Tools = {t1, t2}
    Submits = {t1, t2}
    Before <- SyncsFirst
    Syncs = {s1}
    Events = {"nofd", "throw", "unread", "crash_busy", "eintr", "pollfail"}
    MaxEvents = 1
    MaxCancels = 1
    None = None
    Cancel = Cancel
    Crash = Crash
SYMMETRY IdSymmetry
INVARIANTS OneOutcome Accounting 
