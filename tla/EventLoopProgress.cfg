SPECIFICATION FairSpec
CONSTANTS
    c1 = c1
    c2 = c2
    c3 = c3
    N = 1
    Cmds = {c1, c2, c3}
    Tools = {}
    Submits = {}
    Before <- Ordered
    Syncs = {}
    Events = {"crash_busy", "crash_idle", "fork", "detach", "eintr", "overflow", "pollfail"}
    MaxEvents = 1
    MaxCancels = 1
    None = None
    Cancel = Cancel
    Crash = Crash
INVARIANTS DispatchInOrder
PROPERTIES ImplementsService Progress CancelTakesEffect
