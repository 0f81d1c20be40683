SPECIFICATION Spec
CONSTANTS
    c1 = c1
    c2 = c2
    c3 = c3
    N = 2
    Cmds = {c1, c2, c3}
    Tools = {}
    Submits = {}
    Before <- Unordered
    Syncs = {}
    Events = {"crash_busy", "crash_idle", "fork", "detach", "eintr", "sigterm", "overflow", "pollfail"}
    MaxEvents = 2
    MaxCancels = 2
    None = None
    Cancel = Cancel
    Crash = Crash
SYMMETRY IdSymmetry
INVARIANTS SocketDiscipline KillsOnlyCancelled Accounting
