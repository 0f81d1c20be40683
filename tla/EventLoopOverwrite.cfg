SPECIFICATION Spec
CONSTANTS
    c1 = c1
    c2 = c2
    c3 = c3
    N = 1
    Cmds = {c1, c2, c3}
    Tools = {t1}
    Submits = {}
    Before <- Unordered
    Syncs = {}
    Events = {}
    MaxEvents = 0
    MaxCancels = 0
    None = None
    Cancel = Cancel
    Crash = Crash
PROPERTIES HeldNotReplaced
