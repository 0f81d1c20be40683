CONSTANTS
    Scenarios <- MCScenarios
    MaxBuf = 22
    SlackMax = 12
    HeadBytes = 3
    TailBytes = 3
    Window = 3
    Base = 10
    MarkerLen = 1
    FlagsLen = 1
    FooterLen = 1
    Budgets = {9, 11, 30, 46}
    MaxStream = 4
    StreamKinds = {"p", "n", "z", "l", "c"}
SPECIFICATION FairSpec
INVARIANTS FramingExact ProtocolKept BudgetKept
PROPERTIES LoopEnds
