SPECIFICATION LogSpec
CONSTANTS
    Limit = 2
    SlackMin = 1
    MaxTotal = 6
    Readers = {r1, r2}
INVARIANTS RingAccounting ReadersExact
