SPECIFICATION Spec
CONSTANTS
    None = None
    Users = {1, 2}
    Requests = {1, 2}
    Guesses = {1, 2}
    UserMax <- MCUserMax
    GlobalMax <- MCGlobalMax
    MaxAttempts = 1
INVARIANTS QuotaHolds OnlyMailCounts GuessesBounded
PROPERTIES RequestsEnd
CHECK_DEADLOCK FALSE
