SPECIFICATION TablesSpec
CONSTANTS
    Searched <- Pairs
    Magics <- Numbers
    Index <- Hash
    MaxAttempts = 2
    MaxRetries = 2
INVARIANTS
    EnumeratesBlockers
    LookupsAreWalks
CHECK_DEADLOCK FALSE
