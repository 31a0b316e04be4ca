CONSTANTS
    MaxTurns = 2
    MaxSeconds = 3
    MaxRetries = 2
    RequestSeconds = 1
    CallSeconds = 1
    Undecodable = FALSE
    Fallback = 2
    Hints = {0}
    MaxBatch = 1
    MaxScript = 4
    Kinds = {"gemini"}
SPECIFICATION Spec
CHECK_DEADLOCK FALSE
INVARIANTS NeverRaises
