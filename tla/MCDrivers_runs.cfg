CONSTANTS
    MaxTurns = 3
    MaxSeconds = 4
    MaxRetries = 2
    RequestSeconds = 1
    CallSeconds = 1
    Undecodable = TRUE
    Fallback = 2
    Hints = {0}
    MaxBatch = 4
    MaxScript = 4
    Kinds = {"noop", "solution", "gemini"}
SPECIFICATION FairSpec
CHECK_DEADLOCK FALSE
INVARIANTS TypeOK NoSilentFailure NothingDropped HistoryWellFormed
INVARIANTS OverrunBounded WholeScript
PROPERTIES ImplementsAgent Terminates
