CONSTANTS
    Slots = {p1, p2}
    Replicas = 1
    RestartCap = 2
    Count = 1
    max_restarts = 2
    Verifications <- Declared
    TimeoutSeconds = 3
    PollSeconds = 2
    ReadSeconds = 1
    Faults = {"empty", "timeout"}
SPECIFICATION FairSpec
CHECK_DEADLOCK FALSE
INVARIANTS TypeOK QuietRoundIsExact RightInTimePasses NoPassUnanswered
INVARIANTS GradingBounded
PROPERTIES GradingEnds
