CONSTANTS
    Slots = {p1, p2}
    Replicas = 1
    RestartCap = 3
    Count = 1
    max_restarts = 2
    Verifications <- Stable
    TimeoutSeconds = 4
    PollSeconds = 2
    ReadSeconds = 1
    Faults = {}
SPECIFICATION Spec
CHECK_DEADLOCK FALSE
INVARIANTS CrashLoopNeverPasses
