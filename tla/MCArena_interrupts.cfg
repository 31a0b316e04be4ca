CONSTANTS
    Sweeps = {s1, s2}
    Runs = 2
    Keepers = {s2}
    MaxPresses = 1
    MintNames = {a1, a2}
    ArenaNames = {a1, a2, arenaDev}
    Names = {a1, a2, arenaDev, mine}
    UserClusters = {arenaDev, mine}
    User = User
    Nobody = Nobody
    Collisions = TRUE
    Cleaners = {}
    Faults = {"create", "kubectl", "driver", "grader"}
SPECIFICATION FairSpec
INVARIANTS NeverAnothersCluster GradesRestOnOwnCluster OneClusterPerSweep
INVARIANTS OnlyWindowsLeak
PROPERTIES InterruptStopsSweep ImplementsLedger NothingLeftBehind
