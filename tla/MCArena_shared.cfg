CONSTANTS
    Sweeps = {s1}
    Runs = 1
    Keepers = {}
    MaxPresses = 1
    MintNames = {a1, a2}
    ArenaNames = {a1, a2, arenaDev}
    Names = {a1, a2, arenaDev, mine}
    UserClusters = {arenaDev, mine}
    User = User
    Nobody = Nobody
    Collisions = FALSE
    Cleaners = {c1, c2}
    Faults = {"create", "createTimeout", "kubectl", "driver", "grader", "deleteNonzero", "deleteTimeout", "list", "cleanInterrupt"}
SPECIFICATION FairSpec
INVARIANTS TypeOK ForeignClustersSurvive GradesRestOnOwnCluster
PROPERTIES CleanRecovers
