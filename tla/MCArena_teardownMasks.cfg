CONSTANTS
    Sweeps = {s1}
    Runs = 1
    Keepers = {}
    MaxPresses = 0
    MintNames = {a1, a2}
    ArenaNames = {a1, a2, arenaDev}
    Names = {a1, a2, arenaDev, mine}
    UserClusters = {arenaDev, mine}
    User = User
    Nobody = Nobody
    Collisions = FALSE
    Cleaners = {}
    Faults = {"deleteTimeout"}
SPECIFICATION Spec
PROPERTIES TeardownKeepsResult
