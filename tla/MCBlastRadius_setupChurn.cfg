CONSTANTS
    None = None
    Globs <- Patterns
    Refs <- Resources
    Behalf <- Kept
    Manifests <- Setup
    Scopes <- Declared
    Specs = {s1, s2}
    MaxWrites = 2
    MaxChurn = 1
    MaxChatter = 1
SYMMETRY Interchangeable
SPECIFICATION Spec
CHECK_DEADLOCK FALSE
INVARIANTS SetupChurnIsNeverBilled
