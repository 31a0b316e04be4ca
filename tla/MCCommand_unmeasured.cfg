CONSTANTS
    Shells <- Started
    DotEnvs <- Lines
    Arguments <- Typed
    Directories <- Found
    Outcomes <- Ends
    ValidKeys = {"k1"}
SPECIFICATION Spec
CHECK_DEADLOCK FALSE
INVARIANTS UnmeasuredNotFolded
