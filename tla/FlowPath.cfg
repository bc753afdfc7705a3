\* The way of one flow from a file to its pods.
CONSTANTS
    None = None
    Absent = None
    Rank <- MCRank
    KindOf <- MCKindOf
    Cpus = {0, 1}
    Priorities <- MCPriorities
    Observed = TRUE
    Endpoint = "collector"
    Flow = "f"
    Files <- MCFiles
    Names = {"", "f"}
    MaxVersion = 2
SPECIFICATION Spec
INVARIANTS TypeOK  DeterministicNormalization PodsFoundAndConfigured
PROPERTY RestartExactlyOnChange
CHECK_DEADLOCK FALSE
