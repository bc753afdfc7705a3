CONSTANTS
    Flows = {f1, f2}
    Kinds = {"deployment", "job"}
    Workers = {w1, w2}
    Buffer = 1
    MaxChanges = 2
    MaxFaults = 2
    MaxLosses = 1
    None = None
SPECIFICATION Spec
CHECK_DEADLOCK FALSE
INVARIANTS TypeOK OneWorkerPerFlow SettledIsDeployed
PROPERTY Converges
