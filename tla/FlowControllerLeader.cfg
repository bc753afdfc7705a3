CONSTANTS
    Flows = {f1}
    Kinds = {"deployment"}
    Workers = {w1, w2}
    Buffer = 1
    MaxChanges = 2
    MaxFaults = 0
    MaxLosses = 1
    None = None
SPECIFICATION Spec
CHECK_DEADLOCK FALSE
PROPERTY EveryTermConverges
