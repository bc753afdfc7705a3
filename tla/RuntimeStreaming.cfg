CONSTANTS
    Queues <- SourceFirstQueues
    NoQueue = "no queue"
    Plugins = {"libsink", "libsrc"}
    Schemas = {}
    NoSchema = "no schema"
    Keep = "keep"
    NStages = 2
    Kind <- SourceFirstKind
    In <- SourceFirstIn
    Out <- SourceFirstOut
    Plugin <- SourceFirstPlugin
    Emits <- SourceFirstEmits
    Workers <- SourceFirstWorkers
    StageOf <- SourceFirstStageOf
    Capacity <- SourceFirstSlot
    QueueSchema <- SourceFirstSchema
    JobMode = FALSE
    MaxProduce = 2
    NoPayload = NoPayload
SPECIFICATION Spec
INVARIANT RuntimeInv
PROPERTY StopEnds
