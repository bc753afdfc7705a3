CONSTANTS
    Queues <- ChainQueues
    NoQueue = "no queue"
    Plugins = {"libsink", "libxf", "libsrc"}
    Schemas = {"A", "B"}
    NoSchema = "no schema"
    Keep = "keep"
    NStages = 3
    Kind <- SinkFirstKind
    In <- SinkFirstIn
    Out <- SinkFirstOut
    Plugin <- SinkFirstPlugin
    Emits <- SinkFirstEmits
    Workers <- SinkFirstWorkers
    StageOf <- SinkFirstStageOf
    Capacity <- OneSlot
    QueueSchema <- ChainSchema
    JobMode = TRUE
    MaxProduce = 2
    NoPayload = NoPayload
SPECIFICATION Spec
INVARIANTS TypeOK AtMostOnce NoEarlyClose NoUseAfterDestroy QueuedSchema JobStopsDrained JobInv
PROPERTY JobEnds
