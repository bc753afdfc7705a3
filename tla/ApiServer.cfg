\* The API process with two clients.
CONSTANTS
    r1 = r1
    r2 = r2
    NoBody = NoBody
    Garbled = Garbled
    Decimal <- MCDecimal
    Max32 = 7
    Max64 = 15
    Readable = {"-"}
    Environments <- MCEnvironments
    Requests = {r1, r2}
    Loads <- MCLoads
SPECIFICATION Spec
INVARIANTS TypeOK StoreOutlivesHandlers NoneCutOff NoEarlyRefusal OnlyKeyHolders SharedKeyOpens HandledAsMeant
PROPERTIES Stops Answered
CHECK_DEADLOCK FALSE
