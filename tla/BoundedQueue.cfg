CONSTANTS
    Producers = {p1, p2, p3}
    Consumers = {c1, c2}
    Payloads = {x, y}
    Capacity = 2
    MaxAccepted = 3
SPECIFICATION Spec
INVARIANTS TypeOK NoSleepingConsumer NoSleepingProducer ClosedWakesAll
PROPERTY ImplementsAbstractQueue
