SPECIFICATION Spec
CONSTANTS
    Queues = {q1, q2}
    PopBatch = 2
    ChannelSize = 1
    BatchSize = 2
    FlushMaxRetries = 1
    MaxEvents = 3
    MaxFlushes = 2
    None = None
INVARIANTS
    OnePlace
PROPERTIES
    ShutdownEnds
    KeepsConsuming
