CONSTANTS
    MaxBytes = 2
    ChunkSizes = {1, 2}
    MaxMessages = 3
    MaxSpins = 1
    MaxFlips = 1
SPECIFICATION Spec
INVARIANTS TypeOK AppReadsTheBody MemoryIsBounded EverythingIsClosed ReadinessIsTruthful
PROPERTY DisconnectIsSeen
CHECK_DEADLOCK FALSE
