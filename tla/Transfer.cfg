CONSTANTS
    Files = 2
    Byte = {0, 1}
    Zero = 0
    MaxLen = 3
    Contents <- SourceContents
    Existing <- TargetContents
    ChunkSize = 2
    MaxRetries = 2
    Budget <- AnyThreeEvents
SPECIFICATION RetryBytesSpec
INVARIANTS
    TypeOK
    ManifestIsTheSource
    OkMeansDelivered
    BytesDoneExact
    CheckpointTruthful
    BytesSayMarks
PROPERTIES
    Delivers
    CallAdvances
    FailsForAReason
    CallReturns
    RetriesComplete
