SPECIFICATION Spec
CONSTANTS
    Processes = {p1}
    Operations = {o1, o2, o3}
    Paths = {f1}
    NoProcess = NoProcess
    NoOperation = NoOperation
    NoPath = NoPath
    CheckpointRequired = FALSE
    MaxInterruptions = 0
    MaxClock = 1
    MaxCheckpointsPerRun = 1
INVARIANTS
    LatestCheckpointKept
