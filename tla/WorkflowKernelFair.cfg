SPECIFICATION FairSpec
CONSTANTS
    Processes = {p1, p2}
    Operations = {o1, o2}
    Paths = {f1}
    NoProcess = NoProcess
    NoOperation = NoOperation
    NoPath = NoPath
    CheckpointRequired = FALSE
    MaxInterruptions = 1
    MaxClock = 1
    MaxCheckpointsPerRun = 1
INVARIANTS
    LogMatchesState
    EvidenceBacksEvents
    AnswersAreTruthful
    RetentionByAge
PROPERTIES
    ImplementsHistory
    EveryCallReturns
