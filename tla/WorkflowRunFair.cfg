SPECIFICATION FairSpec
CONSTANTS
    a = a
    b = b
    NoTask = NoTask
    Schema = "v4"
    Tasks = {a, b}
    Required = {a, b}
    DependsOn <- Chain
    Routed = {}
    Profiled = {}
    MaxTaskAttempts = 2
    MaxParallelTasks = 1
    RemediationEnabled = TRUE
    MaxPlan = 2
INVARIANTS
    FinalAuditIsSettled
    CompleteIsAudited
    DependenciesHold
    EvidenceIsOwn
    HistoryStaysValid
    BlockerFitsPhase
    HandlersAgreeWithValidator
PROPERTIES
    AcceptedIsKept
    ImplementsPromise
    EndsOrNeedsOperator
CHECK_DEADLOCK FALSE
