SPECIFICATION Spec
CONSTANTS
    a = a
    b = b
    NoTask = NoTask
    Schema = "v4"
    Tasks = {a}
    Required = {a}
    DependsOn <- Alone
    Routed = {}
    Profiled = {}
    MaxTaskAttempts = 3
    MaxParallelTasks = 1
    RemediationEnabled = TRUE
    MaxPlan = 2
INVARIANT
    AuditCanReopen
CHECK_DEADLOCK FALSE
