SPECIFICATION Spec
CONSTANTS
    a = a
    b = b
    NoTask = NoTask
    Schema = "v3"
    Tasks = {a, b}
    Required = {a, b}
    DependsOn <- Siblings
    Routed = {a}
    Profiled = {a}
    MaxTaskAttempts = 2
    MaxParallelTasks = 1
    RemediationEnabled = TRUE
    MaxPlan = 2
INVARIANTS
    TypeOK
    BudgetWaitIsShared
    ParallelCapHolds
CHECK_DEADLOCK FALSE
