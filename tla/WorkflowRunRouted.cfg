SPECIFICATION Spec
CONSTANTS
    a = a
    b = b
    NoTask = NoTask
    Schema = "v4"
    Tasks = {a}
    Required = {a}
    DependsOn <- Alone
    Routed = {a}
    Profiled = {}
    MaxTaskAttempts = 2
    MaxParallelTasks = 1
    RemediationEnabled = TRUE
    MaxPlan = 2
INVARIANT
    RoutedOperationTakesEffect
CHECK_DEADLOCK FALSE
