SPECIFICATION Spec
CONSTANTS
    first = first
    second = second
    child = child
    Attempts = {first, second, child}
    Children <- OneChild
    Prior <- Retried
    NoAttempt = NoAttempt
INVARIANTS
    EarlyCancelWins
    RecoveredIsWhole
PROPERTIES
    ImplementsTree
CHECK_DEADLOCK FALSE
