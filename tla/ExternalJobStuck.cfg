SPECIFICATION FairSpec
CONSTANTS
    first = first
    second = second
    child = child
    Attempts = {first}
    Children <- NoChild
    Prior <- Once
    NoAttempt = NoAttempt
PROPERTIES
    EndIsRecorded
CHECK_DEADLOCK FALSE
