SPECIFICATION Spec
CONSTANTS
    o1 = o1
    o2 = o2
    p1 = p1
    p2 = p2
    Operations = {o1, o2}
    Launchers = {p1, p2}
    NoOperation = NoOperation
INVARIANTS
    NothingBesideSealed
    PassIsProven
    AnswersEndure
    NoStartIsTrue
    NothingOverUncertainty
CHECK_DEADLOCK FALSE
