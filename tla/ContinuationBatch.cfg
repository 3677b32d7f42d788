SPECIFICATION FairSpec
CONSTANTS
    s1 = s1
    s2 = s2
    s3 = s3
    local = local
    remote = remote
    b1 = b1
    b2 = b2
    Batches = {b1, b2}
    Someone = Someone
    NoBatch = NoBatch
    Bundle <- ThreeSteps
    Foreign = {}
    LocalTypes = {local}
    Actions = {local, remote}
    MaxTransitions <- Caps
    LocalOnly = {b2}
INVARIANTS
    StepsInOrder
    ReceiptTrails
    RivalsYield
    RecordsProve
PROPERTIES
    ImplementsProgress
    EveryBatchEnds
CHECK_DEADLOCK FALSE
