CONSTANTS
    local = local
    remote = remote
    none = none
    NULL = NULL
    Card <- MCCard
    KindOf <- MCKindOf
    Request <- MCRequest
    Batch <- MCBatch
    Context <- MCContext
    Value = {1, 2, 3, 4, 5, 6, 7, 8, 9, 10, 11, 12}
    Protocol = {1, 6, 17}
    MaxHello = 2
    MaxKept = 2
    MaxLate = 1
SPECIFICATION FairSpec
INVARIANTS TypeOK NoNullCalls NothingElseHeld RulesMatchFlows
PROPERTIES BatchSpec EditReturns
CHECK_DEADLOCK FALSE
