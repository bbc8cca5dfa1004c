CONSTANTS
    c1 = c1
    c2 = c2
    f1 = f1
    f2 = f2
    p1 = p1
    p2 = p2
    m1 = m1
    m2 = m2
    NULL = NULL
    Card <- MCCard
    Fd <- MCFd
    Path <- MCPath
    Match <- MCMatch
    Unsupported = {}
    ACC_CARD_MAX_NUM = 2
    SwitchOf <- BothRemote
    Batch <- OneFlow
    MaxHostId = 1
    Unregisters <- MCPath
SPECIFICATION Spec
PROPERTY UnregAssertsHold
