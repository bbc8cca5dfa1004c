CONSTANTS
    Card = {c1, c2, c3, c4}
    Path = {p1, p2, p3, p4}
    ACC_CARD_MAX_NUM = 3
    NULL = NULL
SPECIFICATION TableSpec
INVARIANTS TableTypeOK TableConsistent
PROPERTY DirectorySpec
