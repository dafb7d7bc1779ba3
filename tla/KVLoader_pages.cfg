\* Get on every bitmap of 3-bit ids below the largest id, pages of 2.
CONSTANTS
    Width = 3
    Limit = 2
    Ids = {0, 1, 2, 3, 4, 5, 6}
    MaxTotal = 8
SPECIFICATION Spec
INVARIANT LoadsAll
PROPERTY GetReturns
CHECK_DEADLOCK FALSE
