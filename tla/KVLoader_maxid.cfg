\* Get on bitmaps that may hold the largest id: start wraps to 0.
CONSTANTS
    Width = 3
    Limit = 2
    Ids = {0, 1, 2, 3, 4, 5, 6, 7}
    MaxTotal = 8
SPECIFICATION Spec
PROPERTY GetReturns
CHECK_DEADLOCK FALSE
