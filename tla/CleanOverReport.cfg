CONSTANTS
    r1 = r1  r2 = r2  w1 = w1  b1 = b1  k1 = k1
    Row = {r1, r2}
    NumFields = 2
    Cleaner = {w1}
    MaxCleans = 1
    MaxKills = 0
    Overlap = TRUE
    Browser = {}
    Slot = {k1}
    PageSize = 1
SPECIFICATION Spec
INVARIANT SavedStandsWhole
CHECK_DEADLOCK FALSE
