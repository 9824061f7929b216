CONSTANTS
    r1 = r1  r2 = r2  w1 = w1  b1 = b1  k1 = k1
    Row = {r1, r2}
    NumFields = 1
    Cleaner = {w1}
    MaxCleans = 2
    MaxKills = 1
    Overlap = FALSE
    Browser = {b1}
    Slot = {k1}
    PageSize = 1
SPECIFICATION FairSpec
INVARIANTS TypeOK Framed SavedStandsWhole
PROPERTIES ReportLogSpec PagesCatchUp
CHECK_DEADLOCK FALSE
