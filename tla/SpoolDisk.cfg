CONSTANTS
    m1 = m1  m2 = m2  m3 = m3
    Msg = {m1, m2, m3}
    LenOf <- Lengths
    MaxFaults = 2
    KillPoints <- AnyKillPoint
SPECIFICATION FairSpec
INVARIANTS TypeOK SpoolIntact WholeOrComposed
PROPERTIES ReportingUntilLoss EventuallyReported
CHECK_DEADLOCK FALSE
