CONSTANTS
    m1 = m1  m2 = m2  m3 = m3
    Msg = {m1, m2, m3}
    LenOf <- Lengths
    MaxFaults = 1
    KillPoints <- SafeKillPoints
SPECIFICATION FairSpec
PROPERTY SpoolDrains
CHECK_DEADLOCK FALSE
