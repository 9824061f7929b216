CONSTANTS
    i1 = i1  i2 = i2  i3 = i3
    Start = {i1, i2}
    MaxFaults = 1
    Disk = {1, 2, 3}
    Parts <- Partitions
    NoDisk = NoDisk
    Garbage = {1, NoDisk}
    RcvBuf = 2
    MaxEvents = 3
SYMMETRY StartsAlike
SPECIFICATION Spec
INVARIANTS TypeOK OneClient ClientAfterStart LogIsTrue LogIsAStory
CHECK_DEADLOCK FALSE
