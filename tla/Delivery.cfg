CONSTANTS
    c1 = c1  b1 = b1  e1 = e1  e2 = e2
    listed = listed  unlisted = unlisted  NoMsg = NoMsg  NoFile = NoFile
    Client = {c1}
    Msg = {b1, e1}
    BootMsg = {b1}
    Host <- OneHost
    Crc <- Crcs
    Serial <- AllListed
    SerialNo = {listed}
    InitFiles <- AnyFile
    WebMonitor = TRUE
    MaxNet = 2
    MaxFaults = 2
    MaxCopies = 2
    MaxHandled = 2
    DupAcks = TRUE
    KillPoints <- AnyKillPoint
SPECIFICATION Spec
INVARIANTS TypeOK OnlyFirstInFlight AckMeansHandled OneHandlingPerDischarge
PROPERTY CrashReportingSpec
CHECK_DEADLOCK FALSE
