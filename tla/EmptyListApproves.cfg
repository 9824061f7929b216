CONSTANTS
    c1 = c1  b1 = b1  e1 = e1  e2 = e2
    listed = listed  unlisted = unlisted  NoMsg = NoMsg  NoFile = NoFile
    Client = {c1}
    Msg = {b1, e1}
    BootMsg = {b1}
    Host <- OneHost
    Crc <- Crcs
    Serial <- Serials
    SerialNo = {listed, unlisted}
    InitFiles <- FilledFile
    WebMonitor = TRUE
    MaxNet = 1
    MaxFaults = 0
    MaxCopies = 1
    MaxHandled = 1
    DupAcks = FALSE
    KillPoints <- NoKill
SPECIFICATION Spec
PROPERTY UnlistedIsReported
CHECK_DEADLOCK FALSE
