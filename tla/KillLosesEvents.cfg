CONSTANTS
    c1 = c1  b1 = b1  e1 = e1  e2 = e2
    listed = listed  unlisted = unlisted  NoMsg = NoMsg  NoFile = NoFile
    Client = {c1}
    Msg = {b1, e1, e2}
    BootMsg = {b1}
    Host <- OneHost
    Crc <- Crcs
    Serial <- Serials
    SerialNo = {listed, unlisted}
    InitFiles <- FilledFile
    WebMonitor = FALSE
    MaxNet = 1
    MaxFaults = 1
    MaxCopies = 1
    MaxHandled = 2
    DupAcks = FALSE
    KillPoints <- RewriteOnly
SPECIFICATION Spec
PROPERTY EventsSurviveKill
CHECK_DEADLOCK FALSE
