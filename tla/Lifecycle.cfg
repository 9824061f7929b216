CONSTANTS
    s1 = s1  s2 = s2  p1 = p1  p2 = p2  p3 = p3  p4 = p4
    Script = {s1, s2}
    Pid = {p1, p2, p3}
    Command = {"start", "stop", "restart"}
    MaxCommands = 3
    MaxFaults = 1
    FaultKinds = {"crash", "config", "pidfile"}
    NoPid = NoPid
    Garbled = Garbled
SPECIFICATION FairSpec
INVARIANTS TypeOK OneAtATime RunningIsRecorded OneDaemon
PROPERTIES RestartServes RefusedIsRunning
CHECK_DEADLOCK FALSE
