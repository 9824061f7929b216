------------------------------- MODULE Server -------------------------------
(***************************************************************************)
(* The server daemon: one datagram at a time is parsed, its serial looked  *)
(* up in serial.txt, the record appended to report.txt unless the serial   *)
(* is allowed there, the client's address resolved from the record's Host  *)
(* field, and the CRC32 sent back.  The web monitor rewrites serial.txt    *)
(* under the server's feet; SerialList looks at those edits more closely.  *)
(***************************************************************************)
EXTENDS Wire

CONSTANTS
    SerialNo,   \* values of the Serial field
    Serial,     \* Serial[m]: the one record m carries
    NoMsg,      \* "no datagram in buf"
    NoFile,     \* "serial.txt does not exist"
    InitFiles,  \* what serial.txt may hold when the server is first started
    WebMonitor, \* whether somebody edits the list through the web monitor
    MaxHandled  \* where the count handled stops

ASSUME SerialAssumption == Serial \in [Msg -> SerialNo]
ASSUME MaxHandledAssumption == MaxHandled \in Nat \ {0}
ASSUME InitFilesAssumption == InitFiles \subseteq {NoFile} \cup SUBSET SerialNo
ASSUME NoMsgAssumption == NoMsg \notin Msg
ASSUME NoFileAssumption == \A S \in SUBSET SerialNo : S # NoFile

VARIABLES
    spc,        \* where the server's main loop is
    cur,        \* the record in buf
    handled,    \* handled[m]: how often m became a line of report.txt or passed
                \* as allowed (history), up to MaxHandled
    serialFile  \* the lines of serial.txt

serverVars == <<spc, cur, handled, serialFile>>

ServerPC == {"down", "recv", "check", "save", "resolve"}

ServerTypeOK ==
    /\ spc \in ServerPC
    /\ cur \in Msg \cup {NoMsg}
    /\ (cur = NoMsg) <=> (spc \in {"down", "recv"})
    /\ handled \in [Msg -> 0 .. MaxHandled]
    /\ serialFile \in {NoFile} \cup SUBSET SerialNo

ServerInit ==
    /\ spc = "down"
    /\ cur = NoMsg
    /\ handled = [m \in Msg |-> 0]
    /\ serialFile \in InitFiles

(* The count of m is below the bound, so it is the real one.               *)
Exact(m) == handled[m] < MaxHandled

(* cur is saved or approved: it counts as handled once more.               *)
HandleCur ==
    handled' = [handled EXCEPT ![cur] = IF @ < MaxHandled THEN @ + 1 ELSE @]

(* The child after the fork: configuration read, port bound.               *)
StartServer ==
    /\ spc = "down" /\ spc' = "recv"
    /\ UNCHANGED <<cur, handled, serialFile, wireVars>>

(* recvfrom and parse_packet: a record is well formed in this module.      *)
Receive(m) ==
    /\ spc = "recv" /\ spc' = "check"
    /\ GetDgram(m)
    /\ cur' = m
    /\ UNCHANGED <<acks, faults, dups, handled, serialFile>>

(***************************************************************************)
(* is_serial_allowed.  No file: not allowed.  A file without a line: the   *)
(* result is a variable that was never assigned, so either answer.         *)
(***************************************************************************)
Lines == IF serialFile = NoFile THEN {} ELSE serialFile

Listed(m) == Serial[m] \in Lines

SerialMayBeAllowed == Listed(cur) \/ serialFile = {}

SerialMayBeUnknown == ~Listed(cur)

Approve ==
    /\ spc = "check" /\ spc' = "resolve"
    /\ SerialMayBeAllowed
    /\ HandleCur
    /\ UNCHANGED <<cur, serialFile, wireVars>>

(* Mutant: an unknown serial goes on without save_packet.                  *)
ReportForgotten ==
    /\ spc = "check" /\ spc' = "resolve"
    /\ SerialMayBeUnknown
    /\ UNCHANGED <<cur, handled, serialFile, wireVars>>

Report ==
    /\ spc = "check" /\ spc' = "save"
    /\ SerialMayBeUnknown
    /\ UNCHANGED <<cur, handled, serialFile, wireVars>>

(* save_packet: the row is on disk before the client's name is resolved.   *)
SavePacket ==
    /\ spc = "save" /\ spc' = "resolve"
    /\ HandleCur
    /\ UNCHANGED <<cur, serialFile, wireVars>>

(* Mutant: buf keeps the record that was answered.                         *)
SendAckKeepsBuf ==
    /\ spc = "resolve" /\ spc' = "recv"
    /\ PutAck(Host[cur], Crc[cur])
    /\ UNCHANGED <<cur, dgrams, faults, dups, handled, serialFile>>

(* gethostbyname(Host) answers: the CRC32 goes to that host.               *)
SendAck ==
    /\ spc = "resolve" /\ spc' = "recv"
    /\ PutAck(Host[cur], Crc[cur])
    /\ cur' = NoMsg
    /\ UNCHANGED <<dgrams, faults, dups, handled, serialFile>>

(* gethostbyname(Host) fails: the record stays saved, no acknowledgement.  *)
ResolveFails ==
    /\ spc = "resolve" /\ spc' = "recv"
    /\ Fault
    /\ cur' = NoMsg
    /\ UNCHANGED <<dgrams, acks, dups, handled, serialFile>>

(* A signal, or exit(1) when report.txt cannot be created.                 *)
KillServer ==
    /\ spc # "down" /\ spc' = "down"
    /\ Fault
    /\ cur' = NoMsg
    /\ UNCHANGED <<dgrams, acks, dups, handled, serialFile>>

(* Nobody listens on port 1230: what arrives is dropped.                   *)
DgramToClosedPort(m) ==
    /\ spc = "down"
    /\ GetDgram(m)
    /\ UNCHANGED <<acks, faults, dups, serverVars>>

ServerStep ==
    \/ \E m \in Msg : Receive(m)
    \/ Approve \/ Report \/ SavePacket \/ SendAck

(***************************************************************************)
(* A step of save_config, for any POST to index.php: the file is truncated *)
(* or has got some more of its lines, so it may hold any lines at any time *)
(* once it exists.                                                         *)
(***************************************************************************)
RewriteList ==
    /\ WebMonitor
    /\ serialFile' \in SUBSET SerialNo
    /\ UNCHANGED <<spc, cur, handled, wireVars>>

ServerNext ==
    \/ StartServer \/ ServerStep \/ ResolveFails \/ KillServer
    \/ \E m \in Msg : DgramToClosedPort(m)
    \/ RewriteList
=============================================================================
