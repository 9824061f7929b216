------------------------------- MODULE Client -------------------------------
(***************************************************************************)
(* The client daemon cul: it watches udev, appends each event to the local *)
(* log .cul.r and to the spool .cul.b, sends the first record of the spool *)
(* once per loop, and removes it when an acknowledgement equals the CRC32  *)
(* of the record that is first at that moment.                             *)
(*                                                                         *)
(* The spool is a sequence of whole records here.  cpc says where the      *)
(* process is between two effects that the outside, or a restart, can see: *)
(* SIGKILL may strike at any point of KillPoints.                          *)
(***************************************************************************)
EXTENDS Wire, Sequences

CONSTANTS
    BootMsg,    \* the "start logger" records among Msg
    MaxCopies,  \* how often the same content may be logged
    KillPoints  \* values of cpc at which the process may be killed

ASSUME BootAssumption == BootMsg \subseteq Msg

VARIABLES
    cpc,        \* where the main loop of each client is
    spool,      \* PATH2BUF: records waiting, oldest first (survives a restart)
    buf,        \* stdio buffer of the spool in write_log, before fclose
    rest,       \* pBuf of delete_buf_msg after the first record, in memory
    culr,       \* PATH2LOG: lines in the local log, by record (survives)
    discharged  \* history: how often delete_buf_msg removed a record

clientVars == <<cpc, spool, buf, rest, culr, discharged>>

ClientPC == {"down", "boot", "bootflush", "enum", "enumflush",
             "poll", "flush", "send", "ack", "rewrite"}

ClientTypeOK ==
    /\ cpc \in [Client -> ClientPC]
    /\ spool \in [Client -> Seq(Msg)]
    /\ buf \in [Client -> Seq(Msg)]
    /\ rest \in [Client -> Seq(Msg)]
    /\ culr \in [Msg -> Nat]
    /\ discharged \in [Msg -> Nat]

ClientInit ==
    /\ cpc = [c \in Client |-> "down"]
    /\ spool = [c \in Client |-> <<>>]
    /\ buf = [c \in Client |-> <<>>]
    /\ rest = [c \in Client |-> <<>>]
    /\ culr = [m \in Msg |-> 0]
    /\ discharged = [m \in Msg |-> 0]

(* The loop stands between print_log and the fclose of the spool.          *)
FlushPC == {"bootflush", "enumflush", "flush"}

Goto(c, here, there) == cpc[c] = here /\ cpc' = [cpc EXCEPT ![c] = there]

(* Mutant: the spool is opened with "w" at the start.                      *)
StartErasesSpool(c) ==
    /\ Goto(c, "down", "boot")
    /\ spool' = [spool EXCEPT ![c] = <<>>]
    /\ UNCHANGED <<buf, rest, culr, discharged, wireVars>>

(* main up to the Big Loop: the server's name resolves, the port binds.    *)
StartClient(c) ==
    /\ Goto(c, "down", "boot")
    /\ UNCHANGED <<spool, buf, rest, culr, discharged, wireVars>>

(***************************************************************************)
(* write_log up to the return of print_log: the line is in .cul.r, the     *)
(* record only in the stdio buffer of .cul.b.                              *)
(***************************************************************************)
WriteLog(c, m) ==
    /\ Host[m] = c
    /\ culr[m] < MaxCopies
    /\ culr' = [culr EXCEPT ![m] = @ + 1]
    /\ buf' = [buf EXCEPT ![c] = <<m>>]
    /\ UNCHANGED <<spool, rest, discharged, wireVars>>

(* fclose at the end of write_log: the record reaches .cul.b.              *)
FlushSpool(c) ==
    /\ spool' = [spool EXCEPT ![c] = @ \o buf[c]]
    /\ buf' = [buf EXCEPT ![c] = <<>>]
    /\ UNCHANGED <<rest, culr, discharged, wireVars>>

(* The first call of LogUdevEvents: the start record, then present disks.  *)
LogStart(c) ==
    Goto(c, "boot", "bootflush") /\ \E m \in BootMsg : WriteLog(c, m)

LogPresentDisk(c) ==
    Goto(c, "enum", "enumflush") /\ \E m \in Msg \ BootMsg : WriteLog(c, m)

FlushStart(c) ==
    Goto(c, "bootflush", "enum") /\ FlushSpool(c)

FlushPresentDisk(c) ==
    Goto(c, "enumflush", "enum") /\ FlushSpool(c)

EnumerateDone(c) ==
    /\ Goto(c, "enum", "send")
    /\ UNCHANGED <<spool, buf, rest, culr, discharged, wireVars>>

(* Every later call: at most one udev event; "change" leaves no trace.     *)
LogEvent(c) ==
    Goto(c, "poll", "flush") /\ \E m \in Msg \ BootMsg : WriteLog(c, m)

FlushEvent(c) ==
    Goto(c, "flush", "send") /\ FlushSpool(c)

NoEvent(c) ==
    /\ Goto(c, "poll", "send")
    /\ UNCHANGED <<spool, buf, rest, culr, discharged, wireVars>>

(* Mutant: the newest record is sent instead of the first one.             *)
SendNewest(c) ==
    /\ Goto(c, "send", "ack")
    /\ IF spool[c] = <<>> THEN UNCHANGED dgrams
                          ELSE PutDgram(spool[c][Len(spool[c])])
    /\ UNCHANGED <<acks, faults, dups, spool, buf, rest, culr, discharged>>

(* send_msg_to_server: the first record of the spool, if there is one.     *)
SendMsgToServer(c) ==
    /\ Goto(c, "send", "ack")
    /\ IF spool[c] = <<>> THEN UNCHANGED dgrams ELSE PutDgram(Head(spool[c]))
    /\ UNCHANGED <<acks, faults, dups, spool, buf, rest, culr, discharged>>

(* Mutant: get_ack_from_server waits for an answer instead of polling.     *)
NoAckWaits(c) ==
    /\ Goto(c, "ack", "ack")
    /\ UNCHANGED <<spool, buf, rest, culr, discharged, wireVars>>

(* get_ack_from_server when select finds nothing (yet).                    *)
NoAck(c) ==
    /\ Goto(c, "ack", "poll")
    /\ UNCHANGED <<spool, buf, rest, culr, discharged, wireVars>>

(* get_msg_crc: 0 when nothing waits.                                      *)
MsgCrc(c) == IF spool[c] = <<>> THEN 0 ELSE Crc[Head(spool[c])]

(***************************************************************************)
(* get_ack_from_server with a datagram in the socket.  An acknowledgement  *)
(* of anything but the first record is dropped; one that matches leads to  *)
(* delete_buf_msg, up to its erase_buf_file: the spool is now empty and    *)
(* the other records are in memory only.                                   *)
(***************************************************************************)
IgnoreAck(c, k) ==
    /\ GetAck(c, k)
    /\ k # MsgCrc(c) \/ spool[c] = <<>>
    /\ Goto(c, "ack", "poll")
    /\ UNCHANGED <<dgrams, faults, dups, spool, buf, rest, culr, discharged>>

(* Mutant: the CRC32 of the acknowledgement is not compared.               *)
DeleteOnAnyAck(c, k) ==
    /\ GetAck(c, k)
    /\ spool[c] # <<>>
    /\ Goto(c, "ack", "rewrite")
    /\ rest' = [rest EXCEPT ![c] = Tail(spool[c])]
    /\ spool' = [spool EXCEPT ![c] = <<>>]
    /\ discharged' = [discharged EXCEPT ![Head(spool[c])] = @ + 1]
    /\ UNCHANGED <<dgrams, faults, dups, buf, culr>>

(* Mutant: pBufOffset does not skip the first record.                      *)
DeleteKeepsFirst(c, k) ==
    /\ GetAck(c, k)
    /\ k = MsgCrc(c) /\ spool[c] # <<>>
    /\ Goto(c, "ack", "rewrite")
    /\ rest' = [rest EXCEPT ![c] = spool[c]]
    /\ spool' = [spool EXCEPT ![c] = <<>>]
    /\ discharged' = [discharged EXCEPT ![Head(spool[c])] = @ + 1]
    /\ UNCHANGED <<dgrams, faults, dups, buf, culr>>

(* Mutant: the acknowledgement is looked at and left in the socket.        *)
DeletePeeksAck(c, k) ==
    /\ acks[c][k] > 0
    /\ k = MsgCrc(c) /\ spool[c] # <<>>
    /\ Goto(c, "ack", "rewrite")
    /\ rest' = [rest EXCEPT ![c] = Tail(spool[c])]
    /\ spool' = [spool EXCEPT ![c] = <<>>]
    /\ discharged' = [discharged EXCEPT ![Head(spool[c])] = @ + 1]
    /\ UNCHANGED <<wireVars, buf, culr>>

DeleteBufMsg(c, k) ==
    /\ GetAck(c, k)
    /\ k = MsgCrc(c) /\ spool[c] # <<>>
    /\ Goto(c, "ack", "rewrite")
    /\ rest' = [rest EXCEPT ![c] = Tail(spool[c])]
    /\ spool' = [spool EXCEPT ![c] = <<>>]
    /\ discharged' = [discharged EXCEPT ![Head(spool[c])] = @ + 1]
    /\ UNCHANGED <<dgrams, faults, dups, buf, culr>>

GetAckFromServer(c, k) == IgnoreAck(c, k) \/ DeleteBufMsg(c, k)

(* The rest of delete_buf_msg: the other records are written and closed.   *)
RewriteSpool(c) ==
    /\ Goto(c, "rewrite", "poll")
    /\ spool' = [spool EXCEPT ![c] = rest[c]]
    /\ rest' = [rest EXCEPT ![c] = <<>>]
    /\ UNCHANGED <<buf, culr, discharged, wireVars>>

(* SIGKILL (or a crash, an exit(1)): memory and its buffers are gone.      *)
KillClient(c) ==
    /\ cpc[c] \in KillPoints \ {"down"}
    /\ Fault
    /\ cpc' = [cpc EXCEPT ![c] = "down"]
    /\ buf' = [buf EXCEPT ![c] = <<>>]
    /\ rest' = [rest EXCEPT ![c] = <<>>]
    /\ UNCHANGED <<dgrams, acks, dups, spool, culr, discharged>>

(* Nobody listens on port 1231 of the host: what arrives is dropped.       *)
AckToClosedPort(c, k) ==
    /\ cpc[c] = "down"
    /\ GetAck(c, k)
    /\ UNCHANGED <<dgrams, faults, dups, clientVars>>

(* One iteration of the Big Loop, step by step.                            *)
ClientStep(c) ==
    \/ LogStart(c) \/ FlushStart(c)
    \/ LogPresentDisk(c) \/ FlushPresentDisk(c) \/ EnumerateDone(c)
    \/ LogEvent(c) \/ FlushEvent(c) \/ NoEvent(c)
    \/ SendMsgToServer(c)
    \/ NoAck(c) \/ (\E k \in CrcVal : GetAckFromServer(c, k))
    \/ RewriteSpool(c)

ClientNext ==
    \E c \in Client :
        \/ StartClient(c) \/ ClientStep(c) \/ KillClient(c)
        \/ \E k \in CrcVal : AckToClosedPort(c, k)
=============================================================================
