------------------------------ MODULE UsbLogger ------------------------------
(***************************************************************************)
(* The whole reporting path: clients, network and server, interleaved.     *)
(***************************************************************************)
EXTENDS Client, Server, FiniteSets

vars == <<wireVars, clientVars, serverVars>>

TypeOK == WireTypeOK /\ ClientTypeOK /\ ServerTypeOK

Init == WireInit /\ ClientInit /\ ServerInit

Next ==
    \/ ClientNext /\ UNCHANGED serverVars
    \/ ServerNext /\ UNCHANGED clientVars
    \/ WireNext /\ UNCHANGED <<clientVars, serverVars>>

Spec == Init /\ [][Next]_vars

(***************************************************************************)
(* Fairness.  Client and server are loops that never wait for each other   *)
(* and a supervisor restarts them.  A socket buffer is read in order, so a *)
(* content that keeps arriving is read some day, whatever else arrives:    *)
(* strong fairness on the two receives.  Losses, kills and failed lookups  *)
(* are bounded by MaxFaults: the network and the name service are back at  *)
(* some point.  Nothing is assumed of udev, of the web monitor, or of the  *)
(* network's duplications.                                                 *)
(***************************************************************************)
ClientFairness ==
    \A c \in Client :
        /\ WF_vars(StartClient(c) /\ UNCHANGED serverVars)
        /\ WF_vars(ClientStep(c) /\ UNCHANGED serverVars)
        /\ \A k \in CrcVal : SF_vars(GetAckFromServer(c, k) /\ UNCHANGED serverVars)

ServerFairness ==
    /\ WF_vars(StartServer /\ UNCHANGED clientVars)
    /\ WF_vars(ServerStep /\ UNCHANGED clientVars)
    /\ \A m \in Msg : SF_vars(Receive(m) /\ UNCHANGED clientVars)

FairSpec == Spec /\ ClientFairness /\ ServerFairness

(***************************************************************************)
(* The records of c that are not discharged: between erase_buf_file and    *)
(* the end of delete_buf_msg they are in the process's memory.             *)
(***************************************************************************)
Pending(c) == IF cpc[c] = "rewrite" THEN rest[c] ELSE spool[c]

HandledSet == {m \in Msg : handled[m] > 0}

InFlight(m) == dgrams[m] > 0 \/ (cur = m /\ spc \in {"check", "save"})

Acked(m) == acks[Host[m]][Crc[m]] > 0

Copies(s, m) == Cardinality({i \in DOMAIN s : s[i] = m})

IsFirst(m) == spool[Host[m]] # <<>> /\ Head(spool[Host[m]]) = m

(***************************************************************************)
(* A record on its way to the server (or in it, not yet dealt with) is the *)
(* first one of its client's spool, unless it was dealt with before: no    *)
(* later record overtakes an earlier one that the server has not seen,     *)
(* whatever is lost, duplicated or delayed and wherever client and server  *)
(* are killed (send_msg_to_server, delete_buf_msg).                        *)
(***************************************************************************)
OnlyFirstInFlight ==
    \A m \in Msg : InFlight(m) => handled[m] > 0 \/ IsFirst(m)

(***************************************************************************)
(* An acknowledgement, and the decision to send one, exist only for        *)
(* records that are in report.txt or whose serial was approved: the order  *)
(* of save_packet and send_buffer_to_client in server.c.                   *)
(***************************************************************************)
AckMeansHandled ==
    /\ \A m \in Msg : Acked(m) => handled[m] > 0
    /\ spc = "resolve" => handled[cur] > 0

(***************************************************************************)
(* Every client spools, buffers and rewrites records of its own host only, *)
(* there is exactly one record in the stdio buffer whenever write_log is   *)
(* about to close the spool, and nothing in the spool while delete_buf_msg *)
(* holds the other records in memory.                                      *)
(***************************************************************************)
RecordsOf(c) == {m \in Msg : Host[m] = c}

SpoolShape ==
    \A c \in Client :
        /\ spool[c] \in Seq(RecordsOf(c)) /\ rest[c] \in Seq(RecordsOf(c))
        /\ cpc[c] \in FlushPC => \E m \in RecordsOf(c) : buf[c] = <<m>>
        /\ cpc[c] = "rewrite" => spool[c] = <<>>

(***************************************************************************)
(* The inductive strengthening: what is on the wire is at the head of its  *)
(* spool or dealt with, and an acknowledgement means dealt with.  Each     *)
(* part needs the others: a head leaves the spool on an acknowledgement    *)
(* only, and a datagram is acknowledged only after it was dealt with.      *)
(***************************************************************************)
IInv == TypeOK /\ SpoolShape /\ OnlyFirstInFlight /\ AckMeansHandled

(***************************************************************************)
(* Each time a client forgets a record, the server has dealt with a copy   *)
(* of its own for it, also when equal records were spooled twice: a        *)
(* retransmission adds rows, a stale acknowledgement never saves one       *)
(* (get_ack_from_server).  An acknowledgement says nothing but a CRC32, so *)
(* each acknowledgement of m that the network duplicated may stand in for  *)
(* a handling of m, and nothing else does: no loss, kill, failed lookup or *)
(* duplicated datagram.  (Claimed as long as the count of m is exact.)     *)
(***************************************************************************)
Answers(m) ==
    discharged[m] + acks[Host[m]][Crc[m]]
      + (IF spc = "resolve" /\ cur = m THEN 1 ELSE 0)

OneHandlingPerDischarge ==
    \A m \in Msg :
        Exact(m) => Answers(m) <= handled[m] + dups[Host[m]][Crc[m]]

(***************************************************************************)
(* Whatever is spooled, or was discharged, has a line of its own in the    *)
(* local log .cul.r: print_log closes its file before the spool's buffer   *)
(* is flushed, and delete_buf_msg never writes a record back twice.        *)
(***************************************************************************)
SpoolWithinLocalLog ==
    \A m \in Msg :
        LET c == Host[m] IN
        discharged[m] + Copies(Pending(c), m) + Copies(buf[c], m) <= culr[m]

(***************************************************************************)
(* Client, network and server together implement Reporting: no event is    *)
(* forgotten before the server dealt with it, and the events of a host are *)
(* dealt with in the order of its spool.  It needs a delete_buf_msg that   *)
(* is not cut short: "rewrite" \notin KillPoints.                          *)
(***************************************************************************)
R == INSTANCE Reporting WITH
        pending <- [c \in Client |-> Pending(c)], handled <- HandledSet

ReportingSpec == R!Spec

(***************************************************************************)
(* Wherever a client is killed, it forgets all or nothing, and it forgets  *)
(* at one place only: a kill between erase_buf_file and fclose in          *)
(* delete_buf_msg costs the whole spool.  Everything else is a step of     *)
(* Reporting, and what the spool holds afterwards is still handled in its  *)
(* order.                                                                  *)
(***************************************************************************)
KilledInRewrite(c) == cpc[c] = "rewrite" /\ cpc'[c] = "down" /\ R!Crash(c)

CrashReportingSpec ==
    R!Init /\ [][R!Next \/ \E c \in Client : KilledInRewrite(c)]_(R!vars)

(***************************************************************************)
(* Every spooled record is discharged some day (so, by AckMeansHandled, it *)
(* is in report.txt or approved) although datagrams and acknowledgements   *)
(* get lost, lookups fail, and client and server are killed and restarted  *)
(* now and then: the retransmission of the head in the Big Loop.           *)
(***************************************************************************)
EventuallyDischarged ==
    \A m \in Msg : Copies(Pending(Host[m]), m) > 0 ~> discharged[m] > 0

(***************************************************************************)
(* "Client send message each time when User hot-plug USB flash" (Design):  *)
(* once an event is spooled, it stays until the server has dealt with it.  *)
(* The documented way to stop a client is kill -KILL, so KillPoints holds  *)
(* "rewrite" when this is checked; it fails there.                         *)
(***************************************************************************)
EventsSurviveKill ==
    [][\A m \in Msg :
          Copies(Pending(Host[m]), m) > 0 /\ handled[m] = 0
            => Copies(Pending(Host[m])', m) > 0]_vars

(***************************************************************************)
(* "If serial.txt doesn't exist on a file system, or serial number in just *)
(* received packet doesn't exist in the file serial.txt, server saves a    *)
(* report in the file report.txt" (Design): nothing else is approved.      *)
(***************************************************************************)
UnlistedIsReported ==
    [][spc = "check" /\ ~Listed(cur)
          => spc' \in {"check", "save", "down"}]_vars
=============================================================================
