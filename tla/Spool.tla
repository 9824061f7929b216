-------------------------------- MODULE Spool --------------------------------
(***************************************************************************)
(* The file .cul.b as bytes.  A record is a Wrapper (marker 0xA5 and the   *)
(* length) followed by its payload (first byte 0xBE, last byte 0xED); the  *)
(* readers trust the length.  No call checks what reached the disk: fwrite *)
(* goes to a stdio buffer and fclose's result is ignored, so a full disk   *)
(* leaves a torn record.  One client; the network keeps what was sent and  *)
(* delivers it late, again or never; any accepted payload may be           *)
(* acknowledged at any time.                                               *)
(***************************************************************************)
EXTENDS Integers, Sequences, Selection

CONSTANTS
    Msg,        \* the records
    LenOf,      \* LenOf[m]: cells of m's payload, its first and last among them
    MaxFaults,  \* short writes, failed allocations and kills in a behaviour
    KillPoints  \* values of pc at which the process may be killed and restarted

ASSUME LenAssumption == LenOf \in [Msg -> Nat \ {0, 1}]
ASSUME FaultsAssumption == MaxFaults \in Nat

VARIABLES
    pc,         \* where the Big Loop is
    file,       \* .cul.b, a sequence of cells
    pBuf,       \* delete_buf_msg's copy of what follows the first record
    logged,     \* records written so far, each once
    faults,     \* how much of MaxFaults is used
    torn,       \* history: whether a write was cut short
    lost,       \* history: whether anything may have lost records
    wire,       \* payloads ever sent
    accepted    \* payloads the server took for a packet

vars == <<pc, file, pBuf, logged, faults, torn, lost, wire, accepted>>

(* Cell 0 of a record is its Wrapper, cells 1 .. LenOf[m] are its payload. *)
Cell == UNION {{m} \X (0 .. LenOf[m]) : m \in Msg}
Wrap(m) == <<m, 0>>
IsWrapper(cell) == cell[2] = 0
Payload(m) == [i \in 1 .. LenOf[m] |-> <<m, i>>]
Bytes(m) == <<Wrap(m)>> \o Payload(m)

(* The records whose Wrapper is in a file, in order.                       *)
WrappersIn(f) == {i \in DOMAIN f : IsWrapper(f[i])}
RecordsIn(f) ==
    LET wrappers == Selected(f, WrappersIn(f))
    IN  [k \in DOMAIN wrappers |-> wrappers[k][1]]

(***************************************************************************)
(* A file is intact when it is those records and nothing else: it begins   *)
(* with a Wrapper, and each Wrapper with all of its payload is followed by *)
(* the next one or by nothing.                                             *)
(***************************************************************************)
End(f, i) == i + LenOf[f[i][1]]

Intact(f) ==
    /\ f # <<>> => IsWrapper(f[1])
    /\ \A i \in 1 .. Len(f) : IsWrapper(f[i]) =>
          /\ End(f, i) <= Len(f)
          /\ \A k \in i .. End(f, i) : f[k] = <<f[i][1], k - i>>
          /\ End(f, i) < Len(f) => IsWrapper(f[End(f, i) + 1])

(***************************************************************************)
(* get_msg_buf_len: the first cell must be a Wrapper, and as many cells as *)
(* its length says must follow.  Whose cells they are, nobody can tell.    *)
(***************************************************************************)
Readable ==
    /\ file # <<>> /\ IsWrapper(file[1])
    /\ LenOf[file[1][1]] <= Len(file) - 1

(* Mutant: the Wrapper is sent too and the last byte is not.               *)
HeadWithWrapper == SubSeq(file, 1, LenOf[file[1][1]])

HeadPayload == SubSeq(file, 2, LenOf[file[1][1]] + 1)
AfterHead == SubSeq(file, LenOf[file[1][1]] + 2, Len(file))

HeadIs(p) == IF Readable THEN HeadPayload = p ELSE FALSE

(* Mutant: only the first byte is compared.                                *)
WellBegun(p) == p[1][2] = 1

(* parse_packet accepts what starts with 0xBE and ends with 0xED.          *)
WellFormed(p) == p[1][2] = 1 /\ p[Len(p)][2] = LenOf[p[Len(p)][1]]

(* Types; delete_buf_msg's copy exists while delete_buf_msg runs.           *)
TypeOK ==
    /\ pc \in {"log", "send", "ack", "rewrite"}
    /\ file \in Seq(Cell) /\ pBuf \in Seq(Cell)
    /\ logged \subseteq Msg
    /\ faults \in 0 .. MaxFaults /\ torn \in BOOLEAN /\ (torn => lost)
    /\ \A p \in wire : p \in Seq(Cell) /\ p # <<>>
    /\ accepted \subseteq wire
    /\ pc # "rewrite" => pBuf = <<>>

Init ==
    /\ pc = "log" /\ file = <<>> /\ pBuf = <<>>
    /\ logged = {} /\ faults = 0 /\ wire = {} /\ accepted = {}
    /\ torn = FALSE /\ lost = FALSE

(* What a write of s at the end of f may leave when the disk is full.      *)
Torn(f, s) == {f \o SubSeq(s, 1, n) : n \in 0 .. Len(s) - 1}

Fault == faults < MaxFaults /\ faults' = faults + 1

CutShort == Fault /\ torn' = TRUE /\ lost' = TRUE

(* write_log: the record is appended, or the part of it that fits.         *)
WriteLog(m) ==
    /\ pc = "log" /\ pc' = "send"
    /\ m \notin logged /\ logged' = logged \cup {m}
    /\ \/ file' = file \o Bytes(m) /\ UNCHANGED <<faults, torn, lost>>
       \/ file' \in Torn(file, Bytes(m)) /\ CutShort
    /\ UNCHANGED <<pBuf, wire, accepted>>

NoEvent ==
    /\ pc = "log" /\ pc' = "send"
    /\ UNCHANGED <<file, pBuf, logged, faults, torn, lost, wire, accepted>>

(* erase_buf_file after a failed read: the whole spool goes.               *)
AfterRead == file' = IF Readable THEN file ELSE <<>>

SendMsgToServer ==
    /\ pc = "send" /\ pc' = "ack"
    /\ AfterRead
    /\ wire' = IF Readable THEN wire \cup {HeadPayload} ELSE wire
    /\ UNCHANGED <<pBuf, logged, faults, torn, lost, accepted>>

(* The server receives p: a packet it cannot parse is dropped unanswered.  *)
ServerAccept(p) ==
    /\ p \in wire \ accepted
    /\ WellFormed(p)
    /\ accepted' = accepted \cup {p}
    /\ UNCHANGED <<pc, file, pBuf, logged, faults, torn, lost, wire>>

NoAck ==
    /\ pc = "ack" /\ pc' = "log"
    /\ UNCHANGED <<file, pBuf, logged, faults, torn, lost, wire, accepted>>

(* An acknowledgement of p: get_msg_crc reads the head once more.          *)
IgnoreAck(p) ==
    /\ p \in accepted
    /\ pc = "ack" /\ pc' = "log"
    /\ ~HeadIs(p)
    /\ AfterRead
    /\ UNCHANGED <<pBuf, logged, faults, torn, lost, wire, accepted>>

(* Mutant: fileSize and pBufOffset leave out sizeof(Wrapper).              *)
DeleteForgetsWrapper(p) ==
    /\ p \in accepted
    /\ pc = "ack" /\ pc' = "rewrite"
    /\ HeadIs(p)
    /\ pBuf' = SubSeq(file, LenOf[file[1][1]] + 1, Len(file))
    /\ file' = <<>>
    /\ UNCHANGED <<logged, faults, torn, lost, wire, accepted>>

(* Mutant: whatever is acknowledged, the first record goes.                *)
DeleteOnAnyAck(p) ==
    /\ p \in accepted
    /\ pc = "ack" /\ pc' = "rewrite"
    /\ Readable
    /\ pBuf' = AfterHead
    /\ file' = <<>>
    /\ UNCHANGED <<logged, faults, torn, lost, wire, accepted>>

(* delete_buf_msg up to erase_buf_file.                                    *)
DeleteBufMsg(p) ==
    /\ p \in accepted
    /\ pc = "ack" /\ pc' = "rewrite"
    /\ HeadIs(p)
    /\ pBuf' = AfterHead
    /\ file' = <<>>
    /\ UNCHANGED <<logged, faults, torn, lost, wire, accepted>>

(* malloc fails: erase = 1, the whole spool goes.                          *)
DeleteFails(p) ==
    /\ p \in accepted
    /\ pc = "ack" /\ pc' = "log"
    /\ HeadIs(p)
    /\ file' = <<>>
    /\ Fault /\ lost' = TRUE
    /\ UNCHANGED <<pBuf, logged, torn, wire, accepted>>

(* Mutant: the copy is written back and not freed.                         *)
RewriteKeepsBuf ==
    /\ pc = "rewrite" /\ pc' = "log"
    /\ file' = pBuf
    /\ UNCHANGED <<pBuf, logged, faults, torn, lost, wire, accepted>>

(***************************************************************************)
(* The rest is written back.  A full disk shows in fwrite when the rest    *)
(* exceeds the stdio buffer (then everything is erased), else in fclose    *)
(* only (then what fits stays).                                            *)
(***************************************************************************)
RewriteSpool ==
    /\ pc = "rewrite" /\ pc' = "log"
    /\ \/ file' = pBuf /\ UNCHANGED <<faults, torn, lost>>
       \/ file' \in Torn(<<>>, pBuf) /\ CutShort
    /\ pBuf' = <<>>
    /\ UNCHANGED <<logged, wire, accepted>>

(* SIGKILL, and the restart that finds the file as it is.                  *)
Kill ==
    /\ pc \in KillPoints
    /\ pc' = "log" /\ pBuf' = <<>>
    /\ Fault /\ lost' = (lost \/ pc = "rewrite")
    /\ UNCHANGED <<file, logged, torn, wire, accepted>>

GetAckFromServer(p) == IgnoreAck(p) \/ DeleteBufMsg(p) \/ DeleteFails(p)

BigLoop ==
    \/ \E m \in Msg : WriteLog(m)
    \/ NoEvent \/ SendMsgToServer \/ NoAck \/ RewriteSpool
    \/ \E p \in accepted : GetAckFromServer(p)

Next ==
    \/ BigLoop
    \/ \E p \in wire : ServerAccept(p)
    \/ Kill

Spec == Init /\ [][Next]_vars

(***************************************************************************)
(* Fairness: the loop goes on, a payload that was sent arrives some day,   *)
(* and an acknowledgement that keeps matching the head is read some day.   *)
(* Nothing forces an event, a fault or a kill.                             *)
(***************************************************************************)
FairSpec ==
    /\ Spec
    /\ WF_vars(BigLoop)
    /\ WF_vars(\E p \in wire : ServerAccept(p))
    /\ SF_vars(\E p \in accepted : DeleteBufMsg(p))

InMemory == pc = "rewrite"

Pending == RecordsIn(IF InMemory THEN pBuf ELSE file)

HandledSet == {m \in Msg : Payload(m) \in accepted}

(***************************************************************************)
(* As long as no write is cut short, .cul.b is a sequence of whole records *)
(* after every step, kills and failed allocations included: the lengths    *)
(* and offsets of write_log, get_msg_buf_len and delete_buf_msg agree, and *)
(* no read takes a byte inside a record for a Wrapper.                     *)
(***************************************************************************)
SpoolIntact == ~torn => Intact(file) /\ Intact(pBuf)

(***************************************************************************)
(* A torn record is followed by the next one's Wrapper and bytes, and the  *)
(* length of the first may reach just to the end of a later one.           *)
(* parse_packet looks at the first and the last byte only, so it accepts   *)
(* such a composition: the report begins with the torn record's fields and *)
(* the later record is removed unsent.  The "start logger" record (empty   *)
(* fields, ClientUSBLogger.c 361-366) is short enough to end inside the    *)
(* length of any device's.  Nothing else is accepted but the payload of    *)
(* one record: whatever was cut off, sent late or removed, a composition   *)
(* begins as a record does and ends with all of another one, shorter by    *)
(* more than a Wrapper.                                                    *)
(***************************************************************************)
EndsWith(p, n) == \A k \in 0 .. LenOf[n] : p[Len(p) - k] = <<n, LenOf[n] - k>>

Composition(p) ==
    \E m, n \in Msg :
        /\ LenOf[n] + 1 < LenOf[m]
        /\ Len(p) = LenOf[m] /\ p[1] = <<m, 1>> /\ EndsWith(p, n)

WholeOrComposed ==
    \A p \in accepted : (\E m \in Msg : p = Payload(m)) \/ (torn /\ Composition(p))

(***************************************************************************)
(* The bytes implement the queue of Reporting until a write is cut short,  *)
(* an allocation fails or a kill hits delete_buf_msg: no read of the file  *)
(* by its lengths loses, repeats or reorders a record.                     *)
(***************************************************************************)
Cul == "cul"
R == INSTANCE Reporting WITH
        Client <- {Cul}, Host <- [m \in Msg |-> Cul],
        pending <- [c \in {Cul} |-> Pending], handled <- HandledSet

ReportingUntilLoss == R!Init /\ [][R!Next \/ lost']_<<Pending, HandledSet>>

(***************************************************************************)
(* Every record that stands whole in the spool reaches the server, unless  *)
(* something loses it: the retransmission of send_msg_to_server.           *)
(***************************************************************************)
Whole(m) ==
    \E i \in 1 .. Len(file) - LenOf[m] : SubSeq(file, i, i + LenOf[m]) = Bytes(m)

EventuallyReported == \A m \in Msg : Whole(m) ~> m \in HandledSet \/ lost

(***************************************************************************)
(* "Client send message each time when User hot-plug USB flash, SD card"   *)
(* (Design): the spool runs empty again and again, since every record in   *)
(* it is sent and removed and the records are finitely many.  One write    *)
(* cut short is enough to refute it: what follows completes the torn       *)
(* record to something readable, which the server refuses for ever.        *)
(***************************************************************************)
SpoolDrains == []<>(~InMemory /\ file = <<>>)
=============================================================================
