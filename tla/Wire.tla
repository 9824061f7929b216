-------------------------------- MODULE Wire --------------------------------
(***************************************************************************)
(* The two UDP paths between the clients (cul) and the server: datagrams   *)
(* that carry a record to port 1230 (PORT) and acknowledgements that carry *)
(* the CRC32 of a datagram back to port 1231 (PORT_ACK) of the host named  *)
(* in the record.  UDP may lose, duplicate and reorder both, so a path is  *)
(* a number of copies per content.                                         *)
(***************************************************************************)
EXTENDS Integers

CONSTANTS
    Client,     \* the hosts that run cul
    Msg,        \* the records a client may ever serialise, by content
    Host,       \* Host[m]: the client named in field "Host" of record m
    Crc,        \* Crc[m]: the CRC32 of the bytes of record m
    MaxNet,     \* copies of one content a path holds; a further one is dropped
    MaxFaults,  \* losses, duplications, kills and failed lookups in a behaviour
    DupAcks     \* whether the network may duplicate an acknowledgement

ASSUME HostAssumption == Host \in [Msg -> Client]
ASSUME CrcAssumption == Crc \in [Msg -> Nat]
ASSUME BoundAssumption == MaxNet \in Nat /\ MaxFaults \in Nat

(***************************************************************************)
(* The client compares CRC32 values only, so it relies on two different    *)
(* records of one host never sharing one (32 bits make that unlikely, not  *)
(* impossible).                                                            *)
(***************************************************************************)
ASSUME CrcInjective ==
    \A m, n \in Msg : Host[m] = Host[n] /\ Crc[m] = Crc[n] => m = n

VARIABLES
    dgrams,     \* dgrams[m]: copies of m on the way to the server or in its socket
    acks,       \* acks[c][k]: copies of acknowledgement k for c, in flight or in its socket
    faults,     \* how much of MaxFaults is used
    dups        \* history: dups[c][k], how often the network duplicated k for c

wireVars == <<dgrams, acks, faults, dups>>

CrcVal == {Crc[m] : m \in Msg}

WireTypeOK ==
    /\ dgrams \in [Msg -> Nat]
    /\ acks \in [Client -> [CrcVal -> Nat]]
    /\ faults \in 0 .. MaxFaults
    /\ dups \in [Client -> [CrcVal -> Nat]]

WireInit ==
    /\ dgrams = [m \in Msg |-> 0]
    /\ acks = [c \in Client |-> [k \in CrcVal |-> 0]]
    /\ faults = 0
    /\ dups = [c \in Client |-> [k \in CrcVal |-> 0]]

PutDgram(m) ==
    dgrams' = [dgrams EXCEPT ![m] = IF @ < MaxNet THEN @ + 1 ELSE @]

PutAck(c, k) ==
    acks' = [acks EXCEPT ![c][k] = IF @ < MaxNet THEN @ + 1 ELSE @]

GetDgram(m) == dgrams[m] > 0 /\ dgrams' = [dgrams EXCEPT ![m] = @ - 1]

GetAck(c, k) == acks[c][k] > 0 /\ acks' = [acks EXCEPT ![c][k] = @ - 1]

Fault == faults < MaxFaults /\ faults' = faults + 1

LoseDgram(m) == Fault /\ GetDgram(m) /\ UNCHANGED <<acks, dups>>

LoseAck(c, k) == Fault /\ GetAck(c, k) /\ UNCHANGED <<dgrams, dups>>

DupDgram(m) ==
    /\ Fault /\ dgrams[m] \in 1 .. MaxNet - 1 /\ PutDgram(m)
    /\ UNCHANGED <<acks, dups>>

DupAck(c, k) ==
    /\ DupAcks
    /\ Fault /\ acks[c][k] \in 1 .. MaxNet - 1 /\ PutAck(c, k)
    /\ dups' = [dups EXCEPT ![c][k] = @ + 1]
    /\ UNCHANGED dgrams

WireNext ==
    \/ \E m \in Msg : LoseDgram(m) \/ DupDgram(m)
    \/ \E c \in Client, k \in CrcVal : LoseAck(c, k) \/ DupAck(c, k)
=============================================================================
