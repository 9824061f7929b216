--------------------------- MODULE UsbLoggerProofs ---------------------------
(***************************************************************************)
(* Proofs about UsbLogger, for every set of clients and records and every  *)
(* bound.                                                                  *)
(***************************************************************************)
EXTENDS UsbLogger, FiniteSetTheorems, TLAPS

ConstantFacts ==
    /\ Host \in [Msg -> Client] /\ Crc \in [Msg -> Nat]
    /\ MaxNet \in Nat /\ MaxFaults \in Nat
    /\ BootMsg \subseteq Msg
    /\ Serial \in [Msg -> SerialNo]
    /\ NoMsg \notin Msg /\ (\A S \in SUBSET SerialNo : S # NoFile) /\ MaxHandled \in Nat \ {0}
    /\ InitFiles \subseteq {NoFile} \cup SUBSET SerialNo

(* The assumptions of all modules together.                                *)
LEMMA Constants == ConstantFacts
BY HostAssumption, CrcAssumption, BoundAssumption, BootAssumption,
   SerialAssumption, NoMsgAssumption, NoFileAssumption, MaxHandledAssumption,
   InitFilesAssumption
   DEF ConstantFacts

(* The empty spool.                                                        *)
LEMMA EmptySeq == <<>> \in Seq(Msg)
OBVIOUS

(* The types at first.                                                     *)
LEMMA TypeInit == Init => TypeOK
BY Constants DEF ConstantFacts, Init, TypeOK, WireInit, ClientInit, ServerInit,
   WireTypeOK, ClientTypeOK, ServerTypeOK, ClientPC, ServerPC, CrcVal

(* Taking a copy off a path, or adding one, leaves its counts natural.     *)
LEMMA PathTypes ==
    ASSUME WireTypeOK
    PROVE  /\ \A m \in Msg : GetDgram(m) => dgrams' \in [Msg -> Nat]
           /\ \A m \in Msg : PutDgram(m) => dgrams' \in [Msg -> Nat]
           /\ \A c \in Client, k \in CrcVal :
                 GetAck(c, k) => acks' \in [Client -> [CrcVal -> Nat]]
           /\ \A c \in Client, k \in CrcVal :
                 PutAck(c, k) => acks' \in [Client -> [CrcVal -> Nat]]
<1> USE DEF WireTypeOK
<1>1. ASSUME NEW m \in Msg, GetDgram(m) PROVE dgrams' \in [Msg -> Nat]
  <2>1. dgrams[m] \in Nat /\ dgrams[m] > 0
    BY <1>1 DEF GetDgram
  <2>2. dgrams[m] - 1 \in Nat
    BY <2>1
  <2> QED
    BY <1>1, <2>2 DEF GetDgram
<1>2. ASSUME NEW m \in Msg, PutDgram(m) PROVE dgrams' \in [Msg -> Nat]
  BY <1>2 DEF PutDgram
<1>3. ASSUME NEW c \in Client, NEW k \in CrcVal, GetAck(c, k)
      PROVE  acks' \in [Client -> [CrcVal -> Nat]]
  <2>1. acks[c] \in [CrcVal -> Nat] /\ acks[c][k] > 0
    BY <1>3 DEF GetAck
  <2>2. acks[c][k] - 1 \in Nat
    BY <2>1
  <2>3. [acks[c] EXCEPT ![k] = @ - 1] \in [CrcVal -> Nat]
    BY <2>1, <2>2
  <2> QED
    BY <1>3, <2>3 DEF GetAck
<1>4. ASSUME NEW c \in Client, NEW k \in CrcVal, PutAck(c, k)
      PROVE  acks' \in [Client -> [CrcVal -> Nat]]
  <2>1. acks[c] \in [CrcVal -> Nat] /\ acks[c][k] \in Nat
    OBVIOUS
  <2>2. (IF acks[c][k] < MaxNet THEN acks[c][k] + 1 ELSE acks[c][k]) \in Nat
    BY <2>1
  <2>3. [acks[c] EXCEPT ![k] = IF @ < MaxNet THEN @ + 1 ELSE @] \in [CrcVal -> Nat]
    BY <2>1, <2>2
  <2> QED
    BY <1>4, <2>3 DEF PutAck
<1> QED
  BY <1>1, <1>2, <1>3, <1>4

(***************************************************************************)
(* No step leaves the types: in particular a queue of records stays one,   *)
(* and buf holds a record exactly between recvfrom and its reset.          *)
(***************************************************************************)
LEMMA TypeStep == TypeOK /\ [Next]_vars => TypeOK'
<1> SUFFICES ASSUME TypeOK, [Next]_vars PROVE TypeOK'
  OBVIOUS
<1> USE Constants DEF ConstantFacts
<1>1. CASE ClientNext /\ UNCHANGED serverVars
  <2>1. ServerTypeOK'
    BY <1>1 DEF TypeOK, ServerTypeOK, serverVars
  <2>2. PICK c \in Client :
            \/ StartClient(c) \/ ClientStep(c) \/ KillClient(c)
            \/ \E k \in CrcVal : AckToClosedPort(c, k)
    BY <1>1 DEF ClientNext
  <2> USE DEF TypeOK, WireTypeOK, ClientTypeOK, ClientPC, wireVars, Goto
  <2>3. CASE StartClient(c)
    BY <2>1, <2>3 DEF StartClient
  <2>4. CASE LogStart(c)
    BY <2>1, <2>4 DEF LogStart, WriteLog
  <2>5. CASE FlushStart(c)
    BY <2>1, <2>5 DEF FlushStart, FlushSpool
  <2>6. CASE LogPresentDisk(c)
    BY <2>1, <2>6 DEF LogPresentDisk, WriteLog
  <2>7. CASE FlushPresentDisk(c)
    BY <2>1, <2>7 DEF FlushPresentDisk, FlushSpool
  <2>8. CASE EnumerateDone(c)
    BY <2>1, <2>8 DEF EnumerateDone
  <2>9. CASE LogEvent(c)
    BY <2>1, <2>9 DEF LogEvent, WriteLog
  <2>10. CASE FlushEvent(c)
    BY <2>1, <2>10 DEF FlushEvent, FlushSpool
  <2>11. CASE NoEvent(c)
    BY <2>1, <2>11 DEF NoEvent
  <2>12. CASE SendMsgToServer(c)
    <3>1. spool[c] # <<>> => Head(spool[c]) \in Msg
      OBVIOUS
    <3> QED
      BY <2>1, <2>12, <3>1, PathTypes DEF SendMsgToServer
  <2>13. CASE NoAck(c)
    BY <2>1, <2>13 DEF NoAck
  <2>14. CASE \E k \in CrcVal : IgnoreAck(c, k)
    BY <2>1, <2>14, PathTypes DEF IgnoreAck
  <2>15. CASE \E k \in CrcVal : DeleteBufMsg(c, k)
    <3>1. PICK k \in CrcVal : DeleteBufMsg(c, k)
      BY <2>15
    <3>2. /\ spool[c] \in Seq(Msg) /\ spool[c] # <<>>
          /\ Head(spool[c]) \in Msg /\ Tail(spool[c]) \in Seq(Msg)
      BY <3>1 DEF DeleteBufMsg
    <3>3. /\ cpc' \in [Client -> ClientPC] /\ spool' \in [Client -> Seq(Msg)]
          /\ rest' \in [Client -> Seq(Msg)]
      BY <3>1, <3>2, EmptySeq DEF DeleteBufMsg
    <3>4. discharged' \in [Msg -> Nat]
      <4>1. PICK m \in Msg : m = Head(spool[c])
        BY <3>2
      <4>2. discharged' = [discharged EXCEPT ![m] = @ + 1]
        BY <3>1, <4>1 DEF DeleteBufMsg
      <4> QED
        BY <4>2, SMTT(30)
    <3>5. buf' \in [Client -> Seq(Msg)] /\ culr' \in [Msg -> Nat]
      <4>1. buf' = buf /\ culr' = culr
        BY <3>1 DEF DeleteBufMsg
      <4> QED
        BY <3>1, <4>1
    <3>6. WireTypeOK'
      BY <3>1, PathTypes DEF DeleteBufMsg
    <3> QED
      BY <2>1, <3>3, <3>4, <3>5, <3>6
  <2>16. CASE RewriteSpool(c)
    BY <2>1, <2>16, EmptySeq DEF RewriteSpool
  <2>17. CASE KillClient(c)
    <3>1. /\ cpc' \in [Client -> ClientPC] /\ buf' \in [Client -> Seq(Msg)]
          /\ rest' \in [Client -> Seq(Msg)]
      BY <2>17, EmptySeq DEF KillClient
    <3>2. /\ spool' \in [Client -> Seq(Msg)]
          /\ culr' \in [Msg -> Nat] /\ discharged' \in [Msg -> Nat]
      BY <2>17 DEF KillClient
    <3>3. WireTypeOK'
      BY <2>17 DEF KillClient, Fault
    <3> QED
      BY <2>1, <3>1, <3>2, <3>3
  <2>18. CASE \E k \in CrcVal : AckToClosedPort(c, k)
    BY <2>1, <2>18, PathTypes DEF AckToClosedPort, clientVars
  <2> QED
    BY <2>2, <2>3, <2>4, <2>5, <2>6, <2>7, <2>8, <2>9, <2>10, <2>11, <2>12, <2>13, <2>14, <2>15, <2>16, <2>17, <2>18
       DEF ClientStep, GetAckFromServer
<1>2. CASE ServerNext /\ UNCHANGED clientVars
  <2>1. ClientTypeOK'
    BY <1>2 DEF TypeOK, ClientTypeOK, clientVars
  <2> USE DEF TypeOK, WireTypeOK, ServerTypeOK, ServerPC, wireVars, HandleCur
  <2>2. CASE StartServer
    BY <2>1, <2>2 DEF StartServer
  <2>3. CASE \E m \in Msg : Receive(m)
    BY <2>1, <2>3 DEF Receive, GetDgram
  <2>4. CASE Approve
    BY <2>1, <2>4 DEF Approve
  <2>5. CASE Report
    BY <2>1, <2>5 DEF Report
  <2>6. CASE SavePacket
    BY <2>1, <2>6 DEF SavePacket
  <2>7. CASE SendAck
    <3>1. cur \in Msg /\ Host[cur] \in Client /\ Crc[cur] \in CrcVal
      BY <2>7 DEF SendAck, CrcVal
    <3>2. WireTypeOK'
      BY <2>7, <3>1, PathTypes DEF SendAck
    <3>3. ServerTypeOK'
      BY <2>7 DEF SendAck
    <3> QED
      BY <2>1, <3>2, <3>3
  <2>8. CASE ResolveFails
    BY <2>1, <2>8 DEF ResolveFails, Fault
  <2>9. CASE KillServer
    BY <2>1, <2>9 DEF KillServer, Fault
  <2>10. CASE \E m \in Msg : DgramToClosedPort(m)
    BY <2>1, <2>10 DEF DgramToClosedPort, GetDgram, serverVars
  <2>11. CASE RewriteList
    BY <2>1, <2>11 DEF RewriteList
  <2> QED
    BY <1>2, <2>2, <2>3, <2>4, <2>5, <2>6, <2>7, <2>8, <2>9, <2>10, <2>11
       DEF ServerNext, ServerStep
<1>3. CASE WireNext /\ UNCHANGED <<clientVars, serverVars>>
  <2>1. ClientTypeOK' /\ ServerTypeOK'
    BY <1>3 DEF TypeOK, ClientTypeOK, ServerTypeOK, clientVars, serverVars
  <2>2. CASE \E c \in Client, k \in CrcVal : DupAck(c, k)
    <3>1. PICK c \in Client, k \in CrcVal : DupAck(c, k)
      BY <2>2
    <3>2. [dups[c] EXCEPT ![k] = @ + 1] \in [CrcVal -> Nat]
      BY DEF TypeOK, WireTypeOK
    <3>3. dups' = [dups EXCEPT ![c] = [dups[c] EXCEPT ![k] = @ + 1]]
      BY <3>1 DEF DupAck
    <3> QED
      BY <2>1, <3>1, <3>2, <3>3, PathTypes DEF TypeOK, WireTypeOK, DupAck, Fault
  <2>3. CASE UNCHANGED dups
    BY <1>3, <2>1, <2>3, PathTypes DEF TypeOK, WireTypeOK, WireNext, LoseDgram, LoseAck,
       DupDgram, DupAck, Fault
  <2> QED
    BY <1>3, <2>2, <2>3 DEF WireNext, LoseDgram, LoseAck, DupDgram
<1>4. CASE UNCHANGED vars
  BY <1>4 DEF TypeOK, WireTypeOK, ClientTypeOK, ServerTypeOK, vars, wireVars,
     clientVars, serverVars
<1> QED
  BY <1>1, <1>2, <1>3, <1>4 DEF Next

(* TypeOK holds in every reachable state of client, network and server.    *)
THEOREM TypeCorrect == Spec => []TypeOK
BY TypeInit, TypeStep, PTL DEF Spec

(* The spools at first.                                                    *)
LEMMA ShapeInit == Init => SpoolShape
<1>1. \A c \in Client : <<>> \in Seq(RecordsOf(c))
  OBVIOUS
<1> QED
  BY <1>1 DEF Init, ClientInit, SpoolShape, FlushPC

(* No step mixes hosts; the spool stays empty while it is rewritten.       *)
LEMMA ShapeStep == TypeOK /\ SpoolShape /\ [Next]_vars => SpoolShape'
<1> SUFFICES ASSUME TypeOK, SpoolShape, [Next]_vars, NEW d \in Client
             PROVE  /\ spool'[d] \in Seq(RecordsOf(d)) /\ rest'[d] \in Seq(RecordsOf(d))
                    /\ cpc'[d] \in FlushPC => \E m \in RecordsOf(d) : buf'[d] = <<m>>
                    /\ cpc'[d] = "rewrite" => spool'[d] = <<>>
  BY DEF SpoolShape
<1> /\ spool[d] \in Seq(RecordsOf(d)) /\ rest[d] \in Seq(RecordsOf(d))
    /\ cpc[d] \in FlushPC => \E m \in RecordsOf(d) : buf[d] = <<m>>
    /\ cpc[d] = "rewrite" => spool[d] = <<>>
  BY DEF SpoolShape
<1> /\ cpc \in [Client -> ClientPC] /\ spool \in [Client -> Seq(Msg)]
    /\ buf \in [Client -> Seq(Msg)] /\ rest \in [Client -> Seq(Msg)]
  BY DEF TypeOK, ClientTypeOK
<1>e. <<>> \in Seq(RecordsOf(d))
  OBVIOUS
<1>1. CASE ClientNext /\ UNCHANGED serverVars
  <2>1. PICK c \in Client :
            \/ StartClient(c) \/ ClientStep(c) \/ KillClient(c)
            \/ \E k \in CrcVal : AckToClosedPort(c, k)
    BY <1>1 DEF ClientNext
  <2> USE DEF Goto, FlushPC, ClientPC
  <2>f. ASSUME FlushSpool(c), cpc[c] \in FlushPC
        PROVE  /\ spool'[d] \in Seq(RecordsOf(d)) /\ rest' = rest
               /\ c # d => spool'[d] = spool[d] /\ buf'[d] = buf[d]
    <3>1. CASE c = d
      <4>1. PICK m \in RecordsOf(d) : buf[d] = <<m>>
        BY <2>f, <3>1
      <4>2. spool'[d] = spool[d] \o <<m>>
        BY <2>f, <3>1, <4>1 DEF FlushSpool
      <4>3. <<m>> \in Seq(RecordsOf(d))
        OBVIOUS
      <4> QED
        BY <2>f, <4>2, <4>3 DEF FlushSpool
    <3>2. CASE c # d
      BY <2>f, <3>2 DEF FlushSpool
    <3> QED
      BY <3>1, <3>2
  <2>2. CASE StartClient(c)
    BY <2>2, <1>e DEF StartClient
  <2>3. CASE LogStart(c)
    BY <2>3, Constants DEF ConstantFacts, LogStart, WriteLog, RecordsOf
  <2>4. CASE FlushStart(c)
    BY <2>4, <2>f DEF FlushStart
  <2>5. CASE LogPresentDisk(c)
    BY <2>5, Constants DEF ConstantFacts, LogPresentDisk, WriteLog, RecordsOf
  <2>6. CASE FlushPresentDisk(c)
    BY <2>6, <2>f DEF FlushPresentDisk
  <2>7. CASE EnumerateDone(c)
    BY <2>7, <1>e DEF EnumerateDone
  <2>8. CASE LogEvent(c)
    BY <2>8, Constants DEF ConstantFacts, LogEvent, WriteLog, RecordsOf
  <2>9. CASE FlushEvent(c)
    BY <2>9, <2>f DEF FlushEvent
  <2>10. CASE NoEvent(c)
    BY <2>10, <1>e DEF NoEvent
  <2>11. CASE SendMsgToServer(c)
    BY <2>11, <1>e DEF SendMsgToServer
  <2>12. CASE NoAck(c)
    BY <2>12, <1>e DEF NoAck
  <2>13. CASE \E k \in CrcVal : IgnoreAck(c, k)
    BY <2>13, <1>e DEF IgnoreAck
  <2>14. CASE \E k \in CrcVal : DeleteBufMsg(c, k)
    BY <2>14, <1>e DEF DeleteBufMsg
  <2>15. CASE RewriteSpool(c)
    BY <2>15, <1>e DEF RewriteSpool
  <2>16. CASE KillClient(c)
    BY <2>16, <1>e DEF KillClient
  <2>17. CASE \E k \in CrcVal : AckToClosedPort(c, k)
    BY <2>17, <1>e DEF AckToClosedPort, clientVars
  <2> QED
    BY <2>1, <2>2, <2>3, <2>4, <2>5, <2>6, <2>7, <2>8, <2>9, <2>10, <2>11, <2>12, <2>13, <2>14, <2>15, <2>16, <2>17
       DEF ClientStep, GetAckFromServer
<1>2. CASE UNCHANGED clientVars
  BY <1>2 DEF clientVars
<1> QED
  BY <1>1, <1>2 DEF Next, vars

(* Types and the shape of the spools hold.                                 *)
LEMMA ShapeCorrect == Spec => [](TypeOK /\ SpoolShape)
BY TypeInit, TypeStep, ShapeInit, ShapeStep, PTL DEF Spec

(* What taking or adding one copy does to the count of every content.      *)
LEMMA PathCounts ==
    ASSUME WireTypeOK
    PROVE  /\ \A c \in Client, k \in CrcVal, d \in Client, j \in CrcVal : GetAck(c, k) =>
                 acks'[d][j] = IF c = d /\ k = j THEN acks[d][j] - 1 ELSE acks[d][j]
           /\ \A c \in Client, k \in CrcVal, d \in Client, j \in CrcVal : PutAck(c, k) =>
                 acks'[d][j] = IF c = d /\ k = j /\ acks[d][j] < MaxNet
                               THEN acks[d][j] + 1 ELSE acks[d][j]
           /\ \A m \in Msg, n \in Msg : GetDgram(m) =>
                 dgrams'[n] = IF m = n THEN dgrams[n] - 1 ELSE dgrams[n]
           /\ \A m \in Msg, n \in Msg : PutDgram(m) =>
                 dgrams'[n] = IF m = n /\ dgrams[n] < MaxNet
                              THEN dgrams[n] + 1 ELSE dgrams[n]
<1> USE DEF WireTypeOK
<1>1. ASSUME NEW c \in Client, NEW k \in CrcVal, NEW d \in Client, NEW j \in CrcVal,
             GetAck(c, k)
      PROVE  acks'[d][j] = IF c = d /\ k = j THEN acks[d][j] - 1 ELSE acks[d][j]
  <2>1. acks[c] \in [CrcVal -> Nat]
    OBVIOUS
  <2>2. acks' = [acks EXCEPT ![c] = [acks[c] EXCEPT ![k] = acks[c][k] - 1]]
    BY <1>1 DEF GetAck
  <2> QED
    BY <2>1, <2>2
<1>2. ASSUME NEW c \in Client, NEW k \in CrcVal, NEW d \in Client, NEW j \in CrcVal,
             PutAck(c, k)
      PROVE  acks'[d][j] = IF c = d /\ k = j /\ acks[d][j] < MaxNet
                           THEN acks[d][j] + 1 ELSE acks[d][j]
  <2>1. acks[c] \in [CrcVal -> Nat]
    OBVIOUS
  <2>2. acks' = [acks EXCEPT ![c] = [acks[c] EXCEPT ![k] =
                    IF acks[c][k] < MaxNet THEN acks[c][k] + 1 ELSE acks[c][k]]]
    BY <1>2 DEF PutAck
  <2> QED
    BY <2>1, <2>2
<1>3. ASSUME NEW m \in Msg, NEW n \in Msg, GetDgram(m)
      PROVE  dgrams'[n] = IF m = n THEN dgrams[n] - 1 ELSE dgrams[n]
  BY <1>3 DEF GetDgram
<1>4. ASSUME NEW m \in Msg, NEW n \in Msg, PutDgram(m)
      PROVE  dgrams'[n] = IF m = n /\ dgrams[n] < MaxNet
                          THEN dgrams[n] + 1 ELSE dgrams[n]
  BY <1>4 DEF PutDgram
<1> QED
  BY <1>1, <1>2, <1>3, <1>4

(* What was handled stays handled.                                         *)
LEMMA HandledGrows ==
    ASSUME TypeOK, [Next]_vars, NEW m \in Msg
    PROVE  /\ handled[m] \in Nat
           /\ handled[m] > 0 => handled'[m] > 0
<1> handled \in [Msg -> 0 .. MaxHandled]
  BY DEF TypeOK, ServerTypeOK
<1> USE Constants DEF ConstantFacts
<1>1. CASE ServerNext
  <2>1. CASE Approve
    BY <2>1 DEF Approve, HandleCur
  <2>2. CASE SavePacket
    BY <2>2 DEF SavePacket, HandleCur
  <2>3. CASE UNCHANGED handled
    BY <2>3
  <2> QED
    BY <1>1, <2>1, <2>2, <2>3 DEF ServerNext, ServerStep, StartServer, Receive,
       Report, SendAck, ResolveFails, KillServer, DgramToClosedPort, RewriteList, serverVars
<1>2. CASE UNCHANGED serverVars
  BY <1>2 DEF serverVars
<1> QED
  BY <1>1, <1>2 DEF Next, vars

(* An acknowledgement appears only for the record the server just handled. *)
LEMMA NewAck ==
    ASSUME TypeOK, [Next]_vars, NEW m \in Msg
    PROVE  Acked(m)' => Acked(m) \/ (spc = "resolve" /\ cur = m)
<1> WireTypeOK
  BY DEF TypeOK
<1>0. Host[m] \in Client /\ Crc[m] \in CrcVal
  BY Constants DEF ConstantFacts, CrcVal
<1>1. Host[m] \in Client /\ Crc[m] \in CrcVal /\ acks[Host[m]][Crc[m]] \in Nat
  BY <1>0 DEF WireTypeOK
<1>2. CASE UNCHANGED acks
  BY <1>2 DEF Acked
<1>3. CASE \E c \in Client, k \in CrcVal : GetAck(c, k)
  BY <1>1, <1>3, PathCounts DEF Acked
<1>4. CASE SendAck
  <2>1. cur \in Msg /\ Host[cur] \in Client /\ Crc[cur] \in CrcVal
    BY <1>4, Constants DEF ConstantFacts, SendAck, TypeOK, ServerTypeOK, CrcVal
  <2>2. CASE Host[cur] = Host[m] /\ Crc[cur] = Crc[m]
    BY <1>4, <2>1, <2>2, CrcInjective DEF SendAck
  <2>3. CASE ~(Host[cur] = Host[m] /\ Crc[cur] = Crc[m])
    BY <1>1, <1>4, <2>1, <2>3, PathCounts DEF SendAck, Acked
  <2> QED
    BY <2>2, <2>3
<1>5. CASE \E c \in Client, k \in CrcVal : DupAck(c, k)
  <2>1. PICK c \in Client, k \in CrcVal : DupAck(c, k)
    BY <1>5
  <2>2. acks[c][k] > 0
    BY <2>1, Constants DEF ConstantFacts, DupAck
  <2> QED
    BY <1>1, <2>1, <2>2, PathCounts DEF DupAck, Acked
<1> QED
  BY <1>2, <1>3, <1>4, <1>5
     DEF Next, vars, wireVars, ClientNext, ClientStep, ServerNext, ServerStep, WireNext,
         StartClient, LogStart, LogPresentDisk, LogEvent, WriteLog, FlushStart,
         FlushPresentDisk, FlushEvent, FlushSpool, EnumerateDone, NoEvent, SendMsgToServer,
         NoAck, GetAckFromServer, IgnoreAck, DeleteBufMsg, RewriteSpool, KillClient,
         AckToClosedPort, StartServer, Receive, Approve, Report, SavePacket, ResolveFails,
         KillServer, DgramToClosedPort, RewriteList,
         LoseDgram, LoseAck, DupDgram

(* Only send_msg_to_server puts a record on the wire, and it takes the head. *)
LEMMA NewFlight ==
    ASSUME TypeOK, SpoolShape, [Next]_vars, NEW m \in Msg
    PROVE  InFlight(m)' => InFlight(m) \/ IsFirst(m)
<1> WireTypeOK /\ ServerTypeOK /\ ClientTypeOK
  BY DEF TypeOK
<1> dgrams[m] \in Nat
  BY DEF WireTypeOK
<1>1. CASE ClientNext /\ UNCHANGED serverVars
  <2>1. CASE UNCHANGED dgrams
    BY <1>1, <2>1 DEF InFlight, serverVars
  <2>2. CASE \E c \in Client : SendMsgToServer(c)
    <3>1. PICK c \in Client : SendMsgToServer(c)
      BY <2>2
    <3>2. CASE spool[c] = <<>>
      BY <1>1, <3>1, <3>2 DEF SendMsgToServer, InFlight, serverVars
    <3>3. CASE spool[c] # <<>>
      <4>1. spool[c] \in Seq(RecordsOf(c))
        BY DEF SpoolShape
      <4>2. Head(spool[c]) \in RecordsOf(c)
        BY <3>3, <4>1
      <4>3. PICK h \in Msg : h = Head(spool[c]) /\ Host[h] = c
        BY <4>2 DEF RecordsOf
      <4>4. PutDgram(h)
        BY <3>1, <3>3, <4>3 DEF SendMsgToServer
      <4>5. CASE h = m
        BY <3>3, <4>3, <4>5 DEF IsFirst
      <4>6. CASE h # m
        BY <1>1, <4>4, <4>6, PathCounts DEF InFlight, serverVars
      <4> QED
        BY <4>5, <4>6
    <3> QED
      BY <3>2, <3>3
  <2> QED
    BY <1>1, <2>1, <2>2
       DEF ClientNext, ClientStep, StartClient, LogStart, LogPresentDisk, LogEvent,
           WriteLog, FlushStart, FlushPresentDisk, FlushEvent, FlushSpool,
           EnumerateDone, NoEvent, NoAck, GetAckFromServer, IgnoreAck, DeleteBufMsg,
           RewriteSpool, KillClient, AckToClosedPort, wireVars
<1>2. CASE ServerNext
  <2>1. CASE \E n \in Msg : Receive(n)
    <3>1. PICK n \in Msg : Receive(n)
      BY <2>1
    <3>2. dgrams[n] > 0 /\ cur' = n /\ GetDgram(n)
      BY <3>1 DEF Receive, GetDgram
    <3> QED
      BY <3>2, PathCounts DEF InFlight
  <2>2. CASE \E n \in Msg : DgramToClosedPort(n)
    BY <2>2, PathCounts DEF DgramToClosedPort, InFlight, serverVars
  <2>3. CASE UNCHANGED dgrams /\ (UNCHANGED <<cur, spc>> \/ (cur' = cur /\ spc = "check") \/ spc' \notin {"check", "save"})
    BY <2>3 DEF InFlight
  <2> QED
    BY <1>2, <2>1, <2>2, <2>3
       DEF ServerNext, ServerStep, StartServer, Approve, Report, SavePacket,
           SendAck, ResolveFails, KillServer, RewriteList, wireVars
<1>3. CASE WireNext /\ UNCHANGED <<clientVars, serverVars>>
  <2>1. CASE UNCHANGED dgrams
    BY <1>3, <2>1 DEF InFlight, serverVars
  <2>2. CASE \E n \in Msg : GetDgram(n)
    BY <1>3, <2>2, PathCounts DEF InFlight, serverVars
  <2>3. CASE \E n \in Msg : DupDgram(n)
    <3>1. PICK n \in Msg : DupDgram(n)
      BY <2>3
    <3>2. dgrams[n] > 0 /\ PutDgram(n)
      BY <3>1, Constants DEF ConstantFacts, DupDgram
    <3> QED
      BY <1>3, <3>2, PathCounts DEF InFlight, serverVars
  <2> QED
    BY <1>3, <2>1, <2>2, <2>3 DEF WireNext, LoseDgram, LoseAck, DupAck
<1>4. CASE UNCHANGED vars
  BY <1>4 DEF InFlight, vars, wireVars, serverVars
<1> QED
  BY <1>1, <1>2, <1>3, <1>4 DEF Next

(* A record stops being first only when an acknowledgement for it is read. *)
LEMMA HeadLeaves ==
    ASSUME TypeOK, SpoolShape, [Next]_vars, NEW m \in Msg, IsFirst(m)
    PROVE  IsFirst(m)' \/ Acked(m)
<1> DEFINE d == Host[m]
<1>1. d \in Client /\ spool[d] # <<>> /\ Head(spool[d]) = m
  BY Constants DEF ConstantFacts, IsFirst
<1>2. spool \in [Client -> Seq(Msg)] /\ spool[d] \in Seq(Msg)
  BY <1>1 DEF TypeOK, ClientTypeOK
<1>3. CASE spool'[d] = spool[d]
  BY <1>1, <1>3 DEF IsFirst
<1>4. CASE \E c \in Client : cpc[c] \in FlushPC /\ FlushSpool(c)
  <2>1. PICK c \in Client : cpc[c] \in FlushPC /\ FlushSpool(c)
    BY <1>4
  <2>2. CASE c = d
    <3>1. PICK n \in RecordsOf(d) : buf[d] = <<n>>
      BY <2>1, <2>2 DEF SpoolShape
    <3>2. n \in Msg
      BY <3>1 DEF RecordsOf
    <3>3. spool'[d] = spool[d] \o <<n>>
      BY <1>2, <2>1, <2>2, <3>1 DEF FlushSpool
    <3>4. spool'[d] # <<>> /\ Head(spool'[d]) = Head(spool[d])
      BY <1>1, <1>2, <3>2, <3>3
    <3> QED
      BY <1>1, <3>4 DEF IsFirst
  <2>3. CASE c # d
    BY <1>2, <1>3, <2>1, <2>3 DEF FlushSpool
  <2> QED
    BY <2>2, <2>3
<1>5. CASE \E c \in Client, k \in CrcVal : DeleteBufMsg(c, k)
  <2>1. PICK c \in Client, k \in CrcVal : DeleteBufMsg(c, k)
    BY <1>5
  <2>2. CASE c = d
    BY <1>1, <2>1, <2>2 DEF DeleteBufMsg, GetAck, MsgCrc, Acked
  <2>3. CASE c # d
    BY <1>2, <1>3, <2>1, <2>3 DEF DeleteBufMsg
  <2> QED
    BY <2>2, <2>3
<1>6. CASE \E c \in Client : RewriteSpool(c)
  <2>1. PICK c \in Client : RewriteSpool(c)
    BY <1>6
  <2>2. c # d
    BY <1>1, <2>1 DEF RewriteSpool, Goto, SpoolShape
  <2> QED
    BY <1>2, <1>3, <2>1, <2>2 DEF RewriteSpool
<1> QED
  BY <1>3, <1>4, <1>5, <1>6
     DEF Next, vars, clientVars, ClientNext, ClientStep, ServerNext, WireNext,
         StartClient, LogStart, LogPresentDisk, LogEvent, WriteLog, FlushStart,
         FlushPresentDisk, FlushEvent, Goto, FlushPC, EnumerateDone, NoEvent,
         SendMsgToServer, NoAck, GetAckFromServer, IgnoreAck, KillClient, AckToClosedPort

(* The server decides to acknowledge only what it has just handled.        *)
LEMMA NewDecision ==
    ASSUME TypeOK, [Next]_vars, spc' = "resolve"
    PROVE  \/ spc = "resolve" /\ cur' = cur
           \/ cur' \in Msg /\ handled'[cur'] > 0
<1> ServerTypeOK
  BY DEF TypeOK
<1> USE Constants DEF ConstantFacts
<1>1. CASE UNCHANGED <<spc, cur>>
  BY <1>1
<1>2. CASE Approve \/ SavePacket
  <2>1. cur \in Msg /\ cur' = cur /\ handled \in [Msg -> 0 .. MaxHandled]
    BY <1>2 DEF Approve, SavePacket, ServerTypeOK
  <2>2. handled'[cur] > 0
    BY <1>2, <2>1 DEF Approve, SavePacket, HandleCur
  <2> QED
    BY <2>1, <2>2
<1> QED
  BY <1>1, <1>2
     DEF Next, vars, serverVars, ServerNext, ServerStep, StartServer, Receive,
         Report, SendAck, ResolveFails, KillServer, DgramToClosedPort, RewriteList

(* The inductive invariant at first.                                       *)
LEMMA InvInit == Init => IInv
<1> SUFFICES ASSUME Init PROVE IInv
  OBVIOUS
<1>1. \A m \in Msg : ~Acked(m)
  BY Constants DEF ConstantFacts, Init, WireInit, Acked, CrcVal
<1> QED
  BY <1>1, TypeInit, ShapeInit
     DEF IInv, Init, WireInit, ServerInit, OnlyFirstInFlight, InFlight, AckMeansHandled

(***************************************************************************)
(* The inductive step.  A record on the wire was there before, or is the   *)
(* first one; it stops being first only by an acknowledgement, and then it *)
(* was handled.                                                            *)
(***************************************************************************)
LEMMA InvStep == IInv /\ [Next]_vars => IInv'
<1> SUFFICES ASSUME IInv, [Next]_vars PROVE IInv'
  OBVIOUS
<1>1. TypeOK /\ SpoolShape /\ OnlyFirstInFlight /\ AckMeansHandled
  BY DEF IInv
<1>2. OnlyFirstInFlight'
  <2> SUFFICES ASSUME NEW m \in Msg, InFlight(m)' PROVE handled'[m] > 0 \/ IsFirst(m)'
    BY DEF OnlyFirstInFlight
  <2>1. InFlight(m) \/ IsFirst(m)
    BY <1>1, NewFlight
  <2>2. handled[m] > 0 \/ IsFirst(m)
    BY <1>1, <2>1 DEF OnlyFirstInFlight
  <2>3. CASE handled[m] > 0
    BY <1>1, <2>3, HandledGrows
  <2>4. CASE IsFirst(m)
    <3>1. IsFirst(m)' \/ Acked(m)
      BY <1>1, <2>4, HeadLeaves
    <3>2. Acked(m) => handled[m] > 0
      BY <1>1 DEF AckMeansHandled
    <3> QED
      BY <1>1, <3>1, <3>2, HandledGrows
  <2> QED
    BY <2>2, <2>3, <2>4
<1>3. AckMeansHandled'
  <2>1. ASSUME NEW m \in Msg, Acked(m)' PROVE handled'[m] > 0
    <3>1. Acked(m) \/ (spc = "resolve" /\ cur = m)
      BY <1>1, <2>1, NewAck
    <3>2. handled[m] > 0
      BY <1>1, <3>1 DEF AckMeansHandled
    <3> QED
      BY <1>1, <3>2, HandledGrows
  <2>2. ASSUME spc' = "resolve" PROVE handled'[cur'] > 0
    <3>1. CASE spc = "resolve" /\ cur' = cur
      <4>1. cur \in Msg /\ handled[cur] > 0
        BY <1>1, <3>1 DEF AckMeansHandled, TypeOK, ServerTypeOK
      <4>2. PICK m \in Msg : m = cur
        BY <4>1
      <4>3. handled'[m] > 0
        BY <1>1, <4>1, <4>2, HandledGrows
      <4> QED
        BY <3>1, <4>2, <4>3
    <3> QED
      BY <1>1, <2>2, <3>1, NewDecision
  <2> QED
    BY <2>1, <2>2 DEF AckMeansHandled
<1> QED
  BY <1>1, <1>2, <1>3, TypeStep, ShapeStep DEF IInv

(***************************************************************************)
(* The inductive invariant holds: buffer and spool of every client have    *)
(* the shape of write_log and delete_buf_msg, and what the server has dealt*)
(* with, what is acknowledged and what is in flight fit to it, wherever    *)
(* kill -KILL strikes.                                                     *)
(***************************************************************************)
THEOREM InvCorrect == Spec => []IInv
BY InvInit, InvStep, PTL DEF Spec

(* No later record overtakes one the server has not dealt with.            *)
THEOREM FirstInFlightCorrect == Spec => []OnlyFirstInFlight
<1>1. IInv => OnlyFirstInFlight
  BY DEF IInv
<1> QED
  BY <1>1, InvCorrect, PTL

(* What is acknowledged is in report.txt, or its serial was approved.      *)
THEOREM AckCorrect == Spec => []AckMeansHandled
<1>1. IInv => AckMeansHandled
  BY DEF IInv
<1> QED
  BY <1>1, InvCorrect, PTL

(* Nothing was discharged at first.                                        *)
LEMMA CountInit == Init => OneHandlingPerDischarge
<1> SUFFICES ASSUME Init, NEW m \in Msg
             PROVE  Answers(m) <= handled[m] + dups[Host[m]][Crc[m]]
  BY DEF OneHandlingPerDischarge
<1>1. acks[Host[m]][Crc[m]] = 0
  BY Constants DEF ConstantFacts, Init, WireInit, CrcVal
<1> QED
  BY <1>1 DEF Init, WireInit, ClientInit, ServerInit, Answers

(***************************************************************************)
(* The count of duplicated acknowledgements only grows, by the network's   *)
(* DupAck alone.                                                           *)
(***************************************************************************)
LEMMA DupsGrow ==
    ASSUME TypeOK, [Next]_vars, NEW c \in Client, NEW k \in CrcVal
    PROVE  /\ dups[c][k] \in Nat /\ dups'[c][k] \in Nat
           /\ dups[c][k] <= dups'[c][k]
           /\ DupAck(c, k) => dups'[c][k] = dups[c][k] + 1
<1>1. dups \in [Client -> [CrcVal -> Nat]]
  BY DEF TypeOK, WireTypeOK
<1>2. CASE dups' = dups
  <2>1. ~DupAck(c, k)
    BY <1>1, <1>2 DEF DupAck
  <2> QED
    BY <1>1, <1>2, <2>1
<1>3. CASE \E d \in Client, j \in CrcVal : DupAck(d, j)
  BY <1>1, <1>3 DEF DupAck
<1> QED
  BY <1>2, <1>3
     DEF Next, vars, wireVars, ClientNext, ClientStep, ServerNext, ServerStep, WireNext,
         StartClient, LogStart, LogPresentDisk, LogEvent, WriteLog, FlushStart,
         FlushPresentDisk, FlushEvent, FlushSpool, EnumerateDone, NoEvent, SendMsgToServer,
         NoAck, GetAckFromServer, IgnoreAck, DeleteBufMsg, RewriteSpool, KillClient,
         AckToClosedPort, StartServer, Receive, Approve, Report, SavePacket, SendAck,
         ResolveFails, KillServer, DgramToClosedPort, RewriteList, LoseDgram, LoseAck,
         DupDgram

(***************************************************************************)
(* Every step that adds an answer to m takes one away or handles m: the    *)
(* server's decision becomes an acknowledgement, the acknowledgement a     *)
(* discharge.                                                              *)
(***************************************************************************)
LEMMA CountStep ==
    IInv /\ OneHandlingPerDischarge /\ [Next]_vars => OneHandlingPerDischarge'
<1> SUFFICES ASSUME IInv, OneHandlingPerDischarge, [Next]_vars,
                    NEW m \in Msg, Exact(m)'
             PROVE  Answers(m)' <= handled'[m] + dups'[Host[m]][Crc[m]]
  BY DEF OneHandlingPerDischarge
<1> USE Constants DEF ConstantFacts
<1> DEFINE Deciding == IF spc = "resolve" /\ cur = m THEN 1 ELSE 0
           MyAcks == acks[Host[m]][Crc[m]]
           Doubles == dups[Host[m]][Crc[m]]
<1>0. WireTypeOK /\ ClientTypeOK /\ ServerTypeOK /\ SpoolShape /\ TypeOK
  BY DEF IInv, TypeOK
<1>1. /\ Host[m] \in Client /\ Crc[m] \in CrcVal
      /\ discharged[m] \in Nat /\ Deciding \in {0, 1}
      /\ handled[m] \in 0 .. MaxHandled
  BY <1>0 DEF CrcVal, ClientTypeOK, ServerTypeOK
<1>2. MyAcks \in Nat
  BY <1>0, <1>1 DEF WireTypeOK
<1>3. Answers(m) = discharged[m] + MyAcks + Deciding
  BY DEF Answers
<1>4. Answers(m)' = discharged'[m] + MyAcks' + Deciding'
  BY DEF Answers
<1>5. Exact(m) => Answers(m) <= handled[m] + Doubles
  BY DEF OneHandlingPerDischarge
<1>10. Doubles \in Nat /\ Doubles' \in Nat /\ Doubles <= Doubles'
  BY <1>0, <1>1, DupsGrow
<1> SUFFICES Answers(m)' <= handled'[m] + Doubles'
  OBVIOUS
<1> HIDE DEF Deciding, MyAcks, Doubles
<1> USE DEF Exact
<1>6. CASE ClientNext /\ UNCHANGED serverVars
  <2>1. handled' = handled /\ Deciding' = Deciding
    BY <1>6 DEF serverVars, Deciding
  <2>2. CASE \E c \in Client, k \in CrcVal : DeleteBufMsg(c, k)
    <3>1. PICK c \in Client, k \in CrcVal : DeleteBufMsg(c, k)
      BY <2>2
    <3>2. spool[c] \in Seq(RecordsOf(c)) /\ spool[c] # <<>>
      BY <1>0, <3>1 DEF SpoolShape, DeleteBufMsg
    <3>3. PICK h \in Msg : h = Head(spool[c]) /\ Host[h] = c
      <4>1. Head(spool[c]) \in RecordsOf(c)
        BY <3>2
      <4> QED
        BY <4>1 DEF RecordsOf
    <3>4. k = Crc[h] /\ GetAck(c, k) /\ discharged' = [discharged EXCEPT ![h] = @ + 1]
      BY <3>1, <3>3 DEF DeleteBufMsg, MsgCrc
    <3>5. discharged \in [Msg -> Nat]
      BY <1>0 DEF ClientTypeOK
    <3>6. CASE h = m
      <4>1. MyAcks' = MyAcks - 1
        BY <1>0, <1>1, <3>3, <3>4, <3>6, PathCounts DEF MyAcks
      <4>2. discharged'[m] = discharged[m] + 1
        BY <3>4, <3>5, <3>6
      <4> QED
        BY <1>1, <1>2, <1>3, <1>4, <1>5, <1>10, <2>1, <4>1, <4>2
    <3>7. CASE h # m
      <4>1. ~(Host[m] = c /\ Crc[m] = k)
        BY <3>3, <3>4, <3>7, CrcInjective
      <4>2. MyAcks' = MyAcks
        BY <1>0, <1>1, <3>4, <4>1, PathCounts DEF MyAcks
      <4>3. discharged'[m] = discharged[m]
        BY <3>4, <3>5, <3>7
      <4> QED
        BY <1>1, <1>2, <1>3, <1>4, <1>5, <1>10, <2>1, <4>2, <4>3
    <3> QED
      BY <3>6, <3>7
  <2>3. CASE discharged' = discharged
               /\ (UNCHANGED acks \/ \E c \in Client, k \in CrcVal : GetAck(c, k))
    <3>1. MyAcks' \in Int /\ MyAcks' <= MyAcks
      BY <1>0, <1>1, <1>2, <2>3, PathCounts DEF MyAcks
    <3> QED
      BY <1>1, <1>2, <1>3, <1>4, <1>5, <1>10, <2>1, <2>3, <3>1
  <2> QED
    BY <1>6, <2>2, <2>3
       DEF ClientNext, ClientStep, StartClient, LogStart, LogPresentDisk, LogEvent,
           WriteLog, FlushStart, FlushPresentDisk, FlushEvent, FlushSpool,
           EnumerateDone, NoEvent, SendMsgToServer, NoAck, GetAckFromServer, IgnoreAck,
           RewriteSpool, KillClient, AckToClosedPort, wireVars, clientVars
<1>7. CASE ServerNext /\ UNCHANGED clientVars
  <2>1. discharged' = discharged
    BY <1>7 DEF clientVars
  <2>2. CASE Approve \/ SavePacket
    <3>1. cur \in Msg /\ cur' = cur /\ spc' = "resolve" /\ spc # "resolve"
      BY <1>0, <2>2 DEF Approve, SavePacket, ServerTypeOK
    <3>2. MyAcks' = MyAcks
      BY <2>2 DEF Approve, SavePacket, wireVars, MyAcks
    <3>3. handled \in [Msg -> 0 .. MaxHandled]
      BY <1>0 DEF ServerTypeOK
    <3>4. CASE cur = m
      <4>1. Deciding' = 1 /\ Deciding = 0
        BY <3>1, <3>4 DEF Deciding
      <4>2. handled'[m] = IF handled[m] < MaxHandled THEN handled[m] + 1 ELSE handled[m]
        BY <2>2, <3>3, <3>4 DEF Approve, SavePacket, HandleCur
      <4> QED
        BY <1>1, <1>2, <1>3, <1>4, <1>5, <1>10, <2>1, <3>2, <4>1, <4>2
    <3>5. CASE cur # m
      <4>1. Deciding' = Deciding
        BY <3>1, <3>5 DEF Deciding
      <4>2. handled'[m] = handled[m]
        BY <2>2, <3>3, <3>5 DEF Approve, SavePacket, HandleCur
      <4> QED
        BY <1>1, <1>2, <1>3, <1>4, <1>5, <1>10, <2>1, <3>2, <4>1, <4>2
    <3> QED
      BY <3>4, <3>5
  <2>3. CASE SendAck
    <3>1. cur \in Msg /\ Host[cur] \in Client /\ Crc[cur] \in CrcVal
      BY <1>0, <2>3 DEF SendAck, ServerTypeOK, CrcVal
    <3>2. handled' = handled /\ Deciding' = 0
      BY <2>3 DEF SendAck, Deciding
    <3>3. CASE cur = m
      <4>1. Deciding = 1
        BY <2>3, <3>3 DEF SendAck, Deciding
      <4>2. MyAcks' \in Nat /\ MyAcks' <= MyAcks + 1
        BY <1>0, <1>1, <1>2, <2>3, <3>1, <3>3, PathCounts DEF SendAck, MyAcks
      <4> QED
        BY <1>1, <1>2, <1>3, <1>4, <1>5, <1>10, <2>1, <3>2, <4>1, <4>2
    <3>4. CASE cur # m
      <4>1. ~(Host[cur] = Host[m] /\ Crc[cur] = Crc[m])
        BY <3>1, <3>4, CrcInjective
      <4>2. MyAcks' = MyAcks
        BY <1>0, <1>1, <2>3, <3>1, <4>1, PathCounts DEF SendAck, MyAcks
      <4> QED
        BY <1>1, <1>2, <1>3, <1>4, <1>5, <1>10, <2>1, <3>2, <4>2
    <3> QED
      BY <3>3, <3>4
  <2>4. CASE UNCHANGED <<acks, handled>> /\ Deciding' <= Deciding /\ Deciding' \in {0, 1}
    <3>1. MyAcks' = MyAcks
      BY <2>4 DEF MyAcks
    <3> QED
      BY <1>1, <1>2, <1>3, <1>4, <1>5, <1>10, <2>1, <2>4, <3>1
  <2>5. CASE UNCHANGED <<acks, handled>> /\ (UNCHANGED <<spc, cur>> \/ spc' # "resolve")
    <3>1. Deciding' <= Deciding /\ Deciding' \in {0, 1}
      BY <2>5 DEF Deciding
    <3> QED
      BY <2>4, <2>5, <3>1
  <2> QED
    BY <1>7, <2>2, <2>3, <2>5
       DEF ServerNext, ServerStep, StartServer, Receive, Report, ResolveFails,
           KillServer, DgramToClosedPort, RewriteList, wireVars,
           serverVars
<1>8. CASE WireNext /\ UNCHANGED <<clientVars, serverVars>>
  <2>1. /\ handled' = handled /\ discharged' = discharged
        /\ Deciding' = Deciding
    BY <1>8 DEF clientVars, serverVars, Deciding
  <2>2. CASE UNCHANGED acks \/ \E c \in Client, k \in CrcVal : GetAck(c, k)
    <3>1. MyAcks' \in Int /\ MyAcks' <= MyAcks
      BY <1>0, <1>1, <1>2, <2>2, PathCounts DEF MyAcks
    <3> QED
      BY <1>1, <1>2, <1>3, <1>4, <1>5, <1>10, <2>1, <3>1
  <2>3. CASE \E c \in Client, k \in CrcVal : DupAck(c, k)
    <3>1. PICK c \in Client, k \in CrcVal : DupAck(c, k)
      BY <2>3
    <3>2. CASE c = Host[m] /\ k = Crc[m]
      <4>1. Doubles' = Doubles + 1
        BY <1>0, <1>1, <3>1, <3>2, DupsGrow DEF Doubles
      <4>2. MyAcks' \in Int /\ MyAcks' <= MyAcks + 1
        BY <1>0, <1>1, <1>2, <3>1, PathCounts DEF DupAck, MyAcks
      <4> QED
        BY <1>1, <1>2, <1>3, <1>4, <1>5, <1>10, <2>1, <4>1, <4>2
    <3>3. CASE ~(c = Host[m] /\ k = Crc[m])
      <4>1. MyAcks' = MyAcks
        BY <1>0, <1>1, <3>1, <3>3, PathCounts DEF DupAck, MyAcks
      <4> QED
        BY <1>1, <1>2, <1>3, <1>4, <1>5, <1>10, <2>1, <4>1
    <3> QED
      BY <3>2, <3>3
  <2> QED
    BY <1>8, <2>2, <2>3 DEF WireNext, LoseDgram, LoseAck, DupDgram
<1>9. CASE UNCHANGED vars
  <2>1. /\ handled' = handled /\ discharged' = discharged
        /\ Deciding' = Deciding /\ MyAcks' = MyAcks
    BY <1>9 DEF vars, wireVars, clientVars, serverVars, Deciding, MyAcks
  <2> QED
    BY <1>1, <1>2, <1>3, <1>4, <1>5, <1>10, <2>1
<1> QED
  BY <1>6, <1>7, <1>8, <1>9 DEF Next

(* Every discharge of a record has a handling by the server of its own.    *)
THEOREM CountCorrect == Spec => []OneHandlingPerDischarge
BY InvInit, InvStep, CountInit, CountStep, PTL DEF Spec

-----------------------------------------------------------------------------
(***************************************************************************)
(* Refinement.  A client's step changes its queue or nothing that Reporting*)
(* sees; a server's step handles the first record of a queue, one that was *)
(* handled before, or none.                                                *)
(***************************************************************************)
Queues == [c \in Client |-> Pending(c)]

(* Empty spools are empty queues.                                          *)
LEMMA RefinementInit == Init => R!Init
BY DEF Init, ClientInit, ServerInit, R!Init, Pending, HandledSet

(* What a client does is a step of Reporting, but for a kill in a rewrite. *)
LEMMA ClientRefines ==
    ASSUME IInv, ClientNext, UNCHANGED serverVars
    PROVE  \/ [R!Next]_(R!vars)
           \/ \E c \in Client : KillClient(c) /\ cpc[c] = "rewrite"
<1> TypeOK /\ SpoolShape /\ AckMeansHandled
  BY DEF IInv
<1> /\ cpc \in [Client -> ClientPC] /\ spool \in [Client -> Seq(Msg)]
    /\ rest \in [Client -> Seq(Msg)]
  BY DEF TypeOK, ClientTypeOK
<1>1. HandledSet' = HandledSet
  BY DEF serverVars, HandledSet
<1>2. CASE Queues' = Queues
  BY <1>1, <1>2 DEF Queues, R!vars
<1>3. CASE \E c \in Client : cpc[c] \in FlushPC /\ FlushSpool(c)
             /\ \E pc \in {"enum", "send"} : cpc' = [cpc EXCEPT ![c] = pc]
  <2>1. PICK c \in Client : cpc[c] \in FlushPC /\ FlushSpool(c)
               /\ \E pc \in {"enum", "send"} : cpc' = [cpc EXCEPT ![c] = pc]
    BY <1>3
  <2>2. PICK m \in RecordsOf(c) : buf[c] = <<m>>
    BY <2>1 DEF SpoolShape
  <2>3. m \in Msg /\ Host[m] = c
    BY <2>2 DEF RecordsOf
  <2>4. spool' = [spool EXCEPT ![c] = Append(@, m)] /\ rest' = rest
    <3>1. spool[c] \o <<m>> = Append(spool[c], m)
      BY <2>3
    <3> QED
      BY <2>1, <2>2, <3>1 DEF FlushSpool
  <2>5. Pending(c) = spool[c] /\ Pending(c)' = Append(spool[c], m)
    BY <2>1, <2>4 DEF Pending, FlushPC
  <2>6. \A d \in Client \ {c} : Pending(d)' = Pending(d)
    BY <2>1, <2>4 DEF Pending
  <2>7. Queues' = [Queues EXCEPT ![c] = Append(@, m)]
    BY <2>5, <2>6 DEF Queues
  <2> QED
    BY <1>1, <2>3, <2>7 DEF Queues, R!Next, R!Log
<1>4. CASE \E c \in Client, k \in CrcVal : DeleteBufMsg(c, k)
  <2>1. PICK c \in Client, k \in CrcVal : DeleteBufMsg(c, k)
    BY <1>4
  <2>2. spool[c] \in Seq(RecordsOf(c)) /\ spool[c] # <<>>
    BY <2>1 DEF SpoolShape, DeleteBufMsg
  <2>3. Head(spool[c]) \in RecordsOf(c)
    BY <2>2
  <2>4. PICK h \in Msg : h = Head(spool[c]) /\ Host[h] = c
    BY <2>3 DEF RecordsOf
  <2>5. Acked(h)
    BY <2>1, <2>4 DEF DeleteBufMsg, GetAck, MsgCrc, Acked
  <2>6. h \in HandledSet
    BY <2>4, <2>5 DEF AckMeansHandled, HandledSet
  <2>7. Pending(c) = spool[c] /\ Pending(c)' = Tail(spool[c])
    BY <2>1 DEF DeleteBufMsg, Goto, Pending
  <2>8. \A d \in Client \ {c} : Pending(d)' = Pending(d)
    BY <2>1 DEF DeleteBufMsg, Goto, Pending
  <2>9. Queues' = [Queues EXCEPT ![c] = Tail(@)]
    BY <2>7, <2>8 DEF Queues
  <2>10. Queues[c] # <<>> /\ Head(Queues[c]) \in HandledSet
    BY <2>2, <2>4, <2>6, <2>7 DEF Queues
  <2> QED
    BY <1>1, <2>9, <2>10 DEF Queues, R!Next, R!Discharge
<1>5. CASE \E c \in Client : RewriteSpool(c) \/ (KillClient(c) /\ cpc[c] # "rewrite")
  <2>1. PICK c \in Client : RewriteSpool(c) \/ (KillClient(c) /\ cpc[c] # "rewrite")
    BY <1>5
  <2>2. \A d \in Client : Pending(d)' = Pending(d)
    BY <2>1 DEF RewriteSpool, KillClient, Goto, Pending
  <2> QED
    BY <1>2, <2>2 DEF Queues
<1>6. CASE UNCHANGED <<spool, rest>> /\ \E c \in Client, pc \in ClientPC \ {"rewrite"} :
             cpc[c] # "rewrite" /\ cpc' = [cpc EXCEPT ![c] = pc]
  <2>1. \A d \in Client : Pending(d)' = Pending(d)
    BY <1>6 DEF Pending
  <2> QED
    BY <1>2, <2>1 DEF Queues
<1>7. CASE UNCHANGED clientVars
  BY <1>2, <1>7 DEF clientVars, Queues, Pending
<1> QED
  <2>1. PICK c \in Client :
            \/ StartClient(c) \/ ClientStep(c) \/ KillClient(c)
            \/ \E k \in CrcVal : AckToClosedPort(c, k)
    BY DEF ClientNext
  <2>2. CASE FlushStart(c) \/ FlushPresentDisk(c) \/ FlushEvent(c)
    BY <1>3, <2>2 DEF FlushStart, FlushPresentDisk, FlushEvent, Goto, FlushPC
  <2>3. CASE LogStart(c) \/ LogPresentDisk(c) \/ LogEvent(c)
    BY <1>6, <2>3 DEF LogStart, LogPresentDisk, LogEvent, WriteLog, Goto, ClientPC
  <2>4. CASE StartClient(c) \/ EnumerateDone(c) \/ NoEvent(c) \/ SendMsgToServer(c)
               \/ NoAck(c) \/ \E k \in CrcVal : IgnoreAck(c, k)
    BY <1>6, <2>4 DEF StartClient, EnumerateDone, NoEvent, SendMsgToServer, NoAck,
       IgnoreAck, Goto, ClientPC
  <2>5. CASE \E k \in CrcVal : AckToClosedPort(c, k)
    BY <1>7, <2>5 DEF AckToClosedPort
  <2> QED
    BY <1>4, <1>5, <2>1, <2>2, <2>3, <2>4, <2>5 DEF ClientStep, GetAckFromServer

(* What the server does is a step of Reporting.                            *)
LEMMA ServerRefines ==
    ASSUME IInv, ServerNext, UNCHANGED clientVars
    PROVE  [R!Next]_(R!vars)
<1> TypeOK /\ SpoolShape /\ OnlyFirstInFlight
  BY DEF IInv
<1> handled \in [Msg -> 0 .. MaxHandled]
  BY DEF TypeOK, ServerTypeOK
<1>1. Queues' = Queues
  BY DEF clientVars, Queues, Pending
<1>2. CASE UNCHANGED handled
  BY <1>1, <1>2 DEF HandledSet, Queues, R!vars
<1>3. CASE Approve \/ SavePacket
  <2>1. PICK m \in Msg : m = cur /\ InFlight(m)
    BY <1>3 DEF Approve, SavePacket, TypeOK, ServerTypeOK, InFlight
  <2>2. HandledSet' = HandledSet \cup {m}
    <3>1. \A n \in Msg : handled'[n] > 0 <=> handled[n] > 0 \/ n = m
      BY <1>3, <2>1, Constants DEF ConstantFacts, Approve, SavePacket, HandleCur
    <3> QED
      BY <2>1, <3>1 DEF HandledSet
  <2>3. handled[m] > 0 \/ IsFirst(m)
    BY <2>1 DEF OnlyFirstInFlight
  <2>4. CASE handled[m] > 0
    <3>1. HandledSet' = HandledSet
      BY <2>1, <2>2, <2>4 DEF HandledSet
    <3> QED
      BY <1>1, <3>1 DEF Queues, R!vars
  <2>5. CASE IsFirst(m)
    <3>1. Host[m] \in Client /\ spool[Host[m]] # <<>> /\ Head(spool[Host[m]]) = m
      BY <2>1, <2>5, Constants DEF ConstantFacts, IsFirst
    <3>2. Queues[Host[m]] = spool[Host[m]]
      BY <3>1 DEF Queues, Pending, SpoolShape
    <3> QED
      BY <1>1, <2>2, <3>1, <3>2 DEF Queues, R!Next, R!Handle
  <2> QED
    BY <2>3, <2>4, <2>5
<1> QED
  BY <1>2, <1>3
     DEF ServerNext, ServerStep, StartServer, Receive, Report, SendAck,
         ResolveFails, KillServer, DgramToClosedPort, RewriteList,
         serverVars

(* A kill inside delete_buf_msg: the file is empty, its records in memory. *)
LEMMA KillRefines ==
    ASSUME IInv, UNCHANGED serverVars, NEW c \in Client, KillClient(c), cpc[c] = "rewrite"
    PROVE  R!Crash(c)
<1>1. HandledSet' = HandledSet
  BY DEF serverVars, HandledSet
<1>2. cpc \in [Client -> ClientPC] /\ spool[c] = <<>>
  BY DEF IInv, TypeOK, ClientTypeOK, SpoolShape
<1>3. Pending(c)' = <<>> /\ \A d \in Client \ {c} : Pending(d)' = Pending(d)
  BY <1>2 DEF KillClient, Pending
<1>4. Queues' = [Queues EXCEPT ![c] = <<>>]
  BY <1>3 DEF Queues
<1> QED
  BY <1>1, <1>4 DEF Queues, R!Crash

(* Whatever the step, it is one of Reporting's, or a kill in "rewrite".    *)
LEMMA StepRefines ==
    ASSUME IInv, [Next]_vars
    PROVE  \/ [R!Next]_(R!vars)
           \/ \E c \in Client : KillClient(c) /\ cpc[c] = "rewrite" /\ R!Crash(c)
<1>1. CASE ClientNext /\ UNCHANGED serverVars
  BY <1>1, ClientRefines, KillRefines
<1>2. CASE ServerNext /\ UNCHANGED clientVars
  BY <1>2, ServerRefines
<1>3. CASE UNCHANGED <<clientVars, serverVars>>
  BY <1>3 DEF clientVars, serverVars, R!vars, Pending, HandledSet
<1> QED
  BY <1>1, <1>2, <1>3 DEF Next, vars

(***************************************************************************)
(* UsbLogger implements Reporting when delete_buf_msg runs to its end: no  *)
(* event is forgotten before the server dealt with it, and the server      *)
(* deals with the events of a host in the order of the spool.              *)
(***************************************************************************)
THEOREM RefinementCorrect ==
    ASSUME "rewrite" \notin KillPoints
    PROVE  Spec => ReportingSpec
<1>1. ASSUME IInv, [Next]_vars PROVE [R!Next]_(R!vars)
  BY <1>1, StepRefines DEF KillClient
<1> QED
  BY <1>1, RefinementInit, InvCorrect, PTL DEF Spec, ReportingSpec, R!Spec

(***************************************************************************)
(* Wherever kill -KILL strikes, a client forgets its whole spool if it was *)
(* in delete_buf_msg's rewrite and none of it if it was not, and the rest  *)
(* of the promise stands.                                                  *)
(***************************************************************************)
THEOREM CrashRefinementCorrect == Spec => CrashReportingSpec
<1>1. ASSUME IInv, [Next]_vars
      PROVE  [R!Next \/ \E c \in Client : KilledInRewrite(c)]_(R!vars)
  <2>1. ASSUME NEW c \in Client, KillClient(c), cpc[c] = "rewrite", R!Crash(c)
        PROVE  KilledInRewrite(c)
    BY <1>1, <2>1 DEF KillClient, KilledInRewrite, IInv, TypeOK, ClientTypeOK
  <2> QED
    BY <1>1, <2>1, StepRefines
<1> QED
  BY <1>1, RefinementInit, InvCorrect, PTL DEF Spec, CrashReportingSpec

-----------------------------------------------------------------------------
(***************************************************************************)
(* The spool never runs ahead of the local log .cul.r: counting the copies *)
(* of a record in a sequence, and what each step of the client does to the *)
(* count.                                                                  *)
(***************************************************************************)
Places(s, m) == {i \in DOMAIN s : s[i] = m}

(* A sequence holds a finite number of copies of a record.                 *)
LEMMA PlacesFinite ==
    ASSUME NEW s \in Seq(Msg), NEW m \in Msg
    PROVE  IsFiniteSet(Places(s, m)) /\ Copies(s, m) \in Nat
<1>1. DOMAIN s = 1 .. Len(s) /\ Len(s) \in Nat
  OBVIOUS
<1>2. IsFiniteSet(1 .. Len(s))
  BY <1>1, FS_Interval
<1>3. IsFiniteSet(Places(s, m))
  BY <1>1, <1>2, FS_Subset DEF Places
<1> QED
  BY <1>3, FS_CardinalityType DEF Places, Copies

(* The empty spool holds none.                                             *)
LEMMA CopiesNone == ASSUME NEW m \in Msg PROVE Copies(<<>>, m) = 0
<1>1. {i \in DOMAIN <<>> : <<>>[i] = m} = {}
  OBVIOUS
<1> QED
  BY <1>1, FS_EmptySet DEF Copies

(* A record appended to a queue is one more copy of itself.                *)
LEMMA CopiesAppend ==
    ASSUME NEW s \in Seq(Msg), NEW n \in Msg, NEW m \in Msg
    PROVE  Copies(Append(s, n), m) = Copies(s, m) + (IF n = m THEN 1 ELSE 0)
<1> DEFINE t == Append(s, n)
<1>1. /\ t \in Seq(Msg) /\ Len(s) \in Nat /\ Len(t) = Len(s) + 1
      /\ \A i \in 1 .. Len(s) : t[i] = s[i]
      /\ t[Len(s) + 1] = n /\ DOMAIN s = 1 .. Len(s) /\ DOMAIN t = 1 .. Len(s) + 1
  OBVIOUS
<1>2. Copies(s, m) = Cardinality(Places(s, m)) /\ Copies(t, m) = Cardinality(Places(t, m))
  BY DEF Copies, Places
<1> HIDE DEF t
<1>3. CASE n = m
  <2>1. Places(t, m) = Places(s, m) \cup {Len(s) + 1}
    <3>1. ASSUME NEW i PROVE i \in 1 .. Len(s) + 1 <=> i \in 1 .. Len(s) \/ i = Len(s) + 1
      <4>1. Len(s) \in Nat
        BY <1>1
      <4> QED
        BY <4>1
    <3>2. ASSUME NEW i PROVE i \in Places(t, m) <=> i \in Places(s, m) \/ i = Len(s) + 1
      BY <1>1, <1>3, <3>1 DEF Places
    <3> QED
      BY <3>2
  <2>2. Len(s) + 1 \notin Places(s, m)
    BY <1>1 DEF Places
  <2>3. Cardinality(Places(s, m) \cup {Len(s) + 1}) = Cardinality(Places(s, m)) + 1
    <3>1. IsFiniteSet(Places(s, m))
      BY PlacesFinite
    <3> QED
      BY <2>2, <3>1, FS_AddElement
  <2>4. Copies(t, m) = Copies(s, m) + 1
    BY <1>2, <2>1, <2>3
  <2> QED
    BY <1>3, <2>4 DEF t
<1>4. CASE n # m
  <2>1. Places(t, m) = Places(s, m)
    BY <1>1, <1>4 DEF Places
  <2>2. Copies(s, m) \in Nat
    BY PlacesFinite
  <2> QED
    BY <1>2, <1>4, <2>1, <2>2 DEF t
<1> QED
  BY <1>3, <1>4

(* One record is one copy of itself.                                       *)
LEMMA CopiesOne ==
    ASSUME NEW n \in Msg, NEW m \in Msg
    PROVE  Copies(<<n>>, m) = (IF n = m THEN 1 ELSE 0)
<1>1. <<n>> = Append(<<>>, n)
  OBVIOUS
<1>2. Copies(Append(<<>>, n), m) = Copies(<<>>, m) + (IF n = m THEN 1 ELSE 0)
  BY CopiesAppend, EmptySeq
<1> QED
  BY <1>1, <1>2, CopiesNone

(* The first record leaves: one copy of itself fewer.                      *)
LEMMA CopiesTail ==
    ASSUME NEW s \in Seq(Msg), s # <<>>, NEW m \in Msg
    PROVE  Copies(s, m) = Copies(Tail(s), m) + (IF Head(s) = m THEN 1 ELSE 0)
<1> DEFINE t == Tail(s)
           Later == {i \in 2 .. Len(s) : s[i] = m}
           shift == [i \in Places(t, m) |-> i + 1]
<1>1. /\ t \in Seq(Msg) /\ Len(s) \in Nat \ {0} /\ Len(t) = Len(s) - 1
      /\ \A i \in 1 .. Len(t) : t[i] = s[i + 1]
      /\ Head(s) = s[1] /\ DOMAIN s = 1 .. Len(s) /\ DOMAIN t = 1 .. Len(t)
  OBVIOUS
<1>2. Copies(s, m) = Cardinality(Places(s, m)) /\ Copies(t, m) = Cardinality(Places(t, m))
  BY DEF Copies, Places
<1>3. shift \in Bijection(Places(t, m), Later)
  <2>1. \A i \in Places(t, m) : i \in 1 .. Len(t) /\ i + 1 \in Later
    BY <1>1 DEF Places
  <2>2. shift \in [Places(t, m) -> Later]
    BY <2>1
  <2>3. \A i, j \in Places(t, m) : shift[i] = shift[j] => i = j
    BY <1>1, <2>1
  <2>4. \A k \in Later : \E i \in Places(t, m) : shift[i] = k
    <3>1. ASSUME NEW k \in Later PROVE k - 1 \in Places(t, m) /\ (k - 1) + 1 = k
      BY <1>1 DEF Places
    <3> QED
      BY <3>1
  <2> QED
    BY <2>2, <2>3, <2>4 DEF Bijection, Injection, Surjection, IsInjective
<1>4. IsFiniteSet(Later) /\ Cardinality(Later) = Cardinality(Places(t, m))
  <2>1. IsFiniteSet(Places(t, m))
    BY <1>1, PlacesFinite
  <2>2. ExistsBijection(Places(t, m), Later)
    BY <1>3 DEF ExistsBijection
  <2> HIDE DEF t, Later
  <2> QED
    BY <2>1, <2>2, FS_Bijection
<1>5. CASE Head(s) = m
  <2>1. Places(s, m) = Later \cup {1} /\ 1 \notin Later
    BY <1>1, <1>5 DEF Places
  <2>2. Cardinality(Later \cup {1}) = Cardinality(Later) + 1
    BY <1>4, <2>1, FS_AddElement
  <2> QED
    BY <1>2, <1>4, <1>5, <2>1, <2>2
<1>6. CASE Head(s) # m
  <2>1. Places(s, m) = Later
    BY <1>1, <1>6 DEF Places
  <2>2. Copies(s, m) \in Nat
    BY PlacesFinite
  <2> QED
    BY <1>2, <1>4, <1>6, <2>1, <2>2
<1> QED
  BY <1>5, <1>6

-----------------------------------------------------------------------------
(* Before the first client nothing is spooled.                             *)
LEMMA LogInit == Init => SpoolWithinLocalLog
<1> SUFFICES ASSUME Init, NEW m \in Msg
             PROVE  discharged[m] + Copies(Pending(Host[m]), m) + Copies(buf[Host[m]], m)
                      <= culr[m]
  BY DEF SpoolWithinLocalLog
<1>1. Host[m] \in Client
  BY Constants DEF ConstantFacts
<1>2. Pending(Host[m]) = <<>> /\ buf[Host[m]] = <<>> /\ discharged[m] = 0 /\ culr[m] = 0
  BY <1>1 DEF Init, ClientInit, Pending
<1> QED
  BY <1>2, CopiesNone

(***************************************************************************)
(* print_log comes before the flush: the count in .cul.r grows first.  The *)
(* record then moves from the stdio buffer to the queue, and from the      *)
(* queue to the discharged ones; a kill only takes records away.           *)
(***************************************************************************)
LEMMA LogStep ==
    IInv /\ SpoolWithinLocalLog /\ [Next]_vars => SpoolWithinLocalLog'
<1> SUFFICES ASSUME IInv, SpoolWithinLocalLog, [Next]_vars, NEW m \in Msg
             PROVE  discharged'[m] + Copies(Pending(Host[m])', m) + Copies(buf'[Host[m]], m)
                      <= culr'[m]
  BY DEF SpoolWithinLocalLog
<1> DEFINE c == Host[m]
<1>0. /\ c \in Client
      /\ cpc \in [Client -> ClientPC] /\ spool \in [Client -> Seq(Msg)]
      /\ buf \in [Client -> Seq(Msg)] /\ rest \in [Client -> Seq(Msg)]
      /\ culr \in [Msg -> Nat] /\ discharged \in [Msg -> Nat]
  BY Constants DEF ConstantFacts, IInv, TypeOK, ClientTypeOK
<1>1. /\ culr[m] \in Nat /\ discharged[m] \in Nat
      /\ Pending(c) \in Seq(Msg) /\ buf[c] \in Seq(Msg)
      /\ Copies(Pending(c), m) \in Nat /\ Copies(buf[c], m) \in Nat
  BY <1>0, PlacesFinite DEF Pending
<1>2. discharged[m] + Copies(Pending(c), m) + Copies(buf[c], m) <= culr[m]
  BY DEF SpoolWithinLocalLog
<1>3. CASE discharged' = discharged /\ culr' = culr
             /\ Pending(c)' \in {Pending(c), <<>>} /\ buf'[c] \in {buf[c], <<>>}
  BY <1>1, <1>2, <1>3, CopiesNone
<1>4. CASE \E d \in Client, n \in Msg : WriteLog(d, n) /\ Pending(c)' = Pending(c)
  <2>1. PICK d \in Client, n \in Msg : WriteLog(d, n) /\ Pending(c)' = Pending(c)
    BY <1>4
  <2>2. culr' = [culr EXCEPT ![n] = @ + 1] /\ discharged' = discharged /\ Host[n] = d
    BY <2>1 DEF WriteLog
  <2>3. CASE d = c
    <3>1. buf'[c] = <<n>>
      BY <1>0, <2>1, <2>3 DEF WriteLog
    <3>2. culr'[m] = culr[m] + (IF n = m THEN 1 ELSE 0)
      BY <1>0, <2>2
    <3> QED
      BY <1>1, <1>2, <2>1, <2>2, <3>1, <3>2, CopiesOne
  <2>4. CASE d # c
    <3>1. buf'[c] = buf[c] /\ culr'[m] = culr[m]
      BY <1>0, <2>1, <2>2, <2>4 DEF WriteLog
    <3> QED
      BY <1>1, <1>2, <2>1, <2>2, <3>1
  <2> QED
    BY <2>3, <2>4
<1>5. CASE \E d \in Client : cpc[d] \in FlushPC /\ FlushSpool(d)
             /\ \E pc \in {"enum", "send"} : cpc' = [cpc EXCEPT ![d] = pc]
  <2>1. PICK d \in Client : cpc[d] \in FlushPC /\ FlushSpool(d)
             /\ \E pc \in {"enum", "send"} : cpc' = [cpc EXCEPT ![d] = pc]
    BY <1>5
  <2>2. culr' = culr /\ discharged' = discharged
    BY <2>1 DEF FlushSpool
  <2>3. CASE d = c
    <3>1. PICK n \in Msg : buf[c] = <<n>>
      BY <2>1, <2>3 DEF IInv, SpoolShape, RecordsOf
    <3>2. spool[c] \o <<n>> = Append(spool[c], n)
      BY <1>0, <3>1
    <3>3. Pending(c) = spool[c] /\ Pending(c)' = Append(spool[c], n) /\ buf'[c] = <<>>
      BY <1>0, <2>1, <2>3, <3>1, <3>2 DEF FlushSpool, Pending, FlushPC
    <3>4. /\ Copies(Pending(c)', m) = Copies(Pending(c), m) + (IF n = m THEN 1 ELSE 0)
          /\ Copies(buf[c], m) = (IF n = m THEN 1 ELSE 0) /\ Copies(buf'[c], m) = 0
      <4>1. Copies(Append(spool[c], n), m) = Copies(spool[c], m) + (IF n = m THEN 1 ELSE 0)
        BY <1>0, CopiesAppend
      <4>2. Copies(<<n>>, m) = (IF n = m THEN 1 ELSE 0) /\ Copies(<<>>, m) = 0
        BY CopiesOne, CopiesNone
      <4> QED
        BY <3>1, <3>3, <4>1, <4>2
    <3> QED
      BY <1>1, <1>2, <2>2, <3>4
  <2>4. CASE d # c
    <3>1. Pending(c)' = Pending(c) /\ buf'[c] = buf[c]
      BY <1>0, <2>1, <2>4 DEF FlushSpool, Pending
    <3> QED
      BY <1>3, <2>2, <3>1
  <2> QED
    BY <2>3, <2>4
<1>6. CASE \E d \in Client, k \in CrcVal : DeleteBufMsg(d, k)
  <2>1. PICK d \in Client, k \in CrcVal : DeleteBufMsg(d, k)
    BY <1>6
  <2>2. /\ spool[d] \in Seq(Msg) /\ spool[d] # <<>> /\ culr' = culr /\ buf' = buf
        /\ spool[d] \in Seq(RecordsOf(d)) /\ cpc[d] = "ack"
    BY <1>0, <2>1 DEF DeleteBufMsg, clientVars, IInv, SpoolShape, Goto
  <2>3. PICK h \in Msg : h = Head(spool[d]) /\ Host[h] = d
    <3>1. Head(spool[d]) \in RecordsOf(d)
      BY <2>2
    <3> QED
      BY <3>1 DEF RecordsOf
  <2>4. discharged'[m] = discharged[m] + (IF h = m THEN 1 ELSE 0)
    BY <1>0, <2>1, <2>3 DEF DeleteBufMsg
  <2>5. CASE d = c
    <3>1. Pending(c) = spool[c] /\ Pending(c)' = Tail(spool[c])
      BY <1>0, <2>1, <2>2, <2>5 DEF DeleteBufMsg, Goto, Pending
    <3>2. Tail(spool[c]) \in Seq(Msg)
      BY <2>2, <2>5
    <3>3. Copies(Pending(c), m) = Copies(Pending(c)', m) + (IF h = m THEN 1 ELSE 0)
      BY <2>2, <2>3, <2>5, <3>1, CopiesTail
    <3>4. Copies(Pending(c)', m) \in Nat
      BY <3>1, <3>2, PlacesFinite
    <3> QED
      BY <1>1, <1>2, <2>2, <2>4, <3>3, <3>4
  <2>6. CASE d # c
    <3>1. Pending(c)' = Pending(c) /\ h # m
      BY <1>0, <2>1, <2>3, <2>6 DEF DeleteBufMsg, Goto, Pending
    <3> QED
      BY <1>1, <1>2, <2>2, <2>4, <3>1
  <2> QED
    BY <2>5, <2>6
<1>7. CASE ClientNext
  <2>1. PICK d \in Client :
            \/ StartClient(d) \/ ClientStep(d) \/ KillClient(d)
            \/ \E k \in CrcVal : AckToClosedPort(d, k)
    BY <1>7 DEF ClientNext
  <2>2. CASE FlushStart(d) \/ FlushPresentDisk(d) \/ FlushEvent(d)
    BY <1>5, <2>2 DEF FlushStart, FlushPresentDisk, FlushEvent, Goto, FlushPC
  <2>3. CASE LogStart(d) \/ LogPresentDisk(d) \/ LogEvent(d)
    <3>1. Pending(c)' = Pending(c)
      BY <1>0, <2>3 DEF LogStart, LogPresentDisk, LogEvent, WriteLog, Goto, Pending
    <3>2. \E n \in Msg : WriteLog(d, n)
      BY <2>3, Constants DEF ConstantFacts, LogStart, LogPresentDisk, LogEvent
    <3> QED
      BY <1>4, <3>1, <3>2
  <2>4. CASE StartClient(d) \/ EnumerateDone(d) \/ NoEvent(d) \/ SendMsgToServer(d)
               \/ NoAck(d) \/ (\E k \in CrcVal : IgnoreAck(d, k) \/ AckToClosedPort(d, k))
    <3>1. Pending(c)' = Pending(c) /\ UNCHANGED <<buf, culr, discharged>>
      BY <1>0, <2>4 DEF StartClient, EnumerateDone, NoEvent, SendMsgToServer, NoAck,
         IgnoreAck, AckToClosedPort, Goto, Pending, clientVars
    <3> QED
      BY <1>3, <3>1
  <2>5. CASE RewriteSpool(d) \/ KillClient(d)
    <3>1. UNCHANGED <<culr, discharged>> /\ buf'[c] \in {buf[c], <<>>}
      BY <1>0, <2>5 DEF RewriteSpool, KillClient
    <3>2. cpc[c] = "rewrite" => spool[c] = <<>>
      BY <1>0 DEF IInv, SpoolShape
    <3>3. Pending(c)' \in {Pending(c), <<>>}
      BY <1>0, <2>5, <3>2 DEF RewriteSpool, KillClient, Goto, Pending
    <3> QED
      BY <1>3, <3>1, <3>3
  <2> QED
    BY <1>6, <2>1, <2>2, <2>3, <2>4, <2>5 DEF ClientStep, GetAckFromServer
<1>8. CASE UNCHANGED clientVars
  BY <1>3, <1>8 DEF clientVars, Pending
<1> QED
  BY <1>7, <1>8 DEF Next, vars

(***************************************************************************)
(* The spool never runs ahead of the local log: whatever is pending or was *)
(* discharged has a line of its own in .cul.r (write_log, delete_buf_msg), *)
(* wherever the client is killed.                                          *)
(***************************************************************************)
THEOREM LocalLogCorrect == Spec => []SpoolWithinLocalLog
BY InvInit, InvStep, LogInit, LogStep, PTL DEF Spec
=============================================================================
