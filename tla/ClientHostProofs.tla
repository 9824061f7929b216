--------------------------- MODULE ClientHostProofs ---------------------------
(***************************************************************************)
(* Proofs about ClientHost, for any number of starts, failures, disks,     *)
(* partitions and events, and any size of the monitor's socket.            *)
(***************************************************************************)
EXTENDS ClientHost, SequenceTheorems, TLAPS

-----------------------------------------------------------------------------
(* The processes: the owners of the socket are one parent and its child.   *)
OneOwner == \A a, b \in sock : a[1] = b[1]

(* Whoever could be refused by a dead client's port has been blamed.       *)
BlamedForOrphans ==
    \A i, j \in Start : Orphaned(j) /\ parent[i] # "none" => i \in blame

ToldAfterStart == \A i \in Start : told[i] # "nothing" => parent[i] # "none"

PInv ==
    /\ ProcessTypeOK /\ OneOwner /\ BlamedForOrphans /\ ToldAfterStart
    /\ ClientAfterStart

ProcessStep == \E i \in Start : StartStep(i) \/ Kill(i)

(* Before the first start there is no process.                             *)
LEMMA PInvInit == ProcessInit => PInv
BY FaultsAssumption
   DEF ProcessInit, PInv, ProcessTypeOK, OneOwner, BlamedForOrphans, ToldAfterStart,
       ClientAfterStart, Alive, Orphaned

(* Every process keeps its types and has the socket from bind to end.      *)
LEMMA PTypeStep == PInv /\ ProcessStep => ProcessTypeOK'
<1> SUFFICES ASSUME PInv, NEW i \in Start, StartStep(i) \/ Kill(i)
             PROVE  ProcessTypeOK'
  BY DEF ProcessStep
<1> USE FaultsAssumption DEF PInv, ProcessTypeOK, Goto, Exit, Fault, NoFault, Alive
<1>1. CASE Invoke(i)
  BY <1>1 DEF Invoke
<1>2. CASE GetIpByHostname(i)
  BY <1>2 DEF GetIpByHostname
<1>3. CASE NoSuchHost(i)
  BY <1>3 DEF NoSuchHost
<1>4. CASE OpenSocketToRcv(i)
  BY <1>4 DEF OpenSocketToRcv
<1>5. CASE PortTaken(i)
  BY <1>5 DEF PortTaken
<1>6. CASE Fork(i)
  BY <1>6 DEF Fork, OneOwner
<1>7. CASE ForkFails(i)
  BY <1>7 DEF ForkFails
<1>8. CASE ParentExit(i)
  BY <1>8 DEF ParentExit
<1>9. CASE Daemonize(i)
  BY <1>9 DEF Daemonize
<1>10. CASE DaemonizeFails(i) \/ Kill(i)
  BY <1>10 DEF DaemonizeFails, Kill, ChildEnds
<1> QED
  BY <1>1, <1>2, <1>3, <1>4, <1>5, <1>6, <1>7, <1>8, <1>9, <1>10 DEF StartStep

(* Only a bind brings a new owner, and only when there was none.           *)
LEMMA OwnerStep == PInv /\ ProcessStep => OneOwner'
<1> SUFFICES ASSUME PInv, NEW i \in Start, StartStep(i) \/ Kill(i)
             PROVE  OneOwner'
  BY DEF ProcessStep
<1>1. CASE Fork(i)
  <2>1. <<i, "parent">> \in sock
    BY <1>1 DEF Fork, Goto, PInv, ProcessTypeOK
  <2> QED
    BY <1>1, <2>1 DEF Fork, PInv, OneOwner
<1>2. CASE OpenSocketToRcv(i)
  BY <1>2 DEF OpenSocketToRcv, OneOwner
<1>3. CASE sock' \subseteq sock
  BY <1>3 DEF PInv, OneOwner
<1> QED
  BY <1>1, <1>2, <1>3
     DEF StartStep, Kill, Invoke, GetIpByHostname, NoSuchHost, PortTaken, ForkFails,
         ParentExit, Daemonize, DaemonizeFails, ChildEnds

(* Whoever is there when a client dies before its parent gets blame.       *)
LEMMA BlameStep == PInv /\ ProcessStep => BlamedForOrphans' /\ ToldAfterStart'
<1> SUFFICES ASSUME PInv, NEW i \in Start, StartStep(i) \/ Kill(i)
             PROVE  BlamedForOrphans' /\ ToldAfterStart'
  BY DEF ProcessStep
<1> USE DEF PInv, ProcessTypeOK, BlamedForOrphans, ToldAfterStart, Goto, Exit, Fault,
            NoFault, Alive, Orphaned
<1>1. CASE Invoke(i)
  BY <1>1 DEF Invoke
<1>2. CASE GetIpByHostname(i)
  BY <1>2 DEF GetIpByHostname
<1>3. CASE NoSuchHost(i)
  BY <1>3 DEF NoSuchHost
<1>4. CASE OpenSocketToRcv(i)
  BY <1>4 DEF OpenSocketToRcv
<1>5. CASE PortTaken(i)
  BY <1>5 DEF PortTaken
<1>6. CASE Fork(i)
  BY <1>6 DEF Fork
<1>7. CASE ForkFails(i)
  BY <1>7 DEF ForkFails
<1>8. CASE ParentExit(i)
  BY <1>8 DEF ParentExit
<1>9. CASE Daemonize(i)
  BY <1>9 DEF Daemonize
<1>10. CASE DaemonizeFails(i) \/ Kill(i)
  BY <1>10 DEF DaemonizeFails, Kill, ChildEnds
<1> QED
  BY <1>1, <1>2, <1>3, <1>4, <1>5, <1>6, <1>7, <1>8, <1>9, <1>10 DEF StartStep

(***************************************************************************)
(* A refused start met an owner of the socket: a parent before its fork, a *)
(* client, or the parent of a dead client, for which it has been blamed.   *)
(***************************************************************************)
LEMMA AfterStartStep == PInv /\ ProcessStep => ClientAfterStart'
<1> SUFFICES ASSUME PInv, NEW i \in Start, StartStep(i) \/ Kill(i),
                    NEW k \in Start, told'[k] # "nothing", k \notin blame'
             PROVE  \E j \in Start : Up(j)'
  BY DEF ProcessStep, ClientAfterStart
<1> USE DEF PInv, ProcessTypeOK, Goto, Exit, Alive, Up
<1>1. CASE PortTaken(i)
  <2>1. PICK j \in Start : parent[j] \in {"fork", "exit"} \/ Alive(j)
    BY <1>1 DEF PortTaken
  <2>2. j # i \/ Alive(j)
    BY <1>1, <2>1 DEF PortTaken
  <2>3. CASE Orphaned(j)
    <3>1. i \in blame /\ blame' = blame
      BY <1>1, <2>3 DEF PortTaken, BlamedForOrphans, NoFault
    <3>2. told[k] # "nothing"
      BY <1>1, <3>1 DEF PortTaken
    <3>3. PICK l \in Start : Up(l)
      BY <3>1, <3>2 DEF ClientAfterStart
    <3> QED
      BY <1>1, <3>3 DEF PortTaken
  <2>4. CASE ~Orphaned(j)
    BY <1>1, <2>1, <2>2, <2>4 DEF PortTaken, Orphaned
  <2> QED
    BY <2>3, <2>4
<1>2. CASE ParentExit(i)
  <2>1. CASE k = i
    <3>1. ~Orphaned(i)
      BY <1>2, <2>1 DEF ParentExit, BlamedForOrphans, NoFault
    <3> QED
      BY <1>2, <3>1 DEF ParentExit, Orphaned
  <2>2. CASE k # i
    <3>1. PICK l \in Start : Up(l)
      BY <1>2, <2>2 DEF ParentExit, NoFault, ClientAfterStart
    <3> QED
      BY <1>2, <3>1 DEF ParentExit
  <2> QED
    BY <2>1, <2>2
<1>3. CASE Fault
  <2>1. parent[k] = "none"
    BY <1>3 DEF Fault
  <2>2. told[k] = "nothing"
    BY <2>1 DEF ToldAfterStart
  <2>3. k = i /\ parent[i] # "none"
    BY <2>2 DEF StartStep, Kill, Invoke, GetIpByHostname, NoSuchHost, OpenSocketToRcv,
                PortTaken, Fork, ForkFails, ParentExit, Daemonize, DaemonizeFails, ChildEnds
  <2> QED
    BY <2>1, <2>3
<1>4. CASE Invoke(i) \/ GetIpByHostname(i) \/ OpenSocketToRcv(i) \/ Fork(i) \/ Daemonize(i)
  <2>1. told' = told /\ blame \subseteq blame'
    BY <1>4 DEF Invoke, GetIpByHostname, OpenSocketToRcv, Fork, Daemonize, NoFault
  <2>2. PICK l \in Start : Up(l)
    BY <2>1 DEF ClientAfterStart
  <2> QED
    BY <1>4, <2>2 DEF Invoke, GetIpByHostname, OpenSocketToRcv, Fork, Daemonize
<1> QED
  BY <1>1, <1>2, <1>3, <1>4
     DEF StartStep, Kill, NoSuchHost, ForkFails, DaemonizeFails, ChildEnds

(* PInv is inductive.                                                      *)
LEMMA PInvStep == PInv /\ [ProcessStep]_processVars => PInv'
<1>1. CASE ProcessStep
  BY <1>1, PTypeStep, OwnerStep, BlameStep, AfterStartStep DEF PInv
<1>2. CASE UNCHANGED processVars
  BY <1>2 DEF PInv, processVars, ProcessTypeOK, OneOwner, BlamedForOrphans,
              ToldAfterStart, ClientAfterStart, Alive, Orphaned, Up
<1> QED
  BY <1>1, <1>2

(* To the processes a step of the disks or of the watch is none.           *)
LEMMA NextIsProcessStep == [Next]_vars => [ProcessStep]_processVars
BY DEF Next, vars, ProcessStep

(* The inductive invariant of the processes (networkc, daemon.c).          *)
THEOREM PInvCorrect == Spec => []PInv
<1>1. Init => PInv
  BY PInvInit DEF Init
<1>2. PInv /\ [Next]_vars => PInv'
  BY PInvStep, NextIsProcessStep
<1> QED
  BY <1>1, <1>2, PTL DEF Spec

(* However starts, restarts and kills overlap, there is one client.        *)
THEOREM OneClientCorrect == Spec => []OneClient
<1>1. PInv => OneClient
  <2> SUFFICES ASSUME PInv, NEW i \in Start, NEW j \in Start, Alive(i), Alive(j)
               PROVE  i = j
    BY DEF OneClient
  <2>1. <<i, "child">> \in sock /\ <<j, "child">> \in sock
    BY DEF PInv, ProcessTypeOK
  <2> QED
    BY <2>1 DEF PInv, OneOwner
<1> QED
  BY <1>1, PInvCorrect, PTL

(* A start leaves the host with a client, whatever its exit status.        *)
THEOREM AfterStartCorrect == Spec => []ClientAfterStart
<1>1. PInv => ClientAfterStart
  BY DEF PInv
<1> QED
  BY <1>1, PInvCorrect, PTL

-----------------------------------------------------------------------------
(* The disks.  Events of one disk that nobody has read, oldest first.      *)
Unread(d) == queue[d] \o pending[d]

LastOf(s) == s[Len(s)]

(***************************************************************************)
(* Events of disk d that lead to the disks there are: "add" comes after    *)
(* "remove" and after nothing else.                                        *)
(***************************************************************************)
Plausible(s, d, there) ==
    /\ \A k \in 1 .. Len(s) - 1 : s[k + 1] = "add" <=> s[k] = "remove"
    /\ s # <<>> => (LastOf(s) # "remove" <=> d \in there)

(* Nothing in s will be logged.                                            *)
Silent(s) == \A k \in 1 .. Len(s) : s[k] = "change"

(* A new event that fits what sysfs showed keeps a sequence plausible.     *)
LEMMA PlausibleAppend ==
    ASSUME NEW s \in Seq(Event), NEW e \in Event, NEW d, NEW there, NEW then,
           Plausible(s, d, there), e = "add" <=> d \notin there,
           e # "remove" <=> d \in then
    PROVE  Plausible(Append(s, e), d, then)
<1> DEFINE t == Append(s, e)
<1>1. /\ Len(s) \in Nat /\ Len(t) = Len(s) + 1 /\ t # <<>>
      /\ \A k \in 1 .. Len(s) : t[k] = s[k]
      /\ t[Len(s) + 1] = e
  OBVIOUS
<1>2. ASSUME NEW k \in 1 .. Len(t) - 1
      PROVE  t[k + 1] = "add" <=> t[k] = "remove"
  <2>1. CASE k = Len(s)
    <3>1. s # <<>>
      BY <1>1, <1>2, <2>1
    <3> QED
      BY <1>1, <1>2, <2>1, <3>1 DEF Plausible, LastOf
  <2>2. CASE k # Len(s)
    BY <1>1, <1>2, <2>2 DEF Plausible
  <2> QED
    BY <2>1, <2>2
<1> QED
  BY <1>1, <1>2 DEF Plausible, LastOf

(* What is left of a plausible sequence after its first event is one.      *)
LEMMA PlausibleTail ==
    ASSUME NEW s \in Seq(Event), s # <<>>, NEW d, NEW there, Plausible(s, d, there)
    PROVE  /\ Plausible(Tail(s), d, there)
           /\ Tail(s) # <<>> => (Head(Tail(s)) = "add" <=> Head(s) = "remove")
           /\ Tail(s) = <<>> => (Head(s) # "remove" <=> d \in there)
<1> DEFINE t == Tail(s)
<1>1. /\ Len(s) \in Nat \ {0} /\ Len(t) = Len(s) - 1 /\ t \in Seq(Event)
      /\ \A k \in 1 .. Len(t) : t[k] = s[k + 1]
      /\ Head(s) = s[1]
  OBVIOUS
<1>4. t # <<>> => Head(t) = t[1] /\ Len(t) \in Nat \ {0}
  BY <1>1, EmptySeq
<1>5. t = <<>> => Len(s) = 1
  <2>1. Len(<<>>) = 0
    OBVIOUS
  <2>2. t = <<>> => Len(t) = Len(<<>>)
    BY Zenon
  <2> QED
    BY <1>1, <2>1, <2>2
<1>2. \A k \in 1 .. Len(t) - 1 : t[k + 1] = "add" <=> t[k] = "remove"
  BY <1>1 DEF Plausible
<1>3. t # <<>> => (LastOf(t) # "remove" <=> d \in there)
  BY <1>1 DEF Plausible, LastOf
<1>6. t # <<>> => (Head(t) = "add" <=> Head(s) = "remove")
  BY <1>1, <1>4 DEF Plausible
<1>7. t = <<>> => (Head(s) # "remove" <=> d \in there)
  BY <1>1, <1>5 DEF Plausible, LastOf
<1> QED
  BY <1>2, <1>3, <1>6, <1>7 DEF Plausible

(* Nothing is left to log exactly if this event and the rest are changes.  *)
LEMMA SilentTail ==
    ASSUME NEW s \in Seq(Event), s # <<>>
    PROVE  Silent(s) <=> Silent(Tail(s)) /\ Head(s) = "change"
<1>1. /\ Len(s) \in Nat \ {0} /\ Len(Tail(s)) = Len(s) - 1
      /\ \A k \in 1 .. Len(s) - 1 : Tail(s)[k] = s[k + 1]
      /\ Head(s) = s[1]
  OBVIOUS
<1>2. ASSUME Silent(Tail(s)), Head(s) = "change", NEW k \in 1 .. Len(s)
      PROVE  s[k] = "change"
  <2>1. CASE k = 1
    BY <1>1, <1>2, <2>1
  <2>2. CASE k # 1
    <3>1. k - 1 \in 1 .. Len(Tail(s)) /\ Tail(s)[k - 1] = s[k]
      BY <1>1, <2>2
    <3> QED
      BY <1>2, <3>1 DEF Silent
  <2> QED
    BY <2>1, <2>2
<1> QED
  BY <1>1, <1>2 DEF Silent

(* The same at the other end.                                              *)
LEMMA SilentAppend ==
    ASSUME NEW s \in Seq(Event), NEW e \in Event
    PROVE  Silent(Append(s, e)) <=> Silent(s) /\ e = "change"
<1>1. /\ Len(s) \in Nat /\ Len(Append(s, e)) = Len(s) + 1
      /\ \A k \in 1 .. Len(s) : Append(s, e)[k] = s[k]
      /\ Append(s, e)[Len(s) + 1] = e
  OBVIOUS
<1> QED
  BY <1>1 DEF Silent

(* A disk whose unread events are silent is there if there are any.        *)
LEMMA SilentIsThere ==
    ASSUME NEW s \in Seq(Event), NEW d, NEW there, Plausible(s, d, there),
           Silent(s), s # <<>>
    PROVE  d \in there
BY DEF Plausible, Silent, LastOf

(* How the unread events change: at the end, at the border, at the front.  *)
LEMMA UnreadAppend ==
    ASSUME NEW q \in Seq(Event), NEW p \in Seq(Event), NEW e \in Event
    PROVE  q \o Append(p, e) = Append(q \o p, e)
OBVIOUS

(* What udevd passes on is still unread.                                   *)
LEMMA UnreadMove ==
    ASSUME NEW q \in Seq(Event), NEW p \in Seq(Event), p # <<>>
    PROVE  Append(q, Head(p)) \o Tail(p) = q \o p
OBVIOUS

(* What the client reads is the first event that was unread.               *)
LEMMA UnreadTail ==
    ASSUME NEW q \in Seq(Event), NEW p \in Seq(Event), q # <<>>
    PROVE  Tail(q) \o p = Tail(q \o p) /\ Head(q \o p) = Head(q) /\ q \o p # <<>>
OBVIOUS

-----------------------------------------------------------------------------
(* What the log says of a disk without unread events that would be logged. *)
Told(d) ==
    /\ log[d] # <<>> => (LastOf(log[d]) # "remove" <=> d \in here)
    /\ log[d] = <<>> /\ todo[d] = 0 /\ d \in here => Parts[d] = 0 \/ leftover = d

Believed ==
    \A d \in Disk \ missed :
        phase \in {"listing", "watching"} /\ Silent(Unread(d)) => Told(d)

EventsPlausible ==
    \A d \in Disk :
        /\ Plausible(pending[d], d, here)
        /\ d \notin missed => Plausible(Unread(d), d, here)

Phases ==
    /\ phase = "off" => queue = Empty
    /\ phase \in {"off", "enabled"} => log = Empty
    /\ phase = "watching" => \A d \in Disk : todo[d] = 0

(* The array holds what it held at first, or the disk that was logged last.*)
ArrayIsLogged == devnode \in Disk => leftover = devnode \/ log[devnode] # <<>>

(* A disk in the middle of its partitions is the one in the array.         *)
ListedInOrder ==
    phase = "listing" =>
        \A d \in Disk :
            /\ log[d] \in {<<>>, <<"inserted">>}
            /\ log[d] # <<>> /\ todo[d] > 0 => devnode = d
            /\ log[d] # <<>> => \A e \in Disk : todo[e] > 0 => d <= e

WInv == WatchTypeOK /\ EventsPlausible /\ Phases /\ Believed /\ ArrayIsLogged /\ ListedInOrder

KStep == \E d \in Disk : KernelStep(d)
WatchStep == WatchEnds \/ LogUdevEvents \/ KStep

(* Before the first client nothing is logged and nothing under way.        *)
LEMMA WInvInit == WatchInit => WInv
<1> SUFFICES ASSUME WatchInit PROVE WInv
  OBVIOUS
<1>1. WatchTypeOK
  BY GarbageAssumption, BoundAssumption DEF WatchInit, NewClient, WatchTypeOK, Empty
<1>2. EventsPlausible
  BY DEF WatchInit, NewClient, EventsPlausible, Plausible, Unread, Empty
<1>3. Phases /\ Believed /\ ArrayIsLogged /\ ListedInOrder
  BY DEF WatchInit, NewClient, Phases, Believed, ArrayIsLogged, ListedInOrder
<1> QED
  BY <1>1, <1>2, <1>3 DEF WInv

(* No step of the client that is not a reading touches kernel or socket.   *)
ClientOnly ==
    /\ UNCHANGED <<kernelVars, queue, leftover, missed>>
    /\ EnableReceiving \/ ScanDevices \/ ListDone \/ \E d \in Disk : ListPartition(d)

(* The steps of client and kernel, sorted by what they touch.              *)
LEMMA WatchSteps ==
    ASSUME WatchStep
    PROVE  \/ WatchEnds \/ ClientOnly
           \/ \E d \in Disk : \/ ReceiveDevice(d) \/ PassOn(d)
                              \/ Plug(d) \/ Unplug(d) \/ Change(d)
BY DEF WatchStep, ClientOnly, LogUdevEvents, KStep, KernelStep, EnableReceiving, ScanDevices,
       ListDone, ListPartition

(* Every step keeps the types of the watch.                                *)
LEMMA WTypeStep == WInv /\ WatchStep => WatchTypeOK'
<1> SUFFICES ASSUME WInv, WatchStep PROVE WatchTypeOK'
  OBVIOUS
<1> USE DEF WInv, WatchTypeOK, kernelVars, clientVars
<1>1. CASE WatchEnds
  BY <1>1, GarbageAssumption DEF WatchEnds, Empty
<1>2. CASE EnableReceiving
  BY <1>2 DEF EnableReceiving
<1>7. CASE ScanDevices
  <2>1. Listed \in [Disk -> Nat]
    BY DiskAssumption DEF Listed
  <2> QED
    BY <1>7, <2>1 DEF ScanDevices
<1>8. CASE ListDone
  BY <1>8 DEF ListDone
<1>3. ASSUME NEW d \in Disk, ListPartition(d) PROVE WatchTypeOK'
  <2>1. todo' \in [Disk -> Nat]
    <3>1. todo[d] > 0 /\ todo' = [todo EXCEPT ![d] = @ - 1]
      BY <1>3 DEF ListPartition, IsNext
    <3>2. todo[d] - 1 \in Nat
      BY <3>1
    <3> QED
      BY <3>1, <3>2
  <2>2. log' \in [Disk -> Seq(Action)]
    <3>1. Append(log[d], "inserted") \in Seq(Action)
      BY DEF Action
    <3> QED
      BY <1>3, <3>1 DEF ListPartition, WriteLog
  <2>3. devnode' \in Disk \cup {NoDisk}
    BY <1>3 DEF ListPartition
  <2> QED
    BY <1>3, <2>1, <2>2, <2>3 DEF ListPartition
<1>4. ASSUME NEW d \in Disk, ReceiveDevice(d) PROVE WatchTypeOK'
  <2>1. Head(queue[d]) \in Event /\ Tail(queue[d]) \in Seq(Event)
    BY <1>4 DEF ReceiveDevice
  <2>2. log' \in [Disk -> Seq(Action)]
    <3> DEFINE a == Head(queue[d])
    <3>1. WriteLog(d, a)
      BY <1>4 DEF ReceiveDevice
    <3>2. a = "change" \/ a \in Action
      BY <2>1 DEF Action, Event
    <3> HIDE DEF a
    <3>3. CASE a = "change"
      BY <3>1, <3>3 DEF WriteLog
    <3>4. CASE a # "change"
      <4>1. Append(log[d], a) \in Seq(Action)
        BY <3>2, <3>4
      <4> QED
        BY <3>1, <3>4, <4>1 DEF WriteLog
    <3> QED
      BY <3>3, <3>4
  <2> QED
    BY <1>4, <2>1, <2>2 DEF ReceiveDevice
<1>5. ASSUME NEW d \in Disk, PassOn(d) PROVE WatchTypeOK'
  <2>1. Head(pending[d]) \in Event /\ Tail(pending[d]) \in Seq(Event)
    BY <1>5 DEF PassOn
  <2>2. queue' \in [Disk -> Seq(Event)]
    BY <1>5, <2>1 DEF PassOn
  <2> QED
    BY <1>5, <2>1, <2>2 DEF PassOn
<1>6. ASSUME NEW d \in Disk, Plug(d) \/ Unplug(d) \/ Change(d) PROVE WatchTypeOK'
  <2>1. PICK e \in Event : Uevent(d, e) /\ here' \subseteq Disk
    BY <1>6 DEF Plug, Unplug, Change, Event
  <2> QED
    BY <2>1, BoundAssumption DEF Uevent
<1> QED
  BY <1>1, <1>2, <1>3, <1>4, <1>5, <1>6, <1>7, <1>8, WatchSteps DEF ClientOnly

(* Events stay plausible: a disk comes and goes by turns.                  *)
LEMMA PlausibleStep == WInv /\ WatchStep => EventsPlausible'
<1> SUFFICES ASSUME WInv, WatchStep, NEW c \in Disk
             PROVE  /\ Plausible(pending'[c], c, here')
                    /\ c \notin missed' => Plausible(Unread(c)', c, here')
  BY DEF EventsPlausible
<1>0. /\ queue[c] \in Seq(Event) /\ pending[c] \in Seq(Event) /\ Unread(c) \in Seq(Event)
      /\ Plausible(pending[c], c, here)
      /\ c \notin missed => Plausible(Unread(c), c, here)
  BY ConcatProperties DEF WInv, WatchTypeOK, EventsPlausible, Unread
<1>1. CASE WatchEnds
  <2>1. here' = here /\ pending' = pending /\ queue'[c] = <<>>
    BY <1>1 DEF WatchEnds, kernelVars, Empty
  <2>2. Unread(c)' = pending[c]
    BY <1>0, <2>1, ConcatEmptySeq DEF Unread
  <2> QED
    BY <1>0, <2>1, <2>2
<1>2. CASE ClientOnly
  BY <1>0, <1>2 DEF ClientOnly, kernelVars, Unread
<1>3. ASSUME NEW d \in Disk, ReceiveDevice(d)
      PROVE  /\ Plausible(pending'[c], c, here')
             /\ c \notin missed' => Plausible(Unread(c)', c, here')
  <2>1. pending' = pending /\ here' = here /\ missed' = missed
    BY <1>3 DEF ReceiveDevice, kernelVars
  <2>2. CASE c = d
    <3>1. queue[c] # <<>> /\ queue'[c] = Tail(queue[c])
      BY <1>3, <2>2 DEF ReceiveDevice, WInv, WatchTypeOK
    <3>2. Unread(c)' = Tail(Unread(c)) /\ Unread(c) # <<>>
      BY <1>0, <2>1, <3>1, UnreadTail DEF Unread
    <3>3. c \notin missed => Plausible(Tail(Unread(c)), c, here)
      BY <1>0, <3>2, PlausibleTail
    <3> QED
      BY <1>0, <2>1, <3>2, <3>3
  <2>3. CASE c # d
    BY <1>0, <1>3, <2>1, <2>3 DEF ReceiveDevice, WInv, WatchTypeOK, Unread
  <2> QED
    BY <2>2, <2>3
<1>4. ASSUME NEW d \in Disk, PassOn(d)
      PROVE  /\ Plausible(pending'[c], c, here')
             /\ c \notin missed' => Plausible(Unread(c)', c, here')
  <2>1. here' = here
    BY <1>4 DEF PassOn
  <2>2. CASE c = d
    <3>1. pending[c] # <<>> /\ pending'[c] = Tail(pending[c])
      BY <1>4, <2>2 DEF PassOn, WInv, WatchTypeOK
    <3>2. Plausible(pending'[c], c, here')
      BY <1>0, <2>1, <3>1, PlausibleTail
    <3>3. CASE phase = "off"
      <4>1. queue'[c] = <<>>
        BY <1>4, <2>2, <3>3 DEF PassOn, WInv, Phases, Empty
      <4>2. Unread(c)' = pending'[c]
        BY <1>0, <3>1, <4>1, ConcatEmptySeq, HeadTailProperties DEF Unread
      <4> QED
        BY <3>2, <4>2
    <3>4. CASE phase # "off" /\ Full
      BY <1>4, <2>2, <3>2, <3>4 DEF PassOn
    <3>5. CASE phase # "off" /\ ~Full
      <4>1. queue'[c] = Append(queue[c], Head(pending[c])) /\ missed' = missed
        BY <1>4, <2>2, <3>5 DEF PassOn, WInv, WatchTypeOK
      <4>2. Unread(c)' = Unread(c)
        BY <1>0, <3>1, <4>1, UnreadMove DEF Unread
      <4> QED
        BY <1>0, <2>1, <3>2, <4>1, <4>2
    <3> QED
      BY <3>3, <3>4, <3>5
  <2>3. CASE c # d
    <3>1. queue'[c] = queue[c] /\ pending'[c] = pending[c] /\ missed \subseteq missed'
      BY <1>4, <2>3 DEF PassOn, WInv, WatchTypeOK
    <3> QED
      BY <1>0, <2>1, <3>1 DEF Unread
  <2> QED
    BY <2>2, <2>3
<1>5. ASSUME NEW d \in Disk, NEW e \in Event, Uevent(d, e), (e = "add" <=> d \notin here),
             e # "remove" <=> d \in here', \A x \in Disk \ {d} : x \in here' <=> x \in here
      PROVE  /\ Plausible(pending'[c], c, here')
             /\ c \notin missed' => Plausible(Unread(c)', c, here')
  <2>1. queue' = queue /\ missed' = missed
    BY <1>5 DEF Uevent, clientVars
  <2>2. CASE c = d
    <3>1. pending'[c] = Append(pending[c], e)
      BY <1>5, <2>2 DEF Uevent, WInv, WatchTypeOK
    <3>5. queue[c] \o Append(pending[c], e) = Append(queue[c] \o pending[c], e)
      BY <1>0, UnreadAppend
    <3>2. Unread(c)' = Append(Unread(c), e)
      BY <2>1, <3>1, <3>5 DEF Unread
    <3>3. Plausible(Append(pending[c], e), c, here')
      BY <1>0, <1>5, <2>2, PlausibleAppend
    <3>4. c \notin missed => Plausible(Append(Unread(c), e), c, here')
      BY <1>0, <1>5, <2>2, PlausibleAppend
    <3> QED
      BY <1>5, <2>1, <2>2, <3>1, <3>2, <3>3, <3>4
  <2>3. CASE c # d
    <3>1. pending'[c] = pending[c]
      BY <1>5, <2>3 DEF Uevent, WInv, WatchTypeOK
    <3>2. c \in here' <=> c \in here
      BY <1>5, <2>3
    <3>3. Unread(c)' = Unread(c)
      BY <2>1, <3>1 DEF Unread
    <3> QED
      BY <1>0, <2>1, <3>1, <3>2, <3>3 DEF Plausible
  <2> QED
    BY <2>2, <2>3
<1>6. ASSUME NEW d \in Disk, Plug(d) \/ Unplug(d) \/ Change(d)
      PROVE  \E e \in Event : /\ Uevent(d, e) /\ (e = "add" <=> d \notin here)
                              /\ e # "remove" <=> d \in here'
                              /\ \A x \in Disk \ {d} : x \in here' <=> x \in here
  <2>1. "add" \in Event /\ "remove" \in Event /\ "change" \in Event
    BY DEF Event
  <2>2. CASE Plug(d)
    BY <2>1, <2>2 DEF Plug
  <2>3. CASE Unplug(d)
    BY <2>1, <2>3 DEF Unplug
  <2>4. CASE Change(d)
    BY <2>1, <2>4 DEF Change
  <2> QED
    BY <1>6, <2>2, <2>3, <2>4
<1> QED
  BY <1>1, <1>2, <1>3, <1>4, <1>5, <1>6, WatchSteps

(* A read changes the queue.                                               *)
LEMMA TailDiffers == ASSUME NEW s \in Seq(Event), s # <<>> PROVE Tail(s) # s
<1>1. Len(Tail(s)) = Len(s) - 1 /\ Len(s) \in Nat
  BY HeadTailProperties
<1>2. ASSUME Tail(s) = s PROVE Len(s) = Len(s) - 1
  BY <1>1, <1>2, Zenon
<1>3. Len(s) # Len(s) - 1
  <2>1. Len(s) \in Nat
    BY LenProperties
  <2>2. \A n \in Nat : n # n - 1
    OBVIOUS
  <2> QED
    BY <2>1, <2>2
<1> QED
  BY <1>2, <1>3

(* The unread events of a disk after each step, and its place in sysfs.    *)
LEMMA UnreadStep ==
    ASSUME WInv, WatchStep, phase' \in {"listing", "watching"},
           NEW c \in Disk, c \notin missed'
    PROVE  /\ c \notin missed
           /\ \/ /\ Unread(c)' = Unread(c) /\ (c \in here' <=> c \in here)
                 /\ ~ReceiveDevice(c)
              \/ /\ ReceiveDevice(c) /\ UNCHANGED here
                 /\ Unread(c) # <<>> /\ Unread(c)' = Tail(Unread(c))
                 /\ Head(Unread(c)) = Head(queue[c])
              \/ /\ UNCHANGED clientVars
                 /\ \E e \in Event : /\ Unread(c)' = Append(Unread(c), e)
                                     /\ e = "add" <=> c \notin here
                                     /\ e = "change" => UNCHANGED here
<1>0. queue[c] \in Seq(Event) /\ pending[c] \in Seq(Event)
  BY DEF WInv, WatchTypeOK
<1>1. CASE WatchEnds
  BY <1>1 DEF WatchEnds
<1>2. CASE ClientOnly
  BY <1>2 DEF ClientOnly, kernelVars, Unread, ReceiveDevice, EnableReceiving, ScanDevices,
              ListDone, ListPartition
<1>3. ASSUME NEW d \in Disk, ReceiveDevice(d)
      PROVE  /\ c \notin missed
             /\ \/ /\ Unread(c)' = Unread(c) /\ (c \in here' <=> c \in here)
                   /\ ~ReceiveDevice(c)
                \/ /\ ReceiveDevice(c) /\ UNCHANGED here
                   /\ Unread(c) # <<>> /\ Unread(c)' = Tail(Unread(c))
                   /\ Head(Unread(c)) = Head(queue[c])
  <2>1. pending' = pending /\ here' = here /\ missed' = missed
    BY <1>3 DEF ReceiveDevice, kernelVars
  <2>2. CASE c = d
    <3>1. queue[c] # <<>> /\ queue'[c] = Tail(queue[c])
      BY <1>3, <2>2 DEF ReceiveDevice, WInv, WatchTypeOK
    <3>2. Unread(c)' = Tail(Unread(c)) /\ Unread(c) # <<>> /\ Head(Unread(c)) = Head(queue[c])
      BY <1>0, <2>1, <3>1, UnreadTail DEF Unread
    <3> QED
      BY <1>3, <2>1, <2>2, <3>2
  <2>3. CASE c # d
    <3>1. queue'[c] = queue[c]
      BY <1>3, <2>3 DEF ReceiveDevice, WInv, WatchTypeOK
    <3>2. ~ReceiveDevice(c)
      <4>1. SUFFICES ASSUME ReceiveDevice(c) PROVE FALSE
        OBVIOUS
      <4>2. queue[c] # <<>> /\ queue'[c] = Tail(queue[c])
        BY <4>1 DEF ReceiveDevice, WInv, WatchTypeOK
      <4> QED
        BY <1>0, <3>1, <4>2, TailDiffers
    <3> QED
      BY <2>1, <3>1, <3>2 DEF Unread
  <2> QED
    BY <2>2, <2>3
<1>4. ASSUME NEW d \in Disk, PassOn(d)
      PROVE  c \notin missed /\ Unread(c)' = Unread(c) /\ (c \in here' <=> c \in here)
  <2>1. here' = here /\ c \notin missed /\ phase # "off"
    BY <1>4 DEF PassOn
  <2>2. CASE c = d
    <3>1. /\ pending[c] # <<>> /\ pending'[c] = Tail(pending[c])
          /\ queue'[c] = Append(queue[c], Head(pending[c]))
      BY <1>4, <2>1, <2>2 DEF PassOn, WInv, WatchTypeOK
    <3> QED
      BY <1>0, <2>1, <3>1, UnreadMove DEF Unread
  <2>3. CASE c # d
    BY <1>4, <2>1, <2>3 DEF PassOn, WInv, WatchTypeOK, Unread
  <2> QED
    BY <2>2, <2>3
<1>5. ASSUME NEW d \in Disk, NEW e \in Event, Uevent(d, e), (e = "add" <=> d \notin here),
             e = "change" => here' = here, \A x \in Disk \ {d} : x \in here' <=> x \in here
      PROVE  /\ c \notin missed
             /\ UNCHANGED clientVars
             /\ \/ Unread(c)' = Unread(c) /\ (c \in here' <=> c \in here)
                \/ /\ Unread(c)' = Append(Unread(c), e) /\ (e = "add" <=> c \notin here)
  <2>1. queue' = queue /\ missed' = missed /\ UNCHANGED clientVars
    BY <1>5 DEF Uevent, clientVars
  <2>2. CASE c = d
    <3>1. pending'[c] = Append(pending[c], e)
      BY <1>5, <2>2 DEF Uevent, WInv, WatchTypeOK
    <3>2. queue[c] \o Append(pending[c], e) = Append(queue[c] \o pending[c], e)
      BY <1>0, UnreadAppend
    <3> QED
      BY <1>5, <2>1, <2>2, <3>1, <3>2 DEF Unread
  <2>3. CASE c # d
    BY <1>5, <2>1, <2>3 DEF Uevent, WInv, WatchTypeOK, Unread
  <2> QED
    BY <2>2, <2>3
<1>6. ASSUME NEW d \in Disk, Plug(d) \/ Unplug(d) \/ Change(d)
      PROVE  \E e \in Event : /\ Uevent(d, e) /\ (e = "add" <=> d \notin here)
                              /\ e = "change" => here' = here
                              /\ \A x \in Disk \ {d} : x \in here' <=> x \in here
  <2>1. "add" \in Event /\ "remove" \in Event /\ "change" \in Event
    BY DEF Event
  <2>2. CASE Plug(d)
    BY <2>1, <2>2 DEF Plug
  <2>3. CASE Unplug(d)
    BY <2>1, <2>3 DEF Unplug
  <2>4. CASE Change(d)
    BY <2>1, <2>4 DEF Change
  <2> QED
    BY <1>6, <2>2, <2>3, <2>4
<1>7. ASSUME NEW d \in Disk, PassOn(d) \/ Plug(d) \/ Unplug(d) \/ Change(d)
      PROVE  ~ReceiveDevice(c)
  <2>1. SUFFICES ASSUME ReceiveDevice(c) PROVE FALSE
    OBVIOUS
  <2>2. pending' = pending /\ events' = events
    BY <2>1 DEF ReceiveDevice, kernelVars
  <2>3. pending[d] \in Seq(Event)
    BY DEF WInv, WatchTypeOK
  <2>4. CASE PassOn(d)
    <3>1. pending[d] # <<>> /\ pending[d] = Tail(pending[d])
      BY <2>2, <2>4 DEF PassOn, WInv, WatchTypeOK
    <3> QED
      BY <2>3, <3>1, TailDiffers
  <2>5. CASE Plug(d) \/ Unplug(d) \/ Change(d)
    BY <2>2, <2>5 DEF Plug, Unplug, Change, Uevent, WInv, WatchTypeOK
  <2> QED
    BY <1>7, <2>4, <2>5
<1> QED
  BY <1>1, <1>2, <1>3, <1>4, <1>5, <1>6, <1>7, WatchSteps

(* What a step does to the log of a disk.                                  *)
LEMMA LogStep ==
    ASSUME WInv, WatchStep, phase' \in {"listing", "watching"}, NEW c \in Disk
    PROVE  \/ log'[c] = log[c] /\ ~ReceiveDevice(c)
           \/ /\ phase = "listing" /\ IsNext(c) /\ c \in here /\ devnode # c
              /\ log'[c] = Append(log[c], "inserted") /\ devnode' = c
           \/ /\ ReceiveDevice(c) /\ phase = "watching"
              /\ log'[c] = IF Head(queue[c]) = "change" THEN log[c]
                           ELSE Append(log[c], Head(queue[c]))
<1>1. CASE WatchEnds
  BY <1>1 DEF WatchEnds
<1>2. CASE ReceiveDevice(c)
  BY <1>2 DEF ReceiveDevice, WriteLog, WInv, WatchTypeOK
<1>3. CASE ~ReceiveDevice(c)
  <2>1. CASE ClientOnly
    <3>1. CASE EnableReceiving \/ ScanDevices \/ ListDone
      BY <1>3, <3>1 DEF EnableReceiving, ScanDevices, ListDone
    <3>2. ASSUME NEW d \in Disk, ListPartition(d), d \in here, devnode # d
          PROVE  \/ log'[c] = log[c]
                 \/ /\ phase = "listing" /\ IsNext(c) /\ c \in here /\ devnode # c
                    /\ log'[c] = Append(log[c], "inserted") /\ devnode' = c
      BY <3>2 DEF ListPartition, WriteLog, WInv, WatchTypeOK
    <3>3. ASSUME NEW d \in Disk, ListPartition(d), ~(d \in here /\ devnode # d)
          PROVE  log'[c] = log[c]
      BY <3>3 DEF ListPartition
    <3> QED
      BY <1>3, <2>1, <3>1, <3>2, <3>3 DEF ClientOnly
  <2>2. ASSUME NEW d \in Disk, ReceiveDevice(d) PROVE log'[c] = log[c]
    BY <1>3, <2>2 DEF ReceiveDevice, WriteLog, WInv, WatchTypeOK
  <2>3. ASSUME NEW d \in Disk, PassOn(d) \/ Plug(d) \/ Unplug(d) \/ Change(d)
        PROVE  log' = log
    BY <2>3 DEF PassOn, Plug, Unplug, Change, Uevent, clientVars
  <2> QED
    BY <1>1, <1>3, <2>1, <2>2, <2>3, WatchSteps
<1> QED
  BY <1>2, <1>3

(* What was logged last is the last of the log.                            *)
LEMMA LastAppended ==
    ASSUME NEW s \in Seq(Action), NEW a \in Action
    PROVE  Append(s, a) # <<>> /\ LastOf(Append(s, a)) = a
BY DEF LastOf

(* The log is empty before the listing, and devnode names a disk in it.    *)
LEMMA PhaseStep == WInv /\ WatchStep => Phases' /\ ArrayIsLogged'
<1> SUFFICES ASSUME WInv, WatchStep PROVE Phases' /\ ArrayIsLogged'
  OBVIOUS
<1> USE DEF WInv, WatchTypeOK, Phases, ArrayIsLogged
<1>1. CASE WatchEnds
  BY <1>1 DEF WatchEnds
<1>2. CASE EnableReceiving \/ ScanDevices \/ ListDone
  BY <1>2 DEF EnableReceiving, ScanDevices, ListDone
<1>3. ASSUME NEW d \in Disk, ListPartition(d) PROVE Phases' /\ ArrayIsLogged'
  <2>1. Phases'
    BY <1>3 DEF ListPartition
  <2>2. CASE d \in here /\ devnode # d
    <3>1. devnode' = d /\ log'[d] = Append(log[d], "inserted")
      BY <1>3, <2>2 DEF ListPartition, WriteLog
    <3>2. log'[d] # <<>>
      BY <3>1, LastAppended DEF Action
    <3> QED
      BY <2>1, <3>1, <3>2
  <2>3. CASE ~(d \in here /\ devnode # d)
    BY <1>3, <2>1, <2>3 DEF ListPartition
  <2> QED
    BY <2>2, <2>3
<1>4. ASSUME NEW d \in Disk, ReceiveDevice(d) PROVE Phases' /\ ArrayIsLogged'
  <2>1. Phases' /\ devnode' = devnode /\ leftover' = leftover
    BY <1>4 DEF ReceiveDevice
  <2>2. ASSUME NEW c \in Disk, log[c] # <<>> PROVE log'[c] # <<>>
    <3>1. CASE c = d /\ Head(queue[d]) # "change"
      <4>1. log'[c] = Append(log[c], Head(queue[d]))
        BY <1>4, <3>1 DEF ReceiveDevice, WriteLog
      <4>2. Head(queue[d]) \in Action
        BY <1>4, <3>1 DEF ReceiveDevice, Event, Action
      <4> QED
        BY <4>1, <4>2, LastAppended
    <3>2. CASE ~(c = d /\ Head(queue[d]) # "change")
      BY <1>4, <2>2, <3>2 DEF ReceiveDevice, WriteLog
    <3> QED
      BY <3>1, <3>2
  <2> QED
    BY <2>1, <2>2
<1>5. ASSUME NEW d \in Disk, PassOn(d) PROVE Phases' /\ ArrayIsLogged'
  BY <1>5 DEF PassOn
<1>6. ASSUME NEW d \in Disk, Plug(d) \/ Unplug(d) \/ Change(d)
      PROVE  Phases' /\ ArrayIsLogged'
  BY <1>6 DEF Plug, Unplug, Change, Uevent, clientVars
<1> QED
  BY <1>1, <1>2, <1>3, <1>4, <1>5, <1>6, WatchSteps DEF ClientOnly

(***************************************************************************)
(* The heart of it: what was listed or read last is what is true, unless   *)
(* there is an event to come.                                              *)
(***************************************************************************)
LEMMA BelievedStep == WInv /\ WatchStep => Believed'
<1> SUFFICES ASSUME WInv, WatchStep, NEW c \in Disk, c \notin missed',
                    phase' \in {"listing", "watching"}, Silent(Unread(c)')
             PROVE  Told(c)'
  BY DEF Believed
<1>0. /\ c \notin missed /\ log[c] \in Seq(Action) /\ Unread(c) \in Seq(Event)
      /\ Plausible(Unread(c), c, here) /\ todo[c] \in Nat
  BY UnreadStep, ConcatProperties DEF WInv, WatchTypeOK, EventsPlausible, Unread
<1>1. CASE ReceiveDevice(c)
  <2>1. /\ phase = "watching" /\ phase' = phase /\ todo' = todo /\ leftover' = leftover
        /\ here' = here /\ Unread(c) # <<>> /\ Head(Unread(c)) = Head(queue[c])
        /\ Unread(c)' = Tail(Unread(c))
    <3>1. ~(UNCHANGED clientVars)
      BY <1>1, TailDiffers DEF ReceiveDevice, clientVars, WInv, WatchTypeOK
    <3> QED
      BY <1>1, <3>1, UnreadStep DEF ReceiveDevice, kernelVars
  <2>2. CASE Head(queue[c]) = "change"
    <3>1. Silent(Unread(c))
      BY <1>0, <2>1, <2>2, SilentTail
    <3>2. Told(c)
      BY <1>0, <2>1, <3>1 DEF WInv, Believed
    <3> QED
      BY <1>1, <2>1, <2>2, <3>2, LogStep DEF Told
  <2>3. CASE Head(queue[c]) # "change"
    <3> DEFINE e == Head(queue[c])
    <3>1. e \in Action
      BY <1>1, <2>3 DEF ReceiveDevice, WInv, WatchTypeOK, Event, Action
    <3>5. log'[c] = Append(log[c], e)
      BY <1>1, <2>1, <2>3, LogStep
    <3>2. log'[c] # <<>> /\ LastOf(log'[c]) = e
      BY <1>0, <3>1, <3>5, LastAppended
    <3>3. CASE Unread(c)' = <<>>
      BY <1>0, <2>1, <3>2, <3>3, PlausibleTail DEF Told
    <3>4. CASE Unread(c)' # <<>>
      <4>1. /\ Plausible(Tail(Unread(c)), c, here) /\ Tail(Unread(c)) \in Seq(Event)
            /\ Head(Tail(Unread(c))) = "add" <=> e = "remove"
        BY <1>0, <2>1, <3>4, PlausibleTail, HeadTailProperties
      <4>2. Head(Tail(Unread(c))) = "change"
        BY <2>1, <3>4, <4>1, SilentTail
      <4>3. c \in here
        BY <2>1, <3>4, <4>1, SilentIsThere
      <4> QED
        BY <2>1, <3>2, <4>1, <4>2, <4>3 DEF Told
    <3> QED
      BY <3>3, <3>4
  <2> QED
    BY <2>2, <2>3
<1>2. CASE UNCHANGED clientVars /\ ~ReceiveDevice(c)
  <2>1. Silent(Unread(c)) /\ (c \in here' <=> c \in here)
    <3>1. CASE \E e \in Event : /\ Unread(c)' = Append(Unread(c), e)
                                /\ e = "change" => UNCHANGED here
      BY <1>0, <3>1, SilentAppend
    <3>2. CASE Unread(c)' = Unread(c) /\ (c \in here' <=> c \in here)
      BY <3>2
    <3> QED
      BY <1>2, <3>1, <3>2, UnreadStep
  <2>2. Told(c)
    BY <1>0, <1>2, <2>1 DEF WInv, Believed, clientVars
  <2> QED
    BY <1>2, <2>1, <2>2 DEF Told, clientVars
<1>3. CASE ~ReceiveDevice(c) /\ ~(UNCHANGED clientVars)
  <2>1. Silent(Unread(c)) /\ (c \in here' <=> c \in here)
    BY <1>3, UnreadStep
  <2>2. CASE ScanDevices
    <3>1. log'[c] = <<>>
      BY <2>2 DEF ScanDevices, WInv, Phases, Empty
    <3>2. todo'[c] = 0 /\ c \in here => Parts[c] = 0
      BY <2>2 DEF ScanDevices, Listed
    <3> QED
      BY <2>1, <3>1, <3>2 DEF Told
  <2>3. CASE ~ScanDevices
    <3>1. phase \in {"listing", "watching"} /\ leftover' = leftover
      <4>1. ~WatchEnds /\ ~EnableReceiving
        BY DEF WatchEnds, EnableReceiving
      <4>2. ASSUME NEW d \in Disk, Plug(d) \/ Unplug(d) \/ Change(d) PROVE FALSE
        BY <1>3, <4>2 DEF Plug, Unplug, Change, Uevent
      <4>3. ASSUME NEW d \in Disk, PassOn(d) \/ ReceiveDevice(d)
            PROVE  phase \in {"listing", "watching"} /\ leftover' = leftover
        BY <4>3 DEF PassOn, ReceiveDevice
      <4>4. CASE ClientOnly
        BY <2>3, <4>1, <4>4 DEF ClientOnly, ListDone, ListPartition
      <4> QED
        BY <4>1, <4>2, <4>3, <4>4, WatchSteps
    <3>2. Told(c)
      BY <1>0, <2>1, <3>1 DEF WInv, Believed
    <3>3. CASE log'[c] = log[c]
      <4>1. CASE todo'[c] = todo[c]
        BY <2>1, <3>1, <3>2, <3>3, <4>1 DEF Told
      <4>2. CASE todo'[c] # todo[c]
        <5>1. PICK d \in Disk : ListPartition(d)
          <6>1. ASSUME NEW d \in Disk, PassOn(d) \/ ReceiveDevice(d) \/ Plug(d)
                                         \/ Unplug(d) \/ Change(d)
                PROVE  FALSE
            BY <4>2, <6>1 DEF PassOn, ReceiveDevice, Plug, Unplug, Change, Uevent, clientVars
          <6> QED
            BY <2>3, <4>2, <6>1, WatchSteps
               DEF ClientOnly, WatchEnds, EnableReceiving, ListDone
        <5>2. d = c
          BY <4>2, <5>1 DEF ListPartition, WInv, WatchTypeOK
        <5>3. c \in here => devnode = c
          <6>1. SUFFICES ASSUME c \in here, devnode # c PROVE FALSE
            OBVIOUS
          <6>2. log'[c] = Append(log[c], "inserted")
            BY <5>1, <5>2, <6>1 DEF ListPartition, WriteLog, WInv, WatchTypeOK
          <6>3. Len(Append(log[c], "inserted")) = Len(log[c]) + 1 /\ Len(log[c]) \in Nat
            BY <1>0 DEF Action
          <6> QED
            BY <3>3, <6>2, <6>3
        <5>4. log[c] = <<>> /\ c \in here => leftover = c
          BY <5>3 DEF WInv, ArrayIsLogged
        <5> QED
          BY <2>1, <3>1, <3>2, <3>3, <5>4 DEF Told
      <4> QED
        BY <4>1, <4>2
    <3>4. CASE log'[c] # log[c]
      <4>1. log'[c] = Append(log[c], "inserted") /\ c \in here
        BY <1>3, <3>4, LogStep
      <4>2. log'[c] # <<>> /\ LastOf(log'[c]) = "inserted"
        BY <1>0, <4>1, LastAppended DEF Action
      <4> QED
        BY <2>1, <4>1, <4>2 DEF Told
    <3> QED
      BY <3>3, <3>4
  <2> QED
    BY <2>2, <2>3
<1> QED
  BY <1>1, <1>2, <1>3

(* The list goes on in the order of the paths.                             *)
LEMMA ListedStep == WInv /\ WatchStep => ListedInOrder'
<1> SUFFICES ASSUME WInv, WatchStep, phase' = "listing", NEW c \in Disk
             PROVE  /\ log'[c] \in {<<>>, <<"inserted">>}
                    /\ log'[c] # <<>> /\ todo'[c] > 0 => devnode' = c
                    /\ log'[c] # <<>> => \A e \in Disk : todo'[e] > 0 => c <= e
  BY DEF ListedInOrder
<1> DEFINE Goal == /\ log'[c] \in {<<>>, <<"inserted">>}
                   /\ log'[c] # <<>> /\ todo'[c] > 0 => devnode' = c
                   /\ log'[c] # <<>> => \A e \in Disk : todo'[e] > 0 => c <= e
<1>1. CASE WatchEnds
  BY <1>1 DEF WatchEnds
<1>2. CASE EnableReceiving \/ ListDone
  BY <1>2 DEF EnableReceiving, ListDone
<1>3. CASE ScanDevices
  BY <1>3 DEF ScanDevices, WInv, Phases, Empty
<1>4. ASSUME NEW d \in Disk, ListPartition(d) PROVE Goal
  <2>1. /\ phase = "listing" /\ todo[d] > 0 /\ \A e \in Disk : todo[e] > 0 => d <= e
        /\ todo' = [todo EXCEPT ![d] = @ - 1] /\ todo \in [Disk -> Nat] /\ Disk \subseteq Nat
    BY <1>4, DiskAssumption DEF ListPartition, IsNext, WInv, WatchTypeOK
  <2>2. \A e \in Disk : todo'[e] > 0 => todo[e] > 0
    BY <2>1
  <2>3. /\ log[c] \in {<<>>, <<"inserted">>}
        /\ log[c] # <<>> /\ todo[c] > 0 => devnode = c
        /\ log[c] # <<>> => \A e \in Disk : todo[e] > 0 => c <= e
    BY <2>1 DEF WInv, ListedInOrder
  <2>4. CASE d \in here /\ devnode # d
    <3>1. devnode' = d /\ log' = [log EXCEPT ![d] = Append(@, "inserted")]
      BY <1>4, <2>4 DEF ListPartition, WriteLog
    <3>2. CASE c = d
      <4>1. log[c] = <<>>
        BY <2>1, <2>3, <2>4, <3>2
      <4>2. log'[c] = <<"inserted">>
        BY <3>1, <3>2, <4>1 DEF WInv, WatchTypeOK
      <4> QED
        BY <2>1, <2>2, <3>1, <3>2, <4>2
    <3>3. CASE c # d
      <4>1. log'[c] = log[c]
        BY <3>1, <3>3
      <4>2. log[c] # <<>> => ~(todo[c] > 0)
        BY <2>1, <2>3, <3>3
      <4> QED
        BY <2>2, <2>3, <4>1, <4>2
    <3> QED
      BY <3>2, <3>3
  <2>5. CASE ~(d \in here /\ devnode # d)
    BY <1>4, <2>2, <2>3, <2>5 DEF ListPartition
  <2> QED
    BY <2>4, <2>5
<1>5. ASSUME NEW d \in Disk, ReceiveDevice(d) \/ PassOn(d) PROVE Goal
  BY <1>5 DEF ReceiveDevice, PassOn, WInv, ListedInOrder
<1>6. ASSUME NEW d \in Disk, Plug(d) \/ Unplug(d) \/ Change(d) PROVE Goal
  BY <1>6 DEF Plug, Unplug, Change, Uevent, clientVars, WInv, ListedInOrder
<1> QED
  BY <1>1, <1>2, <1>3, <1>4, <1>5, <1>6, WatchSteps DEF ClientOnly

(* WInv is inductive.                                                      *)
LEMMA WInvStep == WInv /\ [WatchStep]_watchVars => WInv'
<1>1. CASE WatchStep
  BY <1>1, WTypeStep, PlausibleStep, PhaseStep, BelievedStep, ListedStep DEF WInv
<1>2. CASE UNCHANGED watchVars
  BY <1>2 DEF WInv, watchVars, kernelVars, clientVars, WatchTypeOK, EventsPlausible, Unread,
              Phases, Believed, Told, ArrayIsLogged, ListedInOrder
<1> QED
  BY <1>1, <1>2

(* To the watch a step of a process is none, or the end of the client.     *)
LEMMA NextIsWatchStep == [Next]_vars => [WatchStep]_watchVars
BY DEF Next, vars, WatchStep, KStep

(* The watch's inductive invariant (LogUdevEvents, kernel and udevd).      *)
THEOREM WInvCorrect == Spec => []WInv
<1>1. Init => WInv
  BY WInvInit DEF Init
<1>2. WInv /\ [Next]_vars => WInv'
  BY WInvStep, NextIsWatchStep
<1> QED
  BY <1>1, <1>2, PTL DEF Spec

(* The declared types, and who has the socket.                             *)
THEOREM HostTypeCorrect == Spec => []TypeOK
<1>1. PInv /\ WInv => TypeOK
  BY DEF PInv, WInv, TypeOK
<1> QED
  BY <1>1, PInvCorrect, WInvCorrect, PTL

(***************************************************************************)
(* When the client has caught up, the last action it logged of a disk is   *)
(* true, wherever in the start of the client the disk came or went.        *)
(***************************************************************************)
THEOREM LogIsTrueCorrect == Spec => []LogIsTrue
<1>1. WInv => LogIsTrue
  <2> SUFFICES ASSUME WInv, NEW d \in Disk \ missed, Quiet(d)
               PROVE  IF log[d] # <<>>
                      THEN (log[d][Len(log[d])] # "remove") = (d \in here)
                      ELSE d \in here => Parts[d] = 0 \/ leftover = d
    BY DEF LogIsTrue
  <2>1. Unread(d) = <<>>
    BY DEF Quiet, Unread
  <2>2. Silent(Unread(d))
    BY <2>1 DEF Silent
  <2>3. Told(d) /\ todo[d] = 0
    BY <2>2 DEF WInv, Believed, Quiet, Phases
  <2> QED
    BY <2>3 DEF Told, LastOf
<1> QED
  BY <1>1, WInvCorrect, PTL

-----------------------------------------------------------------------------
(***************************************************************************)
(* The story that a log tells of a disk goes on with the next event to     *)
(* read, if it is about a disk that came or went.                          *)
(***************************************************************************)
StoryGoesOn ==
    \A d \in Disk \ missed :
        phase = "watching" /\ log[d] # <<>> /\ LastOf(log[d]) # "inserted" /\ Unread(d) # <<>>
            => (Head(Unread(d)) = "add" <=> LastOf(log[d]) = "remove")

SInv == StoryGoesOn /\ LogIsAStory

(* What is still unread goes on with the story after every step.           *)
LEMMA GoesOnStep == WInv /\ WInv' /\ StoryGoesOn /\ WatchStep => StoryGoesOn'
<1> SUFFICES ASSUME WInv, WInv', StoryGoesOn, WatchStep, NEW c \in Disk, c \notin missed',
                    phase' = "watching", log'[c] # <<>>, LastOf(log'[c]) # "inserted",
                    Unread(c)' # <<>>
             PROVE  Head(Unread(c)') = "add" <=> LastOf(log'[c]) = "remove"
  BY DEF StoryGoesOn
<1>0. /\ c \notin missed /\ log[c] \in Seq(Action) /\ Unread(c) \in Seq(Event)
      /\ Plausible(Unread(c), c, here)
  BY UnreadStep, ConcatProperties DEF WInv, WatchTypeOK, EventsPlausible, Unread
<1>1. CASE ReceiveDevice(c)
  <2>1. /\ phase = "watching" /\ Unread(c) # <<>> /\ Head(Unread(c)) = Head(queue[c])
        /\ Unread(c)' = Tail(Unread(c)) /\ Head(queue[c]) \in Event
    <3>1. /\ phase = "watching" /\ phase' = phase /\ missed' = missed
          /\ queue[c] \in Seq(Event) /\ queue[c] # <<>> /\ queue'[c] = Tail(queue[c])
      BY <1>1 DEF ReceiveDevice, WInv, WatchTypeOK
    <3>2. ~(UNCHANGED clientVars)
      BY <3>1, TailDiffers DEF clientVars
    <3>3. Head(queue[c]) \in Event
      BY <3>1, HeadTailProperties
    <3>4. phase' \in {"listing", "watching"}
      BY <3>1
    <3>5. Unread(c) # <<>> /\ Head(Unread(c)) = Head(queue[c]) /\ Unread(c)' = Tail(Unread(c))
      BY <1>1, <3>2, <3>4, UnreadStep
    <3> QED
      BY <3>1, <3>3, <3>5
  <2>2. Head(Tail(Unread(c))) = "add" <=> Head(queue[c]) = "remove"
    BY <1>0, <2>1, PlausibleTail
  <2>3. CASE Head(queue[c]) = "change"
    <3>1. log'[c] = log[c]
      BY <1>1, <2>1, <2>3, LogStep
    <3> QED
      BY <1>0, <2>1, <2>2, <2>3, <3>1 DEF StoryGoesOn
  <2>4. CASE Head(queue[c]) # "change"
    <3>1. log'[c] = Append(log[c], Head(queue[c])) /\ Head(queue[c]) \in Action
      BY <1>1, <2>1, <2>4, LogStep DEF Event, Action
    <3>2. LastOf(log'[c]) = Head(queue[c])
      BY <1>0, <3>1, LastAppended
    <3> QED
      BY <2>1, <2>2, <3>2
  <2> QED
    BY <2>3, <2>4
<1>2. CASE ~ReceiveDevice(c) /\ phase = "listing"
  <2>1. ListDone
    <3>1. ASSUME NEW d \in Disk, \/ ReceiveDevice(d) \/ PassOn(d) \/ Plug(d) \/ Unplug(d)
                                 \/ Change(d) \/ ListPartition(d)
          PROVE  FALSE
      BY <1>2, <3>1 DEF ReceiveDevice, PassOn, Plug, Unplug, Change, Uevent, clientVars,
                        ListPartition
    <3> QED
      BY <1>2, <3>1, WatchSteps DEF ClientOnly, WatchEnds, EnableReceiving, ScanDevices
  <2>2. log'[c] = <<"inserted">>
    BY <1>2, <2>1 DEF ListDone, WInv, ListedInOrder
  <2> QED
    BY <2>2 DEF LastOf
<1>3. CASE ~ReceiveDevice(c) /\ phase # "listing"
  <2>1. phase = "watching" /\ log'[c] = log[c]
    <3>1. log'[c] = log[c]
      BY <1>3, LogStep
    <3>2. phase = "watching"
      <4>1. ASSUME NEW d \in Disk, \/ ReceiveDevice(d) \/ PassOn(d) \/ Plug(d) \/ Unplug(d)
                                   \/ Change(d)
            PROVE  phase = "watching"
        BY <4>1 DEF ReceiveDevice, PassOn, Plug, Unplug, Change, Uevent, clientVars
      <4> QED
        BY <1>3, <4>1, WatchSteps DEF ClientOnly, WatchEnds, EnableReceiving, ScanDevices,
                                      ListDone, ListPartition
    <3> QED
      BY <3>1, <3>2
  <2>2. CASE Unread(c)' = Unread(c)
    BY <1>0, <2>1, <2>2 DEF StoryGoesOn
  <2>3. ASSUME NEW e \in Event, Unread(c)' = Append(Unread(c), e), e = "add" <=> c \notin here
        PROVE  Head(Unread(c)') = "add" <=> LastOf(log'[c]) = "remove"
    <3>1. CASE Unread(c) = <<>>
      <4>1. Head(Unread(c)') = e
        BY <2>3, <3>1
      <4>2. Silent(Unread(c))
        BY <3>1 DEF Silent
      <4>3. LastOf(log[c]) # "remove" <=> c \in here
        BY <1>0, <2>1, <4>2 DEF WInv, Believed, Told
      <4> QED
        BY <2>1, <2>3, <4>1, <4>3
    <3>2. CASE Unread(c) # <<>>
      <4>1. Head(Append(Unread(c), e)) = Head(Unread(c))
        BY <1>0, <3>2
      <4> QED
        BY <1>0, <2>1, <2>3, <3>2, <4>1 DEF StoryGoesOn
    <3> QED
      BY <3>1, <3>2
  <2> QED
    BY <1>3, <2>2, <2>3, UnreadStep
<1> QED
  BY <1>1, <1>2, <1>3

(* A client that has not begun has logged nothing.                         *)
LEMMA StoryInit == WInv /\ phase = "off" => SInv
BY DEF WInv, Phases, SInv, StoryGoesOn, LogIsAStory, Empty

(* An action appended that fits the last one leaves a story.               *)
LEMMA StoryAppend ==
    ASSUME NEW s \in Seq(Action), NEW a \in Action, a # "inserted", s # <<>> => LastOf(s) # a,
           \A k \in 2 .. Len(s) : s[k] # "inserted" /\ s[k] # s[k - 1]
    PROVE  \A k \in 2 .. Len(Append(s, a)) :
               Append(s, a)[k] # "inserted" /\ Append(s, a)[k] # Append(s, a)[k - 1]
<1> DEFINE t == Append(s, a)
<1>1. /\ Len(t) = Len(s) + 1 /\ t[Len(s) + 1] = a /\ Len(s) \in Nat
      /\ \A k \in 1 .. Len(s) : t[k] = s[k]
  BY AppendProperties, LenProperties
<1>2. ASSUME NEW k \in 2 .. Len(t), k <= Len(s) PROVE t[k] # "inserted" /\ t[k] # t[k - 1]
  <2>1. k \in 2 .. Len(s) /\ k \in 1 .. Len(s) /\ k - 1 \in 1 .. Len(s)
    BY <1>1, <1>2
  <2>2. t[k] = s[k] /\ t[k - 1] = s[k - 1]
    BY <1>1, <2>1
  <2> QED
    BY <2>1, <2>2
<1>3. ASSUME NEW k \in 2 .. Len(t), ~(k <= Len(s)) PROVE t[k] # "inserted" /\ t[k] # t[k - 1]
  <2>1. k = Len(s) + 1 /\ k - 1 = Len(s) /\ Len(s) \in 1 .. Len(s)
    BY <1>1, <1>3
  <2>2. s # <<>> /\ t[k - 1] = LastOf(s) /\ t[k] = a
    BY <1>1, <2>1 DEF LastOf
  <2> QED
    BY <2>2
<1> QED
  BY <1>2, <1>3

(* Every action that is logged goes on with the story.                     *)
LEMMA StoryStep == WInv /\ WInv' /\ SInv /\ WatchStep => LogIsAStory'
<1> SUFFICES ASSUME WInv, WInv', SInv, WatchStep, NEW c \in Disk, c \notin missed'
             PROVE  (\A k \in 2 .. Len(log[c]) :
                        log[c][k] # "inserted" /\ log[c][k] # log[c][k - 1])'
  BY DEF LogIsAStory
<1>1. CASE phase' \in {"off", "enabled"}
  BY <1>1 DEF WInv, Phases, Empty
<1>2. CASE phase' = "listing"
  <2>1. log'[c] \in {<<>>, <<"inserted">>}
    BY <1>2 DEF WInv, ListedInOrder
  <2> QED
    BY <2>1
<1>3. CASE phase' = "watching"
  <2>0. /\ c \notin missed /\ log[c] \in Seq(Action)
        /\ \A k \in 2 .. Len(log[c]) : log[c][k] # "inserted" /\ log[c][k] # log[c][k - 1]
    BY <1>3, UnreadStep DEF WInv, WatchTypeOK, SInv, LogIsAStory
  <2>1. CASE log'[c] = log[c]
    BY <2>0, <2>1
  <2>2. CASE phase = "listing"
    <3>1. log'[c] = log[c]
      BY <1>3, <2>2, WatchSteps
         DEF ClientOnly, WatchEnds, EnableReceiving, ScanDevices, ListDone, ListPartition,
             ReceiveDevice, PassOn, Plug, Unplug, Change, Uevent, clientVars
    <3> QED
      BY <2>1, <3>1
  <2>3. CASE log'[c] # log[c] /\ phase # "listing"
    <3>1. /\ ReceiveDevice(c) /\ phase = "watching" /\ Head(queue[c]) # "change"
          /\ log'[c] = Append(log[c], Head(queue[c]))
      BY <1>3, <2>3, LogStep
    <3>2. Unread(c) # <<>> /\ Head(Unread(c)) = Head(queue[c]) /\ Head(queue[c]) \in Event
      <4>1. queue[c] \in Seq(Event) /\ queue[c] # <<>> /\ pending[c] \in Seq(Event)
        BY <3>1 DEF ReceiveDevice, WInv, WatchTypeOK
      <4> QED
        BY <4>1, UnreadTail, HeadTailProperties DEF Unread
    <3>3. log[c] # <<>> => LastOf(log[c]) # Head(queue[c])
      BY <2>0, <3>1, <3>2 DEF SInv, StoryGoesOn, Event
    <3>4. Head(queue[c]) \in Action /\ Head(queue[c]) # "inserted"
      BY <3>1, <3>2 DEF Event, Action
    <3>5. \A k \in 2 .. Len(Append(log[c], Head(queue[c]))) :
             /\ Append(log[c], Head(queue[c]))[k] # "inserted"
             /\ Append(log[c], Head(queue[c]))[k] # Append(log[c], Head(queue[c]))[k - 1]
      BY <2>0, <3>3, <3>4, StoryAppend
    <3> QED
      BY <3>1, <3>5
  <2> QED
    BY <2>1, <2>2, <2>3
<1> QED
  BY <1>1, <1>2, <1>3 DEF WInv, WatchTypeOK

(* SInv is inductive on top of WInv.                                       *)
LEMMA SInvStep == WInv /\ WInv' /\ SInv /\ [WatchStep]_watchVars => SInv'
<1>1. CASE WatchStep
  BY <1>1, GoesOnStep, StoryStep DEF SInv
<1>2. CASE UNCHANGED watchVars
  BY <1>2 DEF watchVars, kernelVars, clientVars, SInv, StoryGoesOn, LogIsAStory, Unread
<1> QED
  BY <1>1, <1>2

(***************************************************************************)
(* A disk is listed once at the start of a client, and its log entries     *)
(* after that are additions and removals in turn.                          *)
(***************************************************************************)
THEOREM StoryCorrect == Spec => []LogIsAStory
<1>1. Init => WInv /\ SInv
  BY WInvInit, StoryInit DEF Init, WatchInit, NewClient
<1>2. WInv /\ SInv /\ [Next]_vars => WInv' /\ SInv'
  BY WInvStep, SInvStep, NextIsWatchStep
<1>3. SInv => LogIsAStory
  BY DEF SInv
<1> QED
  BY <1>1, <1>2, <1>3, PTL DEF Spec
=============================================================================
