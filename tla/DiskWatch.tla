------------------------------ MODULE DiskWatch ------------------------------
(***************************************************************************)
(* LogUdevEvents against the kernel and udevd.  The first call enables the *)
(* monitor, then enumerates the block devices and logs the disk of every   *)
(* partition it finds, each disk once; every later call reads one event at *)
(* most.  Disks come and go all the while, and udevd tells of it late.     *)
(*                                                                         *)
(* Events of different disks are read in any order: udevd handles them at  *)
(* the same time, and what is stated here is about one disk at a time.     *)
(***************************************************************************)
EXTENDS Naturals, Sequences, FiniteSetsExt

CONSTANTS
    Disk,       \* disks, numbered in the order of their path in sysfs
    Parts,      \* Parts[d]: partitions on d
    NoDisk,     \* a devnode that is no disk's
    Garbage,    \* disks whose devnode the uninitialised array may hold, NoDisk
    RcvBuf,     \* events that the socket of the monitor holds
    MaxEvents   \* disks plugged, changed or unplugged in a behaviour

ASSUME DiskAssumption == Disk \subseteq Nat /\ Parts \in [Disk -> Nat]
ASSUME GarbageAssumption == NoDisk \notin Disk /\ Garbage \subseteq Disk \cup {NoDisk}
ASSUME BoundAssumption == RcvBuf \in Nat /\ MaxEvents \in Nat

VARIABLES
    here,       \* disks in sysfs
    pending,    \* pending[d]: uevents of d that udevd has not passed on
    events,     \* how many there were
    phase,      \* where the client is in LogUdevEvents
    queue,      \* queue[d]: events of d in the monitor's socket
    todo,       \* todo[d]: partitions of d still to come in list_block
    devnode,    \* the array of that name
    log,        \* log[d]: actions that this client wrote for d
    leftover,   \* history: what devnode held at first
    missed      \* history: disks of which an event found the socket full

kernelVars == <<here, pending, events>>
clientVars == <<phase, queue, todo, devnode, log, leftover, missed>>
watchVars == <<kernelVars, clientVars>>

Event == {"add", "remove", "change"}
Action == {"inserted", "add", "remove"}

WatchTypeOK ==
    /\ here \subseteq Disk
    /\ pending \in [Disk -> Seq(Event)] /\ queue \in [Disk -> Seq(Event)]
    /\ events \in 0 .. MaxEvents
    /\ phase \in {"off", "enabled", "listing", "watching"}
    /\ todo \in [Disk -> Nat]
    /\ devnode \in Disk \cup {NoDisk} /\ leftover \in Disk \cup {NoDisk}
    /\ log \in [Disk -> Seq(Action)]
    /\ missed \subseteq Disk

Empty == [d \in Disk |-> <<>>]

NewClient ==
    /\ phase = "off" /\ queue = Empty /\ log = Empty
    /\ todo = [d \in Disk |-> 0] /\ missed = {}
    /\ leftover \in Garbage /\ devnode = leftover

WatchInit ==
    /\ here \in SUBSET Disk /\ pending = Empty /\ events = 0
    /\ NewClient

(* The client is gone, and the next one starts.                            *)
WatchEnds ==
    /\ phase' = "off" /\ queue' = Empty /\ log' = Empty
    /\ todo' = [d \in Disk |-> 0] /\ missed' = {}
    /\ leftover' \in Garbage /\ devnode' = leftover'
    /\ UNCHANGED kernelVars

-----------------------------------------------------------------------------
(* The kernel: sysfs changes first, the uevent follows.                    *)
Uevent(d, e) ==
    /\ events < MaxEvents /\ events' = events + 1
    /\ pending' = [pending EXCEPT ![d] = Append(@, e)]
    /\ UNCHANGED clientVars

Plug(d) == d \notin here /\ here' = here \cup {d} /\ Uevent(d, "add")
Unplug(d) == d \in here /\ here' = here \ {d} /\ Uevent(d, "remove")
Change(d) == d \in here /\ UNCHANGED here /\ Uevent(d, "change")

Full == MapThenSumSet(LAMBDA d : Len(queue[d]), Disk) >= RcvBuf

(* udevd is done with an event: it goes to the sockets there are.          *)
PassOn(d) ==
    /\ pending[d] # <<>> /\ pending' = [pending EXCEPT ![d] = Tail(@)]
    /\ queue' = IF phase = "off" \/ Full THEN queue
                ELSE [queue EXCEPT ![d] = Append(@, Head(pending[d]))]
    /\ missed' = IF phase # "off" /\ Full THEN missed \cup {d} ELSE missed
    /\ UNCHANGED <<here, events, phase, todo, devnode, log, leftover>>

KernelStep(d) == Plug(d) \/ Unplug(d) \/ Change(d) \/ PassOn(d)

-----------------------------------------------------------------------------
(* write_log: a "change" is skipped, no action is "inserted".              *)
WriteLog(d, action) ==
    log' = IF action = "change" THEN log ELSE [log EXCEPT ![d] = Append(@, action)]

Listed == [d \in Disk |-> IF d \in here THEN Parts[d] ELSE 0]

(* Mutant: the monitor is enabled when the devices have been listed.       *)
ListFirst ==
    \/ /\ phase = "off" /\ \A d \in Disk : todo[d] = 0
       /\ todo' = Listed
       /\ UNCHANGED <<kernelVars, phase, queue, devnode, log, leftover, missed>>
    \/ /\ phase = "off" /\ phase' = "listing"
       /\ UNCHANGED <<kernelVars, queue, todo, devnode, log, leftover, missed>>

(* udev_monitor_enable_receiving.                                          *)
EnableReceiving ==
    /\ phase = "off" /\ phase' = "enabled"
    /\ UNCHANGED <<kernelVars, queue, todo, devnode, log, leftover, missed>>

(* udev_enumerate_scan_devices, and write_log(0) for the start itself.     *)
ScanDevices ==
    /\ phase = "enabled" /\ phase' = "listing"
    /\ todo' = Listed
    /\ UNCHANGED <<kernelVars, queue, devnode, log, leftover, missed>>

IsNext(d) == todo[d] > 0 /\ \A e \in Disk : todo[e] > 0 => d <= e

(* Mutant: every partition logs its disk.                                  *)
ListPartitionAlways(d) ==
    /\ phase = "listing" /\ IsNext(d)
    /\ todo' = [todo EXCEPT ![d] = @ - 1]
    /\ IF d \in here THEN WriteLog(d, "inserted") ELSE UNCHANGED log
    /\ UNCHANGED <<kernelVars, phase, queue, devnode, leftover, missed>>

(* One partition of the list; its disk may have gone in the meantime.      *)
ListPartition(d) ==
    /\ phase = "listing" /\ IsNext(d)
    /\ todo' = [todo EXCEPT ![d] = @ - 1]
    /\ IF d \in here /\ devnode # d
       THEN WriteLog(d, "inserted") /\ devnode' = d
       ELSE UNCHANGED <<log, devnode>>
    /\ UNCHANGED <<kernelVars, phase, queue, leftover, missed>>

ListDone ==
    /\ phase = "listing" /\ \A d \in Disk : todo[d] = 0
    /\ phase' = "watching"
    /\ UNCHANGED <<kernelVars, queue, todo, devnode, log, leftover, missed>>

(* A later call that finds an event.                                       *)
ReceiveDevice(d) ==
    /\ phase = "watching" /\ queue[d] # <<>>
    /\ queue' = [queue EXCEPT ![d] = Tail(@)]
    /\ WriteLog(d, Head(queue[d]))
    /\ UNCHANGED <<kernelVars, phase, todo, devnode, leftover, missed>>

LogUdevEvents ==
    \/ EnableReceiving \/ ScanDevices \/ ListDone
    \/ \E d \in Disk : ListPartition(d) \/ ReceiveDevice(d)

-----------------------------------------------------------------------------
(* Every event of d so far has been read or was before the monitor's time. *)
Quiet(d) == phase = "watching" /\ queue[d] = <<>> /\ pending[d] = <<>>

(***************************************************************************)
(* When the client has caught up, what it logged last of a disk is true:   *)
(* the disk is there or it is gone, wherever in its start the disk came or *)
(* went.  A disk of which it logged nothing is not there, or was there all *)
(* along without a partition (or under the devnode that the uninitialised  *)
(* array happened to hold).  Needs that no event found the socket full.    *)
(***************************************************************************)
LogIsTrue ==
    \A d \in Disk \ missed :
        Quiet(d) =>
            IF log[d] # <<>>
            THEN (log[d][Len(log[d])] # "remove") = (d \in here)
            ELSE d \in here => Parts[d] = 0 \/ leftover = d

(***************************************************************************)
(* What is logged of a disk is a possible story: it is listed at the start *)
(* at most once, however many partitions it has, and is added or removed   *)
(* only after the opposite; a disk that came while the client started may  *)
(* be listed and added.                                                    *)
(***************************************************************************)
LogIsAStory ==
    \A d \in Disk \ missed : \A k \in 2 .. Len(log[d]) :
        /\ log[d][k] # "inserted"
        /\ log[d][k] # log[d][k - 1]
=============================================================================
