--------------------------- MODULE ClientLifecycle ---------------------------
(***************************************************************************)
(* The init script networkc and the processes it starts.  Its pid file is  *)
(* commented out, do_stop does nothing, and so restart is one more start:  *)
(* all that keeps two clients off the files of one host is the bind of     *)
(* PORT_ACK, which main does before it forks.  Parent and child then share *)
(* the socket, and the port is free when both are gone.                    *)
(***************************************************************************)
EXTENDS Naturals

CONSTANTS
    Start,      \* invocations of networkc with start or restart
    MaxFaults   \* failures and kills in a behaviour

ASSUME FaultsAssumption == MaxFaults \in Nat

VARIABLES
    parent,     \* parent[i]: the process of main that the script waits for
    child,      \* child[i]: the process that it forked
    sock,       \* processes that have the socket bound to PORT_ACK
    told,       \* told[i]: the exit status that the script got
    blame,      \* history: invocations that a failure or kill came after, or
                \* that found a dead client's parent not yet gone
    faults

processVars == <<parent, child, sock, told, blame, faults>>

Alive(i) == child[i] \in {"setup", "loop"}

(* Types; and every process past the bind has the socket until its end.    *)
ProcessTypeOK ==
    /\ parent \in [Start -> {"none", "resolve", "bind", "fork", "exit", "gone"}]
    /\ child \in [Start -> {"none", "setup", "loop", "gone"}]
    /\ sock = {<<i, "parent">> : i \in {j \in Start : parent[j] \in {"fork", "exit"}}}
                \cup {<<i, "child">> : i \in {j \in Start : Alive(j)}}
    /\ told \in [Start -> {"nothing", "success", "failure"}]
    /\ blame \subseteq Start
    /\ faults \in 0 .. MaxFaults

ProcessInit ==
    /\ parent = [i \in Start |-> "none"] /\ child = [i \in Start |-> "none"]
    /\ sock = {} /\ told = [i \in Start |-> "nothing"]
    /\ blame = {} /\ faults = 0

Goto(i, from, to) == parent[i] = from /\ parent' = [parent EXCEPT ![i] = to]

Exit(i, from, status) ==
    /\ Goto(i, from, "gone")
    /\ told' = [told EXCEPT ![i] = status]

Fault ==
    /\ faults < MaxFaults /\ faults' = faults + 1
    /\ blame' = {i \in Start : parent[i] # "none"}

NoFault == UNCHANGED <<blame, faults>>

(* The client has ended before its parent has: the port is still taken.    *)
Orphaned(j) == parent[j] = "exit" /\ ~Alive(j)

(* do_start runs the daemon; nothing is asked first.                       *)
Invoke(i) ==
    /\ Goto(i, "none", "resolve")
    /\ blame' = IF \E j \in Start : Orphaned(j) THEN blame \cup {i} ELSE blame
    /\ UNCHANGED <<child, sock, told, faults>>

GetIpByHostname(i) ==
    /\ Goto(i, "resolve", "bind")
    /\ NoFault /\ UNCHANGED <<child, sock, told>>

NoSuchHost(i) ==
    /\ Exit(i, "resolve", "failure")
    /\ Fault /\ UNCHANGED <<child, sock>>

(* Mutant: main goes on when the bind has failed.                          *)
OpenSocketUnchecked(i) ==
    /\ Goto(i, "bind", "fork")
    /\ sock' = sock \cup {<<i, "parent">>}
    /\ NoFault /\ UNCHANGED <<child, told>>

OpenSocketToRcv(i) ==
    /\ Goto(i, "bind", "fork")
    /\ sock = {} /\ sock' = {<<i, "parent">>}
    /\ NoFault /\ UNCHANGED <<child, told>>

PortTaken(i) ==
    /\ Exit(i, "bind", "failure")
    /\ sock # {}
    /\ NoFault /\ UNCHANGED <<child, sock>>

(* Mutant: the child, too, leaves by exit(EXIT_SUCCESS).                   *)
ForkBothExit(i) ==
    /\ Goto(i, "fork", "exit")
    /\ child' = [child EXCEPT ![i] = "gone"]
    /\ NoFault /\ UNCHANGED <<sock, told>>

Fork(i) ==
    /\ Goto(i, "fork", "exit")
    /\ child' = [child EXCEPT ![i] = "setup"]
    /\ sock' = sock \cup {<<i, "child">>}
    /\ NoFault /\ UNCHANGED told

ForkFails(i) ==
    /\ Exit(i, "fork", "failure")
    /\ sock' = sock \ {<<i, "parent">>}
    /\ Fault /\ UNCHANGED child

ParentExit(i) ==
    /\ Exit(i, "exit", "success")
    /\ sock' = sock \ {<<i, "parent">>}
    /\ NoFault /\ UNCHANGED child

(* Mutant: all descriptors are closed, the socket among them.              *)
DaemonizeClosesAll(i) ==
    /\ child[i] = "setup" /\ child' = [child EXCEPT ![i] = "loop"]
    /\ sock' = sock \ {<<i, "child">>}
    /\ NoFault /\ UNCHANGED <<parent, told>>

(* umask, setsid, chdir, and the standard descriptors closed.              *)
Daemonize(i) ==
    /\ child[i] = "setup" /\ child' = [child EXCEPT ![i] = "loop"]
    /\ NoFault /\ UNCHANGED <<parent, sock, told>>

ChildEnds(i) ==
    /\ child' = [child EXCEPT ![i] = "gone"]
    /\ sock' = sock \ {<<i, "child">>}
    /\ Fault /\ UNCHANGED <<parent, told>>

(* setsid or chdir fails, when the parent has said that all is well.       *)
DaemonizeFails(i) == child[i] = "setup" /\ ChildEnds(i)

(* A crash, or kill -KILL, the only way to stop the client.                *)
Kill(i) == child[i] = "loop" /\ ChildEnds(i)

StartStep(i) ==
    \/ Invoke(i) \/ GetIpByHostname(i) \/ NoSuchHost(i)
    \/ OpenSocketToRcv(i) \/ PortTaken(i)
    \/ Fork(i) \/ ForkFails(i) \/ ParentExit(i)
    \/ Daemonize(i) \/ DaemonizeFails(i)

-----------------------------------------------------------------------------
(***************************************************************************)
(* However starts, restarts and kills overlap, at most one client has the  *)
(* local log, the spool and the port to itself.                            *)
(***************************************************************************)
OneClient == \A i, j \in Start : Alive(i) /\ Alive(j) => i = j

(* A client is there, or the one that will fork it.                        *)
Up(i) == Alive(i) \/ parent[i] = "fork"

(***************************************************************************)
(* When networkc has returned, this host has a client or is about to: its  *)
(* own, or the one that made the bind fail (daemon.c 57-82), whatever the  *)
(* exit status.  Only a failure or a kill since that start was asked for   *)
(* can have changed that, or so short before that the parent of the client *)
(* that ended still had the port.                                          *)
(***************************************************************************)
ClientAfterStart ==
    \A i \in Start :
        told[i] # "nothing" /\ i \notin blame => \E j \in Start : Up(j)
=============================================================================
