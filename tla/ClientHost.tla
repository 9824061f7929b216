------------------------------ MODULE ClientHost ------------------------------
(***************************************************************************)
(* A client machine: the processes that networkc starts, and the watch on  *)
(* its disks by the one that has come to the Big Loop.                     *)
(***************************************************************************)
EXTENDS ClientLifecycle, DiskWatch

vars == <<processVars, watchVars>>

TypeOK == ProcessTypeOK /\ WatchTypeOK

Init == ProcessInit /\ WatchInit

Next ==
    \/ \E i \in Start :
          \/ StartStep(i) /\ UNCHANGED watchVars
          \/ Kill(i) /\ WatchEnds
          \/ child[i] = "loop" /\ LogUdevEvents /\ UNCHANGED processVars
    \/ \E d \in Disk : KernelStep(d) /\ UNCHANGED processVars

Spec == Init /\ [][Next]_vars
=============================================================================
