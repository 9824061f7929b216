------------------------ MODULE ServerLifecycleProofs ------------------------
(***************************************************************************)
(* Proofs about ServerLifecycle: its types and the port for any number of  *)
(* overlapping operators, and, as long as commands do not overlap, that the*)
(* pid file names the daemon.                                              *)
(***************************************************************************)
EXTENDS ServerLifecycle, TLAPS

(* Types hold in every reachable state, faults and overlapping operators   *)
(* included: every parent is waited for, and only processes are signalled. *)
THEOREM LifecycleTypeCorrect == Spec => []TypeOK
<1>1. Init => TypeOK
  BY PidAssumption DEF Init, TypeOK, Alive
<1>2. TypeOK /\ [Next]_vars => TypeOK'
  <2> SUFFICES ASSUME TypeOK, [Next]_vars PROVE TypeOK'
    OBVIOUS
  <2> USE PidAssumption, CommandAssumption
      DEF TypeOK, Alive, scriptVars, procVars, Goto
  <2>1. ASSUME NEW s \in Script, Invoke(s) PROVE TypeOK'
    <3>1. PICK cmd \in Command :
            /\ Goto(s, "idle", IF cmd = "start" THEN "check" ELSE "pidof")
            /\ again' = [again EXCEPT ![s] = cmd = "restart"]
      BY <2>1 DEF Invoke
    <3>2. commands' \in 0 .. MaxCommands
      BY <2>1 DEF Invoke
    <3>3. spc' \in [Script -> {"idle", "check", "launch", "wait", "pidof", "kill", "rm"}]
          /\ again' \in [Script -> BOOLEAN]
      BY <3>1
    <3>4. mishaps' \subseteq FaultKinds \cup {"race", "overlap"}
      BY <2>1 DEF Invoke
    <3> QED BY <2>1, <3>1, <3>2, <3>3, <3>4 DEF Invoke
  <2>2. ASSUME NEW s \in Script, Refuse(s) \/ MayStart(s) \/ NotRunning(s)
        PROVE TypeOK'
    BY <2>2 DEF Refuse, MayStart, NotRunning
  <2>3. ASSUME NEW s \in Script, Launch(s) PROVE TypeOK'
    BY <2>3 DEF Launch, FreePids
  <2>4. ASSUME NEW s \in Script, Started(s) PROVE TypeOK'
    BY <2>4 DEF Started
  <2>5. ASSUME NEW s \in Script, PidOf(s) PROVE TypeOK'
    BY <2>5 DEF PidOf
  <2>6. ASSUME NEW s \in Script, Kill(s) PROVE TypeOK'
    BY <2>6 DEF Kill
  <2>7. ASSUME NEW s \in Script, RmPidFile(s) PROVE TypeOK'
    BY <2>7 DEF RmPidFile
  <2>8. ASSUME NEW p \in Pid, Fork(p) PROVE TypeOK'
    BY <2>8 DEF Fork, FreePids
  <2>9. ASSUME NEW p \in Pid, SavePid(p) PROVE TypeOK'
    BY <2>9 DEF SavePid, Exit
  <2>10. ASSUME NEW p \in Pid, Bind(p) PROVE TypeOK'
    BY <2>10 DEF Bind
  <2>11. ASSUME NEW p \in Pid, BindFails(p) \/ Die(p) PROVE TypeOK'
    BY <2>11 DEF BindFails, Die, Exit
  <2>12. ASSUME NEW p \in Pid, FaultStep(p) PROVE TypeOK'
    BY <2>12 DEF FaultStep, ForkFails, SavePidFails, ConfigFails, Crash, Exit, Fault
  <2>13. CASE UNCHANGED vars
    BY <2>13 DEF vars
  <2> QED
    BY <2>1, <2>2, <2>3, <2>4, <2>5, <2>6, <2>7, <2>8, <2>9, <2>10, <2>11, <2>12,
       <2>13 DEF Next, ScriptStep, ProcStep
<1> QED
  BY <1>1, <1>2, PTL DEF Spec

(***************************************************************************)
(* Stages is inductive as long as nothing disturbs it.  A daemon appears   *)
(* only in Fork, which takes MayStart, which found no pid file, hence no   *)
(* daemon; the pid file goes only after every daemon was signalled.        *)
(***************************************************************************)
THEOREM StagesCorrect == Spec => []OneAtATime
<1>1. Init => OneAtATime
  BY PidAssumption DEF Init, OneAtATime, Stages, Waiting, Daemons, Parents
<1>2. TypeOK /\ OneAtATime /\ [Next]_vars => OneAtATime'
  <2> SUFFICES ASSUME TypeOK, OneAtATime, [Next]_vars, Undisturbed' PROVE Stages'
    BY DEF OneAtATime
  <2>0. Undisturbed /\ Stages
    <3>1. mishaps \subseteq mishaps'
      BY DEF Next, vars, scriptVars, procVars, ScriptStep, ProcStep, FaultStep,
             Invoke, Refuse, MayStart, Launch, Started, NotRunning, PidOf, Kill,
             RmPidFile, Fork, SavePid, Bind, BindFails, Die, ForkFails, SavePidFails,
             ConfigFails, Crash, Fault
    <3> QED
      BY <3>1 DEF Undisturbed, OneAtATime
  <2> USE PidAssumption, <2>0 DEF TypeOK, Alive, Stages, Waiting, Parents, Daemons,
                            scriptVars, procVars, Goto
  <2>1. ASSUME NEW s \in Script, Invoke(s) PROVE Stages'
    <3>1. \A t \in Script : spc[t] = "idle"
      BY <2>1 DEF Invoke, Undisturbed
    <3>2. spc'[s] \in {"check", "pidof"} /\ \A t \in Script : t # s => spc'[t] = "idle"
      BY <2>1, <3>1 DEF Invoke
    <3> QED
      BY <2>1, <3>1, <3>2 DEF Invoke
  <2>2. ASSUME NEW s \in Script, Refuse(s) \/ MayStart(s) \/ NotRunning(s)
        PROVE Stages'
    BY <2>2 DEF Refuse, MayStart, NotRunning
  <2>3. ASSUME NEW s \in Script, Launch(s) PROVE Stages'
    BY <2>3 DEF Launch, FreePids
  <2>4. ASSUME NEW s \in Script, Started(s) PROVE Stages'
    BY <2>4 DEF Started
  <2>5. ASSUME NEW s \in Script, PidOf(s) PROVE Stages'
    BY <2>5 DEF PidOf
  <2>6. ASSUME NEW s \in Script, Kill(s) PROVE Stages'
    BY <2>6 DEF Kill
  <2>7. ASSUME NEW s \in Script, RmPidFile(s) PROVE Stages'
    BY <2>7 DEF RmPidFile
  <2>8. ASSUME NEW p \in Pid, Fork(p) PROVE Stages'
    BY <2>8 DEF Fork, FreePids
  <2>9. ASSUME NEW p \in Pid, SavePid(p) PROVE Stages'
    BY <2>9 DEF SavePid, Exit
  <2>10. ASSUME NEW p \in Pid, Bind(p) PROVE Stages'
    BY <2>10 DEF Bind
  <2>11. ASSUME NEW p \in Pid, BindFails(p) \/ Die(p) \/ ConfigFails(p) \/ Crash(p)
         PROVE Stages'
    <3>1. Exit(p) /\ UNCHANGED <<spc, job, pids, pidfile>>
      BY <2>11 DEF BindFails, Die, ConfigFails, Crash
    <3>2. p \notin Parents
      BY <2>11 DEF BindFails, Die, ConfigFails, Crash
    <3>3. Parents' = Parents /\ Daemons' \subseteq Daemons /\ signalled' \subseteq signalled
          /\ child' = child
      BY <3>1, <3>2 DEF Exit
    <3>4. ASSUME NEW s \in Script, spc[s] = "wait" PROVE Waiting(s)'
      <4>1. st'[job[s]] = st[job[s]]
        BY <3>1, <3>2, <3>4 DEF Exit
      <4> QED
        BY <3>1, <3>3, <3>4, <4>1
    <3> QED
      BY <3>1, <3>3, <3>4
  <2>12. ASSUME NEW p \in Pid, ForkFails(p) PROVE Stages'
    BY <2>12 DEF ForkFails, Exit
  <2>13. ASSUME NEW p \in Pid, SavePidFails(p) PROVE FALSE
    BY <2>13 DEF SavePidFails, Fault, Undisturbed
  <2>14. CASE UNCHANGED vars
    BY <2>14 DEF vars
  <2> QED
    BY <2>1, <2>2, <2>3, <2>4, <2>5, <2>6, <2>7, <2>8, <2>9, <2>10, <2>11, <2>12,
       <2>13, <2>14 DEF Next, ScriptStep, ProcStep, FaultStep
<1> QED
  BY <1>1, <1>2, LifecycleTypeCorrect, PTL DEF Spec

(***************************************************************************)
(* As long as every save_pid opened its file and no commands overlapped,   *)
(* between commands the pid file names every daemon nobody told to end.    *)
(***************************************************************************)
THEOREM RecordedCorrect == Spec => []RunningIsRecorded
<1>1. OneAtATime => RunningIsRecorded
  BY DEF OneAtATime, Stages, RunningIsRecorded
<1> QED
  BY <1>1, StagesCorrect, PTL

(***************************************************************************)
(* Any number of operators, every fault: one process on the port at most.  *)
(***************************************************************************)
THEOREM OneServingCorrect == Spec => []OneServing
<1>1. Init => OneServing
  BY DEF Init, OneServing
<1>2. TypeOK /\ OneServing /\ [Next]_vars => OneServing'
  <2> SUFFICES ASSUME TypeOK, OneServing, [Next]_vars PROVE OneServing'
    OBVIOUS
  <2>1. \A p \in Pid : st'[p] = "serving" => st[p] = "serving" \/ Bind(p)
    BY DEF TypeOK, Next, vars, scriptVars, procVars, ScriptStep, ProcStep, FaultStep,
           Invoke, Refuse, MayStart, Launch, Started, NotRunning, PidOf, Kill, RmPidFile,
           Fork, SavePid, Bind, BindFails, Die, ForkFails, SavePidFails, ConfigFails,
           Crash, Exit
  <2>2. ASSUME NEW p \in Pid, Bind(p) PROVE OneServing'
    BY <2>2 DEF TypeOK, Bind, PortTaken, OneServing
  <2> QED
    BY <2>1, <2>2 DEF OneServing
<1> QED
  BY <1>1, <1>2, LifecycleTypeCorrect, PTL DEF Spec

(***************************************************************************)
(* One process on the port, and, as long as no commands overlap and every  *)
(* save_pid opened its file, no two daemons that nobody told to end.       *)
(***************************************************************************)
THEOREM OneDaemonCorrect == Spec => []OneDaemon
<1>1. TypeOK /\ OneAtATime /\ OneServing => OneDaemon
  BY DEF TypeOK, OneAtATime, Stages, Waiting, OneDaemon
<1> QED
  BY <1>1, StagesCorrect, LifecycleTypeCorrect, OneServingCorrect, PTL

(***************************************************************************)
(* What makes a refusal right, the inductive form of RefusedIsRunning: a   *)
(* pid file comes from a parent whose child is still there, and goes before*)
(* another command may look.                                               *)
(***************************************************************************)
FileMeansRunning ==
    mishaps = {} =>
      /\ pidfile # NoPid /\ (\A s \in Script : spc[s] # "rm") => Daemons # {}
      /\ \A s \in Script :
            spc[s] = "wait" /\ st[job[s]] = "saving" => child[job[s]] \in Daemons

(* It follows from RunningIsRecorded and the stages of the script.         *)
LEMMA FileMeansRunningHolds == Spec => []FileMeansRunning
<1>1. Init => FileMeansRunning
  BY DEF Init, FileMeansRunning
<1>2. TypeOK /\ OneAtATime /\ FileMeansRunning /\ [Next]_vars => FileMeansRunning'
  <2> SUFFICES ASSUME TypeOK, OneAtATime, FileMeansRunning, [Next]_vars, mishaps' = {}
               PROVE  FileMeansRunning'
    BY DEF FileMeansRunning
  <2>0. mishaps = {} /\ Stages
    <3>1. mishaps \subseteq mishaps'
      BY DEF Next, vars, scriptVars, procVars, ScriptStep, ProcStep, FaultStep,
             Invoke, Refuse, MayStart, Launch, Started, NotRunning, PidOf, Kill,
             RmPidFile, Fork, SavePid, Bind, BindFails, Die, ForkFails, SavePidFails,
             ConfigFails, Crash, Fault
    <3> QED
      BY <3>1 DEF Undisturbed, OneAtATime
  <2> USE PidAssumption, <2>0 DEF TypeOK, Alive, Stages, Waiting, Parents, Daemons,
                            FileMeansRunning, scriptVars, procVars, Goto
  <2>1. ASSUME NEW s \in Script, Invoke(s) PROVE FileMeansRunning'
    BY <2>1 DEF Invoke
  <2>2. ASSUME NEW s \in Script, Refuse(s) \/ MayStart(s) \/ NotRunning(s)
        PROVE FileMeansRunning'
    BY <2>2 DEF Refuse, MayStart, NotRunning
  <2>3. ASSUME NEW s \in Script, Launch(s) PROVE FileMeansRunning'
    BY <2>3 DEF Launch, FreePids
  <2>4. ASSUME NEW s \in Script, Started(s) PROVE FileMeansRunning'
    BY <2>4 DEF Started
  <2>5. ASSUME NEW s \in Script, PidOf(s) PROVE FileMeansRunning'
    BY <2>5 DEF PidOf
  <2>6. ASSUME NEW s \in Script, Kill(s) PROVE FileMeansRunning'
    BY <2>6 DEF Kill
  <2>7. ASSUME NEW s \in Script, RmPidFile(s) PROVE FileMeansRunning'
    BY <2>7 DEF RmPidFile
  <2>8. ASSUME NEW p \in Pid, Fork(p) PROVE FileMeansRunning'
    BY <2>8 DEF Fork, FreePids
  <2>9. ASSUME NEW p \in Pid, SavePid(p) PROVE FileMeansRunning'
    BY <2>9 DEF SavePid, Exit
  <2>10. ASSUME NEW p \in Pid, Bind(p) PROVE FileMeansRunning'
    BY <2>10 DEF Bind
  <2>11. ASSUME NEW p \in Pid, Die(p) PROVE FileMeansRunning'
    BY <2>11 DEF Die, Exit
  <2>12. ASSUME NEW p \in Pid, BindFails(p) \/ FaultStep(p) PROVE FALSE
    BY <2>12 DEF BindFails, FaultStep, ForkFails, SavePidFails, ConfigFails, Crash, Fault
  <2>13. CASE UNCHANGED vars
    BY <2>13 DEF vars
  <2> QED
    BY <2>1, <2>2, <2>3, <2>4, <2>5, <2>6, <2>7, <2>8, <2>9, <2>10, <2>11, <2>12,
       <2>13 DEF Next, ScriptStep, ProcStep
<1> QED
  BY <1>1, <1>2, LifecycleTypeCorrect, StagesCorrect, PTL DEF Spec

(***************************************************************************)
(* "Check if the daemon is already running" (do_start): for any number of  *)
(* commands, a start that is refused found the pid file of the one daemon, *)
(* until the first failure, lost bind or overlap.                          *)
(***************************************************************************)
THEOREM RefusedCorrect == Spec => RefusedIsRunning
<1>1. TypeOK /\ OneAtATime /\ FileMeansRunning /\ [Next]_vars =>
        [\A s \in Script : spc[s] = "check" /\ spc'[s] = "idle"
           => Daemons = {pidfile} \/ mishaps # {}]_vars
  <2> SUFFICES ASSUME TypeOK, OneAtATime, FileMeansRunning, [Next]_vars, mishaps = {},
                      NEW s \in Script, spc[s] = "check", spc'[s] = "idle"
               PROVE  Daemons = {pidfile}
    OBVIOUS
  <2>1. pidfile # NoPid
    BY DEF TypeOK, Next, vars, scriptVars, procVars, ScriptStep, ProcStep, FaultStep, Goto,
           Invoke, Refuse, MayStart, Launch, Started, NotRunning, PidOf, Kill, RmPidFile,
           Fork, SavePid, Bind, BindFails, Die, ForkFails, SavePidFails, ConfigFails,
           Crash, Exit
  <2>2. Stages
    BY DEF OneAtATime, Undisturbed
  <2>3. \A t \in Script : spc[t] \in {"idle", "check"}
    BY <2>2 DEF TypeOK, Stages
  <2>4. Daemons \subseteq {pidfile}
    BY <2>2, <2>3 DEF Stages
  <2> QED
    BY <2>1, <2>3, <2>4 DEF FileMeansRunning
<1> QED
  BY <1>1, LifecycleTypeCorrect, StagesCorrect, FileMeansRunningHolds, PTL
     DEF Spec, RefusedIsRunning
=============================================================================
