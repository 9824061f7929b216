--------------------------- MODULE ServerLifecycle ---------------------------
(***************************************************************************)
(* The init script usbl_server (start, stop, restart) and the processes it *)
(* starts and stops: main's parent, which forks and saves the pid of its   *)
(* child, and the child, which reads its configuration and binds the port. *)
(* The script never reads the pid file, it only looks whether it exists.   *)
(***************************************************************************)
EXTENDS Integers, FiniteSets

CONSTANTS
    Script,      \* invocations of the init script that may overlap
    Pid,         \* process ids
    Command,     \* what an operator asks for, a subset of the next definition
    MaxCommands, \* commands in a behaviour
    MaxFaults,   \* faults in a behaviour
    FaultKinds,  \* "crash": a serving daemon ends; "config": parse_config fails
                 \* or fork does; "pidfile": save_pid cannot open its file
    NoPid, Garbled

Commands == {"start", "stop", "restart"}

ASSUME CommandAssumption == Command \subseteq Commands
ASSUME PidAssumption ==
    /\ NoPid \notin Pid /\ Garbled \notin Pid /\ NoPid # Garbled
    /\ MaxCommands \in Nat /\ MaxFaults \in Nat

VARIABLES
    spc,       \* spc[s]: where script s is
    again,     \* again[s]: s is a restart
    job,       \* job[s]: the process s waits for
    pids,      \* pids[s]: what pidof gave s
    st,        \* st[p]: what process p is doing
    child,     \* child[p]: the process p forked
    signalled, \* processes with a pending SIGTERM
    pidfile,   \* what the pid file holds, NoPid when there is none
    commands, faults,
    mishaps    \* history: the kinds of faults so far, "race" for a lost bind,
               \* "overlap" for a command given while another one runs

scriptVars == <<spc, again, job, pids>>
procVars == <<st, child, signalled>>
vars == <<scriptVars, procVars, pidfile, commands, faults, mishaps>>

Alive == {p \in Pid : st[p] # "none"}

(* Daemons that nobody has told to end.                                    *)
Daemons == {p \in Pid : st[p] \in {"init", "serving"}} \ signalled

(* A pid is in use as long as somebody may still wait for it.              *)
FreePids ==
    Pid \ (Alive \cup {job[s] : s \in Script}
                 \cup {child[p] : p \in {q \in Pid : st[q] = "saving"}})

(* Types; who waits for what, and whose signals may be pending.            *)
TypeOK ==
    /\ spc \in [Script -> {"idle", "check", "launch", "wait", "pidof", "kill", "rm"}]
    /\ again \in [Script -> BOOLEAN]
    /\ job \in [Script -> Pid \cup {NoPid}]
    /\ pids \in [Script -> SUBSET Pid]
    /\ st \in [Pid -> {"none", "forking", "saving", "init", "serving"}]
    /\ child \in [Pid -> Pid \cup {NoPid}]
    /\ signalled \subseteq Alive
    /\ \A p \in Pid : st[p] \in {"forking", "saving"} => \E s \in Script : job[s] = p
    /\ \A s \in Script :
          /\ (job[s] # NoPid) = (spc[s] = "wait")
          /\ pids[s] # {} => spc[s] = "kill"
    /\ pidfile \in Pid \cup {NoPid, Garbled}
    /\ commands \in 0 .. MaxCommands /\ faults \in 0 .. MaxFaults
    /\ mishaps \subseteq FaultKinds \cup {"race", "overlap"}

(***************************************************************************)
(* What the script knows at each of its places when no other one overlaps  *)
(* it, the inductive form of RunningIsRecorded and OneDaemon below.        *)
(***************************************************************************)
Parents == {p \in Pid : st[p] \in {"forking", "saving"}}

Waiting(s) ==
    /\ st[job[s]] \in {"none", "forking", "saving"}
    /\ Parents \subseteq {job[s]} \ signalled
    /\ st[job[s]] = "none" => Daemons \subseteq {pidfile}
    /\ st[job[s]] # "none" => pidfile = NoPid
    /\ st[job[s]] = "forking" => Daemons = {}
    /\ st[job[s]] = "saving" => Daemons \subseteq {child[job[s]]}

Stages ==
    /\ \A s, t \in Script : spc[s] # "idle" /\ spc[t] # "idle" => s = t
    /\ (\A s \in Script : spc[s] # "wait") => Parents = {}
    /\ (\A s \in Script : spc[s] \in {"idle", "check", "pidof", "kill"})
          => Daemons \subseteq {pidfile}
    /\ \A s \in Script :
          /\ spc[s] = "wait" => Waiting(s)
          /\ spc[s] = "launch" => pidfile = NoPid
          /\ spc[s] \in {"launch", "rm"} => Daemons = {}
          /\ spc[s] = "kill" => Daemons \subseteq pids[s]

Init ==
    /\ spc = [s \in Script |-> "idle"] /\ again = [s \in Script |-> FALSE]
    /\ job = [s \in Script |-> NoPid] /\ pids = [s \in Script |-> {}]
    /\ st = [p \in Pid |-> "none"] /\ child = [p \in Pid |-> NoPid]
    /\ signalled = {} /\ pidfile = NoPid
    /\ commands = 0 /\ faults = 0 /\ mishaps = {}

Goto(s, from, to) == spc[s] = from /\ spc' = [spc EXCEPT ![s] = to]

Fault(kind) ==
    /\ kind \in FaultKinds
    /\ faults < MaxFaults /\ faults' = faults + 1
    /\ mishaps' = mishaps \cup {kind}

(* A process ends, whatever its state.                                     *)
Exit(p) ==
    /\ st' = [st EXCEPT ![p] = "none"]
    /\ signalled' = signalled \ {p}
    /\ UNCHANGED child

-----------------------------------------------------------------------------
(* The script.                                                             *)

Invoke(s) ==
    /\ commands < MaxCommands /\ commands' = commands + 1
    /\ \E cmd \in Command :
          /\ Goto(s, "idle", IF cmd = "start" THEN "check" ELSE "pidof")
          /\ again' = [again EXCEPT ![s] = cmd = "restart"]
    /\ mishaps' = mishaps \cup
          (IF \A t \in Script : spc[t] = "idle" THEN {} ELSE {"overlap"})
    /\ UNCHANGED <<job, pids, procVars, pidfile, faults>>

(* do_start: a pid file means that the daemon runs, and exit 1.            *)
Refuse(s) ==
    /\ Goto(s, "check", "idle")
    /\ pidfile # NoPid
    /\ UNCHANGED <<again, job, pids, procVars, pidfile, commands, faults, mishaps>>

(* Mutant: the pid file is not looked for.                                 *)
MayStartAnyway(s) ==
    /\ Goto(s, "check", "launch")
    /\ UNCHANGED <<again, job, pids, procVars, pidfile, commands, faults, mishaps>>

MayStart(s) ==
    /\ Goto(s, "check", "launch")
    /\ pidfile = NoPid
    /\ UNCHANGED <<again, job, pids, procVars, pidfile, commands, faults, mishaps>>

Launch(s) ==
    /\ Goto(s, "launch", "wait")
    /\ \E p \in FreePids :
          /\ st' = [st EXCEPT ![p] = "forking"]
          /\ job' = [job EXCEPT ![s] = p]
    /\ UNCHANGED <<again, pids, child, signalled, pidfile, commands, faults, mishaps>>

(* Mutant: the shell does not wait for main's parent.                      *)
StartedAtOnce(s) ==
    /\ Goto(s, "wait", "idle")
    /\ job' = [job EXCEPT ![s] = NoPid]
    /\ UNCHANGED <<again, pids, procVars, pidfile, commands, faults, mishaps>>

(* The shell waits for main's parent only.                                 *)
Started(s) ==
    /\ Goto(s, "wait", "idle")
    /\ st[job[s]] = "none"
    /\ job' = [job EXCEPT ![s] = NoPid]
    /\ UNCHANGED <<again, pids, procVars, pidfile, commands, faults, mishaps>>

(* do_stop: without a process of that name, exit 1, a restart included.    *)
NotRunning(s) ==
    /\ Goto(s, "pidof", "idle")
    /\ Alive = {}
    /\ UNCHANGED <<again, job, pids, procVars, pidfile, commands, faults, mishaps>>

PidOf(s) ==
    /\ Goto(s, "pidof", "kill")
    /\ Alive # {}
    /\ pids' = [pids EXCEPT ![s] = Alive]
    /\ UNCHANGED <<again, job, procVars, pidfile, commands, faults, mishaps>>

(* kill returns at once; the processes are still there.                    *)
Kill(s) ==
    /\ Goto(s, "kill", "rm")
    /\ signalled' = signalled \cup (pids[s] \cap Alive)
    /\ pids' = [pids EXCEPT ![s] = {}]
    /\ UNCHANGED <<again, job, st, child, pidfile, commands, faults, mishaps>>

(* Mutant: the pid file stays.                                             *)
KeepPidFile(s) ==
    /\ Goto(s, "rm", IF again[s] THEN "check" ELSE "idle")
    /\ UNCHANGED <<again, job, pids, procVars, pidfile, commands, faults, mishaps>>

RmPidFile(s) ==
    /\ Goto(s, "rm", IF again[s] THEN "check" ELSE "idle")
    /\ pidfile' = NoPid
    /\ UNCHANGED <<again, job, pids, procVars, commands, faults, mishaps>>

-----------------------------------------------------------------------------
(* The processes.                                                          *)

Fork(p) ==
    /\ st[p] = "forking"
    /\ \E c \in FreePids :
          /\ st' = [st EXCEPT ![p] = "saving", ![c] = "init"]
          /\ child' = [child EXCEPT ![p] = c]
    /\ UNCHANGED <<scriptVars, signalled, pidfile, commands, faults, mishaps>>

ForkFails(p) ==
    /\ st[p] = "forking"
    /\ Fault("config")
    /\ Exit(p)
    /\ UNCHANGED <<scriptVars, pidfile, commands>>

(* Mutant: the parent saves its own pid.                                   *)
SavePidOfParent(p) ==
    /\ st[p] = "saving"
    /\ pidfile' = p
    /\ Exit(p)
    /\ UNCHANGED <<scriptVars, commands, faults, mishaps>>

(* save_pid, in the parent.  Opened without O_TRUNC, an older pid with     *)
(* more digits keeps its last ones.                                        *)
SavePid(p) ==
    /\ st[p] = "saving"
    /\ pidfile' \in {child[p]} \cup (IF pidfile = NoPid THEN {} ELSE {Garbled})
    /\ Exit(p)
    /\ UNCHANGED <<scriptVars, commands, faults, mishaps>>

(* save_pid exits the parent, and the child goes on.                       *)
SavePidFails(p) ==
    /\ st[p] = "saving"
    /\ Fault("pidfile")
    /\ Exit(p)
    /\ UNCHANGED <<scriptVars, pidfile, commands>>

PortTaken == \E q \in Pid : st[q] = "serving"

(* Mutant: bind's result is ignored.                                       *)
BindAnyway(p) ==
    /\ st[p] = "init"
    /\ st' = [st EXCEPT ![p] = "serving"]
    /\ UNCHANGED <<scriptVars, child, signalled, pidfile, commands, faults, mishaps>>

Bind(p) ==
    /\ st[p] = "init" /\ ~PortTaken
    /\ st' = [st EXCEPT ![p] = "serving"]
    /\ UNCHANGED <<scriptVars, child, signalled, pidfile, commands, faults, mishaps>>

BindFails(p) ==
    /\ st[p] = "init" /\ PortTaken
    /\ Exit(p)
    /\ mishaps' = mishaps \cup {"race"}
    /\ UNCHANGED <<scriptVars, pidfile, commands, faults>>

ConfigFails(p) ==
    /\ st[p] = "init"
    /\ Fault("config")
    /\ Exit(p)
    /\ UNCHANGED <<scriptVars, pidfile, commands>>

(* SIGTERM has its default action; the socket goes with the process.       *)
Die(p) ==
    /\ p \in signalled
    /\ Exit(p)
    /\ UNCHANGED <<scriptVars, pidfile, commands, faults, mishaps>>

(* exit(1) in the main loop, or a SIGKILL.                                 *)
Crash(p) ==
    /\ st[p] = "serving"
    /\ Fault("crash")
    /\ Exit(p)
    /\ UNCHANGED <<scriptVars, pidfile, commands>>

ScriptStep(s) ==
    \/ Refuse(s) \/ MayStart(s) \/ Launch(s) \/ Started(s)
    \/ NotRunning(s) \/ PidOf(s) \/ Kill(s) \/ RmPidFile(s)

ProcStep(p) == Fork(p) \/ SavePid(p) \/ Bind(p) \/ BindFails(p) \/ Die(p)

FaultStep(p) == ForkFails(p) \/ SavePidFails(p) \/ ConfigFails(p) \/ Crash(p)

Next ==
    \/ \E s \in Script : Invoke(s) \/ ScriptStep(s)
    \/ \E p \in Pid : ProcStep(p) \/ FaultStep(p)

Spec == Init /\ [][Next]_vars

(* Fairness: scripts and processes go on, a signal is delivered.           *)
FairSpec ==
    /\ Spec
    /\ \A s \in Script : WF_vars(ScriptStep(s))
    /\ \A p \in Pid : WF_vars(ProcStep(p))

-----------------------------------------------------------------------------
(* Every save_pid could open its file, and no two commands overlapped.     *)
Undisturbed == mishaps \cap {"pidfile", "overlap"} = {}

OneAtATime == Undisturbed => Stages

(***************************************************************************)
(* Undisturbed, between commands: a daemon nobody told to end is the one   *)
(* the pid file names, whatever crashed or failed to bind, so that a second*)
(* start is refused rather than left to bind's error.                      *)
(***************************************************************************)
RunningIsRecorded ==
    Undisturbed /\ (\A s \in Script : spc[s] = "idle") => Daemons \subseteq {pidfile}

(* Operators that overlap, and every fault: whatever the pid file says,    *)
(* bind leaves a single process on the port, dying ones included.          *)
OneServing == \A p, q \in Pid : st[p] = "serving" /\ st[q] = "serving" => p = q

(* Never two daemons on the port; undisturbed, never two at once, in main  *)
(* or serving, unless the older has its SIGTERM pending.                   *)
OneDaemon ==
    /\ OneServing
    /\ Undisturbed => \A p, q \in Daemons : p = q

(***************************************************************************)
(* A restart that found a process ends with another one on the port,       *)
(* unless a stop or restart follows at once.  The exceptions are faults    *)
(* and the race that do_stop's comments warn of ("add some other code that *)
(* waits for the process to drop all resources"): the new daemon meets the *)
(* old one's port and ends.                                                *)
(***************************************************************************)
Restarting == \E s \in Script : spc[s] = "rm" /\ again[s]
StopRequested == \E s \in Script : spc[s] = "pidof"
RestartServes ==
    Restarting ~> (PortTaken /\ signalled = {}) \/ StopRequested \/ mishaps # {}

(***************************************************************************)
(* "Check if the daemon is already running" (do_start): a start that is    *)
(* refused found the pid file of the one daemon there is, which nobody has *)
(* told to end, although the script looks at nothing but the file's        *)
(* existence.  Only until the first mishap: a daemon that crashes, fails or*)
(* loses its bind leaves the file, and no command of the script removes it.*)
(***************************************************************************)
RefusedIsRunning ==
    [][\A s \in Script : spc[s] = "check" /\ spc'[s] = "idle"
          => Daemons = {pidfile} \/ mishaps # {}]_vars
=============================================================================
