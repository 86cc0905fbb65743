------------------------------- MODULE PveVMs -------------------------------
(***************************************************************************)
(* talos vms (internal/pve/vms.go): for VM v of the config, step 2v - 1    *)
(* creates it and step 2v starts it, both as Proxmox tasks the run waits   *)
(* for.  A run that stops leaves its task behind, and it still ends.  A VM *)
(* is in the index of its host, where both checks look, from the moment    *)
(* its creation is accepted; it is locked until the creation ends, and     *)
(* gone again when that fails.                                             *)
(***************************************************************************)
EXTENDS Naturals

CONSTANT N  \* number of VMs

ASSUME VMsAssumption == N \in Nat \ {0}

VARIABLES
  vm,       \* "absent", "creating" (locked), "stopped" or "running"
  left,     \* unfinished tasks of runs that stopped
  task,     \* the task of the run: "none", "running", "ok" or "failed"
  touched,  \* history: VMs stopped or removed by others since the run began
  phase, pos, applied, result

vars == <<vm, left, task, touched, phase, pos, applied, result>>

VM == 1 .. N
Last == 2 * N
INSTANCE StageRun

Op(s) == IF s % 2 = 1 THEN "create" ELSE "start"
VmOf(s) == (s + 1) \div 2
Job == [op : {"create", "start"}, vm : VM]
MyJob == [op |-> Op(pos), vm |-> VmOf(pos)]

TypeOK ==
  /\ vm \in [VM -> {"absent", "creating", "stopped", "running"}]
  /\ left \subseteq Job
  /\ task \in {"none", "running", "ok", "failed"} /\ (task # "none" <=> phase = "wait")
  /\ touched \subseteq VM
  /\ phase \in {"idle", "check", "create", "start", "wait"}
  /\ pos \in 1 .. Last + 1 /\ (phase # "idle" => pos \in 1 .. Last)
  /\ phase \in {"create", "start"} => phase = Op(pos)
  /\ applied \subseteq 1 .. Last
  /\ result \in {"none", "ok", "failed"} /\ (phase # "idle" => result = "none")

\* The first run may find VMs that are there already.
Init ==
  /\ vm \in [VM -> {"absent", "stopped", "running"}]
  /\ left = {} /\ task = "none" /\ touched = {}
  /\ RunInit
-----------------------------------------------------------------------------
(***************************************************************************)
(* Proxmox: a creation that was accepted works on a VM it has locked, a    *)
(* start works on a stopped one.  Starting twice is two tasks of which the *)
(* second fails: equal ones in left count as one.                          *)
(***************************************************************************)
Works(j) ==
  /\ vm[j.vm] = IF j.op = "create" THEN "creating" ELSE "stopped"
  /\ vm' = [vm EXCEPT ![j.vm] = IF j.op = "create" THEN "stopped" ELSE "running"]
\* A creation that breaks removes the VM it has locked.
Breaks(j) ==
  /\ j.op = "create" => vm[j.vm] = "creating"
  /\ vm' = [vm EXCEPT ![j.vm] = IF j.op = "create" THEN "absent" ELSE @]
Doomed(j) == j.op = "start" /\ vm[j.vm] # "stopped" /\ UNCHANGED vm

LeftTaskEnds ==
  \E j \in left :
    /\ Works(j) \/ Doomed(j)
    /\ left' = left \ {j}
    /\ UNCHANGED <<task, touched, phase, pos, applied, result>>
TaskEnds ==
  /\ task = "running"
  /\ \/ Works(MyJob) /\ task' = "ok"
     \/ Doomed(MyJob) /\ task' = "failed"
  /\ UNCHANGED <<left, touched, phase, pos, applied, result>>
\* Storage, memory or the host lets a task down.
TaskBreaks ==
  /\ \/ \E j \in left : Breaks(j) /\ left' = left \ {j} /\ UNCHANGED task
     \/ task = "running" /\ Breaks(MyJob) /\ task' = "failed" /\ UNCHANGED left
  /\ UNCHANGED <<touched, phase, pos, applied, result>>

\* An admin, the guest or the host stops a VM; an admin removes one.
Outside(v) ==
  /\ \/ vm[v] = "running" /\ vm' = [vm EXCEPT ![v] = "stopped"]
     \/ vm[v] = "stopped" /\ vm' = [vm EXCEPT ![v] = "absent"]
  /\ touched' = touched \cup {v}
  /\ UNCHANGED <<left, task, phase, pos, applied, result>>
-----------------------------------------------------------------------------
Begin == StartRun /\ touched' = {} /\ UNCHANGED <<vm, left, task>>

\* Mutation: a VM that is not running counts as missing.
DoneIfRunning(s) == vm[VmOf(s)] = "running"
\* vmExists, vmRunning: the index says whether it is there and its power state.
Done(s) == IF Op(s) = "create" THEN vm[VmOf(s)] # "absent" ELSE vm[VmOf(s)] = "running"

CheckDone == phase = "check" /\ Done(pos) /\ SkipStep /\ UNCHANGED <<vm, left, task, touched>>
CheckPending == phase = "check" /\ ~Done(pos) /\ Enter(Op(pos)) /\ UNCHANGED <<vm, left, task, touched>>

\* The answer names the task, or it is lost and nobody waits for the task.
Submitted ==
  /\ \/ Goto("wait") /\ task' = "running" /\ UNCHANGED left
     \/ Fail /\ left' = left \cup {MyJob} /\ UNCHANGED task
  /\ UNCHANGED touched
Create ==
  /\ phase = "create" /\ vm[VmOf(pos)] = "absent"
  /\ vm' = [vm EXCEPT ![VmOf(pos)] = "creating"]
  /\ Submitted
Start ==
  /\ phase = "start" /\ vm[VmOf(pos)] # "absent"
  /\ Submitted
  /\ UNCHANGED vm
\* Proxmox does not create a VM that is there or start one that is not.
Refused ==
  /\ \/ phase = "create" /\ vm[VmOf(pos)] # "absent"
     \/ phase = "start" /\ vm[VmOf(pos)] = "absent"
  /\ Fail
  /\ UNCHANGED <<vm, left, task, touched>>

\* Mutation: the exit status of the task is not looked at.
WaitEndsAnyhow ==
  /\ phase = "wait" /\ task \in {"ok", "failed"}
  /\ StepApplied
  /\ task' = "none"
  /\ UNCHANGED <<vm, left, touched>>
\* waitTask: a task that did not end well is an error.
WaitEnds ==
  /\ phase = "wait" /\ task \in {"ok", "failed"}
  /\ IF task = "ok" THEN StepApplied ELSE Fail
  /\ task' = "none"
  /\ UNCHANGED <<vm, left, touched>>

\* A call fails or the process is killed; its task goes on without it.
Stop ==
  /\ Fail \/ Kill
  /\ left' = IF task = "running" THEN left \cup {MyJob} ELSE left
  /\ task' = "none"
  /\ UNCHANGED <<vm, touched>>

Run == Begin \/ CheckDone \/ CheckPending \/ Create \/ Start \/ Refused \/ WaitEnds
Proxmox == LeftTaskEnds \/ TaskEnds
Next == Run \/ Proxmox \/ TaskBreaks \/ Stop \/ \E v \in VM : Outside(v)

Spec == Init /\ [][Next]_vars
-----------------------------------------------------------------------------
Settled(v) == vm[v] = "running" \/ v \in touched

(***************************************************************************)
(* "A VM that fails to start is worth stopping on before creating the      *)
(* rest" (Steps): a VM is only created, and a run only succeeds, when      *)
(* every VM before it runs, unless others stopped that one meanwhile,      *)
(* whatever tasks of earlier runs still do.                                *)
(***************************************************************************)
RunningInOrder ==
  [][ /\ \A v \in VM : vm[v] = "absent" /\ vm'[v] = "creating" =>
           \A u \in VM : u < v => Settled(u)
      /\ result' = "ok" /\ phase # "idle" => \A v \in VM : Settled(v) ]_vars
-----------------------------------------------------------------------------
(***************************************************************************)
(* The VMs as a stage of the engine.  A step holds when its check says so, *)
(* or when others have stopped or removed its VM since the run began.      *)
(* Then nothing else stops a VM; a creation may still break.               *)
(***************************************************************************)
Mode == IF phase \in {"idle", "check"} THEN phase ELSE "apply"
Holds == {s \in 1 .. Last : Done(s) \/ VmOf(s) \in touched}

Stage ==
  INSTANCE Steps WITH
    Stable <- {s \in 1 .. Last : Op(s) = "start"},
    Exact <- {},
    holds <- Holds,
    kind <- "run",
    mode <- Mode,
    pending <- {}

ImplementsStage == Stage!Spec
=============================================================================
