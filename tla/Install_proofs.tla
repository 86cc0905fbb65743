--------------------------- MODULE Install_proofs ---------------------------
(***************************************************************************)
(* Proofs about the way from a config to installed machines. What Load     *)
(* refuses, for every file an operator may write and whatever mistakes are *)
(* in it; what booty and talos apply make of a cluster that is accepted;   *)
(* and what is on the disks, for any versions of the config file and any   *)
(* number of VMs, edits, stopped runs, removals and wiped disks.           *)
(***************************************************************************)
EXTENDS Install, Drafting, FiniteSetTheorems, TLAPS

(***************************************************************************)
(* The VM stage by itself, for any number of VMs, stopped runs, broken     *)
(* tasks and VMs stopped by others.                                        *)
(***************************************************************************)
\* Steps 2v - 1 and 2v are the ones of VM v.
LEMMA StepsOfVM ==
  ASSUME NEW s \in 1 .. Last
  PROVE  /\ VmOf(s) \in VM /\ Op(s) \in {"create", "start"}
         /\ Op(s) = "create" => s = 2 * VmOf(s) - 1
         /\ Op(s) = "start" => s = 2 * VmOf(s)
<1>1. s \in Int /\ 1 <= s /\ s <= 2 * N /\ N \in Int
  BY VMsAssumption DEF Last
<1>2. (s + 1) \div 2 \in Int /\ s % 2 \in {0, 1}
      /\ (s % 2 = 1 => s = 2 * ((s + 1) \div 2) - 1)
      /\ (s % 2 = 0 => s = 2 * ((s + 1) \div 2))
  BY <1>1
<1> QED BY <1>1, <1>2 DEF VmOf, Op, VM

LEMMA InitType == Init => TypeOK
<1> SUFFICES ASSUME Init PROVE TypeOK
  OBVIOUS
<1>1. 1 \in 1 .. Last + 1
  BY VMsAssumption DEF Last
<1> QED BY <1>1 DEF Init, RunInit, TypeOK

\* What the engine's Advance does to the types.
LEMMA AdvanceTypes ==
  ASSUME TypeOK, phase # "idle", Advance
  PROVE  /\ pos' = pos + 1 /\ pos' \in 1 .. Last + 1 /\ pos \in 1 .. Last
         /\ phase' \in {"check", "idle"} /\ (phase' = "check" => pos' \in 1 .. Last)
         /\ result' \in {"none", "ok"} /\ (result' = "ok" => pos = Last)
         /\ (phase' # "idle" => result' = "none")
  BY VMsAssumption DEF TypeOK, Advance, Last

LEMMA NextType == TypeOK /\ Next => TypeOK'
<1> SUFFICES ASSUME TypeOK, Next PROVE TypeOK'
  OBVIOUS
<1> USE DEF TypeOK
<1>1. pos \in 1 .. Last => VmOf(pos) \in VM /\ Op(pos) \in {"create", "start"} /\ MyJob \in Job
  BY StepsOfVM DEF MyJob, Job
<1>2. CASE Begin
  <2>1. 1 \in 1 .. Last /\ 1 \in 1 .. Last + 1
    BY VMsAssumption DEF Last
  <2> QED BY <1>2, <2>1 DEF Begin, StartRun
<1>3. CASE CheckDone
  BY <1>3, AdvanceTypes DEF CheckDone, SkipStep
<1>4. CASE CheckPending
  BY <1>4, <1>1 DEF CheckPending, Enter, Goto
<1>5. CASE Create
  BY <1>5, <1>1 DEF Create, Submitted, Goto, Fail
<1>6. CASE Start
  BY <1>6, <1>1 DEF Start, Submitted, Goto, Fail
<1>7. CASE Refused
  BY <1>7 DEF Refused, Fail
<1>8. CASE WaitEnds
  <2>1. CASE task = "ok"
    BY <1>8, <2>1, AdvanceTypes DEF WaitEnds, StepApplied
  <2>2. CASE task # "ok"
    BY <1>8, <2>2 DEF WaitEnds, Fail
  <2> QED BY <2>1, <2>2
<1>9. CASE LeftTaskEnds
  BY <1>9 DEF LeftTaskEnds, Works, Doomed, Job
<1>10. CASE TaskEnds
  BY <1>10 DEF TaskEnds, Works, Doomed
<1>11. CASE TaskBreaks
  BY <1>11 DEF TaskBreaks, Breaks
<1>12. CASE Stop
  BY <1>12, <1>1 DEF Stop, Fail, Kill
<1>13. ASSUME NEW v \in VM, Outside(v) PROVE TypeOK'
  BY <1>13 DEF Outside
<1> QED
  BY <1>2, <1>3, <1>4, <1>5, <1>6, <1>7, <1>8, <1>9, <1>10, <1>11, <1>12, <1>13
  DEF Next, Run, Proxmox
-----------------------------------------------------------------------------
(***************************************************************************)
(* Why VMs run in order.  A VM that runs keeps running unless others stop  *)
(* it, since no task takes a running VM back; so what the run has passed   *)
(* stays settled, and a start task that ended well has settled its VM.     *)
(***************************************************************************)
Earlier == phase # "idle" => \A u \in VM : 2 * u < pos => Settled(u)
Started == task = "ok" /\ Op(pos) = "start" => Settled(VmOf(pos))

Inv == TypeOK /\ Earlier /\ Started

LEMMA InitInv == Init => Inv
  BY InitType DEF Init, RunInit, Inv, Earlier, Started

\* No step but the begin of a run unsettles a VM.
LEMMA StaysSettled ==
  ASSUME TypeOK, Next, ~Begin, NEW u \in VM, Settled(u)
  PROVE  Settled(u)'
<1> USE DEF TypeOK, Settled
<1>1. CASE CheckDone \/ CheckPending \/ Refused \/ Start \/ WaitEnds \/ Stop
  BY <1>1 DEF CheckDone, CheckPending, Refused, Start, Submitted, WaitEnds, Stop
<1>2. CASE Create
  BY <1>2 DEF Create, Submitted
<1>3. CASE LeftTaskEnds
  BY <1>3 DEF LeftTaskEnds, Works, Doomed, Job
<1>4. CASE TaskEnds
  BY <1>4 DEF TaskEnds, Works, Doomed
<1>5. CASE TaskBreaks
  BY <1>5 DEF TaskBreaks, Breaks
<1>6. ASSUME NEW v \in VM, Outside(v) PROVE Settled(u)'
  BY <1>6 DEF Outside
<1> QED BY <1>1, <1>2, <1>3, <1>4, <1>5, <1>6 DEF Next, Run, Proxmox

\* A step is passed only with its VM settled, if it is a start.
LEMMA PassedSettled ==
  ASSUME Inv, phase # "idle", CheckDone \/ (WaitEnds /\ task = "ok"),
         NEW u \in VM, 2 * u < pos + 1
  PROVE  Settled(u)
<1> USE DEF Inv, TypeOK
<1>1. u \in Nat /\ pos \in Nat /\ pos \in 1 .. Last
  BY VMsAssumption DEF VM, Last
<1>2. CASE 2 * u < pos
  BY <1>2 DEF Earlier
<1>3. CASE 2 * u = pos
  <2>1. Op(pos) = "start" /\ VmOf(pos) = u
    <3>1. VmOf(pos) \in Nat
      BY <1>1, StepsOfVM, VMsAssumption DEF VM
    <3> QED BY <1>1, <1>3, <3>1, StepsOfVM
  <2> QED BY <2>1 DEF CheckDone, Done, Started, Settled
<1> QED BY <1>1, <1>2, <1>3

LEMMA NextInv == Inv /\ Next => Inv'
<1> SUFFICES ASSUME Inv, Next PROVE Earlier' /\ Started'
  BY NextType DEF Inv
<1> USE DEF Inv, TypeOK
<1>1. CASE Begin
  <2>1. \A u \in VM : ~(2 * u < 1)
    BY VMsAssumption DEF VM
  <2> QED BY <1>1, <2>1 DEF Begin, StartRun, Earlier, Started
<1>2. ASSUME ~Begin, pos' = pos, task' \in {task, "none", "running", "failed"}, phase # "idle" \/ phase' = "idle"
      PROVE  Earlier' /\ Started'
  <2>1. task' = "ok" => task = "ok"
    BY <1>2
  <2>2. phase' # "idle" => \A u \in VM : 2 * u < pos' => Settled(u)'
    BY <1>2, StaysSettled DEF Earlier
  <2>3. task = "ok" => VmOf(pos) \in VM
    BY StepsOfVM
  <2>4. Op(pos') = Op(pos) /\ VmOf(pos') = VmOf(pos)
    BY <1>2
  <2>5. Started'
    BY <1>2, <2>1, <2>3, <2>4, StaysSettled DEF Started, Settled
  <2> QED BY <2>2, <2>5 DEF Earlier
<1>3. CASE CheckPending \/ Create \/ Start \/ Refused \/ Stop \/ LeftTaskEnds \/ TaskBreaks
           \/ (WaitEnds /\ task # "ok") \/ \E v \in VM : Outside(v)
  <2>1. ~Begin
    BY <1>3 DEF Begin, StartRun, CheckPending, Create, Start, Refused, Stop, Fail, Kill, LeftTaskEnds,
       TaskBreaks, WaitEnds, Outside
  <2> QED BY <1>2, <1>3, <2>1 DEF CheckPending, Enter, Goto, Create, Start, Submitted, Refused, Stop, Fail, Kill,
       LeftTaskEnds, TaskBreaks, WaitEnds, Outside
<1>4. CASE CheckDone \/ (WaitEnds /\ task = "ok")
  <2>1. phase # "idle" /\ Advance /\ task' = "none" /\ UNCHANGED <<vm, touched>>
    BY <1>4 DEF CheckDone, SkipStep, WaitEnds, StepApplied
  <2>2. \A u \in VM : 2 * u < pos + 1 => Settled(u)
    BY <1>4, <2>1, PassedSettled
  <2> QED BY <2>1, <2>2, AdvanceTypes DEF Earlier, Started, Settled
<1>5. CASE TaskEnds
  <2>1. ~Begin /\ pos' = pos /\ phase' = phase /\ phase = "wait"
    BY <1>5 DEF TaskEnds, Begin, StartRun
  <2>2. Earlier'
    BY <2>1, StaysSettled DEF Earlier
  <2>3. VmOf(pos) \in VM /\ VmOf(pos') = VmOf(pos) /\ Op(pos') = Op(pos)
    BY <2>1, StepsOfVM
  <2>4. task' = "ok" /\ Op(pos) = "start" => vm'[VmOf(pos)] = "running"
    BY <1>5, <2>3 DEF TaskEnds, Works, MyJob
  <2> QED BY <2>2, <2>3, <2>4 DEF Started, Settled
<1> QED BY <1>1, <1>3, <1>4, <1>5 DEF Next, Run, Proxmox

\* The invariant holds in every state of the stage.
LEMMA InvAlways == Spec => []Inv
<1>1. Inv /\ UNCHANGED vars => Inv'
  BY DEF Inv, TypeOK, Earlier, Started, Settled, vars, Op, VmOf
<1> QED BY <1>1, InitInv, NextInv, PTL DEF Spec

(***************************************************************************)
(* The state keeps its types, for any number of VMs.                       *)
(***************************************************************************)
THEOREM TypeCorrect == Spec => []TypeOK
  BY InvAlways, PTL DEF Inv

\* One step of the stage, from any state the invariant allows.
OrderHolds ==
  /\ \A v \in VM : vm[v] = "absent" /\ vm'[v] = "creating" =>
       \A u \in VM : u < v => Settled(u)
  /\ result' = "ok" /\ phase # "idle" => \A v \in VM : Settled(v)

LEMMA StepInOrder == Inv /\ [Next]_vars => [OrderHolds]_vars
<1> SUFFICES ASSUME Inv, Next PROVE OrderHolds
  OBVIOUS
<1> USE DEF Inv, TypeOK
<1>1. ASSUME NEW v \in VM, vm[v] = "absent", vm'[v] = "creating", NEW u \in VM, u < v
      PROVE  Settled(u)
  <2>1. Create /\ v = VmOf(pos)
    BY <1>1 DEF Next, Run, Proxmox, Begin, CheckDone, CheckPending, Create, Start, Refused, WaitEnds,
       LeftTaskEnds, TaskEnds, TaskBreaks, Stop, Outside, Works, Breaks, Doomed, MyJob, Job
  <2>2. pos = 2 * v - 1 /\ pos \in 1 .. Last
    BY <2>1, StepsOfVM DEF Create
  <2>3. 2 * u < pos
    BY <1>1, <2>2, VMsAssumption DEF VM
  <2> QED BY <2>1, <2>3 DEF Create, Earlier
<1>2. ASSUME result' = "ok", phase # "idle", NEW v \in VM PROVE Settled(v)
  <2>1. CheckDone \/ (WaitEnds /\ task = "ok")
    BY <1>2 DEF Next, Run, Proxmox, Begin, StartRun, CheckPending, Enter, Goto, Create, Start, Submitted,
       Refused, Fail, WaitEnds, LeftTaskEnds, TaskEnds, TaskBreaks, Stop, Kill, Outside
  <2>2. pos = Last
    BY <1>2, <2>1, AdvanceTypes DEF CheckDone, SkipStep, WaitEnds, StepApplied
  <2>3. 2 * v < pos + 1
    BY <2>2, VMsAssumption DEF VM, Last
  <2> QED BY <1>2, <2>1, <2>3, PassedSettled
<1> QED BY <1>1, <1>2 DEF OrderHolds

(***************************************************************************)
(* A VM is only created, and a run only succeeds, when every VM before it  *)
(* runs or was stopped by others meanwhile: for any number of VMs, tasks   *)
(* of stopped runs and broken tasks.                                       *)
(***************************************************************************)
THEOREM InOrder == Spec => RunningInOrder
  BY InvAlways, StepInOrder, PTL DEF Spec, RunningInOrder, OrderHolds
-----------------------------------------------------------------------------
(***************************************************************************)
(* The stage implements the engine's contract.  It takes one more fact: a  *)
(* creation that ended well has left a VM that only others can remove,     *)
(* since the tasks of stopped runs only create a VM that is being created. *)
(***************************************************************************)
Created ==
  task = "ok" /\ Op(pos) = "create" =>
    vm[VmOf(pos)] \in {"stopped", "running"} \/ VmOf(pos) \in touched

LEMMA NextCreated == TypeOK /\ Created /\ Next => Created'
<1> SUFFICES ASSUME TypeOK, Created, Next, task' = "ok" PROVE Created'
  BY DEF Created
<1> USE DEF TypeOK, Created
<1>1. CASE TaskEnds
  <2>1. VmOf(pos) \in VM /\ pos' = pos /\ Works(MyJob)
    BY <1>1, StepsOfVM DEF TaskEnds
  <2> QED BY <2>1 DEF Works, MyJob, Op, VmOf
<1>2. CASE LeftTaskEnds
  BY <1>2, StepsOfVM DEF LeftTaskEnds, Works, Doomed, Job, Op, VmOf
<1>3. CASE TaskBreaks
  BY <1>3, StepsOfVM DEF TaskBreaks, Breaks, Job, Op, VmOf
<1>4. ASSUME NEW v \in VM, Outside(v) PROVE Created'
  BY <1>4, StepsOfVM DEF Outside, Op, VmOf
<1>5. ~(Begin \/ CheckDone \/ CheckPending \/ Create \/ Start \/ Refused \/ WaitEnds \/ Stop)
  BY DEF Begin, StartRun, CheckDone, CheckPending, Create, Start, Submitted, Refused, WaitEnds, Stop
<1> QED BY <1>1, <1>2, <1>3, <1>4, <1>5 DEF Next, Run, Proxmox

StageInv == Inv /\ Created

LEMMA StageInit == Init => Stage!Init /\ StageInv
<1> SUFFICES ASSUME Init PROVE Stage!Init /\ StageInv
  OBVIOUS
<1>1. Stage!Init
  BY DEF Init, RunInit, Stage!Init, Mode, Holds, Stage!Step
<1>2. StageInv
  BY InitInv DEF Init, StageInv, Created
<1> QED BY <1>1, <1>2

\* Within a run, what was started stays started or was stopped by others.
LEMMA StartsHold ==
  ASSUME TypeOK, [Next]_vars, ~Begin
  PROVE  Holds' \in SUBSET Stage!Step /\ Stage!WorldMoves
<1>1. Holds' \subseteq 1 .. Last
  BY DEF Holds
<1>2. ASSUME NEW s \in 1 .. Last, Op(s) = "start", s \in Holds PROVE s \in Holds'
  <2>1. PICK v \in VM : v = VmOf(s)
    BY StepsOfVM
  <2>2. Settled(v)
    BY <1>2, <2>1 DEF Holds, Done, Settled
  <2>3. Settled(v)'
    BY <2>2, StaysSettled DEF vars, Settled
  <2>4. (Op(s) = "start" /\ v = VmOf(s))'
    BY <1>2, <2>1 DEF Op, VmOf
  <2> QED BY <2>3, <2>4 DEF Holds, Done, Settled
<1> QED BY <1>1, <1>2 DEF Stage!WorldMoves, Stage!WorldMay, Stage!Step

LEMMA StageNext == StageInv /\ [Next]_vars => [Stage!Next]_(Stage!vars)
<1> SUFFICES ASSUME StageInv, [Next]_vars PROVE [Stage!Next]_(Stage!vars)
  OBVIOUS
<1>0. TypeOK /\ Started /\ Created
  BY DEF StageInv, Inv
<1>1. CASE Begin
  <2>1. Holds' \in SUBSET Stage!Step
    BY DEF Holds, Stage!Step
  <2> QED BY <1>1, <2>1 DEF Begin, StartRun, Stage!StartRun, Stage!Next, Mode
<1> SUFFICES ASSUME ~Begin PROVE [Stage!Next]_(Stage!vars)
  BY <1>1
<1>h. Holds' \in SUBSET Stage!Step /\ Stage!WorldMoves
  BY <1>0, StartsHold
<1>k. UNCHANGED <<vm, touched>> => Holds' = Holds
  BY DEF Holds, Done, Op, VmOf
\* What moves only the world, and what stays within Apply.
<1>w. ASSUME Mode' = Mode, UNCHANGED <<pos, applied, result>> PROVE Stage!Next
  BY <1>h, <1>w DEF Stage!World, Stage!run, Stage!Next
<1>a. ASSUME phase \notin {"idle", "check"}, Fail PROVE Stage!Next
  BY <1>h, <1>a DEF Fail, Stage!ApplyError, Stage!Fail, Stage!Next, Stage!Fault, Mode
<1>2. CASE CheckDone
  <2>1. pos \in Holds /\ Holds' = Holds
    BY <1>0, <1>2, <1>k DEF CheckDone, Holds, TypeOK
  <2> QED
    BY <1>2, <2>1 DEF CheckDone, SkipStep, Advance, Stage!CheckDone, Stage!Advance, Stage!Next, Stage!Run, Mode
<1>3. CASE CheckPending
  <2>1. Op(pos) \in {"create", "start"}
    BY DEF Op
  <2> QED
    BY <1>3, <1>k, <2>1 DEF CheckPending, Enter, Goto, Stage!CheckPending, Stage!Next, Stage!Run, Mode
<1>4. CASE Create \/ Start \/ Refused
  <2>1. phase \in {"create", "start"} /\ (Fail \/ Goto("wait"))
    BY <1>4 DEF Create, Start, Refused, Submitted
  <2> QED BY <1>a, <1>w, <2>1 DEF Goto, Mode
<1>5. CASE WaitEnds
  <2>1. CASE task = "ok"
    <3>1. pos \in 1 .. Last /\ Op(pos) \in {"create", "start"} /\ StepApplied /\ UNCHANGED <<vm, touched>>
      BY <1>0, <1>5, <2>1, StepsOfVM DEF WaitEnds, TypeOK
    <3>2. pos \in Holds
      BY <1>0, <2>1, <3>1 DEF Started, Created, Settled, Holds, Done
    <3> QED
      BY <1>5, <1>h, <1>k, <3>1, <3>2
      DEF WaitEnds, StepApplied, Advance, Stage!ApplyDone, Stage!Advance, Stage!WorldMoves, Stage!WorldMay,
          Stage!Next, Stage!Run, Mode
  <2>2. CASE task # "ok"
    BY <1>5, <1>a, <2>2 DEF WaitEnds
  <2> QED BY <2>1, <2>2
<1>6. CASE Stop
  <2>1. CASE Fail /\ phase = "check"
    BY <1>6, <1>k, <2>1 DEF Stop, Fail, Stage!CheckError, Stage!Fail, Stage!Next, Stage!Fault, Mode
  <2>2. CASE Fail /\ phase # "check"
    BY <1>a, <2>2 DEF Fail
  <2>3. CASE Kill
    BY <1>h, <2>3 DEF Kill, Stage!Interrupt, Stage!Next, Stage!Fault, Mode
  <2> QED BY <1>6, <2>1, <2>2, <2>3 DEF Stop
<1>7. CASE Proxmox \/ TaskBreaks \/ (\E v \in VM : Outside(v)) \/ UNCHANGED vars
  BY <1>7, <1>w DEF Proxmox, LeftTaskEnds, TaskEnds, TaskBreaks, Outside, vars, Mode
<1> QED
  BY <1>2, <1>3, <1>4, <1>5, <1>6, <1>7 DEF Next, Run

(***************************************************************************)
(* talos vms is a stage of the engine: the VMs are created and started in  *)
(* the order of the config, the first failure stops the run, and a step    *)
(* returns success only once its VM is there or runs, or others have       *)
(* stopped or removed it meanwhile; no task of any run stops a VM again.   *)
(***************************************************************************)
THEOREM VMsImplementStage == Spec => ImplementsStage
<1>1. StageInv /\ [Next]_vars => StageInv'
  <2>1. StageInv /\ UNCHANGED vars => StageInv'
    BY DEF StageInv, Inv, TypeOK, Earlier, Started, Created, Settled, vars, Op, VmOf
  <2> QED BY <2>1, NextInv, NextCreated DEF StageInv, Inv
<1> QED BY <1>1, StageInit, StageNext, PTL DEF Spec, ImplementsStage, Stage!Spec
-----------------------------------------------------------------------------
(***************************************************************************)
(* What the engine guarantees for every stage, it guarantees for this one  *)
(* (see PveForm_proofs).                                                   *)
(***************************************************************************)
Engine ==
  INSTANCE Steps_proofs WITH
    Stable <- {s \in 1 .. Last : Op(s) = "start"}, Exact <- {},
    holds <- Holds, kind <- "run", mode <- Mode, pending <- {},
    MaxFaults <- 0, faults <- 0, missing <- {}

LEMMA SameEngine == Stage!Spec => Engine!Spec
<1>1. Stage!Init => Engine!Init
  BY DEF Stage!Init, Engine!Init, Stage!Step, Engine!Step
<1>2. [Stage!Next]_(Stage!vars) => [Engine!Next]_(Engine!vars)
  BY DEF Stage!Next, Stage!vars, Stage!run, Stage!Step, Stage!World, Stage!WorldMoves, Stage!WorldMay,
         Stage!StartRun, Stage!NoStage, Stage!Advance, Stage!Fail, Stage!Run, Stage!CheckDone,
         Stage!CheckPending, Stage!ApplyDone, Stage!Fault, Stage!CheckError, Stage!ApplyError, Stage!Interrupt,
         Engine!Next, Engine!vars, Engine!run, Engine!Step, Engine!World, Engine!WorldMoves, Engine!WorldMay,
         Engine!StartRun, Engine!NoStage, Engine!Advance, Engine!Fail, Engine!Run, Engine!CheckDone,
         Engine!CheckPending, Engine!ApplyDone, Engine!Fault, Engine!CheckError, Engine!ApplyError,
         Engine!Interrupt
<1> QED BY <1>1, <1>2, PTL DEF Stage!Spec, Engine!Spec

(***************************************************************************)
(* Every VM before the one a run of talos vms is at runs or was stopped by *)
(* others since the run began, and after a run that returns no error all   *)
(* do.                                                                     *)
(***************************************************************************)
THEOREM StartedInOrder == Spec => [](Stage!EarlierHold /\ Stage!ConvergedWhenOk)
<1>1. Engine!StageAssumption
  BY VMsAssumption DEF Engine!StageAssumption, Last
<1>2. Engine!Spec => []Engine!EarlierHold /\ []Engine!ConvergedWhenOk
  BY <1>1, Engine!StepsInOrder, Engine!OkConverged
<1>3. Engine!EarlierHold /\ Engine!ConvergedWhenOk => Stage!EarlierHold /\ Stage!ConvergedWhenOk
  BY DEF Engine!EarlierHold, Engine!ConvergedWhenOk, Stage!EarlierHold, Stage!ConvergedWhenOk
<1> QED BY VMsImplementStage, SameEngine, <1>2, <1>3, PTL DEF ImplementsStage
-----------------------------------------------------------------------------
(***************************************************************************)
(* What Load refuses, kind by kind (internal/config).                      *)
(***************************************************************************)
LEMMA ListDomain ==
  ASSUME NEW s, IsList(s)
  PROVE  /\ DOMAIN s = 1 .. Cardinality(DOMAIN s) /\ Cardinality(DOMAIN s) \in Nat
         /\ s = <<>> <=> DOMAIN s = {}
<1>1. DOMAIN s = 1 .. Cardinality(DOMAIN s) /\ Cardinality(DOMAIN s) \in Nat
  BY DEF IsList
<1>2. ASSUME DOMAIN s = {} PROVE s = <<>>
  BY <1>1, <1>2 DEF IsList
<1> QED BY <1>1, <1>2

\* What is accepted has no error of any kind.
LEMMA NothingWrong ==
  ASSUME NEW c
  PROVE  /\ Accepted(c) <=> Decode(c) = {} /\ ValidateAndNormalize(c) = {} /\ ResolveCiliumValues(c) = {}
         /\ ValidateAndNormalize(c) = {} <=>
              /\ ValidatePVE(c) = {} /\ ValidateStorage(c) = {} /\ ValidateACME(c) = {} /\ ValidateTalos(c) = {}
              /\ ValidateTalosCluster(c) = {} /\ ValidateProfiles(c) = {} /\ ValidateRuntimes(c) = {}
              /\ ValidateNetworks(c) = {} /\ ValidateLabels(c) = {} /\ ResolveInterfaces(c) = {}
              /\ ValidateInterfaceMACs(c) = {}
<1>1. Accepted(c) <=> Decode(c) = {} /\ ValidateAndNormalize(c) = {} /\ ResolveCiliumValues(c) = {}
  BY DEF Accepted, Load, Staged
<1>2. ValidateAndNormalize(c) = {} <=>
        /\ ValidatePVE(c) = {} /\ ValidateStorage(c) = {} /\ ValidateACME(c) = {} /\ ValidateTalos(c) = {}
        /\ ValidateTalosCluster(c) = {} /\ ValidateProfiles(c) = {} /\ ValidateRuntimes(c) = {}
        /\ ValidateNetworks(c) = {} /\ ValidateLabels(c) = {} /\ ResolveInterfaces(c) = {}
        /\ ValidateInterfaceMACs(c) = {}
  BY DEF ValidateAndNormalize
<1> QED BY <1>1, <1>2

\* What the rules about planes come to.
LEMMA NetworksInOrder ==
  ASSUME NEW c
  PROVE  ValidateNetworks(c) = {} <=>
           /\ ~(Cardinality(PrimaryPlanes(c)) > 1)
           /\ \A k \in DOMAIN c.networks :
                ~Duplicate(c.networks, k) /\ References(c, c.networks[k].name) /\ ValidateNetwork(c, k) = {}
<1> DEFINE Network(k) == IF Duplicate(c.networks, k) THEN {<<"Duplicate network name", k>>} ELSE ValidateNetwork(c, k)
           Unreferenced(k) == Diag(~References(c, c.networks[k].name), <<"Unreferenced network", k>>)
<1>1. ValidateNetworks(c) =
        (UNION {Network(k) : k \in DOMAIN c.networks})
        \cup Diag(Cardinality(PrimaryPlanes(c)) > 1, <<"Multiple primary networks">>)
        \cup (UNION {Unreferenced(k) : k \in DOMAIN c.networks})
  BY Zenon DEF ValidateNetworks, Each
<1>2. \A k : Network(k) = {} <=> ~Duplicate(c.networks, k) /\ ValidateNetwork(c, k) = {}
  OBVIOUS
<1>3. \A k : Unreferenced(k) = {} <=> References(c, c.networks[k].name)
  BY DEF Diag
<1> HIDE DEF Network, Unreferenced
<1>4. (UNION {Network(k) : k \in DOMAIN c.networks}) = {} <=> \A k \in DOMAIN c.networks : Network(k) = {}
  OBVIOUS
<1>5. (UNION {Unreferenced(k) : k \in DOMAIN c.networks}) = {} <=> \A k \in DOMAIN c.networks : Unreferenced(k) = {}
  OBVIOUS
<1>6. Diag(Cardinality(PrimaryPlanes(c)) > 1, <<"Multiple primary networks">>) = {}
        <=> ~(Cardinality(PrimaryPlanes(c)) > 1)
  BY DEF Diag
<1> QED BY <1>1, <1>2, <1>3, <1>4, <1>5, <1>6

\* The rules about one plane are those about an interface, and that a static one has a cidr.
LEMMA SameRules ==
  ASSUME NEW c, Proper(c), NEW k \in DOMAIN c.networks, NEW at
  PROVE  ValidateNetwork(c, k) = {} <=>
           ValidateInline(Facts(c.networks[k]), at) = {} /\ (c.networks[k].dhcp \/ c.networks[k].cidr # Unset)
<1> DEFINE p == c.networks[k]
           r == Facts(p)
<1>1. p.vlan # Unset /\ p.mtu # Unset /\ p.primary # Unset
  BY DEF Proper
<1>2. r.vlan = p.vlan /\ r.mtu = p.mtu /\ r.primary = p.primary /\ r.dhcp = p.dhcp /\ r.cidr = p.cidr
  BY <1>1 DEF Facts, Default
<1>3. ValidateNetwork(c, k) = {} <=>
        /\ ~(p.primary /\ ~p.dhcp) /\ ~InvalidVLAN(p.vlan) /\ ~InvalidMTU(p.mtu)
        /\ ~(~p.dhcp /\ p.cidr = Unset) /\ ~(p.dhcp /\ p.cidr # Unset) /\ ~(~p.dhcp /\ p.cidr = Malformed)
  BY DEF ValidateNetwork, Diag
<1>4. ValidateInline(r, at) = {} <=>
        /\ ~InvalidVLAN(r.vlan) /\ ~InvalidMTU(r.mtu) /\ ~(r.primary /\ ~r.dhcp)
        /\ ~(r.dhcp /\ r.cidr # Unset) /\ ~(~r.dhcp /\ r.cidr = Malformed)
  <2> HIDE DEF r
  <2> QED BY DEF ValidateInline, Diag
<1> HIDE DEF p, r
<1>5. InvalidVLAN(r.vlan) <=> InvalidVLAN(p.vlan)
  BY <1>2
<1>6. InvalidMTU(r.mtu) <=> InvalidMTU(p.mtu)
  BY <1>2
<1> QED BY <1>2, <1>3, <1>4, <1>5, <1>6, Zenon DEF p, r

\* What the rules about profiles come to.
LEMMA ProfilesInOrder ==
  ASSUME NEW c
  PROVE  ValidateProfiles(c) = {} <=>
           /\ c.profiles = <<>> \/ c.schematic = Unset
           /\ \A k \in DOMAIN c.profiles :
                /\ ~Duplicate(c.profiles, k) /\ c.profiles[k].extensions # {}
                /\ Malformed \notin c.profiles[k].extensions
                /\ \E i \in DOMAIN c.nodes : c.profiles[k].name \in c.nodes[i].profiles
           /\ \A i \in DOMAIN c.nodes : c.nodes[i].profiles \ Names(c.profiles) = {}
<1> DEFINE Profile(k) == IF Duplicate(c.profiles, k) THEN {<<"Duplicate profile name", k>>}
                         ELSE Diag(c.profiles[k].extensions = {}, <<"Empty profile", k>>)
                              \cup Diag(Malformed \in c.profiles[k].extensions, <<"Invalid extension name", k>>)
           Unreferenced(k) ==
             Diag(\A i \in DOMAIN c.nodes : c.profiles[k].name \notin c.nodes[i].profiles, <<"Unreferenced profile", k>>)
           Unknown(i) == {<<"Unknown profile reference", i, ref>> : ref \in c.nodes[i].profiles \ Names(c.profiles)}
           both == Diag(c.profiles # <<>> /\ c.schematic # Unset, <<"Both schematic_id and profiles declared">>)
<1>1. ValidateProfiles(c) =
        both \cup (UNION {Profile(k) : k \in DOMAIN c.profiles}) \cup (UNION {Unknown(i) : i \in DOMAIN c.nodes})
        \cup (UNION {Unreferenced(k) : k \in DOMAIN c.profiles})
  BY Zenon DEF ValidateProfiles, Each
<1>2. \A k : Profile(k) = {} <=> /\ ~Duplicate(c.profiles, k) /\ c.profiles[k].extensions # {}
                                 /\ Malformed \notin c.profiles[k].extensions
  BY DEF Diag
<1>3. \A k : Unreferenced(k) = {} <=> \E i \in DOMAIN c.nodes : c.profiles[k].name \in c.nodes[i].profiles
  BY DEF Diag
<1>4. \A i : Unknown(i) = {} <=> c.nodes[i].profiles \ Names(c.profiles) = {}
  OBVIOUS
<1>5. both = {} <=> c.profiles = <<>> \/ c.schematic = Unset
  BY DEF Diag
<1> HIDE DEF Profile, Unreferenced, Unknown, both
<1>6. (UNION {Profile(k) : k \in DOMAIN c.profiles}) = {} <=> \A k \in DOMAIN c.profiles : Profile(k) = {}
  OBVIOUS
<1>7. (UNION {Unreferenced(k) : k \in DOMAIN c.profiles}) = {} <=> \A k \in DOMAIN c.profiles : Unreferenced(k) = {}
  OBVIOUS
<1>8. (UNION {Unknown(i) : i \in DOMAIN c.nodes}) = {} <=> \A i \in DOMAIN c.nodes : Unknown(i) = {}
  OBVIOUS
<1> QED BY <1>1, <1>2, <1>3, <1>4, <1>5, <1>6, <1>7, <1>8, Zenon

LEMMA LabelsInOrder ==
  ASSUME NEW c, ValidateLabels(c) = {}, NEW i \in DOMAIN c.nodes, NEW key \in DOMAIN c.nodes[i].labels
  PROVE  LabelSyntax(c, i, key) = {} /\ LabelMeaning(c, i, key) = {} /\ c.nodes[i].labels[key] # Malformed
<1>1. ValidateLabel(c, i, key) = {}
  BY DEF ValidateLabels
<1>2. LabelSyntax(c, i, key) = {} /\ LabelMeaning(c, i, key) = {}
  BY <1>1 DEF ValidateLabel, Staged
<1> QED BY <1>2 DEF LabelSyntax, Diag

\* What holds of the interfaces of a node that resolves.
LEMMA ResolvesInOrder ==
  ASSUME NEW c, NEW i \in DOMAIN c.nodes, ResolveNode(c, i) = {}
  PROVE  /\ c.nodes[i].interfaces # <<>>
         /\ Cardinality({j \in DOMAIN c.nodes[i].interfaces : ResolveMode(c, c.nodes[i].interfaces[j]).primary}) = 1
         /\ \A j \in DOMAIN c.nodes[i].interfaces :
              /\ c.nodes[i].interfaces[j].slot # -1
              /\ ~\E k \in 1 .. j - 1 : c.nodes[i].interfaces[k].slot = c.nodes[i].interfaces[j].slot
              /\ InterfaceDiags(c, c.nodes[i].interfaces[j], <<i, j>>) = {}
<1> DEFINE ifaces == c.nodes[i].interfaces
           Early(j) == \E k \in 1 .. j - 1 : ifaces[k].slot = ifaces[j].slot
           Interface(j) ==
             Diag(ifaces[j].slot = -1, <<"Invalid network_interface label", <<i, j>>>>)
             \cup Diag(Early(j), <<"Duplicate network_interface label", <<i, j>>>>)
             \cup InterfaceDiags(c, ifaces[j], <<i, j>>)
           primaries == {j \in DOMAIN ifaces : ResolveMode(c, ifaces[j]).primary}
           all == UNION {Interface(j) : j \in DOMAIN ifaces}
           other == Diag(Cardinality(primaries) # 1, <<"Exactly one primary interface required", i>>)
<1>1. ResolveNode(c, i) = IF ifaces = <<>> THEN {<<"Missing network interface", i>>} ELSE Staged(all, other)
  BY Zenon DEF ResolveNode, Each
<1>2. \A j : Interface(j) = {} => ifaces[j].slot # -1 /\ ~Early(j) /\ InterfaceDiags(c, ifaces[j], <<i, j>>) = {}
  <2> HIDE DEF Early
  <2> QED BY DEF Diag
<1>3. other = {} => Cardinality(primaries) = 1
  <2> HIDE DEF primaries
  <2> QED BY DEF Diag
<1> HIDE DEF Interface, other
<1>4. all = {} => \A j \in DOMAIN ifaces : Interface(j) = {}
  OBVIOUS
<1> HIDE DEF all
<1>5. ifaces # <<>> /\ all = {} /\ other = {}
  BY <1>1 DEF Staged
<1> QED BY <1>2, <1>3, <1>4, <1>5

LEMMA InterfaceInOrder ==
  ASSUME NEW c, NEW iface, NEW at, InterfaceDiags(c, iface, at) = {}
  PROVE  /\ iface.mac # Malformed /\ ModeDiags(c, iface, at) = {}
         /\ ValidateAddress(ResolveMode(c, iface), iface.address, at) = {}
BY DEF InterfaceDiags, Diag, Staged

LEMMA DecodedPlane ==
  ASSUME NEW c, Decoded(c), NEW name \in Names(c.networks), \A k \in DOMAIN c.networks : ~Duplicate(c.networks, k)
  PROVE  \E k \in DOMAIN c.networks : c.networks[k].name = name /\ Plane(c, name) = c.networks[k]
<1> DEFINE n == Cardinality(DOMAIN c.networks)
<1>1. n \in Nat /\ DOMAIN c.networks = 1 .. n
  BY DEF Decoded, IsList
<1>2. PICK k \in DOMAIN c.networks : c.networks[k].name = name
  BY DEF Names
<1> HIDE DEF n
<1>3. ASSUME NEW l \in DOMAIN c.networks, c.networks[l].name = name PROVE l = k
  <2>1. ~(l < k) /\ ~(k < l)
    BY <1>1, <1>2, <1>3 DEF Duplicate
  <2> QED BY <1>1, <2>1
<1>4. \A l : l \in DOMAIN c.networks /\ c.networks[l].name = name
              /\ (\A m \in DOMAIN c.networks : c.networks[m].name = name => m <= l) <=> l = k
  BY <1>1, <1>2, <1>3
<1>5. (CHOOSE l \in DOMAIN c.networks :
         c.networks[l].name = name /\ \A m \in DOMAIN c.networks : c.networks[m].name = name => m <= l) = k
  BY <1>4
<1> QED BY <1>2, <1>5 DEF Plane

\* The rules about what neither a plane nor a cluster block has a say in.
SameBlocks(c, d) ==
  /\ d.pve = c.pve /\ d.storage = c.storage /\ d.acme = c.acme /\ d.endpoint = c.endpoint /\ d.booty = c.booty
  /\ DOMAIN d.nodes = DOMAIN c.nodes
  /\ \A i \in DOMAIN c.nodes :
       /\ d.nodes[i].role = c.nodes[i].role /\ d.nodes[i].pve_node = c.nodes[i].pve_node
       /\ d.nodes[i].vmid = c.nodes[i].vmid /\ d.nodes[i].storage = c.nodes[i].storage

LEMMA BlocksSame ==
  ASSUME NEW c, NEW d, SameBlocks(c, d)
  PROVE  /\ ValidatePVE(d) = ValidatePVE(c) /\ ValidateACME(d) = ValidateACME(c)
         /\ ValidateStorage(d) = ValidateStorage(c) /\ ValidateTalos(d) = ValidateTalos(c)
<1> USE DEF SameBlocks
<1>1. ValidatePVE(d) = ValidatePVE(c)
  <2> DEFINE PVE(pve) ==
        (UNION {Diag(pve[i].endpoint = Malformed, <<"Invalid pve node endpoint", i>>) : i \in DOMAIN pve})
        \cup Diag(Cardinality({i \in DOMAIN pve : pve[i].primary}) # 1, <<"Exactly one primary pve node required">>)
  <2>1. \A x : ValidatePVE(x) = PVE(x.pve)
    BY DEF ValidatePVE, Each
  <2> HIDE DEF PVE
  <2> QED BY <2>1
<1>2. ValidateACME(d) = ValidateACME(c)
  BY Zenon DEF ValidateACME
<1>3. ValidateStorage(d) = ValidateStorage(c)
  <2> DEFINE Storage(storage, pve) ==
        UNION {IF \E k \in 1 .. i - 1 : storage[k].name = storage[i].name THEN {<<"Duplicate storage name", i>>}
               ELSE Diag(storage[i].type = Unset, <<"Missing storage type", i>>)
                    \cup Diag(storage[i].type \in {"zfspool", "dir"} /\ storage[i].backing = Unset,
                              <<"Missing storage backing", i>>)
                    \cup {<<"Unknown storage node restriction", i, n>> : n \in storage[i].nodes \ Names(pve)} :
                 i \in DOMAIN storage}
             Undeclared(x, i) ==
               Diag(x.storage # <<>> /\ x.nodes[i].storage \notin Names(x.storage),
                    <<"Undeclared talos node storage", i>>)
  <2>1. \A x : ValidateStorage(x) = Storage(x.storage, x.pve) \cup UNION {Undeclared(x, i) : i \in DOMAIN x.nodes}
    BY Zenon DEF ValidateStorage, Each, Duplicate
  <2>2. \A i \in DOMAIN c.nodes : Undeclared(d, i) = Undeclared(c, i)
    BY Zenon
  <2> HIDE DEF Storage, Undeclared
  <2> QED BY <2>1, <2>2
<1>4. ValidateTalos(d) = ValidateTalos(c)
  <2>1. Names(d.pve) = Names(c.pve)
    OBVIOUS
  <2>2. \A i \in DOMAIN c.nodes : ValidateTalosNode(d, i) = ValidateTalosNode(c, i)
    BY <2>1, Zenon DEF ValidateTalosNode
  <2>3. UNION {ValidateTalosNode(d, i) : i \in DOMAIN d.nodes} = UNION {ValidateTalosNode(c, i) : i \in DOMAIN c.nodes}
    BY <2>2
  <2>4. (\A i \in DOMAIN d.nodes : d.nodes[i].role # "controlplane")
          = (\A i \in DOMAIN c.nodes : c.nodes[i].role # "controlplane")
    OBVIOUS
  <2> QED BY <2>3, <2>4, Zenon DEF ValidateTalos
<1> QED BY <1>1, <1>2, <1>3, <1>4
-----------------------------------------------------------------------------
(***************************************************************************)
(* Drafts: whatever an edit or a slip sets, the file stays one that        *)
(* decodes.                                                                *)
(***************************************************************************)
LEMMA ListReplaced ==
  ASSUME NEW s, IsList(s), NEW i, NEW value
  PROVE  IsList([s EXCEPT ![i] = value])
<1> DEFINE t == [s EXCEPT ![i] = value]
<1>1. DOMAIN s = 1 .. Cardinality(DOMAIN s) /\ Cardinality(DOMAIN s) \in Nat
  BY DEF IsList
<1>2. DOMAIN t = DOMAIN s /\ t = [k \in DOMAIN s |-> t[k]]
  OBVIOUS
<1> HIDE DEF t
<1>3. IsList(t)
  BY <1>1, <1>2 DEF IsList
<1> QED BY <1>3 DEF t

\* One block changed, the rest of the file left as it is.
LEMMA NodeReplaced ==
  ASSUME NEW c, Decoded(c), NEW i \in DOMAIN c.nodes, NEW node, DecodedNode(node)
  PROVE  LET d == [c EXCEPT !.nodes[i] = node]
         IN /\ Decoded(d) /\ \A block \in DOMAIN c \ {"nodes"} : d[block] = c[block]
            /\ DOMAIN d.nodes = DOMAIN c.nodes
            /\ \A k \in DOMAIN c.nodes : d.nodes[k] = IF k = i THEN node ELSE c.nodes[k]
<1> DEFINE d == [c EXCEPT !.nodes[i] = node]
<1>1. /\ DOMAIN d = DOMAIN c
      /\ d.nodes = [c.nodes EXCEPT ![i] = node]
      /\ \A block \in DOMAIN c \ {"nodes"} : d[block] = c[block]
      /\ d.networks = c.networks /\ d.profiles = c.profiles /\ d.cluster = c.cluster
  BY DEF Decoded
<1>2. /\ DOMAIN d.nodes = DOMAIN c.nodes
      /\ \A k \in DOMAIN c.nodes : d.nodes[k] = IF k = i THEN node ELSE c.nodes[k]
  BY <1>1
<1> HIDE DEF d
<1>3. IsList(d.nodes)
  BY <1>1, ListReplaced DEF Decoded
<1>4. Proper(d)
  BY <1>1 DEF Decoded, Proper
<1>5. Decoded(d)
  BY <1>1, <1>2, <1>3, <1>4 DEF Decoded
<1> QED BY <1>1, <1>2, <1>5 DEF d

With(block, attr, value) == [block EXCEPT ![attr] = value]
InterfaceWith(node, j, attr, value) == [node EXCEPT !.interfaces[j][attr] = value]

LEMMA InterfaceReplaced ==
  ASSUME NEW node, DecodedNode(node), NEW j \in DOMAIN node.interfaces, NEW attr, NEW value,
         attr \in {"slot", "network", "mac", "address"} \cup ModeAttrs
  PROVE  LET m == InterfaceWith(node, j, attr, value)
         IN /\ DecodedNode(m) /\ \A at \in DOMAIN node \ {"interfaces"} : m[at] = node[at]
            /\ DOMAIN m.interfaces = DOMAIN node.interfaces
            /\ \A k \in DOMAIN node.interfaces :
                 m.interfaces[k] = IF k = j THEN With(node.interfaces[j], attr, value) ELSE node.interfaces[k]
<1> DEFINE m == [node EXCEPT !.interfaces[j][attr] = value]
           iface == [node.interfaces[j] EXCEPT ![attr] = value]
<1>1. /\ DOMAIN m = DOMAIN node /\ \A at \in DOMAIN node \ {"interfaces"} : m[at] = node[at]
      /\ m.interfaces = [node.interfaces EXCEPT ![j] = iface]
  BY DEF DecodedNode
<1> HIDE DEF m, iface
<1>2. /\ DOMAIN m.interfaces = DOMAIN node.interfaces
      /\ \A k \in DOMAIN node.interfaces : m.interfaces[k] = IF k = j THEN iface ELSE node.interfaces[k]
  BY <1>1
<1>3. DOMAIN iface = DOMAIN node.interfaces[j]
  BY DEF iface
<1>4. IsList(m.interfaces)
  BY <1>1, ListReplaced DEF DecodedNode
<1>5. DecodedNode(m)
  BY <1>1, <1>2, <1>3, <1>4 DEF DecodedNode
<1> QED BY <1>1, <1>2, <1>5 DEF m, iface, InterfaceWith, With

LEMMA NetworkReplaced ==
  ASSUME NEW c, Decoded(c), NEW k \in DOMAIN c.networks, NEW attr \in ModeAttrs, NEW value
  PROVE  LET d == [c EXCEPT !.networks[k][attr] = value]
         IN /\ Proper(d) => Decoded(d)
            /\ \A block \in DOMAIN c \ {"networks"} : d[block] = c[block]
            /\ DOMAIN d.networks = DOMAIN c.networks
            /\ \A l \in DOMAIN c.networks :
                 d.networks[l] = IF l = k THEN [c.networks[k] EXCEPT ![attr] = value] ELSE c.networks[l]
<1> DEFINE d == [c EXCEPT !.networks[k][attr] = value]
           network == [c.networks[k] EXCEPT ![attr] = value]
<1>1. /\ DOMAIN d = DOMAIN c /\ d.networks = [c.networks EXCEPT ![k] = network]
      /\ \A block \in DOMAIN c \ {"networks"} : d[block] = c[block]
      /\ d.nodes = c.nodes /\ d.profiles = c.profiles /\ d.cluster = c.cluster
  BY DEF Decoded
<1> HIDE DEF d, network
<1>2. /\ DOMAIN d.networks = DOMAIN c.networks
      /\ \A l \in DOMAIN c.networks : d.networks[l] = IF l = k THEN network ELSE c.networks[l]
  BY <1>1
<1>3. DOMAIN network = DOMAIN c.networks[k]
  BY DEF network
<1>4. IsList(d.networks)
  <2>1. IsList(c.networks) /\ d.networks = [c.networks EXCEPT ![k] = network]
    BY <1>1 DEF Decoded
  <2> QED BY <2>1, ListReplaced
<1>5. Proper(d) => Decoded(d)
  BY <1>1, <1>2, <1>3, <1>4 DEF Decoded
<1> QED BY <1>1, <1>2, <1>5 DEF d, network

\* A file stays one that decodes, whatever its attributes are set to.
LEMMA EditDecoded ==
  ASSUME Decoded(draft), Edit
  PROVE  Decoded(draft')
<1>1. CASE NetworkEdit
  <2>1. PICK k \in DOMAIN draft.networks, attr \in ModeAttrs : \E value \in ModeValues[attr] :
          draft' = [draft EXCEPT !.networks[k][attr] = value]
    BY <1>1 DEF NetworkEdit
  <2>2. PICK value \in ModeValues[attr] : draft' = [draft EXCEPT !.networks[k][attr] = value]
    BY <2>1
  <2>3. Proper(draft')
    BY DEF Edit
  <2> QED BY <2>2, <2>3, NetworkReplaced
<1>2. CASE ClusterEdit
  <2>1. PICK cluster \in Clusters : draft' = [draft EXCEPT !.cluster = cluster]
    BY <1>2 DEF ClusterEdit
  <2>2. /\ DOMAIN draft' = DOMAIN draft /\ draft'.cluster = cluster
        /\ draft'.networks = draft.networks /\ draft'.profiles = draft.profiles /\ draft'.nodes = draft.nodes
    BY <2>1 DEF Decoded
  <2> QED BY <2>2, DraftingAssumption DEF Decoded, Proper
<1>3. ASSUME NEW i \in DOMAIN draft.nodes, InterfaceEdit(i)
      PROVE  Decoded(draft')
  <2>1. PICK j \in DOMAIN draft.nodes[i].interfaces, attr \in ModeAttrs \cup {"address", "network"} :
          \E value : draft' = [draft EXCEPT !.nodes[i].interfaces[j][attr] = value]
    BY <1>3 DEF InterfaceEdit
  <2>2. PICK value : draft' = [draft EXCEPT !.nodes[i].interfaces[j][attr] = value]
    BY <2>1
  <2> DEFINE node == [draft.nodes[i] EXCEPT !.interfaces[j][attr] = value]
  <2>3. draft' = [draft EXCEPT !.nodes[i] = node]
    BY <2>2
  <2>4. DecodedNode(node)
    <3>1. DecodedNode(draft.nodes[i])
      BY DEF Decoded
    <3>2. attr \in {"slot", "network", "mac", "address"} \cup ModeAttrs
      BY <2>1
    <3> HIDE DEF node
    <3> QED BY <3>1, <3>2, InterfaceReplaced DEF node, InterfaceWith
  <2> HIDE DEF node
  <2> QED BY <2>3, <2>4, NodeReplaced
<1>4. ASSUME NEW i \in DOMAIN draft.nodes, NodeEdit(i)
      PROVE  Decoded(draft')
  <2>1. PICK attr \in {"role", "profiles", "labels"} : \E value : draft' = [draft EXCEPT !.nodes[i][attr] = value]
    BY <1>4 DEF NodeEdit
  <2>2. PICK value : draft' = [draft EXCEPT !.nodes[i][attr] = value]
    BY <2>1
  <2> DEFINE node == [draft.nodes[i] EXCEPT ![attr] = value]
  <2>3. draft' = [draft EXCEPT !.nodes[i] = node]
    BY <2>2
  <2>4. DecodedNode(node)
    BY DEF Decoded, DecodedNode
  <2> HIDE DEF node
  <2> QED BY <2>3, <2>4, NodeReplaced
<1> QED BY <1>1, <1>2, <1>3, <1>4 DEF Edit

(***************************************************************************)
(* Slips.  What a mistake changes, and where the values are that are wrong *)
(* in themselves, each with the one diagnostic it may bring.               *)
(***************************************************************************)
Worn(a, b, attrs) == \A attr \in attrs : b[attr] = a[attr] \/ (a[attr] # Unset /\ b[attr] = Bad[attr])
Same(a, b, attrs) == \A attr \in attrs : b[attr] = a[attr]

WornPin(a, b) ==
  \/ b = a
  \/ /\ a # Unset /\ b # Unset
     /\ b.v \in {a.v, FALSE} /\ b.release \in {a.release, Malformed}
WornCluster(a, b) ==
  /\ b = Unset <=> a = Unset
  /\ a # Unset => /\ b.cni = a.cni
                  /\ b.cilium = Unset <=> a.cilium = Unset
                  /\ a.cilium # Unset => /\ Same(a.cilium, b.cilium, {"version", "values"})
                                         /\ WornPin(a.cilium.gateway, b.cilium.gateway)
WornNetworks(a, b) ==
  /\ DOMAIN b = DOMAIN a
  /\ \A k \in DOMAIN a : Same(a[k], b[k], {"name", "dhcp", "primary"}) /\ Worn(a[k], b[k], {"vlan", "mtu", "cidr"})
WornProfiles(a, b) ==
  /\ DOMAIN b = DOMAIN a
  /\ \A k \in DOMAIN a : /\ b[k].name = a[k].name
                         /\ b[k].extensions \in {a[k].extensions, a[k].extensions \cup {Malformed}}
WornNode(a, b) ==
  /\ Same(a, b, {"name", "role", "pve_node", "vmid", "storage", "profiles"})
  /\ DOMAIN b.labels = DOMAIN a.labels
  /\ \A key \in DOMAIN a.labels : b.labels[key] \in {a.labels[key], Malformed}
  /\ DOMAIN b.interfaces = DOMAIN a.interfaces
  /\ \A j \in DOMAIN a.interfaces :
       /\ Same(a.interfaces[j], b.interfaces[j], {"slot", "network", "dhcp", "primary"})
       /\ Worn(a.interfaces[j], b.interfaces[j], DOMAIN Bad)
Slipped(a, b) ==
  /\ Same(a, b, {"name", "pve", "storage", "acme", "endpoint", "booty", "schematic"})
  /\ WornCluster(a.cluster, b.cluster)
  /\ WornNetworks(a.networks, b.networks) /\ WornProfiles(a.profiles, b.profiles)
  /\ DOMAIN b.nodes = DOMAIN a.nodes /\ \A i \in DOMAIN a.nodes : WornNode(a.nodes[i], b.nodes[i])

NetworkWrong == [vlan |-> "Invalid network vlan", mtu |-> "Invalid network mtu", cidr |-> "Invalid network cidr"]
InterfaceWrong ==
  [vlan |-> "Invalid network_interface vlan", mtu |-> "Invalid network_interface mtu",
   cidr |-> "Invalid network_interface cidr", address |-> "Invalid network_interface address",
   mac |-> "Invalid network_interface mac"]

NetworkFaults(c, k) ==
  {<<NetworkWrong[attr], k>> : attr \in {attr \in {"vlan", "mtu", "cidr"} : c.networks[k][attr] = Bad[attr]}}
InterfaceFaults(c, i, j) ==
  {<<InterfaceWrong[attr], <<i, j>>>> :
     attr \in {attr \in DOMAIN Bad : c.nodes[i].interfaces[j][attr] = Bad[attr]}}
LabelFaults(c, i) ==
  {<<"Invalid label value", i, key>> : key \in {key \in DOMAIN c.nodes[i].labels : c.nodes[i].labels[key] = Malformed}}
ProfileFaults(c, k) == Diag(Malformed \in c.profiles[k].extensions, <<"Invalid extension name", k>>)
PinFaults(cluster) ==
  IF cluster = Unset \/ cluster.cilium = Unset \/ cluster.cilium.gateway = Unset THEN {}
  ELSE IF ~cluster.cilium.gateway.v THEN {<<"Unprefixed version pin", "gateway">>}
  ELSE Diag(cluster.cilium.gateway.release = Malformed, <<"Invalid gateway_api_version">>)
Faults(c) ==
  (UNION {NetworkFaults(c, k) : k \in DOMAIN c.networks})
  \cup (UNION {ProfileFaults(c, k) : k \in DOMAIN c.profiles}) \cup PinFaults(c.cluster)
  \cup (UNION {LabelFaults(c, i) : i \in DOMAIN c.nodes})
  \cup (UNION {UNION {InterfaceFaults(c, i, j) : j \in DOMAIN c.nodes[i].interfaces} : i \in DOMAIN c.nodes})

LEMMA SlippedNotAtAll == ASSUME NEW c PROVE Slipped(c, c)
<1>1. \A f, attrs : Same(f, f, attrs) /\ Worn(f, f, attrs)
  BY DEF Same, Worn
<1>2. \A f : WornNode(f, f)
  BY <1>1 DEF WornNode
<1>3. WornNetworks(c.networks, c.networks) /\ WornProfiles(c.profiles, c.profiles)
  BY <1>1 DEF WornNetworks, WornProfiles
<1>4. WornCluster(c.cluster, c.cluster)
  BY <1>1 DEF WornCluster, WornPin
<1> QED BY <1>1, <1>2, <1>3, <1>4 DEF Slipped

LEMMA SlippedOn ==
  ASSUME NEW a, NEW b, NEW d, Slipped(a, b), Slipped(b, d)
  PROVE  Slipped(a, d)
<1>1. ASSUME NEW f, NEW g, NEW h, NEW attrs, Worn(f, g, attrs), Worn(g, h, attrs)
      PROVE  Worn(f, h, attrs)
  BY <1>1 DEF Worn
<1>2. ASSUME NEW f, NEW g, NEW h, NEW attrs, Same(f, g, attrs), Same(g, h, attrs)
      PROVE  Same(f, h, attrs)
  BY <1>2 DEF Same
<1>3. WornCluster(a.cluster, d.cluster)
  <2>1. WornCluster(a.cluster, b.cluster) /\ WornCluster(b.cluster, d.cluster)
    BY DEF Slipped
  <2>2. \A f, g, h : WornPin(f, g) /\ WornPin(g, h) => WornPin(f, h)
    BY DEF WornPin
  <2> QED BY <1>2, <2>1, <2>2 DEF WornCluster
<1>4. WornNetworks(a.networks, d.networks)
  BY <1>1, <1>2 DEF Slipped, WornNetworks
<1>5. WornProfiles(a.profiles, d.profiles)
  <2>1. WornProfiles(a.profiles, b.profiles) /\ WornProfiles(b.profiles, d.profiles)
    BY DEF Slipped
  <2> QED BY <2>1 DEF WornProfiles
<1>6. ASSUME NEW f, NEW g, NEW h, WornNode(f, g), WornNode(g, h) PROVE WornNode(f, h)
  <2>1. Same(f, h, {"name", "role", "pve_node", "vmid", "storage", "profiles"})
    BY <1>2, <1>6 DEF WornNode
  <2>2. DOMAIN h.labels = DOMAIN f.labels /\ \A key \in DOMAIN f.labels : h.labels[key] \in {f.labels[key], Malformed}
    BY <1>6 DEF WornNode
  <2>3. DOMAIN h.interfaces = DOMAIN f.interfaces
    BY <1>6 DEF WornNode
  <2>4. ASSUME NEW j \in DOMAIN f.interfaces
        PROVE  /\ Same(f.interfaces[j], h.interfaces[j], {"slot", "network", "dhcp", "primary"})
               /\ Worn(f.interfaces[j], h.interfaces[j], DOMAIN Bad)
    <3>1. /\ Same(f.interfaces[j], g.interfaces[j], {"slot", "network", "dhcp", "primary"})
          /\ Worn(f.interfaces[j], g.interfaces[j], DOMAIN Bad)
          /\ Same(g.interfaces[j], h.interfaces[j], {"slot", "network", "dhcp", "primary"})
          /\ Worn(g.interfaces[j], h.interfaces[j], DOMAIN Bad)
      BY <1>6 DEF WornNode
    <3> QED BY <1>1, <1>2, <3>1
  <2> QED BY <2>1, <2>2, <2>3, <2>4 DEF WornNode
<1>7. DOMAIN d.nodes = DOMAIN a.nodes /\ \A i \in DOMAIN a.nodes : WornNode(a.nodes[i], d.nodes[i])
  BY <1>6 DEF Slipped
<1>8. Same(a, d, {"name", "pve", "storage", "acme", "endpoint", "booty", "schematic"})
  BY <1>2 DEF Slipped
<1> QED BY <1>3, <1>4, <1>5, <1>7, <1>8 DEF Slipped

LEMMA FaultsGrow ==
  ASSUME NEW c, NEW d, NEW x,
         DOMAIN d.networks = DOMAIN c.networks, DOMAIN d.profiles = DOMAIN c.profiles, DOMAIN d.nodes = DOMAIN c.nodes,
         \A i \in DOMAIN c.nodes : DOMAIN d.nodes[i].interfaces = DOMAIN c.nodes[i].interfaces,
         \A k \in DOMAIN c.networks : NetworkFaults(d, k) \subseteq NetworkFaults(c, k) \cup {x},
         \A k \in DOMAIN c.profiles : ProfileFaults(d, k) \subseteq ProfileFaults(c, k) \cup {x},
         PinFaults(d.cluster) \subseteq PinFaults(c.cluster) \cup {x},
         \A i \in DOMAIN c.nodes : LabelFaults(d, i) \subseteq LabelFaults(c, i) \cup {x},
         \A i \in DOMAIN c.nodes : \A j \in DOMAIN c.nodes[i].interfaces :
           InterfaceFaults(d, i, j) \subseteq InterfaceFaults(c, i, j) \cup {x}
  PROVE  Faults(d) \subseteq Faults(c) \cup {x}
<1> SUFFICES ASSUME NEW y \in Faults(d), y # x PROVE y \in Faults(c)
  OBVIOUS
<1>1. CASE \E k \in DOMAIN d.networks : y \in NetworkFaults(d, k)
  BY <1>1 DEF Faults
<1>2. CASE \E k \in DOMAIN d.profiles : y \in ProfileFaults(d, k)
  BY <1>2 DEF Faults
<1>3. CASE y \in PinFaults(d.cluster)
  BY <1>3 DEF Faults
<1>4. CASE \E i \in DOMAIN d.nodes : y \in LabelFaults(d, i)
  BY <1>4 DEF Faults
<1>5. CASE \E i \in DOMAIN d.nodes : \E j \in DOMAIN d.nodes[i].interfaces : y \in InterfaceFaults(d, i, j)
  <2>1. PICK i \in DOMAIN c.nodes : \E j \in DOMAIN c.nodes[i].interfaces : y \in InterfaceFaults(c, i, j)
    BY <1>5
  <2> QED BY <2>1 DEF Faults
<1> QED BY <1>1, <1>2, <1>3, <1>4, <1>5 DEF Faults

\* What a step to d adds to c: one fault and nothing else.
OneFault(c, d) ==
  /\ Decoded(d) /\ Slipped(c, d)
  /\ \E x : x \in Faults(d) /\ Faults(d) \subseteq Faults(c) \cup {x}

LEMMA BadValues ==
  /\ DOMAIN Bad = {"vlan", "mtu", "cidr", "address", "mac"}
  /\ \A attr \in DOMAIN Bad : Bad[attr] # Unset
  /\ InvalidVLAN(Bad.vlan) /\ InvalidMTU(Bad.mtu)
  /\ Bad.cidr = Malformed /\ Bad.address = Malformed /\ Bad.mac = Malformed /\ Malformed # Unset
<1>1. Unset \notin Int /\ Unset # Malformed
  BY ConfigAssumption
<1>2. InvalidVLAN(4095)
  BY DEF InvalidVLAN
<1>3. InvalidMTU(575)
  BY DEF InvalidMTU
<1>4. Bad.vlan = 4095 /\ Bad.mtu = 575
  BY DEF Bad
<1>5. InvalidVLAN(Bad.vlan) /\ InvalidMTU(Bad.mtu)
  BY <1>2, <1>3, <1>4
<1> QED BY <1>1, <1>5 DEF Bad

LEMMA NetworkSlipEffect ==
  ASSUME Decoded(draft), NetworkSlip
  PROVE  OneFault(draft, draft')
<1> DEFINE c == draft
           d == draft'
<1>1. PICK k \in DOMAIN c.networks, attr \in {"vlan", "mtu", "cidr"} :
        c.networks[k][attr] # Unset /\ d = [c EXCEPT !.networks[k][attr] = Bad[attr]]
  BY DEF NetworkSlip, Breakable
<1> DEFINE network == [c.networks[k] EXCEPT ![attr] = Bad[attr]]
           x == <<NetworkWrong[attr], k>>
<1>2. /\ Proper(d) => Decoded(d)
      /\ \A block \in DOMAIN c \ {"networks"} : d[block] = c[block]
      /\ DOMAIN d.networks = DOMAIN c.networks
      /\ \A l \in DOMAIN c.networks : d.networks[l] = IF l = k THEN network ELSE c.networks[l]
  BY <1>1, NetworkReplaced DEF ModeAttrs
<1>3. /\ network[attr] = Bad[attr]
      /\ \A at \in ({"name"} \cup ModeAttrs) \ {attr} : network[at] = c.networks[k][at]
  BY <1>1 DEF Decoded, ModeAttrs
<1>4. /\ d.profiles = c.profiles /\ d.nodes = c.nodes /\ d.cluster = c.cluster
      /\ Same(c, d, {"name", "pve", "storage", "acme", "endpoint", "booty", "schematic"})
  BY <1>2 DEF Decoded, Same
<1> HIDE DEF c, d, network
<1>5. Proper(d)
  BY <1>1, <1>2, <1>3, BadValues DEF Decoded, Proper, ModeAttrs, c
<1>6. Slipped(c, d)
  <2>1. Slipped(c, c)
    BY SlippedNotAtAll
  <2>2. Same(c.networks[k], network, {"name", "dhcp", "primary"}) /\ Worn(c.networks[k], network, {"vlan", "mtu", "cidr"})
    BY <1>1, <1>3 DEF Same, Worn, ModeAttrs
  <2>3. WornNetworks(c.networks, d.networks)
    BY <1>2, <2>1, <2>2 DEF WornNetworks, Slipped
  <2> QED BY <1>4, <2>1, <2>3 DEF Slipped
<1>7. x \in NetworkFaults(d, k)
  <2>1. d.networks[k][attr] = Bad[attr] /\ attr \in {at \in {"vlan", "mtu", "cidr"} : d.networks[k][at] = Bad[at]}
    BY <1>1, <1>2, <1>3 DEF c
  <2> QED BY <2>1, Zenon DEF NetworkFaults
<1>8. Faults(d) \subseteq Faults(c) \cup {x}
  <2>1. ASSUME NEW l \in DOMAIN c.networks PROVE NetworkFaults(d, l) \subseteq NetworkFaults(c, l) \cup {x}
    BY <1>1, <1>2, <1>3 DEF NetworkFaults, ModeAttrs
  <2>2. \A l : ProfileFaults(d, l) = ProfileFaults(c, l) /\ LabelFaults(d, l) = LabelFaults(c, l)
    BY <1>4, Zenon DEF ProfileFaults, LabelFaults
  <2>3. \A i, j : InterfaceFaults(d, i, j) = InterfaceFaults(c, i, j)
    BY <1>4, Zenon DEF InterfaceFaults
  <2> HIDE DEF x
  <2> QED BY <1>2, <1>4, <2>1, <2>2, <2>3, FaultsGrow
<1>9. x \in Faults(d)
  BY <1>2, <1>7 DEF Faults
<1> QED BY <1>2, <1>5, <1>6, <1>8, <1>9 DEF OneFault, c, d

LEMMA ProfileSlipEffect ==
  ASSUME Decoded(draft), ProfileSlip
  PROVE  OneFault(draft, draft')
<1> DEFINE c == draft
           d == draft'
<1>1. PICK k \in DOMAIN c.profiles : d = [c EXCEPT !.profiles[k].extensions = @ \cup {Malformed}]
  BY DEF ProfileSlip
<1> DEFINE profile == [c.profiles[k] EXCEPT !.extensions = @ \cup {Malformed}]
           x == <<"Invalid extension name", k>>
<1>2. /\ DOMAIN d = DOMAIN c /\ d.profiles = [c.profiles EXCEPT ![k] = profile]
      /\ \A block \in DOMAIN c \ {"profiles"} : d[block] = c[block]
      /\ d.networks = c.networks /\ d.nodes = c.nodes /\ d.cluster = c.cluster
  BY <1>1 DEF Decoded
<1>3. /\ DOMAIN profile = DOMAIN c.profiles[k] /\ profile.name = c.profiles[k].name
      /\ profile.extensions = c.profiles[k].extensions \cup {Malformed}
  BY DEF Decoded
<1> HIDE DEF c, d, profile
<1>4. /\ DOMAIN d.profiles = DOMAIN c.profiles
      /\ \A l \in DOMAIN c.profiles : d.profiles[l] = IF l = k THEN profile ELSE c.profiles[l]
  BY <1>2
<1>5. Decoded(d)
  <2>1. IsList(d.profiles)
    BY <1>2, ListReplaced DEF Decoded, c
  <2> QED BY <1>2, <1>3, <1>4, <2>1 DEF Decoded, Proper, c
<1>6. Slipped(c, d)
  <2>1. Slipped(c, c)
    BY SlippedNotAtAll
  <2>2. WornProfiles(c.profiles, d.profiles)
    BY <1>3, <1>4 DEF WornProfiles
  <2>3. Same(c, d, {"name", "pve", "storage", "acme", "endpoint", "booty", "schematic"})
    BY <1>2 DEF Decoded, Same, c
  <2> QED BY <1>2, <2>1, <2>2, <2>3 DEF Slipped
<1>7. x \in ProfileFaults(d, k)
  BY <1>3, <1>4 DEF ProfileFaults, Diag
<1>8. Faults(d) \subseteq Faults(c) \cup {x}
  <2>1. ASSUME NEW l \in DOMAIN c.profiles PROVE ProfileFaults(d, l) \subseteq ProfileFaults(c, l) \cup {x}
    BY <1>3, <1>4 DEF ProfileFaults, Diag
  <2>2. \A l : NetworkFaults(d, l) = NetworkFaults(c, l) /\ LabelFaults(d, l) = LabelFaults(c, l)
    BY <1>2, Zenon DEF NetworkFaults, LabelFaults
  <2>3. \A i, j : InterfaceFaults(d, i, j) = InterfaceFaults(c, i, j)
    BY <1>2, Zenon DEF InterfaceFaults
  <2> HIDE DEF x
  <2> QED BY <1>2, <1>4, <2>1, <2>2, <2>3, FaultsGrow
<1>9. x \in Faults(d)
  BY <1>4, <1>7 DEF Faults
<1> QED BY <1>5, <1>6, <1>8, <1>9 DEF OneFault, c, d

LEMMA NodeSlipEffect ==
  ASSUME NEW c, Decoded(c), NEW i \in DOMAIN c.nodes, NEW node, DecodedNode(node), WornNode(c.nodes[i], node),
         NEW d, Decoded(d), \A block \in DOMAIN c \ {"nodes"} : d[block] = c[block],
         DOMAIN d.nodes = DOMAIN c.nodes, \A k \in DOMAIN c.nodes : d.nodes[k] = IF k = i THEN node ELSE c.nodes[k],
         NEW x,
         LabelFaults(d, i) \subseteq LabelFaults(c, i) \cup {x},
         \A j \in DOMAIN node.interfaces : InterfaceFaults(d, i, j) \subseteq InterfaceFaults(c, i, j) \cup {x},
         x \in LabelFaults(d, i) \/ \E j \in DOMAIN node.interfaces : x \in InterfaceFaults(d, i, j)
  PROVE  OneFault(c, d)
<1>1. /\ Decoded(d) /\ \A block \in DOMAIN c \ {"nodes"} : d[block] = c[block]
      /\ DOMAIN d.nodes = DOMAIN c.nodes
      /\ \A k \in DOMAIN c.nodes : d.nodes[k] = IF k = i THEN node ELSE c.nodes[k]
  OBVIOUS
<1>2. /\ d.networks = c.networks /\ d.profiles = c.profiles /\ d.cluster = c.cluster
      /\ Same(c, d, {"name", "pve", "storage", "acme", "endpoint", "booty", "schematic"})
  BY <1>1 DEF Decoded, Same
<1>3. Slipped(c, d)
  <2>1. Slipped(c, c)
    BY SlippedNotAtAll
  <2> QED BY <1>1, <1>2, <2>1 DEF Slipped
<1>4. Faults(d) \subseteq Faults(c) \cup {x}
  <2>1. \A k : NetworkFaults(d, k) = NetworkFaults(c, k) /\ ProfileFaults(d, k) = ProfileFaults(c, k)
    BY <1>2, Zenon DEF NetworkFaults, ProfileFaults
  <2>2. \A k \in DOMAIN c.nodes \ {i} : d.nodes[k] = c.nodes[k]
    BY <1>1
  <2>3. \A k \in DOMAIN c.nodes \ {i} :
          LabelFaults(d, k) = LabelFaults(c, k) /\ \A j : InterfaceFaults(d, k, j) = InterfaceFaults(c, k, j)
    BY <2>2, Zenon DEF LabelFaults, InterfaceFaults
  <2>4. \A k \in DOMAIN c.nodes : DOMAIN d.nodes[k].interfaces = DOMAIN c.nodes[k].interfaces
    BY <1>1 DEF WornNode
  <2>5. DOMAIN node.interfaces = DOMAIN c.nodes[i].interfaces
    BY DEF WornNode
  <2>6. \A k \in DOMAIN c.nodes : LabelFaults(d, k) \subseteq LabelFaults(c, k) \cup {x}
    BY <2>3
  <2>7. \A k \in DOMAIN c.nodes : \A j \in DOMAIN c.nodes[k].interfaces :
          InterfaceFaults(d, k, j) \subseteq InterfaceFaults(c, k, j) \cup {x}
    BY <2>3, <2>5
  <2>8. /\ DOMAIN d.networks = DOMAIN c.networks /\ DOMAIN d.profiles = DOMAIN c.profiles
        /\ DOMAIN d.nodes = DOMAIN c.nodes /\ PinFaults(d.cluster) = PinFaults(c.cluster)
    BY <1>1, <1>2, Zenon
  <2>9. /\ \A k : NetworkFaults(d, k) \subseteq NetworkFaults(c, k) \cup {x}
        /\ \A k : ProfileFaults(d, k) \subseteq ProfileFaults(c, k) \cup {x}
        /\ PinFaults(d.cluster) \subseteq PinFaults(c.cluster) \cup {x}
    BY <2>1, <2>8
  <2> QED BY <2>4, <2>6, <2>7, <2>8, <2>9, FaultsGrow, Zenon
<1>5. x \in Faults(d)
  <2>1. CASE x \in LabelFaults(d, i)
    BY <1>1, <2>1 DEF Faults
  <2>2. CASE \E j \in DOMAIN node.interfaces : x \in InterfaceFaults(d, i, j)
    <3>1. x \in UNION {InterfaceFaults(d, i, j) : j \in DOMAIN d.nodes[i].interfaces}
      BY <1>1, <2>2
    <3> QED BY <1>1, <3>1 DEF Faults
  <2> QED BY <2>1, <2>2
<1> QED BY <1>1, <1>3, <1>4, <1>5 DEF OneFault

LEMMA LabelSlipEffect ==
  ASSUME Decoded(draft), NEW i \in DOMAIN draft.nodes, LabelSlip(i)
  PROVE  OneFault(draft, draft')
<1>1. PICK key \in DOMAIN draft.nodes[i].labels : draft' = [draft EXCEPT !.nodes[i].labels[key] = Malformed]
  BY DEF LabelSlip
<1> DEFINE n == draft.nodes[i]
           node == [n EXCEPT !.labels[key] = Malformed]
           x == <<"Invalid label value", i, key>>
<1>2. draft' = [draft EXCEPT !.nodes[i] = node]
  BY <1>1
<1>3. DecodedNode(n)
  BY DEF Decoded
<1>4. /\ DOMAIN node = DOMAIN n /\ \A at \in DOMAIN n \ {"labels"} : node[at] = n[at]
      /\ DOMAIN node.labels = DOMAIN n.labels
      /\ \A k \in DOMAIN n.labels : node.labels[k] = IF k = key THEN Malformed ELSE n.labels[k]
  BY <1>3 DEF DecodedNode
<1>5. /\ node.interfaces = n.interfaces
      /\ Same(n, node, {"name", "role", "pve_node", "vmid", "storage", "profiles"})
  BY <1>3, <1>4 DEF DecodedNode, Same
<1>6. draft'.nodes[i] = node
  BY <1>2 DEF Decoded
<1> HIDE DEF node
<1>7. DecodedNode(node) /\ WornNode(n, node)
  BY <1>3, <1>4, <1>5 DEF DecodedNode, WornNode, Worn, Same
<1>8. \A j : InterfaceFaults(draft', i, j) = InterfaceFaults(draft, i, j)
  BY <1>5, <1>6, Zenon DEF InterfaceFaults
<1>9. LabelFaults(draft', i) \subseteq LabelFaults(draft, i) \cup {x} /\ x \in LabelFaults(draft', i)
  <2> HIDE DEF n
  <2>1. LabelFaults(draft', i) = {<<"Invalid label value", i, k>> : k \in {k \in DOMAIN node.labels : node.labels[k] = Malformed}}
    BY <1>6, Zenon DEF LabelFaults
  <2>2. LabelFaults(draft, i) = {<<"Invalid label value", i, k>> : k \in {k \in DOMAIN n.labels : n.labels[k] = Malformed}}
    BY Zenon DEF LabelFaults, n
  <2> QED BY <1>1, <1>4, <2>1, <2>2 DEF n
<1> HIDE DEF x, n
<1>10. WornNode(draft.nodes[i], node)
  BY <1>7 DEF n
<1>11. /\ Decoded(draft') /\ \A block \in DOMAIN draft \ {"nodes"} : draft'[block] = draft[block]
      /\ DOMAIN draft'.nodes = DOMAIN draft.nodes
      /\ \A k \in DOMAIN draft.nodes : draft'.nodes[k] = IF k = i THEN node ELSE draft.nodes[k]
  BY <1>2, <1>7, NodeReplaced
<1> QED BY <1>5, <1>7, <1>8, <1>9, <1>10, <1>11, NodeSlipEffect

LEMMA InterfaceSlipEffect ==
  ASSUME Decoded(draft), NEW i \in DOMAIN draft.nodes, InterfaceSlip(i)
  PROVE  OneFault(draft, draft')
<1>1. PICK j \in DOMAIN draft.nodes[i].interfaces, attr \in DOMAIN Bad :
        /\ draft.nodes[i].interfaces[j][attr] # Unset
        /\ draft' = [draft EXCEPT !.nodes[i].interfaces[j][attr] = Bad[attr]]
  BY DEF InterfaceSlip, Breakable
<1> DEFINE n == draft.nodes[i]
           node == InterfaceWith(n, j, attr, Bad[attr])
           iface == With(n.interfaces[j], attr, Bad[attr])
           x == <<InterfaceWrong[attr], <<i, j>>>>
<1>2. draft' = [draft EXCEPT !.nodes[i] = node]
  BY <1>1 DEF InterfaceWith
<1>3. DecodedNode(n)
  BY DEF Decoded
<1>4. attr \in {"slot", "network", "mac", "address"} \cup ModeAttrs
  BY BadValues DEF ModeAttrs
<1>5. draft'.nodes[i] = node
  BY <1>2 DEF Decoded
<1>6. /\ DecodedNode(node) /\ \A at \in DOMAIN n \ {"interfaces"} : node[at] = n[at]
      /\ DOMAIN node.interfaces = DOMAIN n.interfaces
      /\ \A k \in DOMAIN n.interfaces : node.interfaces[k] = IF k = j THEN iface ELSE n.interfaces[k]
  <2> HIDE DEF n
  <2>1. j \in DOMAIN n.interfaces
    BY DEF n
  <2> QED BY <1>3, <1>4, <2>1, InterfaceReplaced
<1>7. /\ iface[attr] = Bad[attr]
      /\ \A at \in ({"slot", "network", "mac", "address"} \cup ModeAttrs) \ {attr} : iface[at] = n.interfaces[j][at]
  BY <1>3, <1>4 DEF DecodedNode, ModeAttrs, With
<1> HIDE DEF node, iface
<1>8. WornNode(n, node)
  <2>1. /\ Same(n, node, {"name", "role", "pve_node", "vmid", "storage", "profiles"})
        /\ node.labels = n.labels
    BY <1>3, <1>6 DEF DecodedNode, Same
  <2>2. Same(n.interfaces[j], iface, {"slot", "network", "dhcp", "primary"})
    BY <1>7, BadValues DEF Same, ModeAttrs
  <2>3. Worn(n.interfaces[j], iface, DOMAIN Bad)
    BY <1>1, <1>7, BadValues DEF Worn, ModeAttrs
  <2> QED BY <1>6, <2>1, <2>2, <2>3 DEF WornNode, Same, Worn
<1>9. LabelFaults(draft', i) = LabelFaults(draft, i)
  <2>1. draft'.nodes[i].labels = draft.nodes[i].labels
    BY <1>3, <1>5, <1>6 DEF DecodedNode
  <2> QED BY <2>1, Zenon DEF LabelFaults
<1>10. ASSUME NEW k \in DOMAIN node.interfaces
       PROVE  InterfaceFaults(draft', i, k) \subseteq InterfaceFaults(draft, i, k) \cup {x}
  <2>1. CASE k = j
    <3>1. ASSUME NEW at \in DOMAIN Bad, at # attr, iface[at] = Bad[at] PROVE n.interfaces[j][at] = Bad[at]
      BY <1>7, <3>1, BadValues DEF ModeAttrs
    <3>2. draft'.nodes[i].interfaces[k] = iface /\ draft.nodes[i].interfaces[k] = n.interfaces[j]
      BY <1>5, <1>6, <2>1
    <3> QED BY <2>1, <3>1, <3>2 DEF InterfaceFaults
  <2>2. CASE k # j
    <3>1. draft'.nodes[i].interfaces[k] = draft.nodes[i].interfaces[k]
      BY <1>5, <1>6, <2>2
    <3> QED BY <3>1, Zenon DEF InterfaceFaults
  <2> QED BY <2>1, <2>2
<1>11. x \in InterfaceFaults(draft', i, j)
  <2>1. draft'.nodes[i].interfaces[j][attr] = Bad[attr]
        /\ attr \in {at \in DOMAIN Bad : draft'.nodes[i].interfaces[j][at] = Bad[at]}
    BY <1>1, <1>5, <1>6, <1>7
  <2> QED BY <2>1, Zenon DEF InterfaceFaults
<1>12. WornNode(draft.nodes[i], node) /\ j \in DOMAIN node.interfaces
  BY <1>1, <1>6, <1>8
<1> HIDE DEF x, n
<1>13. /\ Decoded(draft') /\ \A block \in DOMAIN draft \ {"nodes"} : draft'[block] = draft[block]
      /\ DOMAIN draft'.nodes = DOMAIN draft.nodes
      /\ \A k \in DOMAIN draft.nodes : draft'.nodes[k] = IF k = i THEN node ELSE draft.nodes[k]
  BY <1>2, <1>6, NodeReplaced
<1> QED BY <1>6, <1>9, <1>10, <1>11, <1>12, <1>13, NodeSlipEffect

LEMMA PinReplaced ==
  ASSUME NEW cluster \in TalosCluster, cluster.cilium # Unset, NEW pin \in VersionPin
  PROVE  LET other == [cluster EXCEPT !.cilium = [cluster.cilium EXCEPT !.gateway = pin]]
         IN /\ other \in TalosCluster /\ other # Unset /\ other.cni = cluster.cni
            /\ other.cilium # Unset /\ other.cilium.gateway = pin
            /\ other.cilium.version = cluster.cilium.version /\ other.cilium.values = cluster.cilium.values
<1> DEFINE config == [cluster.cilium EXCEPT !.gateway = pin]
           other == [cluster EXCEPT !.cilium = config]
<1>1. cluster.cilium \in CiliumConfig /\ cluster.cni \in STRING \cup {Unset}
  BY DEF TalosCluster
<1>2. /\ config \in CiliumConfig /\ config.gateway = pin
      /\ config.version = cluster.cilium.version /\ config.values = cluster.cilium.values
  BY <1>1 DEF CiliumConfig
<1>3. config # Unset
  BY <1>2, ConfigAssumption
<1> HIDE DEF config
<1>4. other \in TalosCluster /\ other.cilium = config /\ other.cni = cluster.cni
  BY <1>2 DEF TalosCluster
<1>5. other # Unset
  BY <1>4, ConfigAssumption
<1> HIDE DEF other
<1> QED BY <1>2, <1>3, <1>4, <1>5 DEF other, config

LEMMA PinSlipEffect ==
  ASSUME Decoded(draft), PinSlip
  PROVE  OneFault(draft, draft')
<1> DEFINE c == draft
           d == draft'
           gateway == c.cluster.cilium.gateway
<1>1. /\ c.cluster # Unset /\ c.cluster.cilium # Unset /\ gateway # Unset
      /\ gateway.v /\ gateway.release # Malformed
  BY DEF PinSlip
<1>2. c.cluster \in TalosCluster /\ c.cluster.cilium \in CiliumConfig /\ gateway \in VersionPin
  BY <1>1 DEF Decoded, TalosCluster, CiliumConfig
<1>3. PICK pin \in {[gateway EXCEPT !.v = FALSE], [gateway EXCEPT !.release = Malformed]} :
        d = [c EXCEPT !.cluster = [c.cluster EXCEPT !.cilium = [c.cluster.cilium EXCEPT !.gateway = pin]]]
  BY <1>2 DEF PinSlip, Decoded, TalosCluster, CiliumConfig
<1>4. pin \in VersionPin /\ WornPin(gateway, pin) /\ pin # Unset /\ (~pin.v \/ (pin.v /\ pin.release = Malformed))
  <2>1. pin \in VersionPin
    BY <1>2, <1>3 DEF VersionPin
  <2>2. pin.v \in {gateway.v, FALSE} /\ pin.release \in {gateway.release, Malformed}
    BY <1>2, <1>3 DEF VersionPin
  <2>3. ~pin.v \/ (pin.v /\ pin.release = Malformed)
    BY <1>1, <1>2, <1>3 DEF VersionPin
  <2>4. pin # Unset
    BY <2>1, ConfigAssumption
  <2> QED BY <1>1, <2>1, <2>2, <2>3, <2>4 DEF WornPin
<1> DEFINE cluster == [c.cluster EXCEPT !.cilium = [c.cluster.cilium EXCEPT !.gateway = pin]]
<1>5. /\ DOMAIN d = DOMAIN c /\ d.cluster = cluster
      /\ \A block \in DOMAIN c \ {"cluster"} : d[block] = c[block]
      /\ d.networks = c.networks /\ d.profiles = c.profiles /\ d.nodes = c.nodes
  BY <1>3 DEF Decoded
<1>6. /\ cluster \in TalosCluster /\ cluster # Unset /\ cluster.cni = c.cluster.cni
      /\ cluster.cilium # Unset /\ cluster.cilium.gateway = pin
      /\ cluster.cilium.version = c.cluster.cilium.version /\ cluster.cilium.values = c.cluster.cilium.values
  <2> HIDE DEF c
  <2> QED BY <1>1, <1>2, <1>4, PinReplaced
<1> HIDE DEF c, d, gateway, cluster
<1>7. Decoded(d)
  BY <1>5, <1>6 DEF Decoded, Proper, c
<1>8. Slipped(c, d)
  <2>1. Slipped(c, c)
    BY SlippedNotAtAll
  <2>2. WornCluster(c.cluster, d.cluster)
    BY <1>1, <1>4, <1>5, <1>6 DEF WornCluster, Same, gateway
  <2>3. Same(c, d, {"name", "pve", "storage", "acme", "endpoint", "booty", "schematic"})
    BY <1>5 DEF Decoded, Same, c
  <2> QED BY <1>5, <2>1, <2>2, <2>3 DEF Slipped
<1>9. PICK x : PinFaults(d.cluster) = {x}
  <2>1. CASE ~pin.v
    BY <1>4, <1>5, <1>6, <2>1 DEF PinFaults
  <2>2. CASE pin.v /\ pin.release = Malformed
    BY <1>4, <1>5, <1>6, <2>2 DEF PinFaults, Diag
  <2> QED BY <1>4, <2>1, <2>2
<1>10. Faults(d) \subseteq Faults(c) \cup {x}
  <2>1. \A l : /\ NetworkFaults(d, l) = NetworkFaults(c, l) /\ ProfileFaults(d, l) = ProfileFaults(c, l)
               /\ LabelFaults(d, l) = LabelFaults(c, l)
    BY <1>5, Zenon DEF NetworkFaults, ProfileFaults, LabelFaults
  <2>2. \A i, j : InterfaceFaults(d, i, j) = InterfaceFaults(c, i, j)
    BY <1>5, Zenon DEF InterfaceFaults
  <2> QED BY <1>5, <1>9, <2>1, <2>2, FaultsGrow
<1>11. x \in Faults(d)
  BY <1>9 DEF Faults
<1> QED BY <1>7, <1>8, <1>10, <1>11 DEF OneFault, c, d

LEMMA SlipEffect ==
  ASSUME Decoded(draft), Slip
  PROVE  OneFault(draft, draft')
BY NetworkSlipEffect, ProfileSlipEffect, PinSlipEffect, InterfaceSlipEffect, LabelSlipEffect DEF Slip

\* The file a draft leaves is always one a decoder can read.
THEOREM AlwaysDecoded == DraftSpec => []Decoded(draft)
<1>1. DraftInit => Decoded(draft)
  BY DraftingAssumption DEF DraftInit
<1>2. Decoded(draft) /\ [DraftNext]_draftVars => Decoded(draft)'
  BY EditDecoded, SlipEffect DEF DraftNext, draftVars, OneFault
<1> QED BY <1>1, <1>2, PTL DEF DraftSpec
-----------------------------------------------------------------------------
(***************************************************************************)
(* Either form: the facts of a plane, referred to or written into the      *)
(* interface.                                                              *)
(***************************************************************************)
\* What the inlined form of a file has in common with it.
LEMMA InlinedFields ==
  ASSUME NEW c, Decoded(c)
  PROVE  LET d == Inlined(c)
         IN /\ d.networks = <<>>
            /\ d.name = c.name /\ d.pve = c.pve /\ d.storage = c.storage /\ d.acme = c.acme
            /\ d.endpoint = c.endpoint /\ d.booty = c.booty /\ d.schematic = c.schematic
            /\ d.cluster = c.cluster /\ d.profiles = c.profiles
            /\ DOMAIN d.nodes = DOMAIN c.nodes
  BY DEF Decoded, Inlined

LEMMA InlinedNodes ==
  ASSUME NEW c, Decoded(c), NEW i \in DOMAIN c.nodes
  PROVE  LET n == c.nodes[i]
             m == Inlined(c).nodes[i]
         IN /\ m.role = n.role /\ m.pve_node = n.pve_node /\ m.vmid = n.vmid /\ m.storage = n.storage
            /\ m.profiles = n.profiles /\ m.labels = n.labels
            /\ DOMAIN m.interfaces = DOMAIN n.interfaces
            /\ \A j \in DOMAIN n.interfaces : m.interfaces[j] = InlineForm(c, n.interfaces[j])
<1>1. Inlined(c).nodes[i] = InlinedNode(c, c.nodes[i])
  BY DEF Decoded, Inlined
<1> QED BY <1>1 DEF Decoded, DecodedNode, InlinedNode

LEMMA InlineFormFields ==
  ASSUME NEW c, NEW iface, DOMAIN iface = {"slot", "network", "mac", "address"} \cup ModeAttrs
  PROVE  LET form == InlineForm(c, iface)
             p == Plane(c, iface.network)
         IN /\ form.network = Unset
            /\ form.slot = iface.slot /\ form.mac = iface.mac /\ form.address = iface.address
            /\ iface.network = Unset => form = iface
            /\ iface.network # Unset =>
                 /\ form.vlan = p.vlan /\ form.dhcp = p.dhcp /\ form.primary = p.primary
                 /\ form.cidr = p.cidr /\ form.mtu = p.mtu
<1> DEFINE p == Plane(c, iface.network)
<1> HIDE DEF p
<1>1. CASE iface.network = Unset
  BY <1>1 DEF InlineForm
<1>2. CASE iface.network # Unset
  <2>1. InlineForm(c, iface) = [iface EXCEPT !.network = Unset, !.vlan = p.vlan, !.dhcp = p.dhcp, !.primary = p.primary,
                        !.cidr = p.cidr, !.mtu = p.mtu]
    BY <1>2 DEF InlineForm, p
  <2> QED BY <1>2, <2>1 DEF ModeAttrs, p
<1> QED BY <1>1, <1>2

LEMMA NodesSame ==
  ASSUME NEW c, Decoded(c), NEW i \in DOMAIN c.nodes
  PROVE  LET d == Inlined(c)
         IN /\ NodeExtensions(d, i) = NodeExtensions(c, i)
            /\ NodeRuntimes(d, i) = NodeRuntimes(c, i)
            /\ RenderedLabels(d, i) = RenderedLabels(c, i)
            /\ \A key : ValidateLabel(d, i, key) = ValidateLabel(c, i, key)
<1> DEFINE d == Inlined(c)
           Extensions(profiles, mine) ==
             UNION {profiles[k].extensions : k \in {k \in DOMAIN profiles : profiles[k].name \in mine}}
           Provided(extensions) == {r \in Runtimes : r.extension \in extensions}
<1>1. /\ d.profiles = c.profiles /\ d.cluster = c.cluster
      /\ d.nodes[i].role = c.nodes[i].role /\ d.nodes[i].profiles = c.nodes[i].profiles
      /\ d.nodes[i].labels = c.nodes[i].labels
  BY InlinedFields, InlinedNodes
<1>2. \A x : NodeExtensions(x, i) = Extensions(x.profiles, x.nodes[i].profiles)
  BY Zenon DEF NodeExtensions
<1>3. \A x : NodeRuntimes(x, i) = Provided(NodeExtensions(x, i))
  BY Zenon DEF NodeRuntimes
<1> HIDE DEF d, Extensions, Provided
<1>4. NodeExtensions(d, i) = NodeExtensions(c, i) /\ NodeRuntimes(d, i) = NodeRuntimes(c, i)
  BY <1>1, <1>2, <1>3
<1>5. RenderedLabels(d, i) = RenderedLabels(c, i)
  BY <1>1, Zenon DEF RenderedLabels
<1>6. \A key : ValidateLabel(d, i, key) = ValidateLabel(c, i, key)
  BY <1>1, <1>5, Zenon DEF ValidateLabel, LabelSyntax, LabelMeaning
<1> QED BY <1>4, <1>5, <1>6 DEF d

LEMMA FilesSame ==
  ASSUME NEW c, Decoded(c)
  PROVE  LET d == Inlined(c)
         IN /\ SameBlocks(c, d) /\ ValidateTalosCluster(d) = ValidateTalosCluster(c)
            /\ ValidateProfiles(d) = ValidateProfiles(c) /\ ValidateRuntimes(d) = ValidateRuntimes(c)
            /\ ValidateLabels(d) = ValidateLabels(c) /\ ResolveCiliumValues(d) = ResolveCiliumValues(c)
<1> DEFINE d == Inlined(c)
<1>1. /\ d.pve = c.pve /\ d.storage = c.storage /\ d.acme = c.acme /\ d.endpoint = c.endpoint /\ d.booty = c.booty
      /\ d.schematic = c.schematic /\ d.profiles = c.profiles /\ d.cluster = c.cluster
      /\ DOMAIN d.nodes = DOMAIN c.nodes
  BY InlinedFields
<1>2. \A i \in DOMAIN c.nodes :
        /\ d.nodes[i].role = c.nodes[i].role /\ d.nodes[i].pve_node = c.nodes[i].pve_node
        /\ d.nodes[i].vmid = c.nodes[i].vmid /\ d.nodes[i].storage = c.nodes[i].storage
        /\ d.nodes[i].profiles = c.nodes[i].profiles /\ DOMAIN d.nodes[i].labels = DOMAIN c.nodes[i].labels
  BY InlinedNodes
<1>3. \A i \in DOMAIN c.nodes :
        /\ NodeRuntimes(d, i) = NodeRuntimes(c, i)
        /\ \A key : ValidateLabel(d, i, key) = ValidateLabel(c, i, key)
  BY NodesSame
<1> HIDE DEF d
<1>4. SameBlocks(c, d)
  BY <1>1, <1>2 DEF SameBlocks
<1>5. ValidateTalosCluster(d) = ValidateTalosCluster(c)
  BY <1>1, ZenonT(30) DEF ValidateTalosCluster
<1>6. ValidateProfiles(d) = ValidateProfiles(c)
  <2> DEFINE Profile(profiles, k) ==
        IF \E l \in 1 .. k - 1 : profiles[l].name = profiles[k].name THEN {<<"Duplicate profile name", k>>}
        ELSE Diag(profiles[k].extensions = {}, <<"Empty profile", k>>)
             \cup Diag(Malformed \in profiles[k].extensions, <<"Invalid extension name", k>>)
             Unreferenced(x, k) ==
               Diag(\A i \in DOMAIN x.nodes : x.profiles[k].name \notin x.nodes[i].profiles, <<"Unreferenced profile", k>>)
             Unknown(x, i) ==
               {<<"Unknown profile reference", i, ref>> : ref \in x.nodes[i].profiles \ Names(x.profiles)}
  <2>1. \A x : ValidateProfiles(x) =
          Diag(x.profiles # <<>> /\ x.schematic # Unset, <<"Both schematic_id and profiles declared">>)
          \cup (UNION {Profile(x.profiles, k) : k \in DOMAIN x.profiles})
          \cup (UNION {Unknown(x, i) : i \in DOMAIN x.nodes})
          \cup (UNION {Unreferenced(x, k) : k \in DOMAIN x.profiles})
    BY Zenon DEF ValidateProfiles, Each, Duplicate
  <2>2. \A i \in DOMAIN c.nodes : Unknown(d, i) = Unknown(c, i)
    BY <1>1, <1>2, Zenon
  <2>3. \A k \in DOMAIN c.profiles : Unreferenced(d, k) = Unreferenced(c, k)
    BY <1>1, <1>2 DEF Diag
  <2> HIDE DEF Profile, Unreferenced, Unknown
  <2> QED BY <1>1, <2>1, <2>2, <2>3, ZenonT(30)
<1>7. ValidateRuntimes(d) = ValidateRuntimes(c)
  <2> DEFINE WorkerOnly(x, i) ==
        {<<"Worker-only runtime on a control plane", i, r.name>> :
           r \in {r \in NodeRuntimes(x, i) : x.nodes[i].role = "controlplane" /\ r.workerOnly}}
  <2>1. \A x : ValidateRuntimes(x) = UNION {WorkerOnly(x, i) : i \in DOMAIN x.nodes}
    BY Zenon DEF ValidateRuntimes, Each
  <2>2. \A i \in DOMAIN c.nodes : WorkerOnly(d, i) = WorkerOnly(c, i)
    BY <1>2, <1>3, Zenon
  <2> HIDE DEF WorkerOnly
  <2> QED BY <1>1, <2>1, <2>2
<1>8. ValidateLabels(d) = ValidateLabels(c)
  <2> DEFINE Of(x, i) == UNION {ValidateLabel(x, i, key) : key \in DOMAIN x.nodes[i].labels}
  <2>1. \A i \in DOMAIN c.nodes : Of(d, i) = Of(c, i)
    BY <1>2, <1>3
  <2>2. \A x : ValidateLabels(x) = UNION {Of(x, i) : i \in DOMAIN x.nodes}
    BY Zenon DEF ValidateLabels
  <2> HIDE DEF Of
  <2> QED BY <1>1, <2>1, <2>2
<1>9. ResolveCiliumValues(d) = ResolveCiliumValues(c)
  <2>1. CarriesRuntime(d, "kata") = CarriesRuntime(c, "kata")
    BY <1>1, <1>3 DEF CarriesRuntime
  <2> QED BY <1>1, <2>1, Zenon DEF ResolveCiliumValues
<1> QED BY <1>4, <1>5, <1>6, <1>7, <1>8, <1>9 DEF d

\* An interface resolves to the same in both forms.
LEMMA ModesSame ==
  ASSUME NEW c, Decoded(c), NEW i \in DOMAIN c.nodes, NEW j \in DOMAIN c.nodes[i].interfaces
  PROVE  LET d == Inlined(c)
             iface == c.nodes[i].interfaces[j]
             form == d.nodes[i].interfaces[j]
         IN /\ form = InlineForm(c, iface) /\ form.network = Unset
            /\ form.slot = iface.slot /\ form.mac = iface.mac /\ form.address = iface.address
            /\ iface.network = Unset => form = iface
            /\ iface.network # Unset => form.dhcp = Plane(c, iface.network).dhcp
            /\ ResolveMode(d, form) = ResolveMode(c, iface)
            /\ Facts(form) = ResolveMode(c, iface)
            /\ ResolveInterface(d, form) = ResolveInterface(c, iface)
<1> DEFINE d == Inlined(c)
           iface == c.nodes[i].interfaces[j]
           form == d.nodes[i].interfaces[j]
           p == Plane(c, iface.network)
<1>1. form = InlineForm(c, iface)
  BY InlinedNodes
<1>2. DOMAIN iface = {"slot", "network", "mac", "address"} \cup ModeAttrs
  BY DEF Decoded, DecodedNode
<1> HIDE DEF d, iface, form, p
<1>3. /\ form.network = Unset
      /\ form.slot = iface.slot /\ form.mac = iface.mac /\ form.address = iface.address
      /\ iface.network = Unset => form = iface
      /\ iface.network # Unset =>
           /\ form.vlan = p.vlan /\ form.dhcp = p.dhcp /\ form.primary = p.primary
           /\ form.cidr = p.cidr /\ form.mtu = p.mtu
  BY <1>1, <1>2, InlineFormFields DEF p
<1>4. Facts(form) = ResolveMode(c, iface)
  <2>1. CASE iface.network = Unset
    BY <1>3, <2>1 DEF ResolveMode
  <2>2. CASE iface.network # Unset
    <3>1. ResolveMode(c, iface) = Facts(p)
      BY <2>2 DEF ResolveMode, p
    <3>2. Facts(form) = Facts(p)
      BY <1>3, <2>2, Zenon DEF Facts
    <3> QED BY <3>1, <3>2
  <2> QED BY <2>1, <2>2
<1>5. ResolveMode(d, form) = Facts(form)
  BY <1>3 DEF ResolveMode
<1>6. ResolveInterface(d, form) = ResolveInterface(c, iface)
  BY <1>3, <1>4, <1>5, Zenon DEF ResolveInterface, Resolved
<1> QED BY <1>1, <1>3, <1>4, <1>5, <1>6 DEF d, iface, form, p

\* The plane's facts would do as facts of the interface itself.
Sound(c, i) ==
  \A j \in DOMAIN c.nodes[i].interfaces :
    c.nodes[i].interfaces[j].network # Unset =>
      ValidateInline(ResolveMode(c, c.nodes[i].interfaces[j]), <<i, j>>) = {}

\* One interface: nothing is added, and what is there depends on its form alone.
LEMMA DiagsSame ==
  ASSUME NEW c, Decoded(c), OneFormEach(c), \A k \in DOMAIN c.networks : ~Duplicate(c.networks, k),
         NEW i \in DOMAIN c.nodes, NEW j \in DOMAIN c.nodes[i].interfaces
  PROVE  LET d == Inlined(c)
             iface == c.nodes[i].interfaces[j]
             form == d.nodes[i].interfaces[j]
             inline == ValidateInline(ResolveMode(c, iface), <<i, j>>)
         IN /\ iface.network = Unset \/ inline = {} =>
                 InterfaceDiags(d, form, <<i, j>>) = InterfaceDiags(c, iface, <<i, j>>)
            /\ iface.network # Unset /\ inline # {} => InterfaceDiags(d, form, <<i, j>>) # {}
<1> DEFINE d == Inlined(c)
           iface == c.nodes[i].interfaces[j]
           form == d.nodes[i].interfaces[j]
           at == <<i, j>>
           inline == ValidateInline(ResolveMode(c, iface), at)
<1>1. /\ form.network = Unset /\ form.mac = iface.mac /\ form.address = iface.address
      /\ iface.network = Unset => form = iface
      /\ iface.network # Unset => form.dhcp = Plane(c, iface.network).dhcp
      /\ ResolveMode(d, form) = ResolveMode(c, iface) /\ Facts(form) = ResolveMode(c, iface)
  BY ModesSame
<1>2. iface.network # Unset => iface.network \in Names(c.networks) /\ InlineModeAttrs(iface) = {}
  <2>1. <<i, j>> \in Interfaces(c) /\ <<i, j>>[1] = i /\ <<i, j>>[2] = j
    BY DEF Interfaces
  <2> QED BY <2>1 DEF OneFormEach
<1>3. iface.network # Unset => Plane(c, iface.network).dhcp # Unset
  BY <1>2, DecodedPlane DEF Decoded, Proper
<1> HIDE DEF d, iface, form, at
<1>4. CASE iface.network = Unset
  <2>1. ModeDiags(d, form, at) = ModeDiags(c, iface, at)
    BY <1>1, <1>4, Zenon DEF ModeDiags
  <2>2. InterfaceDiags(d, form, at) = InterfaceDiags(c, iface, at)
    BY <1>1, <2>1, Zenon DEF InterfaceDiags
  <2> QED BY <1>4, <2>2 DEF d, iface, form, at
<1>5. CASE iface.network # Unset
  <2>1. ModeDiags(c, iface, at) = {}
    BY <1>2, <1>5 DEF ModeDiags, Diag
  <2>2. ModeDiags(d, form, at) = inline
    BY <1>1, <1>3, <1>5 DEF ModeDiags
  <2> HIDE DEF inline
  <2>3. inline = {} => InterfaceDiags(d, form, at) = InterfaceDiags(c, iface, at)
    BY <1>1, <2>1, <2>2, Zenon DEF InterfaceDiags
  <2>4. inline # {} => InterfaceDiags(d, form, at) # {}
    BY <2>2 DEF InterfaceDiags, Staged
  <2> QED BY <1>5, <2>3, <2>4 DEF d, iface, form, at, inline
<1> QED BY <1>4, <1>5

LEMMA ResolvesSame ==
  ASSUME NEW c, Decoded(c), OneFormEach(c), \A k \in DOMAIN c.networks : ~Duplicate(c.networks, k),
         NEW i \in DOMAIN c.nodes
  PROVE  /\ Sound(c, i) => /\ ResolveNode(Inlined(c), i) = ResolveNode(c, i)
                           /\ ResolvedInterfaces(Inlined(c), i) = ResolvedInterfaces(c, i)
         /\ ResolveNode(Inlined(c), i) = {} => Sound(c, i)
<1> DEFINE d == Inlined(c)
           Slot(ifaces, j) ==
             Diag(ifaces[j].slot = -1, <<"Invalid network_interface label", <<i, j>>>>)
             \cup Diag(\E k \in 1 .. j - 1 : ifaces[k].slot = ifaces[j].slot,
                       <<"Duplicate network_interface label", <<i, j>>>>)
           Interface(x, j) == Slot(x.nodes[i].interfaces, j) \cup InterfaceDiags(x, x.nodes[i].interfaces[j], <<i, j>>)
           Primaries(x) == {j \in DOMAIN x.nodes[i].interfaces : ResolveMode(x, x.nodes[i].interfaces[j]).primary}
           All(x) == UNION {Interface(x, j) : j \in DOMAIN x.nodes[i].interfaces}
<1>1. \A x : ResolveNode(x, i) =
        IF x.nodes[i].interfaces = <<>> THEN {<<"Missing network interface", i>>}
        ELSE Staged(All(x), Diag(Cardinality(Primaries(x)) # 1, <<"Exactly one primary interface required", i>>))
  BY Zenon DEF ResolveNode, Each
<1>2. DOMAIN d.nodes[i].interfaces = DOMAIN c.nodes[i].interfaces
  BY InlinedNodes
<1>3. /\ DOMAIN c.nodes[i].interfaces = 1 .. Cardinality(DOMAIN c.nodes[i].interfaces)
      /\ Cardinality(DOMAIN c.nodes[i].interfaces) \in Nat
      /\ c.nodes[i].interfaces = <<>> <=> DOMAIN c.nodes[i].interfaces = {}
  BY ListDomain DEF Decoded, DecodedNode
<1>4. d.nodes[i].interfaces = <<>> <=> c.nodes[i].interfaces = <<>>
  <2>1. d.nodes[i].interfaces = [j \in DOMAIN c.nodes[i].interfaces |-> InlineForm(c, c.nodes[i].interfaces[j])]
    BY DEF Decoded, DecodedNode, Inlined, InlinedNode, d
  <2> QED BY <1>3, <2>1
<1>5. \A j \in DOMAIN c.nodes[i].interfaces :
        /\ d.nodes[i].interfaces[j].slot = c.nodes[i].interfaces[j].slot
        /\ ResolveMode(d, d.nodes[i].interfaces[j]) = ResolveMode(c, c.nodes[i].interfaces[j])
        /\ ResolveInterface(d, d.nodes[i].interfaces[j]) = ResolveInterface(c, c.nodes[i].interfaces[j])
  BY ModesSame
<1>6. \A j \in DOMAIN c.nodes[i].interfaces :
        LET iface == c.nodes[i].interfaces[j]
            inline == ValidateInline(ResolveMode(c, iface), <<i, j>>)
        IN /\ iface.network = Unset \/ inline = {} =>
                InterfaceDiags(d, d.nodes[i].interfaces[j], <<i, j>>) = InterfaceDiags(c, iface, <<i, j>>)
           /\ iface.network # Unset /\ inline # {} => InterfaceDiags(d, d.nodes[i].interfaces[j], <<i, j>>) # {}
  BY DiagsSame
<1> HIDE DEF d
<1>7. Primaries(d) = Primaries(c)
  BY <1>2, <1>5
<1>8. ASSUME NEW j \in DOMAIN c.nodes[i].interfaces
      PROVE  Slot(d.nodes[i].interfaces, j) = Slot(c.nodes[i].interfaces, j)
  <2>1. (\E k \in 1 .. j - 1 : d.nodes[i].interfaces[k].slot = d.nodes[i].interfaces[j].slot)
          = (\E k \in 1 .. j - 1 : c.nodes[i].interfaces[k].slot = c.nodes[i].interfaces[j].slot)
    BY <1>3, <1>5
  <2> QED BY <1>5, <2>1, Zenon
<1>9. ASSUME Sound(c, i) PROVE ResolveNode(d, i) = ResolveNode(c, i)
  <2>1. \A j \in DOMAIN c.nodes[i].interfaces : Interface(d, j) = Interface(c, j)
    BY <1>6, <1>8, <1>9, Zenon DEF Sound
  <2>2. All(d) = All(c)
    <3> HIDE DEF Interface
    <3> QED BY <1>2, <2>1
  <2> HIDE DEF All, Primaries
  <2> QED BY <1>1, <1>4, <1>7, <2>2, Zenon
<1>10. ASSUME Sound(c, i) PROVE ResolvedInterfaces(d, i) = ResolvedInterfaces(c, i)
  <2>1. {ResolveInterface(d, d.nodes[i].interfaces[j]) : j \in DOMAIN d.nodes[i].interfaces}
          = {ResolveInterface(c, c.nodes[i].interfaces[j]) : j \in DOMAIN c.nodes[i].interfaces}
    BY <1>2, <1>5
  <2> QED BY <1>9, <1>10, <2>1, Zenon DEF ResolvedInterfaces
<1>11. ASSUME ResolveNode(d, i) = {} PROVE Sound(c, i)
  <2>1. All(d) = {}
    <3> HIDE DEF All, Primaries
    <3> QED BY <1>1, <1>11 DEF Staged
  <2>2. \A j \in DOMAIN c.nodes[i].interfaces : InterfaceDiags(d, d.nodes[i].interfaces[j], <<i, j>>) = {}
    <3> HIDE DEF Slot
    <3> QED BY <1>2, <2>1
  <2> QED BY <1>6, <2>2 DEF Sound
<1> QED BY <1>9, <1>10, <1>11 DEF d

LEMMA MACsSame ==
  ASSUME NEW c, Decoded(c), \A i \in DOMAIN c.nodes : ResolvedInterfaces(Inlined(c), i) = ResolvedInterfaces(c, i)
  PROVE  ValidateInterfaceMACs(Inlined(c)) = ValidateInterfaceMACs(c)
<1> DEFINE d == Inlined(c)
           Of(x, i) == {<<"Duplicate network_interface mac", i, r.slot>> :
                          r \in {r \in ResolvedInterfaces(x, i) : Taken(x, i, r)}}
<1>1. DOMAIN d.nodes = DOMAIN c.nodes
  BY InlinedFields
<1>2. DOMAIN c.nodes = 1 .. Cardinality(DOMAIN c.nodes) /\ Cardinality(DOMAIN c.nodes) \in Nat
  BY DEF Decoded, IsList
<1>3. \A i \in DOMAIN c.nodes : ResolvedInterfaces(d, i) = ResolvedInterfaces(c, i)
  OBVIOUS
<1> HIDE DEF d
<1>4. ASSUME NEW i \in DOMAIN c.nodes PROVE Of(d, i) = Of(c, i)
  <2>1. \A k \in 1 .. i : k \in DOMAIN c.nodes
    BY <1>2
  <2>2. \A r : Taken(d, i, r) <=> Taken(c, i, r)
    BY <1>3, <2>1 DEF Taken
  <2> QED BY <1>3, <2>2
<1>5. \A x : ValidateInterfaceMACs(x) = UNION {Of(x, i) : i \in DOMAIN x.nodes}
  BY Zenon DEF ValidateInterfaceMACs
<1> HIDE DEF Of
<1> QED BY <1>1, <1>4, <1>5 DEF d

LEMMA DecodesSame ==
  ASSUME NEW c, Decoded(c)
  PROVE  Decode(Inlined(c)) = Decode(c)
<1> DEFINE d == Inlined(c)
           Before(a, b) == a[1] < b[1] \/ (a[1] = b[1] /\ a[2] < b[2])
           MAC(x, at) == x.nodes[at[1]].interfaces[at[2]].mac
           Repeated(x, at) == MAC(x, at) # Malformed /\ \E b \in Interfaces(x) : Before(b, at) /\ MAC(x, b) = MAC(x, at)
           SharesVmid(x, i) == \E k \in 1 .. i - 1 : x.nodes[k].vmid = x.nodes[i].vmid
<1>1. DOMAIN d.nodes = DOMAIN c.nodes
  BY InlinedFields
<1>2. \A i \in DOMAIN c.nodes :
        d.nodes[i].vmid = c.nodes[i].vmid /\ DOMAIN d.nodes[i].interfaces = DOMAIN c.nodes[i].interfaces
  BY InlinedNodes
<1>3. \A i \in DOMAIN c.nodes : \A j \in DOMAIN c.nodes[i].interfaces :
        d.nodes[i].interfaces[j].mac = c.nodes[i].interfaces[j].mac
  BY ModesSame
<1>4. DOMAIN c.nodes = 1 .. Cardinality(DOMAIN c.nodes) /\ Cardinality(DOMAIN c.nodes) \in Nat
  BY DEF Decoded, IsList
<1> HIDE DEF d
<1>5. Interfaces(d) = Interfaces(c)
  <2> DEFINE Of(x, i) == {i} \X DOMAIN x.nodes[i].interfaces
  <2>1. \A i \in DOMAIN c.nodes : Of(d, i) = Of(c, i)
    BY <1>2
  <2>2. \A x : Interfaces(x) = UNION {Of(x, i) : i \in DOMAIN x.nodes}
    BY Zenon DEF Interfaces
  <2> HIDE DEF Of
  <2> QED BY <1>1, <2>1, <2>2
<1>6. \A at \in Interfaces(c) : at[1] \in DOMAIN c.nodes /\ at[2] \in DOMAIN c.nodes[at[1]].interfaces
  BY DEF Interfaces
<1>7. \A at \in Interfaces(c) : MAC(d, at) = MAC(c, at)
  BY <1>3, <1>6
<1>8. \A at \in Interfaces(c) : Repeated(d, at) <=> Repeated(c, at)
  <2> HIDE DEF MAC, Before
  <2> QED BY <1>5, <1>7
<1>9. \A i \in DOMAIN c.nodes : SharesVmid(d, i) <=> SharesVmid(c, i)
  <2>1. \A i \in DOMAIN c.nodes : \A k \in 1 .. i - 1 : k \in DOMAIN c.nodes
    BY <1>4
  <2> QED BY <1>2, <2>1
<1>10. \A x : Decode(x) = {<<"Duplicate vmid", i>> : i \in {i \in DOMAIN x.nodes : SharesVmid(x, i)}}
                          \cup {<<"Duplicate mac", at>> : at \in {at \in Interfaces(x) : Repeated(x, at)}}
  BY Zenon DEF Decode
<1> HIDE DEF SharesVmid, Repeated
<1>11. {i \in DOMAIN d.nodes : SharesVmid(d, i)} = {i \in DOMAIN c.nodes : SharesVmid(c, i)}
  BY <1>1, <1>9
<1>12. {at \in Interfaces(d) : Repeated(d, at)} = {at \in Interfaces(c) : Repeated(c, at)}
  BY <1>5, <1>8
<1> QED BY <1>10, <1>11, <1>12, Zenon DEF d

\* With every plane's facts in order, only the rules about planes are left to tell the forms apart.
LEMMA OnlyPlanesDiffer ==
  ASSUME NEW c, Decoded(c), OneFormEach(c), \A k \in DOMAIN c.networks : ~Duplicate(c.networks, k),
         \A i \in DOMAIN c.nodes : Sound(c, i)
  PROVE  /\ Accepted(c) <=> Accepted(Inlined(c)) /\ ValidateNetworks(c) = {}
         /\ \A i \in DOMAIN c.nodes : ResolvedInterfaces(c, i) = ResolvedInterfaces(Inlined(c), i)
<1> DEFINE d == Inlined(c)
<1>1. \A i \in DOMAIN c.nodes :
        ResolveNode(d, i) = ResolveNode(c, i) /\ ResolvedInterfaces(d, i) = ResolvedInterfaces(c, i)
  BY ResolvesSame
<1>2. DOMAIN d.nodes = DOMAIN c.nodes /\ d.networks = <<>>
  BY InlinedFields
<1>3. ValidateInterfaceMACs(d) = ValidateInterfaceMACs(c)
  BY <1>1, MACsSame
<1>4. /\ ValidatePVE(d) = ValidatePVE(c) /\ ValidateACME(d) = ValidateACME(c)
      /\ ValidateTalosCluster(d) = ValidateTalosCluster(c)
      /\ ValidateStorage(d) = ValidateStorage(c) /\ ValidateTalos(d) = ValidateTalos(c)
      /\ ValidateProfiles(d) = ValidateProfiles(c) /\ ValidateRuntimes(d) = ValidateRuntimes(c)
      /\ ValidateLabels(d) = ValidateLabels(c) /\ ResolveCiliumValues(d) = ResolveCiliumValues(c)
      /\ Decode(d) = Decode(c)
  BY BlocksSame, FilesSame, DecodesSame
<1> HIDE DEF d
<1>5. ResolveInterfaces(d) = ResolveInterfaces(c)
  BY <1>1, <1>2 DEF ResolveInterfaces
<1>6. ValidateNetworks(d) = {}
  <2>1. DOMAIN d.networks = {}
    BY <1>2
  <2>2. PrimaryPlanes(d) = {}
    BY <2>1 DEF PrimaryPlanes
  <2>3. ~(Cardinality(PrimaryPlanes(d)) > 1)
    BY <2>2, FS_EmptySet
  <2> QED BY <2>1, <2>3 DEF ValidateNetworks, Each, Diag
<1>7. Accepted(c) <=> Accepted(d) /\ ValidateNetworks(c) = {}
  <2>1. \A x : Accepted(x) <=> Decode(x) = {} /\ ValidateAndNormalize(x) = {} /\ ResolveCiliumValues(x) = {}
    BY DEF Accepted, Load, Staged
  <2>2. \A x : ValidateAndNormalize(x) = {} <=>
          /\ ValidatePVE(x) = {} /\ ValidateStorage(x) = {} /\ ValidateACME(x) = {} /\ ValidateTalos(x) = {}
          /\ ValidateTalosCluster(x) = {} /\ ValidateProfiles(x) = {} /\ ValidateRuntimes(x) = {}
          /\ ValidateNetworks(x) = {} /\ ValidateLabels(x) = {} /\ ResolveInterfaces(x) = {}
          /\ ValidateInterfaceMACs(x) = {}
    BY DEF ValidateAndNormalize
  <2> QED BY <1>3, <1>4, <1>5, <1>6, <2>1, <2>2
<1> QED BY <1>1, <1>7 DEF d

LEMMA EitherForm ==
  ASSUME NEW c, Decoded(c), OneFormEach(c), IsFiniteSet(PrimaryPlanes(c))
  PROVE  /\ Accepted(c) <=> Accepted(Inlined(c)) /\ PlaneRules(c)
         /\ Accepted(c) =>
              \A i \in DOMAIN c.nodes : ResolvedInterfaces(c, i) = ResolvedInterfaces(Inlined(c), i)
<1>1. Cardinality(PrimaryPlanes(c)) <= 1 <=> ~(Cardinality(PrimaryPlanes(c)) > 1)
  BY FS_CardinalityType
<1>2. Proper(c)
  BY DEF Decoded
<1>3. ValidateNetworks(c) = {} => PlaneRules(c)
  <2>1. \A k \in DOMAIN c.networks : ValidateNetwork(c, k) = {} => c.networks[k].dhcp \/ c.networks[k].cidr # Unset
    BY <1>2, SameRules
  <2> QED BY <1>1, <2>1, NetworksInOrder DEF PlaneRules
<1>4. ASSUME \A k \in DOMAIN c.networks : ~Duplicate(c.networks, k),
             NEW i \in DOMAIN c.nodes, NEW j \in DOMAIN c.nodes[i].interfaces,
             c.nodes[i].interfaces[j].network # Unset
      PROVE  \E k \in DOMAIN c.networks :
               /\ c.networks[k].name = c.nodes[i].interfaces[j].network
               /\ ResolveMode(c, c.nodes[i].interfaces[j]) = Facts(c.networks[k])
  <2>1. <<i, j>> \in Interfaces(c) /\ <<i, j>>[1] = i /\ <<i, j>>[2] = j
    BY DEF Interfaces
  <2>2. c.nodes[i].interfaces[j].network \in Names(c.networks)
    BY <1>4, <2>1 DEF OneFormEach
  <2> QED BY <1>4, <2>2, DecodedPlane DEF ResolveMode
<1>5. ASSUME ValidateNetworks(c) = {} PROVE \A i \in DOMAIN c.nodes : Sound(c, i)
  <2>1. \A k \in DOMAIN c.networks : ~Duplicate(c.networks, k) /\ ValidateNetwork(c, k) = {}
    BY <1>5, NetworksInOrder
  <2>2. \A at : \A k \in DOMAIN c.networks : ValidateInline(Facts(c.networks[k]), at) = {}
    BY <1>2, <2>1, SameRules
  <2> QED BY <1>4, <2>1, <2>2 DEF Sound
<1>6. ASSUME PlaneRules(c), \A i \in DOMAIN c.nodes : Sound(c, i) PROVE ValidateNetworks(c) = {}
  <2>1. \A k \in DOMAIN c.networks : ~Duplicate(c.networks, k)
    BY <1>6 DEF PlaneRules
  <2>2. ASSUME NEW k \in DOMAIN c.networks PROVE ValidateNetwork(c, k) = {}
    <3>1. References(c, c.networks[k].name) /\ (c.networks[k].dhcp \/ c.networks[k].cidr # Unset)
      BY <1>6 DEF PlaneRules
    <3>2. PICK i \in DOMAIN c.nodes : \E j \in DOMAIN c.nodes[i].interfaces :
            c.nodes[i].interfaces[j].network = c.networks[k].name /\ c.networks[k].name # Unset
      BY <3>1 DEF References
    <3>3. PICK j \in DOMAIN c.nodes[i].interfaces :
            c.nodes[i].interfaces[j].network = c.networks[k].name /\ c.networks[k].name # Unset
      BY <3>2
    <3>4. PICK l \in DOMAIN c.networks :
            /\ c.networks[l].name = c.networks[k].name
            /\ ResolveMode(c, c.nodes[i].interfaces[j]) = Facts(c.networks[l])
      BY <1>4, <2>1, <3>3
    <3>5. l = k
      <4>1. k \in Nat /\ l \in Nat /\ k >= 1 /\ l >= 1
        BY DEF Decoded, IsList
      <4>2. ~(l < k) /\ ~(k < l)
        BY <2>1, <3>4, <4>1 DEF Duplicate
      <4> QED BY <4>1, <4>2
    <3>6. ValidateInline(Facts(c.networks[k]), <<i, j>>) = {}
      BY <1>6, <3>3, <3>4, <3>5 DEF Sound
    <3> QED BY <1>2, <3>1, <3>6, SameRules
  <2> QED BY <1>1, <1>6, <2>1, <2>2, NetworksInOrder DEF PlaneRules
<1>7. ASSUME Accepted(c) PROVE ValidateNetworks(c) = {}
  BY <1>7 DEF Accepted, Load, Staged, ValidateAndNormalize
<1>8. ASSUME Accepted(Inlined(c)), PlaneRules(c) PROVE \A i \in DOMAIN c.nodes : Sound(c, i)
  <2>1. ResolveInterfaces(Inlined(c)) = {} /\ DOMAIN Inlined(c).nodes = DOMAIN c.nodes
    BY <1>8, InlinedFields DEF Accepted, Load, Staged, ValidateAndNormalize
  <2>2. \A i \in DOMAIN c.nodes : ResolveNode(Inlined(c), i) = {}
    BY <2>1 DEF ResolveInterfaces
  <2> QED BY <1>8, <2>2, ResolvesSame DEF PlaneRules
<1>9. ASSUME ValidateNetworks(c) = {}
      PROVE  /\ Accepted(c) <=> Accepted(Inlined(c))
             /\ \A i \in DOMAIN c.nodes : ResolvedInterfaces(c, i) = ResolvedInterfaces(Inlined(c), i)
  <2>1. \A k \in DOMAIN c.networks : ~Duplicate(c.networks, k)
    BY <1>9, NetworksInOrder
  <2> QED BY <1>5, <1>9, <2>1, OnlyPlanesDiffer
<1> QED BY <1>3, <1>6, <1>7, <1>8, <1>9

(***************************************************************************)
(* For every file that decodes: one that refers to planes is accepted      *)
(* exactly when the one with their facts written into the interfaces is,   *)
(* and keeps the rules only planes have; both resolve to the same          *)
(* (networks.go, validateInlineMode).                                      *)
(***************************************************************************)
THEOREM EitherFormSame == DraftSpec => []SameWhicheverForm
<1>1. Decoded(draft) => SameWhicheverForm
  <2> SUFFICES ASSUME Decoded(draft), OneFormEach(draft)
               PROVE  /\ Accepted(draft) <=> Accepted(Inlined(draft)) /\ PlaneRules(draft)
                      /\ Accepted(draft) =>
                           \A i \in DOMAIN draft.nodes :
                             ResolvedInterfaces(draft, i) = ResolvedInterfaces(Inlined(draft), i)
    BY DEF SameWhicheverForm
  <2>1. IsFiniteSet(PrimaryPlanes(draft))
    <3>1. DOMAIN draft.networks = 1 .. Cardinality(DOMAIN draft.networks) /\ Cardinality(DOMAIN draft.networks) \in Nat
      BY ListDomain DEF Decoded
    <3>2. IsFiniteSet(DOMAIN draft.networks)
      BY <3>1, FS_Interval
    <3> QED BY <3>2, FS_Subset DEF PrimaryPlanes
  <2> QED BY <2>1, EitherForm
<1> QED BY <1>1, AlwaysDecoded, PTL
-----------------------------------------------------------------------------
(***************************************************************************)
(* Mistakes: what slips left in a file that was fine brings at most the    *)
(* one diagnostic each, and what is wrong in itself is never accepted.     *)
(***************************************************************************)
\* A value that is wrong in itself is never accepted, wherever it is.
LEMMA InterfaceFaultRefused ==
  ASSUME NEW c, NEW iface, NEW at, NEW attr \in DOMAIN Bad, iface[attr] = Bad[attr]
  PROVE  InterfaceDiags(c, iface, at) # {}
<1> SUFFICES ASSUME InterfaceDiags(c, iface, at) = {} PROVE FALSE
  OBVIOUS
<1>1. /\ iface.mac # Malformed /\ ModeDiags(c, iface, at) = {}
      /\ ValidateAddress(ResolveMode(c, iface), iface.address, at) = {}
  BY InterfaceInOrder
<1>2. iface.address # Malformed
  <2> DEFINE r == ResolveMode(c, iface)
  <2> HIDE DEF r
  <2>1. ValidateAddress(r, Malformed, at) # {}
    BY ConfigAssumption DEF ValidateAddress, Diag
  <2> QED BY <1>1, <2>1 DEF r
<1>3. CASE attr \in {"vlan", "mtu", "cidr"}
  <2>1. iface[attr] # Unset
    BY BadValues
  <2>2. iface.network = Unset /\ ValidateInline(Facts(iface), at) = {}
    <3>1. InlineModeAttrs(iface) # {}
      BY <1>3, <2>1 DEF InlineModeAttrs, ModeAttrs
    <3> QED BY <1>1, <3>1 DEF ModeDiags
  <2> DEFINE r == Facts(iface)
  <2>3. r[attr] = Bad[attr]
    BY <1>3, <2>1 DEF Facts, Default
  <2> HIDE DEF r
  <2>4. /\ ~InvalidVLAN(r.vlan) /\ ~InvalidMTU(r.mtu) /\ ~(r.dhcp /\ r.cidr # Unset) /\ ~(~r.dhcp /\ r.cidr = Malformed)
    BY <2>2 DEF ValidateInline, Diag, r
  <2>5. CASE attr = "vlan"
    BY <2>3, <2>4, <2>5, BadValues
  <2>6. CASE attr = "mtu"
    BY <2>3, <2>4, <2>6, BadValues
  <2>7. CASE attr = "cidr"
    BY <2>3, <2>4, <2>7, BadValues
  <2> QED BY <1>3, <2>5, <2>6, <2>7
<1>4. CASE attr \in {"mac", "address"}
  BY <1>1, <1>2, <1>4 DEF Bad
<1> QED BY <1>3, <1>4, BadValues

LEMMA NetworkFaultRefused ==
  ASSUME NEW c, NEW k, NEW attr \in {"vlan", "mtu", "cidr"}, c.networks[k][attr] = Bad[attr]
  PROVE  ValidateNetwork(c, k) # {}
<1> DEFINE p == c.networks[k]
<1>1. ValidateNetwork(c, k) = {} =>
        /\ ~InvalidVLAN(p.vlan) /\ ~InvalidMTU(p.mtu) /\ ~(p.dhcp /\ p.cidr # Unset) /\ ~(~p.dhcp /\ p.cidr = Malformed)
  BY DEF ValidateNetwork, Diag
<1>2. p[attr] = Bad[attr]
  OBVIOUS
<1> HIDE DEF p
<1>3. CASE attr = "vlan"
  BY <1>1, <1>2, <1>3, BadValues
<1>4. CASE attr = "mtu"
  BY <1>1, <1>2, <1>4, BadValues
<1>5. CASE attr = "cidr"
  BY <1>1, <1>2, <1>5, BadValues
<1> QED BY <1>3, <1>4, <1>5

LEMMA PinFaultRefused ==
  ASSUME NEW c, ValidateTalosCluster(c) = {}
  PROVE  PinFaults(c.cluster) = {}
<1> DEFINE cilium == c.cluster.cilium
<1> SUFFICES ASSUME c.cluster # Unset, cilium # Unset, cilium.gateway # Unset PROVE PinFaults(c.cluster) = {}
  BY DEF PinFaults
<1> DEFINE pins == {<<"Unprefixed version pin", pin>> :
                      pin \in {pin \in {"version", "gateway"} : cilium[pin] # Unset /\ ~cilium[pin].v}}
<1>1. pins = {} /\ ValidateGatewayAPIFloor(cilium.gateway) = {}
  <2> HIDE DEF pins
  <2> QED BY DEF ValidateTalosCluster, pins
<1>2. cilium.gateway.v
  BY <1>1
<1>3. cilium.gateway.release # Malformed
  BY <1>1, <1>2 DEF ValidateGatewayAPIFloor
<1> QED BY <1>2, <1>3 DEF PinFaults, Diag

LEMMA AcceptedFaultless ==
  ASSUME NEW c, Accepted(c)
  PROVE  Faults(c) = {}
<1>1. /\ ValidateTalosCluster(c) = {} /\ ValidateProfiles(c) = {} /\ ValidateNetworks(c) = {}
      /\ ValidateLabels(c) = {} /\ ResolveInterfaces(c) = {}
  BY NothingWrong
<1>2. PinFaults(c.cluster) = {}
  BY <1>1, PinFaultRefused
<1>3. \A k \in DOMAIN c.profiles : ProfileFaults(c, k) = {}
  BY <1>1, ProfilesInOrder DEF ProfileFaults, Diag
<1>4. \A k \in DOMAIN c.networks : NetworkFaults(c, k) = {}
  <2>1. \A k \in DOMAIN c.networks : ValidateNetwork(c, k) = {}
    BY <1>1, NetworksInOrder
  <2> QED BY <2>1, NetworkFaultRefused DEF NetworkFaults
<1>5. \A i \in DOMAIN c.nodes : LabelFaults(c, i) = {}
  BY <1>1, LabelsInOrder DEF LabelFaults
<1>6. ASSUME NEW i \in DOMAIN c.nodes, NEW j \in DOMAIN c.nodes[i].interfaces
      PROVE  InterfaceFaults(c, i, j) = {}
  <2>1. ResolveNode(c, i) = {}
    BY <1>1 DEF ResolveInterfaces
  <2>2. InterfaceDiags(c, c.nodes[i].interfaces[j], <<i, j>>) = {}
    BY <2>1, ResolvesInOrder
  <2> QED BY <2>2, InterfaceFaultRefused DEF InterfaceFaults
<1> QED BY <1>2, <1>3, <1>4, <1>5, <1>6 DEF Faults

\* A file that was fine, and what slips made of it.
Mistaken(a, c) == Decoded(a) /\ Decoded(c) /\ Accepted(a) /\ Slipped(a, c)

LEMMA FineBefore ==
  ASSUME NEW a, NEW c, Mistaken(a, c)
  PROVE  /\ ValidatePVE(a) = {} /\ ValidateStorage(a) = {} /\ ValidateACME(a) = {} /\ ValidateTalos(a) = {}
         /\ ValidateTalosCluster(a) = {} /\ ValidateProfiles(a) = {} /\ ValidateRuntimes(a) = {}
         /\ ValidateNetworks(a) = {} /\ ValidateLabels(a) = {} /\ ResolveInterfaces(a) = {}
         /\ ValidateInterfaceMACs(a) = {} /\ Decode(a) = {} /\ ResolveCiliumValues(a) = {}
         /\ DOMAIN c.nodes = DOMAIN a.nodes
         /\ \A i \in DOMAIN a.nodes : ResolveNode(a, i) = {} /\ WornNode(a.nodes[i], c.nodes[i])
<1>1. /\ ValidatePVE(a) = {} /\ ValidateStorage(a) = {} /\ ValidateACME(a) = {} /\ ValidateTalos(a) = {}
      /\ ValidateTalosCluster(a) = {} /\ ValidateProfiles(a) = {} /\ ValidateRuntimes(a) = {}
      /\ ValidateNetworks(a) = {} /\ ValidateLabels(a) = {} /\ ResolveInterfaces(a) = {}
      /\ ValidateInterfaceMACs(a) = {} /\ Decode(a) = {} /\ ResolveCiliumValues(a) = {}
  BY NothingWrong DEF Mistaken
<1>2. \A i \in DOMAIN a.nodes : ResolveNode(a, i) = {}
  BY <1>1 DEF ResolveInterfaces
<1>3. DOMAIN c.nodes = DOMAIN a.nodes /\ \A i \in DOMAIN a.nodes : WornNode(a.nodes[i], c.nodes[i])
  BY DEF Mistaken, Slipped
<1> QED BY <1>1, <1>2, <1>3

LEMMA BlocksFine ==
  ASSUME NEW a, NEW c, Mistaken(a, c)
  PROVE  ValidatePVE(c) = {} /\ ValidateStorage(c) = {} /\ ValidateACME(c) = {} /\ ValidateTalos(c) = {}
<1>1. SameBlocks(a, c)
  BY FineBefore DEF SameBlocks, Mistaken, Slipped, WornNode, Same
<1> QED BY <1>1, BlocksSame, FineBefore

LEMMA ProfilesFaulty ==
  ASSUME NEW a, NEW c, Mistaken(a, c)
  PROVE  ValidateProfiles(c) \subseteq UNION {ProfileFaults(c, k) : k \in DOMAIN c.profiles}
<1> DEFINE Profile(k) == IF Duplicate(c.profiles, k) THEN {<<"Duplicate profile name", k>>}
                         ELSE Diag(c.profiles[k].extensions = {}, <<"Empty profile", k>>)
                              \cup Diag(Malformed \in c.profiles[k].extensions, <<"Invalid extension name", k>>)
           Unreferenced(k) ==
             Diag(\A i \in DOMAIN c.nodes : c.profiles[k].name \notin c.nodes[i].profiles, <<"Unreferenced profile", k>>)
           Unknown(i) == {<<"Unknown profile reference", i, ref>> : ref \in c.nodes[i].profiles \ Names(c.profiles)}
           both == Diag(c.profiles # <<>> /\ c.schematic # Unset, <<"Both schematic_id and profiles declared">>)
<1>1. ValidateProfiles(c) =
        both \cup (UNION {Profile(k) : k \in DOMAIN c.profiles}) \cup (UNION {Unknown(i) : i \in DOMAIN c.nodes})
        \cup (UNION {Unreferenced(k) : k \in DOMAIN c.profiles})
  BY Zenon DEF ValidateProfiles, Each
<1>2. /\ a.profiles = <<>> \/ a.schematic = Unset
      /\ \A k \in DOMAIN a.profiles :
           /\ ~Duplicate(a.profiles, k) /\ a.profiles[k].extensions # {}
           /\ Malformed \notin a.profiles[k].extensions
           /\ \E i \in DOMAIN a.nodes : a.profiles[k].name \in a.nodes[i].profiles
      /\ \A i \in DOMAIN a.nodes : a.nodes[i].profiles \ Names(a.profiles) = {}
  BY FineBefore, ProfilesInOrder
<1>3. /\ DOMAIN c.profiles = DOMAIN a.profiles /\ c.schematic = a.schematic
      /\ \A k \in DOMAIN a.profiles :
           /\ c.profiles[k].name = a.profiles[k].name
           /\ c.profiles[k].extensions \in {a.profiles[k].extensions, a.profiles[k].extensions \cup {Malformed}}
  BY DEF Mistaken, Slipped, WornProfiles, Same
<1>4. DOMAIN c.nodes = DOMAIN a.nodes /\ \A i \in DOMAIN a.nodes : c.nodes[i].profiles = a.nodes[i].profiles
  BY FineBefore DEF WornNode, Same
<1>5. both = {}
  <2>1. IsList(a.profiles) /\ IsList(c.profiles)
    BY DEF Mistaken, Decoded
  <2>2. a.profiles = <<>> => c.profiles = <<>>
    BY <1>3, <2>1, ListDomain
  <2> QED BY <1>2, <1>3, <2>2 DEF Diag
<1>6. ASSUME NEW k \in DOMAIN c.profiles PROVE Profile(k) \subseteq ProfileFaults(c, k) /\ Unreferenced(k) = {}
  <2>1. DOMAIN c.profiles = 1 .. Cardinality(DOMAIN c.profiles) /\ Cardinality(DOMAIN c.profiles) \in Nat
    BY ListDomain DEF Mistaken, Decoded
  <2>2. ~Duplicate(c.profiles, k)
    BY <1>2, <1>3, <2>1 DEF Duplicate
  <2>3. c.profiles[k].extensions # {}
    BY <1>2, <1>3
  <2>4. \E i \in DOMAIN c.nodes : c.profiles[k].name \in c.nodes[i].profiles
    BY <1>2, <1>3, <1>4
  <2> QED BY <2>2, <2>3, <2>4 DEF ProfileFaults, Diag
<1>7. Names(c.profiles) = Names(a.profiles)
  BY <1>3 DEF Names
<1>8. \A i \in DOMAIN c.nodes : Unknown(i) = {}
  BY <1>2, <1>4, <1>7
<1> HIDE DEF Profile, Unreferenced, Unknown, both
<1>9. (UNION {Profile(k) : k \in DOMAIN c.profiles}) \subseteq UNION {ProfileFaults(c, k) : k \in DOMAIN c.profiles}
  BY <1>6
<1>10. (UNION {Unreferenced(k) : k \in DOMAIN c.profiles}) = {} /\ (UNION {Unknown(i) : i \in DOMAIN c.nodes}) = {}
  BY <1>6, <1>8
<1> QED BY <1>1, <1>5, <1>9, <1>10

\* A runtime's extension is a name like any other: one that is malformed is none.
LEMMA RuntimesFine ==
  ASSUME NEW a, NEW c, Mistaken(a, c)
  PROVE  /\ \A i \in DOMAIN a.nodes : NodeRuntimes(c, i) = NodeRuntimes(a, i)
         /\ ValidateRuntimes(c) = {} /\ ResolveCiliumValues(c) = {}
<1>1. /\ DOMAIN c.profiles = DOMAIN a.profiles
      /\ \A k \in DOMAIN a.profiles :
           /\ c.profiles[k].name = a.profiles[k].name
           /\ c.profiles[k].extensions \in {a.profiles[k].extensions, a.profiles[k].extensions \cup {Malformed}}
  BY DEF Mistaken, Slipped, WornProfiles
<1>2. DOMAIN c.nodes = DOMAIN a.nodes
      /\ \A i \in DOMAIN a.nodes : c.nodes[i].profiles = a.nodes[i].profiles /\ c.nodes[i].role = a.nodes[i].role
  BY FineBefore DEF WornNode, Same
<1>3. ASSUME NEW i \in DOMAIN a.nodes, NEW e, e # Malformed
      PROVE  e \in NodeExtensions(c, i) <=> e \in NodeExtensions(a, i)
  <2>1. \A x : e \in NodeExtensions(x, i) <=>
          \E k \in DOMAIN x.profiles : x.profiles[k].name \in x.nodes[i].profiles /\ e \in x.profiles[k].extensions
    BY DEF NodeExtensions
  <2> QED BY <1>1, <1>2, <1>3, <2>1
<1>4. \A r \in Runtimes : r.extension # Malformed
  BY RuntimesAssumption
<1>5. \A i \in DOMAIN a.nodes : NodeRuntimes(c, i) = NodeRuntimes(a, i)
  BY <1>3, <1>4 DEF NodeRuntimes
<1>6. ValidateRuntimes(c) = {}
  <2> DEFINE WorkerOnly(x, i) ==
        {<<"Worker-only runtime on a control plane", i, r.name>> :
           r \in {r \in NodeRuntimes(x, i) : x.nodes[i].role = "controlplane" /\ r.workerOnly}}
  <2>1. \A x : ValidateRuntimes(x) = UNION {WorkerOnly(x, i) : i \in DOMAIN x.nodes}
    BY Zenon DEF ValidateRuntimes, Each
  <2>2. \A i \in DOMAIN a.nodes : WorkerOnly(c, i) = WorkerOnly(a, i)
    BY <1>2, <1>5, Zenon
  <2> HIDE DEF WorkerOnly
  <2> QED BY <1>2, <2>1, <2>2, FineBefore
<1>7. ResolveCiliumValues(c) = {}
  <2>1. CarriesRuntime(c, "kata") = CarriesRuntime(a, "kata")
    BY <1>2, <1>5 DEF CarriesRuntime
  <2>2. /\ c.cluster = Unset <=> a.cluster = Unset
        /\ a.cluster # Unset => (c.cluster.cilium = Unset <=> a.cluster.cilium = Unset)
        /\ a.cluster # Unset /\ a.cluster.cilium # Unset => c.cluster.cilium.values = a.cluster.cilium.values
    BY DEF Mistaken, Slipped, WornCluster, Same
  <2>3. ResolveCiliumValues(c) = ResolveCiliumValues(a)
    BY <2>1, <2>2, Zenon DEF ResolveCiliumValues
  <2> QED BY <2>3, FineBefore
<1> QED BY <1>5, <1>6, <1>7

LEMMA PinsFaulty ==
  ASSUME NEW a, NEW c, Mistaken(a, c)
  PROVE  ValidateTalosCluster(c) \subseteq PinFaults(c.cluster)
<1> DEFINE Pins(cilium) ==
      {<<"Unprefixed version pin", pin>> : pin \in {pin \in {"version", "gateway"} : cilium[pin] # Unset /\ ~cilium[pin].v}}
<1>1. /\ c.cluster = Unset <=> a.cluster = Unset
      /\ a.cluster # Unset => c.cluster.cni = a.cluster.cni /\ (c.cluster.cilium = Unset <=> a.cluster.cilium = Unset)
      /\ a.cluster # Unset /\ a.cluster.cilium # Unset =>
           /\ c.cluster.cilium.version = a.cluster.cilium.version
           /\ WornPin(a.cluster.cilium.gateway, c.cluster.cilium.gateway)
  BY DEF Mistaken, Slipped, WornCluster, Same
<1>2. CASE a.cluster = Unset \/ a.cluster.cilium = Unset
  <2>1. ValidateTalosCluster(c) = ValidateTalosCluster(a)
    BY <1>1, <1>2, Zenon DEF ValidateTalosCluster
  <2> QED BY <2>1, FineBefore
<1>3. CASE a.cluster # Unset /\ a.cluster.cilium # Unset
  <2> DEFINE old == a.cluster.cilium.gateway
             new == c.cluster.cilium.gateway
  <2>1. \A x : x.cluster # Unset /\ x.cluster.cilium # Unset =>
          ValidateTalosCluster(x) =
            Diag(x.cluster.cni \notin CNIs, <<"Invalid talos cluster cni">>)
            \cup Diag(x.cluster.cni # "cilium", <<"Cilium block without cni cilium">>)
            \cup Pins(x.cluster.cilium) \cup ValidateGatewayAPIFloor(x.cluster.cilium.gateway)
    BY DEF ValidateTalosCluster, Diag
  <2>2. ValidateTalosCluster(a) = {}
    BY FineBefore
  <2>3. /\ Diag(a.cluster.cni \notin CNIs, <<"Invalid talos cluster cni">>) = {}
        /\ Diag(a.cluster.cni # "cilium", <<"Cilium block without cni cilium">>) = {}
        /\ Pins(a.cluster.cilium) = {} /\ ValidateGatewayAPIFloor(old) = {}
    <3> HIDE DEF Pins
    <3> QED BY <1>3, <2>1, <2>2
  <2>4. ValidateTalosCluster(c) = Pins(c.cluster.cilium) \cup ValidateGatewayAPIFloor(new)
    <3> HIDE DEF Pins
    <3> QED BY <1>1, <1>3, <2>1, <2>3
  <2>5. /\ a.cluster.cilium.version = Unset \/ a.cluster.cilium.version.v
        /\ old = Unset \/ old.v
    BY <2>3
  <2>6. Pins(c.cluster.cilium) \subseteq IF new # Unset /\ ~new.v THEN {<<"Unprefixed version pin", "gateway">>} ELSE {}
    BY <1>1, <1>3, <2>5
  <2>7. c.cluster # Unset /\ c.cluster.cilium # Unset /\ WornPin(old, new)
    BY <1>1, <1>3
  <2> HIDE DEF Pins, old, new
  <2>8. new # Unset /\ ~new.v => PinFaults(c.cluster) = {<<"Unprefixed version pin", "gateway">>}
    BY <2>7 DEF PinFaults, new
  <2>9. ValidateGatewayAPIFloor(new) \subseteq PinFaults(c.cluster)
    <3>1. CASE new = old
      BY <2>3, <3>1
    <3>2. CASE new = Unset \/ ~new.v
      BY <3>2 DEF ValidateGatewayAPIFloor
    <3>3. CASE new # old /\ new # Unset /\ new.v
      <4>1. old # Unset /\ old.v /\ (new.release = old.release \/ new.release = Malformed)
        BY <2>7, <3>3 DEF WornPin
      <4>2. CASE new.release = Malformed
        BY <2>7, <3>3, <4>2 DEF ValidateGatewayAPIFloor, PinFaults, Diag, new
      <4>3. CASE new.release = old.release /\ new.release # Malformed
        <5>1. ValidateGatewayAPIFloor(new) = ValidateGatewayAPIFloor(old)
          BY <3>3, <4>1, <4>3, Zenon DEF ValidateGatewayAPIFloor
        <5> QED BY <2>3, <5>1
      <4> QED BY <4>1, <4>2, <4>3
    <3> QED BY <3>1, <3>2, <3>3
  <2> QED BY <2>4, <2>6, <2>8, <2>9
<1> QED BY <1>2, <1>3

LEMMA LabelsFaulty ==
  ASSUME NEW a, NEW c, Mistaken(a, c)
  PROVE  ValidateLabels(c) \subseteq UNION {LabelFaults(c, i) : i \in DOMAIN c.nodes}
<1>1. /\ DOMAIN c.nodes = DOMAIN a.nodes
      /\ \A i \in DOMAIN a.nodes :
           /\ c.nodes[i].role = a.nodes[i].role /\ DOMAIN c.nodes[i].labels = DOMAIN a.nodes[i].labels
           /\ \A key \in DOMAIN a.nodes[i].labels : c.nodes[i].labels[key] \in {a.nodes[i].labels[key], Malformed}
  BY FineBefore DEF WornNode, Same
<1>2. c.cluster = Unset <=> a.cluster = Unset
  BY DEF Mistaken, Slipped, WornCluster
<1>3. ASSUME NEW i \in DOMAIN c.nodes, NEW key \in DOMAIN c.nodes[i].labels
      PROVE  ValidateLabel(c, i, key) \subseteq LabelFaults(c, i)
  <2>1. LabelSyntax(a, i, key) = {} /\ LabelMeaning(a, i, key) = {} /\ a.nodes[i].labels[key] # Malformed
    BY <1>1, <1>3, FineBefore, LabelsInOrder
  <2>2. LabelMeaning(c, i, key) = {}
    <3>1. RenderedLabels(c, i) = RenderedLabels(a, i)
      BY <1>1, <1>2, <1>3, Zenon DEF RenderedLabels
    <3>2. LabelMeaning(c, i, key) = LabelMeaning(a, i, key)
      BY <3>1, Zenon DEF LabelMeaning
    <3> QED BY <2>1, <3>2
  <2>3. ~(key.ns = Malformed \/ key.name = Malformed)
    BY <2>1 DEF LabelSyntax, Diag
  <2>4. LabelSyntax(c, i, key) \subseteq LabelFaults(c, i)
    <3>1. LabelSyntax(c, i, key) = Diag(c.nodes[i].labels[key] = Malformed, <<"Invalid label value", i, key>>)
      BY <2>3 DEF LabelSyntax, Diag
    <3> QED BY <1>3, <3>1 DEF LabelFaults, Diag
  <2> QED BY <2>2, <2>4 DEF ValidateLabel, Staged
<1> DEFINE Of(i) == UNION {ValidateLabel(c, i, key) : key \in DOMAIN c.nodes[i].labels}
<1>4. \A i \in DOMAIN c.nodes : Of(i) \subseteq LabelFaults(c, i)
  BY <1>3
<1>5. ValidateLabels(c) = UNION {Of(i) : i \in DOMAIN c.nodes}
  BY Zenon DEF ValidateLabels
<1> HIDE DEF Of
<1> QED BY <1>4, <1>5

LEMMA NetworksFaulty ==
  ASSUME NEW a, NEW c, Mistaken(a, c)
  PROVE  /\ ValidateNetworks(c) \subseteq UNION {NetworkFaults(c, k) : k \in DOMAIN c.networks}
         /\ \A k \in DOMAIN c.networks : ~Duplicate(a.networks, k) /\ ~Duplicate(c.networks, k)
<1>1. /\ ~(Cardinality(PrimaryPlanes(a)) > 1)
      /\ \A k \in DOMAIN a.networks :
           ~Duplicate(a.networks, k) /\ References(a, a.networks[k].name) /\ ValidateNetwork(a, k) = {}
  BY FineBefore, NetworksInOrder
<1>2. /\ DOMAIN c.networks = DOMAIN a.networks
      /\ \A k \in DOMAIN a.networks :
           /\ c.networks[k].name = a.networks[k].name /\ c.networks[k].dhcp = a.networks[k].dhcp
           /\ c.networks[k].primary = a.networks[k].primary
           /\ Worn(a.networks[k], c.networks[k], {"vlan", "mtu", "cidr"})
  BY DEF Mistaken, Slipped, WornNetworks, Same
<1>3. DOMAIN c.networks = 1 .. Cardinality(DOMAIN c.networks) /\ Cardinality(DOMAIN c.networks) \in Nat
  BY ListDomain DEF Mistaken, Decoded
<1>4. \A k \in DOMAIN c.networks : Duplicate(c.networks, k) <=> Duplicate(a.networks, k)
  BY <1>2, <1>3 DEF Duplicate
<1>5. ~(Cardinality(PrimaryPlanes(c)) > 1)
  <2>1. PrimaryPlanes(c) = PrimaryPlanes(a)
    BY <1>2, <1>4 DEF PrimaryPlanes
  <2> QED BY <1>1, <2>1
<1>6. \A k \in DOMAIN c.networks : References(c, c.networks[k].name)
  <2>1. /\ DOMAIN c.nodes = DOMAIN a.nodes
        /\ \A i \in DOMAIN a.nodes :
             /\ DOMAIN c.nodes[i].interfaces = DOMAIN a.nodes[i].interfaces
             /\ \A j \in DOMAIN a.nodes[i].interfaces :
                  c.nodes[i].interfaces[j].network = a.nodes[i].interfaces[j].network
    BY FineBefore DEF WornNode, Same
  <2>2. \A name : References(c, name) <=> References(a, name)
    BY <2>1 DEF References
  <2> QED BY <1>1, <1>2, <2>2
<1>7. ASSUME NEW k \in DOMAIN c.networks PROVE ValidateNetwork(c, k) \subseteq NetworkFaults(c, k)
  <2> DEFINE p == a.networks[k]
             q == c.networks[k]
  <2>1. /\ ~(p.primary /\ ~p.dhcp) /\ ~InvalidVLAN(p.vlan) /\ ~InvalidMTU(p.mtu)
        /\ ~(~p.dhcp /\ p.cidr = Unset) /\ ~(p.dhcp /\ p.cidr # Unset) /\ ~(~p.dhcp /\ p.cidr = Malformed)
    <3>1. ValidateNetwork(a, k) = {}
      BY <1>1, <1>2, <1>7
    <3> QED BY <3>1 DEF ValidateNetwork, Diag
  <2>2. /\ q.dhcp = p.dhcp /\ q.primary = p.primary
        /\ \A attr \in {"vlan", "mtu", "cidr"} : q[attr] = p[attr] \/ (p[attr] # Unset /\ q[attr] = Bad[attr])
    BY <1>2, <1>7 DEF Worn
  <2>3. \A attr \in {"vlan", "mtu", "cidr"} : q[attr] = Bad[attr] => <<NetworkWrong[attr], k>> \in NetworkFaults(c, k)
    BY Zenon DEF NetworkFaults
  <2>4. ValidateNetwork(c, k) =
          Diag(q.primary /\ ~q.dhcp, <<"Static primary network", k>>)
          \cup Diag(InvalidVLAN(q.vlan), <<"Invalid network vlan", k>>)
          \cup Diag(InvalidMTU(q.mtu), <<"Invalid network mtu", k>>)
          \cup Diag(~q.dhcp /\ q.cidr = Unset, <<"Missing network cidr", k>>)
          \cup Diag(q.dhcp /\ q.cidr # Unset, <<"Cidr on a dhcp network", k>>)
          \cup Diag(~q.dhcp /\ q.cidr = Malformed, <<"Invalid network cidr", k>>)
    BY Zenon DEF ValidateNetwork
  <2> HIDE DEF p, q
  <2>5. InvalidVLAN(q.vlan) => <<"Invalid network vlan", k>> \in NetworkFaults(c, k)
    BY <2>1, <2>2, <2>3 DEF NetworkWrong
  <2>6. InvalidMTU(q.mtu) => <<"Invalid network mtu", k>> \in NetworkFaults(c, k)
    BY <2>1, <2>2, <2>3 DEF NetworkWrong
  <2>7. /\ ~(q.primary /\ ~q.dhcp) /\ ~(~q.dhcp /\ q.cidr = Unset) /\ ~(q.dhcp /\ q.cidr # Unset)
        /\ ~q.dhcp /\ q.cidr = Malformed => <<"Invalid network cidr", k>> \in NetworkFaults(c, k)
    BY <2>1, <2>2, <2>3, BadValues DEF NetworkWrong
  <2> QED BY <2>4, <2>5, <2>6, <2>7 DEF Diag
<1> DEFINE Network(k) == IF Duplicate(c.networks, k) THEN {<<"Duplicate network name", k>>} ELSE ValidateNetwork(c, k)
           Unreferenced(k) == Diag(~References(c, c.networks[k].name), <<"Unreferenced network", k>>)
<1>8. ValidateNetworks(c) =
        (UNION {Network(k) : k \in DOMAIN c.networks})
        \cup Diag(Cardinality(PrimaryPlanes(c)) > 1, <<"Multiple primary networks">>)
        \cup (UNION {Unreferenced(k) : k \in DOMAIN c.networks})
  BY Zenon DEF ValidateNetworks, Each
<1>9. \A k \in DOMAIN c.networks : Network(k) \subseteq NetworkFaults(c, k) /\ Unreferenced(k) = {}
  BY <1>1, <1>2, <1>4, <1>6, <1>7 DEF Diag
<1> HIDE DEF Network, Unreferenced
<1>10. Diag(Cardinality(PrimaryPlanes(c)) > 1, <<"Multiple primary networks">>) = {}
  BY <1>5 DEF Diag
<1> QED BY <1>1, <1>2, <1>4, <1>8, <1>9, <1>10, ZenonT(30)

\* What the facts of an interface have become: the same, or wrong in themselves.
LEMMA ModesWorn ==
  ASSUME NEW a, NEW c, Mistaken(a, c), NEW i \in DOMAIN a.nodes, NEW j \in DOMAIN a.nodes[i].interfaces
  PROVE  LET p == ResolveMode(a, a.nodes[i].interfaces[j])
             q == ResolveMode(c, c.nodes[i].interfaces[j])
         IN /\ q.dhcp = p.dhcp /\ q.primary = p.primary
            /\ q.cidr = p.cidr \/ (p.cidr # Unset /\ q.cidr = Malformed)
<1> DEFINE old == a.nodes[i].interfaces[j]
           new == c.nodes[i].interfaces[j]
<1>1. /\ new.network = old.network /\ new.dhcp = old.dhcp /\ new.primary = old.primary
      /\ new.cidr = old.cidr \/ (old.cidr # Unset /\ new.cidr = Malformed)
  <2>1. WornNode(a.nodes[i], c.nodes[i])
    BY FineBefore
  <2>2. Worn(old, new, DOMAIN Bad) /\ Same(old, new, {"slot", "network", "dhcp", "primary"})
    BY <2>1 DEF WornNode
  <2> HIDE DEF old, new
  <2>3. new.cidr = old.cidr \/ (old.cidr # Unset /\ new.cidr = Bad.cidr)
    BY <2>2, BadValues DEF Worn
  <2> QED BY <2>2, <2>3, BadValues DEF Same
<1>2. /\ DOMAIN c.networks = DOMAIN a.networks
      /\ \A k \in DOMAIN a.networks :
           /\ c.networks[k].name = a.networks[k].name /\ c.networks[k].dhcp = a.networks[k].dhcp
           /\ c.networks[k].primary = a.networks[k].primary
           /\ c.networks[k].cidr = a.networks[k].cidr
              \/ (a.networks[k].cidr # Unset /\ c.networks[k].cidr = Malformed)
  BY BadValues DEF Mistaken, Slipped, WornNetworks, Same, Worn
<1>3. ModeDiags(a, old, <<i, j>>) = {}
  BY FineBefore, ResolvesInOrder, InterfaceInOrder
<1> HIDE DEF old, new
<1>4. CASE old.network = Unset
  BY <1>1, <1>4 DEF ResolveMode, Facts, old, new
<1>5. CASE old.network # Unset
  <2>1. old.network \in Names(a.networks)
    BY <1>3, <1>5 DEF ModeDiags, Diag
  <2>2. Names(c.networks) = Names(a.networks)
    BY <1>2 DEF Names
  <2>3. /\ \A k \in DOMAIN a.networks : ~Duplicate(a.networks, k)
        /\ \A k \in DOMAIN c.networks : ~Duplicate(c.networks, k)
    BY <1>2, NetworksFaulty
  <2>4. PICK k \in DOMAIN a.networks : a.networks[k].name = old.network /\ Plane(a, old.network) = a.networks[k]
    BY <2>1, <2>3, DecodedPlane DEF Mistaken
  <2>5. PICK l \in DOMAIN c.networks : c.networks[l].name = old.network /\ Plane(c, old.network) = c.networks[l]
    BY <2>1, <2>2, <2>3, DecodedPlane DEF Mistaken
  <2>6. l = k
    <3>1. DOMAIN c.networks = 1 .. Cardinality(DOMAIN c.networks) /\ Cardinality(DOMAIN c.networks) \in Nat
      BY ListDomain DEF Mistaken, Decoded
    <3>2. ~(l < k) /\ ~(k < l)
      BY <1>2, <2>3, <2>4, <2>5, <3>1 DEF Duplicate
    <3> QED BY <1>2, <3>1, <3>2
  <2>7. ResolveMode(a, old) = Facts(a.networks[k]) /\ ResolveMode(c, new) = Facts(c.networks[k])
    BY <1>1, <1>5, <2>4, <2>5, <2>6 DEF ResolveMode
  <2> DEFINE f == a.networks[k]
             g == c.networks[k]
  <2>8. /\ g.dhcp = f.dhcp /\ g.primary = f.primary
        /\ g.cidr = f.cidr \/ (f.cidr # Unset /\ g.cidr = Malformed)
    BY <1>2
  <2> HIDE DEF f, g
  <2>9. /\ Facts(g).dhcp = Facts(f).dhcp /\ Facts(g).primary = Facts(f).primary
        /\ Facts(g).cidr = Facts(f).cidr \/ (Facts(f).cidr # Unset /\ Facts(g).cidr = Malformed)
    BY <2>8 DEF Facts
  <2>10. ResolveMode(a, old) = Facts(f) /\ ResolveMode(c, new) = Facts(g)
    BY <2>7 DEF f, g
  <2> QED BY <2>9, <2>10 DEF old, new
<1> QED BY <1>4, <1>5

LEMMA InterfacesWorn ==
  ASSUME NEW a, NEW c, Mistaken(a, c), NEW i \in DOMAIN a.nodes
  PROVE  /\ DOMAIN c.nodes[i].interfaces = DOMAIN a.nodes[i].interfaces
         /\ \A j \in DOMAIN a.nodes[i].interfaces :
              LET old == a.nodes[i].interfaces[j]
                  new == c.nodes[i].interfaces[j]
              IN /\ new.slot = old.slot /\ new.network = old.network /\ new.dhcp = old.dhcp /\ new.primary = old.primary
                 /\ new.mac = old.mac \/ new.mac = Malformed
                 /\ \A attr \in DOMAIN Bad : new[attr] = old[attr] \/ (old[attr] # Unset /\ new[attr] = Bad[attr])
                 /\ \A attr \in DOMAIN Bad : new[attr] = Bad[attr] =>
                      <<InterfaceWrong[attr], <<i, j>>>> \in InterfaceFaults(c, i, j)
<1>1. WornNode(a.nodes[i], c.nodes[i])
  BY FineBefore
<1>2. \A j \in DOMAIN a.nodes[i].interfaces :
        /\ Same(a.nodes[i].interfaces[j], c.nodes[i].interfaces[j], {"slot", "network", "dhcp", "primary"})
        /\ Worn(a.nodes[i].interfaces[j], c.nodes[i].interfaces[j], DOMAIN Bad)
  BY <1>1 DEF WornNode
<1>3. \A j, attr : attr \in DOMAIN Bad /\ c.nodes[i].interfaces[j][attr] = Bad[attr] =>
        <<InterfaceWrong[attr], <<i, j>>>> \in InterfaceFaults(c, i, j)
  BY Zenon DEF InterfaceFaults
<1>4. DOMAIN c.nodes[i].interfaces = DOMAIN a.nodes[i].interfaces
  BY <1>1 DEF WornNode
<1>5. \A j \in DOMAIN a.nodes[i].interfaces :
        c.nodes[i].interfaces[j].mac = a.nodes[i].interfaces[j].mac \/ c.nodes[i].interfaces[j].mac = Malformed
  BY <1>2, BadValues DEF Worn
<1> QED BY <1>2, <1>3, <1>4, <1>5 DEF Same, Worn

LEMMA InterfacesFaulty ==
  ASSUME NEW a, NEW c, Mistaken(a, c), NEW i \in DOMAIN a.nodes, NEW j \in DOMAIN a.nodes[i].interfaces
  PROVE  InterfaceDiags(c, c.nodes[i].interfaces[j], <<i, j>>) \subseteq InterfaceFaults(c, i, j)
<1> DEFINE old == a.nodes[i].interfaces[j]
           new == c.nodes[i].interfaces[j]
           at == <<i, j>>
           faults == InterfaceFaults(c, i, j)
           p == ResolveMode(a, old)
           q == ResolveMode(c, new)
<1>1. /\ new.network = old.network /\ new.dhcp = old.dhcp /\ new.primary = old.primary
      /\ \A attr \in DOMAIN Bad : new[attr] = old[attr] \/ (old[attr] # Unset /\ new[attr] = Bad[attr])
      /\ \A attr \in DOMAIN Bad : new[attr] = Bad[attr] => <<InterfaceWrong[attr], at>> \in faults
  <2> HIDE DEF faults
  <2>1. /\ new.network = old.network /\ new.dhcp = old.dhcp /\ new.primary = old.primary
        /\ \A attr \in DOMAIN Bad : new[attr] = old[attr] \/ (old[attr] # Unset /\ new[attr] = Bad[attr])
    BY InterfacesWorn
  <2>2. \A attr \in DOMAIN Bad : new[attr] = Bad[attr] => <<InterfaceWrong[attr], at>> \in faults
    BY InterfacesWorn DEF faults
  <2> QED BY <2>1, <2>2
<1>2. old.mac # Malformed /\ ModeDiags(a, old, at) = {} /\ ValidateAddress(p, old.address, at) = {}
  BY FineBefore, ResolvesInOrder, InterfaceInOrder
<1>3. q.dhcp = p.dhcp /\ (q.cidr = p.cidr \/ (p.cidr # Unset /\ q.cidr = Malformed))
  BY ModesWorn
<1>4. Names(c.networks) = Names(a.networks)
  BY DEF Mistaken, Slipped, WornNetworks, Same, Names
<1> HIDE DEF old, new, at, faults, p, q
<1>5. Diag(new.mac = Malformed, <<"Invalid network_interface mac", at>>) \subseteq faults
  <2>1. new.mac = Bad.mac => <<InterfaceWrong.mac, at>> \in faults
    BY <1>1, BadValues
  <2> QED BY <2>1, BadValues DEF Diag, InterfaceWrong
<1>6. /\ new.vlan = old.vlan \/ (old.vlan # Unset /\ new.vlan = Bad.vlan)
      /\ new.mtu = old.mtu \/ (old.mtu # Unset /\ new.mtu = Bad.mtu)
      /\ new.cidr = old.cidr \/ (old.cidr # Unset /\ new.cidr = Malformed)
      /\ new.address = old.address \/ (old.address # Unset /\ new.address = Malformed)
      /\ new.vlan = Bad.vlan => <<"Invalid network_interface vlan", at>> \in faults
      /\ new.mtu = Bad.mtu => <<"Invalid network_interface mtu", at>> \in faults
      /\ new.cidr = Malformed => <<"Invalid network_interface cidr", at>> \in faults
      /\ new.address = Malformed => <<"Invalid network_interface address", at>> \in faults
  BY <1>1, BadValues DEF InterfaceWrong
<1>7. ModeDiags(c, new, at) \subseteq faults
  <2>1. CASE old.network # Unset
    <3>1. InlineModeAttrs(old) = {} /\ old.network \in Names(a.networks)
      BY <1>2, <2>1 DEF ModeDiags, Diag
    <3>2. InlineModeAttrs(new) = {}
      BY <1>1, <1>6, <3>1 DEF InlineModeAttrs, ModeAttrs
    <3> QED BY <1>1, <1>4, <2>1, <3>1, <3>2 DEF ModeDiags, Diag
  <2>2. CASE old.network = Unset
    <3> DEFINE r == Facts(old)
               s == Facts(new)
    <3>1. old.dhcp # Unset /\ ValidateInline(r, at) = {}
      BY <1>2, <2>2 DEF ModeDiags
    <3>2. ModeDiags(c, new, at) = ValidateInline(s, at)
      BY <1>1, <2>2, <3>1 DEF ModeDiags
    <3>3. /\ s.dhcp = r.dhcp /\ s.primary = r.primary
          /\ s.vlan = r.vlan \/ (new.vlan = Bad.vlan)
          /\ s.mtu = r.mtu \/ (new.mtu = Bad.mtu)
          /\ s.cidr = r.cidr \/ (r.cidr # Unset /\ s.cidr = Malformed)
          /\ s.cidr = new.cidr
      BY <1>1, <1>6 DEF Facts
    <3> HIDE DEF r, s
    <3>4. /\ ~InvalidVLAN(r.vlan) /\ ~InvalidMTU(r.mtu) /\ ~(r.primary /\ ~r.dhcp)
          /\ ~(r.dhcp /\ r.cidr # Unset) /\ ~(~r.dhcp /\ r.cidr = Malformed)
      BY <3>1 DEF ValidateInline, Diag
    <3>5. /\ InvalidVLAN(s.vlan) => <<"Invalid network_interface vlan", at>> \in faults
          /\ InvalidMTU(s.mtu) => <<"Invalid network_interface mtu", at>> \in faults
          /\ ~(s.primary /\ ~s.dhcp) /\ ~(s.dhcp /\ s.cidr # Unset)
          /\ ~s.dhcp /\ s.cidr = Malformed => <<"Invalid network_interface cidr", at>> \in faults
      BY <1>6, <3>3, <3>4, BadValues
    <3> QED BY <3>2, <3>5 DEF ValidateInline, Diag
  <2> QED BY <2>1, <2>2
<1>8. ValidateAddress(q, new.address, at) \subseteq faults
  <2>1. CASE p.dhcp
    <3>1. old.address = Unset
      BY <1>2, <2>1 DEF ValidateAddress, Diag
    <3>2. new.address = Unset
      BY <1>6, <3>1
    <3> QED BY <1>3, <2>1, <3>2 DEF ValidateAddress, Diag
  <2>2. CASE ~p.dhcp
    <3>1. old.address # Unset /\ old.address # Malformed
      BY <1>2, <2>2 DEF ValidateAddress
    <3>2. CASE new.address = Malformed
      <4>1. ValidateAddress(q, new.address, at) = {<<"Invalid network_interface address", at>>}
        BY <1>3, <2>2, <3>2, BadValues DEF ValidateAddress
      <4> QED BY <1>6, <3>2, <4>1
    <3>3. CASE new.address # Malformed /\ q.cidr \in {Unset, Malformed}
      <4>1. new.address = old.address
        BY <1>6, <3>3
      <4>2. ValidateAddress(q, new.address, at) = {}
        BY <1>3, <2>2, <3>1, <3>3, <4>1 DEF ValidateAddress
      <4> QED BY <4>2
    <3>4. CASE new.address # Malformed /\ q.cidr \notin {Unset, Malformed}
      <4>1. new.address = old.address /\ q.cidr = p.cidr
        BY <1>3, <1>6, <3>4
      <4>2. ValidateAddress(q, new.address, at) = ValidateAddress(p, old.address, at)
        BY <1>3, <4>1, Zenon DEF ValidateAddress
      <4> QED BY <1>2, <4>2
    <3> QED BY <3>2, <3>3, <3>4
  <2> QED BY <2>1, <2>2
<1>9. InterfaceDiags(c, new, at) \subseteq faults
  BY <1>5, <1>7, <1>8 DEF InterfaceDiags, Staged, q
<1> QED BY <1>9 DEF new, at, faults

LEMMA ResolvesFaulty ==
  ASSUME NEW a, NEW c, Mistaken(a, c), NEW i \in DOMAIN c.nodes
  PROVE  ResolveNode(c, i) \subseteq UNION {InterfaceFaults(c, i, j) : j \in DOMAIN c.nodes[i].interfaces}
<1> DEFINE ifaces == c.nodes[i].interfaces
           Early(j) == \E k \in 1 .. j - 1 : ifaces[k].slot = ifaces[j].slot
           Interface(j) ==
             Diag(ifaces[j].slot = -1, <<"Invalid network_interface label", <<i, j>>>>)
             \cup Diag(Early(j), <<"Duplicate network_interface label", <<i, j>>>>)
             \cup InterfaceDiags(c, ifaces[j], <<i, j>>)
           primaries == {j \in DOMAIN ifaces : ResolveMode(c, ifaces[j]).primary}
           all == UNION {Interface(j) : j \in DOMAIN ifaces}
           other == Diag(Cardinality(primaries) # 1, <<"Exactly one primary interface required", i>>)
           olds == a.nodes[i].interfaces
<1>1. ResolveNode(c, i) = IF ifaces = <<>> THEN {<<"Missing network interface", i>>} ELSE Staged(all, other)
  BY Zenon DEF ResolveNode, Each
<1>2. i \in DOMAIN a.nodes /\ ResolveNode(a, i) = {}
  BY FineBefore
<1>3. /\ olds # <<>> /\ Cardinality({j \in DOMAIN olds : ResolveMode(a, olds[j]).primary}) = 1
      /\ \A j \in DOMAIN olds : olds[j].slot # -1 /\ ~\E k \in 1 .. j - 1 : olds[k].slot = olds[j].slot
  BY <1>2, ResolvesInOrder
<1>4. DOMAIN ifaces = DOMAIN olds /\ \A j \in DOMAIN olds : ifaces[j].slot = olds[j].slot
  BY <1>2, InterfacesWorn
<1>5. IsList(ifaces) /\ IsList(olds)
  BY <1>2 DEF Mistaken, Decoded, DecodedNode
<1>6. /\ DOMAIN ifaces = 1 .. Cardinality(DOMAIN ifaces) /\ Cardinality(DOMAIN ifaces) \in Nat
      /\ ifaces # <<>>
  <2> HIDE DEF ifaces, olds
  <2> QED BY <1>3, <1>4, <1>5, ListDomain
<1>7. ASSUME NEW j \in DOMAIN ifaces PROVE Interface(j) \subseteq InterfaceFaults(c, i, j)
  <2>1. InterfaceDiags(c, ifaces[j], <<i, j>>) \subseteq InterfaceFaults(c, i, j)
    BY <1>2, <1>4, <1>7, InterfacesFaulty
  <2>2. ifaces[j].slot # -1 /\ ~Early(j)
    <3> HIDE DEF ifaces, olds
    <3> QED BY <1>3, <1>4, <1>6, <1>7
  <2> HIDE DEF Early, ifaces
  <2> QED BY <2>1, <2>2 DEF Diag
<1>8. Cardinality(primaries) = 1
  <2>1. \A j \in DOMAIN olds : ResolveMode(c, ifaces[j]).primary = ResolveMode(a, olds[j]).primary
    BY <1>2, ModesWorn
  <2>2. primaries = {j \in DOMAIN olds : ResolveMode(a, olds[j]).primary}
    <3> HIDE DEF ifaces, olds
    <3> QED BY <1>4, <2>1
  <2> QED BY <1>3, <2>2
<1>9. other = {}
  BY <1>8 DEF Diag
<1> HIDE DEF Interface, other, Early
<1>10. all \subseteq UNION {InterfaceFaults(c, i, j) : j \in DOMAIN ifaces}
  BY <1>7
<1> HIDE DEF all
<1> QED BY <1>1, <1>6, <1>9, <1>10 DEF Staged

\* Nothing that resolves has an address that nothing had before.
LEMMA MACsFine ==
  ASSUME NEW a, NEW c, Mistaken(a, c)
  PROVE  ValidateInterfaceMACs(c) = {}
<1>1. DOMAIN c.nodes = DOMAIN a.nodes
  BY FineBefore
<1>2. ASSUME NEW i \in DOMAIN a.nodes, NEW r \in ResolvedInterfaces(c, i)
      PROVE  \E q \in ResolvedInterfaces(a, i) : q.mac = r.mac /\ q.slot = r.slot
  <2>1. ResolveNode(c, i) = {}
    BY <1>2 DEF ResolvedInterfaces
  <2>2. PICK j \in DOMAIN c.nodes[i].interfaces : r = ResolveInterface(c, c.nodes[i].interfaces[j])
    BY <1>2, <2>1 DEF ResolvedInterfaces
  <2> DEFINE old == a.nodes[i].interfaces[j]
             new == c.nodes[i].interfaces[j]
             q == ResolveInterface(a, old)
  <2>3. new.mac # Malformed
    <3>1. InterfaceDiags(c, new, <<i, j>>) = {}
      BY <1>1, <2>1, ResolvesInOrder
    <3> HIDE DEF new
    <3> QED BY <3>1, InterfaceInOrder
  <2>4. j \in DOMAIN a.nodes[i].interfaces /\ new.slot = old.slot /\ new.mac = old.mac
    <3>1. j \in DOMAIN a.nodes[i].interfaces
      BY InterfacesWorn
    <3> QED BY <2>3, <3>1, InterfacesWorn
  <2>5. q \in ResolvedInterfaces(a, i)
    BY <2>4, FineBefore DEF ResolvedInterfaces
  <2>6. q.mac = r.mac /\ q.slot = r.slot
    <3> HIDE DEF old, new
    <3>1. r = ResolveInterface(c, new)
      BY <2>2 DEF new
    <3> QED BY <2>4, <3>1 DEF ResolveInterface, Resolved
  <2> QED BY <2>5, <2>6
<1>3. DOMAIN a.nodes = 1 .. Cardinality(DOMAIN a.nodes) /\ Cardinality(DOMAIN a.nodes) \in Nat
  BY ListDomain DEF Mistaken, Decoded
<1>4. ASSUME NEW i \in DOMAIN a.nodes, NEW r \in ResolvedInterfaces(c, i), Taken(c, i, r) PROVE FALSE
  <2>1. PICK k \in 1 .. i : \E q \in ResolvedInterfaces(c, k) : q.mac = r.mac /\ (k < i \/ q.slot < r.slot)
    BY <1>4 DEF Taken
  <2>2. k \in DOMAIN a.nodes
    BY <1>3
  <2>3. PICK q \in ResolvedInterfaces(c, k) : q.mac = r.mac /\ (k < i \/ q.slot < r.slot)
    BY <2>1
  <2>4. PICK s \in ResolvedInterfaces(a, k) : s.mac = q.mac /\ s.slot = q.slot
    BY <1>2, <2>2
  <2>5. PICK t \in ResolvedInterfaces(a, i) : t.mac = r.mac /\ t.slot = r.slot
    BY <1>2
  <2>6. Taken(a, i, t)
    BY <2>3, <2>4, <2>5 DEF Taken
  <2> DEFINE Of(n) == {<<"Duplicate network_interface mac", n, u.slot>> :
                           u \in {u \in ResolvedInterfaces(a, n) : Taken(a, n, u)}}
  <2>7. <<"Duplicate network_interface mac", i, t.slot>> \in Of(i)
    BY <2>6
  <2>8. ValidateInterfaceMACs(a) = UNION {Of(n) : n \in DOMAIN a.nodes}
    BY Zenon DEF ValidateInterfaceMACs
  <2> HIDE DEF Of
  <2>9. ValidateInterfaceMACs(a) # {}
    BY <2>7, <2>8
  <2> QED BY <2>9, FineBefore
<1> QED BY <1>1, <1>4 DEF ValidateInterfaceMACs

LEMMA DecodesFine ==
  ASSUME NEW a, NEW c, Mistaken(a, c)
  PROVE  Decode(c) = {}
<1> DEFINE Before(x, y) == x[1] < y[1] \/ (x[1] = y[1] /\ x[2] < y[2])
           MAC(x, at) == x.nodes[at[1]].interfaces[at[2]].mac
           Repeated(x, at) == MAC(x, at) # Malformed /\ \E b \in Interfaces(x) : Before(b, at) /\ MAC(x, b) = MAC(x, at)
           Again(x, i) == \E k \in 1 .. i - 1 : x.nodes[k].vmid = x.nodes[i].vmid
<1>1. DOMAIN c.nodes = DOMAIN a.nodes
  BY FineBefore
<1>2. \A i \in DOMAIN a.nodes :
        c.nodes[i].vmid = a.nodes[i].vmid /\ DOMAIN c.nodes[i].interfaces = DOMAIN a.nodes[i].interfaces
  BY FineBefore DEF WornNode, Same
<1>3. \A i \in DOMAIN a.nodes : \A j \in DOMAIN a.nodes[i].interfaces :
        c.nodes[i].interfaces[j].mac = a.nodes[i].interfaces[j].mac \/ c.nodes[i].interfaces[j].mac = Malformed
  BY InterfacesWorn
<1>4. DOMAIN a.nodes = 1 .. Cardinality(DOMAIN a.nodes) /\ Cardinality(DOMAIN a.nodes) \in Nat
  BY ListDomain DEF Mistaken, Decoded
<1>5. Interfaces(c) = Interfaces(a)
  <2> DEFINE Of(x, i) == {i} \X DOMAIN x.nodes[i].interfaces
  <2>1. \A i \in DOMAIN a.nodes : Of(c, i) = Of(a, i)
    BY <1>2
  <2>2. \A x : Interfaces(x) = UNION {Of(x, i) : i \in DOMAIN x.nodes}
    BY Zenon DEF Interfaces
  <2> HIDE DEF Of
  <2> QED BY <1>1, <2>1, <2>2
<1>6. \A at \in Interfaces(a) : MAC(c, at) = MAC(a, at) \/ MAC(c, at) = Malformed
  <2>1. \A at \in Interfaces(a) : at[1] \in DOMAIN a.nodes /\ at[2] \in DOMAIN a.nodes[at[1]].interfaces
    BY DEF Interfaces
  <2> QED BY <1>3, <2>1
<1>7. \A at \in Interfaces(a) : Repeated(c, at) => Repeated(a, at)
  <2> HIDE DEF MAC, Before
  <2> QED BY <1>5, <1>6
<1>8. \A i \in DOMAIN a.nodes : Again(c, i) => Again(a, i)
  <2>1. \A i \in DOMAIN a.nodes : \A k \in 1 .. i - 1 : k \in DOMAIN a.nodes
    BY <1>4
  <2> QED BY <1>2, <2>1
<1>9. \A x : Decode(x) = {<<"Duplicate vmid", i>> : i \in {i \in DOMAIN x.nodes : Again(x, i)}}
                         \cup {<<"Duplicate mac", at>> : at \in {at \in Interfaces(x) : Repeated(x, at)}}
  BY Zenon DEF Decode
<1> HIDE DEF Again, Repeated
<1> DEFINE Agains(x) == {i \in DOMAIN x.nodes : Again(x, i)}
           Repeats(x) == {at \in Interfaces(x) : Repeated(x, at)}
<1>10. Agains(c) \subseteq Agains(a) /\ Repeats(c) \subseteq Repeats(a)
  BY <1>1, <1>5, <1>7, <1>8
<1>11. \A x : Decode(x) = {<<"Duplicate vmid", i>> : i \in Agains(x)} \cup {<<"Duplicate mac", at>> : at \in Repeats(x)}
  BY <1>9, Zenon
<1>12. Decode(a) = {}
  BY FineBefore
<1> HIDE DEF Agains, Repeats
<1>13. Agains(a) = {} /\ Repeats(a) = {}
  BY <1>11, <1>12
<1> QED BY <1>10, <1>11, <1>13

LEMMA OnlyFaults ==
  ASSUME NEW a, NEW c, Mistaken(a, c)
  PROVE  Load(c) \subseteq Faults(c)
<1>1. Load(c) \subseteq ValidateAndNormalize(c)
  BY DecodesFine, RuntimesFine DEF Load, Staged
<1>2. ResolveInterfaces(c) \subseteq
        UNION {UNION {InterfaceFaults(c, i, j) : j \in DOMAIN c.nodes[i].interfaces} : i \in DOMAIN c.nodes}
  <2> DEFINE Of(i) == UNION {InterfaceFaults(c, i, j) : j \in DOMAIN c.nodes[i].interfaces}
  <2>1. \A i \in DOMAIN c.nodes : ResolveNode(c, i) \subseteq Of(i)
    BY ResolvesFaulty
  <2> HIDE DEF Of
  <2>2. ResolveInterfaces(c) \subseteq UNION {Of(i) : i \in DOMAIN c.nodes}
    BY <2>1 DEF ResolveInterfaces
  <2> QED BY <2>2 DEF Of
<1>3. ValidateAndNormalize(c) =
        ValidateTalosCluster(c) \cup ValidateProfiles(c) \cup ValidateNetworks(c) \cup ValidateLabels(c)
        \cup ResolveInterfaces(c)
  BY BlocksFine, RuntimesFine, MACsFine DEF ValidateAndNormalize
<1> QED BY <1>1, <1>2, <1>3, PinsFaulty, ProfilesFaulty, NetworksFaulty, LabelsFaulty DEF Faults

\* What is wrong in the file so far, and how many slips it took.
Blame ==
  /\ Decoded(draft) /\ slips \in Nat
  /\ slips > 0 => /\ \E a : Mistaken(a, draft)
                  /\ IsFiniteSet(Faults(draft)) /\ Cardinality(Faults(draft)) <= slips
                  /\ Faults(draft) # {}

(***************************************************************************)
(* From any file that decodes and is accepted: however many values Slip    *)
(* makes wrong in themselves, Load has an error and no more errors than    *)
(* there are of them (validateNetworks, resolveInline, validateAddress).   *)
(***************************************************************************)
THEOREM MistakesCounted == DraftSpec => []OneErrorPerMistake
<1>1. DraftInit => Blame
  BY DraftingAssumption DEF DraftInit, Blame
<1>2. Blame /\ [DraftNext]_draftVars => Blame'
  <2>1. CASE UNCHANGED draftVars
    BY <2>1 DEF Blame, draftVars
  <2>2. ASSUME Blame, Edit PROVE Blame'
    BY <2>2, EditDecoded DEF Blame, Edit
  <2>3. ASSUME Blame, Slip PROVE Blame'
    <3>1. Decoded(draft) /\ slips \in Nat /\ slips' = slips + 1
      BY <2>3 DEF Blame, Slip
    <3>2. OneFault(draft, draft')
      BY <2>3, <3>1, SlipEffect
    <3>3. PICK x : x \in Faults(draft') /\ Faults(draft') \subseteq Faults(draft) \cup {x}
      BY <3>2 DEF OneFault
    <3>4. Decoded(draft') /\ Slipped(draft, draft')
      BY <3>2 DEF OneFault
    <3>5. IsFiniteSet(Faults(draft)) /\ Cardinality(Faults(draft)) <= slips
      <4>1. CASE slips = 0
        <5>1. Faults(draft) = {}
          BY <2>3, <4>1, AcceptedFaultless DEF Slip
        <5> QED BY <4>1, <5>1, FS_EmptySet
      <4>2. CASE slips # 0
        BY <2>3, <3>1, <4>2 DEF Blame
      <4> QED BY <4>1, <4>2
    <3>6. IsFiniteSet(Faults(draft')) /\ Cardinality(Faults(draft')) <= slips'
      <4>1. /\ IsFiniteSet(Faults(draft) \cup {x})
            /\ Cardinality(Faults(draft) \cup {x}) \in {Cardinality(Faults(draft)), Cardinality(Faults(draft)) + 1}
        BY <3>5, FS_AddElement
      <4>2. IsFiniteSet(Faults(draft')) /\ Cardinality(Faults(draft')) <= Cardinality(Faults(draft) \cup {x})
        BY <3>3, <4>1, FS_Subset
      <4>3. Cardinality(Faults(draft)) \in Nat /\ Cardinality(Faults(draft')) \in Nat
        BY <3>5, <4>2, FS_CardinalityType
      <4> QED BY <3>1, <3>5, <4>1, <4>2, <4>3
    <3>7. \E a : Mistaken(a, draft')
      <4>1. CASE slips = 0
        <5>1. Mistaken(draft, draft')
          BY <2>3, <3>1, <3>4, <4>1 DEF Mistaken, Slip
        <5> QED BY <5>1
      <4>2. CASE slips # 0
        <5>1. PICK a : Mistaken(a, draft)
          BY <2>3, <3>1, <4>2 DEF Blame
        <5>2. Mistaken(a, draft')
          BY <3>4, <5>1, SlippedOn DEF Mistaken
        <5> QED BY <5>2
      <4> QED BY <4>1, <4>2
    <3> QED BY <3>1, <3>3, <3>4, <3>6, <3>7 DEF Blame
  <2> QED BY <2>1, <2>2, <2>3 DEF DraftNext
<1>3. Blame => OneErrorPerMistake
  <2> SUFFICES ASSUME Blame, slips > 0
               PROVE  Load(draft) # {} /\ Cardinality(Load(draft)) <= slips
    BY DEF OneErrorPerMistake
  <2>1. PICK a : Mistaken(a, draft)
    BY DEF Blame
  <2>2. IsFiniteSet(Faults(draft)) /\ Cardinality(Faults(draft)) <= slips /\ Faults(draft) # {} /\ slips \in Nat
    BY DEF Blame
  <2>3. Load(draft) # {}
    BY <2>2, AcceptedFaultless DEF Accepted
  <2>4. Load(draft) \subseteq Faults(draft)
    BY <2>1, OnlyFaults
  <2>5. IsFiniteSet(Load(draft)) /\ Cardinality(Load(draft)) <= Cardinality(Faults(draft))
    BY <2>2, <2>4, FS_Subset
  <2>6. Cardinality(Load(draft)) \in Nat /\ Cardinality(Faults(draft)) \in Nat
    BY <2>2, <2>5, FS_CardinalityType
  <2> QED BY <2>2, <2>3, <2>5, <2>6
<1> QED BY <1>1, <1>2, <1>3, PTL DEF DraftSpec
-----------------------------------------------------------------------------
(***************************************************************************)
(* The config, from the file to what booty and talos apply make of it.     *)
(***************************************************************************)

\* The blocks of a cluster are lists, as a decoder leaves them.
Lists(c) ==
  /\ \E n \in Nat : DOMAIN c.nodes = 1 .. n
  /\ \A i \in DOMAIN c.nodes : \E n \in Nat : DOMAIN c.nodes[i].interfaces = 1 .. n

\* What has no error has none of any kind.
LEMMA Validated ==
  ASSUME NEW c, Accepted(c)
  PROVE  /\ ResolveInterfaces(c) = {} /\ ValidateInterfaceMACs(c) = {}
         /\ ValidateLabels(c) = {} /\ ValidateTalos(c) = {}
  BY NothingWrong

LEMMA Resolves ==
  ASSUME NEW c, Accepted(c), NEW i \in DOMAIN c.nodes
  PROVE  ResolveNode(c, i) = {}
  BY Validated DEF ResolveInterfaces

\* Counting: sets of at most one element.
LEMMA Lone ==
  ASSUME NEW S, IsFiniteSet(S), Cardinality(S) <= 1, NEW x \in S, NEW y \in S
  PROVE  x = y
<1>1. Cardinality(S) \in Nat /\ Cardinality(S) # 0
  BY FS_CardinalityType, FS_EmptySet
<1>2. Cardinality(S) = 1
  BY <1>1
<1> QED BY <1>2, FS_Singleton

\* A node that resolves has one interface in a slot, and one primary interface.
LEMMA SlotsAndPrimary ==
  ASSUME NEW c, Lists(c), NEW i \in DOMAIN c.nodes, ResolveNode(c, i) = {}
  PROVE  /\ \A j, k \in DOMAIN c.nodes[i].interfaces :
              c.nodes[i].interfaces[j].slot = c.nodes[i].interfaces[k].slot => j = k
         /\ \E j \in DOMAIN c.nodes[i].interfaces :
              \A k \in DOMAIN c.nodes[i].interfaces :
                ResolveMode(c, c.nodes[i].interfaces[k]).primary <=> k = j
<1> DEFINE ifaces == c.nodes[i].interfaces
           primaries == {j \in DOMAIN ifaces : ResolveMode(c, ifaces[j]).primary}
<1>1. PICK n \in Nat : DOMAIN ifaces = 1 .. n
  BY DEF Lists
<1>2. /\ \A j \in DOMAIN ifaces : ~ \E k \in 1 .. j - 1 : ifaces[k].slot = ifaces[j].slot
      /\ Cardinality(primaries) = 1
  BY ResolvesInOrder
<1>3. IsFiniteSet(primaries)
  BY <1>1, FS_Interval, FS_Subset
<1>4. \E j : primaries = {j}
  BY <1>2, <1>3, FS_Singleton
<1> QED
  <2>1. ASSUME NEW j \in DOMAIN ifaces, NEW k \in DOMAIN ifaces, ifaces[j].slot = ifaces[k].slot PROVE j = k
    <3>1. j \in 1 .. n /\ k \in 1 .. n
      BY <1>1
    <3>2. j < k => j \in 1 .. k - 1
      BY <3>1
    <3>3. k < j => k \in 1 .. j - 1
      BY <3>1
    <3> QED BY <1>2, <2>1, <3>1, <3>2, <3>3
  <2> QED BY <1>4, <2>1

LEMMA Resolution ==
  ASSUME NEW c, Lists(c), Accepted(c), NEW i \in DOMAIN c.nodes
  PROVE  /\ \A r, q \in ResolvedInterfaces(c, i) : r.slot = q.slot => r = q
         /\ PrimaryInterface(c, i) \in ResolvedInterfaces(c, i)
         /\ IsFiniteSet(ResolvedInterfaces(c, i))
<1> DEFINE ifaces == c.nodes[i].interfaces
           R(j) == ResolveInterface(c, ifaces[j])
<1>1. ResolveNode(c, i) = {}
  BY Resolves
<1>2. ResolvedInterfaces(c, i) = {R(j) : j \in DOMAIN ifaces}
  BY <1>1 DEF ResolvedInterfaces
<1>3. \A j : R(j).slot = ifaces[j].slot /\ R(j).primary = ResolveMode(c, ifaces[j]).primary
  BY DEF ResolveInterface, Resolved
<1> HIDE DEF R
<1>4. \A r, q \in ResolvedInterfaces(c, i) : r.slot = q.slot => r = q
  BY <1>1, <1>2, <1>3, SlotsAndPrimary
<1>5. PrimaryInterface(c, i) \in ResolvedInterfaces(c, i)
  <2>1. \E r \in ResolvedInterfaces(c, i) : r.primary
    BY <1>1, <1>2, <1>3, SlotsAndPrimary
  <2> QED BY <2>1 DEF PrimaryInterface
<1>6. IsFiniteSet(ResolvedInterfaces(c, i))
  <2>1. IsFiniteSet(DOMAIN ifaces)
    BY FS_Interval DEF Lists
  <2> DEFINE f == [j \in DOMAIN ifaces |-> R(j)]
  <2>2. f \in Surjection(DOMAIN ifaces, ResolvedInterfaces(c, i))
    BY <1>2 DEF Surjection
  <2> QED BY <2>1, <2>2, FS_Surjection
<1> QED BY <1>4, <1>5, <1>6

\* The VM boots from the address the catalog selects the node on.
LEMMA BootsFromPrimary ==
  ASSUME NEW c, Lists(c), Accepted(c), NEW i \in DOMAIN c.nodes
  PROVE  BootMAC(VMSpec(c, i)) = PrimaryInterface(c, i).mac
<1> DEFINE Nic(r) == [slot |-> r.slot, mac |-> r.mac, tag |-> r.vlan, mtu |-> r.mtu]
           P == PrimaryInterface(c, i)
           nics == {Nic(r) : r \in ResolvedInterfaces(c, i)}
<1>1. Nic(P) \in nics /\ Nic(P).slot = P.slot /\ Nic(P).mac = P.mac
  BY Resolution
<1>2. \A nic \in nics : nic.slot = P.slot => nic = Nic(P)
  BY Resolution
<1>3. VMSpec(c, i).nics = nics /\ VMSpec(c, i).boot = P.slot
  BY DEF VMSpec, BootOrder
<1> HIDE DEF nics, P, Nic
<1> QED BY <1>1, <1>2, <1>3 DEF BootMAC, P

\* Two nodes have no address in common.
LEMMA OneNodePerMAC ==
  ASSUME NEW c, Lists(c), Accepted(c), NEW i \in DOMAIN c.nodes, NEW k \in DOMAIN c.nodes,
         NEW r \in ResolvedInterfaces(c, i), NEW q \in ResolvedInterfaces(c, k), r.mac = q.mac
  PROVE  i = k
<1>1. \A a \in DOMAIN c.nodes : \A x \in ResolvedInterfaces(c, a) : ~Taken(c, a, x)
  <2> DEFINE Repeats(a) == {<<"Duplicate network_interface mac", a, x.slot>> :
                              x \in {x \in ResolvedInterfaces(c, a) : Taken(c, a, x)}}
  <2>1. ValidateInterfaceMACs(c) = UNION {Repeats(a) : a \in DOMAIN c.nodes}
    BY DEF ValidateInterfaceMACs
  <2> HIDE DEF Repeats
  <2>2. \A a \in DOMAIN c.nodes : Repeats(a) = {}
    BY <2>1, Validated
  <2> QED BY <2>2 DEF Repeats
<1>2. \A a \in DOMAIN c.nodes : \A x \in ResolvedInterfaces(c, a) :
        \A b \in 1 .. a - 1 : \A y \in ResolvedInterfaces(c, b) : y.mac # x.mac
  <2>1. ASSUME NEW a \in DOMAIN c.nodes, NEW b \in 1 .. a - 1 PROVE b \in 1 .. a /\ b < a
    BY DEF Lists
  <2> QED BY <1>1, <2>1 DEF Taken
<1>3. i \in Nat \ {0} /\ k \in Nat \ {0}
  BY DEF Lists
<1>4. i \notin 1 .. k - 1 /\ k \notin 1 .. i - 1
  BY <1>2
<1> QED BY <1>3, <1>4

LEMMA FiniteImage ==
  ASSUME NEW S, IsFiniteSet(S), NEW f, DOMAIN f = S
  PROVE  IsFiniteSet({f[x] : x \in S})
<1> DEFINE T == {f[x] : x \in S}
           g == [x \in S |-> f[x]]
<1>1. g \in Surjection(S, T)
  BY DEF Surjection
<1> HIDE DEF T
<1> QED BY <1>1, FS_Surjection DEF T

LEMMA NodesOfARole ==
  ASSUME NEW c, Lists(c), NEW role
  PROVE  /\ IsFiniteSet(OfRole(c, role))
         /\ IsFiniteSet({Schematic(c, i) : i \in OfRole(c, role)})
         /\ IsFiniteSet(LabelSets(c, role))
<1>1. IsFiniteSet(OfRole(c, role))
  BY FS_Interval, FS_Subset DEF Lists, OfRole
<1>2. IsFiniteSet({Schematic(c, i) : i \in OfRole(c, role)})
  <2> DEFINE f == [i \in OfRole(c, role) |-> Schematic(c, i)]
  <2>1. IsFiniteSet({f[i] : i \in OfRole(c, role)})
    BY <1>1, FiniteImage
  <2> QED BY <2>1
<1>3. IsFiniteSet({ResolvedLabels(c, i) : i \in OfRole(c, role)})
  <2> DEFINE f == [i \in OfRole(c, role) |-> ResolvedLabels(c, i)]
  <2>1. IsFiniteSet({f[i] : i \in OfRole(c, role)})
    BY <1>1, FiniteImage
  <2> QED BY <2>1
<1>4. IsFiniteSet({<<>>})
  BY FS_Singleton
<1> QED BY <1>1, <1>2, <1>3, <1>4 DEF LabelSets

LEMMA FewerThanTwo ==
  ASSUME NEW S, IsFiniteSet(S), ~(Cardinality(S) > 1), NEW x \in S, NEW y \in S
  PROVE  x = y
  BY Lone, FS_CardinalityType

\* A path belongs to one role and label set, a name to one class of nodes.
LEMMA PathsTellClasses ==
  ASSUME NEW c, Lists(c), NEW role, NEW labels \in LabelSets(c, role),
         NEW other, NEW others \in LabelSets(c, other),
         TemplatePath(c, role, labels) = TemplatePath(c, other, others)
  PROVE  role = other /\ labels = others
<1>1. role = other /\ LabelSuffix(labels, LabelSplits(c, role)) = LabelSuffix(others, LabelSplits(c, role))
  BY DEF TemplatePath
<1>2. CASE LabelSplits(c, role)
  BY <1>1, <1>2 DEF LabelSuffix
<1>3. CASE ~LabelSplits(c, role)
  BY <1>1, <1>3, NodesOfARole, FewerThanTwo DEF LabelSplits
<1> QED BY <1>1, <1>2, <1>3

LEMMA NamesTellClasses ==
  ASSUME NEW c, Lists(c), NEW i \in DOMAIN c.nodes, NEW k \in DOMAIN c.nodes,
         ProfileName(c, i) = ProfileName(c, k)
  PROVE  /\ c.nodes[i].role = c.nodes[k].role
         /\ Schematic(c, i) = Schematic(c, k)
         /\ ResolvedLabels(c, i) = ResolvedLabels(c, k)
<1> DEFINE role == c.nodes[i].role
<1>1. /\ c.nodes[k].role = role
      /\ SchematicSplits(c, role) => Schematic(c, i) = Schematic(c, k)
      /\ TemplatePath(c, role, ResolvedLabels(c, i)) = TemplatePath(c, role, ResolvedLabels(c, k))
  BY DEF ProfileName, TemplatePath
<1>2. i \in OfRole(c, role) /\ k \in OfRole(c, role)
  BY <1>1 DEF OfRole
<1>3. ResolvedLabels(c, i) \in LabelSets(c, role) /\ ResolvedLabels(c, k) \in LabelSets(c, role)
  BY <1>2 DEF LabelSets
<1>4. ~SchematicSplits(c, role) => Schematic(c, i) = Schematic(c, k)
  <2> DEFINE S == {Schematic(c, n) : n \in OfRole(c, role)}
  <2>1. Schematic(c, i) \in S /\ Schematic(c, k) \in S /\ IsFiniteSet(S)
    BY <1>2, NodesOfARole
  <2>2. ~SchematicSplits(c, role) => ~(Cardinality(S) > 1)
    BY DEF SchematicSplits
  <2> HIDE DEF S
  <2> QED BY <2>1, <2>2, FewerThanTwo
<1> HIDE DEF role
<1>5. ResolvedLabels(c, i) = ResolvedLabels(c, k)
  BY <1>1, <1>3, PathsTellClasses
<1> QED BY <1>1, <1>4, <1>5 DEF role

LEMMA RoleKnown ==
  ASSUME NEW c, Accepted(c), NEW i \in DOMAIN c.nodes
  PROVE  c.nodes[i].role \in Roles
<1>1. UNION {ValidateTalosNode(c, k) : k \in DOMAIN c.nodes} = {}
  BY Validated DEF ValidateTalos
<1>2. ValidateTalosNode(c, i) = {}
  BY <1>1
<1> QED BY <1>2 DEF ValidateTalosNode, Diag, Roles

\* The template of a class, found by its path or by its role and labels.
LEMMA OneTemplate ==
  ASSUME NEW c, Lists(c), Accepted(c), NEW i \in DOMAIN c.nodes
  PROVE  LET role == c.nodes[i].role
             labels == ResolvedLabels(c, i)
             data == RoleTemplate(c, role, labels)
         IN /\ {t \in ClassTemplates(c) : TemplatePath(c, t.role, t.labels) = TemplatePath(c, role, labels)}
                 = {[role |-> role, labels |-> labels, data |-> data]}
            /\ {t \in ClassTemplates(c) : t.role = role /\ t.labels = labels}
                 = {[role |-> role, labels |-> labels, data |-> data]}
<1> DEFINE role == c.nodes[i].role
           labels == ResolvedLabels(c, i)
           Class(r, l) == [role |-> r, labels |-> l, data |-> RoleTemplate(c, r, l)]
<1>1. role \in Roles /\ labels \in LabelSets(c, role)
  BY RoleKnown DEF LabelSets, OfRole
<1>2. ClassTemplates(c) = UNION {{Class(r, l) : l \in LabelSets(c, r)} : r \in Roles}
  BY DEF ClassTemplates
<1>3. \A r, l : Class(r, l).role = r /\ Class(r, l).labels = l
  OBVIOUS
<1> HIDE DEF Class, role, labels
<1>4. Class(role, labels) \in ClassTemplates(c)
  BY <1>1, <1>2
<1>5. ASSUME NEW t \in ClassTemplates(c),
             TemplatePath(c, t.role, t.labels) = TemplatePath(c, role, labels)
      PROVE  t = Class(role, labels)
  <2>1. PICK r \in Roles : \E l \in LabelSets(c, r) : t = Class(r, l)
    BY <1>2
  <2>2. PICK l \in LabelSets(c, r) : t = Class(r, l)
    BY <2>1
  <2>3. r = role /\ l = labels
    BY <1>1, <1>3, <1>5, <2>2, PathsTellClasses
  <2> QED BY <2>2, <2>3
<1>6. {t \in ClassTemplates(c) : TemplatePath(c, t.role, t.labels) = TemplatePath(c, role, labels)}
        = {Class(role, labels)}
  BY <1>3, <1>4, <1>5
<1>7. {t \in ClassTemplates(c) : t.role = role /\ t.labels = labels} = {Class(role, labels)}
  BY <1>3, <1>4, <1>5
<1> QED BY <1>6, <1>7 DEF Class, role, labels

\* What booty says to a node, and that it says nothing else.
Answer(c, i) ==
  [boot   |-> Schematic(c, i),
   config |-> Execute(RoleTemplate(c, c.nodes[i].role, ResolvedLabels(c, i)),
                      GroupVars(c, i) ++ Only(InstallImageVarKey, Schematic(c, i)))]

LEMMA OneAnswer ==
  ASSUME NEW c, Lists(c), Accepted(c), NEW i \in DOMAIN c.nodes
  PROVE  Serve(Tree(c), BootMAC(VMSpec(c, i))) = {Answer(c, i)}
<1> DEFINE role == c.nodes[i].role
           labels == ResolvedLabels(c, i)
           mac == PrimaryInterface(c, i).mac
           path == TemplatePath(c, role, labels)
           Group(k) == CatalogGroup(c, k)
           Profile(k) == CatalogProfile(c, k)
           Template(t) == [path |-> TemplatePath(c, t.role, t.labels), data |-> t.data]
           class == [role |-> role, labels |-> labels, data |-> RoleTemplate(c, role, labels)]
<1>1. /\ Tree(c).catalog.groups = {Group(k) : k \in DOMAIN c.nodes}
      /\ Tree(c).catalog.profiles = {Profile(k) : k \in DOMAIN c.nodes}
      /\ Tree(c).templates = {Template(t) : t \in ClassTemplates(c)}
  BY DEF Tree, RenderCatalog
<1>2. {g \in Tree(c).catalog.groups : g.mac = mac} = {Group(i)}
  <2>1. ASSUME NEW k \in DOMAIN c.nodes, Group(k).mac = mac PROVE k = i
    <3>1. PrimaryInterface(c, k) \in ResolvedInterfaces(c, k) /\ PrimaryInterface(c, i) \in ResolvedInterfaces(c, i)
      BY Resolution
    <3>2. PrimaryInterface(c, k).mac = PrimaryInterface(c, i).mac
      BY <2>1 DEF CatalogGroup
    <3> QED BY <3>1, <3>2, OneNodePerMAC
  <2>2. Group(i).mac = mac
    BY DEF CatalogGroup
  <2> HIDE DEF Group, mac
  <2> QED BY <1>1, <2>1, <2>2
<1>3. {p \in Tree(c).catalog.profiles : p.name = ProfileName(c, i)} = {Profile(i)}
  <2>1. ASSUME NEW k \in DOMAIN c.nodes, Profile(k).name = ProfileName(c, i) PROVE Profile(k) = Profile(i)
    BY <2>1, NamesTellClasses DEF CatalogProfile
  <2>2. Profile(i).name = ProfileName(c, i)
    BY DEF CatalogProfile
  <2> HIDE DEF Profile
  <2> QED BY <1>1, <2>1, <2>2
<1>4. {t \in Tree(c).templates : t.path = path} = {Template(class)}
  <2>1. \A t : Template(t).path = TemplatePath(c, t.role, t.labels)
    OBVIOUS
  <2>2. {t \in ClassTemplates(c) : TemplatePath(c, t.role, t.labels) = path} = {class}
    BY OneTemplate
  <2> HIDE DEF Template, path, class
  <2> QED BY <1>1, <2>1, <2>2
<1>5. /\ Group(i).profile = ProfileName(c, i) /\ Group(i).vars = GroupVars(c, i)
      /\ Profile(i).template = path /\ Profile(i).boot = Schematic(c, i)
      /\ Profile(i).vars = Only(InstallImageVarKey, Schematic(c, i))
      /\ Template(class).data = RoleTemplate(c, role, labels)
  BY DEF CatalogGroup, CatalogProfile
<1> HIDE DEF Group, Profile, Template, class, path, mac
<1>6. Serve(Tree(c), mac)
        = {[boot |-> Profile(i).boot, config |-> Execute(Template(class).data, Group(i).vars ++ Profile(i).vars)]}
  BY <1>2, <1>3, <1>4, <1>5 DEF Serve
<1> QED BY <1>5, <1>6, BootsFromPrimary DEF Answer, mac

\* Without the catalog, the same config.
LEMMA AppliesTheAnswer ==
  ASSUME NEW c, Lists(c), Accepted(c), NEW i \in DOMAIN c.nodes
  PROVE  NodeConfig(c, i) = Answer(c, i).config
<1> DEFINE role == c.nodes[i].role
           labels == ResolvedLabels(c, i)
           class == [role |-> role, labels |-> labels, data |-> RoleTemplate(c, role, labels)]
<1>1. {t \in ClassTemplates(c) : t.role = role /\ t.labels = labels} = {class}
  BY OneTemplate
<1>2. (CHOOSE t \in ClassTemplates(c) : t.role = role /\ t.labels = labels) = class
  <2> HIDE DEF class, role, labels
  <2> QED BY <1>1
<1>3. class.data = RoleTemplate(c, role, labels)
  OBVIOUS
<1>4. NodeConfig(c, i) = Execute(class.data, GroupVars(c, i) ++ Only(InstallImageVarKey, Schematic(c, i)))
  <2> HIDE DEF class
  <2> QED BY <1>2 DEF NodeConfig
<1>5. Answer(c, i).config = Execute(RoleTemplate(c, role, labels), GroupVars(c, i) ++ Only(InstallImageVarKey, Schematic(c, i)))
  BY DEF Answer
<1> QED BY <1>3, <1>4, <1>5, Zenon

NodeVars(c, i) == GroupVars(c, i) ++ Only(InstallImageVarKey, Schematic(c, i))

\* Every variable of a template has the value of the node.
LEMMA KeysDiffer ==
  ASSUME NEW s, NEW q
  PROVE  /\ HostnameVarKey # InstallImageVarKey
         /\ HostnameVarKey # MACVarKey(s) /\ HostnameVarKey # AddressVarKey(s)
         /\ InstallImageVarKey # MACVarKey(s) /\ InstallImageVarKey # AddressVarKey(s)
         /\ MACVarKey(s) # AddressVarKey(q)
         /\ MACVarKey(s) = MACVarKey(q) => s = q
         /\ AddressVarKey(s) = AddressVarKey(q) => s = q
<1>1. /\ Len(<<"hostname">>) = 1 /\ Len(<<"install_image">>) = 1
      /\ Len(<<"mac", s>>) = 2 /\ Len(<<"address", s>>) = 2
  OBVIOUS
<1> QED BY <1>1 DEF HostnameVarKey, InstallImageVarKey, MACVarKey, AddressVarKey

LEMMA VarsOfNICs ==
  ASSUME NEW c, Lists(c), Accepted(c), NEW i \in DOMAIN c.nodes,
         ~(Cardinality(ResolvedInterfaces(c, i)) <= 1), NEW r \in ResolvedInterfaces(c, i)
  PROVE  LET values == InterfaceVars(ResolvedInterfaces(c, i))
         IN /\ MACVarKey(r.slot) \in DOMAIN values /\ values[MACVarKey(r.slot)] = r.mac
            /\ ~r.dhcp => AddressVarKey(r.slot) \in DOMAIN values /\ values[AddressVarKey(r.slot)] = r.address
<1> DEFINE nics == ResolvedInterfaces(c, i)
           static == {q \in nics : ~q.dhcp}
           mac == [key \in {MACVarKey(q.slot) : q \in nics} |-> (CHOOSE q \in nics : key = MACVarKey(q.slot)).mac]
           address == [key \in {AddressVarKey(q.slot) : q \in static} |->
                         (CHOOSE q \in static : key = AddressVarKey(q.slot)).address]
<1>1. InterfaceVars(nics) = mac ++ address
  BY DEF InterfaceVars
<1>2. \A q, p \in nics : q.slot = p.slot => q = p
  BY Resolution
<1>3. (CHOOSE q \in nics : MACVarKey(r.slot) = MACVarKey(q.slot)) = r
  BY <1>2, KeysDiffer
<1>4. ~r.dhcp => (CHOOSE q \in static : AddressVarKey(r.slot) = AddressVarKey(q.slot)) = r
  BY <1>2, KeysDiffer
<1>5. MACVarKey(r.slot) \in DOMAIN mac /\ mac[MACVarKey(r.slot)] = r.mac
  BY <1>3
<1>6. ~r.dhcp => AddressVarKey(r.slot) \in DOMAIN address /\ address[AddressVarKey(r.slot)] = r.address
  BY <1>4
<1>7. AddressVarKey(r.slot) \notin DOMAIN mac
  BY KeysDiffer
<1> HIDE DEF mac, address
<1>8. /\ MACVarKey(r.slot) \in DOMAIN (mac ++ address) /\ (mac ++ address)[MACVarKey(r.slot)] = r.mac
      /\ ~r.dhcp => /\ AddressVarKey(r.slot) \in DOMAIN (mac ++ address)
                    /\ (mac ++ address)[AddressVarKey(r.slot)] = r.address
  BY <1>5, <1>6, <1>7 DEF ++
<1> QED BY <1>1, <1>8

LEMMA VarsOfNode ==
  ASSUME NEW c, Lists(c), Accepted(c), NEW i \in DOMAIN c.nodes
  PROVE  /\ Fill(Var(HostnameVarKey), NodeVars(c, i)) = Text(c.nodes[i].name)
         /\ Fill(Var(InstallImageVarKey), NodeVars(c, i)) = Text(Schematic(c, i))
         /\ ~(Cardinality(ResolvedInterfaces(c, i)) <= 1) =>
              \A r \in ResolvedInterfaces(c, i) :
                /\ Fill(Var(MACVarKey(r.slot)), NodeVars(c, i)) = Text(r.mac)
                /\ ~r.dhcp => Fill(Var(AddressVarKey(r.slot)), NodeVars(c, i)) = Text(r.address)
<1> DEFINE nics == ResolvedInterfaces(c, i)
           values == NodeVars(c, i)
<1>1. \A key : key \in DOMAIN values => Fill(Var(key), values) = Text(values[key])
  BY DEF Fill, Var, Text
<1>2. HostnameVarKey \in DOMAIN values /\ values[HostnameVarKey] = c.nodes[i].name
  BY DEF NodeVars, GroupVars, Only, ++
<1>3. \A key \in DOMAIN InterfaceVars(nics) : \E s : key = MACVarKey(s) \/ key = AddressVarKey(s)
  <2>1. CASE Cardinality(nics) <= 1
    BY <2>1 DEF InterfaceVars
  <2>2. CASE ~(Cardinality(nics) <= 1)
    BY <2>2 DEF InterfaceVars, ++
  <2> QED BY <2>1, <2>2
<1>4. InstallImageVarKey \in DOMAIN values /\ values[InstallImageVarKey] = Schematic(c, i)
  <2>1. InstallImageVarKey \notin DOMAIN InterfaceVars(nics)
    BY <1>3, KeysDiffer
  <2>2. InstallImageVarKey \notin DOMAIN GroupVars(c, i)
    BY <2>1, KeysDiffer DEF GroupVars, Only, ++
  <2> QED BY <2>2 DEF NodeVars, Only, ++
<1>5. ASSUME NEW key \in DOMAIN InterfaceVars(nics)
      PROVE  key \in DOMAIN values /\ values[key] = InterfaceVars(nics)[key]
  <2>1. key # HostnameVarKey
    BY <1>3, KeysDiffer
  <2> QED BY <2>1 DEF NodeVars, GroupVars, Only, ++
<1>6. ASSUME ~(Cardinality(nics) <= 1), NEW r \in nics
      PROVE  /\ Fill(Var(MACVarKey(r.slot)), values) = Text(r.mac)
             /\ ~r.dhcp => Fill(Var(AddressVarKey(r.slot)), values) = Text(r.address)
  <2> HIDE DEF values
  <2> QED BY <1>1, <1>5, <1>6, VarsOfNICs
<1> QED BY <1>1, <1>2, <1>4, <1>6

\* The interfaces and the labels that the filled template declares are the node's.
LEMMA OwnInterfacesFilled ==
  ASSUME NEW c, Lists(c), Accepted(c), ShapesAgree(c), NEW i \in DOMAIN c.nodes, NEW labels
  PROVE  Execute(RoleTemplate(c, c.nodes[i].role, labels), NodeVars(c, i)).interfaces
           = OwnInterfaces(ResolvedInterfaces(c, i))
<1> DEFINE nics == ResolvedInterfaces(c, i)
           values == NodeVars(c, i)
           Shape(r) == [slot |-> r.slot, dhcp |-> r.dhcp, mtu |-> r.mtu]
           Device(s) == [hardwareAddr |-> Var(MACVarKey(s.slot)), dhcp |-> s.dhcp, mtu |-> s.mtu,
                         addresses |-> IF s.dhcp THEN {} ELSE {Var(AddressVarKey(s.slot))}]
           Filled(d) == [hardwareAddr |-> Fill(d.hardwareAddr, values), dhcp |-> d.dhcp, mtu |-> d.mtu,
                         addresses |-> {Fill(a, values) : a \in d.addresses}]
           Own(r) == [hardwareAddr |-> Text(r.mac), dhcp |-> r.dhcp, mtu |-> r.mtu,
                      addresses |-> IF r.dhcp THEN {} ELSE {Text(r.address)}]
           shape == NodeShape(c, i)
<1>1. RoleShape(c, c.nodes[i].role) = shape
  <2> DEFINE k == CHOOSE k \in OfRole(c, c.nodes[i].role) : TRUE
  <2>1. i \in OfRole(c, c.nodes[i].role)
    BY DEF OfRole
  <2>2. k \in DOMAIN c.nodes /\ c.nodes[k].role = c.nodes[i].role
    <3>1. k \in OfRole(c, c.nodes[i].role)
      BY <2>1
    <3> HIDE DEF k
    <3> QED BY <3>1 DEF OfRole
  <2>3. RoleShape(c, c.nodes[i].role) = NodeShape(c, k)
    BY <2>1 DEF RoleShape
  <2> HIDE DEF k
  <2> QED BY <2>2, <2>3 DEF ShapesAgree
<1>2. shape = {Shape(r) : r \in nics}
  BY DEF NodeShape
<1>3. /\ IsFiniteSet(nics) /\ PrimaryInterface(c, i) \in nics
      /\ \A r, q \in nics : r.slot = q.slot => r = q
  BY Resolution
<1>4. IsFiniteSet(shape)
  <2> DEFINE f == [r \in nics |-> Shape(r)]
  <2>1. IsFiniteSet({f[r] : r \in nics})
    BY <1>3, FiniteImage
  <2> HIDE DEF nics, Shape
  <2> QED BY <1>2, <2>1
<1>5. \A r : Shape(r).slot = r.slot
  OBVIOUS
<1>6. Cardinality(nics) <= 1 <=> Cardinality(shape) <= 1
  <2> HIDE DEF nics, shape, Shape
  <2>1. ASSUME Cardinality(nics) <= 1 PROVE Cardinality(shape) <= 1
    <3>1. nics = {PrimaryInterface(c, i)}
      BY <1>3, <2>1, Lone
    <3>2. shape = {Shape(PrimaryInterface(c, i))}
      BY <1>2, <3>1
    <3> QED BY <3>2, FS_Singleton, SMTT(30)
  <2>2. ASSUME Cardinality(shape) <= 1 PROVE Cardinality(nics) <= 1
    <3>1. \A r \in nics : r = PrimaryInterface(c, i)
      BY <1>2, <1>3, <1>4, <1>5, <2>2, Lone
    <3>2. nics = {PrimaryInterface(c, i)}
      BY <1>3, <3>1
    <3>3. Cardinality({PrimaryInterface(c, i)}) = 1
      BY FS_Singleton
    <3> QED BY <3>2, <3>3
  <2> QED BY <2>1, <2>2
<1>7. Cardinality(nics) = 1 <=> Cardinality(nics) <= 1
  BY <1>3, FS_EmptySet, FS_CardinalityType
<1>8. Execute(RoleTemplate(c, c.nodes[i].role, labels), values).interfaces
        = {Filled(d) : d \in SetInterfaces(shape)}
  <2>1. RoleTemplate(c, c.nodes[i].role, labels).interfaces = SetInterfaces(shape)
    BY <1>1 DEF RoleTemplate
  <2> HIDE DEF values, shape
  <2> QED BY <2>1 DEF Execute
<1>9. SetInterfaces(shape) = IF Cardinality(shape) <= 1 THEN {} ELSE {Device(s) : s \in shape}
  BY DEF SetInterfaces
<1>10. OwnInterfaces(nics) = IF Cardinality(nics) = 1 THEN {} ELSE {Own(r) : r \in nics}
  BY DEF OwnInterfaces
<1>11. ASSUME ~(Cardinality(nics) <= 1), NEW r \in nics PROVE Filled(Device(Shape(r))) = Own(r)
  <2>1. /\ Fill(Var(MACVarKey(r.slot)), values) = Text(r.mac)
        /\ ~r.dhcp => Fill(Var(AddressVarKey(r.slot)), values) = Text(r.address)
    BY <1>11, VarsOfNode
  <2> HIDE DEF values
  <2>2. CASE r.dhcp
    BY <2>1, <2>2
  <2>3. CASE ~r.dhcp
    BY <2>1, <2>3
  <2> QED BY <2>2, <2>3
<1> HIDE DEF nics, values, Shape, Device, Filled, Own, shape
<1>12. CASE Cardinality(nics) <= 1
  BY <1>6, <1>7, <1>8, <1>9, <1>10, <1>12 DEF nics, values
<1>13. CASE ~(Cardinality(nics) <= 1)
  <2>1. SetInterfaces(shape) = {Device(Shape(r)) : r \in nics}
    BY <1>2, <1>6, <1>9, <1>13
  <2>2. {Filled(d) : d \in SetInterfaces(shape)} = {Own(r) : r \in nics}
    BY <1>11, <1>13, <2>1
  <2> QED BY <1>7, <1>8, <1>10, <1>13, <2>2 DEF nics, values
<1> QED BY <1>12, <1>13

LEMMA OwnLabelsFilled ==
  ASSUME NEW c, Lists(c), Accepted(c), NEW i \in DOMAIN c.nodes
  PROVE  Execute(RoleTemplate(c, c.nodes[i].role, ResolvedLabels(c, i)), NodeVars(c, i)).nodeLabels
           = OwnLabels(c, i, ResolvedLabels(c, i))
<1> DEFINE labels == ResolvedLabels(c, i)
           role == c.nodes[i].role
           values == NodeVars(c, i)
           base == CompletionLabels(c) ++ MachineryLabels(role)
           all == ApplyLabels(base, labels)
<1>1. \A v : Fill(Text(v), values) = Text(v)
  BY DEF Fill, Text
<1>2. Fill(Var(HostnameVarKey), values) = Text(c.nodes[i].name)
  BY VarsOfNode
<1>3. LabelTopologyRegion # LabelTopologyZone /\ LabelExcludeFromExternalLB \notin {LabelTopologyRegion, LabelTopologyZone}
  BY DEF LabelTopologyRegion, LabelTopologyZone, LabelExcludeFromExternalLB, Key
<1>4. /\ DOMAIN base = RenderedLabels(c, i)
      /\ \A key \in DOMAIN base :
           Fill(base[key], values) = Text(IF key = LabelTopologyRegion THEN c.name
                                        ELSE IF key = LabelTopologyZone THEN c.nodes[i].name ELSE "")
  <2> HIDE DEF values
  <2>1. CASE c.cluster = Unset
    <3>1. DOMAIN CompletionLabels(c) = {}
      BY <2>1 DEF CompletionLabels
    <3>2. base = MachineryLabels(role)
      BY <3>1 DEF MachineryLabels, ++
    <3> QED BY <1>1, <1>3, <2>1, <3>2 DEF MachineryLabels, RenderedLabels
  <2>2. CASE c.cluster # Unset
    BY <1>1, <1>2, <1>3, <2>2 DEF CompletionLabels, MachineryLabels, RenderedLabels, Only, ++
  <2> QED BY <2>1, <2>2
<1> HIDE DEF base, values, labels
<1>5. /\ DOMAIN all = RenderedLabels(c, i) \cup DOMAIN labels
      /\ \A key \in DOMAIN all : all[key] = IF key \in DOMAIN labels THEN Text(labels[key]) ELSE base[key]
  BY <1>4 DEF ApplyLabels, ++
<1>6. Execute(RoleTemplate(c, role, labels), values).nodeLabels = [key \in DOMAIN all |-> Fill(all[key], values)]
  <2>1. RoleTemplate(c, role, labels).nodeLabels = all
    BY DEF RoleTemplate, base
  <2> HIDE DEF all
  <2> QED BY <2>1 DEF Execute
<1> HIDE DEF all
<1>7. ASSUME NEW key \in DOMAIN all
      PROVE  Fill(all[key], values) = Text(IF key \in DOMAIN labels THEN labels[key]
                                         ELSE IF key = LabelTopologyRegion THEN c.name
                                         ELSE IF key = LabelTopologyZone THEN c.nodes[i].name ELSE "")
  BY <1>1, <1>4, <1>5
<1>8. OwnLabels(c, i, labels)
        = [key \in RenderedLabels(c, i) \cup DOMAIN labels |->
             Text(IF key \in DOMAIN labels THEN labels[key]
                  ELSE IF key = LabelTopologyRegion THEN c.name
                  ELSE IF key = LabelTopologyZone THEN c.nodes[i].name ELSE "")]
  BY DEF OwnLabels
<1> QED BY <1>5, <1>6, <1>7, <1>8 DEF values, labels

LEMMA AnswerIsOwn ==
  ASSUME NEW c, Lists(c), Accepted(c), ShapesAgree(c), NEW i \in DOMAIN c.nodes
  PROVE  Answer(c, i) = [boot |-> Schematic(c, i), config |-> OwnConfig(c, i)]
<1> DEFINE template == RoleTemplate(c, c.nodes[i].role, ResolvedLabels(c, i))
           config == Execute(template, NodeVars(c, i))
<1>1. /\ template.hostname = Var(HostnameVarKey) /\ template.image = Var(InstallImageVarKey)
      /\ template.cluster = ApplyCompletion(c)
  BY DEF RoleTemplate
<1>2. /\ config.interfaces = OwnInterfaces(ResolvedInterfaces(c, i))
      /\ config.nodeLabels = OwnLabels(c, i, ResolvedLabels(c, i))
  BY OwnInterfacesFilled, OwnLabelsFilled
<1> HIDE DEF template
<1>3. /\ config.hostname = Text(c.nodes[i].name) /\ config.image = Text(Schematic(c, i))
      /\ config.cluster = ApplyCompletion(c)
  BY <1>1, VarsOfNode DEF Execute
<1>4. config = [hostname |-> config.hostname, image |-> config.image, interfaces |-> config.interfaces,
                nodeLabels |-> config.nodeLabels, cluster |-> config.cluster]
  BY DEF Execute
<1> HIDE DEF config
<1>5. config = OwnConfig(c, i)
  BY <1>2, <1>3, <1>4 DEF OwnConfig
<1> QED BY <1>5 DEF Answer, config, template, NodeVars

\* What booty answers, for any draft whose blocks are lists.
LEMMA DecodedServed ==
  ASSUME Decoded(draft)
  PROVE  ServesOwnConfig
<1> SUFFICES ASSUME draft # Unset, Accepted(draft), ShapesAgree(draft), NEW i \in DOMAIN draft.nodes
             PROVE  /\ Serve(Tree(draft), BootMAC(VMSpec(draft, i))) =
                          {[boot |-> Schematic(draft, i), config |-> OwnConfig(draft, i)]}
                    /\ NodeConfig(draft, i) = OwnConfig(draft, i)
  BY DEF ServesOwnConfig
<1>1. Lists(draft)
  <2>1. IsList(draft.nodes) /\ \A k \in DOMAIN draft.nodes : IsList(draft.nodes[k].interfaces)
    BY DEF Decoded, DecodedNode
  <2>2. \A s : IsList(s) => \E n \in Nat : DOMAIN s = 1 .. n
    BY DEF IsList
  <2> QED BY <2>1, <2>2 DEF Lists
<1> QED BY <1>1, OneAnswer, AppliesTheAnswer, AnswerIsOwn

(***************************************************************************)
(* For every cluster: booty answers the MAC address the VM of a node boots *)
(* from with exactly one config, the one talos apply renders for the node, *)
(* and it is what the node's own blocks say (emit/catalog.go, talos).      *)
(***************************************************************************)
THEOREM OwnConfigServed == DraftSpec => []ServesOwnConfig
<1>1. Decoded(draft) => ServesOwnConfig
  BY DecodedServed
<1> QED BY <1>1, AlwaysDecoded, PTL

\* A label of a node is in nobody else's hands, nor is one that is derived or rendered.
LEMMA ExplicitLabels ==
  ASSUME NEW c, Accepted(c), NEW i \in DOMAIN c.nodes, NEW key \in DOMAIN c.nodes[i].labels
  PROVE  key.ns # RuntimeNamespace /\ key \notin RenderedLabels(c, i) /\ ~NodeRestricted(key)
  BY Validated, LabelsInOrder DEF LabelMeaning, Diag

LEMMA OwnLabelsUnrestricted ==
  /\ \A name : ~NodeRestricted(Key(RuntimeNamespace, name))
  /\ \A key \in {LabelTopologyRegion, LabelTopologyZone, LabelExcludeFromExternalLB} :
       ~NodeRestricted(key) /\ key.ns # RuntimeNamespace
<1>1. /\ RuntimeNamespace[1] = "dev" /\ Len(Kubernetes) = 2 /\ Kubernetes[1] = "io"
      /\ Len(<<"io", "k8s">>) = 2
  BY DEF RuntimeNamespace, Kubernetes
<1>2. \A part : /\ Len(K8s(part)) = 3
                /\ K8s(part)[1] = "io" /\ K8s(part)[2] = "kubernetes" /\ K8s(part)[3] = part
  BY DEF K8s
<1>3. ~InNamespace(RuntimeNamespace, Kubernetes) /\ ~InNamespace(RuntimeNamespace, <<"io", "k8s">>)
  BY <1>1 DEF InNamespace
<1>4. ~InNamespace(K8s("topology"), K8s("node-restriction")) /\ ~InNamespace(K8s("node"), K8s("node-restriction"))
      /\ ~InNamespace(K8s("topology"), K8s("kubelet")) /\ InNamespace(K8s("node"), K8s("node"))
  BY <1>2 DEF InNamespace
<1>5. K8s("topology") # RuntimeNamespace /\ K8s("node") # RuntimeNamespace
  BY <1>1, <1>2
<1>6. LabelTopologyRegion \in KubeletLabels /\ LabelTopologyZone \in KubeletLabels
  BY DEF KubeletLabels, LabelTopologyRegion, LabelTopologyZone
<1> QED BY <1>3, <1>4, <1>5, <1>6
        DEF NodeRestricted, LabelTopologyRegion, LabelTopologyZone, LabelExcludeFromExternalLB, Key

\* No label of a node is in two hands, whatever the draft.
LEMMA LabelsApart == LabelsOnce
<1> SUFFICES ASSUME draft # Unset, Accepted(draft), NEW i \in DOMAIN draft.nodes
             PROVE  LET explicit == DOMAIN draft.nodes[i].labels
                        derived == {Key(RuntimeNamespace, r.name) : r \in NodeRuntimes(draft, i)}
                        rendered == DOMAIN (CompletionLabels(draft) ++ MachineryLabels(draft.nodes[i].role))
                    IN /\ explicit \cap derived = {} /\ (explicit \cup derived) \cap rendered = {}
                       /\ \A key \in explicit \cup derived \cup rendered : ~NodeRestricted(key)
  BY DEF LabelsOnce
<1> DEFINE derived == {Key(RuntimeNamespace, r.name) : r \in NodeRuntimes(draft, i)}
           own == {LabelTopologyRegion, LabelTopologyZone, LabelExcludeFromExternalLB}
<1>1. \A key \in derived : \E name : key = Key(RuntimeNamespace, name) /\ key.ns = RuntimeNamespace
  BY DEF Key
<1>2. RenderedLabels(draft, i) \subseteq own
  BY DEF RenderedLabels
<1>3. DOMAIN (CompletionLabels(draft) ++ MachineryLabels(draft.nodes[i].role)) = RenderedLabels(draft, i)
  <2>1. CASE draft.cluster = Unset
    <3>1. DOMAIN CompletionLabels(draft) = {}
      BY <2>1 DEF CompletionLabels
    <3> QED BY <2>1, <3>1 DEF MachineryLabels, RenderedLabels, ++
  <2>2. CASE draft.cluster # Unset
    BY <2>2 DEF CompletionLabels, MachineryLabels, RenderedLabels, Only, ++
  <2> QED BY <2>1, <2>2
<1> HIDE DEF derived, own
<1>4. \A key \in own : ~NodeRestricted(key) /\ key.ns # RuntimeNamespace
  BY OwnLabelsUnrestricted DEF own
<1>5. \A key \in derived : ~NodeRestricted(key) /\ key.ns = RuntimeNamespace
  BY <1>1, OwnLabelsUnrestricted
<1> QED BY <1>2, <1>3, <1>4, <1>5, ExplicitLabels DEF derived

(***************************************************************************)
(* For every cluster: the explicit, the derived and the rendered labels of *)
(* a node never meet, and the kubelet may set each of them (labels.go).    *)
(***************************************************************************)
THEOREM EveryLabelOnce == DraftSpec => []LabelsOnce
  BY LabelsApart, PTL
-----------------------------------------------------------------------------
\* A VM only appears while a run is under way.
LEMMA AppearsInARun ==
  ASSUME TypeOK, Next, NEW v \in VM, vm[v] = "absent", vm'[v] # "absent"
  PROVE  phase # "idle"
<1> USE DEF TypeOK
<1>1. CASE Run
  BY <1>1 DEF Run, Begin, CheckDone, CheckPending, Create, Start, Refused, WaitEnds
<1>2. CASE LeftTaskEnds
  <2>1. PICK j \in left : Works(j) \/ Doomed(j)
    BY <1>2 DEF LeftTaskEnds
  <2> QED BY <2>1 DEF Works, Doomed, Job
<1>3. CASE TaskEnds
  BY <1>3 DEF TaskEnds
<1>4. CASE TaskBreaks
  <2>1. CASE \E j \in left : Breaks(j)
    BY <2>1 DEF Breaks, Job
  <2>2. CASE task = "running"
    BY <2>2
  <2> QED BY <1>4, <2>1, <2>2 DEF TaskBreaks
<1>5. CASE Stop
  BY <1>5 DEF Stop, Fail, Kill
<1>6. CASE \E u \in VM : Outside(u)
  BY <1>6 DEF Outside
<1> QED BY <1>1, <1>2, <1>3, <1>4, <1>5, <1>6 DEF Next, Proxmox

LEMMA InstallInitType == InstallInit /\ Init => InstallTypeOK
  BY DEF InstallInit, Init, RunInit, InstallTypeOK

LEMMA MachinesType ==
  ASSUME TypeOK, InstallTypeOK, Next, Machines
  PROVE  InstallTypeOK'
<1> USE DEF InstallTypeOK
<1>1. file' \in Versions /\ serving' \in Emittable \cup {0}
  BY DEF Machines
<1>2. loaded' \in Loadable \cup {0}
  BY DEF Machines
<1>3. phase' # "idle" => loaded' # 0
  BY InstallAssumption DEF Machines, Starting
<1>4. ASSUME NEW v \in VM, vm'[v] # "absent", vm[v] = "absent" PROVE loaded # 0
  BY <1>4, AppearsInARun
<1>5. from' \in [VM -> Loadable \cup {0}] /\ \A v \in VM : vm'[v] = "absent" => from'[v] = 0
  BY DEF Machines
<1>6. ASSUME NEW v \in VM, disk'[v] # Blank
      PROVE  from'[v] # 0 /\ disk'[v].of \in Emittable
             /\ disk'[v].config \in Answers[disk'[v].of][MACs[from'[v]][v]]
  <2>1. vm'[v] # "absent" /\ disk'[v] = disk[v] /\ disk[v] # Blank
    BY <1>6 DEF Machines
  <2>2. from[v] # 0 /\ vm[v] # "absent" /\ from'[v] = from[v]
    BY <2>1 DEF Machines
  <2> QED BY <2>1, <2>2
<1>7. DOMAIN disk' = VM
  BY DEF Machines
<1> QED BY <1>1, <1>2, <1>3, <1>5, <1>6, <1>7

LEMMA InstallNextType ==
  TypeOK /\ InstallTypeOK /\ [InstallNext]_<<vars, installVars>> => InstallTypeOK'
<1> SUFFICES ASSUME TypeOK, InstallTypeOK, [InstallNext]_<<vars, installVars>> PROVE InstallTypeOK'
  OBVIOUS
<1>1. CASE Next /\ Machines
  BY <1>1, MachinesType
<1>2. CASE Publish
  BY <1>2 DEF Publish, InstallTypeOK, vars
<1>3. CASE EditFile
  BY <1>3 DEF EditFile, InstallTypeOK, vars
<1>4. ASSUME NEW v \in VM, InstallMachine(v) PROVE InstallTypeOK'
  <2>1. PICK config \in Answers[serving][MACs[from[v]][v]] :
          disk' = [disk EXCEPT ![v] = [of |-> serving, config |-> config]]
    BY <1>4 DEF InstallMachine
  <2>2. serving \in Emittable /\ from[v] # 0
    BY <1>4 DEF InstallMachine, InstallTypeOK
  <2> QED BY <1>4, <2>1, <2>2 DEF InstallMachine, InstallTypeOK, vars
<1>5. ASSUME NEW v \in VM, Wipe(v) PROVE InstallTypeOK'
  BY <1>5 DEF Wipe, InstallTypeOK, vars
<1>6. CASE UNCHANGED <<vars, installVars>>
  BY <1>6 DEF InstallTypeOK, vars, installVars
<1> QED BY <1>1, <1>2, <1>3, <1>4, <1>5, <1>6 DEF InstallNext

(***************************************************************************)
(* A machine with an installed disk has been answered, by a version booty  *)
(* has served, for the MAC address its VM was created with (pve/vms.go,    *)
(* emit/catalog.go), whoever edits, removes or wipes what in between.      *)
(***************************************************************************)
THEOREM InstallTypeCorrect == InstallSpec => [](TypeOK /\ InstallTypeOK)
<1>1. Init /\ InstallInit => TypeOK /\ InstallTypeOK
  BY InitType, InstallInitType
<1>2. TypeOK /\ [InstallNext]_<<vars, installVars>> => TypeOK'
  <2>1. ASSUME TypeOK, InstallNext, ~Next PROVE UNCHANGED vars
    BY <2>1 DEF InstallNext, Publish, EditFile, InstallMachine, Wipe
  <2>2. TypeOK /\ UNCHANGED vars => TypeOK'
    BY DEF TypeOK, vars, Job
  <2> QED BY <2>1, <2>2, NextType
<1> QED BY <1>1, <1>2, InstallNextType, PTL DEF InstallSpec

\* Every version has its own config for every node, which ServesOwnConfig is about.
OwnAnswers ==
  \A e \in Emittable, v \in VM : Answers[e][MACs[e][v]] = {NodeConfigs[e][v]}

LEMMA IdentityKept ==
  ASSUME OwnAnswers
  PROVE  InstallSpec => []OwnIdentity
<1>1. InstallTypeOK => OwnIdentity
  <2> SUFFICES ASSUME InstallTypeOK, NEW v \in VM, disk[v] # Blank, Kept(v, from[v], disk[v].of)
               PROVE  disk[v].config = NodeConfigs[disk[v].of][v]
    BY DEF OwnIdentity
  <2>1. disk[v].of \in Emittable /\ disk[v].config \in Answers[disk[v].of][MACs[from[v]][v]]
    BY DEF InstallTypeOK
  <2> QED BY <2>1 DEF Kept, OwnAnswers
<1> QED BY <1>1, InstallTypeCorrect, PTL

(***************************************************************************)
(* A machine gets its own machineconfig (talos vms, emit), for any         *)
(* versions of the config file and the trees emitted from them: what a     *)
(* machine has installed is the config of its own node in the version      *)
(* booty served, unless an edit has given the node another address since.  *)
(***************************************************************************)
THEOREM EveryMachineItself ==
  ASSUME NEW Configs,
         \A d \in Loadable : DOMAIN Configs[d].nodes = VM /\ Lists(Configs[d]) /\ Accepted(Configs[d]),
         \A d \in Loadable, v \in VM : MACs[d][v] = BootMAC(VMSpec(Configs[d], v)),
         \A e \in Emittable : \A m \in DOMAIN Answers[e] :
           Answers[e][m] = {answer.config : answer \in Serve(Tree(Configs[e]), m)},
         \A e \in Emittable, v \in VM : NodeConfigs[e][v] = NodeConfig(Configs[e], v)
  PROVE  InstallSpec => []OwnIdentity
<1>1. ASSUME NEW e \in Emittable, NEW v \in VM PROVE Answers[e][MACs[e][v]] = {NodeConfigs[e][v]}
  <2>1. e \in Loadable /\ MACs[e][v] \in DOMAIN Answers[e]
    BY InstallAssumption
  <2>2. v \in DOMAIN Configs[e].nodes /\ Lists(Configs[e]) /\ Accepted(Configs[e])
    BY <2>1
  <2>3. Serve(Tree(Configs[e]), MACs[e][v]) = {Answer(Configs[e], v)}
    BY <2>1, <2>2, OneAnswer
  <2>4. NodeConfigs[e][v] = Answer(Configs[e], v).config
    BY <2>2, AppliesTheAnswer
  <2>5. Answers[e][MACs[e][v]] = {answer.config : answer \in Serve(Tree(Configs[e]), MACs[e][v])}
    BY <2>1
  <2> QED BY <2>3, <2>4, <2>5
<1>2. OwnAnswers
  BY <1>1 DEF OwnAnswers
<1> QED BY <1>2, IdentityKept
=============================================================================
