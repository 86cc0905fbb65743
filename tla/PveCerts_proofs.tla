-------------------------- MODULE PveCerts_proofs ---------------------------
(***************************************************************************)
(* Proofs about the certificate stage, for any number of nodes, slots and  *)
(* tasks that stopped runs have left behind.                               *)
(***************************************************************************)
EXTENDS PveCerts, TLAPS, WellFoundedInduction

LEMMA MinIsMember ==
  ASSUME NEW S, S \subseteq Nat, S # {}
  PROVE  Min(S) \in S
<1> DEFINE R == {p \in Nat \X Nat : p[1] < p[2]}
<1>1. IsWellFoundedOn(R, Nat)
  BY NatLessThanWellFounded DEF OpToRel
<1>2. PICK x \in S : \A y \in S : ~ (<<y, x>> \in R)
  BY <1>1, WFMin
<1>3. ASSUME NEW y \in S PROVE x <= y
  <2>1. x \in Nat /\ y \in Nat
    OBVIOUS
  <2>2. ~(y < x)
    <3>1. SUFFICES ASSUME y < x PROVE <<y, x>> \in R
      BY <1>2
    <3> QED BY <2>1, <3>1
  <2> QED BY <2>1, <2>2
<1> QED BY <1>3 DEF Min

\* The step of a node's config or certificate, and its node.
LEMMA NodeOfStep ==
  ASSUME NEW s \in Step, IsConfig(s) \/ IsCert(s)
  PROVE  /\ NodeOf(s) \in Node
         /\ IsCert(s) => s = 2 * NodeOf(s) + 2
  BY CertsAssumption DEF Step, Last, IsConfig, IsCert, NodeOf, Node

-----------------------------------------------------------------------------
(***************************************************************************)
(* The inductive invariant.  Every task is for the wanted CA; the place in *)
(* a step tells what the run has read and submitted; the account has the   *)
(* wanted directory, or is missing, once a run is past its deactivation;   *)
(* and whatever is about to be renewed is right, whatever is about to be   *)
(* deleted is not.                                                         *)
(***************************************************************************)
JobOurs(j) == j.ca = Want /\ (j.op \in {"order", "renew"} => j.node \in Node)
JobsOurs == JobOurs(task.job) /\ \A j \in left : JobOurs(j)

Placed ==
  /\ phase # "idle" => pos \in Step /\ result = "none"
  /\ phase \in {"deactivate", "register"} => pos = 1
  /\ phase \in {"renew", "delete", "order"} => IsCert(pos)
  /\ phase = "wait" =>
       \/ pos = 1 /\ IsAccountJob(task.job)
       \/ IsCert(pos) /\ task.job.op \in {"order", "renew"} /\ task.job.node = NodeOf(pos)
  /\ result = "ok" => pos = Last + 1

AccountWanted ==
  \/ pos > 1 \/ phase = "register" \/ task.job.op = "register"
  \/ task.job.op = "deactivate" /\ task.state = "ok"
  => account \in {Want, "none"}

RenewsRight(j) == j.op = "renew" => Right(front[j.node])
CertsInv ==
  /\ RenewsRight(task.job) /\ \A j \in left : RenewsRight(j)
  /\ phase = "renew" => Right(front[NodeOf(pos)])
  /\ phase = "delete" => front[NodeOf(pos)] # NoCert /\ ~Right(front[NodeOf(pos)])
  /\ task.state = "ok" /\ ~IsAccountJob(task.job) => Right(front[task.job.node])
  /\ \A n \in Node \ Builtin : pos > 2 * n + 2 => Right(front[n])

Inv == TypeOK /\ JobsOurs /\ Placed /\ AccountWanted /\ CertsInv

LEMMA InitInv == Init => Inv
<1> SUFFICES ASSUME Init PROVE Inv
  OBVIOUS
<1> USE CertsAssumption DEF Init, RunInit, NoTask
<1>1. TypeOK
  BY DEF TypeOK, Phase, Tasks, Last, Step
<1>2. JobsOurs /\ Placed /\ AccountWanted
  BY DEF JobsOurs, JobOurs, Placed, AccountWanted
<1>3. CertsInv
  BY DEF CertsInv, RenewsRight, Node
<1> QED BY <1>1, <1>2, <1>3 DEF Inv

\* What Advance does to a run.
LEMMA Advances ==
  ASSUME pos \in Step, Advance
  PROVE  /\ pos' = pos + 1 /\ pos' \in 1 .. Last + 1
         /\ phase' \in {"idle", "check"}
         /\ phase' # "idle" => pos' \in Step /\ result' = "none"
         /\ result' \in {"none", "ok"}
         /\ result' = "ok" => pos' = Last + 1
  BY CertsAssumption DEF Advance, Step, Last

(***************************************************************************)
(* What a task does when it succeeds: the account gets the wanted          *)
(* directory or none, a certificate becomes right where it was right or    *)
(* missing, and everything else stays.                                     *)
(***************************************************************************)
LEMMA TaskEffect ==
  ASSUME TypeOK, NEW j \in Job, JobOurs(j), RenewsRight(j), Succeeds(j), Effect(j)
  PROVE  /\ account' \in CA \cup {"none"} /\ front' \in [Node -> Cert]
         /\ IsAccountJob(j) => front' = front /\ account' \in {Want, "none"}
         /\ ~IsAccountJob(j) =>
              /\ account' = account /\ j.node \in Node
              /\ Right(front'[j.node]) /\ (front[j.node] = NoCert \/ Right(front[j.node]))
              /\ \A n \in Node \ {j.node} : front'[n] = front[n]
<1>1. CASE IsAccountJob(j)
  BY <1>1, CertsAssumption DEF Effect, JobOurs, TypeOK, IsAccountJob
<1>2. CASE ~IsAccountJob(j)
  <2>1. j.op \in {"order", "renew"} /\ j.node \in Node /\ j.ca = Want
    BY <1>2 DEF Job, IsAccountJob, JobOurs
  <2> DEFINE new == [san |-> "fqdn", ca |-> j.ca, age |-> "fresh"]
  <2>2. new \in Cert /\ Right(new)
    BY <2>1, CertsAssumption DEF Cert, Right, IssuerMatchesCA, CA
  <2>3. front' = [front EXCEPT ![j.node] = new] /\ account' = account
    BY <1>2 DEF Effect
  <2>4. front[j.node] = NoCert \/ Right(front[j.node])
    BY <2>1 DEF Succeeds, RenewsRight
  <2> HIDE DEF new
  <2> QED BY <1>2, <2>1, <2>2, <2>3, <2>4 DEF TypeOK
<1> QED BY <1>1, <1>2

LEMMA TypeNext == Inv /\ [Next]_vars => TypeOK'
<1> SUFFICES ASSUME Inv, [Next]_vars PROVE TypeOK'
  OBVIOUS
<1>0. TypeOK /\ Placed /\ JobsOurs /\ CertsInv
  BY DEF Inv
<1> USE CertsAssumption DEF Phase
<1>1. CASE Begin
  BY <1>0, <1>1 DEF Begin, StartRun, TypeOK, world, Step, Last
<1>2. CASE CheckDone
  BY <1>0, <1>2, Advances DEF CheckDone, SkipStep, TypeOK, Placed, world
<1>3. CASE CheckPending \/ ReadAccount
  BY <1>0, <1>3 DEF CheckPending, ReadAccount, Enter, Goto, TypeOK, world
<1>4. ASSUME NEW op \in {"deactivate", "register", "order", "renew"}, NEW n \in 0 .. N, NEW ca \in CA,
             phase # "wait", Submit(op, n, ca)
      PROVE  TypeOK'
  <2>1. task' \in Tasks /\ task' # NoTask
    BY <1>4 DEF Submit, Tasks, Job, NoTask
  <2> QED BY <1>0, <1>4, <2>1 DEF Submit, Goto, TypeOK, world
<1>5. CASE Deactivate \/ Register
  BY <1>4, <1>5 DEF Deactivate, Register
<1>6. CASE Renew \/ Order
  <2>1. NodeOf(pos) \in Node /\ account \in CA
    BY <1>0, <1>6, NodeOfStep DEF Renew, Order, Placed, TypeOK
  <2> QED BY <1>4, <1>6, <2>1 DEF Renew, Order, Node
<1>7. CASE ReadPlugin \/ ReadConfig
  <2>1. IsConfig(pos) /\ phase = "read" => cfg[NodeOf(pos)] \in Config
    BY <1>0, NodeOfStep DEF Placed, TypeOK
  <2> QED BY <1>0, <1>7, <2>1 DEF ReadPlugin, ReadConfig, Goto, TypeOK, world
<1>8. CASE WritePlugin
  <2>1. plugin' \in Plugin
    BY <1>0, <1>8 DEF WritePlugin, TypeOK, Plugin, NoPlugin, GoodPlugin
  <2> QED BY <1>0, <1>8, <2>1, Advances DEF WritePlugin, StepApplied, TypeOK, Placed
<1>9. CASE WriteConfig
  <2>1. cfg' \in [Node -> Config]
    BY <1>0, <1>9, NodeOfStep DEF WriteConfig, TypeOK, Placed, Config, SlotUse
  <2> QED BY <1>0, <1>9, <2>1, Advances DEF WriteConfig, StepApplied, TypeOK, Placed
<1>10. CASE ReadCerts
  BY <1>0, <1>10 DEF ReadCerts, ActionFor, Goto, TypeOK, world
<1>11. CASE DeleteCert
  <2>1. front' \in [Node -> Cert]
    BY <1>0, <1>11 DEF DeleteCert, TypeOK, Cert
  <2> QED BY <1>0, <1>11, <2>1 DEF DeleteCert, Goto, TypeOK
<1>12. CASE WaitEnds
  <2>1. phase = "wait" /\ task' = NoTask /\ UNCHANGED <<world, seen>>
    BY <1>12 DEF WaitEnds
  <2>2. NoTask \in Tasks
    BY DEF Tasks
  <2>3. CASE Goto("register")
    BY <1>0, <2>1, <2>2, <2>3 DEF Goto, TypeOK, world
  <2>4. CASE StepApplied
    BY <1>0, <2>1, <2>2, <2>4, Advances DEF StepApplied, TypeOK, Placed, world
  <2> QED BY <1>12, <2>3, <2>4 DEF WaitEnds
<1>13. CASE Stop \/ Refused
  <2>1. left' \subseteq Job /\ task' = NoTask /\ seen' = Unread /\ UNCHANGED <<account, plugin, cfg, front>>
    <3>1. task.state = "running" => task.job \in Job
      BY <1>0 DEF TypeOK, Tasks, NoTask
    <3> QED BY <1>0, <1>13, <3>1 DEF Stop, Refused, Abandon, TypeOK
  <2>2. phase' = "idle" /\ UNCHANGED <<pos, applied>> /\ result' \in {"none", "ok", "failed"}
    BY <1>0, <1>13 DEF Stop, Refused, Fail, Kill, TypeOK
  <2>3. NoTask \in Tasks
    BY DEF Tasks
  <2> QED BY <1>0, <2>1, <2>2, <2>3 DEF TypeOK
<1>14. CASE LeftTaskEnds
  <2>1. PICK j \in left : /\ left' = left \ {j}
                          /\ IF Succeeds(j) THEN Effect(j) ELSE UNCHANGED <<account, front>>
                          /\ UNCHANGED <<plugin, cfg, run>>
    BY <1>14 DEF LeftTaskEnds
  <2>2. account' \in CA \cup {"none"} /\ front' \in [Node -> Cert]
    BY <1>0, <2>1, TaskEffect DEF TypeOK, JobsOurs, CertsInv
  <2> QED BY <1>0, <2>1, <2>2 DEF TypeOK, run
<1>15. CASE TaskEnds \/ TaskFails
  <2>1. task.job \in Job /\ task.state = "running" /\ phase = "wait"
    BY <1>0, <1>15 DEF TypeOK, TaskEnds, TaskFails, TaskMayEnd, Tasks, NoTask
  <2>2. task' \in Tasks /\ task' # NoTask /\ UNCHANGED <<plugin, cfg, left, seen, phase, pos, applied, result>>
    BY <1>0, <1>15, <2>1 DEF TypeOK, TaskEnds, TaskFails, Tasks, NoTask, world
  <2>3. account' \in CA \cup {"none"} /\ front' \in [Node -> Cert]
    BY <1>0, <1>15, <2>1, TaskEffect DEF TypeOK, TaskEnds, TaskFails, world, JobsOurs, CertsInv
  <2> QED BY <1>0, <2>1, <2>2, <2>3 DEF TypeOK
<1>16. CASE \E n \in Node : Ages(n)
  <2>1. front' \in [Node -> Cert]
    BY <1>0, <1>16 DEF Ages, TypeOK, Cert, NoCert
  <2> QED BY <1>0, <1>16, <2>1 DEF Ages, TypeOK, run
<1>17. CASE EditPlugin
  BY <1>0, <1>17 DEF EditPlugin, TypeOK, Plugin, NoPlugin, run
<1>18. CASE \E n \in Node : EditConfig(n)
  <2>1. PICK n \in Node : EditConfig(n)
    BY <1>18
  <2>2. PICK i \in Slot, u \in {"free", "other"} : cfg' = [cfg EXCEPT ![n].slots[i] = u]
    BY <2>1 DEF EditConfig
  <2>3. cfg[n].slots \in [Slot -> SlotUse] /\ cfg[n] \in Config
    BY <1>0 DEF TypeOK, Config
  <2>4. [cfg[n].slots EXCEPT ![i] = u] \in [Slot -> SlotUse]
    BY <2>3 DEF SlotUse
  <2>5. [cfg[n] EXCEPT !.slots[i] = u] \in Config
    BY <2>3, <2>4 DEF Config
  <2>6. cfg' \in [Node -> Config]
    BY <1>0, <2>2, <2>5 DEF TypeOK
  <2> QED BY <1>0, <2>1, <2>6 DEF EditConfig, TypeOK, run
<1>19. CASE UNCHANGED vars
  BY <1>0, <1>19 DEF vars, world, run, TypeOK
<1> QED
  BY <1>1, <1>2, <1>3, <1>5, <1>6, <1>7, <1>8, <1>9, <1>10, <1>11, <1>12, <1>13, <1>14, <1>15,
     <1>16, <1>17, <1>18, <1>19 DEF Next, Progress, Proxmox, Edit

LEMMA PlacedNext == Inv /\ [Next]_vars => Placed'
<1> SUFFICES ASSUME Inv, [Next]_vars PROVE Placed'
  OBVIOUS
<1>0. TypeOK /\ Placed
  BY DEF Inv
<1> USE CertsAssumption DEF Placed
<1>1. CASE Begin
  BY <1>0, <1>1 DEF Begin, StartRun, Step, Last
<1>2. CASE CheckDone
  BY <1>0, <1>2, Advances DEF CheckDone, SkipStep
<1>3. CASE CheckPending \/ ReadAccount \/ ReadPlugin \/ ReadConfig
  BY <1>0, <1>3 DEF CheckPending, ReadAccount, ReadPlugin, ReadConfig, Enter, Goto
<1>4. CASE Deactivate \/ Register
  BY <1>0, <1>4 DEF Deactivate, Register, Submit, Goto, IsAccountJob
<1>5. CASE WritePlugin \/ WriteConfig
  BY <1>0, <1>5, Advances DEF WritePlugin, WriteConfig, StepApplied
<1>6. CASE ReadCerts
  BY <1>0, <1>6 DEF ReadCerts, ActionFor, Goto
<1>7. CASE Renew \/ Order \/ DeleteCert
  BY <1>0, <1>7 DEF Renew, Order, DeleteCert, Submit, Goto
<1>8. CASE WaitEnds
  <2>1. task.job.op = "deactivate" => pos = 1 /\ Goto("register")
    BY <1>0, <1>8 DEF WaitEnds, IsAccountJob
  <2> QED BY <1>0, <1>8, <2>1, Advances DEF WaitEnds, StepApplied, Goto
<1>9. CASE Stop \/ Refused
  BY <1>0, <1>9 DEF Stop, Refused, Fail, Kill
<1>10. CASE TaskEnds \/ TaskFails
  <2>1. task'.job = task.job /\ UNCHANGED <<phase, pos, result>>
    <3>1. task \in [job : Job, state : {"running", "ok", "failed"}]
      BY <1>0, <1>10 DEF TypeOK, Tasks, TaskEnds, TaskFails, TaskMayEnd, NoTask
    <3> QED BY <1>10, <3>1 DEF TaskEnds, TaskFails
  <2> QED BY <1>0, <2>1 DEF IsAccountJob
<1>11. CASE UNCHANGED run
  BY <1>0, <1>11 DEF run, IsAccountJob
<1> QED
  BY <1>1, <1>2, <1>3, <1>4, <1>5, <1>6, <1>7, <1>8, <1>9, <1>10, <1>11
  DEF Next, Progress, Proxmox, Edit, LeftTaskEnds, Ages, EditPlugin, EditConfig, vars

\* The tasks of a later state are the earlier ones and what was submitted.
LEMMA JobsNext ==
  ASSUME Inv, [Next]_vars
  PROVE  /\ left' \subseteq left \cup {task.job}
         /\ \/ task' = NoTask \/ task'.job = task.job
            \/ Deactivate \/ Register \/ Renew \/ Order
<1>0. TypeOK
  BY DEF Inv
<1>1. CASE Stop \/ Refused
  BY <1>1 DEF Stop, Refused, Abandon
<1>2. CASE TaskEnds \/ TaskFails
  <2>1. task \in [job : Job, state : {"running", "ok", "failed"}]
    BY <1>0, <1>2 DEF TypeOK, Tasks, TaskEnds, TaskFails, TaskMayEnd, NoTask
  <2> QED BY <1>2, <2>1 DEF TaskEnds, TaskFails, world
<1>3. CASE LeftTaskEnds
  BY <1>3 DEF LeftTaskEnds, run
<1>4. CASE Deactivate \/ Register \/ Renew \/ Order
  BY <1>4 DEF Deactivate, Register, Renew, Order, Submit, world
<1>5. CASE WaitEnds
  BY <1>5 DEF WaitEnds, world
<1>6. CASE Begin \/ CheckDone \/ CheckPending \/ ReadAccount \/ ReadPlugin \/ ReadConfig \/ ReadCerts
  BY <1>6 DEF Begin, CheckDone, CheckPending, ReadAccount, ReadPlugin, ReadConfig, ReadCerts, world
<1>7. CASE WritePlugin \/ WriteConfig \/ DeleteCert
  BY <1>7 DEF WritePlugin, WriteConfig, DeleteCert
<1>8. CASE (\E n \in Node : Ages(n) \/ EditConfig(n)) \/ EditPlugin \/ UNCHANGED vars
  BY <1>8 DEF Ages, EditPlugin, EditConfig, vars, world, run
<1> QED
  BY <1>1, <1>2, <1>3, <1>4, <1>5, <1>6, <1>7, <1>8 DEF Next, Progress, Proxmox, Edit

LEMMA JobsOursNext == Inv /\ [Next]_vars => JobsOurs'
<1> SUFFICES ASSUME Inv, [Next]_vars PROVE JobsOurs'
  OBVIOUS
<1>0. TypeOK /\ Placed /\ JobsOurs /\ AccountWanted
  BY DEF Inv
<1>1. \A j : JobOurs(j)' <=> JobOurs(j)
  BY DEF JobOurs
<1>2. JobOurs(NoTask.job)
  BY DEF JobOurs, NoTask
<1>3. CASE Deactivate \/ Register
  BY <1>0, <1>3 DEF Deactivate, Register, Submit, JobOurs, JobsOurs, world
<1>4. CASE Renew \/ Order
  <2>1. NodeOf(pos) \in Node /\ account = Want
    BY <1>0, <1>4, NodeOfStep, CertsAssumption
    DEF Renew, Order, Placed, AccountWanted, IsCert, TypeOK
  <2> QED BY <1>0, <1>4, <2>1 DEF Renew, Order, Submit, JobOurs, JobsOurs, world
<1> QED BY <1>0, <1>1, <1>2, <1>3, <1>4, JobsNext DEF JobsOurs, JobOurs

LEMMA AccountNext == Inv /\ [Next]_vars => AccountWanted'
<1> SUFFICES ASSUME Inv, [Next]_vars PROVE AccountWanted'
  OBVIOUS
<1>0. TypeOK /\ Placed /\ JobsOurs /\ AccountWanted /\ CertsInv /\ pos \in Nat
  BY DEF Inv, TypeOK
<1> USE DEF AccountWanted, NoTask
<1>1. CASE Begin
  <2>1. task = NoTask
    BY <1>0, <1>1 DEF Begin, StartRun, TypeOK
  <2> QED BY <1>1, <2>1 DEF Begin, StartRun
<1>2. CASE CheckDone
  <2>1. pos = 1 => account = Want
    BY <1>2 DEF CheckDone, Done, IsConfig, IsCert
  <2> QED BY <1>0, <1>2, <2>1 DEF CheckDone, SkipStep, Advance, Placed, Step, world
<1>3. CASE CheckPending \/ ReadAccount \/ ReadPlugin \/ ReadConfig \/ ReadCerts
  BY <1>0, <1>3
  DEF CheckPending, ReadAccount, ReadPlugin, ReadConfig, ReadCerts, ActionFor, Enter, Goto, world
<1>4. CASE Deactivate \/ Register \/ Renew \/ Order
  BY <1>0, <1>4 DEF Deactivate, Register, Renew, Order, Submit, Goto, Placed, IsCert, world
<1>5. CASE WritePlugin \/ WriteConfig \/ DeleteCert
  BY <1>0, <1>5 DEF WritePlugin, WriteConfig, DeleteCert, StepApplied, Advance, Goto, Placed, IsConfig, IsCert
<1>6. CASE WaitEnds
  <2>1. \/ pos = 1 /\ task.job.op \in {"register", "deactivate"}
        \/ IsCert(pos)
    BY <1>0, <1>6 DEF WaitEnds, Placed, IsAccountJob
  <2> QED BY <1>0, <1>6, <2>1 DEF WaitEnds, StepApplied, Advance, Goto, IsCert, world
<1>7. CASE Stop \/ Refused
  BY <1>0, <1>7 DEF Stop, Refused, Abandon, Fail, Kill
<1>8. CASE LeftTaskEnds
  <2>1. PICK j \in left : IF Succeeds(j) THEN Effect(j) ELSE UNCHANGED <<account, front>>
    BY <1>8 DEF LeftTaskEnds
  <2>2. account' = account \/ account' \in {Want, "none"}
    BY <1>0, <2>1, TaskEffect DEF TypeOK, JobsOurs, CertsInv
  <2> QED BY <1>0, <1>8, <2>2 DEF LeftTaskEnds, run
<1>9. CASE TaskEnds \/ TaskFails
  <2>1. task \in [job : Job, state : {"running", "ok", "failed"}]
    BY <1>0, <1>9 DEF TypeOK, Tasks, TaskEnds, TaskFails, TaskMayEnd
  <2>2. task'.job = task.job /\ UNCHANGED <<phase, pos>>
    BY <1>9, <2>1 DEF TaskEnds, TaskFails
  <2>3. IF task'.state = "ok" THEN Succeeds(task.job) /\ Effect(task.job) ELSE account' = account
    BY <1>9, <2>1 DEF TaskEnds, TaskFails, world
  <2>4. task'.state = "ok" =>
          IF IsAccountJob(task.job) THEN account' \in {Want, "none"} ELSE account' = account
    BY <1>0, <2>1, <2>3, TaskEffect DEF JobsOurs, CertsInv
  <2> QED BY <1>0, <2>2, <2>3, <2>4 DEF IsAccountJob
<1>10. CASE (\E n \in Node : Ages(n) \/ EditConfig(n)) \/ EditPlugin \/ UNCHANGED vars
  BY <1>0, <1>10 DEF Ages, EditPlugin, EditConfig, vars, world, run
<1> QED
  BY <1>1, <1>2, <1>3, <1>4, <1>5, <1>6, <1>7, <1>8, <1>9, <1>10 DEF Next, Progress, Proxmox, Edit

\* Whether a certificate is right does not depend on the state.
LEMMA RightPrime == \A c : Right(c)' <=> Right(c)
  BY DEF Right, IssuerMatchesCA

(***************************************************************************)
(* What a step does to the certificates: it deletes the one it is to       *)
(* delete, a missing one or a right one gets right, and the others only    *)
(* age.                                                                    *)
(***************************************************************************)
LEMMA FrontNext ==
  ASSUME Inv, [Next]_vars
  PROVE  \/ DeleteCert
         \/ \A n \in Node :
              \/ front'[n] = front[n]
              \/ Right(front'[n]) /\ (front[n] = NoCert \/ Right(front[n]))
              \/ /\ (Right(front'[n]) <=> Right(front[n]))
                 /\ front'[n] # NoCert /\ front[n] # NoCert
<1>0. TypeOK /\ Placed /\ JobsOurs /\ CertsInv
  BY DEF Inv
<1>1. ASSUME NEW j \in Job, JobOurs(j), RenewsRight(j), Succeeds(j), Effect(j), NEW n \in Node
      PROVE  front'[n] = front[n] \/ (Right(front'[n]) /\ (front[n] = NoCert \/ Right(front[n])))
  <2>1. CASE IsAccountJob(j)
    BY <1>0, <1>1, <2>1, TaskEffect
  <2>2. CASE ~IsAccountJob(j)
    <3>1. /\ Right(front'[j.node]) /\ (front[j.node] = NoCert \/ Right(front[j.node]))
          /\ \A k \in Node \ {j.node} : front'[k] = front[k]
      BY <1>0, <1>1, <2>2, TaskEffect
    <3> QED BY <3>1
  <2> QED BY <2>1, <2>2
<1>2. CASE LeftTaskEnds
  <2>1. PICK j \in left : IF Succeeds(j) THEN Effect(j) ELSE UNCHANGED <<account, front>>
    BY <1>2 DEF LeftTaskEnds
  <2>2. CASE Succeeds(j)
    BY <1>0, <1>1, <2>1, <2>2 DEF TypeOK, JobsOurs, CertsInv
  <2> QED BY <2>1, <2>2
<1>3. CASE TaskEnds
  <2>1. task.job \in Job
    BY <1>0, <1>3 DEF TypeOK, Tasks, TaskEnds, TaskMayEnd, NoTask
  <2>2. CASE Succeeds(task.job)
    BY <1>0, <1>1, <1>3, <2>1, <2>2 DEF TaskEnds, JobsOurs, CertsInv
  <2> QED BY <1>3, <2>2 DEF TaskEnds
<1>4. CASE \E n \in Node : Ages(n)
  <2>1. PICK n \in Node : Ages(n)
    BY <1>4
  <2>2. front[n] \in [san : {"fqdn", "other"}, ca : CA, age : {"fresh", "expiring"}]
    BY <1>0, <2>1 DEF TypeOK, Cert, NoCert, Ages
  <2>3. front'[n] = [front[n] EXCEPT !.age = "expiring"] /\ \A k \in Node \ {n} : front'[k] = front[k]
    BY <1>0, <2>1 DEF Ages, TypeOK
  <2>4. Right(front'[n]) <=> Right(front[n])
    BY <2>2, <2>3 DEF Right, IssuerMatchesCA
  <2>5. front'[n] # NoCert /\ front[n] # NoCert
    BY <2>2, <2>3 DEF NoCert
  <2> QED BY <2>3, <2>4, <2>5
<1>5. CASE UNCHANGED front
  BY <1>5
<1>6. CASE Deactivate \/ Register \/ Renew \/ Order
  BY <1>6 DEF Deactivate, Register, Renew, Order, Submit, world
<1>7. CASE Begin \/ CheckDone \/ CheckPending \/ ReadAccount \/ ReadPlugin \/ ReadConfig \/ ReadCerts
  BY <1>7 DEF Begin, CheckDone, CheckPending, ReadAccount, ReadPlugin, ReadConfig, ReadCerts, world
<1>8. CASE WritePlugin \/ WriteConfig \/ WaitEnds \/ Stop \/ Refused \/ TaskFails
  BY <1>8 DEF WritePlugin, WriteConfig, WaitEnds, Stop, Refused, Abandon, TaskFails, world
<1>9. CASE EditPlugin \/ (\E n \in Node : EditConfig(n)) \/ UNCHANGED vars
  BY <1>9 DEF EditPlugin, EditConfig, vars, world
<1> QED
  BY <1>2, <1>3, <1>4, <1>6, <1>7, <1>8, <1>9 DEF Next, Progress, Proxmox, Edit

\* No step takes a node from a right certificate to another one.
LEMMA RightKept ==
  ASSUME Inv, [Next]_vars, NEW n \in Node, Right(front[n])
  PROVE  Right(front'[n])
<1>1. CASE DeleteCert
  <2>1. NodeOf(pos) # n
    BY <1>1 DEF Inv, CertsInv, DeleteCert
  <2> QED BY <1>1, <2>1 DEF DeleteCert, Inv, TypeOK
<1> QED BY <1>1, FrontNext

LEMMA RenewsNext ==
  ASSUME Inv, [Next]_vars
  PROVE  RenewsRight(task.job)' /\ \A j \in left' : RenewsRight(j)'
<1>0. TypeOK /\ Placed /\ JobsOurs /\ CertsInv
  BY DEF Inv
<1>1. ASSUME NEW j \in left \cup {task.job} PROVE RenewsRight(j)'
  <2>1. RenewsRight(j) /\ JobOurs(j)
    BY <1>0 DEF JobsOurs, CertsInv
  <2> QED BY <2>1, RightKept, RightPrime DEF RenewsRight, JobOurs
<1>2. CASE Renew
  <2>1. NodeOf(pos) \in Node /\ Right(front[NodeOf(pos)]) /\ front' = front
    BY <1>0, <1>2, NodeOfStep DEF Renew, Submit, Placed, CertsInv, world
  <2> QED BY <1>1, <1>2, <2>1, JobsNext, RightPrime DEF Renew, Submit, RenewsRight
<1>3. CASE task' = NoTask \/ task'.job = task.job \/ Deactivate \/ Register \/ Order
  <2>1. task'.job = task.job \/ task'.job.op # "renew"
    BY <1>3 DEF Deactivate, Register, Order, Submit, NoTask
  <2> QED BY <1>1, <2>1, JobsNext DEF RenewsRight
<1> QED BY <1>2, <1>3, JobsNext

LEMMA CertsNext == Inv /\ [Next]_vars => CertsInv'
<1> SUFFICES ASSUME Inv, [Next]_vars PROVE CertsInv'
  OBVIOUS
<1>0. TypeOK /\ Placed /\ JobsOurs /\ CertsInv /\ pos \in Nat
  BY DEF Inv, TypeOK
<1>1. phase' = "renew" => Right(front'[NodeOf(pos')])
  <2> SUFFICES ASSUME phase' = "renew" PROVE Right(front'[NodeOf(pos')])
    OBVIOUS
  <2>1. CASE ReadCerts
    BY <1>0, <2>1 DEF ReadCerts, ActionFor, Goto, world
  <2>2. CASE phase = "renew" /\ pos' = pos
    BY <1>0, <2>2, NodeOfStep, RightKept DEF Placed, CertsInv
  <2>3. ReadCerts \/ (phase = "renew" /\ pos' = pos)
    BY DEF Next, Progress, Proxmox, Edit, Begin, StartRun, CheckDone, SkipStep, Advance, CheckPending,
           Enter, Goto, ReadAccount, Deactivate, Register, Submit, ReadPlugin, WritePlugin, StepApplied,
           ReadConfig, WriteConfig, Renew, DeleteCert, Order, WaitEnds, Refused, Stop, Fail, Kill,
           LeftTaskEnds, TaskEnds, TaskFails, Ages, EditPlugin, EditConfig, vars, run
  <2> QED BY <2>1, <2>2, <2>3
<1>2. phase' = "delete" => front'[NodeOf(pos')] # NoCert /\ ~Right(front'[NodeOf(pos')])
  <2> SUFFICES ASSUME phase' = "delete"
               PROVE  front'[NodeOf(pos')] # NoCert /\ ~Right(front'[NodeOf(pos')])
    OBVIOUS
  <2>1. CASE ReadCerts
    BY <1>0, <2>1 DEF ReadCerts, ActionFor, Goto, world
  <2>2. CASE phase = "delete" /\ pos' = pos
    <3>1. ~DeleteCert
      BY DEF DeleteCert, Goto
    <3> QED BY <1>0, <2>2, <3>1, NodeOfStep, FrontNext DEF Placed, CertsInv
  <2>3. ReadCerts \/ (phase = "delete" /\ pos' = pos)
    BY DEF Next, Progress, Proxmox, Edit, Begin, StartRun, CheckDone, SkipStep, Advance, CheckPending,
           Enter, Goto, ReadAccount, Deactivate, Register, Submit, ReadPlugin, WritePlugin, StepApplied,
           ReadConfig, WriteConfig, Renew, DeleteCert, Order, WaitEnds, Refused, Stop, Fail, Kill,
           LeftTaskEnds, TaskEnds, TaskFails, Ages, EditPlugin, EditConfig, vars, run
  <2> QED BY <2>1, <2>2, <2>3
<1>3. task'.state = "ok" /\ ~IsAccountJob(task'.job) => Right(front'[task'.job.node])
  <2> SUFFICES ASSUME task'.state = "ok", ~IsAccountJob(task'.job) PROVE Right(front'[task'.job.node])
    OBVIOUS
  <2>1. CASE TaskEnds
    <3>1. task \in [job : Job, state : {"running", "ok", "failed"}]
      BY <1>0, <2>1 DEF TypeOK, Tasks, TaskEnds, TaskMayEnd, NoTask
    <3>2. Succeeds(task.job) /\ Effect(task.job) /\ task'.job = task.job
      BY <2>1, <3>1 DEF TaskEnds
    <3> QED BY <1>0, <3>1, <3>2, TaskEffect DEF JobsOurs, CertsInv
  <2>2. CASE task' = task
    <3>1. task \in [job : Job, state : {"running", "ok", "failed"}]
      BY <1>0, <2>2 DEF TypeOK, Tasks, NoTask
    <3>2. task.job.node \in Node /\ Right(front[task.job.node])
      BY <1>0, <2>2, <3>1 DEF JobsOurs, JobOurs, CertsInv, IsAccountJob, Job
    <3> QED BY <2>2, <3>2, RightKept
  <2>3. TaskEnds \/ task' = task
    <3>1. task' # NoTask
      BY DEF NoTask
    <3>2. ~TaskFails
      <4>1. TaskFails => task \in [job : Job, state : {"running", "ok", "failed"}]
        BY <1>0 DEF TypeOK, Tasks, NoTask, TaskFails, TaskMayEnd
      <4> QED BY <4>1 DEF TaskFails
    <3> QED
      BY <3>1, <3>2
      DEF Next, Progress, Proxmox, Edit, Begin, CheckDone, CheckPending, ReadAccount, Deactivate, Register,
          Submit, ReadPlugin, WritePlugin, ReadConfig, WriteConfig, ReadCerts, Renew, DeleteCert, Order,
          WaitEnds, Refused, Stop, Abandon, LeftTaskEnds, Ages, EditPlugin, EditConfig, vars, run
  <2> QED BY <2>1, <2>2, <2>3
<1>4. ASSUME NEW n \in Node \ Builtin, pos' > 2 * n + 2 PROVE Right(front'[n])
  <2>1. CASE pos > 2 * n + 2
    BY <1>0, <2>1, RightKept DEF CertsInv
  <2>2. CASE Advance /\ pos = 2 * n + 2
    <3>1. /\ IsCert(pos) /\ ~IsConfig(pos) /\ NodeOf(pos) = n /\ pos # 1 /\ pos # 2
          /\ pos' # pos /\ pos' # 1
      BY <2>2, CertsAssumption DEF Advance, IsCert, IsConfig, NodeOf, Node
    <3>2. CheckDone \/ WaitEnds
      BY <2>2, <3>1
      DEF Next, Progress, Proxmox, Edit, Begin, StartRun, Advance, CheckPending, Enter, Goto, ReadAccount,
          Deactivate, Register, Submit, ReadPlugin, WritePlugin, ReadConfig, WriteConfig, ReadCerts, Renew,
          DeleteCert, Order, Refused, Stop, Fail, Kill, LeftTaskEnds, TaskEnds, TaskFails, Ages,
          EditPlugin, EditConfig, vars, run
    <3>3. Right(front[n])
      BY <1>0, <3>1, <3>2 DEF CheckDone, Done, WaitEnds, Placed, CertsInv, IsAccountJob
    <3> QED BY <3>3, RightKept
  <2>3. pos' = 1 \/ pos' = pos \/ Advance
    BY DEF Next, Progress, Proxmox, Edit, Begin, StartRun, CheckDone, SkipStep, CheckPending,
           Enter, Goto, ReadAccount, Deactivate, Register, Submit, ReadPlugin, WritePlugin, StepApplied,
           ReadConfig, WriteConfig, ReadCerts, Renew, DeleteCert, Order, WaitEnds, Refused, Stop, Fail, Kill,
           LeftTaskEnds, TaskEnds, TaskFails, Ages, EditPlugin, EditConfig, vars, run
  <2> QED BY <1>0, <1>4, <2>1, <2>2, <2>3 DEF Advance, Node
<1> QED BY <1>1, <1>2, <1>3, <1>4, RenewsNext, RightPrime DEF CertsInv, IsAccountJob

LEMMA NextInv == Inv /\ [Next]_vars => Inv'
  BY TypeNext, PlacedNext, JobsOursNext, AccountNext, CertsNext DEF Inv

(***************************************************************************)
(* The stage's variables keep their types.                                 *)
(***************************************************************************)
THEOREM TypeCorrect == Spec => []TypeOK
<1>1. Inv => TypeOK
  BY DEF Inv
<1> QED BY <1>1, InitInv, NextInv, PTL DEF Spec

(***************************************************************************)
(* Certificates are ordered and renewed from the configured CA only,       *)
(* whichever runs were killed with which of their tasks unfinished.        *)
(***************************************************************************)
THEOREM WantedCAOnly == Spec => []OrderedFromWant
<1>1. Inv => OrderedFromWant
  BY DEF Inv, AccountWanted, JobsOurs, JobOurs, OrderedFromWant
<1> QED BY <1>1, InitInv, NextInv, PTL DEF Spec

(***************************************************************************)
(* A run that returns no error leaves every node with a certificate that   *)
(* covers its FQDN and comes from an acceptable CA.                        *)
(***************************************************************************)
THEOREM OkServed == Spec => []OkMeansServed
<1>1. Inv => OkMeansServed
  BY CertsAssumption DEF Inv, Placed, CertsInv, OkMeansServed, Last, Node
<1> QED BY <1>1, InitInv, NextInv, PTL DEF Spec

(***************************************************************************)
(* Neither a run nor a task left behind takes a node from a certificate    *)
(* that is right to one that is not.                                       *)
(***************************************************************************)
THEOREM RightCertsStay == Spec => RightCertKept
<1>1. Inv /\ [Next]_vars => [\A n \in Node : Right(front[n]) => Right(front'[n])]_vars
  BY RightKept
<1> QED BY <1>1, InitInv, NextInv, PTL DEF Spec, RightCertKept

\* The slot a write goes to is the FQDN's own or a free one.
LEMMA SlotForNotOther ==
  ASSUME NEW slots \in [Slot -> SlotUse], SlotFor(slots) \in Slot
  PROVE  slots[SlotFor(slots)] # "other"
<1> DEFINE mine == {i \in Slot : slots[i] \in {"ours", "stale"}}
           unused == (0 .. Slots) \ {i \in Slot : slots[i] # "free"}
<1>1. CASE mine # {}
  <2>1. mine \subseteq Nat
    BY CertsAssumption DEF Slot
  <2>2. Min(mine) \in mine
    BY <1>1, <2>1, MinIsMember
  <2> QED BY <1>1, <2>2 DEF SlotFor
<1>2. CASE mine = {}
  <2>1. Slots \in unused /\ unused \subseteq Nat
    BY CertsAssumption DEF Slot
  <2>2. Min(unused) \in unused
    BY <2>1, MinIsMember
  <2> QED BY <1>2, <2>2 DEF SlotFor
<1> QED BY <1>1, <1>2

(***************************************************************************)
(* The write of a node's domain leaves the slots of other domains alone,   *)
(* those filled since the read included.                                   *)
(***************************************************************************)
THEOREM OtherSlotsStay == Spec => OtherSlotsKept
<1> DEFINE Kept == applied' # applied =>
                     \A n \in Node, i \in Slot : cfg[n].slots[i] = "other" => cfg'[n].slots[i] = "other"
<1>1. Inv /\ [Next]_vars => [Kept]_vars
  <2> SUFFICES ASSUME Inv, Next, applied' # applied,
                      NEW n \in Node, NEW i \in Slot, cfg[n].slots[i] = "other"
               PROVE  cfg'[n].slots[i] = "other"
    OBVIOUS
  <2>1. CASE WriteConfig
    <3> DEFINE m == NodeOf(pos)
    <3>1. m \in Node /\ seen = cfg[m] /\ cfg[m] \in Config /\ SlotFor(seen.slots) \in Slot
      BY <2>1, NodeOfStep DEF WriteConfig, Inv, Placed, TypeOK
    <3>2. seen.slots \in [Slot -> SlotUse] /\ seen.slots[SlotFor(seen.slots)] # "other"
      BY <3>1, SlotForNotOther DEF Config
    <3>3. cfg' = [cfg EXCEPT ![m] = [account |-> "default",
                                     slots   |-> [cfg[m].slots EXCEPT ![SlotFor(seen.slots)] = "ours"]]]
      BY <2>1 DEF WriteConfig
    <3> QED BY <3>1, <3>2, <3>3 DEF Inv, TypeOK
  <2>2. CASE UNCHANGED cfg
    BY <2>2
  <2>3. WriteConfig \/ UNCHANGED cfg
    BY DEF Next, Progress, Proxmox, Edit, Begin, CheckDone, CheckPending, ReadAccount, Deactivate, Register,
           Submit, ReadPlugin, WritePlugin, ReadConfig, ReadCerts, Renew, DeleteCert, Order, WaitEnds,
           Refused, Stop, Abandon, LeftTaskEnds, TaskEnds, TaskFails, Ages, EditPlugin, EditConfig, world, run
  <2> QED BY <2>1, <2>2, <2>3
<1> QED BY <1>1, InitInv, NextInv, PTL DEF Spec, OtherSlotsKept
-----------------------------------------------------------------------------
(***************************************************************************)
(* The stage implements the engine's contract.  It takes one more fact: a  *)
(* registration that ended well leaves the wanted account, and nothing of  *)
(* an earlier run can take it away before the run has seen the end: the    *)
(* account lock lets no account task pass another.                         *)
(***************************************************************************)
Registered ==
  task.state = "ok" /\ task.job.op = "register" =>
    account = Want /\ \A j \in left : ~IsAccountJob(j)

LEMMA RegisteredNext ==
  ASSUME Inv, Registered, [Next]_vars
  PROVE  Registered'
<1>0. TypeOK /\ Placed /\ JobsOurs /\ CertsInv
  BY DEF Inv
<1> SUFFICES ASSUME task'.state = "ok", task'.job.op = "register"
             PROVE  account' = Want /\ \A j \in left' : ~IsAccountJob(j)
  BY DEF Registered, IsAccountJob
<1>1. CASE TaskEnds
  <2>1. task \in [job : Job, state : {"running", "ok", "failed"}]
    BY <1>0, <1>1 DEF TypeOK, Tasks, TaskEnds, TaskMayEnd, NoTask
  <2>2. /\ Succeeds(task.job) /\ Effect(task.job) /\ task'.job = task.job
        /\ left' = left /\ \A j \in left : ~IsAccountJob(j)
    BY <1>1, <2>1 DEF TaskEnds, TaskMayEnd, IsAccountJob
  <2> QED BY <1>0, <2>2 DEF Effect, IsAccountJob, JobsOurs, JobOurs
<1>2. CASE task' = task /\ UNCHANGED account /\ left' \subseteq left
  BY <1>2 DEF Registered
<1>3. CASE LeftTaskEnds
  <2>1. PICK j \in left :
          /\ left' = left \ {j} /\ task' = task
          /\ IF Succeeds(j) THEN Effect(j) ELSE UNCHANGED <<account, front>>
    BY <1>3 DEF LeftTaskEnds, run
  <2>2. ~IsAccountJob(j)
    BY <2>1 DEF Registered
  <2> QED BY <2>1, <2>2 DEF Effect, Registered
<1>4. CASE (\E n \in Node : Ages(n) \/ EditConfig(n)) \/ EditPlugin \/ UNCHANGED vars
  BY <1>2, <1>4 DEF Ages, EditPlugin, EditConfig, vars, world, run
<1>5. task' # NoTask
  BY DEF NoTask
<1>6. ~TaskFails
  <2>1. TaskFails => task \in [job : Job, state : {"running", "ok", "failed"}]
    BY <1>0 DEF TypeOK, Tasks, NoTask, TaskFails, TaskMayEnd
  <2> QED BY <2>1 DEF TaskFails
<1>7. CASE Begin \/ CheckDone \/ CheckPending \/ ReadAccount \/ ReadPlugin \/ ReadConfig \/ ReadCerts
  BY <1>2, <1>7 DEF Begin, CheckDone, CheckPending, ReadAccount, ReadPlugin, ReadConfig, ReadCerts, world
<1>8. CASE WritePlugin \/ WriteConfig \/ DeleteCert
  BY <1>2, <1>8 DEF WritePlugin, WriteConfig, DeleteCert
<1>9. ~(Deactivate \/ Register \/ Renew \/ Order \/ WaitEnds \/ Stop \/ Refused)
  BY <1>5 DEF Deactivate, Register, Renew, Order, Submit, WaitEnds, Stop, Refused, Abandon
<1> QED
  BY <1>1, <1>3, <1>4, <1>6, <1>7, <1>8, <1>9 DEF Next, Progress, Proxmox, Edit

StageInv == Inv /\ Registered

LEMMA StageInit == Init => Stage!Init /\ StageInv
<1> SUFFICES ASSUME Init PROVE Stage!Init /\ Registered
  BY InitInv DEF StageInv
<1>1. Stage!Init
  BY DEF Init, RunInit, Stage!Init, Mode, Holds, Stage!Step, Step
<1>2. Registered
  BY DEF Init, NoTask, Registered
<1> QED BY <1>1, <1>2

\* Whatever happens, the certificates stay that do their work.
LEMMA CertsHold ==
  ASSUME Inv, [Next]_vars
  PROVE  Holds' \in SUBSET Stage!Step /\ Stage!WorldMoves
<1>1. Holds' \subseteq Step
  BY DEF Holds
<1>2. ASSUME NEW s \in Step, IsCert(s), s \in Holds PROVE s \in Holds'
  <2>1. s # 1 /\ s # 2 /\ ~IsConfig(s) /\ NodeOf(s) \in Node
    BY <1>2, NodeOfStep DEF IsCert, IsConfig
  <2>2. NodeOf(s) \in Builtin \/ Right(front[NodeOf(s)])
    BY <1>2, <2>1 DEF Holds, Done
  <2>3. NodeOf(s) \in Builtin \/ Right(front[NodeOf(s)])'
    BY <2>1, <2>2, RightKept, RightPrime DEF Right, IssuerMatchesCA
  <2> QED BY <1>2, <2>3 DEF Holds, NodeOf
<1> QED BY <1>1, <1>2 DEF Stage!WorldMoves, Stage!WorldMay, Stage!Step, Step

LEMMA StageNext == StageInv /\ [Next]_vars => [Stage!Next]_(Stage!vars)
<1> SUFFICES ASSUME StageInv, [Next]_vars PROVE [Stage!Next]_(Stage!vars)
  OBVIOUS
<1>0. Inv /\ TypeOK /\ Placed /\ JobsOurs /\ CertsInv
  BY DEF StageInv, Inv
<1>h. Holds' \in SUBSET Stage!Step /\ Stage!WorldMoves /\ Holds \subseteq Step
  BY <1>0, CertsHold DEF Holds
<1>k. UNCHANGED <<account, plugin, cfg, front>> => Holds' = Holds
  BY DEF Holds, Done, Wired, Right, IssuerMatchesCA, IsConfig, IsCert, NodeOf
\* What moves only the world, and what stays within Apply.
<1>w. ASSUME Mode' = Mode, UNCHANGED <<pos, applied, result>> PROVE Stage!World
  BY <1>h, <1>w DEF Stage!World, Stage!run
<1>a. ASSUME phase \notin {"idle", "check"}, Fail PROVE Stage!ApplyError
  BY <1>h, <1>a DEF Fail, Stage!ApplyError, Stage!Fail, Mode
<1>d. ASSUME phase \notin {"idle", "check"}, StepApplied, pos \in Holds' PROVE Stage!ApplyDone
  BY <1>h, <1>d DEF StepApplied, Advance, Stage!ApplyDone, Stage!Advance, Stage!WorldMoves,
                    Stage!WorldMay, Stage!Step, Mode
<1>1. CASE Begin
  BY <1>h, <1>1 DEF Begin, StartRun, Stage!StartRun, Stage!Next, Mode
<1>2. CASE CheckDone
  <2>1. pos \in Holds /\ Holds' = Holds
    BY <1>0, <1>2, <1>k DEF CheckDone, Placed, Holds, Done, GoodPlugin, IsCert, IsConfig, world
  <2> QED
    BY <1>2, <2>1 DEF CheckDone, SkipStep, Advance, Stage!CheckDone, Stage!Advance, Stage!Next,
                      Stage!Run, Mode
<1>3. CASE CheckPending
  <2>1. pos \notin Holds \cap {s \in Step : s = 1 \/ IsConfig(s)} /\ Holds' = Holds
    BY <1>3, <1>k DEF CheckPending, Holds, IsCert, IsConfig, world
  <2> QED
    BY <1>3, <2>1 DEF CheckPending, Enter, Goto, Stage!CheckPending, Stage!Next, Stage!Run, Mode
<1>4. CASE ReadAccount \/ ReadPlugin \/ ReadConfig \/ ReadCerts \/ DeleteCert
  BY <1>4, <1>w DEF ReadAccount, ReadPlugin, ReadConfig, ReadCerts, DeleteCert, ActionFor, Goto, Mode, Stage!Next
<1>5. CASE Deactivate \/ Register \/ Renew \/ Order
  BY <1>5, <1>w DEF Deactivate, Register, Renew, Order, Submit, Goto, Mode, Stage!Next
<1>6. CASE WritePlugin
  <2>1. pos \in Holds'
    BY <1>0, <1>6 DEF WritePlugin, GoodPlugin, Holds, TypeOK, Plugin, NoPlugin, Placed
  <2> QED BY <1>6, <1>d, <2>1 DEF WritePlugin, Stage!Next, Stage!Run
<1>7. CASE WriteConfig
  <2>1. PICK s \in Step, n \in Node, i \in Slot : s = pos /\ n = NodeOf(s) /\ i = SlotFor(seen.slots) /\ IsConfig(s)
    BY <1>0, <1>7, NodeOfStep DEF WriteConfig, Placed
  <2>2. cfg[n].slots \in [Slot -> SlotUse]
    BY <1>0, <2>1 DEF TypeOK, Config
  <2>3. cfg' = [cfg EXCEPT ![n] = [account |-> "default",
                                  slots   |-> [cfg[n].slots EXCEPT ![i] = "ours"]]]
    BY <1>7, <2>1 DEF WriteConfig
  <2>4. cfg'[n].account = "default" /\ cfg'[n].slots[i] = "ours"
    BY <1>0, <2>1, <2>2, <2>3 DEF TypeOK
  <2>5. Wired(cfg[n])'
    BY <2>1, <2>4 DEF Wired
  <2>6. pos \in Holds'
    BY <2>1, <2>5 DEF Holds, Done, IsConfig, NodeOf
  <2> QED BY <1>7, <1>d, <2>6 DEF WriteConfig, Stage!Next, Stage!Run
<1>8. CASE WaitEnds
  <2>1. phase = "wait" /\ task.state = "ok" /\ UNCHANGED world
    BY <1>8 DEF WaitEnds
  <2>2. CASE task.job.op = "deactivate"
    BY <1>8, <1>w, <2>1, <2>2 DEF WaitEnds, Goto, Mode, Stage!Next
  <2>3. CASE task.job.op # "deactivate"
    <3>1. pos \in Holds
      <4>1. CASE pos = 1
        <5>1. account = Want
          BY <1>0, <2>1, <2>3, <4>1 DEF StageInv, Registered, Placed, IsAccountJob, IsCert
        <5> QED BY <4>1, <5>1, <1>0, <2>1 DEF Holds, Done, Placed
      <4>2. CASE IsCert(pos) /\ task.job.op \in {"order", "renew"} /\ task.job.node = NodeOf(pos)
        BY <1>0, <2>1, <4>2 DEF CertsInv, Placed, IsAccountJob, Holds
      <4> QED BY <1>0, <2>1, <4>1, <4>2 DEF Placed
    <3> QED BY <1>8, <1>d, <1>k, <2>1, <2>3, <3>1 DEF WaitEnds, world, Stage!Next, Stage!Run
  <2> QED BY <2>2, <2>3
<1>9. CASE Stop \/ Refused
  <2>1. CASE Fail /\ phase = "check"
    <3>1. Holds' = Holds
      BY <1>9, <1>k DEF Stop, Refused, Abandon
    <3> QED BY <2>1, <3>1 DEF Fail, Stage!CheckError, Stage!Fail, Stage!Next, Stage!Fault, Mode
  <2>2. CASE Fail /\ phase # "check"
    BY <1>a, <2>2 DEF Fail, Stage!Next, Stage!Fault
  <2>3. CASE Kill
    BY <1>h, <2>3 DEF Kill, Stage!Interrupt, Stage!Next, Stage!Fault, Mode
  <2> QED BY <1>9, <2>1, <2>2, <2>3 DEF Stop, Refused
<1>10. CASE Proxmox \/ Edit \/ UNCHANGED vars
  <2>1. UNCHANGED <<phase, pos, applied, result>>
    BY <1>10 DEF Proxmox, Edit, LeftTaskEnds, TaskEnds, TaskFails, Ages, EditPlugin, EditConfig, vars, run
  <2> QED BY <1>w, <2>1 DEF Mode, Stage!Next
<1> QED
  BY <1>1, <1>2, <1>3, <1>4, <1>5, <1>6, <1>7, <1>8, <1>9, <1>10 DEF Next, Progress

(***************************************************************************)
(* The certificates are a stage of the engine: account, plugin, domains    *)
(* and certificates are applied in this order, the first failure stops the *)
(* run, and a step returns success only once the account is the wanted     *)
(* one, the plugin has the credentials, the node is wired or its           *)
(* certificate covers the FQDN; and no certificate is undone.              *)
(***************************************************************************)
THEOREM CertsImplementStage == Spec => ImplementsStage
<1>1. StageInv /\ [Next]_vars => StageInv'
  BY NextInv, RegisteredNext DEF StageInv
<1> QED BY <1>1, StageInit, StageNext, PTL DEF Spec, ImplementsStage, Stage!Spec
-----------------------------------------------------------------------------
(***************************************************************************)
(* What the engine guarantees for every stage, it guarantees for this one  *)
(* (see PveForm_proofs).                                                   *)
(***************************************************************************)
Engine ==
  INSTANCE Steps_proofs WITH
    Stable <- {s \in Step : IsCert(s)}, Exact <- {s \in Step : s = 1 \/ IsConfig(s)},
    holds <- Holds, kind <- "run", mode <- Mode, pending <- {},
    MaxFaults <- 0, faults <- 0, missing <- {}

LEMMA SameEngine == Stage!Spec => Engine!Spec
<1>1. Stage!Init => Engine!Init
  BY DEF Stage!Init, Engine!Init, Stage!Step, Engine!Step
<1>2. [Stage!Next]_(Stage!vars) => [Engine!Next]_(Engine!vars)
  BY DEF Stage!Next, Stage!vars, Stage!run, Stage!Step, Stage!World, Stage!WorldMoves, Stage!WorldMay,
         Stage!StartRun, Stage!NoStage, Stage!Advance, Stage!Fail, Stage!Run, Stage!CheckDone,
         Stage!CheckPending, Stage!ApplyDone, Stage!Fault, Stage!CheckError, Stage!ApplyError, Stage!Interrupt,
         Engine!Next, Engine!vars, Engine!run, Engine!Step, Engine!World, Engine!WorldMoves, Engine!WorldMay,
         Engine!StartRun, Engine!NoStage, Engine!Advance, Engine!Fail, Engine!Run, Engine!CheckDone,
         Engine!CheckPending, Engine!ApplyDone, Engine!Fault, Engine!CheckError, Engine!ApplyError,
         Engine!Interrupt
<1> QED BY <1>1, <1>2, PTL DEF Stage!Spec, Engine!Spec

(***************************************************************************)
(* Every node before the one a run of pve certs is at has a certificate    *)
(* that covers its FQDN from an acceptable CA, and after a run that        *)
(* returns no error all have: a bad order stops the run at the first node, *)
(* and nothing later undoes an earlier certificate.                        *)
(***************************************************************************)
THEOREM CertsInOrder == Spec => [](Stage!EarlierHold /\ Stage!ConvergedWhenOk)
<1>1. Engine!StageAssumption
  BY CertsAssumption DEF Engine!StageAssumption, Step, Last
<1>2. Engine!Spec => []Engine!EarlierHold /\ []Engine!ConvergedWhenOk
  BY <1>1, Engine!StepsInOrder, Engine!OkConverged
<1>3. Engine!EarlierHold /\ Engine!ConvergedWhenOk => Stage!EarlierHold /\ Stage!ConvergedWhenOk
  BY DEF Engine!EarlierHold, Engine!ConvergedWhenOk, Stage!EarlierHold, Stage!ConvergedWhenOk
<1> QED BY CertsImplementStage, SameEngine, <1>2, <1>3, PTL DEF ImplementsStage
=============================================================================
