------------------------------ MODULE PveCerts ------------------------------
(***************************************************************************)
(* pve certs (internal/pve/certs.go): ACME account, DNS challenge plugin,  *)
(* and per node n the domain wiring and the certificate.  The steps are    *)
(*   step 1        acme-account          step 2n + 1   acme-config-<n>     *)
(*   step 2        acme-plugin           step 2n + 2   acme-cert-<n>       *)
(* Account and certificate writes are Proxmox tasks the run waits for; a   *)
(* run that stops leaves its task behind, and it still ends.  Plugin and   *)
(* node config writes carry the digest of what was read.                   *)
(***************************************************************************)
EXTENDS Naturals, FiniteSets, FiniteSetsExt

CONSTANTS
  N,        \* number of configured nodes
  Slots,    \* number of acmedomain slots Proxmox has on a node
  Want,     \* desiredDirectory
  Builtin   \* nodes whose pve-ssl.pem, not the frontend file, covers the FQDN

CA == {"production", "staging"}

ASSUME CertsAssumption ==
  /\ N \in Nat \ {0} /\ Slots \in Nat \ {0}
  /\ Want \in CA
  /\ Builtin \subseteq 1 .. N

VARIABLES
  \* Proxmox.
  account,  \* directory of the account "default", or "none"
  plugin,   \* the plugin named by acme.dns
  cfg,      \* node config: the account it names and its acmedomain slots
  front,    \* the pveproxy-ssl.pem of each node
  left,     \* unfinished tasks of runs that stopped
  \* The run.
  task,     \* the task the run started and waits for
  seen,     \* what Apply has read, with its digest
  phase, pos, applied, result

world == <<account, plugin, cfg, front, left>>
run == <<task, seen, phase, pos, applied, result>>
vars == <<world, run>>

Node == 1 .. N
Slot == 0 .. Slots - 1
Last == 2 * N + 2
Step == 1 .. Last
IsConfig(s) == s > 2 /\ s % 2 = 1
IsCert(s) == s > 2 /\ s % 2 = 0
NodeOf(s) == (s - 1) \div 2

INSTANCE StageRun

NoPlugin == [creds |-> "absent", use |-> "disabled"]
Plugin == [creds : {"ours", "other"}, use : {"enabled", "disabled"}]
            \cup {NoPlugin}
Unread == [creds |-> "unread", use |-> "unread"]
GoodPlugin == [creds |-> "ours", use |-> "enabled"]

\* A slot holds our binding, our FQDN bound to another plugin, or another domain.
SlotUse == {"free", "ours", "stale", "other"}
Config == [account : {"default", "other"}, slots : [Slot -> SlotUse]]

NoCert == [san |-> "none", ca |-> "none", age |-> "none"]
Cert == [san : {"fqdn", "other"}, ca : CA, age : {"fresh", "expiring"}] \cup {NoCert}

Job == [op : {"deactivate", "register", "order", "renew"}, node : 0 .. N, ca : CA]
NoTask == [job |-> [op |-> "none", node |-> 0, ca |-> Want], state |-> "none"]
Tasks == [job : Job, state : {"running", "ok", "failed"}] \cup {NoTask}
IsAccountJob(j) == j.op \in {"deactivate", "register"}

Phase == {"idle", "check", "read", "deactivate", "register", "write", "renew", "delete", "order", "wait"}

TypeOK ==
  /\ account \in CA \cup {"none"}
  /\ plugin \in Plugin
  /\ cfg \in [Node -> Config]
  /\ front \in [Node -> Cert]
  /\ left \subseteq Job
  /\ task \in Tasks /\ (task # NoTask <=> phase = "wait")
  /\ seen \in Plugin \cup Config \cup {Unread}
  /\ phase \in Phase
  /\ pos \in 1 .. Last + 1
  /\ applied \subseteq Step
  /\ result \in {"none", "ok", "failed"}

Init ==
  /\ account \in CA \cup {"none"}
  /\ plugin \in Plugin
  /\ cfg \in [Node -> Config]
  /\ front \in [Node -> Cert]
  /\ left = {}
  /\ task = NoTask
  /\ seen = Unread
  /\ RunInit
-----------------------------------------------------------------------------
(***************************************************************************)
(* What the checks look for.  Their reads fail with an error (Stop).       *)
(***************************************************************************)

\* issuerMatchesCA: only the flip from staging to production has an opinion.
IssuerMatchesCA(c) == Want = "production" => c.ca # "staging"
Right(c) == c.san = "fqdn" /\ IssuerMatchesCA(c)

Wired(c) == c.account = "default" /\ \E i \in Slot : c.slots[i] = "ours"

\* Mutation: an account of any directory will do.
DoneAnyAccount(s) ==
  \/ s = 1 /\ account # "none"
  \/ s = 2 /\ plugin = GoodPlugin
  \/ IsConfig(s) /\ Wired(cfg[NodeOf(s)])
  \/ IsCert(s) /\ Right(front[NodeOf(s)]) /\ front[NodeOf(s)].age = "fresh"
\* Mutation: the issuer of the installed certificate is not compared.
DoneAnyIssuer(s) ==
  \/ s = 1 /\ account = Want
  \/ s = 2 /\ plugin = GoodPlugin
  \/ IsConfig(s) /\ Wired(cfg[NodeOf(s)])
  \/ IsCert(s) /\ front[NodeOf(s)].san = "fqdn" /\ front[NodeOf(s)].age = "fresh"
\* certCheck takes any certificate of the node that covers the FQDN.
Done(s) ==
  \/ s = 1 /\ account = Want
  \/ s = 2 /\ plugin = GoodPlugin
  \/ IsConfig(s) /\ Wired(cfg[NodeOf(s)])
  \/ IsCert(s) /\ LET n == NodeOf(s) IN
                  n \in Builtin \/ (Right(front[n]) /\ front[n].age = "fresh")
-----------------------------------------------------------------------------
(***************************************************************************)
(* Proxmox: tasks end, certificates age, another admin edits.              *)
(***************************************************************************)

\* An ACME order succeeds once account, plugin and node config fit together;
\* it refuses to overwrite a frontend file, and a renewal replaces one.
Succeeds(j) ==
  CASE j.op = "deactivate" -> account # "none"
    [] j.op = "register" -> account = "none"
    [] j.op = "order" -> front[j.node] = NoCert /\ plugin = GoodPlugin /\ Wired(cfg[j.node])
    [] j.op = "renew" -> front[j.node] # NoCert /\ plugin = GoodPlugin /\ Wired(cfg[j.node])

Effect(j) ==
  IF IsAccountJob(j)
  THEN account' = (IF j.op = "register" THEN j.ca ELSE "none") /\ UNCHANGED front
  ELSE /\ front' = [front EXCEPT ![j.node] = [san |-> "fqdn", ca |-> j.ca, age |-> "fresh"]]
       /\ UNCHANGED account

\* Account tasks hold the cluster-wide account lock: in order of submission.
LeftTaskEnds ==
  \E j \in left :
    /\ left' = left \ {j}
    /\ IF Succeeds(j) THEN Effect(j) ELSE UNCHANGED <<account, front>>
    /\ UNCHANGED <<plugin, cfg, run>>
TaskMayEnd ==
  /\ task.state = "running"
  /\ IsAccountJob(task.job) => \A j \in left : ~IsAccountJob(j)
TaskEnds ==
  /\ TaskMayEnd
  /\ IF Succeeds(task.job)
     THEN Effect(task.job) /\ task' = [task EXCEPT !.state = "ok"]
     ELSE UNCHANGED <<account, front>> /\ task' = [task EXCEPT !.state = "failed"]
  /\ UNCHANGED <<plugin, cfg, left, seen, phase, pos, applied, result>>
TaskFails ==
  /\ TaskMayEnd
  /\ task' = [task EXCEPT !.state = "failed"]
  /\ UNCHANGED <<world, seen, phase, pos, applied, result>>

Ages(n) ==
  /\ front[n].age = "fresh"
  /\ task.state = "none"
  /\ front' = [front EXCEPT ![n].age = "expiring"]
  /\ UNCHANGED <<account, plugin, cfg, left, run>>

EditPlugin ==
  /\ \/ plugin # NoPlugin /\ plugin' = [plugin EXCEPT !.creds = "other"]
     \/ plugin' = NoPlugin
  /\ UNCHANGED <<account, cfg, front, left, run>>
EditConfig(n) ==
  /\ \E i \in Slot, u \in {"free", "other"} : cfg' = [cfg EXCEPT ![n].slots[i] = u]
  /\ UNCHANGED <<account, plugin, front, left, run>>
-----------------------------------------------------------------------------
(***************************************************************************)
(* The run.                                                                *)
(***************************************************************************)
Begin == StartRun /\ UNCHANGED <<world, task, seen>>
CheckDone == phase = "check" /\ Done(pos) /\ SkipStep /\ UNCHANGED <<world, task, seen>>
CheckPending == phase = "check" /\ ~Done(pos) /\ Enter("read") /\ UNCHANGED <<world, task, seen>>

Submit(op, n, ca) ==
  /\ task' = [job |-> [op |-> op, node |-> n, ca |-> ca], state |-> "running"]
  /\ Goto("wait")
  /\ UNCHANGED <<world, seen>>

\* applyAccount: an account that exists is deactivated first, whichever its
\* directory; the root session is already open when it is read.
ReadAccount ==
  /\ phase = "read" /\ pos = 1
  /\ Goto(IF account = "none" THEN "register" ELSE "deactivate")
  /\ UNCHANGED <<world, task, seen>>
Deactivate == phase = "deactivate" /\ account # "none" /\ Submit("deactivate", 0, Want)
Register == phase = "register" /\ account = "none" /\ Submit("register", 0, Want)

ReadPlugin ==
  /\ phase = "read" /\ pos = 2
  /\ seen' = plugin
  /\ Goto("write")
  /\ UNCHANGED <<world, task>>
\* applyPlugin: an existing plugin only has its credentials updated.
WritePlugin ==
  /\ phase = "write" /\ pos = 2
  /\ plugin = seen
  /\ plugin' = IF seen.creds = "absent" THEN GoodPlugin ELSE [seen EXCEPT !.creds = "ours"]
  /\ StepApplied
  /\ seen' = Unread
  /\ UNCHANGED <<account, cfg, front, left, task>>

\* slotFor: the first slot with the FQDN, else the lowest unused index.
SlotFor(slots) ==
  LET mine == {i \in Slot : slots[i] \in {"ours", "stale"}}
      unused == (0 .. Slots) \ {i \in Slot : slots[i] # "free"}
  IN  IF mine # {} THEN Min(mine) ELSE Min(unused)

ReadConfig ==
  /\ phase = "read" /\ IsConfig(pos)
  /\ seen' = cfg[NodeOf(pos)]
  /\ Goto("write")
  /\ UNCHANGED <<world, task>>
\* Mutation: the write does not carry the digest of the read.
WriteConfigBlind ==
  /\ phase = "write" /\ IsConfig(pos)
  /\ SlotFor(seen.slots) \in Slot
  /\ cfg' = [cfg EXCEPT ![NodeOf(pos)] =
              [account |-> "default",
               slots |-> [cfg[NodeOf(pos)].slots EXCEPT ![SlotFor(seen.slots)] = "ours"]]]
  /\ StepApplied
  /\ seen' = Unread
  /\ UNCHANGED <<account, plugin, front, left, task>>
\* applyDomain: one slot and the account are written, the rest stays.
WriteConfig ==
  /\ phase = "write" /\ IsConfig(pos)
  /\ cfg[NodeOf(pos)] = seen
  /\ SlotFor(seen.slots) \in Slot
  /\ cfg' = [cfg EXCEPT ![NodeOf(pos)] =
              [account |-> "default",
               slots |-> [cfg[NodeOf(pos)].slots EXCEPT ![SlotFor(seen.slots)] = "ours"]]]
  /\ StepApplied
  /\ seen' = Unread
  /\ UNCHANGED <<account, plugin, front, left, task>>

\* Mutation: an expiring certificate is replaced like a wrong one.
ActionForNoRenew(c) == IF c = NoCert THEN "order" ELSE "delete"
\* Mutation: the file that is there is not looked at.
ActionForOrder(c) == "order"
\* certActionFor: the frontend file alone dictates the path.
ActionFor(c) == IF c = NoCert THEN "order" ELSE IF Right(c) THEN "renew" ELSE "delete"
ReadCerts ==
  /\ phase = "read" /\ IsCert(pos)
  /\ Goto(ActionFor(front[NodeOf(pos)]))
  /\ UNCHANGED <<world, task, seen>>
Renew ==
  /\ phase = "renew" /\ front[NodeOf(pos)] # NoCert /\ account # "none"
  /\ Submit("renew", NodeOf(pos), account)
DeleteCert ==
  /\ phase = "delete"
  /\ front' = [front EXCEPT ![NodeOf(pos)] = NoCert]
  /\ Goto("order")
  /\ UNCHANGED <<account, plugin, cfg, left, task, seen>>
Order ==
  /\ phase = "order" /\ front[NodeOf(pos)] = NoCert /\ account # "none"
  /\ Submit("order", NodeOf(pos), account)

\* waitTask; the deactivation is followed by the registration.
WaitEnds ==
  /\ phase = "wait" /\ task.state = "ok"
  /\ task' = NoTask
  /\ IF task.job.op = "deactivate" THEN Goto("register") ELSE StepApplied
  /\ UNCHANGED <<world, seen>>

\* The run ends where it is; the task it waits for does not.
Abandon ==
  /\ left' = IF task.state = "running" THEN left \cup {task.job} ELSE left
  /\ task' = NoTask
  /\ seen' = Unread
  /\ UNCHANGED <<account, plugin, cfg, front>>
\* Any call may fail, its request accepted or not.
Stop == (Fail \/ Kill) /\ Abandon

\* Proxmox refuses what no longer fits what was read, and slots it has not.
Blocked ==
  \/ phase = "deactivate" /\ account = "none"
  \/ phase = "register" /\ account # "none"
  \/ phase = "write" /\ pos = 2 /\ plugin # seen
  \/ phase = "write" /\ IsConfig(pos)
       /\ (cfg[NodeOf(pos)] # seen \/ SlotFor(seen.slots) \notin Slot)
  \/ phase = "renew" /\ front[NodeOf(pos)] = NoCert
  \/ phase = "order" /\ front[NodeOf(pos)] # NoCert
  \/ phase \in {"renew", "order"} /\ account = "none"
  \/ phase = "wait" /\ task.state = "failed"
Refused == Blocked /\ Fail /\ Abandon

Progress ==
  \/ Begin \/ CheckDone \/ CheckPending
  \/ ReadAccount \/ Deactivate \/ Register
  \/ ReadPlugin \/ WritePlugin
  \/ ReadConfig \/ WriteConfig
  \/ ReadCerts \/ Renew \/ DeleteCert \/ Order
  \/ WaitEnds \/ Refused

Edit == EditPlugin \/ \E n \in Node : EditConfig(n)
Proxmox == LeftTaskEnds \/ TaskEnds \/ TaskFails \/ \E n \in Node : Ages(n)

Next == Progress \/ Stop \/ Proxmox \/ Edit

Spec == Init /\ [][Next]_vars
-----------------------------------------------------------------------------
(***************************************************************************)
(* Every certificate is ordered and renewed from the configured CA: past   *)
(* the account step the account is never one of another directory,         *)
(* however many runs were killed between deactivating the old account and  *)
(* registering the new one.                                                *)
(***************************************************************************)
OrderedFromWant ==
  /\ pos > 1 => account \in {Want, "none"}
  /\ \A j \in left \cup {task.job} : j.op \in {"order", "renew"} => j.ca = Want

(***************************************************************************)
(* The stage never takes a node from a certificate that is right to one    *)
(* that is not: it deletes only a certificate that is wrong, renews only   *)
(* one that is right, and a task an interrupted run left behind does not   *)
(* replace what a later run installed by something worse.                  *)
(***************************************************************************)
RightCertKept == [][\A n \in Node : Right(front[n]) => Right(front'[n])]_vars

(***************************************************************************)
(* A run that returns no error leaves every node serving a certificate     *)
(* that covers its FQDN and comes from an acceptable CA, except the nodes  *)
(* whose self-signed pve-ssl.pem covers the FQDN: certCheck takes any      *)
(* certificate of the node for the one it serves.                          *)
(***************************************************************************)
OkMeansServed == result = "ok" => \A n \in Node \ Builtin : Right(front[n])

(***************************************************************************)
(* Writing the domain of a node leaves the slots of other domains as they  *)
(* are, also those somebody filled after the slots were read.              *)
(***************************************************************************)
OtherSlotsKept ==
  [][applied' # applied =>
       \A n \in Node, i \in Slot :
         cfg[n].slots[i] = "other" => cfg'[n].slots[i] = "other"]_vars
-----------------------------------------------------------------------------
(***************************************************************************)
(* The certificates as a stage of the engine, for what its steps really    *)
(* achieve: applyPlugin leaves a disabled plugin disabled, and a           *)
(* certificate that covers the FQDN does its work until it is renewed.     *)
(* Only a certificate is never undone; the other checks are exact but for  *)
(* the plugin's and the certificates', which ask for more.                 *)
(***************************************************************************)
Mode == IF phase \in {"idle", "check"} THEN phase ELSE "apply"
Holds ==
  {s \in Step :
     \/ s = 2 /\ plugin.creds = "ours"
     \/ IsCert(s) /\ (NodeOf(s) \in Builtin \/ Right(front[NodeOf(s)]))
     \/ s # 2 /\ Done(s)}

Stage ==
  INSTANCE Steps WITH
    Stable <- {s \in Step : IsCert(s)},
    Exact <- {s \in Step : s = 1 \/ IsConfig(s)},
    holds <- Holds,
    kind <- "run",
    mode <- Mode,
    pending <- {}

ImplementsStage == Stage!Spec
=============================================================================
