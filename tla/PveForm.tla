------------------------------ MODULE PveForm ------------------------------
(***************************************************************************)
(* pve form (internal/pve/form.go): the CLI forms a Proxmox VE cluster     *)
(* from the configured nodes.  Node 1 is the configured primary, nodes     *)
(* 2 .. N the others in config order.  The stage has N + 1 steps:          *)
(*   step 1        create-cluster    creates the cluster on the primary    *)
(*   step n        join-<node n>     joins node n, 2 <= n <= N             *)
(*   step N + 1    cluster-quorate   waits until all of them are online    *)
(* Every step may be interrupted anywhere and the stage re-run; the        *)
(* requests the CLI sent stay in flight when it stops, and land later.     *)
(***************************************************************************)
EXTENDS Naturals, FiniteSets

CONSTANTS
  N,         \* number of configured nodes
  Extras,    \* cluster members that are not in the config
  Initial    \* clusters the primary may be in at first: "none", "ours"
             \* (the configured name) or "foreign" (another name)

ASSUME FormAssumption ==
  /\ N \in Nat \ {0}
  /\ IsFiniteSet(Extras) /\ Extras \cap (1 .. N) = {}
  /\ Initial \subseteq {"none", "ours", "foreign"}

VARIABLES
  \* The nodes, reached over the Proxmox API.
  cluster,   \* name of the cluster the primary is in
  members,   \* corosync nodelist of the primary
  online,    \* members the cluster status shows online
  inflight,  \* nodes whose request to become a member (create for node 1,
             \* join for the others) was accepted and has not landed
  \* The run of the CLI.
  phase,     \* where in the step: see Phase
  pos,       \* the step
  want,      \* the "want" of the pending waitForQuorum
  applied,   \* steps applied in this run
  result     \* what the latest run returned

world == <<cluster, members, online, inflight>>
run == <<phase, pos, want, applied, result>>
vars == <<world, run>>

Node == 1 .. N
Step == 1 .. N + 1
Known == Node \cup Extras

Phase ==
  {"idle",        \* no run
   "check",       \* Check of step pos
   "create",      \* applyCreate, before its write
   "join",        \* applyJoin, before its write
   "waitMember",  \* waitForMember
   "count",       \* applyJoin, between waitForMember and waitForQuorum
   "waitQuorum"}  \* waitForQuorum

TypeOK ==
  /\ cluster \in {"none", "ours", "foreign"}
  /\ members \subseteq Known
  /\ online \subseteq members
  /\ inflight \subseteq Node
  /\ phase \in Phase
  /\ pos \in 1 .. N + 2
  /\ want \in Nat
  /\ applied \subseteq Step
  /\ result \in {"none", "ok", "failed"}

Init ==
  /\ cluster \in Initial
  /\ \/ cluster = "none" /\ members = {}
     \/ cluster # "none" /\ members \in {M \in SUBSET Known : 1 \in M}
  /\ online = members
  /\ inflight = {}
  /\ phase = "idle"
  /\ pos = 1
  /\ want = 0
  /\ applied = {}
  /\ result = "none"
-----------------------------------------------------------------------------
(***************************************************************************)
(* The nodes.                                                              *)
(***************************************************************************)

\* The primary is in the partition that has the majority of the members.
Quorate == 1 \in online /\ 2 * Cardinality(online) > Cardinality(members)

\* Cluster formation lands: the primary is the only member, and its cluster
\* stack is still starting.
CreateLands ==
  /\ 1 \in inflight
  /\ inflight' = inflight \ {1}
  /\ cluster' = "ours"
  /\ members' = {1}
  /\ UNCHANGED <<online, run>>

\* A join changes the corosync configuration of the primary, which is writable
\* only while it is quorate; the new member's stack is still starting.
JoinLands(n) ==
  /\ n \in inflight \ {1}
  /\ Quorate
  /\ members' = members \cup {n}
  /\ inflight' = inflight \ {n}
  /\ UNCHANGED <<cluster, online, run>>

\* The joining node accepted the request, yet the join fails server-side.
JoinDropped(n) ==
  /\ n \in inflight \ {1}
  /\ ~Quorate
  /\ inflight' = inflight \ {n}
  /\ UNCHANGED <<cluster, members, online, run>>

ComesOnline(n) ==
  /\ n \in members \ online
  /\ online' = online \cup {n}
  /\ UNCHANGED <<cluster, members, inflight, run>>

GoesOffline(n) ==
  /\ n \in online
  /\ online' = online \ {n}
  /\ UNCHANGED <<cluster, members, inflight, run>>
-----------------------------------------------------------------------------
(***************************************************************************)
(* Reads of the primary.  Every read may fail, whatever the state: the     *)
(* node's API restarts while the cluster forms.                            *)
(***************************************************************************)

\* Mutation: the cluster name of the status is not compared.
QuorateUnnamed(w) ==
  /\ Quorate
  /\ Cardinality(members) >= w
  /\ Cardinality(online) >= w
\* Mutation: configured members are counted, online or not.
QuorateConfigured(w) ==
  /\ cluster = "ours"
  /\ Quorate
  /\ Cardinality(members) >= w
\* The status of the primary shows a quorate cluster of the configured name with w members and
\* w of them, whichever they are, online.
QuorateWith(w) ==
  /\ cluster = "ours"
  /\ Quorate
  /\ Cardinality(members) >= w
  /\ Cardinality(online) >= w

\* Mutation: create-cluster asks whether the whole cluster is formed.
DoneWhenFormed(s) == IF s \in Node \ {1} THEN s \in members ELSE QuorateWith(N)
\* What the Check of a step looks for.
Done(s) == IF s \in Node THEN s \in members ELSE QuorateWith(N)
-----------------------------------------------------------------------------
(***************************************************************************)
(* The run: internal/steps Runner.Run over the steps of this stage.        *)
(***************************************************************************)
StartRun ==
  /\ phase = "idle"
  /\ phase' = "check"
  /\ pos' = 1
  /\ want' = 0
  /\ applied' = {}
  /\ result' = "none"
  /\ UNCHANGED world

\* The step is done: check the next one, or return.
Advance ==
  /\ pos' = pos + 1
  /\ phase' = IF pos = N + 1 THEN "idle" ELSE "check"
  /\ result' = IF pos = N + 1 THEN "ok" ELSE "none"
  /\ want' = 0

Fail ==
  /\ phase' = "idle"
  /\ result' = "failed"
  /\ want' = 0
  /\ UNCHANGED <<pos, applied, world>>

CheckDone ==
  /\ phase = "check"
  /\ Done(pos)
  /\ Advance
  /\ UNCHANGED <<applied, world>>

\* memberCheck and quorumCheck report pending when their read fails, too.
CheckPending ==
  /\ phase = "check"
  /\ phase' = IF pos = 1 THEN "create" ELSE IF pos \in Node THEN "join" ELSE "waitQuorum"
  /\ want' = IF pos = N + 1 THEN N ELSE 0
  /\ UNCHANGED <<pos, applied, result, world>>

StepApplied ==
  /\ applied' = applied \cup {pos}
  /\ Advance
  /\ UNCHANGED world

\* applyCreate: the request is accepted (formation starts) or it is not;
\* either way the CLI may see an error, and then the step fails.
CreateAccepted ==
  /\ phase = "create"
  /\ cluster = "none"
  /\ inflight' = inflight \cup {1}
  /\ \/ phase' = "waitMember" /\ UNCHANGED result
     \/ phase' = "idle" /\ result' = "failed"
  /\ UNCHANGED <<cluster, members, online, pos, want, applied>>
CreateRefused == phase = "create" /\ Fail

\* applyJoin, up to the request: a failed dial, join-info or fingerprint
\* fails the step; what the joining node answers is only logged.
JoinNotSent == phase = "join" /\ Fail
JoinAccepted ==
  /\ phase = "join"
  /\ pos \notin members
  /\ inflight' = inflight \cup {pos}
  /\ phase' = "waitMember"
  /\ UNCHANGED <<cluster, members, online, pos, want, applied, result>>
JoinRefused ==
  /\ phase = "join"
  /\ phase' = "waitMember"
  /\ UNCHANGED <<pos, want, applied, result, world>>

\* Mutation: a join that converged is not gated on quorum.
MemberSeenUngated == phase = "waitMember" /\ pos \in members /\ StepApplied
\* waitForMember: the node step pos makes a member is node pos.
MemberSeen ==
  /\ phase = "waitMember"
  /\ pos \in members
  /\ IF pos = 1
     THEN StepApplied
     ELSE phase' = "count" /\ UNCHANGED <<pos, want, applied, result, world>>
\* Mutation: giving up on a member is not an error.
MemberTimeoutIgnored == phase = "waitMember" /\ StepApplied
MemberTimeout == phase = "waitMember" /\ Fail

\* The gate of applyJoin: quorum with every member joined so far.
CountMembers ==
  /\ phase = "count"
  /\ phase' = "waitQuorum"
  /\ want' = Cardinality(members)
  /\ UNCHANGED <<pos, applied, result, world>>
CountFails == phase = "count" /\ Fail

QuorumSeen == phase = "waitQuorum" /\ QuorateWith(want) /\ StepApplied
QuorumTimeout == phase = "waitQuorum" /\ Fail

\* The process is killed, or its context cancelled, anywhere.
Interrupt ==
  /\ phase # "idle"
  /\ phase' = "idle"
  /\ want' = 0
  /\ UNCHANGED <<pos, applied, result, world>>

World ==
  \/ CreateLands
  \/ \E n \in Node : JoinLands(n) \/ JoinDropped(n)
  \/ \E n \in Known : ComesOnline(n) \/ GoesOffline(n)

CLI ==
  \/ StartRun \/ CheckDone \/ CheckPending
  \/ CreateAccepted \/ CreateRefused
  \/ JoinNotSent \/ JoinAccepted \/ JoinRefused
  \/ MemberSeen \/ MemberTimeout
  \/ CountMembers \/ CountFails \/ QuorumSeen \/ QuorumTimeout
  \/ Interrupt

Next == World \/ CLI

Spec == Init /\ [][Next]_vars
-----------------------------------------------------------------------------
(***************************************************************************)
(* Corosync membership changes never race: a node's request is only in     *)
(* flight once every node before it in the config is a member, so at most  *)
(* one is in flight at any time, over all runs and interruptions (form.go: *)
(* "joins are serialized", corosync membership changes must not race).     *)
(***************************************************************************)
ChangesSerialized ==
  /\ \A n \in inflight : \A m \in 1 .. n - 1 : m \in members
  /\ \A n, m \in inflight : n = m

(***************************************************************************)
(* A run that returns no error has seen the whole cluster form: every      *)
(* configured node is a member, and the cluster has the configured name    *)
(* even though no check before the last one compares it.                   *)
(***************************************************************************)
OkMeansFormed == result = "ok" => cluster = "ours" /\ Node \subseteq members

(***************************************************************************)
(* The step that ends a successful run is taken while every configured     *)
(* node is online (quorumCheck: "with every configured node online"),      *)
(* provided the cluster has no other members: quorate counts the online    *)
(* members, and one the config does not name counts too.                   *)
(***************************************************************************)
OkMeansOnline ==
  [][result' = "ok" /\ result # "ok" /\ members \subseteq Node
       => Node \subseteq online]_vars

(***************************************************************************)
(* The request to join a node is only accepted while every member so far   *)
(* is online.  JoinGated says it of every join after the first;            *)
(* JoinGatedInRun only of those that follow a join applied in the same     *)
(* run, whose waitForQuorum has then returned.  Neither is about the first *)
(* join, before which applyCreate only waits for membership.  Both are     *)
(* about runs in which no member goes offline by itself.                   *)
(***************************************************************************)
GateHolds(prior) ==
  \A n \in 3 .. N : n \in inflight' \ inflight /\ n - 1 \in prior => members \subseteq online
JoinGated == [][GateHolds(Node)]_vars
JoinGatedInRun == [][GateHolds(applied)]_vars
-----------------------------------------------------------------------------
(***************************************************************************)
(* Formation as a stage of the engine: membership steps are stable, and no *)
(* check is exact because each of them reads a failure as "pending".       *)
(***************************************************************************)
Mode == IF phase \in {"idle", "check"} THEN phase ELSE "apply"
Holds == {s \in Step : Done(s)}

Stage ==
  INSTANCE Steps WITH
    Last <- N + 1,
    Stable <- Node,
    Exact <- {},
    holds <- Holds,
    kind <- "run",
    mode <- Mode,
    pending <- {}

ImplementsStage == Stage!Spec
=============================================================================
