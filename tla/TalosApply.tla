----------------------------- MODULE TalosApply -----------------------------
(***************************************************************************)
(* talos apply (internal/talos/apply.go, cmd/talos.go): the day-2 stage.   *)
(* A run renders every node's machine config, resolves every node's        *)
(* address through discovery, and for each selected node compares the      *)
(* schematic and the config it runs with the rendered ones and sends the   *)
(* whole config in NO_REBOOT mode.  A machine config is told apart by the  *)
(* node it is for, by the part only a reboot can change, and by the rest,  *)
(* which names the installer image.                                        *)
(***************************************************************************)
EXTENDS Naturals, Functions

CONSTANTS
  N,           \* number of nodes
  Versions,    \* number of versions of the cluster config
  Reboots,     \* versions that differ from the others in the reboot part
  Schematics,  \* versions that render an image of another schematic
  Releases     \* versions that render an image of another Talos release

ASSUME ApplyAssumption ==
  /\ N \in Nat \ {0} /\ Versions \in Nat \ {0}
  /\ {Reboots, Schematics, Releases} \subseteq SUBSET (1 .. Versions)

VARIABLES
  \* The world.
  config,   \* version in bootstrap.hcl
  live,     \* machine config each node runs
  image,    \* image each node runs
  lease,    \* node that holds each address
  \* The run.
  want,     \* version rendered at its start
  sel,      \* nodes selected: all, or the one of --node
  addrs,    \* address resolved for each node
  touched,  \* history: nodes changed by others since it began
  phase, pos, applied, result

world == <<config, live, image, lease>>
run == <<want, sel, addrs, touched>>
vars == <<world, run, phase, pos, applied, result>>

Node == 1 .. N
Version == 1 .. Versions
Drift == 0   \* edits of an admin, in no version
Last == N
INSTANCE StageRun

Kind(v, special) == IF v \in special THEN "new" ELSE "old"
Rendered(n, v) == [node |-> n, boot |-> Kind(v, Reboots), rest |-> v]
\* InstallImage: <schematic>:<release>.
ImageOf(v) == [schematic |-> Kind(v, Schematics), release |-> Kind(v, Releases)]
Image == [schematic : {"old", "new"}, release : {"old", "new"}]
MachineConfig == [node : Node, boot : {"old", "new"}, rest : Version \cup {Drift}]

TypeOK ==
  /\ config \in Version
  /\ live \in [Node -> MachineConfig]
  /\ image \in [Node -> Image]
  /\ lease \in Bijection(Node, Node)
  /\ want \in Version
  /\ sel \subseteq Node
  /\ addrs \in [Node -> Node]
  /\ touched \subseteq Node
  /\ phase \in {"idle", "check", "config", "apply"}
  /\ pos \in 1 .. N + 1 /\ (phase # "idle" => pos \in Node)
  /\ applied \subseteq Node
  /\ result \in {"none", "ok", "failed"} /\ (phase # "idle" => result = "none")

\* booty installed every node with the config of version 1.
Init ==
  /\ config = 1 /\ want = 1
  /\ live = [n \in Node |-> Rendered(n, 1)]
  /\ image = [n \in Node |-> ImageOf(1)]
  /\ lease = [a \in Node |-> a]
  /\ sel = Node /\ addrs = [n \in Node |-> n] /\ touched = {}
  /\ RunInit
-----------------------------------------------------------------------------
(***************************************************************************)
(* The world: the config is edited, an admin patches a node, reservations  *)
(* change between runs, and the operator runs the upgrade command of an    *)
(* error.  Of a refused config the error says to reboot the node, which    *)
(* changes nothing here, since NO_REBOOT stages nothing; the operator may  *)
(* think of applying it by hand.                                           *)
(***************************************************************************)
EditConfig ==
  /\ \E v \in Version \ {config} : config' = v
  /\ UNCHANGED <<live, image, lease, run, phase, pos, applied, result>>
AdminPatches(n) ==
  /\ live' = [live EXCEPT ![n].rest = Drift]
  /\ touched' = touched \cup {n}
  /\ UNCHANGED <<config, image, lease, want, sel, addrs, phase, pos, applied, result>>
LeasesMove ==
  /\ phase = "idle"
  /\ \E p \in Bijection(Node, Node) \ {lease} : lease' = p
  /\ UNCHANGED <<config, live, image, run, phase, pos, applied, result>>

\* The schematic is what the running image names as such, whatever its release.
RunsSchematic(n, v) == image[n].schematic = ImageOf(v).schematic

Told(n) == phase = "idle" /\ result = "failed" /\ pos = n
Upgrade(n) ==
  /\ Told(n) /\ ~RunsSchematic(n, want)
  /\ image' = [image EXCEPT ![n] = ImageOf(want)]
  /\ UNCHANGED <<config, live, lease, run, phase, pos, applied, result>>
ApplyByHand(n) ==
  /\ Told(n) /\ live[n].boot # Kind(config, Reboots)
  /\ live' = [live EXCEPT ![n] = Rendered(n, config)]
  /\ UNCHANGED <<config, image, lease, run, phase, pos, applied, result>>
-----------------------------------------------------------------------------
\* Mutation: members are matched to nodes by their place in the list.
DialByPlace(p) == [n \in Node |-> CHOOSE a \in Node : lease[a] = p[n]]
\* NodeAddresses: members come in any order p and are matched by hostname.
Dial(p) == [n \in Node |-> CHOOSE a \in Node : lease[a] = n]

Begin(s) ==
  /\ StartRun
  /\ want' = config /\ sel' = s /\ touched' = {}
  /\ \E p \in Bijection(Node, Node) : addrs' = Dial(p)
  /\ UNCHANGED world
\* The render fails, or discovery does not know a node, selected or not.
BeginFails ==
  /\ phase = "idle"
  /\ result' = "failed" /\ pos' = N + 1
  /\ UNCHANGED <<world, run, phase, applied>>

Target == lease[addrs[pos]]

\* The stage has no step for a node that is not selected.
NotSelected == phase = "check" /\ pos \notin sel /\ SkipStep /\ UNCHANGED <<world, run>>

\* checkSchematic: another schematic is an upgrade, and that is an error;
\* another release is none.
WrongSchematic ==
  /\ phase = "check" /\ pos \in sel /\ ~RunsSchematic(Target, want)
  /\ Fail
  /\ UNCHANGED <<world, run>>
RightSchematic ==
  /\ phase = "check" /\ pos \in sel /\ RunsSchematic(Target, want)
  /\ Goto("config")
  /\ UNCHANGED <<world, run>>
\* Mutation: only the part that needs a reboot is compared.
SameBoot == live[Target].boot = Kind(want, Reboots)
\* configsEqual, on every document.
Same == live[Target] = Rendered(pos, want)
CheckDone == phase = "config" /\ Same /\ Advance /\ UNCHANGED <<applied, world, run>>
CheckPending == phase = "config" /\ ~Same /\ Goto("apply") /\ UNCHANGED <<world, run>>

\* The node takes the whole config; its answer arrives, or it is lost.
Apply ==
  /\ phase = "apply" /\ live[Target].boot = Kind(want, Reboots)
  /\ live' = [live EXCEPT ![Target] = Rendered(pos, want)]
  /\ StepApplied \/ Fail
  /\ UNCHANGED <<config, image, lease, run>>
\* Mutation: a refusal is left to the operator and the stage goes on.
RefusedGoesOn ==
  /\ phase = "apply" /\ live[Target].boot # Kind(want, Reboots)
  /\ StepApplied
  /\ UNCHANGED <<world, run>>
\* rebootRequired: the refusal comes back as an error.
Refused ==
  /\ phase = "apply" /\ live[Target].boot # Kind(want, Reboots)
  /\ Fail
  /\ UNCHANGED <<world, run>>

\* A call fails or the process is killed.
Stop == (Fail \/ Kill) /\ UNCHANGED <<world, run>>

Operator == \E n \in Node : Upgrade(n) \/ ApplyByHand(n)
Outside == EditConfig \/ LeasesMove \/ \E n \in Node : AdminPatches(n)
Step == NotSelected \/ WrongSchematic \/ RightSchematic \/ CheckDone \/ CheckPending \/ Refused
Next ==
  \/ \E s \in {Node} \cup {{n} : n \in Node} : Begin(s)
  \/ BeginFails \/ Step \/ Apply \/ Stop \/ Operator \/ Outside

Spec == Init /\ [][Next]_vars
-----------------------------------------------------------------------------
Settled(n) ==
  n \in touched \/ (live[n] = Rendered(n, want) /\ RunsSchematic(n, want))

(***************************************************************************)
(* A config reaches a node only after every selected node before it runs   *)
(* it, and a run only succeeds with all of them running it, on an image of *)
(* the schematic it renders, of whatever Talos release: a bad change stops *)
(* at the first node (apply.go: applying to "the other nodes" silently     *)
(* would leave the fleet half-converged).                                  *)
(***************************************************************************)
ConvergedInOrder ==
  [][ /\ Apply => \A n \in sel : n < pos => Settled(n)
      /\ result' = "ok" /\ phase # "idle" => \A n \in sel : Settled(n)' ]_vars

(***************************************************************************)
(* No node ever runs the config of another, in whatever order discovery    *)
(* lists the members and however the addresses moved since the last run.   *)
(***************************************************************************)
RightNode == \A n \in Node : live[n].node = n
-----------------------------------------------------------------------------
(***************************************************************************)
(* Day-2 apply as a stage of the engine, with a step for every node that   *)
(* is done when the node is not selected, or runs the config and the       *)
(* schematic of the latest run.  The check is exact; an admin may undo any *)
(* step.                                                                   *)
(* Both halves of the check are one call of the engine.                    *)
(***************************************************************************)
Mode == IF phase = "config" THEN "check" ELSE phase
Holds == {n \in Node : n \in sel => live[n] = Rendered(n, want) /\ RunsSchematic(n, want)}

Stage ==
  INSTANCE Steps WITH
    Stable <- {},
    Exact <- Node,
    holds <- Holds,
    kind <- "run",
    mode <- Mode,
    pending <- {},
    pos <- IF result = "failed" /\ pos = N + 1 THEN 1 ELSE pos

ImplementsStage == Stage!Spec
=============================================================================
