------------------------- MODULE TalosApply_proofs --------------------------
(***************************************************************************)
(* Proofs about talos apply, for any number of nodes and versions, any     *)
(* config edits, patches, moved reservations, failed calls and kills; then *)
(* about the diff it prints, for texts and scripts of any length.          *)
(***************************************************************************)
EXTENDS MCTalosApply, Integers, SequenceTheorems, FiniteSetTheorems, WellFoundedInduction, TLAPS

\* What a permutation of the nodes is, without the operators of Functions.
LEMMA Permutations ==
  ASSUME NEW p \in Bijection(Node, Node)
  PROVE  p \in [Node -> Node] /\ \A n \in Node : \E a \in Node : p[a] = n
BY DEF Bijection, Injection, Surjection

\* Every node is dialed at an address it holds, in whatever order p the
\* members come.
LEMMA DialReaches ==
  ASSUME TypeOK, NEW p, NEW n \in Node
  PROVE  Dial(p)[n] \in Node /\ lease[Dial(p)[n]] = n
<1>1. \E a \in Node : lease[a] = n
  BY Permutations DEF TypeOK
<1> QED BY <1>1 DEF Dial

\* Every version has a machine config.
LEMMA RenderedType ==
  ASSUME NEW n \in Node, NEW v \in Version
  PROVE  Rendered(n, v) \in MachineConfig
BY DEF Rendered, MachineConfig, Kind

-----------------------------------------------------------------------------
(***************************************************************************)
(* Why configs reach their node, in order.  The addresses a run resolved   *)
(* lead to their nodes as long as it lasts; past the schematic check, the  *)
(* node runs the rendered schematic until the run ends; and what the run   *)
(* has passed is settled.                                                  *)
(***************************************************************************)
Dialed == phase # "idle" => \A n \in Node : lease[addrs[n]] = n
Imaged == phase \in {"config", "apply"} => pos \in sel /\ RunsSchematic(pos, want)
Earlier == phase # "idle" => \A n \in sel : n < pos => Settled(n)

Inv == TypeOK /\ RightNode /\ Dialed /\ Imaged /\ Earlier

LEMMA InitInv == Init => Inv
<1> SUFFICES ASSUME Init PROVE Inv
  OBVIOUS
<1>1. N \in Nat \ {0} /\ 1 \in 1 .. N + 1 /\ 1 \in Version
  BY ApplyAssumption DEF Version
<1>2. lease \in Bijection(Node, Node)
  BY DEF Init, Bijection, Injection, Surjection, IsInjective
<1>3. \A n \in Node : Rendered(n, 1) \in MachineConfig
  BY <1>1, RenderedType
<1> QED BY <1>1, <1>2, <1>3
  DEF Init, RunInit, Inv, TypeOK, RightNode, Dialed, Imaged, Earlier, Rendered, RunsSchematic, Image, ImageOf, Kind

\* What the engine's Advance does to the types.
LEMMA AdvanceTypes ==
  ASSUME TypeOK, phase # "idle", Advance
  PROVE  /\ pos' = pos + 1 /\ pos' \in 1 .. N + 1 /\ pos \in Node /\ N \in Nat
         /\ phase' \in {"check", "idle"} /\ (phase' = "check" => pos' \in Node)
         /\ result' \in {"none", "ok"} /\ (result' = "ok" => pos = N)
         /\ (phase' # "idle" => result' = "none")
BY ApplyAssumption DEF TypeOK, Advance, Last, Node

\* While a run is in a step, its target is the node of the step.
LEMMA TargetIsNode ==
  ASSUME Inv, phase # "idle"
  PROVE  pos \in Node /\ Target = pos
BY DEF Inv, TypeOK, Dialed, Target

LEMMA NextType == Inv /\ Next => TypeOK'
<1> SUFFICES ASSUME Inv, Next PROVE TypeOK'
  OBVIOUS
<1> USE DEF Inv, TypeOK
<1>0. N \in Nat \ {0} /\ 1 \in 1 .. N + 1 /\ 1 \in Node /\ N + 1 \in 1 .. N + 1
  BY ApplyAssumption DEF Node
<1>1. ASSUME NEW s \in {Node} \cup {{n} : n \in Node}, Begin(s) PROVE TypeOK'
  <2>1. addrs' \in [Node -> Node]
    <3>1. PICK p \in Bijection(Node, Node) : addrs' = Dial(p)
      BY <1>1 DEF Begin
    <3> QED BY <3>1, DialReaches DEF Dial
  <2>2. s \subseteq Node
    OBVIOUS
  <2> QED BY <1>0, <1>1, <2>1, <2>2 DEF Begin, StartRun, world
<1>2. CASE BeginFails
  BY <1>0, <1>2 DEF BeginFails, world, run
<1>3. CASE NotSelected
  BY <1>3, AdvanceTypes DEF NotSelected, SkipStep, world, run
<1>4. CASE WrongSchematic \/ Refused \/ Stop
  BY <1>4 DEF WrongSchematic, Refused, Stop, Fail, Kill, world, run
<1>5. CASE RightSchematic \/ CheckPending
  BY <1>5 DEF RightSchematic, CheckPending, Goto, world, run
<1>6. CASE CheckDone
  BY <1>6, AdvanceTypes DEF CheckDone, world, run
<1>7. CASE Apply
  <2>1. Target \in Node /\ pos \in Node
    BY <1>7, TargetIsNode DEF Apply
  <2>2. Rendered(pos, want) \in MachineConfig
    BY <2>1, RenderedType
  <2>3. live' \in [Node -> MachineConfig]
    BY <1>7, <2>1, <2>2 DEF Apply
  <2>4. CASE StepApplied
    BY <1>7, <2>1, <2>3, <2>4, AdvanceTypes DEF Apply, StepApplied, run
  <2>5. CASE Fail
    BY <1>7, <2>3, <2>5 DEF Apply, Fail, run
  <2> QED BY <1>7, <2>4, <2>5 DEF Apply
<1>8. ASSUME NEW n \in Node, Upgrade(n) PROVE TypeOK'
  BY <1>8 DEF Upgrade, Image, ImageOf, Kind, run
<1>9. ASSUME NEW n \in Node, ApplyByHand(n) PROVE TypeOK'
  BY <1>9, RenderedType DEF ApplyByHand, run
<1>10. CASE EditConfig
  BY <1>10 DEF EditConfig, run
<1>11. CASE LeasesMove
  BY <1>11 DEF LeasesMove, run
<1>12. ASSUME NEW n \in Node, AdminPatches(n) PROVE TypeOK'
  <2>1. live' \in [Node -> MachineConfig]
    BY <1>12 DEF AdminPatches, MachineConfig, Drift
  <2> QED BY <1>12, <2>1 DEF AdminPatches
<1> QED
  BY <1>1, <1>2, <1>3, <1>4, <1>5, <1>6, <1>7, <1>8, <1>9, <1>10, <1>11, <1>12
  DEF Next, Step, Operator, Outside

\* No node is given the config of another.
LEMMA NextRight == Inv /\ Next => RightNode'
<1> SUFFICES ASSUME Inv, Next, NEW n \in Node PROVE live'[n].node = n
  BY DEF RightNode
<1> USE DEF Inv, TypeOK, RightNode
<1>1. CASE UNCHANGED live
  BY <1>1
<1>2. CASE Apply
  BY <1>2, TargetIsNode DEF Apply, Rendered
<1>3. ASSUME NEW m \in Node, ApplyByHand(m) PROVE live'[n].node = n
  BY <1>3 DEF ApplyByHand, Rendered
<1>4. ASSUME NEW m \in Node, AdminPatches(m) PROVE live'[n].node = n
  BY <1>4 DEF AdminPatches, MachineConfig
<1> QED
  BY <1>1, <1>2, <1>3, <1>4
  DEF Next, Begin, BeginFails, Step, NotSelected, WrongSchematic, RightSchematic, CheckDone, CheckPending, Refused, Stop,
      Operator, Upgrade, Outside, EditConfig, LeasesMove, world

LEMMA NextDialed == Inv /\ Next => Dialed'
<1> SUFFICES ASSUME Inv, Next PROVE Dialed'
  OBVIOUS
<1> USE DEF Inv, Dialed
<1>1. ASSUME NEW s \in {Node} \cup {{n} : n \in Node}, Begin(s) PROVE Dialed'
  <2>1. PICK p \in Bijection(Node, Node) : addrs' = Dial(p)
    BY <1>1 DEF Begin
  <2> QED BY <1>1, <2>1, DialReaches DEF Begin, world
<1>2. CASE UNCHANGED <<lease, addrs>> /\ (phase # "idle" \/ phase' = "idle")
  BY <1>2
<1>3. CASE LeasesMove
  BY <1>3 DEF LeasesMove
<1> QED
  BY <1>1, <1>2, <1>3
  DEF Next, BeginFails, Step, NotSelected, SkipStep, WrongSchematic, RightSchematic, CheckDone, CheckPending, Refused,
      Apply, Stop, Fail, Kill, Operator, Upgrade, ApplyByHand, Told, Outside, EditConfig, AdminPatches, world, run

\* The version, the selection and every image stay as they are during a run.
LEMMA NextImaged == Inv /\ Next => Imaged'
<1> SUFFICES ASSUME Inv, Next, phase' \in {"config", "apply"}
             PROVE  pos' \in sel' /\ RunsSchematic(pos, want)'
  BY DEF Imaged
<1> USE DEF Inv
<1>1. CASE RightSchematic
  BY <1>1, TargetIsNode DEF RightSchematic, Goto, RunsSchematic, ImageOf, world, run
<1>2. CASE UNCHANGED <<image, want, sel, phase, pos>>
  BY <1>2 DEF Imaged, RunsSchematic, ImageOf
<1>3. CASE CheckPending
  BY <1>3 DEF CheckPending, Goto, Imaged, RunsSchematic, ImageOf, world, run
<1> QED
  BY <1>1, <1>2, <1>3
  DEF Next, Begin, StartRun, BeginFails, Step, NotSelected, SkipStep, Advance, WrongSchematic, CheckDone, Refused,
      Apply, StepApplied, Stop, Fail, Kill, Operator, Upgrade, ApplyByHand, Told, Outside, EditConfig, LeasesMove,
      AdminPatches, world, run

\* What a run renders and selects is fixed at its start.
LEMMA RunKeeps == ASSUME Next, phase # "idle" PROVE UNCHANGED <<want, sel>>
BY DEF Next, Begin, StartRun, BeginFails, Step, NotSelected, WrongSchematic, RightSchematic, CheckDone, CheckPending, Refused,
   Apply, Stop, Operator, Upgrade, ApplyByHand, Told, Outside, EditConfig, LeasesMove, AdminPatches, world, run

\* No step of a run unsettles a node.
LEMMA StaysSettled ==
  ASSUME Inv, Next, phase # "idle", NEW n \in Node, Settled(n)
  PROVE  Settled(n)'
<1> USE DEF Inv, TypeOK, Settled
<1>1. CASE UNCHANGED <<live, image, want, sel, touched>>
  BY <1>1 DEF RunsSchematic, ImageOf, Rendered
<1>2. CASE Apply
  <2>1. Target = pos /\ pos \in Node
    BY <1>2, TargetIsNode
  <2>2. n = pos => live'[n] = Rendered(n, want)
    BY <1>2, <2>1 DEF Apply
  <2>3. n # pos => live'[n] = live[n]
    BY <1>2, <2>1 DEF Apply
  <2>4. RunsSchematic(n, want) \/ n \in touched
    OBVIOUS
  <2> QED BY <1>2, <2>2, <2>3, <2>4 DEF Apply, RunsSchematic, ImageOf, Rendered, run
<1>3. ASSUME NEW m \in Node, AdminPatches(m) PROVE Settled(n)'
  BY <1>3 DEF AdminPatches, RunsSchematic, ImageOf, Rendered
<1> QED
  BY <1>1, <1>2, <1>3
  DEF Next, Begin, StartRun, BeginFails, Step, NotSelected, WrongSchematic, RightSchematic, CheckDone, CheckPending, Refused,
      Stop, Operator, Upgrade, ApplyByHand, Told, Outside, EditConfig, LeasesMove, world, run

\* A step that passes a selected node leaves it settled.
LEMMA PassedSettled ==
  ASSUME Inv, phase # "idle", NotSelected \/ CheckDone \/ (Apply /\ StepApplied),
         NEW n \in sel, n = pos
  PROVE  Settled(n)'
<1> USE DEF Inv, TypeOK
<1>1. n \in Node /\ Target = n
  BY TargetIsNode
<1>2. CASE CheckDone
  BY <1>1, <1>2 DEF CheckDone, Same, Imaged, Settled, RunsSchematic, ImageOf, Rendered, world, run
<1>3. CASE Apply /\ StepApplied
  BY <1>1, <1>3 DEF Apply, Imaged, Settled, RunsSchematic, ImageOf, Rendered, run
<1> QED BY <1>2, <1>3 DEF NotSelected

LEMMA NextEarlier == Inv /\ Next => Earlier'
<1> SUFFICES ASSUME Inv, Next PROVE Earlier'
  OBVIOUS
<1> USE DEF Inv, TypeOK
<1>1. ASSUME NEW s \in {Node} \cup {{n} : n \in Node}, Begin(s) PROVE Earlier'
  <2>1. \A n \in Node : ~(n < 1)
    BY ApplyAssumption DEF Node
  <2> QED BY <1>1, <2>1 DEF Begin, StartRun, Earlier
<1>2. CASE phase' = "idle"
  BY <1>2 DEF Earlier
<1>3. CASE phase # "idle" /\ UNCHANGED pos
  BY <1>3, RunKeeps, StaysSettled DEF Earlier
<1>4. CASE phase # "idle" /\ (NotSelected \/ CheckDone \/ (Apply /\ StepApplied))
  <2>1. pos' = pos + 1 /\ pos \in Node
    BY <1>4, AdvanceTypes DEF NotSelected, SkipStep, CheckDone, StepApplied
  <2>2. sel' = sel
    BY <1>4 DEF NotSelected, CheckDone, Apply, run
  <2>3. ASSUME NEW n \in sel', n < pos' PROVE Settled(n)'
    <3>1. n \in Node /\ n \in sel /\ (n < pos \/ n = pos)
      BY <2>1, <2>2, <2>3 DEF Node
    <3>2. CASE n < pos
      BY <1>4, <3>1, <3>2, StaysSettled DEF Earlier
    <3>3. CASE n = pos
      BY <1>4, <3>1, <3>3, PassedSettled
    <3> QED BY <3>1, <3>2, <3>3
  <2> QED BY <2>3 DEF Earlier
<1> QED
  BY <1>1, <1>2, <1>3, <1>4
  DEF Next, BeginFails, Step, NotSelected, WrongSchematic, RightSchematic, Goto, CheckDone, CheckPending, Refused, Apply,
      Stop, Fail, Kill, Operator, Upgrade, ApplyByHand, Told, Outside, EditConfig, LeasesMove, AdminPatches, world, run

\* The invariant holds in every state of the stage.
LEMMA InvAlways == Spec => []Inv
<1>1. Inv /\ Next => Inv'
  BY NextType, NextRight, NextDialed, NextImaged, NextEarlier DEF Inv
<1>2. Inv /\ UNCHANGED vars => Inv'
  BY DEF Inv, TypeOK, RightNode, Dialed, Imaged, Earlier, Settled, RunsSchematic, ImageOf, Rendered, vars, world, run
<1> QED BY <1>1, <1>2, InitInv, PTL DEF Spec

(***************************************************************************)
(* The state keeps its types, for any number of nodes and versions.        *)
(***************************************************************************)
THEOREM TypeCorrect == Spec => []TypeOK
  BY InvAlways, PTL DEF Inv

(***************************************************************************)
(* No node ever runs the config of another, for any number of nodes, any   *)
(* order of the members and any reservations that move between runs.       *)
(***************************************************************************)
THEOREM ReachesRightNode == Spec => []RightNode
  BY InvAlways, PTL DEF Inv

\* One step of the stage, from any state the invariant allows.
OrderHolds ==
  /\ Apply => \A n \in sel : n < pos => Settled(n)
  /\ result' = "ok" /\ phase # "idle" => \A n \in sel : Settled(n)'

LEMMA StepInOrder == Inv /\ [Next]_vars => [OrderHolds]_vars
<1> SUFFICES ASSUME Inv, Next PROVE OrderHolds
  OBVIOUS
<1> USE DEF Inv, TypeOK
<1>1. Apply => \A n \in sel : n < pos => Settled(n)
  BY DEF Apply, Earlier
<1>2. ASSUME result' = "ok", phase # "idle", NEW n \in sel PROVE Settled(n)'
  <2>1. NotSelected \/ CheckDone \/ (Apply /\ StepApplied)
    BY <1>2 DEF Next, Begin, StartRun, BeginFails, Step, WrongSchematic, RightSchematic, Goto, CheckPending, Refused, Apply,
       Stop, Fail, Kill, Operator, Upgrade, ApplyByHand, Told, Outside, EditConfig, LeasesMove, AdminPatches, run
  <2>2. pos = N /\ N \in Nat /\ pos \in Node
    BY <1>2, <2>1, AdvanceTypes DEF NotSelected, SkipStep, CheckDone, StepApplied
  <2>3. n \in Node /\ (n < pos \/ n = pos)
    BY <2>2 DEF Node
  <2>4. CASE n < pos
    BY <1>2, <2>3, <2>4, StaysSettled DEF Earlier
  <2>5. CASE n = pos
    BY <1>2, <2>1, <2>3, <2>5, PassedSettled
  <2> QED BY <2>3, <2>4, <2>5
<1> QED BY <1>1, <1>2 DEF OrderHolds

(***************************************************************************)
(* A config reaches a node only after every selected node before it runs   *)
(* it, and success means that all of them do, each on an image of the      *)
(* rendered schematic, for any number of nodes and any set of versions     *)
(* that change the reboot part, the schematic or the Talos release.        *)
(***************************************************************************)
THEOREM InOrder == Spec => ConvergedInOrder
  BY InvAlways, StepInOrder, PTL DEF Spec, ConvergedInOrder, OrderHolds
-----------------------------------------------------------------------------
(***************************************************************************)
(* The stage implements the engine's contract.  A run that fails before it *)
(* has a stage is where no step is, and no run of the stage ever fails     *)
(* there: so the two are never taken for each other.                       *)
(***************************************************************************)
LEMMA StageInit == Init => Stage!Init
<1> SUFFICES ASSUME Init PROVE Stage!Init
  OBVIOUS
<1>1. Holds \subseteq Node /\ Mode = "idle"
  BY DEF Init, RunInit, Holds, Mode
<1> QED BY <1>1 DEF Init, RunInit, Stage!Init, Stage!Step, Node, Last

LEMMA StageNext == Inv /\ [Next]_vars => [Stage!Next]_(Stage!vars)
<1> SUFFICES ASSUME Inv, [Next]_vars PROVE [Stage!Next]_(Stage!vars)
  OBVIOUS
<1>0. TypeOK /\ Imaged
  BY DEF Inv
<1>r. phase # "idle" => result = "none" /\ pos \in Node /\ pos \in Nat /\ pos # N + 1
  BY <1>0, ApplyAssumption DEF TypeOK, Node
<1>h. Holds' \in SUBSET Stage!Step /\ Stage!WorldMoves
  BY DEF Holds, Stage!WorldMoves, Stage!WorldMay, Stage!Step, Node, Last
<1>k. UNCHANGED <<sel, want, live, image>> => Holds' = Holds
  BY DEF Holds, Rendered, RunsSchematic, ImageOf
\* What moves only the world, and what stays within the check or the apply.
<1>w. ASSUME Mode' = Mode, UNCHANGED <<pos, applied, result>> PROVE Stage!Next
  BY <1>h, <1>w DEF Stage!World, Stage!run, Stage!Next
\* An error of the check, and one of the apply.
<1>c. ASSUME phase \in {"check", "config"}, Fail, UNCHANGED <<world, run>> PROVE Stage!Next
  BY <1>c, <1>k, <1>r DEF world, run, Fail, Stage!CheckError, Stage!Fail, Stage!Next, Stage!Fault, Mode
<1>a. ASSUME phase = "apply", Fail PROVE Stage!Next
  BY <1>h, <1>a, <1>r DEF Fail, Stage!ApplyError, Stage!Fail, Stage!Next, Stage!Fault, Mode
<1>d. ASSUME phase \in {"check", "config"}, Advance, UNCHANGED <<applied, world, run>>, pos \in Holds PROVE Stage!Next
  <2>1. result' # "failed" /\ phase' \in {"idle", "check"}
    BY <1>d DEF Advance
  <2> QED
    BY <1>d, <1>k, <1>r, <2>1
    DEF Advance, world, run, Stage!CheckDone, Stage!Advance, Stage!Next, Stage!Run, Mode
<1>1. ASSUME NEW s, Begin(s) PROVE Stage!Next
  BY <1>1, <1>h DEF Begin, StartRun, Stage!StartRun, Stage!Next, Mode
<1>2. CASE BeginFails
  BY <1>2, <1>k DEF BeginFails, world, run, Stage!NoStage, Stage!Next, Stage!Fault, Mode
<1>3. CASE NotSelected
  BY <1>3, <1>d, <1>r DEF NotSelected, SkipStep, Holds
<1>4. CASE WrongSchematic
  BY <1>4, <1>c DEF WrongSchematic
<1>5. CASE RightSchematic
  BY <1>5, <1>w DEF RightSchematic, Goto, Mode
<1>6. CASE CheckDone
  <2>1. pos \in Holds
    BY <1>0, <1>6, TargetIsNode DEF CheckDone, Same, Imaged, Holds
  <2> QED BY <1>6, <1>d, <2>1 DEF CheckDone
<1>7. CASE CheckPending
  <2>1. pos \notin Holds
    BY <1>0, <1>7, TargetIsNode DEF CheckPending, Same, Imaged, Holds
  <2> QED
    BY <1>7, <1>k, <1>r, <2>1
    DEF CheckPending, Goto, world, run, Stage!CheckPending, Stage!Next, Stage!Run, Mode
<1>8. CASE Apply
  <2>1. phase = "apply" /\ pos \in Node /\ live' = [live EXCEPT ![pos] = Rendered(pos, want)] /\ UNCHANGED <<image, run>>
    BY <1>8, TargetIsNode DEF Apply
  <2>2. CASE StepApplied
    <3>1. PICK n \in Node : n = pos
      BY <2>1
    <3>2. live'[n] = Rendered(n, want) /\ RunsSchematic(n, want)
      BY <1>0, <2>1, <3>1 DEF TypeOK, Imaged
    <3>3. n \in Holds'
      BY <2>1, <3>2 DEF Holds, run, Rendered, RunsSchematic, ImageOf
    <3>4. result' # "failed" /\ phase' \in {"idle", "check"}
      BY <2>2 DEF StepApplied, Advance
    <3> QED
      BY <1>h, <1>r, <2>1, <2>2, <3>1, <3>3, <3>4
      DEF StepApplied, Advance, Stage!ApplyDone, Stage!Advance, Stage!WorldMoves, Stage!WorldMay, Stage!Next,
          Stage!Run, Mode
  <2> QED BY <1>8, <1>a, <2>1, <2>2 DEF Apply
<1>9. CASE Refused
  BY <1>9, <1>a DEF Refused
<1>10. CASE Stop
  <2>1. CASE Fail
    BY <1>10, <1>0, <1>a, <1>c, <2>1 DEF Stop, Fail, TypeOK
  <2>2. CASE Kill
    BY <1>h, <1>r, <2>2 DEF Kill, Stage!Interrupt, Stage!Next, Stage!Fault, Mode
  <2> QED BY <1>10, <2>1, <2>2 DEF Stop
<1>11. CASE Operator \/ Outside \/ UNCHANGED vars
  BY <1>11, <1>w DEF Operator, Upgrade, ApplyByHand, Outside, EditConfig, LeasesMove, AdminPatches, vars, Mode
<1> QED
  BY <1>1, <1>2, <1>3, <1>4, <1>5, <1>6, <1>7, <1>8, <1>9, <1>10, <1>11 DEF Next, Step

(***************************************************************************)
(* talos apply is a stage of the engine: the nodes in the order of the     *)
(* config, an error of either half of a check or of an apply stops the     *)
(* run, a node is only sent a config when the exact check found another,   *)
(* and a step returns success only once its node runs the rendered config  *)
(* on an image of the rendered schematic.                                  *)
(***************************************************************************)
THEOREM ApplyImplementsStage == Spec => ImplementsStage
  BY InvAlways, StageInit, StageNext, PTL DEF Spec, ImplementsStage, Stage!Spec

-----------------------------------------------------------------------------
(***************************************************************************)
(* Induction on data, with a set for the predicate; the tables that        *)
(* recursive functions define are taken with CHOOSE, and exist.            *)
(***************************************************************************)

\* A set of numbers has a least one.
LEMMA LeastOf ==
  ASSUME NEW S, S \subseteq Nat, S # {}
  PROVE  \E n \in S : \A a \in S : n <= a
<1> DEFINE R == {p \in Nat \X Nat : p[1] < p[2]}
<1>1. IsWellFoundedOn(R, Nat)
  BY NatLessThanWellFounded DEF OpToRel
<1>2. PICK n \in S : \A a \in S : ~ (<<a, n>> \in R)
  BY <1>1, WFMin
<1>3. ASSUME NEW a \in S PROVE n <= a
  <2>1. n \in Nat /\ a \in Nat
    OBVIOUS
  <2>2. a < n => <<a, n>> \in R
    BY <2>1
  <2> QED BY <1>2, <2>1, <2>2
<1> QED BY <1>3

\* What holds of 0 and goes on holding, holds of every number.
LEMMA UpFrom0 ==
  ASSUME NEW S, 0 \in S, \A n \in Nat : n \in S => n + 1 \in S
  PROVE  Nat \subseteq S
<1> SUFFICES ASSUME Nat \ S # {} PROVE FALSE
  OBVIOUS
<1>1. PICK n \in Nat \ S : \A a \in Nat \ S : n <= a
  BY LeastOf
<1>2. n # 0 /\ n - 1 \in Nat /\ n - 1 \notin Nat \ S
  BY <1>1
<1>3. (n - 1) + 1 = n
  BY <1>1
<1> QED BY <1>1, <1>2, <1>3

\* Positions in two texts, from their ends.
LEMMA FromTheEnds ==
  ASSUME NEW m \in Nat, NEW n \in Nat, NEW S,
         \A i \in 1 .. m + 1, j \in 1 .. n + 1 :
           (\A a \in i .. m + 1, b \in j .. n + 1 : i + j < a + b => <<a, b>> \in S) => <<i, j>> \in S
  PROVE  \A i \in 1 .. m + 1, j \in 1 .. n + 1 : <<i, j>> \in S
<1> DEFINE Far(d) == \A i \in 1 .. m + 1, j \in 1 .. n + 1 : i + j + d >= m + n + 2 => <<i, j>> \in S
           D == {d \in Nat : Far(d)}
<1>1. 0 \in D
  <2> SUFFICES ASSUME NEW i \in 1 .. m + 1, NEW j \in 1 .. n + 1, i + j + 0 >= m + n + 2 PROVE <<i, j>> \in S
    OBVIOUS
  <2>1. \A a \in i .. m + 1, b \in j .. n + 1 : ~(i + j < a + b)
    OBVIOUS
  <2> QED BY <2>1
<1>2. ASSUME NEW d \in Nat, d \in D PROVE d + 1 \in D
  <2> SUFFICES ASSUME NEW i \in 1 .. m + 1, NEW j \in 1 .. n + 1, i + j + (d + 1) >= m + n + 2 PROVE <<i, j>> \in S
    OBVIOUS
  <2>1. ASSUME NEW a \in i .. m + 1, NEW b \in j .. n + 1, i + j < a + b PROVE <<a, b>> \in S
    <3>1. a \in 1 .. m + 1 /\ b \in 1 .. n + 1 /\ a + b + d >= m + n + 2
      BY <2>1
    <3> QED BY <1>2, <3>1
  <2> QED BY <2>1
<1>3. Nat \subseteq D
  <2> HIDE DEF D
  <2> QED BY <1>1, <1>2, UpFrom0
<1>4. Far(m + n)
  <2>1. m + n \in D
    <3> HIDE DEF D
    <3> QED BY <1>3
  <2> HIDE DEF Far
  <2> QED BY <2>1
<1>5. \A i \in 1 .. m + 1, j \in 1 .. n + 1 : i + j + (m + n) >= m + n + 2
  OBVIOUS
<1> QED BY <1>4, <1>5

-----------------------------------------------------------------------------
(***************************************************************************)
(* The table of longest common subsequences: its cells, from the ends of   *)
(* the texts.                                                              *)
(***************************************************************************)

\* What a cell of the table is, of the cells after it.
Cell(x, y, g, at) ==
  IF at[1] > Len(x) \/ at[2] > Len(y) THEN 0
  ELSE IF x[at[1]] = y[at[2]] THEN g[<<at[1] + 1, at[2] + 1>>] + 1
  ELSE Max({g[<<at[1] + 1, at[2]>>], g[<<at[1], at[2] + 1>>]})

\* A table that says so of every position.
IsLcs(x, y, g) ==
  g = [at \in Positions(x, y) |->
        LET i == at[1]
            j == at[2]
        IN IF i > Len(x) \/ j > Len(y) THEN 0
           ELSE IF x[i] = y[j] THEN g[<<i + 1, j + 1>>] + 1
           ELSE Max({g[<<i + 1, j>>], g[<<i, j + 1>>]})]

\* Lcs is one of them.
LEMMA LcsIs ==
  ASSUME NEW x, NEW y
  PROVE  Lcs(x, y) = CHOOSE g : IsLcs(x, y, g)
  BY SMT DEF Lcs, IsLcs

\* There is one, filled from the ends.
LEMMA LcsExists ==
  ASSUME NEW x, NEW y, Len(x) \in Nat, Len(y) \in Nat
  PROVE  \E g : IsLcs(x, y, g)
<1> DEFINE P == Positions(x, y)
           Right(g, d) == \A at \in P : at[1] + at[2] + d >= Len(x) + Len(y) + 2 => g[at] = Cell(x, y, g, at)
           Nearer(g, d) == \A at \in P : at[1] + at[2] + d > Len(x) + Len(y) + 2 => g[at] = Cell(x, y, g, at)
           D == {d \in Nat : \E g : Right(g, d)}
           Again(g) == [at \in P |-> Cell(x, y, g, at)]
<1>1. ASSUME NEW d \in Nat, NEW g, Nearer(g, d) PROVE Right(Again(g), d)
  <2> SUFFICES ASSUME NEW at \in P, at[1] + at[2] + d >= Len(x) + Len(y) + 2
               PROVE  Cell(x, y, g, at) = Cell(x, y, Again(g), at)
    OBVIOUS
  <2>0. at[1] \in 1 .. Len(x) + 1 /\ at[2] \in 1 .. Len(y) + 1
    BY DEF Positions
  <2>1. CASE at[1] > Len(x) \/ at[2] > Len(y)
    BY <2>1 DEF Cell
  <2>2. CASE ~(at[1] > Len(x) \/ at[2] > Len(y))
    <3>1. ASSUME NEW b \in {<<at[1] + 1, at[2] + 1>>, <<at[1] + 1, at[2]>>, <<at[1], at[2] + 1>>}
          PROVE  Again(g)[b] = g[b]
      <4>1. b \in P /\ b[1] + b[2] > at[1] + at[2]
        <5>1. CASE b = <<at[1] + 1, at[2] + 1>>
          BY <2>0, <2>2, <5>1, SMTT(40) DEF Positions
        <5>2. CASE b = <<at[1] + 1, at[2]>>
          BY <2>0, <2>2, <5>2 DEF Positions
        <5>3. CASE b = <<at[1], at[2] + 1>>
          BY <2>0, <2>2, <5>3 DEF Positions
        <5> QED BY <5>1, <5>2, <5>3
      <4>3. b[1] + b[2] + d > Len(x) + Len(y) + 2
        BY <2>0, <4>1 DEF Positions
      <4>2. g[b] = Cell(x, y, g, b)
        BY <1>1, <4>1, <4>3
      <4> QED BY <4>1, <4>2
    <3> HIDE DEF Again
    <3> QED BY <3>1 DEF Cell
  <2> QED BY <2>1, <2>2
<1>t. \A at \in P : at[1] \in 1 .. Len(x) + 1 /\ at[2] \in 1 .. Len(y) + 1
  BY DEF Positions
<1> HIDE DEF Again, P
<1>2. 0 \in D
  <2>1. Nearer(0, 0)
    BY <1>t
  <2>2. Right(Again(0), 0)
    <3> HIDE DEF Right, Nearer
    <3> QED BY <1>1, <2>1
  <2> QED BY <2>2
<1>3. ASSUME NEW d \in Nat, d \in D PROVE d + 1 \in D
  <2>1. PICK g : Right(g, d)
    BY <1>3
  <2>2. Nearer(g, d + 1)
    BY <1>t, <2>1
  <2>3. Right(Again(g), d + 1)
    <3> HIDE DEF Right, Nearer
    <3> QED BY <1>1, <2>2
  <2> QED BY <2>3
<1>4. Nat \subseteq D
  <2> HIDE DEF D
  <2> QED BY <1>2, <1>3, UpFrom0
<1>5. PICK g : Right(g, Len(x) + Len(y))
  BY <1>4
<1>6. Again(g) = Again(Again(g))
  <2>1. \A at \in P : at[1] + at[2] + (Len(x) + Len(y)) >= Len(x) + Len(y) + 2
    BY <1>t
  <2>2. Right(Again(g), Len(x) + Len(y))
    <3>1. Nearer(g, Len(x) + Len(y))
      BY <1>5, <1>t
    <3> HIDE DEF Right, Nearer
    <3> QED BY <1>1, <3>1
  <2>3. \A at \in P : Again(g)[at] = Cell(x, y, Again(g), at)
    BY <2>1, <2>2
  <2>4. \A at \in P : Again(g)[at] = Cell(x, y, g, at)
    BY DEF Again
  <2>5. \A at \in P : Cell(x, y, Again(g), at) = Cell(x, y, g, at)
    BY <2>3, <2>4
  <2> QED BY <2>5 DEF Again
<1>7. \A h : Again(h) = h => IsLcs(x, y, h)
  BY DEF Again, P, IsLcs, Cell
<1> QED BY <1>6, <1>7

\* The larger of two lengths.
LEMMA LargerOf ==
  ASSUME NEW a \in Nat, NEW b \in Nat
  PROVE  Max({a, b}) = IF a >= b THEN a ELSE b
<1>1. \A c \in {a, b} : (\A d \in {a, b} : c >= d) <=> c = IF a >= b THEN a ELSE b
  OBVIOUS
<1>2. (IF a >= b THEN a ELSE b) \in {a, b}
  OBVIOUS
<1> QED BY <1>1, <1>2 DEF Max

\* The table is what its cells say, and its cells are lengths.
LEMMA LcsTable ==
  ASSUME NEW x, NEW y, Len(x) \in Nat, Len(y) \in Nat
  PROVE  \A at \in Positions(x, y) : Lcs(x, y)[at] = Cell(x, y, Lcs(x, y), at) /\ Lcs(x, y)[at] \in Nat
<1> DEFINE lcs == Lcs(x, y)
           S == {at \in Positions(x, y) : lcs[at] \in Nat}
<1>1. IsLcs(x, y, lcs)
  <2>1. IsLcs(x, y, CHOOSE g : IsLcs(x, y, g))
    BY LcsExists
  <2> QED BY <2>1, LcsIs
<1>2. \A at \in Positions(x, y) : lcs[at] = Cell(x, y, lcs, at)
  <2> HIDE DEF lcs
  <2> QED BY <1>1 DEF IsLcs, Cell
<1> HIDE DEF lcs
<1>3. ASSUME NEW i \in 1 .. Len(x) + 1, NEW j \in 1 .. Len(y) + 1,
             \A a \in i .. Len(x) + 1, b \in j .. Len(y) + 1 : i + j < a + b => <<a, b>> \in S
      PROVE  <<i, j>> \in S
  <2>1. <<i, j>> \in Positions(x, y) /\ lcs[<<i, j>>] = Cell(x, y, lcs, <<i, j>>)
    BY <1>2 DEF Positions
  <2>2. CASE i > Len(x) \/ j > Len(y)
    BY <2>1, <2>2 DEF Cell
  <2>3. CASE i <= Len(x) /\ j <= Len(y)
    <3>1. <<i + 1, j + 1>> \in S /\ <<i + 1, j>> \in S /\ <<i, j + 1>> \in S
      BY <1>3, <2>3, SMTT(40)
    <3>2. lcs[<<i + 1, j + 1>>] \in Nat /\ lcs[<<i + 1, j>>] \in Nat /\ lcs[<<i, j + 1>>] \in Nat
      BY <3>1
    <3>3. Max({lcs[<<i + 1, j>>], lcs[<<i, j + 1>>]}) \in Nat
      BY <3>2, LargerOf
    <3> QED BY <2>1, <3>2, <3>3, SMTT(40) DEF Cell
  <2> QED BY <2>2, <2>3
<1>4. \A i \in 1 .. Len(x) + 1, j \in 1 .. Len(y) + 1 : <<i, j>> \in S
  <2> HIDE DEF S
  <2> QED BY <1>3, FromTheEnds
<1>5. \A at \in Positions(x, y) : lcs[at] \in Nat
  BY <1>4 DEF Positions
<1> QED BY <1>2, <1>5 DEF lcs

\* A cell with a line on both sides.
LEMMA LcsAt ==
  ASSUME NEW x, NEW y, Len(x) \in Nat, Len(y) \in Nat,
         NEW i \in 1 .. Len(x) + 1, NEW j \in 1 .. Len(y) + 1
  PROVE  Lcs(x, y)[<<i, j>>] = Cell(x, y, Lcs(x, y), <<i, j>>) /\ Lcs(x, y)[<<i, j>>] \in Nat
<1>1. <<i, j>> \in Positions(x, y)
  BY DEF Positions
<1> QED BY <1>1, LcsTable

\* A cell past one of the ends.
LEMMA LcsEnds ==
  ASSUME NEW x, NEW y, Len(x) \in Nat, Len(y) \in Nat,
         NEW i \in 1 .. Len(x) + 1, NEW j \in 1 .. Len(y) + 1
  PROVE  Lcs(x, y)[<<i, j>>] \in Nat /\ (i > Len(x) \/ j > Len(y) => Lcs(x, y)[<<i, j>>] = 0)
<1>1. <<i, j>> \in Positions(x, y)
  BY DEF Positions
<1>2. Lcs(x, y)[<<i, j>>] = Cell(x, y, Lcs(x, y), <<i, j>>) /\ Lcs(x, y)[<<i, j>>] \in Nat
  BY <1>1, LcsTable
<1> QED BY <1>2 DEF Cell

\* The cells by their two positions.
LEMMA LcsCells ==
  ASSUME NEW x, NEW y, Len(x) \in Nat, Len(y) \in Nat,
         NEW i \in 1 .. Len(x) + 1, NEW j \in 1 .. Len(y) + 1
  PROVE  LET lcs == Lcs(x, y)
         IN /\ lcs[<<i, j>>] \in Nat
            /\ i > Len(x) \/ j > Len(y) => lcs[<<i, j>>] = 0
            /\ i <= Len(x) /\ j <= Len(y) =>
                 /\ lcs[<<i + 1, j + 1>>] \in Nat /\ lcs[<<i + 1, j>>] \in Nat /\ lcs[<<i, j + 1>>] \in Nat
                 /\ x[i] = y[j] => lcs[<<i, j>>] = lcs[<<i + 1, j + 1>>] + 1
                 /\ x[i] # y[j] => lcs[<<i, j>>] = IF lcs[<<i + 1, j>>] >= lcs[<<i, j + 1>>]
                                                   THEN lcs[<<i + 1, j>>] ELSE lcs[<<i, j + 1>>]
<1>1. <<i, j>> \in Positions(x, y)
  BY DEF Positions
<1>2. Lcs(x, y)[<<i, j>>] = Cell(x, y, Lcs(x, y), <<i, j>>) /\ Lcs(x, y)[<<i, j>>] \in Nat
  BY <1>1, LcsTable
<1>3. ASSUME i <= Len(x), j <= Len(y)
      PROVE  /\ Lcs(x, y)[<<i + 1, j + 1>>] \in Nat
             /\ Lcs(x, y)[<<i + 1, j>>] \in Nat /\ Lcs(x, y)[<<i, j + 1>>] \in Nat
  <2>1. {<<i + 1, j + 1>>, <<i + 1, j>>, <<i, j + 1>>} \subseteq Positions(x, y)
    BY <1>3 DEF Positions
  <2> QED BY <2>1, LcsTable
<1>4. i <= Len(x) /\ j <= Len(y) =>
        Max({Lcs(x, y)[<<i + 1, j>>], Lcs(x, y)[<<i, j + 1>>]})
          = IF Lcs(x, y)[<<i + 1, j>>] >= Lcs(x, y)[<<i, j + 1>>]
            THEN Lcs(x, y)[<<i + 1, j>>] ELSE Lcs(x, y)[<<i, j + 1>>]
  BY <1>3, LargerOf
<1> QED BY <1>2, <1>3, <1>4, SMTT(40) DEF Cell

-----------------------------------------------------------------------------
(***************************************************************************)
(* No common subsequence is longer than the table says.                    *)
(***************************************************************************)

\* f and g embed n lines, equal one by one, in x from i on and in y from j on.
Embeds(x, y, i, j, n, f, g) ==
  /\ f \in [1 .. n -> i .. Len(x)] /\ g \in [1 .. n -> j .. Len(y)]
  /\ \A a \in 1 .. n : x[f[a]] = y[g[a]]
  /\ \A a, b \in 1 .. n : a < b => f[a] < f[b] /\ g[a] < g[b]

\* Without its first line, an embedding goes on in what is left.
LEMMA TailEmbeds ==
  ASSUME NEW x, NEW y, Len(x) \in Nat, Len(y) \in Nat, NEW i \in Nat, NEW j \in Nat,
         NEW n \in Nat, n # 0, NEW f, NEW g, Embeds(x, y, i, j, n, f, g)
  PROVE  \E c \in i .. Len(x), d \in j .. Len(y) : \E h, k : Embeds(x, y, c + 1, d + 1, n - 1, h, k)
<1>1. 1 \in 1 .. n /\ f[1] \in i .. Len(x) /\ g[1] \in j .. Len(y)
  BY DEF Embeds
<1> DEFINE h == [a \in 1 .. n - 1 |-> f[a + 1]]
           k == [a \in 1 .. n - 1 |-> g[a + 1]]
<1>2. \A a \in 1 .. n - 1 : a + 1 \in 1 .. n /\ 1 < a + 1
  OBVIOUS
<1>3. ASSUME NEW a \in 1 .. n - 1 PROVE h[a] \in f[1] + 1 .. Len(x) /\ k[a] \in g[1] + 1 .. Len(y)
  <2>1. f[a + 1] \in i .. Len(x) /\ g[a + 1] \in j .. Len(y) /\ f[1] < f[a + 1] /\ g[1] < g[a + 1]
    BY <1>1, <1>2 DEF Embeds
  <2>2. h[a] = f[a + 1] /\ k[a] = g[a + 1]
    OBVIOUS
  <2> HIDE DEF h, k
  <2> QED BY <1>1, <2>1, <2>2, SMTT(40)
<1>4. \A a \in 1 .. n - 1 : x[h[a]] = y[k[a]]
  BY <1>2 DEF Embeds
<1>5. \A a, b \in 1 .. n - 1 : a < b => h[a] < h[b] /\ k[a] < k[b]
  BY <1>2 DEF Embeds
<1>6. h \in [1 .. n - 1 -> f[1] + 1 .. Len(x)] /\ k \in [1 .. n - 1 -> g[1] + 1 .. Len(y)]
  BY <1>3
<1> HIDE DEF h, k
<1>7. Embeds(x, y, f[1] + 1, g[1] + 1, n - 1, h, k)
  BY <1>4, <1>5, <1>6 DEF Embeds
<1> QED BY <1>1, <1>7

\* Fewer lines to choose from are lines to choose from.
LEMMA EmbedsEarlier ==
  ASSUME NEW x, NEW y, Len(x) \in Nat, Len(y) \in Nat, NEW i \in Nat, NEW j \in Nat, NEW a \in Nat, NEW b \in Nat,
         i <= a, j <= b, NEW n \in Nat, NEW f, NEW g, Embeds(x, y, a, b, n, f, g)
  PROVE  Embeds(x, y, i, j, n, f, g)
<1>1. a .. Len(x) \subseteq i .. Len(x) /\ b .. Len(y) \subseteq j .. Len(y)
  OBVIOUS
<1> QED BY <1>1 DEF Embeds

\* No lines embedded past these positions are more than the table says.
Bounded(x, y) ==
  {p \in Positions(x, y) : \A m \in Nat : \A h, k : Embeds(x, y, p[1], p[2], m, h, k) => m <= Lcs(x, y)[p]}

\* Where lines differ, an embedding passes by one of them.
LEMMA PassesBy ==
  ASSUME NEW x, NEW y, Len(x) \in Nat, Len(y) \in Nat, NEW a \in Nat, NEW b \in Nat,
         NEW m \in Nat, m # 0, NEW h, NEW k, Embeds(x, y, a, b, m, h, k), x[a] # y[b]
  PROVE  Embeds(x, y, a + 1, b, m, h, k) \/ Embeds(x, y, a, b + 1, m, h, k)
<1>1. h[1] \in a .. Len(x) /\ k[1] \in b .. Len(y) /\ x[h[1]] = y[k[1]] /\ 1 \in 1 .. m
  BY DEF Embeds
<1>2. h[1] # a \/ k[1] # b
  BY <1>1
<1>3. ASSUME NEW r \in 1 .. m
      PROVE  h[r] \in a .. Len(x) /\ k[r] \in b .. Len(y) /\ h[1] <= h[r] /\ k[1] <= k[r]
  <2>1. h[r] \in a .. Len(x) /\ k[r] \in b .. Len(y)
    BY DEF Embeds
  <2>2. CASE r = 1
    BY <1>1, <2>2
  <2>3. CASE r # 1
    <3>1. 1 < r
      BY <2>3
    <3>2. h[1] < h[r] /\ k[1] < k[r]
      BY <1>1, <3>1 DEF Embeds
    <3> QED BY <1>1, <2>1, <3>2, SMTT(40)
  <2> QED BY <2>2, <2>3
<1>4. CASE h[1] # a
  <2>1. \A r \in 1 .. m : h[r] \in a + 1 .. Len(x)
    BY <1>1, <1>3, <1>4
  <2> QED BY <2>1 DEF Embeds
<1>5. CASE k[1] # b
  <2>1. \A r \in 1 .. m : k[r] \in b + 1 .. Len(y)
    BY <1>1, <1>3, <1>5
  <2> QED BY <2>1 DEF Embeds
<1> QED BY <1>2, <1>4, <1>5

\* They are not if none are past the positions after these.
LEMMA BoundedByLater ==
  ASSUME NEW x, NEW y, Len(x) \in Nat, Len(y) \in Nat,
         NEW a \in 1 .. Len(x) + 1, NEW b \in 1 .. Len(y) + 1,
         a <= Len(x) /\ b <= Len(y) => {<<a + 1, b + 1>>, <<a + 1, b>>, <<a, b + 1>>} \subseteq Bounded(x, y),
         NEW m \in Nat, NEW h, NEW k, Embeds(x, y, a, b, m, h, k)
  PROVE  m <= Lcs(x, y)[<<a, b>>]
<1> DEFINE lcs == Lcs(x, y)
<1>1. lcs[<<a, b>>] \in Nat
  BY LcsCells
<1>2. CASE m # 0
  <2>0. a \in Nat /\ b \in Nat
    OBVIOUS
  <2>1. PICK c \in a .. Len(x), d \in b .. Len(y) : \E p, q : Embeds(x, y, c + 1, d + 1, m - 1, p, q)
    BY <1>2, <2>0, TailEmbeds
  <2>2. a <= Len(x) /\ b <= Len(y) /\ m - 1 \in Nat
    BY <1>2
  <2>3. {<<a + 1, b + 1>>, <<a + 1, b>>, <<a, b + 1>>} \subseteq Bounded(x, y)
    BY <2>2
  <2>4. CASE x[a] = y[b]
    <3>1. PICK p, q : Embeds(x, y, c + 1, d + 1, m - 1, p, q)
      BY <2>1
    <3>2. a + 1 <= c + 1 /\ b + 1 <= d + 1 /\ c + 1 \in Nat /\ d + 1 \in Nat /\ a + 1 \in Nat /\ b + 1 \in Nat
      OBVIOUS
    <3>3. Embeds(x, y, a + 1, b + 1, m - 1, p, q)
      BY <2>2, <3>1, <3>2, EmbedsEarlier
    <3>4. m - 1 <= lcs[<<a + 1, b + 1>>]
      BY <2>2, <2>3, <3>3 DEF Bounded
    <3>5. lcs[<<a, b>>] = lcs[<<a + 1, b + 1>>] + 1 /\ lcs[<<a + 1, b + 1>>] \in Nat
      BY <2>2, <2>4, LcsCells
    <3> HIDE DEF lcs
    <3>6. m <= lcs[<<a, b>>]
      BY <3>4, <3>5, SMTT(40)
    <3> QED BY <3>6 DEF lcs
  <2>5. CASE x[a] # y[b]
    <3>1. /\ lcs[<<a, b>>] = IF lcs[<<a + 1, b>>] >= lcs[<<a, b + 1>>]
                             THEN lcs[<<a + 1, b>>] ELSE lcs[<<a, b + 1>>]
          /\ lcs[<<a + 1, b>>] \in Nat /\ lcs[<<a, b + 1>>] \in Nat
      BY <2>2, <2>5, LcsCells
    <3>2. Embeds(x, y, a + 1, b, m, h, k) \/ Embeds(x, y, a, b + 1, m, h, k)
      BY <1>2, <2>0, <2>5, PassesBy
    <3>3. m <= lcs[<<a + 1, b>>] \/ m <= lcs[<<a, b + 1>>]
      BY <2>3, <3>2 DEF Bounded
    <3> HIDE DEF lcs
    <3>4. m <= lcs[<<a, b>>]
      BY <3>1, <3>3, SMTT(40)
    <3> QED BY <3>4 DEF lcs
  <2> QED BY <2>4, <2>5
<1> QED BY <1>1, <1>2

\* So the table bounds every embedding.
LEMMA NoneIsLonger ==
  ASSUME NEW x, NEW y, Len(x) \in Nat, Len(y) \in Nat,
         NEW i \in 1 .. Len(x) + 1, NEW j \in 1 .. Len(y) + 1,
         NEW n \in Nat, NEW f, NEW g, Embeds(x, y, i, j, n, f, g)
  PROVE  n <= Lcs(x, y)[<<i, j>>]
<1>1. ASSUME NEW a \in 1 .. Len(x) + 1, NEW b \in 1 .. Len(y) + 1,
             \A c \in a .. Len(x) + 1, d \in b .. Len(y) + 1 : a + b < c + d => <<c, d>> \in Bounded(x, y)
      PROVE  <<a, b>> \in Bounded(x, y)
  <2>0. <<a, b>> \in Positions(x, y)
    BY DEF Positions
  <2>1. a <= Len(x) /\ b <= Len(y) => {<<a + 1, b + 1>>, <<a + 1, b>>, <<a, b + 1>>} \subseteq Bounded(x, y)
    <3> SUFFICES ASSUME a <= Len(x), b <= Len(y)
                 PROVE  <<a + 1, b + 1>> \in Bounded(x, y) /\ <<a + 1, b>> \in Bounded(x, y) /\ <<a, b + 1>> \in Bounded(x, y)
      OBVIOUS
    <3>1. /\ a + 1 \in a .. Len(x) + 1 /\ a \in a .. Len(x) + 1
          /\ b + 1 \in b .. Len(y) + 1 /\ b \in b .. Len(y) + 1
          /\ a + b < (a + 1) + (b + 1) /\ a + b < (a + 1) + b /\ a + b < a + (b + 1)
      OBVIOUS
    <3> QED BY <1>1, <3>1
  <2>2. \A m \in Nat : \A h, k : Embeds(x, y, a, b, m, h, k) => m <= Lcs(x, y)[<<a, b>>]
    BY <2>1, BoundedByLater
  <2> QED BY <2>0, <2>2 DEF Bounded
<1>2. \A a \in 1 .. Len(x) + 1, b \in 1 .. Len(y) + 1 : <<a, b>> \in Bounded(x, y)
  <2> DEFINE m == Len(x)
             l == Len(y)
             S == Bounded(x, y)
  <2>1. \A a \in 1 .. m + 1, b \in 1 .. l + 1 :
          (\A c \in a .. m + 1, d \in b .. l + 1 : a + b < c + d => <<c, d>> \in S) => <<a, b>> \in S
    BY <1>1
  <2>2. m \in Nat /\ l \in Nat
    OBVIOUS
  <2> HIDE DEF m, l, S
  <2>3. \A a \in 1 .. m + 1, b \in 1 .. l + 1 : <<a, b>> \in S
    BY <2>1, <2>2, FromTheEnds
  <2> QED BY <2>3 DEF m, l, S
<1> QED BY <1>2 DEF Bounded

\* A common subsequence embeds in both texts.
LEMMA CommonEmbeds ==
  ASSUME NEW x \in Seq(Nat), NEW y \in Seq(Nat), NEW z \in Seq(Nat), IsSubsequence(z, x), IsSubsequence(z, y)
  PROVE  \E f, g : Embeds(x, y, 1, 1, Len(z), f, g)
<1>1. DOMAIN x = 1 .. Len(x) /\ DOMAIN y = 1 .. Len(y) /\ DOMAIN z = 1 .. Len(z)
  OBVIOUS
<1>2. PICK f \in [DOMAIN z -> DOMAIN x] :
        (\A i \in DOMAIN z : x[f[i]] = z[i]) /\ (\A i, j \in DOMAIN z : i < j => f[i] < f[j])
  BY DEF IsSubsequence
<1>3. PICK g \in [DOMAIN z -> DOMAIN y] :
        (\A i \in DOMAIN z : y[g[i]] = z[i]) /\ (\A i, j \in DOMAIN z : i < j => g[i] < g[j])
  BY DEF IsSubsequence
<1>4. f \in [1 .. Len(z) -> 1 .. Len(x)] /\ g \in [1 .. Len(z) -> 1 .. Len(y)]
  BY <1>1
<1>5. Embeds(x, y, 1, 1, Len(z), f, g)
  BY <1>1, <1>2, <1>3, <1>4 DEF Embeds
<1> QED BY <1>5

-----------------------------------------------------------------------------
(***************************************************************************)
(* The table of edit scripts, and what each of its cells does.             *)
(***************************************************************************)

\* A line or an operation before others.
Put(a, s) == <<a>> \o s

\* What a cell of the script table is, of the cells after it.
ScriptCell(x, y, s, at) ==
  LET i == at[1]
      j == at[2]
      lcs == Lcs(x, y)
  IN IF i > Len(x) /\ j > Len(y) THEN <<>>
     ELSE IF i <= Len(x) /\ j <= Len(y) /\ x[i] = y[j] THEN Put(Op("keep", x[i]), s[<<i + 1, j + 1>>])
     ELSE IF i <= Len(x) /\ (j > Len(y) \/ DropsFirst(lcs, i, j)) THEN Put(Op("drop", x[i]), s[<<i + 1, j>>])
     ELSE Put(Op("add", y[j]), s[<<i, j + 1>>])

\* A table that says so of every position.
IsScript(x, y, s) == s = [at \in Positions(x, y) |-> ScriptCell(x, y, s, at)]

\* EditScript reads its first cell.
LEMMA ScriptIs ==
  ASSUME NEW x, NEW y
  PROVE  EditScript(x, y) = (CHOOSE s : IsScript(x, y, s))[<<1, 1>>]
BY SMT DEF EditScript, IsScript, ScriptCell, Put

\* There is one, built from the ends.
LEMMA ScriptExists ==
  ASSUME NEW x, NEW y, Len(x) \in Nat, Len(y) \in Nat
  PROVE  \E g : IsScript(x, y, g)
<1> DEFINE P == Positions(x, y)
           Right(g, d) == \A at \in P : at[1] + at[2] + d >= Len(x) + Len(y) + 2 => g[at] = ScriptCell(x, y, g, at)
           Nearer(g, d) == \A at \in P : at[1] + at[2] + d > Len(x) + Len(y) + 2 => g[at] = ScriptCell(x, y, g, at)
           D == {d \in Nat : \E g : Right(g, d)}
           Again(g) == [at \in P |-> ScriptCell(x, y, g, at)]
<1>1. ASSUME NEW d \in Nat, NEW g, Nearer(g, d) PROVE Right(Again(g), d)
  <2> SUFFICES ASSUME NEW at \in P, at[1] + at[2] + d >= Len(x) + Len(y) + 2
               PROVE  ScriptCell(x, y, g, at) = ScriptCell(x, y, Again(g), at)
    OBVIOUS
  <2>0. at[1] \in 1 .. Len(x) + 1 /\ at[2] \in 1 .. Len(y) + 1
    BY DEF Positions
  <2>1. CASE at[1] > Len(x) /\ at[2] > Len(y)
    BY <2>1 DEF ScriptCell
  <2>2. ASSUME NEW b \in P, b[1] + b[2] > at[1] + at[2] PROVE Again(g)[b] = g[b]
    <3>1. b[1] + b[2] + d > Len(x) + Len(y) + 2
      BY <2>0, <2>2, SMTT(40) DEF Positions
    <3>2. g[b] = ScriptCell(x, y, g, b)
      BY <1>1, <2>2, <3>1
    <3> QED BY <2>2, <3>2
  <2>3. at[1] <= Len(x) /\ at[2] <= Len(y) => Again(g)[<<at[1] + 1, at[2] + 1>>] = g[<<at[1] + 1, at[2] + 1>>]
    <3> SUFFICES ASSUME at[1] <= Len(x), at[2] <= Len(y)
                 PROVE  Again(g)[<<at[1] + 1, at[2] + 1>>] = g[<<at[1] + 1, at[2] + 1>>]
      OBVIOUS
    <3> DEFINE b == <<at[1] + 1, at[2] + 1>>
    <3>1. b \in P /\ b[1] + b[2] > at[1] + at[2]
      BY <2>0, SMTT(40) DEF Positions
    <3> HIDE DEF b, Again, P
    <3>2. Again(g)[b] = g[b]
      BY <2>2, <3>1
    <3> QED BY <3>2 DEF b
  <2>4. at[1] <= Len(x) => Again(g)[<<at[1] + 1, at[2]>>] = g[<<at[1] + 1, at[2]>>]
    <3> SUFFICES ASSUME at[1] <= Len(x) PROVE Again(g)[<<at[1] + 1, at[2]>>] = g[<<at[1] + 1, at[2]>>]
      OBVIOUS
    <3> DEFINE b == <<at[1] + 1, at[2]>>
    <3>1. b \in P /\ b[1] + b[2] > at[1] + at[2]
      BY <2>0 DEF Positions
    <3> HIDE DEF b, Again, P
    <3>2. Again(g)[b] = g[b]
      BY <2>2, <3>1
    <3> QED BY <3>2 DEF b
  <2>5. at[2] <= Len(y) => Again(g)[<<at[1], at[2] + 1>>] = g[<<at[1], at[2] + 1>>]
    <3> SUFFICES ASSUME at[2] <= Len(y) PROVE Again(g)[<<at[1], at[2] + 1>>] = g[<<at[1], at[2] + 1>>]
      OBVIOUS
    <3> DEFINE b == <<at[1], at[2] + 1>>
    <3>1. b \in P /\ b[1] + b[2] > at[1] + at[2]
      BY <2>0 DEF Positions
    <3> HIDE DEF b, Again, P
    <3>2. Again(g)[b] = g[b]
      BY <2>2, <3>1
    <3> QED BY <3>2 DEF b
  <2> HIDE DEF Again, P
  <2>6. CASE ~(at[1] > Len(x) /\ at[2] > Len(y))
    <3>1. at[2] <= Len(y) \/ at[1] <= Len(x)
      BY <2>0, <2>6
    <3>2. CASE at[1] <= Len(x) /\ at[2] <= Len(y) /\ x[at[1]] = y[at[2]]
      BY <2>3, <2>6, <3>2 DEF ScriptCell
    <3>3. CASE ~(at[1] <= Len(x) /\ at[2] <= Len(y) /\ x[at[1]] = y[at[2]])
      <4>1. CASE at[1] <= Len(x) /\ (at[2] > Len(y) \/ DropsFirst(Lcs(x, y), at[1], at[2]))
        BY <2>4, <2>6, <3>3, <4>1 DEF ScriptCell
      <4>2. CASE ~(at[1] <= Len(x) /\ (at[2] > Len(y) \/ DropsFirst(Lcs(x, y), at[1], at[2])))
        <5>1. at[2] <= Len(y)
          BY <2>0, <3>1, <4>2
        <5> QED BY <2>5, <2>6, <3>3, <4>2, <5>1 DEF ScriptCell
      <4> QED BY <4>1, <4>2
    <3> QED BY <3>2, <3>3
  <2> QED BY <2>1, <2>6
<1>t. \A at \in P : at[1] \in 1 .. Len(x) + 1 /\ at[2] \in 1 .. Len(y) + 1
  BY DEF Positions
<1> HIDE DEF Again, P
<1>2. 0 \in D
  <2>1. Nearer(0, 0)
    BY <1>t
  <2>2. Right(Again(0), 0)
    <3> HIDE DEF Right, Nearer
    <3> QED BY <1>1, <2>1
  <2> QED BY <2>2
<1>3. ASSUME NEW d \in Nat, d \in D PROVE d + 1 \in D
  <2>1. PICK g : Right(g, d)
    BY <1>3
  <2>2. Nearer(g, d + 1)
    BY <1>t, <2>1
  <2>3. Right(Again(g), d + 1)
    <3> HIDE DEF Right, Nearer
    <3> QED BY <1>1, <2>2
  <2> QED BY <2>3
<1>4. Nat \subseteq D
  <2> HIDE DEF D
  <2> QED BY <1>2, <1>3, UpFrom0
<1>5. PICK g : Right(g, Len(x) + Len(y))
  BY <1>4
<1>6. Again(g) = Again(Again(g))
  <2>1. \A at \in P : at[1] + at[2] + (Len(x) + Len(y)) >= Len(x) + Len(y) + 2
    BY <1>t
  <2>2. Right(Again(g), Len(x) + Len(y))
    <3>1. Nearer(g, Len(x) + Len(y))
      BY <1>5, <1>t
    <3> HIDE DEF Right, Nearer
    <3> QED BY <1>1, <3>1
  <2>3. \A at \in P : Again(g)[at] = ScriptCell(x, y, Again(g), at)
    BY <2>1, <2>2
  <2>4. \A at \in P : Again(g)[at] = ScriptCell(x, y, g, at)
    BY DEF Again
  <2>5. \A at \in P : ScriptCell(x, y, Again(g), at) = ScriptCell(x, y, g, at)
    BY <2>3, <2>4
  <2> QED BY <2>5 DEF Again
<1>7. \A h : Again(h) = h => IsScript(x, y, h)
  BY DEF Again, P, IsScript, ScriptCell
<1> QED BY <1>6, <1>7

\* The one EditScript takes.
ScriptTable(x, y) == CHOOSE s : IsScript(x, y, s)

\* The three ways a script goes on, and what is left to match after each.
Keeps(x, y, i, j) == i <= Len(x) /\ j <= Len(y) /\ x[i] = y[j]

\* The live line goes first.
Drops(x, y, i, j) == i <= Len(x) /\ (j > Len(y) \/ DropsFirst(Lcs(x, y), i, j))

\* The cells by their two positions.
LEMMA ScriptAt ==
  ASSUME NEW x, NEW y, Len(x) \in Nat, Len(y) \in Nat,
         NEW i \in 1 .. Len(x) + 1, NEW j \in 1 .. Len(y) + 1
  PROVE  ScriptTable(x, y)[<<i, j>>] = ScriptCell(x, y, ScriptTable(x, y), <<i, j>>)
<1> DEFINE t == ScriptTable(x, y)
<1>1. IsScript(x, y, t)
  BY ScriptExists DEF ScriptTable
<1>2. <<i, j>> \in Positions(x, y)
  BY DEF Positions
<1> HIDE DEF t
<1>3. t[<<i, j>>] = ScriptCell(x, y, t, <<i, j>>)
  BY <1>1, <1>2 DEF IsScript
<1> QED BY <1>3 DEF t

\* Nothing is left to do.
LEMMA AtTheEnd ==
  ASSUME NEW x, NEW y, Len(x) \in Nat, Len(y) \in Nat,
         NEW i \in 1 .. Len(x) + 1, NEW j \in 1 .. Len(y) + 1, i > Len(x) /\ j > Len(y)
  PROVE  ScriptTable(x, y)[<<i, j>>] = <<>> /\ Lcs(x, y)[<<i, j>>] = 0
<1>s. ScriptTable(x, y)[<<i, j>>] = ScriptCell(x, y, ScriptTable(x, y), <<i, j>>)
  BY ScriptAt
<1>l. Lcs(x, y)[<<i, j>>] = Cell(x, y, Lcs(x, y), <<i, j>>)
  BY LcsAt
<1>1. ScriptTable(x, y)[<<i, j>>] = <<>>
  BY <1>s DEF ScriptCell
<1>2. Lcs(x, y)[<<i, j>>] = 0
  BY <1>l DEF Cell
<1> QED BY <1>1, <1>2

\* Equal lines are kept.
LEMMA AtKept ==
  ASSUME NEW x, NEW y, Len(x) \in Nat, Len(y) \in Nat,
         NEW i \in 1 .. Len(x) + 1, NEW j \in 1 .. Len(y) + 1, Keeps(x, y, i, j)
  PROVE  /\ ScriptTable(x, y)[<<i, j>>] = Put(Op("keep", x[i]), ScriptTable(x, y)[<<i + 1, j + 1>>])
         /\ Lcs(x, y)[<<i, j>>] = Lcs(x, y)[<<i + 1, j + 1>>] + 1
<1>s. ScriptTable(x, y)[<<i, j>>] = ScriptCell(x, y, ScriptTable(x, y), <<i, j>>)
  BY ScriptAt
<1>l. Lcs(x, y)[<<i, j>>] = Cell(x, y, Lcs(x, y), <<i, j>>)
  BY LcsAt
<1>1. ScriptTable(x, y)[<<i, j>>] = Put(Op("keep", x[i]), ScriptTable(x, y)[<<i + 1, j + 1>>])
  BY <1>s DEF ScriptCell, Keeps
<1>2. Lcs(x, y)[<<i, j>>] = Lcs(x, y)[<<i + 1, j + 1>>] + 1
  BY <1>l DEF Cell, Keeps
<1> QED BY <1>1, <1>2

\* A live line goes first where no match is lost.
LEMMA AtDropped ==
  ASSUME NEW x, NEW y, Len(x) \in Nat, Len(y) \in Nat,
         NEW i \in 1 .. Len(x) + 1, NEW j \in 1 .. Len(y) + 1, ~Keeps(x, y, i, j), Drops(x, y, i, j)
  PROVE  /\ ScriptTable(x, y)[<<i, j>>] = Put(Op("drop", x[i]), ScriptTable(x, y)[<<i + 1, j>>])
         /\ Lcs(x, y)[<<i, j>>] = Lcs(x, y)[<<i + 1, j>>]
<1>s. ScriptTable(x, y)[<<i, j>>] = ScriptCell(x, y, ScriptTable(x, y), <<i, j>>)
  BY ScriptAt
<1>l. Lcs(x, y)[<<i, j>>] = Cell(x, y, Lcs(x, y), <<i, j>>)
  BY LcsAt
<1>0. i <= Len(x) /\ i + 1 \in 1 .. Len(x) + 1
  BY DEF Drops
<1>1. ScriptTable(x, y)[<<i, j>>] = Put(Op("drop", x[i]), ScriptTable(x, y)[<<i + 1, j>>])
  BY <1>0, <1>s DEF ScriptCell, Keeps, Drops
<1>2. CASE j > Len(y)
  <2>1. Lcs(x, y)[<<i, j>>] = 0
    BY <1>2, LcsEnds
  <2>2. Lcs(x, y)[<<i + 1, j>>] = 0
    BY <1>0, <1>2, LcsEnds
  <2> QED BY <1>1, <2>1, <2>2
<1>3. CASE j <= Len(y)
  <2>1. Lcs(x, y)[<<i + 1, j>>] \in Nat
    BY <1>0, LcsEnds
  <2>2. Lcs(x, y)[<<i, j + 1>>] \in Nat
    <3>1. j + 1 \in 1 .. Len(y) + 1
      BY <1>3
    <3> QED BY <3>1, LcsEnds
  <2>3. x[i] # y[j] /\ Lcs(x, y)[<<i + 1, j>>] >= Lcs(x, y)[<<i, j + 1>>]
    BY <1>0, <1>3 DEF Keeps, Drops, DropsFirst
  <2>4. Lcs(x, y)[<<i, j>>] = Max({Lcs(x, y)[<<i + 1, j>>], Lcs(x, y)[<<i, j + 1>>]})
    BY <1>0, <1>3, <2>3, <1>l DEF Cell
  <2>5. Lcs(x, y)[<<i, j>>] = Lcs(x, y)[<<i + 1, j>>]
    BY <2>1, <2>2, <2>3, <2>4, LargerOf
  <2> QED BY <1>1, <2>5
<1> QED BY <1>2, <1>3

\* Otherwise a rendered line comes.
LEMMA AtAdded ==
  ASSUME NEW x, NEW y, Len(x) \in Nat, Len(y) \in Nat,
         NEW i \in 1 .. Len(x) + 1, NEW j \in 1 .. Len(y) + 1,
         ~(i > Len(x) /\ j > Len(y)), ~Keeps(x, y, i, j), ~Drops(x, y, i, j)
  PROVE  /\ ScriptTable(x, y)[<<i, j>>] = Put(Op("add", y[j]), ScriptTable(x, y)[<<i, j + 1>>])
         /\ Lcs(x, y)[<<i, j>>] = Lcs(x, y)[<<i, j + 1>>]
<1>s. ScriptTable(x, y)[<<i, j>>] = ScriptCell(x, y, ScriptTable(x, y), <<i, j>>)
  BY ScriptAt
<1>l. Lcs(x, y)[<<i, j>>] = Cell(x, y, Lcs(x, y), <<i, j>>)
  BY LcsAt
<1>0. j <= Len(y) /\ j + 1 \in 1 .. Len(y) + 1
  BY DEF Drops
<1>1. ScriptTable(x, y)[<<i, j>>] = Put(Op("add", y[j]), ScriptTable(x, y)[<<i, j + 1>>])
  BY <1>0, <1>s DEF ScriptCell, Keeps, Drops
<1>2. CASE i > Len(x)
  <2>1. Lcs(x, y)[<<i, j>>] = 0
    BY <1>2, LcsEnds
  <2>2. Lcs(x, y)[<<i, j + 1>>] = 0
    BY <1>0, <1>2, LcsEnds
  <2> QED BY <1>1, <2>1, <2>2
<1>3. CASE i <= Len(x)
  <2>1. Lcs(x, y)[<<i, j + 1>>] \in Nat
    BY <1>0, LcsEnds
  <2>2. Lcs(x, y)[<<i + 1, j>>] \in Nat
    <3>1. i + 1 \in 1 .. Len(x) + 1
      BY <1>3
    <3> QED BY <3>1, LcsEnds
  <2>3. x[i] # y[j] /\ ~(Lcs(x, y)[<<i + 1, j>>] >= Lcs(x, y)[<<i, j + 1>>])
    BY <1>0, <1>3 DEF Keeps, Drops, DropsFirst
  <2>4. Lcs(x, y)[<<i, j>>] = Max({Lcs(x, y)[<<i + 1, j>>], Lcs(x, y)[<<i, j + 1>>]})
    BY <1>0, <1>3, <2>3, <1>l DEF Cell
  <2>5. Lcs(x, y)[<<i, j>>] = Lcs(x, y)[<<i, j + 1>>]
    BY <2>1, <2>2, <2>3, <2>4, LargerOf
  <2> QED BY <1>1, <2>5
<1> QED BY <1>2, <1>3

-----------------------------------------------------------------------------
(***************************************************************************)
(* The lines a script leaves of those it mentions.                         *)
(***************************************************************************)

\* The operations of a script, as it is made or printed.
OpSet == [mark : {"keep", "drop", "add", "gap"}, line : Nat]

\* A table of the lines left by the first k operations.
IsLines(ops, marks, g) ==
  g = [k \in 0 .. Len(ops) |->
        IF k = 0 THEN <<>>
        ELSE IF ops[k].mark \in marks THEN Append(g[k - 1], ops[k].line) ELSE g[k - 1]]

\* LinesOf reads its last entry.
LEMMA LinesIs ==
  ASSUME NEW ops, NEW marks
  PROVE  LinesOf(ops, marks) = (CHOOSE g : IsLines(ops, marks, g))[Len(ops)]
BY SMT DEF LinesOf, IsLines

\* The lines a script leaves, up to its k-th operation.
LinesTable(ops, marks) == CHOOSE g : IsLines(ops, marks, g)

\* There is one.
LEMMA LinesExist ==
  ASSUME NEW ops, Len(ops) \in Nat, NEW marks
  PROVE  \E g : IsLines(ops, marks, g)
<1> DEFINE Line(g, k) == IF k = 0 THEN <<>>
                         ELSE IF ops[k].mark \in marks THEN Append(g[k - 1], ops[k].line) ELSE g[k - 1]
           Right(g, n) == \A k \in 0 .. Len(ops) : k <= n => g[k] = Line(g, k)
           D == {n \in Nat : \E g : Right(g, n)}
           Again(g) == [k \in 0 .. Len(ops) |-> Line(g, k)]
<1>1. ASSUME NEW n \in Nat, NEW g, \A k \in 0 .. Len(ops) : k < n => g[k] = Line(g, k) PROVE Right(Again(g), n)
  <2> SUFFICES ASSUME NEW k \in 0 .. Len(ops), k <= n PROVE Line(g, k) = Line(Again(g), k)
    OBVIOUS
  <2>1. k # 0 => Again(g)[k - 1] = g[k - 1]
    BY <1>1
  <2> HIDE DEF Again
  <2> QED BY <2>1
<1> HIDE DEF Again, Line
<1>2. 0 \in D
  <2>1. \A k \in 0 .. Len(ops) : k < 0 => 0[k] = Line(0, k)
    OBVIOUS
  <2>2. Right(Again(0), 0)
    <3> HIDE DEF Right
    <3> QED BY <1>1, <2>1
  <2> QED BY <2>2
<1>3. ASSUME NEW n \in Nat, n \in D PROVE n + 1 \in D
  <2>1. PICK g : Right(g, n)
    BY <1>3
  <2>2. \A k \in 0 .. Len(ops) : k < n + 1 => g[k] = Line(g, k)
    BY <2>1
  <2>3. Right(Again(g), n + 1)
    <3> HIDE DEF Right
    <3> QED BY <1>1, <2>2
  <2> QED BY <2>3
<1>4. Nat \subseteq D
  <2> HIDE DEF D
  <2> QED BY <1>2, <1>3, UpFrom0
<1>5. PICK g : Right(g, Len(ops))
  BY <1>4
<1>6. Again(g) = g \/ Again(g) = Again(Again(g))
  <2>1. \A k \in 0 .. Len(ops) : k < Len(ops) + 1 => g[k] = Line(g, k)
    BY <1>5
  <2>2. Right(Again(g), Len(ops) + 1)
    <3> HIDE DEF Right
    <3> QED BY <1>1, <2>1
  <2>3. \A k \in 0 .. Len(ops) : Again(g)[k] = Line(Again(g), k)
    BY <2>2
  <2>4. \A k \in 0 .. Len(ops) : Again(g)[k] = Line(g, k)
    BY DEF Again
  <2> QED BY <2>3, <2>4 DEF Again
<1>7. \A h : Again(h) = h => IsLines(ops, marks, h)
  BY DEF Again, Line, IsLines
<1> QED BY <1>6, <1>7

\* And LinesOf is what its entries say.
LEMMA LinesAt ==
  ASSUME NEW ops \in Seq(OpSet), NEW marks
  PROVE  /\ LinesTable(ops, marks)[0] = <<>>
         /\ \A k \in 1 .. Len(ops) :
              LinesTable(ops, marks)[k] = IF ops[k].mark \in marks
                                          THEN Append(LinesTable(ops, marks)[k - 1], ops[k].line)
                                          ELSE LinesTable(ops, marks)[k - 1]
         /\ LinesOf(ops, marks) = LinesTable(ops, marks)[Len(ops)]
<1>1. Len(ops) \in Nat
  OBVIOUS
<1>2. IsLines(ops, marks, LinesTable(ops, marks))
  BY <1>1, LinesExist DEF LinesTable
<1>3. LinesOf(ops, marks) = LinesTable(ops, marks)[Len(ops)]
  BY LinesIs DEF LinesTable
<1>4. ASSUME NEW g, IsLines(ops, marks, g)
      PROVE  /\ g[0] = <<>>
             /\ \A k \in 1 .. Len(ops) : g[k] = IF ops[k].mark \in marks
                                                THEN Append(g[k - 1], ops[k].line) ELSE g[k - 1]
  <2>1. g[0] = <<>>
    <3>1. 0 \in 0 .. Len(ops)
      BY <1>1
    <3> QED BY <1>4, <3>1 DEF IsLines
  <2>2. ASSUME NEW k \in 1 .. Len(ops)
        PROVE  g[k] = IF ops[k].mark \in marks THEN Append(g[k - 1], ops[k].line) ELSE g[k - 1]
    <3>1. k \in 0 .. Len(ops) /\ k # 0
      OBVIOUS
    <3> QED BY <1>4, <3>1 DEF IsLines
  <2> QED BY <2>1, <2>2
<1> QED BY <1>2, <1>3, <1>4

\* They are lines.
LEMMA LinesAreLines ==
  ASSUME NEW ops \in Seq(OpSet), NEW marks
  PROVE  /\ \A k \in 0 .. Len(ops) : LinesTable(ops, marks)[k] \in Seq(Nat)
         /\ LinesOf(ops, marks) \in Seq(Nat)
<1> DEFINE t == LinesTable(ops, marks)
           S == {k \in Nat : k <= Len(ops) => t[k] \in Seq(Nat)}
<1>a. /\ t[0] = <<>>
      /\ \A k \in 1 .. Len(ops) :
           t[k] = IF ops[k].mark \in marks THEN Append(t[k - 1], ops[k].line) ELSE t[k - 1]
  BY LinesAt
<1>b. Len(ops) \in Nat /\ \A k \in 1 .. Len(ops) : ops[k] \in OpSet
  OBVIOUS
<1>c. \A op \in OpSet : op.line \in Nat
  BY DEF OpSet
<1> HIDE DEF t
<1>1. 0 \in S
  <2>1. <<>> \in Seq(Nat)
    OBVIOUS
  <2> QED BY <1>a, <2>1
<1>2. ASSUME NEW k \in Nat, k \in S PROVE k + 1 \in S
  <2> SUFFICES ASSUME k + 1 <= Len(ops) PROVE t[k + 1] \in Seq(Nat)
    OBVIOUS
  <2>0. k + 1 \in 1 .. Len(ops) /\ (k + 1) - 1 = k /\ k <= Len(ops)
    BY <1>b
  <2>1. t[k] \in Seq(Nat)
    BY <1>2, <2>0
  <2>3. ops[k + 1].line \in Nat
    BY <1>b, <1>c, <2>0
  <2>4. t[k + 1] = IF ops[k + 1].mark \in marks THEN Append(t[k], ops[k + 1].line) ELSE t[k]
    BY <1>a, <2>0
  <2>5. Append(t[k], ops[k + 1].line) \in Seq(Nat)
    BY <2>1, <2>3
  <2> QED BY <2>1, <2>4, <2>5
<1>3. Nat \subseteq S
  <2> HIDE DEF S
  <2> QED BY <1>1, <1>2, UpFrom0
<1>4. \A k \in 0 .. Len(ops) : t[k] \in Seq(Nat)
  BY <1>3, <1>b
<1>5. t[Len(ops)] \in Seq(Nat)
  BY <1>4, <1>b
<1> QED BY <1>4, <1>5, LinesAt DEF t

\* Appending after a prefix.
LEMMA AppendToConcat ==
  ASSUME NEW s \in Seq(Nat), NEW t \in Seq(Nat), NEW e \in Nat
  PROVE  Append(s \o t, e) = s \o Append(t, e)
<1>1. s \o t \in Seq(Nat) /\ <<e>> \in Seq(Nat)
  OBVIOUS
<1>2. Append(s \o t, e) = (s \o t) \o <<e>> /\ Append(t, e) = t \o <<e>>
  BY <1>1, AppendIsConcat
<1> QED BY <1>1, <1>2, ConcatAssociative

\* A script with an operation before it.
LEMMA LinesOfCons ==
  ASSUME NEW op \in OpSet, NEW ops \in Seq(OpSet), NEW marks
  PROVE  /\ <<op>> \o ops \in Seq(OpSet)
         /\ op.mark \in marks => LinesOf(<<op>> \o ops, marks) = <<op.line>> \o LinesOf(ops, marks)
         /\ op.mark \notin marks => LinesOf(<<op>> \o ops, marks) = LinesOf(ops, marks)
<1> DEFINE all == <<op>> \o ops
           first == IF op.mark \in marks THEN <<op.line>> ELSE <<>>
           whole == LinesTable(all, marks)
           part == LinesTable(ops, marks)
           S == {k \in Nat : k <= Len(ops) => whole[k + 1] = first \o part[k]}
<1>1. all \in Seq(OpSet) /\ Len(all) = Len(ops) + 1 /\ all[1] = op /\ \A k \in 1 .. Len(ops) : all[k + 1] = ops[k]
  OBVIOUS
<1>2. first \in Seq(Nat) /\ op.line \in Nat
  BY DEF OpSet
<1>3. /\ part[0] = <<>>
      /\ \A k \in 1 .. Len(ops) :
           part[k] = IF ops[k].mark \in marks THEN Append(part[k - 1], ops[k].line) ELSE part[k - 1]
      /\ LinesOf(ops, marks) = part[Len(ops)]
  BY LinesAt
<1>4. \A k \in 0 .. Len(ops) : part[k] \in Seq(Nat)
  BY LinesAreLines
<1> HIDE DEF all
<1>5. /\ whole[0] = <<>>
      /\ \A k \in 1 .. Len(all) :
           whole[k] = IF all[k].mark \in marks THEN Append(whole[k - 1], all[k].line) ELSE whole[k - 1]
      /\ LinesOf(all, marks) = whole[Len(all)]
  BY <1>1, LinesAt
<1>6. \A k \in 1 .. Len(ops) : ops[k].line \in Nat
  <2>1. \A k \in 1 .. Len(ops) : ops[k] \in OpSet
    OBVIOUS
  <2>2. \A o \in OpSet : o.line \in Nat
    BY DEF OpSet
  <2> QED BY <2>1, <2>2
<1>7. Len(ops) \in Nat
  OBVIOUS
<1> HIDE DEF whole, part
<1>8. 0 \in S
  <2>1. 1 \in 1 .. Len(all) /\ 1 - 1 = 0
    BY <1>1, <1>7
  <2>2. whole[1] = IF op.mark \in marks THEN Append(<<>>, op.line) ELSE <<>>
    BY <1>1, <1>5, <2>1
  <2>3. Append(<<>>, op.line) = <<op.line>> /\ first \o <<>> = first
    BY <1>2
  <2>4. whole[0 + 1] = first \o part[0]
    BY <1>3, <2>2, <2>3
  <2> HIDE DEF first
  <2> QED BY <2>4
<1> HIDE DEF first
<1>9. ASSUME NEW k \in Nat, k \in S PROVE k + 1 \in S
  <2> HIDE DEF S
  <2> SUFFICES ASSUME k + 1 <= Len(ops) PROVE whole[(k + 1) + 1] = first \o part[k + 1]
    BY DEF S
  <2>0. /\ k + 1 \in 1 .. Len(ops) /\ (k + 1) - 1 = k /\ k <= Len(ops) /\ k \in 0 .. Len(ops)
        /\ (k + 1) + 1 \in 1 .. Len(all) /\ ((k + 1) + 1) - 1 = k + 1
    BY <1>1, <1>7
  <2>1. whole[k + 1] = first \o part[k]
    BY <1>9, <2>0 DEF S
  <2>2. part[k + 1] = IF ops[k + 1].mark \in marks THEN Append(part[k], ops[k + 1].line) ELSE part[k]
    BY <1>3, <2>0
  <2>3. all[(k + 1) + 1] = ops[k + 1]
    BY <1>1, <2>0
  <2>4. whole[(k + 1) + 1] = IF ops[k + 1].mark \in marks THEN Append(whole[k + 1], ops[k + 1].line) ELSE whole[k + 1]
    BY <1>5, <2>0, <2>3
  <2>5. part[k] \in Seq(Nat) /\ ops[k + 1].line \in Nat
    BY <1>4, <1>6, <2>0
  <2>6. Append(first \o part[k], ops[k + 1].line) = first \o Append(part[k], ops[k + 1].line)
    BY <1>2, <2>5, AppendToConcat
  <2> QED BY <2>1, <2>2, <2>4, <2>6
<1>10. Nat \subseteq S
  <2> HIDE DEF S
  <2> QED BY <1>8, <1>9, UpFrom0
<1>11. whole[Len(ops) + 1] = first \o part[Len(ops)]
  <2>1. Len(ops) \in S
    <3> HIDE DEF S
    <3> QED BY <1>7, <1>10
  <2> QED BY <1>7, <2>1
<1>12. LinesOf(all, marks) = first \o LinesOf(ops, marks)
  BY <1>1, <1>3, <1>5, <1>11
<1>13. LinesOf(ops, marks) \in Seq(Nat)
  BY LinesAreLines
<1>14. <<>> \o LinesOf(ops, marks) = LinesOf(ops, marks)
  BY <1>13
<1>15. (op.mark \in marks => first = <<op.line>>) /\ (op.mark \notin marks => first = <<>>)
  BY DEF first
<1>16. /\ op.mark \in marks => LinesOf(all, marks) = <<op.line>> \o LinesOf(ops, marks)
       /\ op.mark \notin marks => LinesOf(all, marks) = LinesOf(ops, marks)
  BY <1>12, <1>14, <1>15
<1> QED BY <1>1, <1>16 DEF all

\* No operation leaves no line.
LEMMA LinesOfNothing == \A marks : LinesOf(<<>>, marks) = <<>>
<1> SUFFICES ASSUME NEW marks PROVE LinesOf(<<>>, marks) = <<>>
  OBVIOUS
<1>1. <<>> \in Seq(OpSet) /\ Len(<<>>) = 0
  OBVIOUS
<1>2. LinesTable(<<>>, marks)[0] = <<>> /\ LinesOf(<<>>, marks) = LinesTable(<<>>, marks)[Len(<<>>)]
  BY <1>1, LinesAt
<1> QED BY <1>1, <1>2

\* Operations with the same beginning leave the same lines of it.
LEMMA SamePrefix ==
  ASSUME NEW s \in Seq(OpSet), NEW t \in Seq(OpSet), NEW marks, NEW n \in Nat, n <= Len(s), n <= Len(t),
         \A k \in 1 .. n : s[k] = t[k]
  PROVE  LinesTable(s, marks)[n] = LinesTable(t, marks)[n]
<1> DEFINE a == LinesTable(s, marks)
           b == LinesTable(t, marks)
           S == {k \in Nat : k <= n => a[k] = b[k]}
<1>1. 0 \in S
  BY LinesAt
<1>2. ASSUME NEW k \in 1 .. n, a[k - 1] = b[k - 1] PROVE a[k] = b[k]
  <2>1. k \in 1 .. Len(s) /\ k \in 1 .. Len(t) /\ s[k] = t[k]
    OBVIOUS
  <2>2. a[k] = IF s[k].mark \in marks THEN Append(a[k - 1], s[k].line) ELSE a[k - 1]
    BY <2>1, LinesAt
  <2>3. b[k] = IF t[k].mark \in marks THEN Append(b[k - 1], t[k].line) ELSE b[k - 1]
    BY <2>1, LinesAt
  <2> HIDE DEF a, b
  <2> QED BY <1>2, <2>1, <2>2, <2>3
<1> HIDE DEF a, b
<1>3. ASSUME NEW k \in Nat, k \in S PROVE k + 1 \in S
  <2> SUFFICES ASSUME k + 1 <= n PROVE a[k + 1] = b[k + 1]
    OBVIOUS
  <2>1. k + 1 \in 1 .. n /\ (k + 1) - 1 = k /\ a[k] = b[k]
    BY <1>3
  <2> QED BY <1>2, <2>1
<1>4. Nat \subseteq S
  <2> HIDE DEF S
  <2> QED BY <1>1, <1>3, UpFrom0
<1>5. a[n] = b[n]
  BY <1>4
<1> QED BY <1>5 DEF a, b

\* An operation more, at the end.
LEMMA LinesOfAppend ==
  ASSUME NEW s \in Seq(OpSet), NEW op \in OpSet, NEW marks
  PROVE  /\ Append(s, op) \in Seq(OpSet)
         /\ op.mark \in marks => LinesOf(Append(s, op), marks) = Append(LinesOf(s, marks), op.line)
         /\ op.mark \notin marks => LinesOf(Append(s, op), marks) = LinesOf(s, marks)
<1> DEFINE all == Append(s, op)
           n == Len(s)
<1>1. /\ all \in Seq(OpSet) /\ Len(all) = n + 1 /\ all[n + 1] = op /\ n \in Nat
      /\ \A k \in 1 .. n : all[k] = s[k]
  OBVIOUS
<1> HIDE DEF all
<1>2. LinesTable(all, marks)[n] = LinesTable(s, marks)[n]
  <2>1. n <= Len(s) /\ n <= Len(all)
    BY <1>1
  <2> QED BY <1>1, <2>1, SamePrefix
<1>3. LinesOf(s, marks) = LinesTable(s, marks)[n]
  BY LinesAt
<1>4. LinesOf(all, marks) = LinesTable(all, marks)[n + 1]
  BY <1>1, LinesAt
<1>5. LinesTable(all, marks)[n + 1] = IF op.mark \in marks THEN Append(LinesTable(all, marks)[n], op.line)
                                      ELSE LinesTable(all, marks)[n]
  <2>1. n + 1 \in 1 .. Len(all) /\ (n + 1) - 1 = n
    BY <1>1
  <2>2. LinesTable(all, marks)[n + 1] = IF all[n + 1].mark \in marks
                                        THEN Append(LinesTable(all, marks)[(n + 1) - 1], all[n + 1].line)
                                        ELSE LinesTable(all, marks)[(n + 1) - 1]
    BY <1>1, <2>1, LinesAt
  <2> QED BY <1>1, <2>1, <2>2
<1> HIDE DEF n
<1>6. /\ op.mark \in marks => LinesOf(all, marks) = Append(LinesOf(s, marks), op.line)
      /\ op.mark \notin marks => LinesOf(all, marks) = LinesOf(s, marks)
  BY <1>2, <1>3, <1>4, <1>5
<1> QED BY <1>1, <1>6 DEF all

-----------------------------------------------------------------------------
(***************************************************************************)
(* A script edits one text into another with so many lines kept: it leaves *)
(* the first without its additions, the second without its drops, and      *)
(* every line it does not keep is a change.                                *)
(***************************************************************************)

\* s makes v of u and keeps l lines.
Edits(s, u, v, l) ==
  /\ s \in Seq(OpSet)
  /\ LinesOf(s, {"keep", "drop"}) = u
  /\ LinesOf(s, {"keep", "add"}) = v
  /\ Changes(s) \in Nat
  /\ Changes(s) + 2 * l = Len(u) + Len(v)

\* No operation edits no text into no text.
LEMMA EditsNothing == Edits(<<>>, <<>>, <<>>, 0)
<1>0. <<>> \in Seq(OpSet) /\ Len(<<>>) = 0
  OBVIOUS
<1>1. \A marks : LinesOf(<<>>, marks) = <<>>
  BY LinesOfNothing
<1>2. Changes(<<>>) = 0
  BY <1>0, <1>1 DEF Changes
<1> QED BY <1>0, <1>1, <1>2 DEF Edits

\* A sequence with one element more in front.
LEMMA ConsLength ==
  ASSUME NEW a \in Nat, NEW u \in Seq(Nat)
  PROVE  /\ Len(<<a>> \o u) = Len(u) + 1 /\ <<>> \o u = u
         /\ Len(u) \in Nat
OBVIOUS

\* One operation more in front: the line it leaves, and whether it is a change.
LEMMA OneMore ==
  ASSUME NEW a \in Nat, NEW mark \in {"keep", "drop", "add"}, NEW s \in Seq(OpSet)
  PROVE  /\ <<Op(mark, a)>> \o s \in Seq(OpSet)
         /\ \A marks : mark \in marks => LinesOf(<<Op(mark, a)>> \o s, marks) = <<a>> \o LinesOf(s, marks)
         /\ \A marks : mark \notin marks => LinesOf(<<Op(mark, a)>> \o s, marks) = LinesOf(s, marks)
         /\ Changes(s) \in Nat
         /\ mark = "keep" => Changes(<<Op(mark, a)>> \o s) = Changes(s)
         /\ mark # "keep" => Changes(<<Op(mark, a)>> \o s) = Changes(s) + 1
<1> DEFINE op == Op(mark, a)
<1>1. op \in OpSet /\ op.mark = mark /\ op.line = a
  BY DEF OpSet, Op
<1> HIDE DEF op
<1>2. <<op>> \o s \in Seq(OpSet)
  BY <1>1, LinesOfCons
<1>3. ASSUME NEW marks, mark \in marks PROVE LinesOf(<<op>> \o s, marks) = <<a>> \o LinesOf(s, marks)
  <2>1. LinesOf(<<op>> \o s, marks) = <<op.line>> \o LinesOf(s, marks)
    BY <1>1, <1>3, LinesOfCons
  <2> QED BY <1>1, <2>1
<1>4. ASSUME NEW marks, mark \notin marks PROVE LinesOf(<<op>> \o s, marks) = LinesOf(s, marks)
  BY <1>1, <1>4, LinesOfCons
<1> DEFINE l == LinesOf(s, {"drop", "add"})
<1>5. l \in Seq(Nat)
  BY LinesAreLines
<1>6. Changes(s) = Len(l)
  BY DEF Changes
<1>7. mark = "keep" => LinesOf(<<op>> \o s, {"drop", "add"}) = l
  BY <1>4
<1>8. mark # "keep" => LinesOf(<<op>> \o s, {"drop", "add"}) = <<a>> \o l
  BY <1>3
<1> HIDE DEF l
<1>9. Len(l) \in Nat /\ Len(<<a>> \o l) = Len(l) + 1
  BY <1>5, ConsLength
<1>10. /\ mark = "keep" => Changes(<<op>> \o s) = Changes(s)
       /\ mark # "keep" => Changes(<<op>> \o s) = Changes(s) + 1
  BY <1>6, <1>7, <1>8, <1>9 DEF Changes
<1> QED BY <1>2, <1>3, <1>4, <1>6, <1>9, <1>10 DEF op

\* The sums do not depend on what is counted.
LEMMA CountsAdd ==
  ASSUME NEW c \in Nat, NEW l \in Nat, NEW p \in Nat, NEW q \in Nat, c + 2 * l = p + q
  PROVE  /\ c + 2 * (l + 1) = (p + 1) + (q + 1)
         /\ (c + 1) + 2 * l = (p + 1) + q /\ (c + 1) + 2 * l = p + (q + 1) /\ c + 1 \in Nat
OBVIOUS

\* One operation more in front: kept, dropped or added.
LEMMA EditsCons ==
  ASSUME NEW a \in Nat, NEW s, NEW u \in Seq(Nat), NEW v \in Seq(Nat), NEW l \in Nat, Edits(s, u, v, l)
  PROVE  /\ Edits(Put(Op("keep", a), s), Put(a, u), Put(a, v), l + 1)
         /\ Edits(Put(Op("drop", a), s), Put(a, u), v, l)
         /\ Edits(Put(Op("add", a), s), u, Put(a, v), l)
<1> DEFINE au == <<a>> \o u
           av == <<a>> \o v
<1>1. /\ s \in Seq(OpSet) /\ Changes(s) \in Nat /\ Changes(s) + 2 * l = Len(u) + Len(v)
      /\ LinesOf(s, {"keep", "drop"}) = u /\ LinesOf(s, {"keep", "add"}) = v
  BY DEF Edits
<1>2. Len(au) = Len(u) + 1 /\ Len(av) = Len(v) + 1 /\ Len(u) \in Nat /\ Len(v) \in Nat
  BY ConsLength
<1>n. /\ Changes(s) + 2 * (l + 1) = Len(au) + Len(av)
      /\ (Changes(s) + 1) + 2 * l = Len(au) + Len(v) /\ (Changes(s) + 1) + 2 * l = Len(u) + Len(av)
      /\ Changes(s) + 1 \in Nat
  <2> HIDE DEF au, av
  <2>1. PICK n \in Nat, p \in Nat, q \in Nat :
          n = Changes(s) /\ p = Len(u) /\ q = Len(v) /\ Len(au) = p + 1 /\ Len(av) = q + 1
    BY <1>1, <1>2, Zenon
  <2>2. n + 2 * l = p + q
    BY <1>1, <2>1, Zenon
  <2>3. /\ n + 2 * (l + 1) = (p + 1) + (q + 1)
        /\ (n + 1) + 2 * l = (p + 1) + q /\ (n + 1) + 2 * l = p + (q + 1) /\ n + 1 \in Nat
    BY <2>2, CountsAdd
  <2> QED BY <2>1, <2>3, Zenon
<1>m. \A mark \in {"keep", "drop", "add"} :
        /\ <<Op(mark, a)>> \o s \in Seq(OpSet)
        /\ \A marks : mark \in marks => LinesOf(<<Op(mark, a)>> \o s, marks) = <<a>> \o LinesOf(s, marks)
        /\ \A marks : mark \notin marks => LinesOf(<<Op(mark, a)>> \o s, marks) = LinesOf(s, marks)
        /\ mark = "keep" => Changes(<<Op(mark, a)>> \o s) = Changes(s)
        /\ mark # "keep" => Changes(<<Op(mark, a)>> \o s) = Changes(s) + 1
  BY <1>1, OneMore, ZenonT(40)
<1>3. Edits(<<Op("keep", a)>> \o s, au, av, l + 1)
  <2> DEFINE all == <<Op("keep", a)>> \o s
  <2>1. /\ all \in Seq(OpSet) /\ Changes(all) = Changes(s)
        /\ LinesOf(all, {"keep", "drop"}) = au
        /\ LinesOf(all, {"keep", "add"}) = av
    BY <1>1, <1>m
  <2> HIDE DEF all, au, av
  <2>2. Changes(s) + 2 * (l + 1) = Len(au) + Len(av)
    BY <1>n
  <2>3. Edits(all, au, av, l + 1)
    BY <1>1, <2>1, <2>2 DEF Edits
  <2> QED BY <2>3 DEF all
<1>4. Edits(<<Op("drop", a)>> \o s, au, v, l)
  <2> DEFINE all == <<Op("drop", a)>> \o s
  <2>1. /\ all \in Seq(OpSet) /\ Changes(all) = Changes(s) + 1
        /\ LinesOf(all, {"keep", "drop"}) = au
        /\ LinesOf(all, {"keep", "add"}) = v
    BY <1>1, <1>m
  <2> HIDE DEF all, au, av
  <2>2. (Changes(s) + 1) + 2 * l = Len(au) + Len(v) /\ Changes(s) + 1 \in Nat
    BY <1>n
  <2>3. Edits(all, au, v, l)
    BY <1>1, <2>1, <2>2 DEF Edits
  <2> QED BY <2>3 DEF all
<1>5. Edits(<<Op("add", a)>> \o s, u, av, l)
  <2> DEFINE all == <<Op("add", a)>> \o s
  <2>1. /\ all \in Seq(OpSet) /\ Changes(all) = Changes(s) + 1
        /\ LinesOf(all, {"keep", "drop"}) = u
        /\ LinesOf(all, {"keep", "add"}) = av
    BY <1>1, <1>m
  <2> HIDE DEF all, au, av
  <2>2. (Changes(s) + 1) + 2 * l = Len(u) + Len(av) /\ Changes(s) + 1 \in Nat
    BY <1>n
  <2>3. Edits(all, u, av, l)
    BY <1>1, <2>1, <2>2 DEF Edits
  <2> QED BY <2>3 DEF all
<1> QED BY <1>3, <1>4, <1>5 DEF Put

\* What is left of a text from its i-th line on.
From(x, i) == SubSeq(x, i, Len(x))

\* What is left from the first line on, and past the last.
LEMMA FromAt ==
  ASSUME NEW x \in Seq(Nat), NEW i \in 1 .. Len(x) + 1
  PROVE  /\ From(x, i) \in Seq(Nat)
         /\ i > Len(x) => From(x, i) = <<>>
         /\ i <= Len(x) => x[i] \in Nat /\ From(x, i) = Put(x[i], From(x, i + 1))
<1>1. i \in Int /\ Len(x) \in Int /\ Len(x) \in Nat
  OBVIOUS
<1>2. From(x, i) \in Seq(Nat)
  BY <1>1 DEF From
<1>3. i > Len(x) => From(x, i) = <<>>
  BY <1>1, SubSeqEmpty DEF From
<1>4. ASSUME i <= Len(x) PROVE x[i] \in Nat /\ From(x, i) = Put(x[i], From(x, i + 1))
  <2>1. i \in 1 .. Len(x)
    BY <1>4
  <2>2. x[i] \in Nat
    BY <2>1
  <2>3. From(x, i) = Put(x[i], From(x, i + 1))
    BY <2>1, SubSeqRecursiveFirst DEF From, Put
  <2> QED BY <2>2, <2>3
<1> QED BY <1>2, <1>3, <1>4

\* A line, then what is left after it.
LEMMA FromLine ==
  ASSUME NEW x \in Seq(Nat), NEW i \in 1 .. Len(x) + 1, i <= Len(x)
  PROVE  /\ x[i] \in Nat /\ From(x, i) = Put(x[i], From(x, i + 1)) /\ From(x, i + 1) \in Seq(Nat)
         /\ i + 1 \in 1 .. Len(x) + 1
<1>1. i + 1 \in 1 .. Len(x) + 1
  OBVIOUS
<1>2. From(x, i + 1) \in Seq(Nat)
  BY <1>1, FromAt
<1>3. x[i] \in Nat /\ From(x, i) = Put(x[i], From(x, i + 1))
  BY FromAt
<1> QED BY <1>1, <1>2, <1>3

\* The script of a position edits what is left of the texts.
EditsFrom(x, y, i, j) == Edits(ScriptTable(x, y)[<<i, j>>], From(x, i), From(y, j), Lcs(x, y)[<<i, j>>])

\* It does if those of later positions do.
LEMMA EditsFromLater ==
  ASSUME NEW x \in Seq(Nat), NEW y \in Seq(Nat), NEW i \in 1 .. Len(x) + 1, NEW j \in 1 .. Len(y) + 1,
         i <= Len(x) /\ j <= Len(y) => EditsFrom(x, y, i + 1, j + 1),
         i <= Len(x) => EditsFrom(x, y, i + 1, j),
         j <= Len(y) => EditsFrom(x, y, i, j + 1)
  PROVE  EditsFrom(x, y, i, j)
<1> DEFINE t == ScriptTable(x, y)
           lcs == Lcs(x, y)
<1>1. Len(x) \in Nat /\ Len(y) \in Nat
  OBVIOUS
<1>2. /\ From(x, i) \in Seq(Nat) /\ From(y, j) \in Seq(Nat)
      /\ i > Len(x) => From(x, i) = <<>>
      /\ j > Len(y) => From(y, j) = <<>>
  BY FromAt
<1>3. i <= Len(x) => /\ x[i] \in Nat /\ From(x, i) = Put(x[i], From(x, i + 1)) /\ From(x, i + 1) \in Seq(Nat)
                     /\ i + 1 \in 1 .. Len(x) + 1
  BY FromLine
<1>4. j <= Len(y) => /\ y[j] \in Nat /\ From(y, j) = Put(y[j], From(y, j + 1)) /\ From(y, j + 1) \in Seq(Nat)
                     /\ j + 1 \in 1 .. Len(y) + 1
  BY FromLine
<1>5. CASE i > Len(x) /\ j > Len(y)
  <2>1. ScriptTable(x, y)[<<i, j>>] = <<>> /\ Lcs(x, y)[<<i, j>>] = 0
    <3>1. Len(x) \in Nat /\ Len(y) \in Nat /\ i \in 1 .. Len(x) + 1 /\ j \in 1 .. Len(y) + 1
      BY <1>1
    <3> QED BY <3>1, <1>5, AtTheEnd
  <2> QED BY <1>2, <1>5, <2>1, EditsNothing DEF EditsFrom
<1>6. CASE Keeps(x, y, i, j)
  <2>1. i <= Len(x) /\ j <= Len(y) /\ x[i] = y[j]
    BY <1>6 DEF Keeps
  <2>2. t[<<i, j>>] = Put(Op("keep", x[i]), t[<<i + 1, j + 1>>]) /\ lcs[<<i, j>>] = lcs[<<i + 1, j + 1>>] + 1
    BY <1>1, <1>6, AtKept
  <2>3. lcs[<<i + 1, j + 1>>] \in Nat
    BY <1>1, <1>3, <1>4, <2>1, LcsEnds
  <2>4. Edits(t[<<i + 1, j + 1>>], From(x, i + 1), From(y, j + 1), lcs[<<i + 1, j + 1>>])
    BY <2>1 DEF EditsFrom
  <2> HIDE DEF t, lcs
  <2>5. Edits(Put(Op("keep", x[i]), t[<<i + 1, j + 1>>]), Put(x[i], From(x, i + 1)), Put(x[i], From(y, j + 1)),
              lcs[<<i + 1, j + 1>>] + 1)
    BY <1>3, <1>4, <2>1, <2>3, <2>4, EditsCons
  <2>6. Edits(t[<<i, j>>], From(x, i), From(y, j), lcs[<<i, j>>])
    BY <1>3, <1>4, <2>1, <2>2, <2>5
  <2> QED BY <2>6 DEF EditsFrom, t, lcs
<1>7. CASE ~(i > Len(x) /\ j > Len(y)) /\ ~Keeps(x, y, i, j) /\ Drops(x, y, i, j)
  <2>1. i <= Len(x)
    BY <1>7 DEF Drops
  <2>2. t[<<i, j>>] = Put(Op("drop", x[i]), t[<<i + 1, j>>]) /\ lcs[<<i, j>>] = lcs[<<i + 1, j>>]
    BY <1>1, <1>7, AtDropped
  <2>3. lcs[<<i + 1, j>>] \in Nat
    BY <1>1, <1>3, <2>1, LcsEnds
  <2>4. Edits(t[<<i + 1, j>>], From(x, i + 1), From(y, j), lcs[<<i + 1, j>>])
    BY <2>1 DEF EditsFrom
  <2> HIDE DEF t, lcs
  <2>5. Edits(Put(Op("drop", x[i]), t[<<i + 1, j>>]), Put(x[i], From(x, i + 1)), From(y, j), lcs[<<i + 1, j>>])
    BY <1>2, <1>3, <2>1, <2>3, <2>4, EditsCons
  <2>6. Edits(t[<<i, j>>], From(x, i), From(y, j), lcs[<<i, j>>])
    BY <1>3, <2>1, <2>2, <2>5
  <2> QED BY <2>6 DEF EditsFrom, t, lcs
<1>8. CASE ~(i > Len(x) /\ j > Len(y)) /\ ~Keeps(x, y, i, j) /\ ~Drops(x, y, i, j)
  <2>1. j <= Len(y)
    BY <1>1, <1>8 DEF Drops
  <2>2. t[<<i, j>>] = Put(Op("add", y[j]), t[<<i, j + 1>>]) /\ lcs[<<i, j>>] = lcs[<<i, j + 1>>]
    BY <1>1, <1>8, AtAdded
  <2>3. lcs[<<i, j + 1>>] \in Nat
    BY <1>1, <1>4, <2>1, LcsEnds
  <2>4. Edits(t[<<i, j + 1>>], From(x, i), From(y, j + 1), lcs[<<i, j + 1>>])
    BY <2>1 DEF EditsFrom
  <2> HIDE DEF t, lcs
  <2>5. Edits(Put(Op("add", y[j]), t[<<i, j + 1>>]), From(x, i), Put(y[j], From(y, j + 1)), lcs[<<i, j + 1>>])
    BY <1>2, <1>4, <2>1, <2>3, <2>4, EditsCons
  <2>6. Edits(t[<<i, j>>], From(x, i), From(y, j), lcs[<<i, j>>])
    BY <1>4, <2>1, <2>2, <2>5
  <2> QED BY <2>6 DEF EditsFrom, t, lcs
<1> QED BY <1>5, <1>6, <1>7, <1>8

\* The whole script edits the live text into the rendered one.
LEMMA ScriptEdits ==
  ASSUME NEW x \in Seq(Nat), NEW y \in Seq(Nat)
  PROVE  Edits(EditScript(x, y), x, y, Lcs(x, y)[<<1, 1>>])
<1> DEFINE m == Len(x)
           l == Len(y)
           S == {p \in Positions(x, y) : EditsFrom(x, y, p[1], p[2])}
<1>1. m \in Nat /\ l \in Nat
  OBVIOUS
<1>2. ASSUME NEW i \in 1 .. m + 1, NEW j \in 1 .. l + 1,
             \A a \in i .. m + 1, b \in j .. l + 1 : i + j < a + b => <<a, b>> \in S
      PROVE  <<i, j>> \in S
  <2>1. i <= m /\ j <= l => EditsFrom(x, y, i + 1, j + 1)
    <3>1. i <= m /\ j <= l => <<i + 1, j + 1>> \in S
      <4> HIDE DEF S, m, l
      <4> QED BY <1>1, <1>2
    <3> QED BY <3>1
  <2>2. i <= m => EditsFrom(x, y, i + 1, j)
    <3>1. i <= m => <<i + 1, j>> \in S
      <4> HIDE DEF S, m, l
      <4> QED BY <1>1, <1>2
    <3> QED BY <3>1
  <2>3. j <= l => EditsFrom(x, y, i, j + 1)
    <3>1. j <= l => <<i, j + 1>> \in S
      <4> HIDE DEF S, m, l
      <4> QED BY <1>1, <1>2
    <3> QED BY <3>1
  <2>4. EditsFrom(x, y, i, j)
    BY <2>1, <2>2, <2>3, EditsFromLater
  <2>5. <<i, j>> \in Positions(x, y)
    BY DEF Positions
  <2> QED BY <2>4, <2>5
<1>3. \A i \in 1 .. m + 1, j \in 1 .. l + 1 : <<i, j>> \in S
  <2> HIDE DEF S, m, l
  <2> QED BY <1>1, <1>2, FromTheEnds
<1>4. EditsFrom(x, y, 1, 1)
  <2>1. <<1, 1>> \in S
    <3> HIDE DEF S
    <3> QED BY <1>1, <1>3
  <2> QED BY <2>1
<1>5. From(x, 1) = x /\ From(y, 1) = y
  BY SubSeqFull DEF From
<1>6. EditScript(x, y) = ScriptTable(x, y)[<<1, 1>>]
  BY ScriptIs DEF ScriptTable
<1> QED BY <1>4, <1>5, <1>6 DEF EditsFrom

(***************************************************************************)
(* The edit script of two texts turns the first into the second, and no    *)
(* script has fewer changes: a common subsequence z makes one with Len(x)  *)
(* + Len(y) - 2 * Len(z) (lineDiff: "a minimal LCS line diff").            *)
(***************************************************************************)
THEOREM EditScriptIsShortest ==
  ASSUME NEW x \in Seq(Nat), NEW y \in Seq(Nat)
  PROVE  LET ops == EditScript(x, y)
         IN /\ LinesOf(ops, {"keep", "drop"}) = x
            /\ LinesOf(ops, {"keep", "add"}) = y
            /\ \A z \in Seq(Nat) :
                 IsSubsequence(z, x) /\ IsSubsequence(z, y) => Changes(ops) + 2 * Len(z) <= Len(x) + Len(y)
<1> DEFINE ops == EditScript(x, y)
           l == Lcs(x, y)[<<1, 1>>]
<1>1. Len(x) \in Nat /\ Len(y) \in Nat /\ 1 \in 1 .. Len(x) + 1 /\ 1 \in 1 .. Len(y) + 1
  OBVIOUS
<1>2. l \in Nat
  BY <1>1, LcsEnds
<1>3. Edits(ops, x, y, l)
  BY ScriptEdits
<1>4. ASSUME NEW z \in Seq(Nat), IsSubsequence(z, x), IsSubsequence(z, y) PROVE Len(z) <= l /\ Len(z) \in Nat
  <2>1. PICK f, g : Embeds(x, y, 1, 1, Len(z), f, g)
    BY <1>4, CommonEmbeds
  <2>2. Len(z) \in Nat
    OBVIOUS
  <2> QED BY <1>1, <2>1, <2>2, NoneIsLonger
<1> HIDE DEF ops, l
<1>5. Changes(ops) \in Nat /\ Changes(ops) + 2 * l = Len(x) + Len(y)
  BY <1>3 DEF Edits
<1>6. \A n \in Nat : n <= l => Changes(ops) + 2 * n <= Len(x) + Len(y)
  <2>1. \A c, m, s \in Nat : c + 2 * l = m + s => \A n \in Nat : n <= l => c + 2 * n <= m + s
    BY <1>2
  <2> QED BY <1>1, <1>5, <2>1, Zenon
<1>7. LinesOf(ops, {"keep", "drop"}) = x /\ LinesOf(ops, {"keep", "add"}) = y
  BY <1>3 DEF Edits
<1> QED BY <1>4, <1>6, <1>7 DEF ops

-----------------------------------------------------------------------------
(***************************************************************************)
(* What is printed of a script, operation by operation.                    *)
(***************************************************************************)

\* A table of what the first k operations print.
IsPrinted(ops, g) ==
  g = [k \in 0 .. Len(ops) |->
         IF k = 0 THEN <<>>
         ELSE IF Near(ops, k) THEN Append(g[k - 1], ops[k])
         ELSE IF g[k - 1] # <<>> /\ g[k - 1][Len(g[k - 1])] = Gap THEN g[k - 1]
         ELSE Append(g[k - 1], Gap)]

\* FormatOps reads its last entry.
LEMMA PrintedIs ==
  ASSUME NEW ops
  PROVE  FormatOps(ops) = (CHOOSE g : IsPrinted(ops, g))[Len(ops)]
BY SMT DEF FormatOps, IsPrinted

\* What is printed of the first k operations.
PrintedTable(ops) == CHOOSE g : IsPrinted(ops, g)

\* There is one.
LEMMA PrintedExists ==
  ASSUME NEW ops, Len(ops) \in Nat
  PROVE  \E g : IsPrinted(ops, g)
<1> DEFINE Line(g, k) == IF k = 0 THEN <<>>
                         ELSE IF Near(ops, k) THEN Append(g[k - 1], ops[k])
                         ELSE IF g[k - 1] # <<>> /\ g[k - 1][Len(g[k - 1])] = Gap THEN g[k - 1]
                         ELSE Append(g[k - 1], Gap)
           Right(g, n) == \A k \in 0 .. Len(ops) : k <= n => g[k] = Line(g, k)
           D == {n \in Nat : \E g : Right(g, n)}
           Again(g) == [k \in 0 .. Len(ops) |-> Line(g, k)]
<1>1. ASSUME NEW n \in Nat, NEW g, \A k \in 0 .. Len(ops) : k < n => g[k] = Line(g, k) PROVE Right(Again(g), n)
  <2> SUFFICES ASSUME NEW k \in 0 .. Len(ops), k <= n PROVE Line(g, k) = Line(Again(g), k)
    OBVIOUS
  <2>1. k # 0 => Again(g)[k - 1] = g[k - 1]
    BY <1>1
  <2> HIDE DEF Again
  <2> QED BY <2>1
<1> HIDE DEF Again, Line
<1>2. 0 \in D
  <2>1. \A k \in 0 .. Len(ops) : k < 0 => 0[k] = Line(0, k)
    OBVIOUS
  <2>2. Right(Again(0), 0)
    <3> HIDE DEF Right
    <3> QED BY <1>1, <2>1
  <2> QED BY <2>2
<1>3. ASSUME NEW n \in Nat, n \in D PROVE n + 1 \in D
  <2>1. PICK g : Right(g, n)
    BY <1>3
  <2>2. \A k \in 0 .. Len(ops) : k < n + 1 => g[k] = Line(g, k)
    BY <2>1
  <2>3. Right(Again(g), n + 1)
    <3> HIDE DEF Right
    <3> QED BY <1>1, <2>2
  <2> QED BY <2>3
<1>4. Nat \subseteq D
  <2> HIDE DEF D
  <2> QED BY <1>2, <1>3, UpFrom0
<1>5. PICK g : Right(g, Len(ops))
  BY <1>4
<1>6. Again(g) = Again(Again(g))
  <2>1. \A k \in 0 .. Len(ops) : k < Len(ops) + 1 => g[k] = Line(g, k)
    BY <1>5
  <2>2. Right(Again(g), Len(ops) + 1)
    <3> HIDE DEF Right
    <3> QED BY <1>1, <2>1
  <2>3. \A k \in 0 .. Len(ops) : Again(g)[k] = Line(Again(g), k)
    BY <2>2
  <2>4. \A k \in 0 .. Len(ops) : Again(g)[k] = Line(g, k)
    BY DEF Again
  <2> QED BY <2>3, <2>4 DEF Again
<1>7. \A h : Again(h) = h => IsPrinted(ops, h)
  BY DEF Again, Line, IsPrinted
<1> QED BY <1>6, <1>7

\* What the k-th operation prints after out.
LineAfter(ops, out, k) ==
  IF Near(ops, k) THEN Append(out, ops[k])
  ELSE IF out # <<>> /\ out[Len(out)] = Gap THEN out
  ELSE Append(out, Gap)

\* And FormatOps is what its entries say.
LEMMA PrintedAt ==
  ASSUME NEW ops \in Seq(OpSet)
  PROVE  /\ PrintedTable(ops)[0] = <<>>
         /\ \A k \in 1 .. Len(ops) : PrintedTable(ops)[k] = LineAfter(ops, PrintedTable(ops)[k - 1], k)
         /\ FormatOps(ops) = PrintedTable(ops)[Len(ops)]
<1>1. Len(ops) \in Nat
  OBVIOUS
<1>2. IsPrinted(ops, PrintedTable(ops))
  BY <1>1, PrintedExists DEF PrintedTable
<1>3. FormatOps(ops) = PrintedTable(ops)[Len(ops)]
  BY PrintedIs DEF PrintedTable
<1>4. ASSUME NEW g, IsPrinted(ops, g)
      PROVE  g[0] = <<>> /\ \A k \in 1 .. Len(ops) : g[k] = LineAfter(ops, g[k - 1], k)
  <2>1. g[0] = <<>>
    <3>1. 0 \in 0 .. Len(ops)
      BY <1>1
    <3> QED BY <1>4, <3>1 DEF IsPrinted
  <2>2. ASSUME NEW k \in 1 .. Len(ops) PROVE g[k] = LineAfter(ops, g[k - 1], k)
    <3>1. k \in 0 .. Len(ops) /\ k # 0
      OBVIOUS
    <3> QED BY <1>4, <3>1 DEF IsPrinted, LineAfter
  <2> QED BY <2>1, <2>2
<1> QED BY <1>2, <1>3, <1>4

\* Operations are printed.
LEMMA LineAfterType ==
  ASSUME NEW ops \in Seq(OpSet), NEW out \in Seq(OpSet), NEW k \in 1 .. Len(ops)
  PROVE  LineAfter(ops, out, k) \in Seq(OpSet)
<1>1. ops[k] \in OpSet
  OBVIOUS
<1>2. Gap \in OpSet
  BY DEF Gap, Op, OpSet
<1> QED BY <1>1, <1>2 DEF LineAfter

\* Up to every operation.
LEMMA PrintedType ==
  ASSUME NEW ops \in Seq(OpSet)
  PROVE  \A k \in 0 .. Len(ops) : PrintedTable(ops)[k] \in Seq(OpSet)
<1> DEFINE t == PrintedTable(ops)
           n == Len(ops)
           S == {k \in Nat : k <= n => t[k] \in Seq(OpSet)}
<1>0. n \in Nat
  OBVIOUS
<1>1. 0 \in S
  <2>1. <<>> \in Seq(OpSet)
    OBVIOUS
  <2> QED BY <2>1, PrintedAt
<1>2. ASSUME NEW k \in 1 .. n, t[k - 1] \in Seq(OpSet) PROVE t[k] \in Seq(OpSet)
  <2>1. LineAfter(ops, t[k - 1], k) \in Seq(OpSet)
    BY <1>2, LineAfterType
  <2> QED BY <2>1, PrintedAt
<1> HIDE DEF t, n
<1>3. ASSUME NEW k \in Nat, k \in S PROVE k + 1 \in S
  <2> SUFFICES ASSUME k + 1 <= n PROVE t[k + 1] \in Seq(OpSet)
    OBVIOUS
  <2>1. k + 1 \in 1 .. n /\ (k + 1) - 1 = k /\ t[k] \in Seq(OpSet)
    BY <1>0, <1>3
  <2> QED BY <1>2, <2>1
<1>4. Nat \subseteq S
  <2> HIDE DEF S
  <2> QED BY <1>1, <1>3, UpFrom0
<1>5. \A k \in 0 .. n : t[k] \in Seq(OpSet)
  BY <1>0, <1>4
<1> QED BY <1>5 DEF t, n

\* One more operation, printed or not: a change always is.
LEMMA LineAfterLines ==
  ASSUME NEW ops \in Seq(OpSet), NEW out \in Seq(OpSet), NEW k \in 1 .. Len(ops), NEW marks \in {{"drop"}, {"add"}}
  PROVE  LinesOf(LineAfter(ops, out, k), marks)
           = IF ops[k].mark \in marks THEN Append(LinesOf(out, marks), ops[k].line) ELSE LinesOf(out, marks)
<1>1. ops[k] \in OpSet /\ k \in DOMAIN ops /\ k \in Nat
  OBVIOUS
<1>2. Gap \in OpSet /\ Gap.mark = "gap"
  BY DEF Gap, Op, OpSet
<1>3. Gap.mark \notin marks
  BY <1>2
<1>4. CASE Near(ops, k)
  <2>1. LineAfter(ops, out, k) = Append(out, ops[k])
    BY <1>4 DEF LineAfter
  <2> QED BY <1>1, <2>1, LinesOfAppend
<1>5. CASE ~Near(ops, k)
  <2>1. ~IsChange(ops[k])
    <3>1. k <= k + Context
      BY <1>1 DEF Context
    <3> QED BY <1>1, <1>5, <3>1 DEF Near
  <2>2. ops[k].mark \notin marks
    BY <2>1 DEF IsChange
  <2>3. LineAfter(ops, out, k) = out \/ LineAfter(ops, out, k) = Append(out, Gap)
    BY <1>5 DEF LineAfter
  <2>4. LinesOf(Append(out, Gap), marks) = LinesOf(out, marks)
    BY <1>2, <1>3, LinesOfAppend
  <2> QED BY <2>2, <2>3, <2>4
<1> QED BY <1>4, <1>5

\* The lines dropped, or added, are all printed.
LEMMA PrintedLines ==
  ASSUME NEW ops \in Seq(OpSet), NEW marks \in {{"drop"}, {"add"}}
  PROVE  LinesOf(FormatOps(ops), marks) = LinesOf(ops, marks)
<1> DEFINE t == PrintedTable(ops)
           l == LinesTable(ops, marks)
           n == Len(ops)
           S == {k \in Nat : k <= n => LinesOf(t[k], marks) = l[k]}
<1>0. n \in Nat
  OBVIOUS
<1>1. LinesOf(t[0], marks) = l[0]
  <2>1. <<>> \in Seq(OpSet) /\ Len(<<>>) = 0
    OBVIOUS
  <2>2. LinesOf(<<>>, marks) = LinesTable(<<>>, marks)[0] /\ LinesTable(<<>>, marks)[0] = <<>>
    BY <2>1, LinesAt
  <2>3. t[0] = <<>> /\ l[0] = <<>>
    BY PrintedAt, LinesAt
  <2> QED BY <2>2, <2>3
<1>2. ASSUME NEW k \in 1 .. n, LinesOf(t[k - 1], marks) = l[k - 1] PROVE LinesOf(t[k], marks) = l[k]
  <2>1. k - 1 \in 0 .. n
    BY <1>0
  <2>2. t[k - 1] \in Seq(OpSet) /\ t[k] = LineAfter(ops, t[k - 1], k)
    BY <2>1, PrintedType, PrintedAt
  <2>3. l[k] = IF ops[k].mark \in marks THEN Append(l[k - 1], ops[k].line) ELSE l[k - 1]
    BY LinesAt
  <2>4. LinesOf(LineAfter(ops, t[k - 1], k), marks)
          = IF ops[k].mark \in marks THEN Append(LinesOf(t[k - 1], marks), ops[k].line) ELSE LinesOf(t[k - 1], marks)
    BY <2>2, LineAfterLines
  <2> HIDE DEF t, l
  <2> QED BY <1>2, <2>2, <2>3, <2>4
<1>3. LinesOf(FormatOps(ops), marks) = LinesOf(t[n], marks) /\ LinesOf(ops, marks) = l[n]
  BY PrintedAt, LinesAt
<1> HIDE DEF t, l, n
<1>4. 0 \in S
  BY <1>1
<1>5. ASSUME NEW k \in Nat, k \in S PROVE k + 1 \in S
  <2> SUFFICES ASSUME k + 1 <= n PROVE LinesOf(t[k + 1], marks) = l[k + 1]
    OBVIOUS
  <2>1. k + 1 \in 1 .. n /\ (k + 1) - 1 = k /\ LinesOf(t[k], marks) = l[k]
    BY <1>0, <1>5
  <2> QED BY <1>2, <2>1
<1>6. Nat \subseteq S
  <2> HIDE DEF S
  <2> QED BY <1>4, <1>5, UpFrom0
<1>7. LinesOf(t[n], marks) = l[n]
  BY <1>0, <1>6
<1> QED BY <1>3, <1>7

-----------------------------------------------------------------------------
(***************************************************************************)
(* A section drops and adds what its texts differ by: as many of a line as *)
(* the script, which keeps the rest.                                       *)
(***************************************************************************)

\* A line is in a text some number of times,
LEMMA CountOf ==
  ASSUME NEW l, NEW t \in Seq(Nat)
  PROVE  Count(l, t) \in Nat /\ IsFiniteSet({i \in DOMAIN t : t[i] = l})
<1>1. IsFiniteSet(1 .. Len(t))
  BY FS_Interval
<1>2. {i \in DOMAIN t : t[i] = l} \subseteq 1 .. Len(t)
  OBVIOUS
<1>3. IsFiniteSet({i \in DOMAIN t : t[i] = l})
  BY <1>1, <1>2, FS_Subset
<1> QED BY <1>3, FS_CardinalityType DEF Count

\* once more with the line at its end.
LEMMA CountOfAppend ==
  ASSUME NEW l, NEW t \in Seq(Nat), NEW e \in Nat
  PROVE  /\ e = l => Count(l, Append(t, e)) = Count(l, t) + 1
         /\ e # l => Count(l, Append(t, e)) = Count(l, t)
<1> DEFINE n == Len(t)
           a == Append(t, e)
           T == {i \in DOMAIN t : t[i] = l}
           A == {i \in DOMAIN a : a[i] = l}
<1>1. /\ n \in Nat /\ DOMAIN t = 1 .. n /\ DOMAIN a = 1 .. n + 1
      /\ a[n + 1] = e /\ \A i \in 1 .. n : a[i] = t[i]
  OBVIOUS
<1>2. IsFiniteSet(T)
  BY CountOf
<1>3. n + 1 \notin T
  BY <1>1
<1> HIDE DEF a, n
<1>4. e = l => A = T \cup {n + 1}
  BY <1>1
<1>5. e # l => A = T
  BY <1>1
<1> HIDE DEF A, T
<1>6. e = l => Cardinality(A) = Cardinality(T) + 1
  BY <1>2, <1>3, <1>4, FS_AddElement
<1>7. Count(l, a) = Cardinality(A) /\ Count(l, t) = Cardinality(T)
  BY DEF Count, A, T
<1> QED BY <1>5, <1>6, <1>7 DEF a

\* A script leaves the kept lines, and those of one other mark.
LEMMA KeptAndChanged ==
  ASSUME NEW ops \in Seq(OpSet), NEW l, NEW mark \in {"drop", "add"}
  PROVE  Count(l, LinesOf(ops, {"keep", mark})) = Count(l, LinesOf(ops, {"keep"})) + Count(l, LinesOf(ops, {mark}))
<1> DEFINE b == LinesTable(ops, {"keep", mark})
           k == LinesTable(ops, {"keep"})
           c == LinesTable(ops, {mark})
           n == Len(ops)
           S == {i \in Nat : i <= n => Count(l, b[i]) = Count(l, k[i]) + Count(l, c[i])}
<1>0. n \in Nat
  OBVIOUS
<1>1. Count(l, b[0]) = Count(l, k[0]) + Count(l, c[0])
  <2>1. b[0] = <<>> /\ k[0] = <<>> /\ c[0] = <<>>
    BY LinesAt
  <2>2. {i \in DOMAIN <<>> : <<>>[i] = l} = {}
    OBVIOUS
  <2>3. Count(l, <<>>) = 0
    BY <2>2, FS_EmptySet DEF Count
  <2> QED BY <2>1, <2>3
<1>2. ASSUME NEW i \in 1 .. n, Count(l, b[i - 1]) = Count(l, k[i - 1]) + Count(l, c[i - 1])
      PROVE  Count(l, b[i]) = Count(l, k[i]) + Count(l, c[i])
  <2>0. i - 1 \in 0 .. n /\ ops[i] \in OpSet
    BY <1>0
  <2>1. /\ b[i] = IF ops[i].mark \in {"keep", mark} THEN Append(b[i - 1], ops[i].line) ELSE b[i - 1]
        /\ k[i] = IF ops[i].mark \in {"keep"} THEN Append(k[i - 1], ops[i].line) ELSE k[i - 1]
        /\ c[i] = IF ops[i].mark \in {mark} THEN Append(c[i - 1], ops[i].line) ELSE c[i - 1]
    BY LinesAt
  <2>2. b[i - 1] \in Seq(Nat) /\ k[i - 1] \in Seq(Nat) /\ c[i - 1] \in Seq(Nat)
    BY <2>0, LinesAreLines
  <2>3. ops[i].line \in Nat
    BY <2>0 DEF OpSet
  <2> HIDE DEF b, k, c
  <2> DEFINE e == ops[i].line
             d == IF e = l THEN 1 ELSE 0
  <2>4. /\ Count(l, Append(b[i - 1], e)) = Count(l, b[i - 1]) + d
        /\ Count(l, Append(k[i - 1], e)) = Count(l, k[i - 1]) + d
        /\ Count(l, Append(c[i - 1], e)) = Count(l, c[i - 1]) + d
        /\ Count(l, b[i - 1]) \in Nat /\ Count(l, k[i - 1]) \in Nat /\ Count(l, c[i - 1]) \in Nat
    <3>1. \A t \in Seq(Nat) : Count(l, Append(t, e)) = Count(l, t) + d /\ Count(l, t) \in Nat
      <4> TAKE t \in Seq(Nat)
      <4>1. Count(l, t) \in Nat
        BY CountOf
      <4>2. CASE e = l
        BY <2>3, <4>1, <4>2, CountOfAppend
      <4>3. CASE e # l
        BY <2>3, <4>1, <4>3, CountOfAppend
      <4> QED BY <4>2, <4>3
    <3> QED BY <2>2, <3>1
  <2>5. d \in Nat
    OBVIOUS
  <2> HIDE DEF d
  <2>6. CASE ops[i].mark = "keep"
    BY <1>2, <2>1, <2>4, <2>5, <2>6
  <2>7. CASE ops[i].mark = mark
    BY <1>2, <2>1, <2>4, <2>5, <2>7, SMTT(40)
  <2>8. CASE ops[i].mark # "keep" /\ ops[i].mark # mark
    BY <1>2, <2>1, <2>8
  <2> QED BY <2>6, <2>7, <2>8
<1>3. /\ LinesOf(ops, {"keep", mark}) = b[n] /\ LinesOf(ops, {"keep"}) = k[n] /\ LinesOf(ops, {mark}) = c[n]
  BY LinesAt
<1> HIDE DEF b, k, c, n
<1>4. 0 \in S
  BY <1>1
<1>5. ASSUME NEW i \in Nat, i \in S PROVE i + 1 \in S
  <2> SUFFICES ASSUME i + 1 <= n PROVE Count(l, b[i + 1]) = Count(l, k[i + 1]) + Count(l, c[i + 1])
    OBVIOUS
  <2>1. i + 1 \in 1 .. n /\ (i + 1) - 1 = i /\ Count(l, b[i]) = Count(l, k[i]) + Count(l, c[i])
    BY <1>0, <1>5
  <2> QED BY <1>2, <2>1
<1>6. Nat \subseteq S
  <2> HIDE DEF S
  <2> QED BY <1>4, <1>5, UpFrom0
<1>7. Count(l, b[n]) = Count(l, k[n]) + Count(l, c[n])
  BY <1>0, <1>6
<1> QED BY <1>3, <1>7

\* The section of two texts drops and adds what they differ by.
LEMMA DiffBalances ==
  ASSUME NEW x \in Seq(Nat), NEW y \in Seq(Nat), NEW l
  PROVE  Count(l, y) + Count(l, LinesOf(LineDiff(x, y), {"drop"}))
           = Count(l, x) + Count(l, LinesOf(LineDiff(x, y), {"add"}))
<1> DEFINE ops == EditScript(x, y)
<1>1. ops \in Seq(OpSet) /\ LinesOf(ops, {"keep", "drop"}) = x /\ LinesOf(ops, {"keep", "add"}) = y
  BY ScriptEdits DEF Edits
<1> HIDE DEF ops
<1>2. LinesOf(FormatOps(ops), {"drop"}) = LinesOf(ops, {"drop"})
  BY <1>1, PrintedLines
<1>3. LinesOf(FormatOps(ops), {"add"}) = LinesOf(ops, {"add"})
  BY <1>1, PrintedLines
<1>4. Count(l, x) = Count(l, LinesOf(ops, {"keep"})) + Count(l, LinesOf(ops, {"drop"}))
  BY <1>1, KeptAndChanged
<1>5. Count(l, y) = Count(l, LinesOf(ops, {"keep"})) + Count(l, LinesOf(ops, {"add"}))
  BY <1>1, KeptAndChanged
<1>6. /\ Count(l, LinesOf(ops, {"keep"})) \in Nat /\ Count(l, LinesOf(ops, {"drop"})) \in Nat
      /\ Count(l, LinesOf(ops, {"add"})) \in Nat
  BY <1>1, LinesAreLines, CountOf
<1>7. LineDiff(x, y) = FormatOps(ops)
  BY DEF LineDiff, ops
<1> QED BY <1>2, <1>3, <1>4, <1>5, <1>6, <1>7

\* The documents of a config are texts.
LEMMA BodiesAreTexts ==
  ASSUME NEW c \in MachineConfigs
  PROVE  \A key \in DOMAIN c : \E k \in Nat : c[key] \in [1 .. k -> Nat]
<1>1. PICK keys \in SUBSET DOMAIN Bodies : c \in [keys -> UNION {Bodies[key] : key \in keys}] /\ \A key \in keys : c[key] \in Bodies[key]
  BY DEF MachineConfigs
<1>2. DOMAIN Bodies = {"v1alpha1", "HostnameConfig"}
  BY DEF Bodies
<1>3. ASSUME NEW b \in Bodies.v1alpha1 PROVE \E k \in Nat : b \in [1 .. k -> Nat]
  <2>1. PICK k \in 1 .. 2 : b \in [1 .. k -> 1 .. 3]
    BY <1>3 DEF Bodies
  <2> QED BY <2>1
<1>4. ASSUME NEW b \in Bodies.HostnameConfig PROVE \E k \in Nat : b \in [1 .. k -> Nat]
  <2>1. b \in [{1} -> 1 .. 2]
    BY <1>4 DEF Bodies
  <2>2. {1} = 1 .. 1
    OBVIOUS
  <2>3. b \in [1 .. 1 -> Nat]
    BY <2>1, <2>2
  <2> QED BY <2>3
<1>5. DOMAIN c = keys
  BY <1>1
<1> HIDE DEF Bodies
<1>6. ASSUME NEW key \in keys PROVE \E k \in Nat : c[key] \in [1 .. k -> Nat]
  <2>1. c[key] \in Bodies[key]
    BY <1>1
  <2>2. CASE key = "v1alpha1"
    BY <1>3, <2>1, <2>2
  <2>3. CASE key = "HostnameConfig"
    BY <1>4, <2>1, <2>3
  <2> QED BY <1>1, <1>2, <2>2, <2>3
<1> QED BY <1>5, <1>6

\* Redacted too.
LEMMA RedactedText ==
  ASSUME NEW c \in MachineConfigs, NEW key
  PROVE  Document(Redact(c), key) \in Seq(Nat)
<1>1. DOMAIN Redact(c) = DOMAIN c
  BY DEF Redact
<1>2. CASE key \in DOMAIN c
  <2>1. PICK k \in Nat : c[key] \in [1 .. k -> Nat]
    BY <1>2, BodiesAreTexts
  <2> DEFINE r == [i \in DOMAIN c[key] |-> IF c[key][i] \in Secrets THEN Redacted ELSE c[key][i]]
  <2>2. Redact(c)[key] = r
    BY <1>2 DEF Redact
  <2>3. r \in [1 .. k -> Nat]
    BY <2>1 DEF Redacted
  <2> HIDE DEF r
  <2>4. r \in Seq(Nat)
    BY <2>3
  <2> QED BY <1>1, <1>2, <2>2, <2>4 DEF Document
<1>3. CASE key \notin DOMAIN c
  <2>1. Document(Redact(c), key) = <<>>
    BY <1>1, <1>3 DEF Document
  <2> QED BY <2>1
<1> QED BY <1>2, <1>3

\* And the sections of two configs balance.
LEMMA ConfigsBalance ==
  ASSUME NEW running \in MachineConfigs, NEW rendered \in MachineConfigs
  PROVE  Balanced(running, rendered)
<1> DEFINE l == Redact(running)
           r == Redact(rendered)
           diff == ConfigDiff(running, rendered)
           differing == {key \in DOMAIN l \cup DOMAIN r : Document(l, key) # Document(r, key)}
<1>1. diff = [key \in differing |-> LineDiff(Document(l, key), Document(r, key))]
  BY DEF ConfigDiff
<1>2. DOMAIN l = DOMAIN running /\ DOMAIN r = DOMAIN rendered
  BY DEF Redact
<1>3. ASSUME NEW key PROVE Document(l, key) \in Seq(Nat) /\ Document(r, key) \in Seq(Nat)
  BY RedactedText
<1> HIDE DEF l, r, diff
<1>4. ASSUME NEW key \in DOMAIN running \cup DOMAIN rendered, NEW line
      PROVE  Count(line, Document(r, key)) + Count(line, LinesOf(Document(diff, key), {"drop"}))
               = Count(line, Document(l, key)) + Count(line, LinesOf(Document(diff, key), {"add"}))
  <2>1. CASE key \in differing
    <3>1. Document(diff, key) = LineDiff(Document(l, key), Document(r, key))
      BY <1>1, <2>1 DEF Document
    <3> QED BY <1>3, <3>1, DiffBalances
  <2>2. CASE key \notin differing
    <3>1. Document(diff, key) = <<>>
      BY <1>1, <2>2 DEF Document
    <3>2. Document(l, key) = Document(r, key)
      BY <1>2, <2>2
    <3> QED BY <3>1, <3>2, LinesOfNothing
  <2> QED BY <2>1, <2>2
<1> QED BY <1>4 DEF Balanced, l, r, diff

-----------------------------------------------------------------------------
(***************************************************************************)
(* Runs of operations near a change and of others, in a script without     *)
(* gaps of its own.                                                        *)
(***************************************************************************)

\* A script as EditScript makes it.
GapFree(ops) == \A k \in 1 .. Len(ops) : ops[k].mark # "gap"

\* An operation and what is printed before it.
LEMMA PrintedStep ==
  ASSUME NEW ops \in Seq(OpSet), NEW k \in 1 .. Len(ops)
  PROVE  /\ PrintedTable(ops)[k - 1] \in Seq(OpSet)
         /\ PrintedTable(ops)[k] = LineAfter(ops, PrintedTable(ops)[k - 1], k)
<1>1. k - 1 \in 0 .. Len(ops)
  OBVIOUS
<1> QED BY <1>1, PrintedAt, PrintedType

\* Operations in a row, however grouped.
LEMMA OpsAssociate ==
  ASSUME NEW s \in Seq(OpSet), NEW u \in Seq(OpSet), NEW v \in Seq(OpSet)
  PROVE  (s \o u) \o v = s \o (u \o v)
BY ConcatAssociative

\* Lines near a change are printed as they are.
LEMMA NearRun ==
  ASSUME NEW ops \in Seq(OpSet), NEW a \in 0 .. Len(ops), NEW b \in a .. Len(ops), \A k \in a + 1 .. b : Near(ops, k)
  PROVE  PrintedTable(ops)[b] = PrintedTable(ops)[a] \o SubSeq(ops, a + 1, b)
<1> DEFINE t == PrintedTable(ops)
           n == Len(ops)
           Whole(k) == t[k] = t[a] \o SubSeq(ops, a + 1, k)
           S == {d \in Nat : a + d <= b => Whole(a + d)}
<1>0. n \in Nat /\ a \in Nat /\ b \in Nat /\ b <= n /\ a <= b /\ t[a] \in Seq(OpSet)
  BY PrintedType
<1>1. Whole(a)
  <2>2. SubSeq(ops, a + 1, a) = <<>>
    BY <1>0, SubSeqEmpty
  <2>3. t[a] \o <<>> = t[a]
    BY <1>0
  <2> QED BY <2>2, <2>3
<1>2. ASSUME NEW k \in a + 1 .. b, Whole(k - 1) PROVE Whole(k)
  <2>1. k \in 1 .. n /\ k - 1 \in Int /\ k \in Int /\ a + 1 <= k /\ a + 1 \in 1 .. n
    BY <1>0
  <2>2. t[k] = Append(t[k - 1], ops[k]) /\ t[k - 1] \in Seq(OpSet)
    BY <2>1, PrintedStep DEF LineAfter
  <2>3. ops[k] \in OpSet /\ <<ops[k]>> \in Seq(OpSet)
    BY <2>1
  <2>4. Append(t[k - 1], ops[k]) = t[k - 1] \o <<ops[k]>>
    BY <2>2, <2>3, AppendIsConcat
  <2>5. SubSeq(ops, a + 1, k) = SubSeq(ops, a + 1, k - 1) \o <<ops[k]>>
    BY <2>1, SubSeqRecursiveSecond
  <2>6. SubSeq(ops, a + 1, k - 1) \in Seq(OpSet)
    BY <2>1, SubSeqProperties
  <2> DEFINE u == SubSeq(ops, a + 1, k - 1)
             e == <<ops[k]>>
  <2>7. /\ u \in Seq(OpSet) /\ e \in Seq(OpSet) /\ t[a] \in Seq(OpSet)
        /\ t[k - 1] = t[a] \o u /\ t[k] = t[k - 1] \o e /\ SubSeq(ops, a + 1, k) = u \o e
    BY <1>0, <1>2, <2>2, <2>3, <2>4, <2>5, <2>6
  <2> HIDE DEF t, u, e
  <2>8. (t[a] \o u) \o e = t[a] \o (u \o e)
    BY <2>7, OpsAssociate
  <2> QED BY <2>7, <2>8
<1> HIDE DEF t, n, Whole
<1>3. 0 \in S
  <2>1. a + 0 = a
    BY <1>0
  <2> QED BY <1>1, <2>1
<1>4. ASSUME NEW d \in Nat, d \in S PROVE d + 1 \in S
  <2> SUFFICES ASSUME a + (d + 1) <= b PROVE Whole(a + (d + 1))
    OBVIOUS
  <2> DEFINE k == a + (d + 1)
  <2>1. k \in a + 1 .. b /\ k - 1 = a + d /\ a + d <= b
    BY <1>0
  <2>2. Whole(a + d)
    BY <1>4, <2>1
  <2> HIDE DEF k
  <2>3. Whole(k)
    BY <1>2, <2>1, <2>2
  <2> QED BY <2>3 DEF k
<1>5. Nat \subseteq S
  <2> HIDE DEF S
  <2> QED BY <1>3, <1>4, UpFrom0
<1>6. Whole(b)
  <2>1. b - a \in S /\ a + (b - a) = b
    <3> HIDE DEF S
    <3> QED BY <1>0, <1>5
  <2> QED BY <1>0, <2>1
<1> QED BY <1>6 DEF t, Whole

\* The others in a row become one gap.
LEMMA FarRun ==
  ASSUME NEW ops \in Seq(OpSet), NEW a \in 0 .. Len(ops), NEW b \in a + 1 .. Len(ops),
         \A k \in a + 1 .. b : ~Near(ops, k),
         PrintedTable(ops)[a] # <<>> => PrintedTable(ops)[a][Len(PrintedTable(ops)[a])] # Gap
  PROVE  PrintedTable(ops)[b] = Append(PrintedTable(ops)[a], Gap)
<1> DEFINE t == PrintedTable(ops)
           n == Len(ops)
           all == Append(t[a], Gap)
           S == {d \in Nat : (a + 1) + d <= b => t[(a + 1) + d] = all}
<1>0. n \in Nat /\ a \in Nat /\ b \in Nat /\ b <= n /\ a + 1 <= b /\ t[a] \in Seq(OpSet) /\ Gap \in OpSet
  BY PrintedType DEF Gap, Op, OpSet
<1>1. all # <<>> /\ all[Len(all)] = Gap
  BY <1>0
<1>2. t[a + 1] = all
  <2>1. a + 1 \in 1 .. n /\ (a + 1) - 1 = a /\ a + 1 \in a + 1 .. b
    BY <1>0
  <2>2. t[a + 1] = LineAfter(ops, t[a], a + 1)
    BY <2>1, PrintedStep
  <2> QED BY <2>1, <2>2 DEF LineAfter
<1>3. ASSUME NEW k \in a + 1 .. b, t[k - 1] = all, k \in 1 .. n PROVE t[k] = all
  <2>1. t[k] = LineAfter(ops, all, k) /\ ~Near(ops, k)
    BY <1>3, PrintedStep
  <2> HIDE DEF all, t
  <2> QED BY <1>1, <2>1 DEF LineAfter
<1> HIDE DEF t, n, all
<1>4. 0 \in S
  BY <1>0, <1>2
<1>5. ASSUME NEW d \in Nat, d \in S PROVE d + 1 \in S
  <2> SUFFICES ASSUME (a + 1) + (d + 1) <= b PROVE t[(a + 1) + (d + 1)] = all
    OBVIOUS
  <2> DEFINE k == (a + 1) + (d + 1)
  <2>1. k \in a + 1 .. b /\ k - 1 = (a + 1) + d /\ (a + 1) + d <= b /\ k \in 1 .. n
    BY <1>0
  <2>2. t[k - 1] = all
    BY <1>5, <2>1
  <2> HIDE DEF k
  <2>3. t[k] = all
    BY <1>3, <2>1, <2>2
  <2> QED BY <2>3 DEF k
<1>6. Nat \subseteq S
  <2> HIDE DEF S
  <2> QED BY <1>4, <1>5, UpFrom0
<1>7. b - (a + 1) \in S /\ (a + 1) + (b - (a + 1)) = b
  <2> HIDE DEF S
  <2> QED BY <1>0, <1>6
<1> QED BY <1>0, <1>7 DEF t, all

\* A printed operation is no gap, so that a gap can follow.
LEMMA NoGapAt ==
  ASSUME NEW ops \in Seq(OpSet), GapFree(ops), NEW k \in 0 .. Len(ops), k = 0 \/ Near(ops, k)
  PROVE  PrintedTable(ops)[k] # <<>> => PrintedTable(ops)[k][Len(PrintedTable(ops)[k])] # Gap
<1>1. CASE k = 0
  BY <1>1, PrintedAt
<1>2. CASE k # 0
  <2>1. k \in 1 .. Len(ops)
    BY <1>2
  <2> DEFINE out == PrintedTable(ops)[k - 1]
             op == ops[k]
  <2>2. out \in Seq(OpSet) /\ PrintedTable(ops)[k] = Append(out, op)
    BY <1>2, <2>1, PrintedStep DEF LineAfter
  <2>3. op \in OpSet /\ op # Gap
    <3>1. op.mark # "gap" /\ op \in OpSet
      BY <2>1 DEF GapFree
    <3>2. Gap.mark = "gap"
      BY DEF Gap, Op
    <3> QED BY <3>1, <3>2
  <2> HIDE DEF out, op
  <2>4. Append(out, op)[Len(Append(out, op))] = op
    BY <2>2, <2>3
  <2> QED BY <2>2, <2>3, <2>4
<1> QED BY <1>1, <1>2

\* One after the other, hidden from the provers: four in a row defeat them.
Glue(x, y) == x \o y

\* Two in a row.
LEMMA GlueTwo ==
  ASSUME NEW s \in Seq(OpSet), NEW u \in Seq(OpSet)
  PROVE  Glue(s, u) \in Seq(OpSet)
BY DEF Glue

\* Three in a row.
LEMMA GlueThree ==
  ASSUME NEW s \in Seq(OpSet), NEW u \in Seq(OpSet), NEW v \in Seq(OpSet)
  PROVE  Glue(Glue(s, u), v) = Glue(s, Glue(u, v))
BY OpsAssociate DEF Glue

\* Four in a row.
LEMMA GlueFour ==
  ASSUME NEW s \in Seq(OpSet), NEW u \in Seq(OpSet), NEW e \in Seq(OpSet), NEW v \in Seq(OpSet)
  PROVE  Glue(Glue(Glue(s, u), e), v) = Glue(s, Glue(Glue(u, e), v))
<1>1. Glue(u, e) \in Seq(OpSet)
  BY GlueTwo
<1>2. Glue(Glue(s, u), e) = Glue(s, Glue(u, e))
  BY GlueThree
<1>3. Glue(Glue(s, Glue(u, e)), v) = Glue(s, Glue(Glue(u, e), v))
  BY <1>1, GlueThree
<1> QED BY <1>2, <1>3

\* Lines after a change, a gap, and lines before the next.
LEMMA GapBetween ==
  ASSUME NEW ops \in Seq(OpSet), GapFree(ops), NEW a \in 0 .. Len(ops), NEW lo \in a .. Len(ops), NEW hi \in lo + 1 .. Len(ops),
         NEW b \in hi .. Len(ops), lo = 0 \/ Near(ops, lo),
         \A k \in a + 1 .. lo : Near(ops, k), \A k \in lo + 1 .. hi : ~Near(ops, k), \A k \in hi + 1 .. b : Near(ops, k)
  PROVE  PrintedTable(ops)[b]
           = PrintedTable(ops)[a] \o ((SubSeq(ops, a + 1, lo) \o <<Gap>>) \o SubSeq(ops, hi + 1, b))
<1> DEFINE t == PrintedTable(ops)
           u == SubSeq(ops, a + 1, lo)
           v == SubSeq(ops, hi + 1, b)
<1>1. /\ lo \in 0 .. Len(ops) /\ hi \in 0 .. Len(ops) /\ b \in hi .. Len(ops)
      /\ Len(ops) \in Nat /\ a \in Int /\ lo \in Int /\ hi \in Int /\ b \in Int /\ lo <= Len(ops) /\ b <= Len(ops)
      /\ a >= 0 /\ hi >= 0
  OBVIOUS
<1>2. u \in Seq(OpSet) /\ v \in Seq(OpSet)
  <2>1. \A i \in a + 1 .. lo : i \in 1 .. Len(ops)
    BY <1>1
  <2>2. \A i \in hi + 1 .. b : i \in 1 .. Len(ops)
    BY <1>1
  <2> QED BY <1>1, <2>1, <2>2, SubSeqProperties
<1>3. t[a] \in Seq(OpSet) /\ t[lo] \in Seq(OpSet) /\ Gap \in OpSet /\ <<Gap>> \in Seq(OpSet)
  BY <1>1, PrintedType DEF Gap, Op, OpSet
<1>4. t[lo] = t[a] \o u
  BY NearRun
<1>5. t[hi] = Append(t[lo], Gap)
  BY <1>1, NoGapAt, FarRun
<1>6. t[b] = t[hi] \o v
  BY <1>1, NearRun
<1>7. Append(t[lo], Gap) = t[lo] \o <<Gap>>
  BY <1>3, AppendIsConcat
<1> DEFINE e == <<Gap>>
           s == t[a]
<1>8. t[b] = ((s \o u) \o e) \o v
  <2> HIDE DEF t, u, v
  <2> QED BY <1>4, <1>5, <1>6, <1>7
<1>9. s \in Seq(OpSet) /\ u \in Seq(OpSet) /\ e \in Seq(OpSet) /\ v \in Seq(OpSet)
  BY <1>2, <1>3
<1> HIDE DEF s, u, v, e
<1>10. Glue(Glue(Glue(s, u), e), v) = Glue(s, Glue(Glue(u, e), v))
  BY <1>9, GlueFour
<1>11. t[b] = Glue(s, Glue(Glue(u, e), v))
  <2>1. t[b] = Glue(Glue(Glue(s, u), e), v)
    BY <1>8 DEF Glue
  <2> QED BY <2>1, <1>10
<1> QED BY <1>11 DEF t, s, u, v, e, Glue

-----------------------------------------------------------------------------
(***************************************************************************)
(* Before the first change, between two and after the last, the printed    *)
(* lines are those of a unified diff.                                      *)
(***************************************************************************)

\* The positions of the changes.
Changed(ops) == {k \in DOMAIN ops : IsChange(ops[k])}

\* Which lines are near a change, between changes p and c next to each other.
LEMMA NearBetween ==
  ASSUME NEW ops \in Seq(OpSet), NEW p \in Changed(ops), NEW c \in Changed(ops), p < c,
         \A d \in Changed(ops) : d <= p \/ d >= c
  PROVE  \A k \in p + 1 .. c - 1 : Near(ops, k) <=> k <= p + 2 \/ k >= c - 2
<1>1. Changed(ops) \subseteq 1 .. Len(ops) /\ DOMAIN ops = 1 .. Len(ops)
  BY DEF Changed
<1>2. \A k : Near(ops, k) <=> \E d \in Changed(ops) : d <= k + 2 /\ k <= d + 2
  BY DEF Near, Changed, Context
<1> QED BY <1>1, <1>2, SMTT(40)

\* Which are, before the first change.
LEMMA NearBefore ==
  ASSUME NEW ops \in Seq(OpSet), NEW c \in Changed(ops), \A d \in Changed(ops) : d >= c
  PROVE  \A k \in 1 .. c - 1 : Near(ops, k) <=> k >= c - 2
<1>1. Changed(ops) \subseteq 1 .. Len(ops) /\ DOMAIN ops = 1 .. Len(ops)
  BY DEF Changed
<1>2. \A k : Near(ops, k) <=> \E d \in Changed(ops) : d <= k + 2 /\ k <= d + 2
  BY DEF Near, Changed, Context
<1> QED BY <1>1, <1>2

\* And after the last.
LEMMA NearAfter ==
  ASSUME NEW ops \in Seq(OpSet), NEW p \in Changed(ops), \A d \in Changed(ops) : d <= p
  PROVE  \A k \in p + 1 .. Len(ops) : Near(ops, k) <=> k <= p + 2
<1>1. Changed(ops) \subseteq 1 .. Len(ops) /\ DOMAIN ops = 1 .. Len(ops)
  BY DEF Changed
<1>2. \A k : Near(ops, k) <=> \E d \in Changed(ops) : d <= k + 2 /\ k <= d + 2
  BY DEF Near, Changed, Context
<1> QED BY <1>1, <1>2

\* A change is printed.
LEMMA ChangePrinted ==
  ASSUME NEW ops \in Seq(OpSet), NEW c \in Changed(ops)
  PROVE  /\ c \in 1 .. Len(ops) /\ Near(ops, c)
         /\ PrintedTable(ops)[c] = PrintedTable(ops)[c - 1] \o <<ops[c]>>
<1>1. c \in 1 .. Len(ops) /\ IsChange(ops[c]) /\ c \in DOMAIN ops /\ c \in Nat
  BY DEF Changed
<1>2. Near(ops, c)
  BY <1>1 DEF Near, Context
<1>3. PrintedTable(ops)[c - 1] \in Seq(OpSet) /\ PrintedTable(ops)[c] = Append(PrintedTable(ops)[c - 1], ops[c])
  BY <1>1, <1>2, PrintedStep DEF LineAfter
<1>4. ops[c] \in OpSet
  BY <1>1
<1>5. Append(PrintedTable(ops)[c - 1], ops[c]) = PrintedTable(ops)[c - 1] \o <<ops[c]>>
  BY <1>3, <1>4, AppendIsConcat
<1> QED BY <1>1, <1>2, <1>3, <1>5

\* Parts of a part of a script, and their lengths.
LEMMA PartOfPart ==
  ASSUME NEW ops \in Seq(OpSet), NEW i \in 1 .. Len(ops), NEW j \in i .. Len(ops),
         NEW m \in 1 .. j - i + 1, NEW n \in 1 .. j - i + 1
  PROVE  SubSeq(SubSeq(ops, i, j), m, n) = SubSeq(ops, i + m - 1, i + n - 1)
<1>1. j \in 1 .. Len(ops)
  OBVIOUS
<1> QED BY <1>1, SubSeqOfSubSeq

\* A part of a script, and its length.
LEMMA PartOf ==
  ASSUME NEW ops \in Seq(OpSet), NEW a \in 0 .. Len(ops), NEW b \in a .. Len(ops)
  PROVE  SubSeq(ops, a + 1, b) \in Seq(OpSet) /\ Len(SubSeq(ops, a + 1, b)) = b - a
<1>1. a + 1 \in Int /\ b \in Int /\ a \in Int /\ Len(ops) \in Nat
  OBVIOUS
<1>2. \A i \in a + 1 .. b : ops[i] \in OpSet
  BY <1>1
<1>3. /\ SubSeq(ops, a + 1, b) \in Seq(OpSet)
      /\ Len(SubSeq(ops, a + 1, b)) = IF a + 1 <= b THEN b - (a + 1) + 1 ELSE 0
  BY <1>1, <1>2, SubSeqProperties
<1> QED BY <1>1, <1>3

\* The reference after the last change.
LEMMA AfterIs ==
  ASSUME NEW ops \in Seq(OpSet), NEW p \in 0 .. Len(ops)
  PROVE  /\ Len(ops) - p <= 2 => After(SubSeq(ops, p + 1, Len(ops))) = SubSeq(ops, p + 1, Len(ops))
         /\ Len(ops) - p > 2 => After(SubSeq(ops, p + 1, Len(ops))) = SubSeq(ops, p + 1, p + 2) \o <<Gap>>
<1> DEFINE n == Len(ops)
           u == SubSeq(ops, p + 1, n)
<1>1. n \in Nat /\ p \in Nat /\ Len(u) = n - p
  BY PartOf
<1>2. n - p > 2 => SubSeq(u, 1, 2) = SubSeq(ops, p + 1, p + 2)
  <2> SUFFICES ASSUME n - p > 2 PROVE SubSeq(u, 1, 2) = SubSeq(ops, p + 1, p + 2)
    OBVIOUS
  <2>1. p + 1 \in 1 .. n /\ n \in p + 1 .. n /\ 1 \in 1 .. n - (p + 1) + 1 /\ 2 \in 1 .. n - (p + 1) + 1
    BY <1>1
  <2>2. (p + 1) + 1 - 1 = p + 1 /\ (p + 1) + 2 - 1 = p + 2
    BY <1>1
  <2>3. SubSeq(u, 1, 2) = SubSeq(ops, (p + 1) + 1 - 1, (p + 1) + 2 - 1)
    BY <2>1, PartOfPart
  <2> QED BY <2>2, <2>3
<1> HIDE DEF u
<1>3. n - p <= 2 => After(u) = u
  BY <1>1 DEF After, Context
<1>4. n - p > 2 => After(u) = SubSeq(u, 1, 2) \o <<Gap>>
  BY <1>1 DEF After, Context
<1> QED BY <1>2, <1>3, <1>4 DEF u

\* Before the first.
LEMMA BeforeIs ==
  ASSUME NEW ops \in Seq(OpSet), NEW c \in 1 .. Len(ops)
  PROVE  /\ c <= 3 => Before(SubSeq(ops, 1, c - 1)) = SubSeq(ops, 1, c - 1)
         /\ c > 3 => Before(SubSeq(ops, 1, c - 1)) = <<Gap>> \o SubSeq(ops, c - 2, c - 1)
<1> DEFINE n == Len(ops)
           u == SubSeq(ops, 1, c - 1)
<1>1. n \in Nat /\ c \in Nat /\ Len(u) = c - 1
  <2>1. c - 1 \in 0 .. n /\ 0 \in 0 .. n /\ 0 + 1 = 1 /\ (c - 1) - 0 = c - 1
    OBVIOUS
  <2>2. Len(SubSeq(ops, 0 + 1, c - 1)) = (c - 1) - 0
    BY <2>1, PartOf
  <2> QED BY <2>1, <2>2
<1>2. c > 3 => SubSeq(u, (c - 1) - 2 + 1, c - 1) = SubSeq(ops, c - 2, c - 1)
  <2> SUFFICES ASSUME c > 3 PROVE SubSeq(u, (c - 1) - 2 + 1, c - 1) = SubSeq(ops, c - 2, c - 1)
    OBVIOUS
  <2>1. /\ 1 \in 1 .. n /\ c - 1 \in 1 .. n /\ (c - 1) - 2 + 1 \in 1 .. (c - 1) - 1 + 1
        /\ c - 1 \in 1 .. (c - 1) - 1 + 1
    BY <1>1
  <2>2. 1 + ((c - 1) - 2 + 1) - 1 = c - 2 /\ 1 + (c - 1) - 1 = c - 1
    BY <1>1
  <2>3. SubSeq(u, (c - 1) - 2 + 1, c - 1) = SubSeq(ops, 1 + ((c - 1) - 2 + 1) - 1, 1 + (c - 1) - 1)
    BY <2>1, PartOfPart
  <2> QED BY <2>2, <2>3
<1> HIDE DEF u
<1>3. c <= 3 => Before(u) = u
  BY <1>1 DEF Before, Context
<1>4. c > 3 => Before(u) = <<Gap>> \o SubSeq(u, (c - 1) - 2 + 1, c - 1)
  BY <1>1 DEF Before, Context
<1> QED BY <1>2, <1>3, <1>4 DEF u

\* And between two.
LEMMA BetweenIs ==
  ASSUME NEW ops \in Seq(OpSet), NEW p \in 0 .. Len(ops), NEW c \in p + 1 .. Len(ops)
  PROVE  /\ c - 1 - p <= 4 => Between(SubSeq(ops, p + 1, c - 1)) = SubSeq(ops, p + 1, c - 1)
         /\ c - 1 - p > 4 => Between(SubSeq(ops, p + 1, c - 1))
                               = (SubSeq(ops, p + 1, p + 2) \o <<Gap>>) \o SubSeq(ops, c - 2, c - 1)
<1> DEFINE n == Len(ops)
           u == SubSeq(ops, p + 1, c - 1)
<1>0. n \in Nat /\ c \in Nat /\ p \in Nat /\ c - 1 \in p .. n
  OBVIOUS
<1> PICK l \in Nat : l = c - 1 - p
  BY <1>0
<1>1. Len(u) = l
  <2>1. Len(u) = (c - 1) - p
    BY <1>0, PartOf
  <2> QED BY <2>1
<1>2. l > 4 => SubSeq(u, 1, 2) = SubSeq(ops, p + 1, p + 2)
  <2> SUFFICES ASSUME l > 4 PROVE SubSeq(u, 1, 2) = SubSeq(ops, p + 1, p + 2)
    OBVIOUS
  <2>1. /\ p + 1 \in 1 .. n /\ c - 1 \in p + 1 .. n
        /\ 1 \in 1 .. (c - 1) - (p + 1) + 1 /\ 2 \in 1 .. (c - 1) - (p + 1) + 1
    BY <1>0
  <2>2. (p + 1) + 1 - 1 = p + 1 /\ (p + 1) + 2 - 1 = p + 2
    BY <1>0
  <2>3. SubSeq(u, 1, 2) = SubSeq(ops, (p + 1) + 1 - 1, (p + 1) + 2 - 1)
    BY <2>1, PartOfPart
  <2> QED BY <2>2, <2>3
<1>3. l > 4 => SubSeq(u, l - 2 + 1, l) = SubSeq(ops, c - 2, c - 1)
  <2> SUFFICES ASSUME l > 4 PROVE SubSeq(u, l - 2 + 1, l) = SubSeq(ops, c - 2, c - 1)
    OBVIOUS
  <2>1. /\ p + 1 \in 1 .. n /\ c - 1 \in p + 1 .. n
        /\ l - 2 + 1 \in 1 .. (c - 1) - (p + 1) + 1 /\ l \in 1 .. (c - 1) - (p + 1) + 1
    BY <1>0
  <2>2. (p + 1) + (l - 2 + 1) - 1 = c - 2 /\ (p + 1) + l - 1 = c - 1
    BY <1>0
  <2>3. SubSeq(u, l - 2 + 1, l) = SubSeq(ops, (p + 1) + (l - 2 + 1) - 1, (p + 1) + l - 1)
    BY <2>1, PartOfPart
  <2> QED BY <2>2, <2>3
<1> HIDE DEF u
<1>4. l <= 4 => Between(u) = u
  BY <1>1 DEF Between, Context
<1>5. l > 4 => Between(u) = (SubSeq(u, 1, 2) \o <<Gap>>) \o SubSeq(u, l - 2 + 1, l)
  BY <1>1 DEF Between, Context
<1>6. l > 4 => Between(u) = (SubSeq(ops, p + 1, p + 2) \o <<Gap>>) \o SubSeq(ops, c - 2, c - 1)
  BY <1>2, <1>3, <1>5, Zenon
<1> QED BY <1>4, <1>6 DEF u

\* What is printed between two changes next to each other.
LEMMA PrintedBetween ==
  ASSUME NEW ops \in Seq(OpSet), GapFree(ops), NEW p \in Changed(ops), NEW c \in Changed(ops), p < c,
         \A d \in Changed(ops) : d <= p \/ d >= c
  PROVE  PrintedTable(ops)[c - 1] = PrintedTable(ops)[p] \o Between(SubSeq(ops, p + 1, c - 1))
<1> DEFINE n == Len(ops)
           t == PrintedTable(ops)
           u == SubSeq(ops, p + 1, c - 1)
<1>0. n \in Nat
  OBVIOUS
<1>1. n \in Nat /\ p \in 1 .. n /\ c \in 1 .. n /\ Near(ops, p)
  BY <1>0, ChangePrinted, Zenon
<1>2. \A k \in p + 1 .. c - 1 : Near(ops, k) <=> k <= p + 2 \/ k >= c - 2
  BY NearBetween
<1>3. p \in 0 .. n /\ c \in p + 1 .. n
  BY <1>1
<1>4. CASE c - 1 - p <= 4
  <2>1. \A k \in p + 1 .. c - 1 : Near(ops, k)
    BY <1>1, <1>2, <1>4
  <2>2. c - 1 \in p .. n
    BY <1>1
  <2>3. t[c - 1] = t[p] \o SubSeq(ops, p + 1, c - 1)
    BY <1>3, <2>1, <2>2, NearRun
  <2>4. Between(u) = u
    BY <1>3, <1>4, BetweenIs
  <2> QED BY <2>3, <2>4
<1>5. CASE c - 1 - p > 4
  <2>1. p + 2 \in p .. n /\ c - 3 \in (p + 2) + 1 .. n /\ c - 1 \in c - 3 .. n /\ (c - 3) + 1 = c - 2
    BY <1>1, <1>5
  <2>2. \A k \in p + 1 .. p + 2 : Near(ops, k)
    BY <1>1, <1>2, <1>5
  <2>3. \A k \in (p + 2) + 1 .. c - 3 : ~Near(ops, k)
    BY <1>1, <1>2, <1>5
  <2>4. \A k \in (c - 3) + 1 .. c - 1 : Near(ops, k)
    BY <1>1, <1>2, <1>5
  <2>5. p + 2 \in p + 1 .. p + 2
    BY <1>1
  <2>6. Near(ops, p + 2)
    BY <2>2, <2>5
  <2>7. t[c - 1] = t[p] \o ((SubSeq(ops, p + 1, p + 2) \o <<Gap>>) \o SubSeq(ops, (c - 3) + 1, c - 1))
    BY <1>3, <2>1, <2>2, <2>3, <2>4, <2>6, GapBetween
  <2>8. Between(u) = (SubSeq(ops, p + 1, p + 2) \o <<Gap>>) \o SubSeq(ops, c - 2, c - 1)
    BY <1>3, <1>5, BetweenIs
  <2> QED BY <2>1, <2>7, <2>8
<1>6. c - 1 - p <= 4 \/ c - 1 - p > 4
  BY <1>1
<1> QED BY <1>4, <1>5, <1>6

\* What is printed before the first change.
LEMMA PrintedBefore ==
  ASSUME NEW ops \in Seq(OpSet), GapFree(ops), NEW c \in Changed(ops), \A d \in Changed(ops) : d >= c
  PROVE  PrintedTable(ops)[c - 1] = Before(SubSeq(ops, 1, c - 1))
<1> DEFINE n == Len(ops)
           t == PrintedTable(ops)
           u == SubSeq(ops, 1, c - 1)
<1>0. n \in Nat
  OBVIOUS
<1>1. n \in Nat /\ c \in 1 .. n
  BY <1>0, ChangePrinted, Zenon
<1>2. \A k \in 1 .. c - 1 : Near(ops, k) <=> k >= c - 2
  BY NearBefore
<1>3. t[0] = <<>> /\ 0 \in 0 .. n /\ 0 + 1 = 1
  BY <1>1, PrintedAt
<1>4. CASE c <= 3
  <2>1. \A k \in 0 + 1 .. c - 1 : Near(ops, k)
    BY <1>1, <1>2, <1>4
  <2>2. c - 1 \in 0 .. n
    BY <1>1
  <2>3. t[c - 1] = t[0] \o SubSeq(ops, 0 + 1, c - 1)
    BY <1>3, <2>1, <2>2, NearRun
  <2>4. t[c - 1] = <<>> \o u
    BY <1>3, <2>3
  <2>5. u \in Seq(OpSet)
    BY <1>3, <2>2, PartOf
  <2>6. <<>> \o u = u
    <3> HIDE DEF u
    <3> QED BY <2>5
  <2>7. Before(u) = u
    BY <1>1, <1>4, BeforeIs
  <2> QED BY <2>4, <2>6, <2>7
<1>5. CASE c > 3
  <2>1. 0 \in 0 .. n /\ c - 3 \in 0 + 1 .. n /\ c - 1 \in c - 3 .. n /\ (c - 3) + 1 = c - 2
    BY <1>1, <1>5
  <2>2. \A k \in 0 + 1 .. 0 : Near(ops, k)
    OBVIOUS
  <2>3. \A k \in 0 + 1 .. c - 3 : ~Near(ops, k)
    BY <1>1, <1>2, <1>5
  <2>4. \A k \in (c - 3) + 1 .. c - 1 : Near(ops, k)
    BY <1>1, <1>2, <1>5
  <2>7. t[c - 1] = t[0] \o ((SubSeq(ops, 0 + 1, 0) \o <<Gap>>) \o SubSeq(ops, (c - 3) + 1, c - 1))
    BY <1>3, <2>1, <2>2, <2>3, <2>4, GapBetween
  <2>8. SubSeq(ops, 0 + 1, 0) = <<>>
    BY <1>3, SubSeqEmpty
  <2> DEFINE e == <<Gap>>
             v == SubSeq(ops, c - 2, c - 1)
  <2>9. t[c - 1] = <<>> \o ((<<>> \o e) \o v)
    BY <1>3, <2>1, <2>7, <2>8
  <2>10. e \in Seq(OpSet) /\ v \in Seq(OpSet)
    <3>1. e \in Seq(OpSet)
      BY DEF Gap, Op, OpSet
    <3>2. c - 3 \in 0 .. n
      BY <1>1, <1>5
    <3>3. SubSeq(ops, (c - 3) + 1, c - 1) \in Seq(OpSet)
      BY <2>1, <3>2, PartOf
    <3> QED BY <2>1, <3>1, <3>3
  <2>11. <<>> \o ((<<>> \o e) \o v) = e \o v
    <3> HIDE DEF e, v
    <3>1. <<>> \o e = e
      BY <2>10
    <3>2. e \o v \in Seq(OpSet)
      BY <2>10
    <3> DEFINE w == e \o v
    <3>3. <<>> \o w = w
      <4> HIDE DEF w
      <4> QED BY <3>2
    <3> QED BY <3>1, <3>3
  <2>12. Before(u) = e \o v
    BY <1>1, <1>5, BeforeIs
  <2> QED BY <2>9, <2>11, <2>12
<1>6. c <= 3 \/ c > 3
  BY <1>1
<1> QED BY <1>4, <1>5, <1>6

\* What is printed after the last change.
LEMMA PrintedAfter ==
  ASSUME NEW ops \in Seq(OpSet), GapFree(ops), NEW p \in Changed(ops), \A d \in Changed(ops) : d <= p
  PROVE  PrintedTable(ops)[Len(ops)] = PrintedTable(ops)[p] \o After(SubSeq(ops, p + 1, Len(ops)))
<1> DEFINE n == Len(ops)
           t == PrintedTable(ops)
           u == SubSeq(ops, p + 1, n)
<1>0. n \in Nat
  OBVIOUS
<1>1. n \in Nat /\ p \in 1 .. n /\ Near(ops, p)
  BY <1>0, ChangePrinted, Zenon
<1>2. \A k \in p + 1 .. n : Near(ops, k) <=> k <= p + 2
  BY NearAfter
<1>3. p \in 0 .. n /\ n \in p .. n
  BY <1>1
<1>4. CASE n - p <= 2
  <2>1. \A k \in p + 1 .. n : Near(ops, k)
    BY <1>1, <1>2, <1>4
  <2>3. t[n] = t[p] \o u
    BY <1>3, <2>1, NearRun
  <2>4. After(u) = u
    BY <1>3, <1>4, AfterIs
  <2> QED BY <2>3, <2>4
<1>5. CASE n - p > 2
  <2>1. p + 2 \in p .. n /\ n \in (p + 2) + 1 .. n /\ n \in n .. n
    BY <1>1, <1>5
  <2>2. \A k \in p + 1 .. p + 2 : Near(ops, k)
    BY <1>1, <1>2, <1>5
  <2>3. \A k \in (p + 2) + 1 .. n : ~Near(ops, k)
    BY <1>1, <1>2, <1>5
  <2>4. \A k \in n + 1 .. n : Near(ops, k)
    BY <1>1
  <2>5. p + 2 \in p + 1 .. p + 2
    BY <1>1
  <2>6. Near(ops, p + 2)
    BY <2>2, <2>5
  <2>7. t[n] = t[p] \o ((SubSeq(ops, p + 1, p + 2) \o <<Gap>>) \o SubSeq(ops, n + 1, n))
    BY <1>3, <2>1, <2>2, <2>3, <2>4, <2>6, GapBetween
  <2>8. SubSeq(ops, n + 1, n) = <<>>
    BY <1>1, SubSeqEmpty
  <2> DEFINE w == SubSeq(ops, p + 1, p + 2) \o <<Gap>>
  <2>9. w \in Seq(OpSet)
    <3>1. SubSeq(ops, p + 1, p + 2) \in Seq(OpSet)
      BY <1>3, <2>1, PartOf
    <3>2. <<Gap>> \in Seq(OpSet)
      BY DEF Gap, Op, OpSet
    <3> QED BY <3>1, <3>2
  <2>10. w \o <<>> = w
    <3> HIDE DEF w
    <3> QED BY <2>9
  <2>11. After(u) = w
    BY <1>3, <1>5, AfterIs
  <2>12. t[n] = t[p] \o (w \o <<>>)
    BY <2>7, <2>8
  <2> QED BY <2>10, <2>11, <2>12
<1>6. n - p <= 2 \/ n - p > 2
  BY <1>1
<1> QED BY <1>4, <1>5, <1>6

\* The greatest number of a set below a bound.
LEMMA MaxOf ==
  ASSUME NEW n \in Nat, NEW S, S \subseteq 1 .. n, S # {}
  PROVE  Max(S) \in S /\ \A a \in S : a <= Max(S)
<1> DEFINE Bounds == {b \in Nat : \A a \in S : a <= b}
<1>1. Bounds \subseteq Nat /\ n \in Bounds
  OBVIOUS
<1>2. PICK b \in Bounds : \A d \in Bounds : b <= d
  BY <1>1, LeastOf
<1>3. b \in Nat /\ \A a \in S : a <= b /\ a \in Nat /\ a >= 1
  BY <1>2
<1>4. b \in S
  <2> SUFFICES ASSUME b \notin S PROVE FALSE
    OBVIOUS
  <2>1. \A a \in S : a <= b - 1
    BY <1>3
  <2>2. PICK a \in S : TRUE
    OBVIOUS
  <2>3. b - 1 \in Nat
    BY <1>3, <2>2
  <2>4. b - 1 \in Bounds
    BY <2>1, <2>3
  <2> QED BY <1>2, <1>3, <2>4
<1>5. \E x \in S : \A y \in S : x >= y
  BY <1>3, <1>4
<1>6. Max(S) \in S /\ \A y \in S : Max(S) >= y
  BY <1>5, Zenon DEF Max
<1>7. Max(S) \in Nat
  BY <1>3, <1>6
<1> QED BY <1>3, <1>6, <1>7

\* What is printed up to a change, by the reference.
LeadOf(ops, g, c) ==
  IF {k \in Changed(ops) : k < c} = {} THEN Before(SubSeq(ops, 1, c - 1))
  ELSE g[Max({k \in Changed(ops) : k < c})] \o Between(SubSeq(ops, Max({k \in Changed(ops) : k < c}) + 1, c - 1))

\* A table of it, by change.
IsUpTo(ops, g) == g = [c \in Changed(ops) |-> LeadOf(ops, g, c) \o <<ops[c]>>]

\* Unified reads the entry of the last change.
LEMMA UnifiedIs ==
  ASSUME NEW ops
  PROVE  Unified(ops) = (CHOOSE g : IsUpTo(ops, g))[Max(Changed(ops))]
                          \o After(SubSeq(ops, Max(Changed(ops)) + 1, Len(ops)))
BY SMT DEF Unified, IsUpTo, LeadOf, Changed

\* Changes are positions of the script.
LEMMA ChangedIsFinite ==
  ASSUME NEW ops \in Seq(OpSet)
  PROVE  Len(ops) \in Nat /\ Changed(ops) \subseteq 1 .. Len(ops)
BY DEF Changed

\* The change before another.
LEMMA LastEarlier ==
  ASSUME NEW ops \in Seq(OpSet), NEW c \in Changed(ops), {k \in Changed(ops) : k < c} # {}
  PROVE  /\ Max({k \in Changed(ops) : k < c}) \in Changed(ops) /\ Max({k \in Changed(ops) : k < c}) < c
         /\ \A d \in Changed(ops) : d <= Max({k \in Changed(ops) : k < c}) \/ d >= c
<1> DEFINE S == {k \in Changed(ops) : k < c}
<1>1. Len(ops) \in Nat /\ Changed(ops) \subseteq 1 .. Len(ops)
  BY ChangedIsFinite
<1>2. S \subseteq 1 .. Len(ops) /\ S # {}
  BY <1>1
<1>3. Max(S) \in S /\ \A a \in S : a <= Max(S)
  <2> HIDE DEF S
  <2> QED BY <1>1, <1>2, MaxOf
<1>4. ASSUME NEW d \in Changed(ops), d < c PROVE d <= Max(S)
  BY <1>3, <1>4
<1>5. \A d \in Changed(ops) : d < c \/ d >= c
  BY <1>1
<1> QED BY <1>3, <1>4, <1>5

\* At a change, what is printed is what the reference says.
LEMMA LeadPrinted ==
  ASSUME NEW ops \in Seq(OpSet), GapFree(ops), NEW c \in Changed(ops)
  PROVE  PrintedTable(ops)[c] = LeadOf(ops, PrintedTable(ops), c) \o <<ops[c]>>
<1>1. PrintedTable(ops)[c] = PrintedTable(ops)[c - 1] \o <<ops[c]>>
  BY ChangePrinted
<1>2. PrintedTable(ops)[c - 1] = LeadOf(ops, PrintedTable(ops), c)
  <2>0. Changed(ops) \subseteq 1 .. Len(ops) /\ Len(ops) \in Nat
    BY ChangedIsFinite
  <2>1. CASE {k \in Changed(ops) : k < c} = {}
    <3>1. \A d \in Changed(ops) : d >= c
      BY <2>0, <2>1
    <3>2. PrintedTable(ops)[c - 1] = Before(SubSeq(ops, 1, c - 1))
      BY <3>1, PrintedBefore
    <3> QED BY <2>1, <3>2 DEF LeadOf
  <2>2. CASE {k \in Changed(ops) : k < c} # {}
    <3> DEFINE p == Max({k \in Changed(ops) : k < c})
    <3>1. p \in Changed(ops) /\ p < c /\ \A d \in Changed(ops) : d <= p \/ d >= c
      BY <2>2, LastEarlier
    <3>2. PrintedTable(ops)[c - 1] = PrintedTable(ops)[p] \o Between(SubSeq(ops, p + 1, c - 1))
      <4> HIDE DEF p
      <4> QED BY <3>1, PrintedBetween
    <3> QED BY <2>2, <3>2 DEF LeadOf
  <2> QED BY <2>1, <2>2
<1> QED BY <1>1, <1>2

\* So there is such a table,
LEMMA UpToExists ==
  ASSUME NEW ops \in Seq(OpSet), GapFree(ops)
  PROVE  \E g : IsUpTo(ops, g)
<1> DEFINE t == PrintedTable(ops)
           g == [c \in Changed(ops) |-> t[c]]
<1>1. ASSUME NEW c \in Changed(ops) PROVE t[c] = LeadOf(ops, g, c) \o <<ops[c]>>
  <2>1. t[c] = LeadOf(ops, t, c) \o <<ops[c]>>
    BY LeadPrinted
  <2>2. LeadOf(ops, g, c) = LeadOf(ops, t, c)
    <3> DEFINE S == {k \in Changed(ops) : k < c}
    <3>1. S # {} => g[Max(S)] = t[Max(S)]
      <4>1. S # {} => Max(S) \in Changed(ops)
        BY LastEarlier
      <4> HIDE DEF S, t
      <4> QED BY <4>1
    <3> HIDE DEF g, t
    <3> QED BY <3>1 DEF LeadOf
  <2> QED BY <2>1, <2>2
<1>2. g = [c \in Changed(ops) |-> LeadOf(ops, g, c) \o <<ops[c]>>]
  <2> HIDE DEF t
  <2>1. \A c \in Changed(ops) : t[c] = LeadOf(ops, g, c) \o <<ops[c]>>
    BY <1>1
  <2> DEFINE r(c) == LeadOf(ops, g, c) \o <<ops[c]>>
  <2>2. [c \in Changed(ops) |-> t[c]] = [c \in Changed(ops) |-> r(c)]
    <3>1. \A c \in Changed(ops) : t[c] = r(c)
      BY <2>1
    <3> HIDE DEF r, g
    <3> QED BY <3>1
  <2> QED BY <2>2
<1>3. IsUpTo(ops, g)
  BY <1>2, Zenon DEF IsUpTo
<1> QED BY <1>3

\* and no other.
LEMMA UpToIsPrinted ==
  ASSUME NEW ops \in Seq(OpSet), GapFree(ops), NEW g, IsUpTo(ops, g)
  PROVE  \A c \in Changed(ops) : g[c] = PrintedTable(ops)[c]
<1> DEFINE t == PrintedTable(ops)
           Wrong == {c \in Changed(ops) : g[c] # t[c]}
<1>1. Changed(ops) \subseteq 1 .. Len(ops) /\ Len(ops) \in Nat
  BY ChangedIsFinite
<1> SUFFICES ASSUME Wrong # {} PROVE FALSE
  OBVIOUS
<1>2. PICK c \in Wrong : \A d \in Wrong : c <= d
  <2>1. Wrong \subseteq Nat
    BY <1>1
  <2> HIDE DEF Wrong
  <2> QED BY <2>1, LeastOf
<1>3. c \in Changed(ops) /\ g[c] # t[c]
  BY <1>2
<1>4. \A d \in Changed(ops) : d < c => g[d] = t[d]
  BY <1>1, <1>2
<1> HIDE DEF Wrong, t
<1>5. g[c] = LeadOf(ops, g, c) \o <<ops[c]>>
  BY <1>3 DEF IsUpTo
<1>6. t[c] = LeadOf(ops, t, c) \o <<ops[c]>>
  BY <1>3, LeadPrinted DEF t
<1>7. LeadOf(ops, g, c) = LeadOf(ops, t, c)
  <2> DEFINE S == {k \in Changed(ops) : k < c}
  <2>1. S # {} => g[Max(S)] = t[Max(S)]
    <3>1. S # {} => Max(S) \in Changed(ops) /\ Max(S) < c
      BY <1>3, LastEarlier
    <3> HIDE DEF S
    <3> QED BY <1>4, <3>1
  <2> QED BY <2>1 DEF LeadOf
<1> QED BY <1>3, <1>5, <1>6, <1>7

(***************************************************************************)
(* A script with a change is printed as a unified diff, whatever its       *)
(* length and wherever its changes are (formatOps: "keeping only the lines *)
(* within diffContext of a change").                                       *)
(***************************************************************************)
THEOREM PrintedAsUnified ==
  ASSUME NEW ops \in Seq(OpSet), GapFree(ops), Changed(ops) # {}
  PROVE  FormatOps(ops) = Unified(ops)
<1> DEFINE t == PrintedTable(ops)
           g == CHOOSE h : IsUpTo(ops, h)
           p == Max(Changed(ops))
<1>1. Changed(ops) \subseteq 1 .. Len(ops) /\ Len(ops) \in Nat
  BY ChangedIsFinite
<1>2. p \in Changed(ops) /\ \A d \in Changed(ops) : d <= p
  <2> DEFINE S == Changed(ops)
  <2>1. S \subseteq 1 .. Len(ops) /\ S # {}
    BY <1>1
  <2> HIDE DEF S
  <2>2. Max(S) \in S /\ \A d \in S : d <= Max(S)
    BY <1>1, <2>1, MaxOf
  <2> QED BY <2>2 DEF S
<1>3. IsUpTo(ops, g)
  <2>1. \E h : IsUpTo(ops, h)
    BY UpToExists
  <2> QED BY <2>1
<1>4. Unified(ops) = g[p] \o After(SubSeq(ops, p + 1, Len(ops)))
  BY UnifiedIs
<1>5. g[p] = t[p]
  <2> HIDE DEF g, p
  <2>1. \A c \in Changed(ops) : g[c] = PrintedTable(ops)[c]
    BY <1>3, UpToIsPrinted
  <2> QED BY <1>2, <2>1
<1>6. t[Len(ops)] = t[p] \o After(SubSeq(ops, p + 1, Len(ops)))
  <2> HIDE DEF p
  <2> QED BY <1>2, PrintedAfter
<1>7. FormatOps(ops) = t[Len(ops)]
  BY PrintedAt
<1> QED BY <1>4, <1>5, <1>6, <1>7

-----------------------------------------------------------------------------
(***************************************************************************)
(* The readings of the runs: documents, configs and scripts like these.    *)
(***************************************************************************)

\* The texts of the runs are texts.
LEMMA TextsAreTexts == Texts(MaxLines) \subseteq Seq(Nat)
<1> SUFFICES ASSUME NEW x \in Texts(MaxLines) PROVE x \in Seq(Nat)
  OBVIOUS
<1>1. PICK k \in 0 .. MaxLines : x \in [1 .. k -> 1 .. 2]
  BY DEF Texts
<1>2. k \in Nat /\ x \in [1 .. k -> Nat]
  BY <1>1, MCApplyAssumption
<1> QED BY <1>2

\* What is read as documents are texts of the runs.
DocumentsRead == reading.of = "documents" => reading.before \in Texts(MaxLines) /\ reading.after \in Texts(MaxLines)

(***************************************************************************)
(* So of all documents with at most MaxLines lines, for any MaxLines: the  *)
(* diff an operator reads tells no change the apply would not make.        *)
(***************************************************************************)
THEOREM ScriptIsShortest == MCSpec => []ShortestScript
<1>1. MCInit => DocumentsRead
  BY DEF MCInit, Readings, DocumentsRead
<1>2. DocumentsRead /\ [MCNext]_mcVars => DocumentsRead'
  <2> SUFFICES ASSUME DocumentsRead, [MCNext]_mcVars PROVE DocumentsRead'
    OBVIOUS
  <2>1. reading' = reading \/ reading' = Nothing
    BY DEF MCNext, mcVars, HasRead, Calm, Applying
  <2>2. CASE reading' = reading
    BY <2>2 DEF DocumentsRead
  <2>3. CASE reading' = Nothing
    BY <2>3 DEF DocumentsRead, Nothing
  <2> QED BY <2>1, <2>2, <2>3
<1>3. DocumentsRead => ShortestScript
  <2> SUFFICES ASSUME DocumentsRead, reading.of = "documents" PROVE ShortestScript
    BY DEF ShortestScript
  <2>1. reading.before \in Seq(Nat) /\ reading.after \in Seq(Nat)
    BY TextsAreTexts DEF DocumentsRead
  <2> QED BY <2>1, TextsAreTexts, EditScriptIsShortest DEF ShortestScript
<1> QED BY <1>1, <1>2, <1>3, PTL DEF MCSpec

\* A script with no change drops and adds nothing.
LEMMA NoChanges ==
  ASSUME NEW ops \in Seq(OpSet), Changed(ops) = {}
  PROVE  Changes(ops) = 0
<1> DEFINE marks == {"drop", "add"}
           l == LinesTable(ops, marks)
           n == Len(ops)
           S == {k \in Nat : k <= n => l[k] = <<>>}
<1>0. n \in Nat
  OBVIOUS
<1>1. ASSUME NEW k \in 1 .. n PROVE ops[k].mark \notin marks
  <2>1. k \in DOMAIN ops
    BY <1>1
  <2> QED BY <2>1 DEF Changed, IsChange
<1>2. l[0] = <<>> /\ LinesOf(ops, marks) = l[n]
  BY LinesAt
<1>3. ASSUME NEW k \in 1 .. n PROVE l[k] = l[k - 1]
  <2> HIDE DEF marks
  <2>1. l[k] = IF ops[k].mark \in marks THEN Append(l[k - 1], ops[k].line) ELSE l[k - 1]
    BY LinesAt
  <2> QED BY <1>1, <2>1
<1> HIDE DEF n, l, marks
<1>4. 0 \in S
  BY <1>2
<1>5. ASSUME NEW k \in Nat, k \in S PROVE k + 1 \in S
  <2> SUFFICES ASSUME k + 1 <= n PROVE l[k + 1] = <<>>
    OBVIOUS
  <2>1. k + 1 \in 1 .. n /\ (k + 1) - 1 = k /\ k <= n
    BY <1>0
  <2> QED BY <1>3, <1>5, <2>1
<1>6. Nat \subseteq S
  <2> HIDE DEF S
  <2> QED BY <1>4, <1>5, UpFrom0
<1>7. LinesOf(ops, marks) = <<>>
  BY <1>0, <1>2, <1>6
<1> QED BY <1>7 DEF Changes, marks

\* The scripts of the runs are edit scripts.
LEMMA ScriptsAreScripts ==
  ASSUME NEW ops \in Scripts
  PROVE  ops \in Seq(OpSet) /\ GapFree(ops)
<1>1. PICK k \in 1 .. MaxScript : ops \in {[i \in 1 .. k |-> Op(marks[i], i)] : marks \in [1 .. k -> {"keep", "drop"}]}
  BY DEF Scripts
<1>2. PICK marks \in [1 .. k -> {"keep", "drop"}] : ops = [i \in 1 .. k |-> Op(marks[i], i)]
  BY <1>1
<1>3. k \in Nat
  BY MCApplyAssumption
<1>4. ASSUME NEW i \in 1 .. k PROVE Op(marks[i], i) \in OpSet /\ Op(marks[i], i).mark # "gap"
  <2>1. marks[i] \in {"keep", "drop"} /\ i \in Nat
    BY <1>2, <1>3
  <2> QED BY <2>1 DEF Op, OpSet
<1>5. ops \in [1 .. k -> OpSet]
  BY <1>2, <1>4
<1>6. ops \in Seq(OpSet) /\ Len(ops) = k
  BY <1>3, <1>5
<1> QED BY <1>2, <1>4, <1>6 DEF GapFree

\* What is read as a script or as configs are those of the runs.
DiffsRead ==
  /\ reading.of = "script" => reading.ops \in Scripts
  /\ reading.of = "configs" => reading.before \in MachineConfigs /\ reading.after \in MachineConfigs

(***************************************************************************)
(* Nothing that changes is hidden: the sections of two configs drop and    *)
(* add what the apply takes away and brings, and a script of at most       *)
(* MaxScript lines, for any MaxScript, is printed with its context.        *)
(***************************************************************************)
THEOREM NothingIsHidden == MCSpec => []DiffShowsChanges
<1>1. MCInit => DiffsRead
  BY DEF MCInit, Readings, DiffsRead
<1>2. DiffsRead /\ [MCNext]_mcVars => DiffsRead'
  <2> SUFFICES ASSUME DiffsRead, [MCNext]_mcVars PROVE DiffsRead'
    OBVIOUS
  <2>1. reading' = reading \/ reading' = Nothing
    BY DEF MCNext, mcVars, HasRead, Calm, Applying
  <2>2. CASE reading' = reading
    BY <2>2 DEF DiffsRead
  <2>3. CASE reading' = Nothing
    BY <2>3 DEF DiffsRead, Nothing
  <2> QED BY <2>1, <2>2, <2>3
<1>3. DiffsRead => DiffShowsChanges
  <2> SUFFICES ASSUME DiffsRead PROVE DiffShowsChanges
    OBVIOUS
  <2>1. ASSUME reading.of = "script", Changes(reading.ops) > 0 PROVE FormatOps(reading.ops) = Unified(reading.ops)
    <3>1. reading.ops \in Seq(OpSet) /\ GapFree(reading.ops)
      BY <2>1, ScriptsAreScripts DEF DiffsRead
    <3>2. Changed(reading.ops) # {}
      BY <2>1, <3>1, NoChanges
    <3> QED BY <3>1, <3>2, PrintedAsUnified
  <2>2. ASSUME reading.of = "configs" PROVE Balanced(reading.before, reading.after)
    BY <2>2, ConfigsBalance DEF DiffsRead
  <2> QED BY <2>1, <2>2 DEF DiffShowsChanges
<1> QED BY <1>1, <1>2, <1>3, PTL DEF MCSpec
=============================================================================
