---------------------------- MODULE Emit_proofs -----------------------------
(***************************************************************************)
(* Proofs about internal/emit: about talos emit for any number of files,   *)
(* assets and configs, and, under the instance Ipxe, about talos ipxe for  *)
(* any number of booty URLs.                                               *)
(***************************************************************************)
EXTENDS MCEmitArtifacts, WellFoundedInduction, TLAPS

LEMMA MinIsMember ==
  ASSUME NEW S, S \subseteq Nat, S # {}
  PROVE  Min(S) \in S
<1> DEFINE R == {p \in Nat \X Nat : p[1] < p[2]}
<1>1. IsWellFoundedOn(R, Nat)
  BY NatLessThanWellFounded DEF OpToRel
<1>2. PICK x \in S : \A y \in S : ~ (<<y, x>> \in R)
  BY <1>1, WFMin
<1>3. ASSUME NEW y \in S PROVE x <= y
  <2>1. x \in Nat /\ y \in Nat
    OBVIOUS
  <2>2. ~(y < x)
    <3>1. SUFFICES ASSUME y < x PROVE <<y, x>> \in R
      BY <1>2
    <3> QED BY <2>1, <3>1
  <2> QED BY <2>1, <2>2
<1> QED BY <1>3 DEF Min

\* The first asset that is not ready is one.
LEMMA FirstNotReady ==
  ASSUME NotReady # {}
  PROVE  Min(NotReady) \in Asset
<1>1. NotReady \subseteq Asset /\ Asset \subseteq Nat
  BY EmitAssumption DEF NotReady, Asset
<1> QED BY <1>1, MinIsMember

\* What Advance does to a run.
LEMMA Advances ==
  ASSUME TypeOK, Advance
  PROVE  \/ pos = 1 /\ pos' = 2 /\ phase' = "check" /\ result' = "none"
         \/ pos = 2 /\ pos' = 3 /\ phase' = "idle" /\ result' = "ok"
         \/ pos = 3
  BY DEF TypeOK, Advance, Last

(***************************************************************************)
(* The inductive invariant: a run is at one of the two steps, the files    *)
(* its loop has passed are those of its config, and past the tree all are. *)
(***************************************************************************)
Placed ==
  /\ phase # "idle" => pos \in {1, 2} /\ result = "none"
  /\ phase \in {"write", "fill"} => pos = 1 /\ next \in File
  /\ phase \in {"assets", "fetch", "record", "digest"} => pos = 2
  /\ phase \in {"fetch", "record", "digest"} => next \in Asset
  /\ phase = "check" => next = 1

Written ==
  /\ phase \in {"write", "fill"} => \A f \in File : f < next => files[f] = want
  /\ phase # "idle" /\ pos = 2 => \A f \in File : files[f] = want

Inv == TypeOK /\ Placed /\ Written

LEMMA InitInv == Init => Inv
<1> SUFFICES ASSUME Init PROVE Inv
  OBVIOUS
<1> USE EmitAssumption DEF Init, RunInit
<1>1. TypeOK
  BY DEF TypeOK, Content, Absent, Torn, Config, File, Asset
<1> QED BY <1>1 DEF Inv, Placed, Written

LEMMA NextInv == Inv /\ [Next]_vars => Inv'
<1> SUFFICES ASSUME Inv, [Next]_vars PROVE Inv'
  OBVIOUS
<1>0. TypeOK /\ Placed /\ Written
  BY DEF Inv
<1>t. 1 \in File /\ 1 \in Asset /\ 1 \in Nat
  BY EmitAssumption DEF File, Asset
<1> USE DEF Inv, Placed, Written
<1>1. CASE EditConfig
  BY <1>0, <1>1, EmitAssumption DEF EditConfig, TypeOK, Config, disk
<1>2. CASE RestartBooty
  BY <1>0, <1>2 DEF RestartBooty, TypeOK, disk
<1>3. CASE \E a \in Asset : DeleteAsset(a) \/ Rots(a)
  BY <1>0, <1>3 DEF DeleteAsset, Rots, TypeOK, others
<1>4. CASE Begin
  BY <1>0, <1>4, <1>t DEF Begin, StartRun, TypeOK, disk, others
<1>5. CASE TreeDone
  BY <1>0, <1>5, <1>t, Advances DEF TreeDone, SkipStep, Diff, TypeOK, disk, others
<1>6. CASE TreePending
  BY <1>0, <1>6, <1>t, EmitAssumption DEF TreePending, Enter, Goto, TypeOK, File, disk, others
<1>7. CASE Truncate
  <2>1. files' \in [File -> Content] /\ \A f \in File : f < next => files'[f] = files[f]
    BY <1>0, <1>7, EmitAssumption DEF Truncate, TypeOK, Content, Torn, File
  <2> QED BY <1>0, <1>7, <2>1 DEF Truncate, Goto, TypeOK, others
<1>8. CASE Fill
  <2>1. files' \in [File -> Content] /\ next \in File /\ \A f \in File : f <= next => files'[f] = want
    BY <1>0, <1>8, EmitAssumption DEF Fill, TypeOK, Content, Config, File
  <2>2. CASE next = Files
    <3>1. Advance /\ next' = 1 /\ applied' = applied \cup {pos} /\ pos = 1
      BY <1>0, <1>8, <2>2 DEF Fill, StepApplied
    <3>2. pos' = 2 /\ phase' = "check" /\ result' = "none"
      BY <3>1 DEF Advance, Last
    <3>3. \A f \in File : f <= next
      BY <2>2, EmitAssumption DEF File
    <3>4. UNCHANGED <<others, asset, sidecar, want>>
      BY <1>8 DEF Fill
    <3> QED BY <1>0, <1>t, <2>1, <3>1, <3>2, <3>3, <3>4 DEF TypeOK, others
  <2>3. CASE next # Files
    <3>1. Goto("write") /\ next' = next + 1 /\ next' \in File /\ \A f \in File : f < next' => f <= next
      BY <1>8, <2>1, <2>3, EmitAssumption DEF Fill, File
    <3>2. phase = "fill" /\ UNCHANGED <<others, asset, sidecar, want>>
      BY <1>8 DEF Fill
    <3>3. next' \in Nat /\ pos' = 1
      BY <1>0, <3>1, <3>2 DEF Goto, File
    <3> QED BY <1>0, <2>1, <3>1, <3>2, <3>3 DEF Goto, TypeOK, others
  <2> QED BY <2>2, <2>3
<1>9. CASE AssetsDone \/ AllAssets
  <2>1. Advance /\ pos = 2 /\ UNCHANGED <<config, served, files, asset, sidecar, want, next>>
    BY <1>0, <1>9 DEF AssetsDone, AllAssets, SkipStep, StepApplied, disk
  <2>2. applied' \subseteq 1 .. 2 /\ told' \in {"restart", "nothing"}
    <3>1. applied' = applied \/ applied' = applied \cup {2}
      BY <1>9, <2>1 DEF AssetsDone, AllAssets, SkipStep, StepApplied
    <3>2. told' = "restart" \/ told' = told
      BY <1>9 DEF AssetsDone, AllAssets, Summary
    <3>3. applied \subseteq 1 .. 2 /\ told \in {"restart", "nothing"} /\ 2 \in 1 .. 2
      BY <1>0 DEF TypeOK
    <3>4. applied' \subseteq 1 .. 2
      BY <3>1, <3>3
    <3> QED BY <3>2, <3>3, <3>4
  <2>3. pos' = 3 /\ phase' = "idle" /\ result' = "ok"
    BY <2>1 DEF Advance, Last
  <2> QED BY <1>0, <2>1, <2>2, <2>3 DEF TypeOK
<1>10. CASE AssetsPending
  BY <1>0, <1>10 DEF AssetsPending, Enter, Goto, TypeOK, disk, others
<1>11. CASE Mismatch \/ Stop
  BY <1>0, <1>11 DEF Mismatch, Stop, Fail, Kill, TypeOK, disk, others
<1>12. CASE NextAsset
  BY <1>0, <1>12, FirstNotReady, EmitAssumption DEF NextAsset, Goto, TypeOK, Asset, disk, others
<1>13. CASE Fetch
  BY <1>0, <1>13 DEF Fetch, Goto, TypeOK, others
<1>14. CASE Record \/ Digest
  BY <1>0, <1>14 DEF Record, Digest, Goto, TypeOK, others
<1>15. CASE UNCHANGED vars
  BY <1>0, <1>15 DEF vars, disk, others, TypeOK
<1> QED
  BY <1>1, <1>2, <1>3, <1>4, <1>5, <1>6, <1>7, <1>8, <1>9, <1>10, <1>11, <1>12, <1>13, <1>14, <1>15
  DEF Next, Operator, Run

(***************************************************************************)
(* The variables keep their types: the loops stay within the tree and the  *)
(* assets.                                                                 *)
(***************************************************************************)
THEOREM TypeCorrect == Spec => []TypeOK
<1>1. Inv => TypeOK
  BY DEF Inv
<1> QED BY <1>1, InitInv, NextInv, PTL DEF Spec

(***************************************************************************)
(* A run that returns no error has the tree of its config and every asset  *)
(* on disk, whichever runs stopped halfway before (emit, cmd/talos.go).    *)
(***************************************************************************)
THEOREM OkEmitted == Spec => OkMeansEmitted
<1> DEFINE Emitted == result' = "ok" /\ result # "ok" =>
                        /\ \A f \in File : files'[f] = want'
                        /\ \A a \in Asset : asset'[a] = "image"
<1>1. Inv /\ [Next]_vars => [Emitted]_vars
  <2> SUFFICES ASSUME Inv, Next, result' = "ok", result # "ok"
               PROVE  /\ \A f \in File : files'[f] = want'
                      /\ \A a \in Asset : asset'[a] = "image"
    OBVIOUS
  <2>1. AssetsDone \/ AllAssets
    BY Advances
    DEF Inv, Placed, Next, Operator, Run, EditConfig, RestartBooty, DeleteAsset, Rots, Begin, StartRun,
        TreeDone, SkipStep, TreePending, Enter, Goto, Truncate, Fill, StepApplied, AssetsPending, Mismatch, Fail,
        NextAsset, Fetch, Record, Digest, Stop, Kill
  <2>2. \A f \in File : files'[f] = want'
    BY <2>1 DEF Inv, Placed, Written, AssetsDone, AllAssets, disk
  <2>3. ASSUME NEW a \in Asset PROVE asset'[a] = "image"
    <3>1. Status(a) = "ready"
      BY <2>1 DEF AssetsDone, AllAssets, NotReady
    <3>2. asset[a] = sidecar[a] /\ sidecar[a] # "absent"
      BY <3>1 DEF Status
    <3> QED BY <2>1, <3>2 DEF Inv, TypeOK, AssetsDone, AllAssets, disk
  <2> QED BY <2>2, <2>3
<1> QED BY <1>1, InitInv, NextInv, PTL DEF Spec, OkMeansEmitted
-----------------------------------------------------------------------------
(***************************************************************************)
(* Why a stale booty has been told about.  Configs only get newer, so no   *)
(* file is of one the operator has not reached.  While no run has stopped  *)
(* short of its summary, a tree that differs from the served one was       *)
(* announced already, or the run that is going on has written it and will  *)
(* say so at its end, or it is not the tree of the latest run: then the    *)
(* next run, of the same config or a newer one, will write.                *)
(***************************************************************************)
NotAhead == want <= config /\ \A f \in File : files[f] <= want \/ files[f] = Torn
Complete == result = "ok" => Diff = {}
Announced ==
  stopped = "no" => served = files \/ told = "restart" \/ HasWritten \/ Diff # {}

AnnouncedInv == Inv /\ NotAhead /\ Complete /\ Announced

LEMMA MCNextIsNext == MCNext => Next
  BY DeletesAssumption DEF MCNext, Normal, Restart, Edit, Next, Operator

\* A config is never taken back, and a run loads the latest.
LEMMA NextNotAhead == Inv /\ NotAhead /\ [Next]_vars => NotAhead'
<1> SUFFICES ASSUME Inv, NotAhead, [Next]_vars PROVE NotAhead'
  OBVIOUS
<1> USE DEF NotAhead
<1>0. TypeOK /\ Placed /\ config \in Nat /\ want \in Nat /\ \A f \in File : files[f] \in Nat
  BY EmitAssumption DEF Inv, TypeOK, Config, Content, Absent, Torn
<1>1. CASE UNCHANGED <<config, want, files>>
  BY <1>1
<1>2. CASE EditConfig
  BY <1>0, <1>2 DEF EditConfig, disk
<1>3. CASE Begin
  BY <1>0, <1>3 DEF Begin, others, disk
<1>4. CASE Truncate
  BY <1>0, <1>4 DEF Truncate, others, TypeOK
<1>5. CASE Fill
  BY <1>0, <1>5 DEF Fill, others, TypeOK
<1> QED
  BY <1>1, <1>2, <1>3, <1>4, <1>5
  DEF Next, Operator, Run, RestartBooty, DeleteAsset, Rots, TreeDone, TreePending, AssetsDone, AssetsPending,
      Mismatch, NextAsset, AllAssets, Fetch, Record, Digest, Stop, vars, disk, others

\* A run ends well past the tree, and nothing undoes the tree between runs.
LEMMA NextComplete == Inv /\ Complete /\ [Next]_vars => Complete'
<1> SUFFICES ASSUME Inv, Complete, [Next]_vars, result' = "ok" PROVE Diff' = {}
  BY DEF Complete
<1>0. TypeOK /\ Placed /\ Written
  BY DEF Inv
<1>1. CASE AssetsDone \/ AllAssets
  <2>1. Diff = {}
    BY <1>0, <1>1 DEF Placed, Written, AssetsDone, AllAssets, Diff
  <2> QED BY <1>1, <2>1 DEF AssetsDone, AllAssets, Diff, disk
<1>2. CASE UNCHANGED <<result, files, want>>
  BY <1>2 DEF Complete, Diff
<1> QED
  BY <1>0, <1>1, <1>2, Advances
  DEF Placed, Next, Operator, Run, EditConfig, RestartBooty, DeleteAsset, Rots, Begin, StartRun, TreeDone, SkipStep,
      TreePending, Enter, Goto, Truncate, Fill, StepApplied, AssetsPending, Mismatch, Fail, NextAsset, Fetch, Record,
      Digest, Stop, Kill, vars, disk, others

\* A run of another config than the last one finds a tree to write.
LEMMA BeginDiffers == Inv /\ NotAhead /\ Begin /\ Diff # {} => Diff' # {}
<1> SUFFICES ASSUME Inv, NotAhead, Begin, Diff # {} PROVE Diff' # {}
  OBVIOUS
<1>1. want' = config /\ files' = files /\ want <= config
  BY DEF Begin, disk, NotAhead
<1>2. CASE config = want
  BY <1>1, <1>2 DEF Diff
<1>3. CASE config # want
  <2>1. 1 \in File /\ config \in Config /\ want \in Config
    BY EmitAssumption DEF Inv, TypeOK, File
  <2>2. files[1] # config
    BY <1>1, <1>3, <2>1, EmitAssumption DEF NotAhead, Config, Torn
  <2> QED BY <1>1, <2>1, <2>2 DEF Diff
<1> QED BY <1>2, <1>3

LEMMA NextAnnounced == AnnouncedInv /\ [MCNext]_mcVars => AnnouncedInv'
<1> SUFFICES ASSUME AnnouncedInv, [MCNext]_mcVars, stopped' = "no" PROVE Announced'
  BY NextInv, NextNotAhead, NextComplete, MCNextIsNext DEF AnnouncedInv, Announced, mcVars
<1>0. Inv /\ Placed /\ Written /\ NotAhead /\ Announced
  BY DEF AnnouncedInv, Inv
<1> USE DEF Announced
<1>1. ASSUME Remember, Begin PROVE Announced'
  <2>1. stopped = "no" /\ phase = "idle" /\ UNCHANGED <<served, files, told>>
    BY <1>1 DEF Begin, StartRun, others, disk, Remember
  <2> QED BY <1>0, <1>1, <2>1, BeginDiffers DEF HasWritten
<1>2. ASSUME Remember, \E a \in Asset : DeleteAsset(a) \/ Rots(a) PROVE Announced'
  BY <1>0, <1>2 DEF Remember, DeleteAsset, Rots, others, HasWritten, Diff
<1>3. CASE Remember /\ Run
  <2>1. stopped = "no"
    BY <1>3 DEF Remember
  <2>2. CASE TreeDone \/ TreePending \/ AssetsPending \/ NextAsset
    BY <1>0, <2>1, <2>2
    DEF TreeDone, TreePending, AssetsPending, NextAsset, SkipStep, Advance, Last, Enter, Goto, others, disk,
        HasWritten, Diff
  <2>3. CASE Truncate
    BY <2>3 DEF Truncate, Goto, HasWritten
  <2>4. CASE Fill
    <3>1. phase' = "write" \/ (phase' = "check" /\ 1 \in applied')
      BY <1>0, <2>4 DEF Fill, StepApplied, Advance, Last, Goto, Placed
    <3> QED BY <3>1 DEF HasWritten
  <2>5. CASE AssetsDone \/ AllAssets
    <3>1. Advance /\ pos = 2 /\ UNCHANGED <<served, files>>
      BY <1>0, <2>5 DEF AssetsDone, AllAssets, SkipStep, StepApplied, Placed, disk
    <3>2. phase' = "idle"
      BY <3>1 DEF Advance, Last
    <3>3. told' = (IF applied' # {} THEN "restart" ELSE told) /\ applied \subseteq applied'
      BY <2>5, <3>2 DEF AssetsDone, AllAssets, SkipStep, StepApplied, Summary
    <3>4. phase \notin {"write", "fill"} /\ Diff = {}
      BY <1>0, <2>5 DEF AssetsDone, AllAssets, SkipStep, Written, Diff, Placed
    <3> QED BY <1>0, <2>1, <3>1, <3>3, <3>4 DEF HasWritten
  <2>6. CASE Fetch \/ Record \/ Digest
    BY <1>0, <2>1, <2>6 DEF Fetch, Record, Digest, Goto, others, HasWritten, Diff, Placed
  <2>7. CASE Mismatch
    <3>1. phase' = "idle" /\ result' # "ok" /\ UNCHANGED <<served, files, told, want>>
      BY <2>7 DEF Mismatch, Fail, others, disk
    <3>2. ~Renewed
      BY <1>3, <3>1 DEF Remember, StopsShort
    <3> QED BY <1>0, <2>1, <3>1, <3>2 DEF Renewed, Diff
  <2> QED BY <1>3, <2>2, <2>3, <2>4, <2>5, <2>6, <2>7 DEF Run
<1>4. CASE Remember /\ Stop
  <2>1. phase' = "idle" /\ result' # "ok" /\ UNCHANGED <<served, files, told, want>>
    BY <1>0, <1>4 DEF Stop, Fail, Kill, Placed, others, disk
  <2>2. stopped = "no" /\ ~Renewed
    BY <1>4, <2>1 DEF Remember, StopsShort
  <2> QED BY <1>0, <2>1, <2>2 DEF Renewed, Diff
<1>5. CASE Restart
  BY <1>5 DEF Restart, RestartBooty, disk
<1>6. CASE Edit
  BY <1>0, <1>6 DEF Edit, Remember, EditConfig, disk, HasWritten, Diff
<1>7. CASE UNCHANGED mcVars
  BY <1>0, <1>7 DEF mcVars, vars, others, disk, HasWritten, Diff
<1> QED BY <1>1, <1>2, <1>3, <1>4, <1>5, <1>6, <1>7, DeletesAssumption DEF MCNext, Normal

(***************************************************************************)
(* After a run that returns no error booty serves what is on disk or the   *)
(* operator has been told to restart it, unless since the last restart a   *)
(* run stopped between bringing the tree up to date and its summary        *)
(* (emitSummary, cmd/talos.go).                                            *)
(***************************************************************************)
THEOREM StaleIsTold == MCSpec => []StaleMeansToldOrStopped
<1>1. MCInit => AnnouncedInv
  <2> SUFFICES ASSUME MCInit PROVE AnnouncedInv
    OBVIOUS
  <2>1. Inv /\ served = files /\ result # "ok" /\ want = 1 /\ config = 1
    BY InitInv DEF MCInit, Init, RunInit
  <2>2. NotAhead
    BY <2>1, EmitAssumption DEF MCInit, Init, NotAhead, Absent
  <2> QED BY <2>1, <2>2 DEF AnnouncedInv, Complete, Announced
<1>2. AnnouncedInv => StaleMeansToldOrStopped
  <2> SUFFICES ASSUME AnnouncedInv, stopped = "no", result = "ok", served # files PROVE told = "restart"
    BY DEF StaleMeansToldOrStopped, StaleMeansTold
  <2>1. phase = "idle" /\ Diff = {}
    BY DEF AnnouncedInv, Inv, Placed, Complete
  <2> QED BY <2>1 DEF AnnouncedInv, Announced, HasWritten
<1> QED BY <1>1, <1>2, NextAnnounced, PTL DEF MCSpec
-----------------------------------------------------------------------------
(***************************************************************************)
(* The stage implements the engine's contract.  The tree holds from the    *)
(* moment its last file is full: before, it counts as being written, even  *)
(* in the instants in which its files happen to match.                     *)
(***************************************************************************)
LEMMA StageInit == Init => Stage!Init
  BY DEF Init, RunInit, Stage!Init, Mode, Holds, Stage!Step, Last

\* Nothing but the next run, with its own config, undoes the tree.
LEMMA TreeHolds ==
  ASSUME Inv, [Next]_vars, ~Begin
  PROVE  Holds' \in SUBSET Stage!Step /\ Stage!WorldMoves
<1>1. Holds' \subseteq 1 .. 2
  BY DEF Holds
<1>2. ASSUME 1 \in Holds PROVE 1 \in Holds'
  <2>1. \A f \in File : files[f] = want
    BY <1>2 DEF Holds, Diff
  <2>2. phase \notin {"write", "fill"}
    BY <1>2 DEF Holds
  <2>3. UNCHANGED <<files, want>>
    BY <2>2
    DEF Next, Operator, Run, EditConfig, RestartBooty, DeleteAsset, Rots, TreeDone, TreePending, Truncate, Fill,
        AssetsDone, AssetsPending, Mismatch, NextAsset, AllAssets, Fetch, Record, Digest, Stop, vars, disk, others
  <2>4. phase' \notin {"write", "fill"}
    <3>1. ~TreePending
      BY <2>1 DEF TreePending, Diff
    <3> QED
      BY <2>2, <3>1
      DEF Next, Operator, Run, EditConfig, RestartBooty, DeleteAsset, Rots, TreeDone, SkipStep, Advance, Truncate,
          Fill, AssetsDone, AssetsPending, Enter, Goto, Mismatch, NextAsset, AllAssets, StepApplied, Fetch, Record,
          Digest, Stop, Fail, Kill, vars
  <2> QED BY <2>1, <2>3, <2>4 DEF Holds, Diff
<1> QED BY <1>1, <1>2 DEF Stage!WorldMoves, Stage!WorldMay, Stage!Step, Last

LEMMA StageNext == Inv /\ [Next]_vars => [Stage!Next]_(Stage!vars)
<1> SUFFICES ASSUME Inv, [Next]_vars PROVE [Stage!Next]_(Stage!vars)
  OBVIOUS
<1>0. TypeOK /\ Placed /\ Written
  BY DEF Inv
<1>1. CASE Begin
  <2>1. Holds' \in SUBSET Stage!Step
    BY DEF Holds, Stage!Step, Last
  <2> QED BY <1>1, <2>1 DEF Begin, StartRun, Stage!StartRun, Stage!Next, Mode
<1> SUFFICES ASSUME ~Begin PROVE [Stage!Next]_(Stage!vars)
  BY <1>1
<1>h. Holds' \in SUBSET Stage!Step /\ Stage!WorldMoves
  BY TreeHolds
\* What moves only the world, and what stays within Apply.
<1>w. ASSUME Mode' = Mode, UNCHANGED <<pos, applied, result>> PROVE Stage!Next
  BY <1>h, <1>w DEF Stage!World, Stage!run, Stage!Next
<1>d. ASSUME phase \notin {"idle", "check"}, StepApplied, pos \in Holds' PROVE Stage!Next
  BY <1>h, <1>d DEF StepApplied, Advance, Stage!ApplyDone, Stage!Advance, Stage!WorldMoves, Stage!WorldMay,
                    Stage!Next, Stage!Run, Mode
<1>c. ASSUME phase = "check", UNCHANGED disk, UNCHANGED want, phase' \notin {"write", "fill"}
      PROVE  Holds' = Holds
  BY <1>c DEF Holds, Diff, NotReady, Status, disk
<1>2. CASE TreeDone \/ AssetsDone
  <2>1. phase = "check" /\ SkipStep /\ UNCHANGED disk /\ UNCHANGED want
    BY <1>2 DEF TreeDone, AssetsDone
  <2>2. Holds' = Holds
    BY <2>1, <1>c DEF SkipStep, Advance
  <2>3. pos \in Holds
    BY <1>2 DEF TreeDone, AssetsDone, Holds
  <2> QED BY <2>1, <2>2, <2>3 DEF SkipStep, Advance, Stage!CheckDone, Stage!Advance, Stage!Next, Stage!Run, Mode
<1>3. CASE TreePending \/ AssetsPending
  <2>1. phase = "check" /\ UNCHANGED disk /\ UNCHANGED <<want, pos, applied, result>> /\ phase' \in {"write", "assets"}
    BY <1>3 DEF TreePending, AssetsPending, Enter, Goto
  <2>2. pos \notin Holds
    BY <1>3 DEF TreePending, AssetsPending, Holds
  <2>3. Holds' = Holds
    <3>1. CASE TreePending
      BY <2>1, <3>1 DEF TreePending, Holds, Diff, NotReady, Status, disk
    <3>2. CASE AssetsPending
      BY <2>1, <3>2, <1>c DEF AssetsPending, Enter, Goto
    <3> QED BY <1>3, <3>1, <3>2
  <2> QED BY <2>1, <2>2, <2>3 DEF Stage!CheckPending, Stage!Next, Stage!Run, Mode
<1>4. CASE Truncate \/ NextAsset \/ Fetch \/ Record \/ Digest
  BY <1>4, <1>w DEF Truncate, NextAsset, Fetch, Record, Digest, Goto, Mode
<1>5. CASE Fill
  <2>1. CASE next = Files
    <3>1. StepApplied /\ pos = 1 /\ phase = "fill" /\ want' = want
      BY <1>0, <1>5, <2>1 DEF Fill, Placed
    <3>2. \A f \in File : files'[f] = want
      BY <1>0, <1>5, <2>1, EmitAssumption DEF Fill, TypeOK, Written, File
    <3>3. phase' = "check"
      BY <3>1 DEF StepApplied, Advance, Last
    <3> QED BY <1>d, <3>1, <3>2, <3>3 DEF Holds, Diff
  <2>2. CASE next # Files
    BY <1>5, <1>w, <2>2 DEF Fill, Goto, Mode
  <2> QED BY <2>1, <2>2
<1>6. CASE AllAssets
  <2>1. pos = 2 /\ NotReady = {} /\ StepApplied /\ phase = "assets" /\ UNCHANGED <<files, asset, sidecar>>
    BY <1>0, <1>6 DEF AllAssets, Placed, disk
  <2>2. NotReady' = {}
    BY <2>1 DEF NotReady, Status
  <2> QED BY <1>d, <2>1, <2>2 DEF Holds
<1>7. CASE Mismatch \/ Stop
  <2>1. (Fail \/ Kill) /\ UNCHANGED disk /\ UNCHANGED want
    BY <1>7 DEF Mismatch, Stop
  <2>2. CASE Fail /\ phase = "check"
    BY <1>c, <2>1, <2>2 DEF Fail, Stage!CheckError, Stage!Fail, Stage!Next, Stage!Fault, Mode
  <2>3. CASE Fail /\ phase # "check"
    BY <1>h, <2>3 DEF Fail, Stage!ApplyError, Stage!Fail, Stage!Next, Stage!Fault, Mode
  <2>4. CASE Kill
    BY <1>h, <2>4 DEF Kill, Stage!Interrupt, Stage!Next, Stage!Fault, Mode
  <2> QED BY <2>1, <2>2, <2>3, <2>4
<1>8. CASE EditConfig \/ RestartBooty \/ (\E a \in Asset : DeleteAsset(a) \/ Rots(a)) \/ UNCHANGED vars
  BY <1>8, <1>w DEF EditConfig, RestartBooty, DeleteAsset, Rots, vars, Mode
<1> QED
  BY <1>2, <1>3, <1>4, <1>5, <1>6, <1>7, <1>8 DEF Next, Operator, Run

(***************************************************************************)
(* talos emit is a stage of the engine: tree before assets, the first      *)
(* failure stops the run, a step returns success only once the tree is the *)
(* config's or every asset is vouched for, both checks are exact, and      *)
(* nothing undoes a written tree before the next run.                      *)
(***************************************************************************)
THEOREM EmitImplementsStage == Spec => ImplementsStage
  BY StageInit, NextInv, InitInv, StageNext, PTL DEF Spec, ImplementsStage, Stage!Spec
-----------------------------------------------------------------------------
(***************************************************************************)
(* What the engine guarantees for every stage, it guarantees for this one  *)
(* (see PveForm_proofs).                                                   *)
(***************************************************************************)
Engine ==
  INSTANCE Steps_proofs WITH
    Stable <- {1}, Exact <- {1, 2},
    holds <- Holds, kind <- "run", mode <- Mode, pending <- {},
    MaxFaults <- 0, faults <- 0, missing <- {}

LEMMA SameEngine == Stage!Spec => Engine!Spec
<1>1. Stage!Init => Engine!Init
  BY DEF Stage!Init, Engine!Init, Stage!Step, Engine!Step
<1>2. [Stage!Next]_(Stage!vars) => [Engine!Next]_(Engine!vars)
  BY DEF Stage!Next, Stage!vars, Stage!run, Stage!Step, Stage!World, Stage!WorldMoves, Stage!WorldMay,
         Stage!StartRun, Stage!NoStage, Stage!Advance, Stage!Fail, Stage!Run, Stage!CheckDone,
         Stage!CheckPending, Stage!ApplyDone, Stage!Fault, Stage!CheckError, Stage!ApplyError, Stage!Interrupt,
         Engine!Next, Engine!vars, Engine!run, Engine!Step, Engine!World, Engine!WorldMoves, Engine!WorldMay,
         Engine!StartRun, Engine!NoStage, Engine!Advance, Engine!Fail, Engine!Run, Engine!CheckDone,
         Engine!CheckPending, Engine!ApplyDone, Engine!Fault, Engine!CheckError, Engine!ApplyError,
         Engine!Interrupt
<1> QED BY <1>1, <1>2, PTL DEF Stage!Spec, Engine!Spec

(***************************************************************************)
(* Assets are only looked at once the whole tree is of the config the run  *)
(* has loaded, and it stays so until the next run, however that one ends.  *)
(***************************************************************************)
THEOREM TreeBeforeAssets == Spec => [](Stage!EarlierHold /\ Stage!ConvergedWhenOk)
<1>1. Engine!StageAssumption
  BY DEF Engine!StageAssumption, Last
<1>2. Engine!Spec => []Engine!EarlierHold /\ []Engine!ConvergedWhenOk
  BY <1>1, Engine!StepsInOrder, Engine!OkConverged
<1>3. Engine!EarlierHold /\ Engine!ConvergedWhenOk => Stage!EarlierHold /\ Stage!ConvergedWhenOk
  BY DEF Engine!EarlierHold, Engine!ConvergedWhenOk, Stage!EarlierHold, Stage!ConvergedWhenOk
<1> QED BY EmitImplementsStage, SameEngine, <1>2, <1>3, PTL DEF ImplementsStage
-----------------------------------------------------------------------------
(***************************************************************************)
(* talos ipxe.  Its stage has a state of its own, but for the run's.  The  *)
(* stamp is only honest while no URL comes back (Edits = "new"): the run   *)
(* ipxe_revert shows what happens otherwise.                               *)
(***************************************************************************)
CONSTANTS Urls, Edits
VARIABLES url, embed, binary, stamp, build, orphans
Ipxe == INSTANCE IpxeBuild

LEMMA IpxeInitType ==
  ASSUME Urls \in Nat \ {0}, Ipxe!Init PROVE Ipxe!TypeOK
<1>1. 1 \in Ipxe!Url /\ Ipxe!Absent \in Ipxe!Content
  <2>1. Urls \in Nat /\ Urls # 0
    OBVIOUS
  <2>2. 1 \in Ipxe!Url
    BY <2>1 DEF Ipxe!Url
  <2> QED BY <2>2 DEF Ipxe!Content
<1>2. Ipxe!NoBuild \in Ipxe!Build
  BY DEF Ipxe!NoBuild, Ipxe!Build
<1> QED BY <1>1, <1>2 DEF Ipxe!Init, Ipxe!RunInit, Ipxe!TypeOK

\* What one step of a container may change.
LEMMA IpxeWorks ==
  ASSUME Ipxe!TypeOK, NEW b \in Ipxe!Build, NEW c \in Ipxe!Build, Ipxe!Works(b, c)
  PROVE  binary' \in Ipxe!Content /\ b # Ipxe!NoBuild
  BY DEF Ipxe!TypeOK, Ipxe!Works, Ipxe!Build, Ipxe!NoBuild, Ipxe!Content, Ipxe!Url, Ipxe!Absent, Ipxe!Torn

\* The run ends after its only step.
LEMMA IpxeAdvances ==
  ASSUME Ipxe!TypeOK, phase # "idle", Ipxe!Advance
  PROVE  pos = 1 /\ pos' = 2 /\ phase' = "idle" /\ result' = "ok"
<1>1. pos = 1
  BY DEF Ipxe!TypeOK
<1> QED BY <1>1 DEF Ipxe!Advance, Ipxe!Last

LEMMA IpxeNextType ==
  ASSUME Urls \in Nat \ {0}, Ipxe!TypeOK, [Ipxe!Next]_(Ipxe!vars)
  PROVE  Ipxe!TypeOK'
<1> USE DEF Ipxe!TypeOK
<1>1. CASE Ipxe!EditConfig
  BY <1>1 DEF Ipxe!EditConfig, Ipxe!files
<1>2. CASE Ipxe!Emit
  BY <1>2 DEF Ipxe!Emit, Ipxe!Content
<1>3. CASE Ipxe!Begin
  BY <1>3 DEF Ipxe!Begin, Ipxe!StartRun, Ipxe!files
<1>4. CASE Ipxe!CheckDone
  BY <1>4, IpxeAdvances DEF Ipxe!CheckDone, Ipxe!SkipStep, Ipxe!files
<1>5. CASE Ipxe!CheckPending
  BY <1>5 DEF Ipxe!CheckPending, Ipxe!Enter, Ipxe!Goto, Ipxe!files
<1>6. CASE Ipxe!ScriptCurrent
  BY <1>6 DEF Ipxe!ScriptCurrent, Ipxe!Goto, Ipxe!files, Ipxe!Build, Ipxe!NoBuild
<1>7. CASE Ipxe!ScriptStale
  BY <1>7 DEF Ipxe!ScriptStale, Ipxe!Fail, Ipxe!files
<1>8. CASE Ipxe!BuildWorks
  BY <1>8, IpxeWorks DEF Ipxe!BuildWorks
<1>9. CASE Ipxe!OrphanWorks
  BY <1>9, IpxeWorks DEF Ipxe!OrphanWorks
<1>10. CASE Ipxe!DockerDone
  BY <1>10 DEF Ipxe!DockerDone, Ipxe!Goto, Ipxe!files, Ipxe!Build, Ipxe!NoBuild
<1>11. CASE Ipxe!Stamp
  BY <1>11 DEF Ipxe!Stamp, Ipxe!Goto, Ipxe!Content
<1>12. CASE Ipxe!StampWritten
  BY <1>12, IpxeAdvances DEF Ipxe!StampWritten, Ipxe!StepApplied, Ipxe!Content
<1>13. CASE Ipxe!Stop
  BY <1>13 DEF Ipxe!Stop, Ipxe!Fail, Ipxe!Kill, Ipxe!files, Ipxe!Build, Ipxe!NoBuild
<1>14. CASE UNCHANGED Ipxe!vars
  BY <1>14 DEF Ipxe!vars, Ipxe!files
<1> QED
  BY <1>1, <1>2, <1>3, <1>4, <1>5, <1>6, <1>7, <1>8, <1>9, <1>10, <1>11, <1>12, <1>13, <1>14
  DEF Ipxe!Next, Ipxe!Run

(***************************************************************************)
(* The state keeps its types, torn files and stopped containers included.  *)
(***************************************************************************)
THEOREM IpxeTypeCorrect ==
  ASSUME Urls \in Nat \ {0}
  PROVE  Ipxe!Spec => []Ipxe!TypeOK
<1>1. Ipxe!Init => Ipxe!TypeOK
  BY IpxeInitType
<1>2. Ipxe!TypeOK /\ [Ipxe!Next]_(Ipxe!vars) => Ipxe!TypeOK'
  BY IpxeNextType
<1> QED BY <1>1, <1>2, PTL DEF Ipxe!Spec
-----------------------------------------------------------------------------
(***************************************************************************)
(* Why the stamp is honest.  A step is only applied while the stamp does   *)
(* not name the current URL, its container is the only one that writes the *)
(* binary, and the stamp names a URL no newer than the config's: so the    *)
(* old stamp cannot become right again by an edit.                         *)
(***************************************************************************)
NotNewer == stamp \in Ipxe!Url => stamp <= url

RunOfUrl ==
  phase # "idle" => want = url /\ result = "none"

Building ==
  /\ binary = Ipxe!Absent => stamp = Ipxe!Absent
  /\ phase \in {"embed", "docker"} => stamp # url
  /\ phase = "docker" =>
       /\ embed = url
       /\ build.at \in {"copy", "copying", "done"} => build.from = url
       /\ build.at = "done" => binary # Ipxe!Absent /\ (orphans = {} => binary = url)
  /\ phase \in {"stamp", "digest"} => binary # Ipxe!Absent /\ (orphans = {} => binary = url)

IpxeInv ==
  Ipxe!TypeOK /\ NotNewer /\ RunOfUrl /\ Building /\ Ipxe!StampVouches /\ Ipxe!OkMeansBuilt

LEMMA IpxeInitInv ==
  ASSUME Urls \in Nat \ {0}, Ipxe!Init PROVE IpxeInv
  BY IpxeInitType
  DEF Ipxe!Init, Ipxe!RunInit, IpxeInv, NotNewer, RunOfUrl, Building, Ipxe!StampVouches, Ipxe!OkMeansBuilt,
      Ipxe!Url, Ipxe!Absent

LEMMA IpxeNextInv ==
  ASSUME Urls \in Nat \ {0}, Edits = "new", IpxeInv, [Ipxe!Next]_(Ipxe!vars)
  PROVE  IpxeInv'
<1> USE DEF IpxeInv, NotNewer, RunOfUrl, Building, Ipxe!StampVouches, Ipxe!OkMeansBuilt
<1>0. Ipxe!TypeOK'
  BY IpxeNextType DEF IpxeInv
<1>1. CASE Ipxe!EditConfig
  BY <1>0, <1>1 DEF Ipxe!EditConfig, Ipxe!files, Ipxe!TypeOK, Ipxe!Url, Ipxe!Content, Ipxe!Absent, Ipxe!Torn
<1>2. CASE Ipxe!Emit
  BY <1>0, <1>2 DEF Ipxe!Emit
<1>3. CASE Ipxe!Begin
  BY <1>0, <1>3 DEF Ipxe!Begin, Ipxe!StartRun, Ipxe!files, Ipxe!TypeOK, Ipxe!Url
<1>4. CASE Ipxe!CheckDone
  BY <1>0, <1>4 DEF Ipxe!CheckDone, Ipxe!Stamped, Ipxe!SkipStep, Ipxe!Advance, Ipxe!files, Ipxe!TypeOK, Ipxe!Last
<1>5. CASE Ipxe!CheckPending
  BY <1>0, <1>5 DEF Ipxe!CheckPending, Ipxe!Stamped, Ipxe!Enter, Ipxe!Goto, Ipxe!files, Ipxe!TypeOK, Ipxe!Url, Ipxe!Absent
<1>6. CASE Ipxe!ScriptCurrent
  BY <1>0, <1>6 DEF Ipxe!ScriptCurrent, Ipxe!Goto, Ipxe!files
<1>7. CASE Ipxe!ScriptStale
  BY <1>0, <1>7 DEF Ipxe!ScriptStale, Ipxe!Fail, Ipxe!files
<1>8. CASE Ipxe!BuildWorks
  <2>1. phase = "docker"
    BY <1>8, IpxeWorks DEF Ipxe!BuildWorks, Ipxe!TypeOK
  <2>2. PICK c \in Ipxe!Build : Ipxe!Works(build, c) /\ build' = c
    BY <1>8 DEF Ipxe!BuildWorks
  <2>3. \/ binary' # Ipxe!Absent /\ (c.at = "done" => binary' = url)
        \/ binary' = binary /\ c.at = "copy"
    BY <2>1, <2>2 DEF Ipxe!Works, Ipxe!Absent, Ipxe!Torn, Ipxe!TypeOK, Ipxe!Build, Ipxe!Url
  <2>4. c.at \in {"copy", "copying", "done"} => c.from = url
    BY <2>1, <2>2 DEF Ipxe!Works, Ipxe!TypeOK, Ipxe!Build
  <2> QED BY <1>0, <1>8, <2>1, <2>2, <2>3, <2>4 DEF Ipxe!BuildWorks
<1>9. CASE Ipxe!OrphanWorks
  <2>1. PICK b \in orphans, c \in Ipxe!Build :
          Ipxe!Works(b, c) /\ orphans' = (orphans \ {b}) \cup {c}
    BY <1>9 DEF Ipxe!OrphanWorks
  <2>2. orphans # {} /\ orphans' # {}
    BY <2>1
  <2>3. b \in Ipxe!Build
    BY <2>1 DEF Ipxe!TypeOK
  <2>4. binary' = Ipxe!Absent => binary = Ipxe!Absent /\ stamp = Ipxe!Absent
    BY <2>1, <2>3 DEF Ipxe!Works, Ipxe!Build, Ipxe!Torn, Ipxe!Url, Ipxe!Absent, Ipxe!TypeOK
  <2> QED BY <1>0, <1>9, <2>2, <2>4 DEF Ipxe!OrphanWorks
<1>10. CASE Ipxe!DockerDone
  BY <1>0, <1>10 DEF Ipxe!DockerDone, Ipxe!Goto, Ipxe!files
<1>11. CASE Ipxe!Stamp
  BY <1>0, <1>11 DEF Ipxe!Stamp, Ipxe!Goto, Ipxe!Torn, Ipxe!Url, Ipxe!TypeOK, Ipxe!Absent
<1>12. CASE Ipxe!StampWritten
  BY <1>0, <1>12 DEF Ipxe!StampWritten, Ipxe!StepApplied, Ipxe!Advance, Ipxe!TypeOK, Ipxe!Last, Ipxe!Url, Ipxe!Absent
<1>13. CASE Ipxe!Stop
  BY <1>0, <1>13 DEF Ipxe!Stop, Ipxe!Fail, Ipxe!Kill, Ipxe!files
<1>14. CASE UNCHANGED Ipxe!vars
  BY <1>0, <1>14 DEF Ipxe!vars, Ipxe!files
<1> QED
  BY <1>1, <1>2, <1>3, <1>4, <1>5, <1>6, <1>7, <1>8, <1>9, <1>10, <1>11, <1>12, <1>13, <1>14
  DEF Ipxe!Next, Ipxe!Run

(***************************************************************************)
(* The stamp never vouches for a torn binary or one with another script,   *)
(* wherever builds were interrupted and however often the URL changed.     *)
(***************************************************************************)
THEOREM StampIsHonest ==
  ASSUME Urls \in Nat \ {0}, Edits = "new"
  PROVE  Ipxe!Spec => []Ipxe!StampVouches
<1>1. IpxeInv /\ [Ipxe!Next]_(Ipxe!vars) => IpxeInv'
  BY IpxeNextInv
<1>2. IpxeInv => Ipxe!StampVouches
  BY DEF IpxeInv
<1>3. Ipxe!Init => IpxeInv
  BY IpxeInitInv
<1> QED BY <1>1, <1>2, <1>3, PTL DEF Ipxe!Spec

(***************************************************************************)
(* A run that returns no error leaves the binary the config asks for.      *)
(***************************************************************************)
THEOREM OkIsBuilt ==
  ASSUME Urls \in Nat \ {0}, Edits = "new"
  PROVE  Ipxe!Spec => []Ipxe!OkMeansBuilt
<1>1. IpxeInv /\ [Ipxe!Next]_(Ipxe!vars) => IpxeInv'
  BY IpxeNextInv
<1>2. IpxeInv => Ipxe!OkMeansBuilt
  BY DEF IpxeInv
<1>3. Ipxe!Init => IpxeInv
  BY IpxeInitInv
<1> QED BY <1>1, <1>2, <1>3, PTL DEF Ipxe!Spec
-----------------------------------------------------------------------------
(***************************************************************************)
(* talos ipxe as a stage, for any edits.  A binary is never taken away     *)
(* once there is one, so only the run itself and the config undo the       *)
(* stamp, and a run that gets as far as building has not found it right.   *)
(***************************************************************************)
Unstamped ==
  /\ binary = Ipxe!Absent => stamp = Ipxe!Absent
  /\ phase \in {"embed", "docker", "stamp"} => stamp # want
  /\ phase = "docker" /\ build.at = "done" => binary # Ipxe!Absent
  /\ phase \in {"stamp", "digest"} => binary # Ipxe!Absent

LEMMA IpxeBinaryStays ==
  ASSUME Urls \in Nat \ {0}, Ipxe!TypeOK, [Ipxe!Next]_(Ipxe!vars)
  PROVE  binary # Ipxe!Absent => binary' # Ipxe!Absent
<1>1. ASSUME NEW b \in Ipxe!Build, NEW c \in Ipxe!Build, Ipxe!Works(b, c), binary # Ipxe!Absent
      PROVE  binary' # Ipxe!Absent
  BY <1>1 DEF Ipxe!Works, Ipxe!Build, Ipxe!Torn, Ipxe!Url, Ipxe!Absent, Ipxe!TypeOK
<1>2. CASE Ipxe!BuildWorks \/ Ipxe!OrphanWorks
  BY <1>1, <1>2 DEF Ipxe!BuildWorks, Ipxe!OrphanWorks, Ipxe!TypeOK
<1>3. CASE UNCHANGED binary
  BY <1>3
<1> QED
  BY <1>2, <1>3
  DEF Ipxe!Next, Ipxe!Run, Ipxe!EditConfig, Ipxe!Emit, Ipxe!Begin, Ipxe!CheckDone, Ipxe!CheckPending,
      Ipxe!ScriptCurrent, Ipxe!ScriptStale, Ipxe!DockerDone, Ipxe!Stamp, Ipxe!StampWritten, Ipxe!Stop,
      Ipxe!vars, Ipxe!files

LEMMA UnstampedNext ==
  ASSUME Urls \in Nat \ {0}, Ipxe!TypeOK, Unstamped, [Ipxe!Next]_(Ipxe!vars)
  PROVE  Unstamped'
<1> USE DEF Unstamped
<1>b. (binary # Ipxe!Absent => binary' # Ipxe!Absent) /\ Ipxe!Absent # want
  BY IpxeBinaryStays DEF Ipxe!TypeOK, Ipxe!Url, Ipxe!Absent
<1>1. CASE Ipxe!EditConfig \/ Ipxe!Emit \/ UNCHANGED Ipxe!vars
  BY <1>1 DEF Ipxe!EditConfig, Ipxe!Emit, Ipxe!vars, Ipxe!files
<1>2. CASE Ipxe!Begin \/ Ipxe!CheckDone
  BY <1>2
  DEF Ipxe!Begin, Ipxe!StartRun, Ipxe!CheckDone, Ipxe!SkipStep, Ipxe!Advance, Ipxe!files
<1>3. CASE Ipxe!CheckPending
  BY <1>b, <1>3 DEF Ipxe!CheckPending, Ipxe!Stamped, Ipxe!Enter, Ipxe!Goto, Ipxe!files
<1>4. CASE Ipxe!ScriptCurrent
  BY <1>4 DEF Ipxe!ScriptCurrent, Ipxe!Goto, Ipxe!files
<1>5. CASE Ipxe!ScriptStale \/ Ipxe!Stop
  BY <1>5 DEF Ipxe!ScriptStale, Ipxe!Stop, Ipxe!Fail, Ipxe!Kill, Ipxe!files
<1>6. CASE Ipxe!BuildWorks
  <2>1. PICK c \in Ipxe!Build : Ipxe!Works(build, c) /\ build' = c
    BY <1>6 DEF Ipxe!BuildWorks
  <2>2. c.at = "done" => binary' # Ipxe!Absent
    BY <2>1 DEF Ipxe!Works, Ipxe!Build, Ipxe!Url, Ipxe!Absent, Ipxe!TypeOK
  <2> QED BY <1>b, <1>6, <2>1, <2>2 DEF Ipxe!BuildWorks
<1>7. CASE Ipxe!OrphanWorks
  BY <1>b, <1>7 DEF Ipxe!OrphanWorks, Ipxe!Works
<1>8. CASE Ipxe!DockerDone
  BY <1>8 DEF Ipxe!DockerDone, Ipxe!Goto, Ipxe!files
<1>9. CASE Ipxe!Stamp \/ Ipxe!StampWritten
  BY <1>9 DEF Ipxe!Stamp, Ipxe!StampWritten, Ipxe!StepApplied, Ipxe!Advance, Ipxe!Goto
<1> QED
  BY <1>1, <1>2, <1>3, <1>4, <1>5, <1>6, <1>7, <1>8, <1>9 DEF Ipxe!Next, Ipxe!Run

LEMMA StampedHolds ==
  ASSUME Urls \in Nat \ {0}, Ipxe!TypeOK, Unstamped, [Ipxe!Next]_(Ipxe!vars), ~Ipxe!Begin, Ipxe!Stamped
  PROVE  Ipxe!Stamped'
<1>1. ~Ipxe!Stamp /\ (stamp' = stamp \/ stamp' = want) /\ want' = want
  BY DEF Unstamped, Ipxe!Stamped, Ipxe!Next, Ipxe!Run, Ipxe!EditConfig, Ipxe!Emit, Ipxe!CheckDone,
         Ipxe!CheckPending, Ipxe!ScriptCurrent, Ipxe!ScriptStale, Ipxe!DockerDone, Ipxe!Stamp, Ipxe!StampWritten,
         Ipxe!Stop, Ipxe!BuildWorks, Ipxe!OrphanWorks, Ipxe!vars, Ipxe!files
<1> QED BY <1>1, IpxeBinaryStays DEF Ipxe!Stamped

LEMMA IpxeStageNext ==
  ASSUME Urls \in Nat \ {0}, Ipxe!TypeOK, Unstamped, [Ipxe!Next]_(Ipxe!vars)
  PROVE  [Ipxe!Stage!Next]_(Ipxe!Stage!vars)
<1>1. CASE Ipxe!Begin
  <2>1. Ipxe!Holds' \in SUBSET Ipxe!Stage!Step
    BY DEF Ipxe!Holds, Ipxe!Stage!Step, Ipxe!Last
  <2> QED
    BY <1>1, <2>1 DEF Ipxe!Begin, Ipxe!StartRun, Ipxe!Stage!StartRun, Ipxe!Stage!Next, Ipxe!Mode
<1> SUFFICES ASSUME ~Ipxe!Begin PROVE [Ipxe!Stage!Next]_(Ipxe!Stage!vars)
  BY <1>1
<1>h. Ipxe!Holds' \in SUBSET Ipxe!Stage!Step /\ Ipxe!Stage!WorldMoves
  <2>1. 1 \in Ipxe!Holds => 1 \in Ipxe!Holds'
    BY StampedHolds DEF Ipxe!Holds
  <2>2. Ipxe!Holds' \subseteq {1} /\ Ipxe!Stage!Step = {1}
    BY DEF Ipxe!Holds, Ipxe!Stage!Step, Ipxe!Last
  <2> QED BY <2>1, <2>2 DEF Ipxe!Stage!WorldMoves, Ipxe!Stage!WorldMay
<1>k. UNCHANGED <<binary, stamp, want>> => Ipxe!Holds' = Ipxe!Holds
  BY DEF Ipxe!Holds, Ipxe!Stamped
<1>p. phase # "idle" => pos = 1
  BY DEF Ipxe!TypeOK
\* What moves only the world, and what stays within Apply.
<1>w. ASSUME Ipxe!Mode' = Ipxe!Mode, UNCHANGED <<pos, applied, result>> PROVE Ipxe!Stage!Next
  BY <1>h, <1>w DEF Ipxe!Stage!World, Ipxe!Stage!run, Ipxe!Stage!Next
<1>2. CASE Ipxe!CheckDone
  BY <1>2, <1>k, <1>p
  DEF Ipxe!CheckDone, Ipxe!SkipStep, Ipxe!Advance, Ipxe!files, Ipxe!Holds, Ipxe!Stage!CheckDone,
      Ipxe!Stage!Advance, Ipxe!Stage!Next, Ipxe!Stage!Run, Ipxe!Mode
<1>3. CASE Ipxe!CheckPending
  BY <1>3, <1>k, <1>p
  DEF Ipxe!CheckPending, Ipxe!Enter, Ipxe!Goto, Ipxe!files, Ipxe!Holds, Ipxe!Stage!CheckPending,
      Ipxe!Stage!Next, Ipxe!Stage!Run, Ipxe!Mode
<1>4. CASE Ipxe!ScriptCurrent \/ Ipxe!DockerDone \/ Ipxe!Stamp
  BY <1>4, <1>w DEF Ipxe!ScriptCurrent, Ipxe!DockerDone, Ipxe!Stamp, Ipxe!Goto, Ipxe!Mode
<1>5. CASE Ipxe!StampWritten
  <2>1. phase = "digest" /\ Ipxe!StepApplied /\ stamp' = want /\ want' = want /\ binary' # Ipxe!Absent
    BY <1>5 DEF Ipxe!StampWritten, Unstamped
  <2>2. pos \in Ipxe!Holds'
    BY <1>p, <2>1 DEF Ipxe!Holds, Ipxe!Stamped
  <2> QED
    BY <1>h, <2>1, <2>2
    DEF Ipxe!StepApplied, Ipxe!Advance, Ipxe!Stage!ApplyDone, Ipxe!Stage!Advance, Ipxe!Stage!WorldMoves,
        Ipxe!Stage!WorldMay, Ipxe!Stage!Next, Ipxe!Stage!Run, Ipxe!Mode
<1>6. CASE Ipxe!ScriptStale \/ Ipxe!Stop
  <2>1. (Ipxe!Fail \/ Ipxe!Kill) /\ UNCHANGED <<binary, stamp, want>>
    BY <1>6 DEF Ipxe!ScriptStale, Ipxe!Stop, Ipxe!files
  <2>2. CASE Ipxe!Fail /\ phase = "check"
    BY <1>k, <2>1, <2>2
    DEF Ipxe!Fail, Ipxe!Stage!CheckError, Ipxe!Stage!Fail, Ipxe!Stage!Next, Ipxe!Stage!Fault, Ipxe!Mode
  <2>3. CASE Ipxe!Fail /\ phase # "check"
    BY <1>h, <2>3
    DEF Ipxe!Fail, Ipxe!Stage!ApplyError, Ipxe!Stage!Fail, Ipxe!Stage!Next, Ipxe!Stage!Fault, Ipxe!Mode
  <2>4. CASE Ipxe!Kill
    BY <1>h, <2>4
    DEF Ipxe!Kill, Ipxe!Stage!Interrupt, Ipxe!Stage!Next, Ipxe!Stage!Fault, Ipxe!Mode
  <2> QED BY <2>1, <2>2, <2>3, <2>4
<1>7. CASE Ipxe!EditConfig \/ Ipxe!Emit \/ Ipxe!BuildWorks \/ Ipxe!OrphanWorks \/ UNCHANGED Ipxe!vars
  BY <1>7, <1>w DEF Ipxe!EditConfig, Ipxe!Emit, Ipxe!BuildWorks, Ipxe!OrphanWorks, Ipxe!vars, Ipxe!Mode
<1> QED
  BY <1>2, <1>3, <1>4, <1>5, <1>6, <1>7 DEF Ipxe!Next, Ipxe!Run

(***************************************************************************)
(* talos ipxe is a stage of the engine with one step: it returns success   *)
(* only once there is a binary stamped for the URL of its run, and until   *)
(* the next run neither emit nor a container left behind undoes that,      *)
(* whatever they do to what is in the binary.                              *)
(***************************************************************************)
THEOREM IpxeImplementsStage ==
  ASSUME Urls \in Nat \ {0}
  PROVE  Ipxe!Spec => Ipxe!ImplementsStage
<1> DEFINE StampInv == Ipxe!TypeOK /\ Unstamped
<1>1. Ipxe!Init => StampInv /\ Ipxe!Stage!Init
  BY IpxeInitType
  DEF Ipxe!Init, Ipxe!RunInit, Unstamped, Ipxe!NoBuild, Ipxe!Stage!Init, Ipxe!Stage!Step, Ipxe!Holds, Ipxe!Mode,
      Ipxe!Last
<1>2. StampInv /\ [Ipxe!Next]_(Ipxe!vars) => StampInv'
  BY IpxeNextType, UnstampedNext
<1>3. StampInv /\ [Ipxe!Next]_(Ipxe!vars) => [Ipxe!Stage!Next]_(Ipxe!Stage!vars)
  BY IpxeStageNext
<1> QED BY <1>1, <1>2, <1>3, PTL DEF Ipxe!Spec, Ipxe!ImplementsStage, Ipxe!Stage!Spec
=============================================================================
