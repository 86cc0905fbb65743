---------------------------- MODULE EmitArtifacts ---------------------------
(***************************************************************************)
(* talos emit (internal/emit, cmd/talos.go): step 1 writes the rendered    *)
(* tree, file by file and in place; step 2 downloads the boot assets, each *)
(* renamed into place and then vouched for by a sidecar with its digest.   *)
(* booty reads the tree once, when it starts; the command's last line      *)
(* tells the operator to restart it.                                       *)
(***************************************************************************)
EXTENDS Naturals, FiniteSets, FiniteSetsExt

CONSTANTS
  Files,    \* number of files of the tree, written in path order
  Assets,   \* number of boot assets, fetched in order
  Configs   \* number of configs the operator goes through

ASSUME EmitAssumption ==
  {Files, Assets, Configs} \subseteq Nat \ {0}

VARIABLES
  \* The operator and booty.
  config,   \* the current config
  served,   \* the tree booty has loaded
  told,     \* whether the restart instruction was printed since the last restart
  \* The disk.
  files,    \* the config each file was rendered from, or Absent, or Torn
  asset,    \* each boot asset
  sidecar,  \* the digest recorded for it: of "image", of nothing, or torn
  \* The run.
  want,     \* the config the run has loaded
  next,     \* the file or asset its loop is at
  phase, pos, applied, result

disk == <<files, asset, sidecar>>
others == <<config, served, told>>
vars == <<others, disk, want, next, phase, pos, applied, result>>

Last == 2
INSTANCE StageRun

File == 1 .. Files
Asset == 1 .. Assets
Config == 1 .. Configs
Absent == 0
Torn == Configs + 1
Content == Config \cup {Absent, Torn}

TypeOK ==
  /\ config \in Config /\ want \in Config
  /\ files \in [File -> Content] /\ served \in [File -> Content]
  /\ told \in {"restart", "nothing"}
  /\ asset \in [Asset -> {"absent", "image", "rotten"}]
  /\ sidecar \in [Asset -> {"absent", "torn", "image"}]
  /\ next \in Nat
  /\ phase = "write" => next \in File
  /\ phase \in {"fetch", "record"} => next \in Asset
  /\ phase \in {"idle", "check", "write", "fill", "assets", "fetch", "record", "digest"}
  /\ pos \in 1 .. 3
  /\ applied \subseteq 1 .. 2
  /\ result \in {"none", "ok", "failed"}

\* A fresh workstation, or one whose booty runs an emitted tree.
Init ==
  /\ config = 1 /\ want = 1
  /\ \E c \in {Absent, 1} :
       /\ files = [f \in File |-> c]
       /\ asset = [a \in Asset |-> IF c = 1 THEN "image" ELSE "absent"]
       /\ sidecar = [a \in Asset |-> IF c = 1 THEN "image" ELSE "absent"]
  /\ served = files
  /\ told = "nothing"
  /\ next = 1
  /\ RunInit
-----------------------------------------------------------------------------
(***************************************************************************)
(* The operator: a new config, a restart of booty when told to, deleting   *)
(* an asset the command complains about.                                   *)
(***************************************************************************)
EditConfig ==
  /\ phase = "idle" /\ config < Configs
  /\ config' = config + 1
  /\ UNCHANGED <<served, told, disk, want, next, phase, pos, applied, result>>

RestartBooty ==
  /\ phase = "idle" /\ told = "restart"
  /\ served' = files /\ told' = "nothing"
  /\ UNCHANGED <<config, disk, want, next, phase, pos, applied, result>>

\* assetReady: missing, ready, or an asset that does not match its sidecar.
Status(a) ==
  IF "absent" \in {asset[a], sidecar[a]} THEN "missing"
  ELSE IF asset[a] = sidecar[a] THEN "ready" ELSE "mismatch"

DeleteAsset(a) ==
  /\ phase = "idle" /\ Status(a) = "mismatch"
  /\ asset' = [asset EXCEPT ![a] = "absent"]
  /\ UNCHANGED <<others, files, sidecar, want, next, phase, pos, applied, result>>

\* A staged asset changes on disk: bit rot, a half-finished manual copy.
Rots(a) ==
  /\ phase = "idle" /\ asset[a] = "image"
  /\ asset' = [asset EXCEPT ![a] = "rotten"]
  /\ UNCHANGED <<others, files, sidecar, want, next, phase, pos, applied, result>>
-----------------------------------------------------------------------------
Begin == StartRun /\ want' = config /\ next' = 1 /\ UNCHANGED <<others, disk>>

Diff == {f \in File : files[f] # want}

\* Mutation: the summary of every run is the one of an unchanged tree.
SummaryUpToDate == UNCHANGED told
\* emitSummary: after the last step, a run that applied anything says so.
Summary == told' = IF phase' = "idle" /\ applied' # {} THEN "restart" ELSE told

\* Mutation: files that are there are taken to be current.
TreeDoneIfPresent ==
  /\ phase = "check" /\ pos = 1 /\ \A f \in File : files[f] # Absent
  /\ SkipStep
  /\ UNCHANGED <<others, disk, want, next>>
TreeDone ==
  /\ phase = "check" /\ pos = 1 /\ Diff = {}
  /\ SkipStep
  /\ UNCHANGED <<others, disk, want, next>>
TreePending ==
  /\ phase = "check" /\ pos = 1 /\ Diff # {}
  /\ Enter("write")
  /\ UNCHANGED <<others, disk, want, next>>

\* Tree.Write: os.WriteFile truncates the file and then fills it.
Truncate ==
  /\ phase = "write"
  /\ files' = [files EXCEPT ![next] = Torn]
  /\ Goto("fill")
  /\ UNCHANGED <<others, asset, sidecar, want, next>>
\* Mutation: the loop goes one file too far.
FillPastEnd ==
  /\ phase = "fill"
  /\ files' = [files EXCEPT ![next] = want]
  /\ IF next > Files THEN StepApplied /\ next' = 1 ELSE Goto("write") /\ next' = next + 1
  /\ UNCHANGED <<others, asset, sidecar, want>>
Fill ==
  /\ phase = "fill"
  /\ files' = [files EXCEPT ![next] = want]
  /\ IF next = Files THEN StepApplied /\ next' = 1 ELSE Goto("write") /\ next' = next + 1
  /\ UNCHANGED <<others, asset, sidecar, want>>

\* The first asset that is not ready decides the check, and each turn of the
\* download loop.
NotReady == {a \in Asset : Status(a) # "ready"}
AssetsDone ==
  /\ phase = "check" /\ pos = 2 /\ NotReady = {}
  /\ SkipStep /\ Summary
  /\ UNCHANGED <<config, served, disk, want, next>>
AssetsPending ==
  /\ phase = "check" /\ pos = 2 /\ NotReady # {}
  /\ Status(Min(NotReady)) = "missing"
  /\ Enter("assets")
  /\ UNCHANGED <<others, disk, want, next>>
\* A mismatch is an error, in the check as in the loop: nothing is fetched.
Mismatch ==
  /\ phase = "assets" \/ (phase = "check" /\ pos = 2)
  /\ NotReady # {} /\ Status(Min(NotReady)) = "mismatch"
  /\ Fail
  /\ UNCHANGED <<others, disk, want, next>>
NextAsset ==
  /\ phase = "assets" /\ NotReady # {} /\ Status(Min(NotReady)) = "missing"
  /\ next' = Min(NotReady)
  /\ Goto("fetch")
  /\ UNCHANGED <<others, disk, want>>
AllAssets ==
  /\ phase = "assets" /\ NotReady = {}
  /\ StepApplied /\ Summary
  /\ UNCHANGED <<config, served, disk, want, next>>

\* download: the whole transfer is renamed into place, then its digest is
\* written beside it, in place.
Fetch ==
  /\ phase = "fetch"
  /\ asset' = [asset EXCEPT ![next] = "image"]
  /\ Goto("record")
  /\ UNCHANGED <<others, files, sidecar, want, next>>
Record ==
  /\ phase = "record"
  /\ sidecar' = [sidecar EXCEPT ![next] = "torn"]
  /\ Goto("digest")
  /\ UNCHANGED <<others, files, asset, want, next>>
\* Mutation: the digest is not written to the end.
DigestLost == phase = "digest" /\ Goto("assets") /\ UNCHANGED <<others, disk, want, next>>
Digest ==
  /\ phase = "digest"
  /\ sidecar' = [sidecar EXCEPT ![next] = "image"]
  /\ Goto("assets")
  /\ UNCHANGED <<others, files, asset, want, next>>

\* A read, write or transfer fails, or the process is killed.
Stop == (Fail \/ Kill) /\ UNCHANGED <<others, disk, want, next>>

Operator == Begin \/ RestartBooty \/ \E a \in Asset : DeleteAsset(a)
Run ==
  \/ TreeDone \/ TreePending \/ Truncate \/ Fill
  \/ AssetsDone \/ AssetsPending \/ Mismatch \/ NextAsset \/ AllAssets
  \/ Fetch \/ Record \/ Digest

Next == EditConfig \/ Operator \/ Run \/ Stop \/ \E a \in Asset : Rots(a)

Spec == Init /\ [][Next]_vars
-----------------------------------------------------------------------------
(***************************************************************************)
(* A run that returns no error has the whole tree of its config on disk,   *)
(* and every asset as it was downloaded, whichever runs stopped halfway.   *)
(***************************************************************************)
OkMeansEmitted ==
  [][result' = "ok" /\ result # "ok" =>
       /\ \A f \in File : files'[f] = want'
       /\ \A a \in Asset : asset'[a] = "image"]_vars

(***************************************************************************)
(* After a run that returns no error, either booty serves what is on disk  *)
(* or the operator has been told to restart it (emitSummary: "A run that   *)
(* changed anything ends with the restart instruction").                   *)
(***************************************************************************)
StaleMeansTold == result = "ok" /\ served # files => told = "restart"
-----------------------------------------------------------------------------
(***************************************************************************)
(* The tree and the assets as a stage of the engine, both checks exact.    *)
(* What is on disk counts for the config of the latest run; a tree that is *)
(* being written does not hold, not even while its files happen to match.  *)
(* Assets may rot.                                                         *)
(***************************************************************************)
Mode == IF phase \in {"idle", "check"} THEN phase ELSE "apply"
Holds ==
  {s \in 1 .. 2 :
     IF s = 1 THEN Diff = {} /\ phase \notin {"write", "fill"} ELSE NotReady = {}}

Stage ==
  INSTANCE Steps WITH
    Stable <- {1},
    Exact <- {1, 2},
    holds <- Holds,
    kind <- "run",
    mode <- Mode,
    pending <- {}

ImplementsStage == Stage!Spec
=============================================================================
