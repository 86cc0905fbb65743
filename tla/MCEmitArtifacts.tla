-------------------------- MODULE MCEmitArtifacts --------------------------
(***************************************************************************)
(* EmitArtifacts with at most MaxFaults stopped runs and MaxRots changed   *)
(* assets.  Deletes lists the assets the operator is willing to delete.    *)
(***************************************************************************)
EXTENDS EmitArtifacts

CONSTANTS MaxFaults, MaxRots, Deletes

ASSUME DeletesAssumption == Deletes \subseteq Asset

VARIABLES
  faults, rots,
  stopped  \* history: whether a run has stopped short of its summary

mcVars == <<vars, faults, rots, stopped>>

MCInit == Init /\ faults = 0 /\ rots = 0 /\ stopped = "no"

\* The run has written, and the tree on disk is the one of its config.
HasWritten == phase \in {"write", "fill"} \/ (phase # "idle" /\ 1 \in applied)
Renewed == HasWritten /\ Diff = {}

\* Such a run stops, by whatever error or by a kill; a restart makes up for it.
StopsShort == Renewed /\ phase' = "idle" /\ result' # "ok"
Remember == stopped' = IF StopsShort THEN "yes" ELSE stopped

Normal ==
  /\ \/ Begin \/ Run
     \/ \E a \in Deletes : DeleteAsset(a)
  /\ Remember /\ UNCHANGED <<faults, rots>>
Restart == RestartBooty /\ stopped' = "no" /\ UNCHANGED <<faults, rots>>
Edit == EditConfig /\ Remember /\ UNCHANGED <<faults, rots>>

MCNext ==
  \/ Normal \/ Restart \/ Edit
  \/ Stop /\ faults < MaxFaults /\ faults' = faults + 1 /\ Remember /\ UNCHANGED rots
  \/ \E a \in Asset : Rots(a) /\ rots < MaxRots /\ rots' = rots + 1 /\ Remember /\ UNCHANGED faults

(***************************************************************************)
(* The run goes on, the operator re-runs a stage that stopped, and deletes *)
(* the assets the command names, if willing.                               *)
(***************************************************************************)
MCSpec ==
  /\ MCInit /\ [][MCNext]_mcVars
  /\ WF_mcVars(Normal /\ (Begin \/ Run))
  /\ \A a \in Deletes : SF_mcVars(Normal /\ DeleteAsset(a))

(***************************************************************************)
(* StaleMeansTold, unless since booty was last restarted a run stopped     *)
(* after it had brought the tree up to date, and before its summary.  Runs *)
(* that stop earlier, or without having written, are no excuse: the tree   *)
(* they leave differs from the next run's, which applies and says so.      *)
(***************************************************************************)
StaleMeansToldOrStopped == stopped = "no" => StaleMeansTold

(***************************************************************************)
(* Re-running after any interruption converges (steps.go).                 *)
(***************************************************************************)
Converges == phase = "idle" ~> result = "ok"
=============================================================================
