------------------------------ MODULE MCSteps ------------------------------
(***************************************************************************)
(* Steps with a budget for what the environment may do wrong: errors,      *)
(* kills, dry runs, lost effects and edits of the config are counted, and  *)
(* no more than MaxFaults of them happen.                                  *)
(***************************************************************************)
EXTENDS Steps

CONSTANT MaxFaults

VARIABLES
  faults,  \* what has gone wrong so far
  missing  \* history: the steps that did not hold when the run started

mcVars == <<vars, faults, missing>>

MCInit == Init /\ faults = 0 /\ missing = {}

WithinBudget == faults < MaxFaults /\ faults' = faults + 1

\* An effect appears by itself / an unstable effect goes away.
Appears == World /\ holds \subseteq holds' /\ UNCHANGED faults
Drifts == World /\ ~(holds \subseteq holds') /\ WithinBudget

\* Only inexact steps that hold can be misread as pending.
Misread == CheckPending /\ pos \in holds /\ WithinBudget
Normal ==
  /\ \/ CheckDone
     \/ CheckPending /\ pos \notin holds
     \/ ApplyDone /\ holds \subseteq holds'
  /\ UNCHANGED faults
Rerun == StartRun("run") /\ holds' = holds /\ UNCHANGED faults
\* The config has been edited since the last run.
Edited == StartRun("run") /\ holds' # holds /\ WithinBudget
Faulty ==
  \/ Fault /\ WithinBudget
  \/ ApplyDone /\ ~(holds \subseteq holds') /\ WithinBudget

MCNext ==
  /\ Appears \/ Drifts \/ Misread \/ Normal \/ Rerun \/ Edited \/ Faulty
  /\ missing' = IF mode = "idle" /\ mode' = "check" THEN Step \ holds' ELSE missing

(***************************************************************************)
(* The runner's loop goes on by itself, and the operator re-runs a stage   *)
(* that is not running.                                                    *)
(***************************************************************************)
MCSpec ==
  /\ MCInit
  /\ [][MCNext]_mcVars
  /\ WF_mcVars(Normal /\ UNCHANGED missing)
  /\ WF_mcVars(Rerun /\ missing' = Step \ holds')

(***************************************************************************)
(* A run applies, of the stable steps with an exact check, only those that *)
(* did not hold when it started: re-running a converged stage changes      *)
(* nothing, and a re-run after an interruption repeats nothing that took   *)
(* effect (steps.go: "completed steps check as done").                     *)
(***************************************************************************)
AppliesOnlyMissing == applied \cap Stable \cap Exact \subseteq missing

(***************************************************************************)
(* Re-running a stage converges: once the faults are used up, wherever     *)
(* they struck, a later run gets through.                                  *)
(***************************************************************************)
Converges == mode = "idle" ~> result = "ok" /\ kind = "run"
=============================================================================
