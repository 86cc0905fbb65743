------------------------------ MODULE StageRun ------------------------------
(***************************************************************************)
(* One apply run of internal/steps, as the stage modules use it: the       *)
(* position in the stage and the place inside the step, "idle" between     *)
(* runs, "check" inside Check and a phase of the stage's own inside Apply. *)
(* A stage module instantiates it and adds what its calls do.              *)
(***************************************************************************)
EXTENDS Naturals

CONSTANT Last  \* number of steps of the stage

VARIABLES
  phase,    \* "idle", "check", or the place inside Apply
  pos,      \* the step
  applied,  \* steps applied in this run
  result    \* what the latest run returned, "none" while running or killed

RunInit == phase = "idle" /\ pos = 1 /\ applied = {} /\ result = "none"

StartRun ==
  /\ phase = "idle"
  /\ phase' = "check"
  /\ pos' = 1
  /\ applied' = {}
  /\ result' = "none"

\* Check the next step, or return the Result after the last one.
Advance ==
  /\ pos' = pos + 1
  /\ phase' = IF pos = Last THEN "idle" ELSE "check"
  /\ result' = IF pos = Last THEN "ok" ELSE "none"

\* Check reports the step done.
SkipStep == phase = "check" /\ Advance /\ UNCHANGED applied

\* Check reports it pending, or Apply goes on to its next call.
Goto(p) == phase' = p /\ UNCHANGED <<pos, applied, result>>
Enter(p) == phase = "check" /\ Goto(p)

\* Apply returns no error.
StepApplied == applied' = applied \cup {pos} /\ Advance

\* Check or Apply returns an error: the run returns it.
Fail ==
  /\ phase # "idle"
  /\ phase' = "idle"
  /\ result' = "failed"
  /\ UNCHANGED <<pos, applied>>

\* The process is killed.
Kill == phase # "idle" /\ phase' = "idle" /\ UNCHANGED <<pos, applied, result>>
=============================================================================
