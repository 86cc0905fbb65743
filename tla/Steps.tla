------------------------------- MODULE Steps -------------------------------
(***************************************************************************)
(* The convergence engine of the bootstrap CLI (internal/steps): a stage   *)
(* is a list of steps, each with a Check that reads the world and an Apply *)
(* that changes it.  An apply run checks the steps in order, skips those   *)
(* that are done and applies the others; the first failure stops it.  A    *)
(* dry run only checks.  The runner keeps nothing between runs.            *)
(*                                                                         *)
(* The module is also the abstract specification of a stage: the stage     *)
(* modules implement it under a refinement mapping, and so inherit the     *)
(* guarantees stated here.  What it asks of a step is what the comment on  *)
(* Step asks of Apply: it returns success only once the change is          *)
(* effective.                                                              *)
(***************************************************************************)
EXTENDS Naturals

CONSTANTS
  Last,    \* number of steps of the stage
  Stable,  \* steps whose effect nothing but the operator undoes
  Exact    \* steps whose Check never reports "pending" for a done step; the
           \* others turn a failed read into "pending"

ASSUME StageAssumption ==
  /\ Last \in Nat \ {0}
  /\ Stable \subseteq 1 .. Last
  /\ Exact \subseteq 1 .. Last

VARIABLES
  holds,    \* the world: steps whose desired state, as the config of the
            \* latest run has it, holds
  kind,     \* the current or latest run: "run", or "survey" with Runner.DryRun
  mode,     \* "idle": no run; "check" / "apply": inside that call of step pos
  pos,      \* index of the step the run is at; Last + 1 past the end
  applied,  \* steps applied in this run; Result.Applied is its cardinality
  pending,  \* steps a dry run found pending; Result.Pending likewise
  result    \* what the latest run returned: "none" while running or killed

run == <<kind, mode, pos, applied, pending, result>>
vars == <<holds, run>>

Step == 1 .. Last

TypeOK ==
  /\ holds \subseteq Step
  /\ kind \in {"run", "survey"}
  /\ mode \in {"idle", "check", "apply"}
  /\ pos \in 1 .. Last + 1
  /\ mode # "idle" => pos \in Step
  /\ applied \subseteq Step
  /\ pending \subseteq Step
  /\ result \in {"none", "ok", "failed"}

Init ==
  /\ holds \in SUBSET Step
  /\ kind = "run"
  /\ mode = "idle"
  /\ pos = 1
  /\ applied = {}
  /\ pending = {}
  /\ result = "none"
-----------------------------------------------------------------------------
(***************************************************************************)
(* The world changes under the runner: an effect appears (an asynchronous  *)
(* change lands), or an effect that is not stable goes away.               *)
(***************************************************************************)
WorldMay(h) == h \subseteq Step /\ holds \cap Stable \subseteq h
WorldMoves == \E h \in SUBSET Step : WorldMay(h) /\ holds' = h

World == WorldMoves /\ UNCHANGED run

\* The steps are built from the config as it is now, so what they ask of the
\* world need not be what the run before asked.
StartRun(k) ==
  /\ mode = "idle"
  /\ holds' \in SUBSET Step
  /\ kind' = k
  /\ mode' = "check"
  /\ pos' = 1
  /\ applied' = {}
  /\ pending' = {}
  /\ result' = "none"

\* The command fails before it has a stage to run.
NoStage ==
  /\ mode = "idle"
  /\ pos' = 1
  /\ result' = "failed"
  /\ UNCHANGED <<holds, kind, mode, applied, pending>>

\* Go on to the next step, or return the Result after the last one.
Advance ==
  /\ pos' = pos + 1
  /\ mode' = IF pos = Last THEN "idle" ELSE "check"
  /\ result' = IF pos = Last THEN "ok" ELSE "none"

\* The run returns an error: nothing after this step is looked at.
Fail ==
  /\ mode' = "idle"
  /\ result' = "failed"
  /\ UNCHANGED pos

CheckDone ==
  /\ mode = "check"
  /\ pos \in holds
  /\ Advance
  /\ UNCHANGED <<holds, kind, applied, pending>>

\* Mutation: a step that is done is applied again.
CheckPendingAlways ==
  /\ mode = "check"
  /\ \/ /\ kind = "survey"
        /\ pending' = pending \cup {pos}
        /\ Advance
     \/ /\ kind = "run"
        /\ mode' = "apply"
        /\ UNCHANGED <<pending, pos, result>>
  /\ UNCHANGED <<holds, kind, applied>>
\* A step found pending is applied next, or only counted in a dry run.
CheckPending ==
  /\ mode = "check"
  /\ pos \notin holds \cap Exact
  /\ \/ /\ kind = "survey"
        /\ pending' = pending \cup {pos}
        /\ Advance
     \/ /\ kind = "run"
        /\ mode' = "apply"
        /\ UNCHANGED <<pending, pos, result>>
  /\ UNCHANGED <<holds, kind, applied>>

\* Mutation: an apply run goes on after a check that errors.
CheckErrorIgnored ==
  /\ mode = "check"
  /\ Advance
  /\ UNCHANGED <<holds, kind, applied, pending>>
\* A check that errors stops an apply run; a dry run reports "unknown" and
\* goes on with the survey.
CheckError ==
  /\ mode = "check"
  /\ IF kind = "survey" THEN Advance ELSE Fail
  /\ UNCHANGED <<holds, kind, applied, pending>>

\* Mutation: the run stays at the step it applied.
ApplyDoneStays ==
  /\ mode = "apply"
  /\ \E h \in SUBSET Step : WorldMay(h) /\ pos \in h /\ holds' = h
  /\ applied' = applied \cup {pos}
  /\ UNCHANGED <<kind, pending, pos, mode, result>>
\* Apply returns success: by then the step's desired state holds.
ApplyDone ==
  /\ mode = "apply"
  /\ \E h \in SUBSET Step : WorldMay(h) /\ pos \in h /\ holds' = h
  /\ applied' = applied \cup {pos}
  /\ Advance
  /\ UNCHANGED <<kind, pending>>

\* Mutation: an apply run goes on after an Apply that errors.
ApplyErrorIgnored ==
  /\ mode = "apply"
  /\ Advance
  /\ UNCHANGED <<holds, kind, applied, pending>>
\* Apply returns an error, its effect achieved or not.
ApplyError ==
  /\ mode = "apply"
  /\ Fail
  /\ WorldMoves
  /\ UNCHANGED <<kind, applied, pending>>

\* The process is killed anywhere in a run, the call it was in effective or not.
Interrupt ==
  /\ mode # "idle"
  /\ mode' = "idle"
  /\ WorldMoves
  /\ UNCHANGED <<kind, pos, applied, pending, result>>

Run == CheckDone \/ CheckPending \/ ApplyDone
Fault == CheckError \/ ApplyError \/ Interrupt \/ NoStage \/ StartRun("survey")

Next == World \/ StartRun("run") \/ Run \/ Fault

Spec == Init /\ [][Next]_vars
-----------------------------------------------------------------------------
(***************************************************************************)
(* In an apply run, every stable step before the one the run is at holds:  *)
(* it was seen done or applied in this run, and no failure was passed      *)
(* over.  This is what lets a later step rely on the earlier ones, however *)
(* many runs were interrupted before.                                      *)
(***************************************************************************)
EarlierHold ==
  kind = "run" => \A s \in Stable : s < pos => s \in holds

(***************************************************************************)
(* An apply run that returns no error leaves a world in which the whole    *)
(* stage is converged, up to what the world undoes by itself.              *)
(***************************************************************************)
ConvergedWhenOk ==
  result = "ok" /\ kind = "run" => Stable \subseteq holds

(***************************************************************************)
(* A dry run applies nothing, whatever its checks return.                  *)
(***************************************************************************)
SurveyNeverApplies ==
  kind = "survey" => mode # "apply" /\ applied = {}
=============================================================================
