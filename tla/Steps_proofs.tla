---------------------------- MODULE Steps_proofs ----------------------------
(***************************************************************************)
(* Proofs about the engine, for stages of any length.                      *)
(***************************************************************************)
EXTENDS MCSteps, TLAPS

\* A run that ended with success went past the last step.
OkAtEnd == result = "ok" => mode = "idle" /\ pos = Last + 1

\* In the body of a run nothing has been returned yet.
Inv == TypeOK /\ EarlierHold /\ SurveyNeverApplies /\ OkAtEnd

LEMMA InitInv == Init => Inv
  BY StageAssumption
  DEF Init, Inv, TypeOK, EarlierHold, SurveyNeverApplies, OkAtEnd, Step

(***************************************************************************)
(* Every step of the engine preserves its types, the order in which steps  *)
(* come to hold, and the rule that a dry run applies nothing.              *)
(***************************************************************************)
LEMMA NextInv == Inv /\ [Next]_vars => Inv'
<1> SUFFICES ASSUME Inv, [Next]_vars PROVE Inv'
  OBVIOUS
<1> USE StageAssumption
    DEF Inv, TypeOK, EarlierHold, SurveyNeverApplies, OkAtEnd, Step
<1>1. CASE World
  BY <1>1 DEF World, WorldMoves, WorldMay, run
<1>2. ASSUME NEW k \in {"run", "survey"}, StartRun(k) PROVE Inv'
  BY <1>2 DEF StartRun
<1>3. CASE CheckDone
  BY <1>3 DEF CheckDone, Advance
<1>4. CASE CheckPending
  <2>1. CASE kind = "survey"
    <3>1. Advance /\ pending' = pending \cup {pos}
      BY <1>4, <2>1 DEF CheckPending
    <3>2. UNCHANGED <<holds, kind, applied>> /\ mode = "check"
      BY <1>4 DEF CheckPending
    <3> QED
      BY <2>1, <3>1, <3>2 DEF Advance
  <2>2. CASE kind = "run"
    BY <1>4, <2>2 DEF CheckPending
  <2> QED BY <2>1, <2>2
<1>5. CASE CheckError
  BY <1>5 DEF CheckError, Advance, Fail
<1>6. CASE ApplyDone
  BY <1>6 DEF ApplyDone, WorldMay, Advance
<1>7. CASE ApplyError
  BY <1>7 DEF ApplyError, Fail, WorldMoves, WorldMay
<1>8. CASE Interrupt
  BY <1>8 DEF Interrupt, WorldMoves, WorldMay
<1>9. CASE NoStage
  <2>1. 1 \in 1 .. Last + 1 /\ \A s \in Stable : ~(s < 1)
    OBVIOUS
  <2> QED BY <1>9, <2>1 DEF NoStage
<1>10. CASE UNCHANGED vars
  BY <1>10 DEF vars, run
<1> QED
  BY <1>1, <1>2, <1>3, <1>4, <1>5, <1>6, <1>7, <1>8, <1>9, <1>10 DEF Next, Run, Fault

(***************************************************************************)
(* The variables of the engine keep their types.                           *)
(***************************************************************************)
THEOREM TypeCorrect == Spec => []TypeOK
<1>1. Inv => TypeOK
  BY DEF Inv
<1> QED
  BY <1>1, InitInv, NextInv, PTL DEF Spec

(***************************************************************************)
(* Whatever was interrupted before, an apply run only reaches a step once  *)
(* the stable steps before it hold.                                        *)
(***************************************************************************)
THEOREM StepsInOrder == Spec => []EarlierHold
<1>1. Inv => EarlierHold
  BY DEF Inv
<1> QED
  BY <1>1, InitInv, NextInv, PTL DEF Spec

(***************************************************************************)
(* An apply run that returns no error leaves every stable step holding.    *)
(***************************************************************************)
THEOREM OkConverged == Spec => []ConvergedWhenOk
<1>1. Inv => ConvergedWhenOk
  BY StageAssumption DEF Inv, TypeOK, OkAtEnd, EarlierHold, ConvergedWhenOk
<1> QED
  BY <1>1, InitInv, NextInv, PTL DEF Spec

(***************************************************************************)
(* A dry run applies nothing.                                              *)
(***************************************************************************)
THEOREM SurveyWritesNothing == Spec => []SurveyNeverApplies
<1>1. Inv => SurveyNeverApplies
  BY DEF Inv
<1> QED
  BY <1>1, InitInv, NextInv, PTL DEF Spec
-----------------------------------------------------------------------------
(***************************************************************************)
(* Why a re-run repeats nothing.  The history is of one run: what held     *)
(* when it started, and is stable, still holds, and the step that is being *)
(* applied, if its check is exact, did not hold then, whatever the world   *)
(* has done since it was checked.                                          *)
(***************************************************************************)
SinceStart ==
  /\ mode # "idle" => Stable \ missing \subseteq holds
  /\ mode = "apply" /\ pos \in Stable \cap Exact => pos \in missing

RepeatInv == Inv /\ SinceStart /\ AppliesOnlyMissing

\* The budget only restricts the engine's steps.
LEMMA MCNextIsNext ==
  ASSUME MCNext
  PROVE  /\ Next
         /\ missing' = IF mode = "idle" /\ mode' = "check" THEN Step \ holds' ELSE missing
  BY DEF MCNext, Appears, Drifts, Misread, Normal, Rerun, Edited, Faulty, Next, Run

LEMMA NextRepeat == RepeatInv /\ [MCNext]_mcVars => RepeatInv'
<1> SUFFICES ASSUME RepeatInv, [MCNext]_mcVars PROVE SinceStart' /\ AppliesOnlyMissing'
  BY NextInv, MCNextIsNext DEF RepeatInv, mcVars
<1>1. TypeOK /\ SinceStart /\ AppliesOnlyMissing /\ Stable \subseteq Step
  BY StageAssumption DEF RepeatInv, Inv, Step
<1>2. CASE UNCHANGED mcVars
  BY <1>1, <1>2 DEF mcVars, vars, run, SinceStart, AppliesOnlyMissing
<1>3. CASE MCNext
  <2>1. /\ Next
        /\ missing' = IF mode = "idle" /\ mode' = "check" THEN Step \ holds' ELSE missing
    BY <1>3, MCNextIsNext
  <2>2. (mode = "idle" /\ mode' = "check") \/ holds \cap Stable \subseteq holds'
    BY <2>1 DEF Next, Run, Fault, World, WorldMoves, WorldMay, StartRun, NoStage, CheckDone, CheckPending,
       CheckError, ApplyDone, ApplyError, Interrupt
  <2>3. ASSUME NEW k \in {"run", "survey"}, StartRun(k) PROVE SinceStart' /\ AppliesOnlyMissing'
    BY <1>1, <2>1, <2>3 DEF StartRun, SinceStart, AppliesOnlyMissing
  \* Every other step leaves the history as it is.
  <2>4. ASSUME missing' = missing, mode' # "idle" => mode # "idle",
               applied' \in {applied, applied \cup {pos}},
               applied' = applied \/ mode = "apply",
               mode' = "apply" => pos' = pos /\ (mode = "apply" \/ pos \notin holds \cap Exact)
        PROVE  SinceStart' /\ AppliesOnlyMissing'
    BY <1>1, <2>2, <2>4 DEF SinceStart, AppliesOnlyMissing
  <2>5. CASE World \/ CheckDone \/ CheckError \/ ApplyError \/ Interrupt \/ NoStage
    BY <2>1, <2>4, <2>5
    DEF World, run, CheckDone, CheckError, ApplyError, Interrupt, NoStage, Advance, Fail
  <2>6. CASE CheckPending
    BY <2>1, <2>4, <2>6 DEF CheckPending, Advance
  <2>7. CASE ApplyDone
    BY <2>1, <2>4, <2>7 DEF ApplyDone, Advance
  <2> QED BY <2>1, <2>3, <2>5, <2>6, <2>7 DEF Next, Run, Fault
<1> QED BY <1>2, <1>3

(***************************************************************************)
(* A run applies, of the stable steps with an exact check, only those that *)
(* did not hold when it started, however the world drifts under it, and    *)
(* for any number of faults (the instance only bounds them): re-running a  *)
(* converged stage repeats nothing (internal/steps, Runner.Run).           *)
(***************************************************************************)
THEOREM RepeatsNothing == MCSpec => []AppliesOnlyMissing
<1>1. MCInit => RepeatInv
  BY InitInv DEF MCInit, Init, RepeatInv, SinceStart, AppliesOnlyMissing
<1>2. RepeatInv => AppliesOnlyMissing
  BY DEF RepeatInv
<1> QED BY <1>1, <1>2, NextRepeat, PTL DEF MCSpec
=============================================================================
