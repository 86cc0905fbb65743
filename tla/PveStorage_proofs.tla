-------------------------- MODULE PveStorage_proofs -------------------------
(***************************************************************************)
(* Proofs about the datastore stage, for any declarations.                 *)
(***************************************************************************)
EXTENDS PveStorage, TLAPS

(***************************************************************************)
(* Besides the types: an update is only on its way for an entry that had   *)
(* the declared type and path when its digest was read.                    *)
(***************************************************************************)
UpdatesOurs == phase = "update" => seen[pos].kind = "ours"

Inv == TypeOK /\ UpdatesOurs

LEMMA InitInv == Init => Inv
  BY StorageAssumption DEF Init, RunInit, Inv, TypeOK, UpdatesOurs, Step, Phase

\* The position and the result of a run that goes on to the next step.
LEMMA AdvanceTypes ==
  ASSUME TypeOK, phase # "idle", Advance
  PROVE  /\ pos' \in 1 .. N + 1
         /\ phase' \in {"idle", "check"}
         /\ phase' # "idle" => pos' \in Step
         /\ result' \in {"none", "ok", "failed"}
  BY StorageAssumption DEF TypeOK, Advance, Step, Last

LEMMA AppliedTypes ==
  ASSUME TypeOK, phase # "idle", StepApplied
  PROVE  /\ pos' \in 1 .. N + 1
         /\ phase' \in {"idle", "check"}
         /\ phase' # "idle" => pos' \in Step
         /\ result' \in {"none", "ok", "failed"}
         /\ applied' \subseteq Step
  BY AdvanceTypes DEF TypeOK, StepApplied

LEMMA NextInv == Inv /\ [Next]_vars => Inv'
<1> SUFFICES ASSUME Inv, [Next]_vars PROVE Inv'
  OBVIOUS
<1> USE StorageAssumption DEF Inv, TypeOK, UpdatesOurs, Phase
<1>1. CASE AdminEdit
  BY <1>1 DEF AdminEdit
<1>2. CASE Begin
  BY <1>2 DEF Begin, StartRun, Step
<1>3. CASE CheckDone
  BY <1>3, AdvanceTypes DEF CheckDone, SkipStep
<1>4. CASE CheckPending
  BY <1>4 DEF CheckPending, Enter, Goto
<1>5. CASE ReadAbsent
  BY <1>5 DEF ReadAbsent, Goto
<1>6. CASE ReadDrifted
  BY <1>6 DEF ReadDrifted, Goto
<1>7. CASE ReadConverged
  BY <1>7, AppliedTypes DEF ReadConverged
<1>8. ASSUME phase # "idle", Written, UNCHANGED seen, store' \in [Step -> Entry]
      PROVE  Inv'
  <2>1. CASE StepApplied
    BY <1>8, <2>1, AppliedTypes
  <2>2. CASE Goto("lost")
    BY <1>8, <2>2 DEF Goto
  <2> QED BY <1>8, <2>1, <2>2 DEF Written
<1>9. CASE Create
  BY <1>8, <1>9 DEF Create
<1>10. CASE Update
  <2>1. store' \in [Step -> Entry]
    BY <1>10 DEF Update, Entry
  <2> QED BY <1>8, <1>10, <2>1 DEF Update
<1>11. CASE CheckConflict \/ ReadConflict \/ CallFails
  BY <1>11 DEF CheckConflict, ReadConflict, CallFails, Fail
<1>12. CASE Killed
  BY <1>12 DEF Killed, Kill
<1>13. CASE UNCHANGED vars
  BY <1>13 DEF vars
<1> QED
  BY <1>1, <1>2, <1>3, <1>4, <1>5, <1>6, <1>7, <1>9, <1>10, <1>11, <1>12, <1>13 DEF Next

(***************************************************************************)
(* The stage's variables keep their types.                                 *)
(***************************************************************************)
THEOREM TypeCorrect == Spec => []TypeOK
<1>1. Inv => TypeOK
  BY DEF Inv
<1> QED
  BY <1>1, InitInv, NextInv, PTL DEF Spec
-----------------------------------------------------------------------------
(***************************************************************************)
(* A write of the run is a create of an absent entry or an update of one   *)
(* that is still as it was read.                                           *)
(***************************************************************************)
LEMMA WriteIsCreateOrUpdate ==
  ASSUME Inv, [Next]_vars, RunWrites
  PROVE  Create \/ Update \/ UNCHANGED store
  BY DEF RunWrites, Next, vars, AdminEdit, Begin, CheckDone, CheckPending, CheckConflict,
         ReadAbsent, ReadConflict, ReadDrifted, ReadConverged, CallFails, Killed

\* What an update leaves in the fields of its entry.
LEMMA UpdatedFields ==
  ASSUME Inv, Update, NEW f \in Field
  PROVE  /\ pos \in Step
         /\ store'[pos].fields[f] =
              IF f \in Drift(pos, seen[pos]) THEN "want" ELSE store[pos].fields[f]
<1>1. pos \in Step
  BY DEF Update, Inv, TypeOK
<1>2. store[pos] \in Entry
  BY <1>1 DEF Inv, TypeOK
<1>3. store'[pos] = [store[pos] EXCEPT !.fields =
        [g \in Field |-> IF g \in Drift(pos, seen[pos]) THEN "want" ELSE store[pos].fields[g]]]
  BY <1>1 DEF Update, Inv, TypeOK
<1>4. store'[pos].fields =
        [g \in Field |-> IF g \in Drift(pos, seen[pos]) THEN "want" ELSE store[pos].fields[g]]
  BY <1>2, <1>3 DEF Entry
<1> QED
  BY <1>1, <1>4

(***************************************************************************)
(* No write of the stage touches an entry of another type or path.         *)
(***************************************************************************)
THEOREM ConflictsAreKept == Spec => ConflictsKept
<1>1. ASSUME Inv, [Next]_vars, RunWrites, NEW n \in Step, store[n].kind = "conflict"
      PROVE  store'[n] = store[n]
  <2>1. CASE Create
    BY <1>1, <2>1 DEF Create, Inv, TypeOK
  <2>2. CASE Update
    <3>1. n # pos
      BY <1>1, <2>2 DEF Update, Inv, UpdatesOurs
    <3> QED
      BY <1>1, <2>2, <3>1 DEF Update, Inv, TypeOK
  <2> QED
    BY <1>1, <2>1, <2>2, WriteIsCreateOrUpdate
<1>2. Inv /\ [Next]_vars =>
        [RunWrites => \A n \in Step : store[n].kind = "conflict" => store'[n] = store[n]]_vars
  BY <1>1
<1> QED
  BY <1>2, InitInv, NextInv, PTL DEF Spec, ConflictsKept

(***************************************************************************)
(* What a write of the stage changes has drifted at that very moment.      *)
(***************************************************************************)
THEOREM OnlyDriftIsWritten == Spec => WritesOnlyDrift
<1>1. ASSUME Inv, [Next]_vars, RunWrites, NEW n \in Step, NEW f \in Field,
             store'[n].fields[f] # store[n].fields[f]
      PROVE  store[n].kind = "absent" \/ f \in Drift(n, store[n])
  <2>1. CASE Create
    <3>1. n = pos
      BY <1>1, <2>1 DEF Create, Inv, TypeOK
    <3> QED
      BY <2>1, <3>1 DEF Create
  <2>2. CASE Update
    <3>1. n = pos
      BY <1>1, <2>2 DEF Update, Inv, TypeOK
    <3>2. store'[n].fields[f] =
            IF f \in Drift(pos, seen[pos]) THEN "want" ELSE store[n].fields[f]
      BY <1>1, <2>2, <3>1, UpdatedFields
    <3>3. f \in Drift(n, store[n])
      BY <1>1, <2>2, <3>1, <3>2 DEF Update
    <3> QED
      BY <3>3
  <2> QED
    BY <1>1, <2>1, <2>2, WriteIsCreateOrUpdate
<1>2. Inv /\ [Next]_vars =>
        [RunWrites =>
           \A n \in Step, f \in Field :
             store'[n].fields[f] # store[n].fields[f] =>
               store[n].kind = "absent" \/ f \in Drift(n, store[n])]_vars
  BY <1>1
<1> QED
  BY <1>2, InitInv, NextInv, PTL DEF Spec, WritesOnlyDrift
-----------------------------------------------------------------------------
(***************************************************************************)
(* The stage implements the engine's contract.                             *)
(***************************************************************************)
LEMMA StageInit == Init => Stage!Init
  BY StorageAssumption DEF Init, RunInit, Stage!Init, Mode, Holds, Stage!Step, Step

\* What only moves the run, or nothing, leaves the steps that hold as they are.
LEMMA HoldsUnchanged ==
  UNCHANGED store => Holds' = Holds /\ Holds' \in SUBSET Stage!Step /\ Stage!WorldMoves
<1>1. UNCHANGED store => Holds' = Holds
  BY DEF Holds, Done, Drift
<1>2. Holds \in SUBSET Stage!Step
  BY DEF Holds, Stage!Step, Step
<1> QED BY <1>1, <1>2 DEF Stage!WorldMoves, Stage!WorldMay

\* A write makes its own entry as declared, and leaves the others alone.
LEMMA WriteHolds ==
  ASSUME Inv, Create \/ Update
  PROVE  Holds' = Holds \cup {pos}
<1>1. pos \in Step
  BY DEF Create, Update, Inv, TypeOK
<1>2. \A n \in Step \ {pos} : store'[n] = store[n]
  BY DEF Create, Update, Inv, TypeOK
<1>3. store'[pos].kind = "ours"
  BY <1>1 DEF Create, Update, Inv, TypeOK, UpdatesOurs, Entry
<1>4. ASSUME NEW f \in Opinion[pos] PROVE store'[pos].fields[f] = "want"
  <2>1. f \in Field
    BY <1>1, <1>4, StorageAssumption
  <2>2. CASE Create
    BY <1>1, <1>4, <2>2 DEF Create, Inv, TypeOK
  <2>3. CASE Update
    <3>1. store'[pos].fields[f] =
            IF f \in Drift(pos, seen[pos]) THEN "want" ELSE store[pos].fields[f]
      BY <2>1, <2>3, UpdatedFields
    <3> QED
      BY <1>4, <2>3, <3>1 DEF Update, Drift
  <2> QED BY <2>2, <2>3
<1>5. store'[pos].kind = "ours" /\ Drift(pos, store'[pos]) = {}
  BY <1>3, <1>4 DEF Drift
<1> QED
  BY <1>1, <1>2, <1>5 DEF Holds, Done, Drift

\* An admin's edit is the world's doing.
LEMMA EditIsWorld == ASSUME Inv, AdminEdit PROVE Stage!World
<1>1. \A n \in Step \ Shared : store'[n] = store[n]
  BY DEF AdminEdit, Inv, TypeOK
<1>2. Holds \cap (Step \ Shared) \subseteq Holds'
  BY <1>1 DEF Holds, Done, Drift
<1>3. Holds' \subseteq Step
  BY DEF Holds
<1> QED
  BY <1>2, <1>3 DEF AdminEdit, Stage!World, Stage!WorldMoves, Stage!WorldMay, Stage!Step, Step, Stage!run, Mode

LEMMA StageNext == Inv /\ [Next]_vars => [Stage!Next]_(Stage!vars)
<1> SUFFICES ASSUME Inv, [Next]_vars PROVE [Stage!Next]_(Stage!vars)
  OBVIOUS
<1> USE StorageAssumption, HoldsUnchanged DEF Mode
<1>1. CASE AdminEdit
  BY <1>1, EditIsWorld DEF Stage!Next
<1>2. CASE Begin
  BY <1>2 DEF Begin, StartRun, Stage!StartRun, Stage!Next
<1>3. CASE CheckDone
  BY <1>3 DEF CheckDone, SkipStep, Advance, Last, Stage!CheckDone, Stage!Advance, Stage!Next,
              Stage!Run, Holds, Inv, TypeOK
<1>4. CASE CheckPending
  <2>1. pos \notin Holds
    BY <1>4 DEF CheckPending, Holds
  <2> QED
    BY <1>4, <2>1 DEF CheckPending, Enter, Goto, Stage!CheckPending, Stage!Next, Stage!Run
<1>5. CASE ReadAbsent \/ ReadDrifted
  BY <1>5 DEF ReadAbsent, ReadDrifted, Goto, Stage!vars, Stage!run
<1>6. ASSUME phase \notin {"idle", "check"}, StepApplied, pos \in Holds',
             Holds \subseteq Holds'
      PROVE  Stage!ApplyDone
  <2>1. Holds' \subseteq Stage!Step
    BY DEF Holds, Step, Stage!Step
  <2> QED
    BY <1>6, <2>1 DEF StepApplied, Advance, Last, Stage!ApplyDone, Stage!Advance,
                      Stage!WorldMay, Stage!Step, Step
<1>7. CASE ReadConverged
  <2>1. pos \in Holds
    BY <1>7 DEF ReadConverged, Holds, Inv, TypeOK
  <2> QED
    BY <1>6, <1>7, <2>1 DEF ReadConverged, Stage!Next, Stage!Run
<1>8. CASE Create \/ Update
  <2>1. Holds' = Holds \cup {pos} /\ phase \notin {"idle", "check"}
    BY <1>8, WriteHolds DEF Create, Update
  <2>2. CASE StepApplied
    BY <1>6, <2>1, <2>2 DEF Stage!Next, Stage!Run
  <2>3. CASE Goto("lost")
    <3>1. pos \in Step
      BY <1>8 DEF Create, Update, Inv, TypeOK
    <3>2. Holds \subseteq Step
      BY DEF Holds
    <3> QED
      BY <2>1, <2>3, <3>1, <3>2
      DEF Goto, Stage!World, Stage!WorldMoves, Stage!WorldMay, Stage!Step, Step, Stage!run, Stage!Next
  <2> QED BY <1>8, <2>2, <2>3 DEF Create, Update, Written
<1>9. CASE CheckConflict \/ ReadConflict \/ CallFails
  <2>1. Fail /\ UNCHANGED store
    BY <1>9 DEF CheckConflict, ReadConflict, CallFails
  <2>2. CASE phase = "check"
    BY <2>1, <2>2 DEF Fail, Stage!CheckError, Stage!Fail, Stage!Next, Stage!Fault
  <2>3. CASE phase # "check"
    BY <2>1, <2>3 DEF Fail, Stage!ApplyError, Stage!Fail, Stage!Next, Stage!Fault
  <2> QED BY <2>2, <2>3
<1>10. CASE Killed
  BY <1>10 DEF Killed, Kill, Stage!Interrupt, Stage!Next, Stage!Fault
<1>11. CASE UNCHANGED vars
  BY <1>11 DEF vars, Stage!vars, Stage!run
<1> QED
  BY <1>1, <1>2, <1>3, <1>4, <1>5, <1>7, <1>8, <1>9, <1>10, <1>11 DEF Next

(***************************************************************************)
(* Declaring datastores is a stage of the engine: checks are exact, a step *)
(* returns success only once its entry is as declared, and only entries    *)
(* other admins touch can drift again.                                     *)
(***************************************************************************)
THEOREM StorageImplementsStage == Spec => ImplementsStage
  BY StageInit, StageNext, InitInv, NextInv, PTL DEF Spec, ImplementsStage, Stage!Spec
-----------------------------------------------------------------------------
(***************************************************************************)
(* What the engine guarantees for every stage, it guarantees for this one  *)
(* (see PveForm_proofs).                                                   *)
(***************************************************************************)
Engine ==
  INSTANCE Steps_proofs WITH
    Last <- N, Stable <- Step \ Shared, Exact <- Step,
    holds <- Holds, kind <- "run", mode <- Mode, pending <- {},
    MaxFaults <- 0, faults <- 0, missing <- {}

LEMMA SameEngine == Stage!Spec => Engine!Spec
<1>1. Stage!Init => Engine!Init
  BY DEF Stage!Init, Engine!Init, Stage!Step, Engine!Step
<1>2. [Stage!Next]_(Stage!vars) => [Engine!Next]_(Engine!vars)
  BY DEF Stage!Next, Stage!vars, Stage!run, Stage!Step, Stage!World, Stage!WorldMoves, Stage!WorldMay,
         Stage!StartRun, Stage!NoStage, Stage!Advance, Stage!Fail, Stage!Run, Stage!CheckDone,
         Stage!CheckPending, Stage!ApplyDone, Stage!Fault, Stage!CheckError, Stage!ApplyError, Stage!Interrupt,
         Engine!Next, Engine!vars, Engine!run, Engine!Step, Engine!World, Engine!WorldMoves, Engine!WorldMay,
         Engine!StartRun, Engine!NoStage, Engine!Advance, Engine!Fail, Engine!Run, Engine!CheckDone,
         Engine!CheckPending, Engine!ApplyDone, Engine!Fault, Engine!CheckError, Engine!ApplyError,
         Engine!Interrupt
<1> QED BY <1>1, <1>2, PTL DEF Stage!Spec, Engine!Spec

(***************************************************************************)
(* Every datastore before the one a run of pve storage is at is as         *)
(* declared, and after a run that returns no error all are, but for those  *)
(* other admins edit.                                                      *)
(***************************************************************************)
THEOREM DeclaredInOrder == Spec => [](Stage!EarlierHold /\ Stage!ConvergedWhenOk)
<1>1. Engine!StageAssumption
  BY StorageAssumption DEF Engine!StageAssumption, Step
<1>2. Engine!Spec => []Engine!EarlierHold /\ []Engine!ConvergedWhenOk
  BY <1>1, Engine!StepsInOrder, Engine!OkConverged
<1>3. Engine!EarlierHold /\ Engine!ConvergedWhenOk => Stage!EarlierHold /\ Stage!ConvergedWhenOk
  BY DEF Engine!EarlierHold, Engine!ConvergedWhenOk, Stage!EarlierHold, Stage!ConvergedWhenOk
<1> QED BY StorageImplementsStage, SameEngine, <1>2, <1>3, PTL DEF ImplementsStage
=============================================================================
