---------------------------- MODULE MCPveStorage ---------------------------
(***************************************************************************)
(* PveStorage with MaxFaults failed calls and kills and MaxEdits edits.    *)
(***************************************************************************)
EXTENDS PveStorage

CONSTANTS MaxFaults, MaxEdits

VARIABLES faults, edits

mcVars == <<vars, faults, edits>>

\* The first declaration has an opinion on a list only, the second on all.
MCOpinion == [n \in Step |-> IF n = 1 THEN {"nodes"} ELSE Field]

MCInit ==
  /\ Init
  /\ faults = 0 /\ edits = 0

Refused ==
  /\ \/ phase = "create" /\ store[pos].kind # "absent"
     \/ phase = "update" /\ store # seen
     \/ phase = "lost"
  /\ Fail /\ UNCHANGED <<store, seen>>

Normal ==
  \/ Begin \/ CheckDone \/ CheckPending \/ CheckConflict
  \/ ReadAbsent \/ ReadConflict \/ ReadDrifted \/ ReadConverged
  \/ (Create \/ Update) /\ StepApplied
  \/ Refused
Faulty == CallFails \/ Killed \/ ((Create \/ Update) /\ Goto("lost"))

MCNext ==
  \/ Normal /\ UNCHANGED <<faults, edits>>
  \/ Faulty /\ faults < MaxFaults /\ faults' = faults + 1 /\ UNCHANGED edits
  \/ AdminEdit /\ edits < MaxEdits /\ edits' = edits + 1 /\ UNCHANGED faults

MCSpec == MCInit /\ [][MCNext]_mcVars
=============================================================================
