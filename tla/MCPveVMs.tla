------------------------------ MODULE MCPveVMs ------------------------------
(***************************************************************************)
(* PveVMs with at most MaxFaults failed calls, lost answers, broken tasks  *)
(* and kills, and MaxOutside VMs stopped or removed by others.             *)
(***************************************************************************)
EXTENDS PveVMs

CONSTANTS MaxFaults, MaxOutside

VARIABLES faults, outside

mcVars == <<vars, faults, outside>>

MCInit == Init /\ faults = 0 /\ outside = 0

Lost == phase' = "idle"

Progress ==
  \/ Begin \/ CheckDone \/ CheckPending \/ Refused \/ WaitEnds
  \/ ((Create \/ Start) /\ ~Lost)

Fault == Stop \/ TaskBreaks \/ ((Create \/ Start) /\ Lost)

MCNext ==
  \/ (Progress \/ Proxmox) /\ UNCHANGED <<faults, outside>>
  \/ Fault /\ faults < MaxFaults /\ faults' = faults + 1 /\ UNCHANGED outside
  \/ /\ \E v \in VM : Outside(v)
     /\ outside < MaxOutside /\ outside' = outside + 1 /\ UNCHANGED faults

(***************************************************************************)
(* The run goes on, the operator re-runs a stage that stopped, and the     *)
(* tasks of Proxmox end.                                                   *)
(***************************************************************************)
MCSpec ==
  /\ MCInit /\ [][MCNext]_mcVars
  /\ WF_mcVars(Progress /\ UNCHANGED <<faults, outside>>)
  /\ WF_mcVars(LeftTaskEnds /\ UNCHANGED <<faults, outside>>)
  /\ WF_mcVars(TaskEnds /\ UNCHANGED <<faults, outside>>)

(***************************************************************************)
(* "A re-run after any interruption creates only what is missing": it      *)
(* converges, also past VMs an earlier run is still creating or starting.  *)
(***************************************************************************)
Converges == phase = "idle" ~> result = "ok"
=============================================================================
