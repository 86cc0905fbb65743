---------------------------- MODULE MCIpxeBuild ----------------------------
(***************************************************************************)
(* IpxeBuild with at most MaxFaults stopped runs of ipxe or emit and       *)
(* MaxEdits edits of the config.                                           *)
(***************************************************************************)
EXTENDS IpxeBuild

CONSTANTS MaxFaults, MaxEdits

VARIABLES faults, edits

mcVars == <<vars, faults, edits>>

MCInit == Init /\ faults = 0 /\ edits = 0

Emitted == Emit /\ embed' = url /\ UNCHANGED <<faults, edits>>
Normal == (Run \/ BuildWorks) /\ UNCHANGED <<faults, edits>>

MCNext ==
  \/ Emitted \/ Normal
  \/ OrphanWorks /\ UNCHANGED <<faults, edits>>
  \/ EditConfig /\ edits < MaxEdits /\ edits' = edits + 1 /\ UNCHANGED faults
  \/ /\ Stop \/ (Emit /\ embed' = Torn)
     /\ faults < MaxFaults /\ faults' = faults + 1 /\ UNCHANGED edits

(***************************************************************************)
(* The run and the container go on, the operator re-runs a stage that      *)
(* stopped, and runs emit when told to, between two runs.                  *)
(***************************************************************************)
MCSpec ==
  /\ MCInit /\ [][MCNext]_mcVars
  /\ WF_mcVars(Normal) /\ SF_mcVars(Emitted)

(***************************************************************************)
(* Emit and ipxe, re-run after any interruption, converge.                 *)
(***************************************************************************)
Converges == phase = "idle" ~> result = "ok"
=============================================================================
