----------------------------- MODULE MCPveForm -----------------------------
(***************************************************************************)
(* PveForm with bounds on what goes wrong: MaxFaults failed calls, misread *)
(* checks, needless timeouts and kills; MaxOutages members going offline.  *)
(***************************************************************************)
EXTENDS PveForm

CONSTANTS MaxFaults, MaxOutages

VARIABLES faults, outages

mcVars == <<vars, faults, outages>>

MCInit == Init /\ faults = 0 /\ outages = 0

\* Outcomes of the run that need something to have gone wrong.
Fault ==
  \/ CheckPending /\ Done(pos)
  \/ CreateAccepted /\ result' = "failed"
  \/ CreateRefused /\ cluster = "none"
  \/ JoinNotSent
  \/ JoinRefused /\ pos \notin members
  \/ MemberTimeout /\ pos \in members
  \/ CountFails
  \/ QuorumTimeout /\ QuorateWith(want)
  \/ Interrupt

\* What the run does by itself, the timeouts it cannot avoid included.
Normal ==
  \/ StartRun
  \/ CheckDone
  \/ CheckPending /\ ~Done(pos)
  \/ CreateAccepted /\ result' # "failed"
  \/ CreateRefused /\ cluster # "none"
  \/ JoinAccepted
  \/ JoinRefused /\ pos \in members
  \/ MemberSeen
  \/ MemberTimeout /\ pos \notin members
  \/ CountMembers
  \/ QuorumSeen
  \/ QuorumTimeout /\ ~QuorateWith(want)

Outage == \E n \in Known : GoesOffline(n)
Lands == CreateLands \/ \E n \in Node : JoinLands(n)
Settles == \E n \in Known : ComesOnline(n)

MCNext ==
  \/ /\ Normal \/ Lands \/ Settles \/ \E n \in Node : JoinDropped(n)
     /\ UNCHANGED <<faults, outages>>
  \/ /\ Fault /\ faults < MaxFaults
     /\ faults' = faults + 1 /\ UNCHANGED outages
  \/ /\ Outage /\ outages < MaxOutages
     /\ outages' = outages + 1 /\ UNCHANGED faults

MCSafetySpec == MCInit /\ [][MCNext]_mcVars

(***************************************************************************)
(* The run goes on, the operator re-runs a run that stopped, accepted      *)
(* requests land and members come online.                                  *)
(***************************************************************************)
MCSpec ==
  /\ MCSafetySpec
  /\ WF_mcVars(Normal /\ UNCHANGED <<faults, outages>>)
  /\ WF_mcVars(Lands /\ UNCHANGED <<faults, outages>>)
  /\ WF_mcVars(Settles /\ UNCHANGED <<faults, outages>>)

(***************************************************************************)
(* Within a run each join is gated on the join before (JoinGatedInRun), as *)
(* long as no member has gone offline by itself.                           *)
(***************************************************************************)
JoinGatedNoOutage == [][outages' = 0 => GateHolds(applied)]_mcVars

(***************************************************************************)
(* Re-running after any interruption converges (Long text of pve form),    *)
(* unless the primary was in a cluster with another name.                  *)
(***************************************************************************)
Converges == phase = "idle" ~> result = "ok" \/ cluster = "foreign"
=============================================================================
