---------------------------- MODULE MCPveCerts -----------------------------
(***************************************************************************)
(* PveCerts with bounds: MaxFaults calls and tasks that fail needlessly,   *)
(* kills and expiries, MaxEdits writes of another admin.  FirstUse and     *)
(* FirstSlots restrict what the first run may find; it finds a node whose  *)
(* pve-ssl.pem covers the FQDN without a frontend certificate.             *)
(***************************************************************************)
EXTENDS PveCerts

CONSTANTS MaxFaults, MaxEdits, FirstUse, FirstSlots

VARIABLES faults, edits

mcVars == <<vars, faults, edits>>

MCInit ==
  /\ Init
  /\ plugin.creds # "absent" => plugin.use \in FirstUse
  /\ \A n \in Node \ Builtin, i \in Slot : cfg[n].slots[i] \in FirstSlots
  /\ \A n \in Builtin :
       front[n] = NoCert /\ cfg[n] = [account |-> "other", slots |-> [i \in Slot |-> "stale"]]
  /\ faults = 0 /\ edits = 0

Fault == Stop \/ TaskFails \/ \E n \in Node : Ages(n)

MCNext ==
  \/ (Progress \/ LeftTaskEnds \/ TaskEnds) /\ UNCHANGED <<faults, edits>>
  \/ Fault /\ faults < MaxFaults /\ faults' = faults + 1 /\ UNCHANGED edits
  \/ Edit /\ edits < MaxEdits /\ edits' = edits + 1 /\ UNCHANGED faults

MCSafetySpec == MCInit /\ [][MCNext]_mcVars

(***************************************************************************)
(* The run goes on, the operator re-runs a stage that stopped, and the     *)
(* tasks of Proxmox end.                                                   *)
(***************************************************************************)
MCSpec ==
  /\ MCSafetySpec
  /\ WF_mcVars(Progress /\ UNCHANGED <<faults, edits>>)
  /\ WF_mcVars((LeftTaskEnds \/ TaskEnds) /\ UNCHANGED <<faults, edits>>)

(***************************************************************************)
(* Re-running after any interruption, edit or expiry converges, a flip of  *)
(* the CA included, unless other domains fill every slot of a node.        *)
(***************************************************************************)
Converges ==
  phase = "idle" ~> result = "ok" \/ \E n \in Node : \A i \in Slot : cfg[n].slots[i] = "other"
=============================================================================
