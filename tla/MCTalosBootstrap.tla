-------------------------- MODULE MCTalosBootstrap --------------------------
(***************************************************************************)
(* TalosBootstrap with at most MaxFaults stopped commands, lost answers    *)
(* and probes that fail although etcd is up.                               *)
(***************************************************************************)
EXTENDS TalosBootstrap

CONSTANT MaxFaults

VARIABLES
  faults,
  cut  \* history: whether a command stopped while it filled a credential

mcVars == <<vars, faults, cut>>

MCInit == Init /\ faults = 0 /\ cut = "no"

Fault ==
  \/ Stop
  \/ Bootstrap /\ result' = "failed"
  \/ EtcdPending /\ Reachable /\ etcd = "up"

Progress ==
  \/ CreateSecrets \/ FillSecrets \/ DeleteSecrets
  \/ Begin \/ NoSession \/ FileDone \/ FilePending \/ EtcdDone
  \/ EtcdPending /\ ~(Reachable /\ etcd = "up")
  \/ Bootstrap /\ result' # "failed"
  \/ AlreadyBootstrapped \/ Fetch \/ Write \/ Fill

\* A call to a node that is not there, or has another identity, fails.
Unreachable == phase \in {"bootstrap", "fetch"} /\ ~Reachable /\ Stop /\ result' = "failed"

MCNext ==
  \/ (Progress \/ Unreachable \/ World) /\ UNCHANGED <<faults, cut>>
  \/ /\ Fault /\ faults < MaxFaults
     /\ faults' = faults + 1
     /\ cut' = IF phase = "fill" THEN "yes" ELSE cut

(***************************************************************************)
(* Commands go on, the operator draws a bundle, deletes one that does not  *)
(* load and re-runs a stage that stopped; the node installs, etcd starts.  *)
(***************************************************************************)
MCSpec ==
  /\ MCInit /\ [][MCNext]_mcVars
  /\ WF_mcVars((Progress \/ Unreachable) /\ UNCHANGED <<faults, cut>>)
  /\ SF_mcVars(CreateSecrets /\ UNCHANGED <<faults, cut>>)
  /\ SF_mcVars(DeleteSecrets /\ UNCHANGED <<faults, cut>>)
  /\ SF_mcVars(Begin /\ UNCHANGED <<faults, cut>>)
  /\ SF_mcVars(World /\ UNCHANGED <<faults, cut>>)

(***************************************************************************)
(* OkMeansBootstrapped, and both credentials are whole and of the node,    *)
(* unless a run stopped in the middle of writing one.                      *)
(***************************************************************************)
OkMeansCredentials ==
  /\ OkMeansBootstrapped
  /\ result = "ok" /\ cut = "no" => \A s \in {1, 3} : credentials[s] = node

(***************************************************************************)
(* Secrets and bootstrap, re-run after any interruption, converge.         *)
(***************************************************************************)
Converges == phase = "idle" ~> result = "ok"
=============================================================================
