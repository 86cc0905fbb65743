--------------------------- MODULE TalosBootstrap ---------------------------
(***************************************************************************)
(* talos secrets and talos bootstrap (internal/talos, cmd/talos.go).  The  *)
(* secrets bundle is the identity of the cluster: it is drawn once, baked  *)
(* into every node's machine config and into the operator's talosconfig.   *)
(* Bootstrap is a stage of three steps: write the talosconfig, bootstrap   *)
(* etcd on the node the endpoint resolves to, fetch the kubeconfig.        *)
(* Bundles are told apart by the order they are drawn in.                  *)
(***************************************************************************)
EXTENDS Naturals

CONSTANT Bundles  \* bound on the bundles drawn

ASSUME BootstrapAssumption == Bundles \in Nat \ {0}

VARIABLES
  \* The workstation: a bundle, Absent, or Torn.
  secrets,      \* secrets.yaml
  credentials,  \* talosconfig (of step 1) and kubeconfig (of step 3)
  drawn,        \* bundles drawn so far
  \* The endpoint node.
  node,         \* bundle its machine config carries, Absent before the install
  etcd,         \* "none", "starting" (its data directory is filled) or "up"
  \* The run.
  bundle,       \* bundle of the session
  phase, pos, applied, result

cluster == <<node, etcd>>
vars == <<secrets, credentials, drawn, cluster, bundle, phase, pos, applied, result>>

Last == 3
INSTANCE StageRun

Bundle == 1 .. Bundles
Absent == 0
Torn == Bundles + 1
Content == Bundle \cup {Absent, Torn}

TypeOK ==
  /\ secrets \in Content
  /\ credentials \in [{1, 3} -> Content]
  /\ drawn \in 0 .. Bundles
  /\ node \in Bundle \cup {Absent}
  /\ etcd \in {"none", "starting", "up"} /\ (node = Absent => etcd = "none")
  /\ bundle \in Bundle \cup {Absent}
  /\ phase \in {"idle", "secrets", "check", "bootstrap", "fetch", "write", "fill"}
  /\ pos \in 1 .. 4 /\ (phase = "check" => pos \in 1 .. 3)
  /\ (phase = "bootstrap" => pos = 2) /\ (phase = "fetch" => pos = 3)
  /\ phase \in {"write", "fill"} => pos \in {1, 3}
  /\ applied \subseteq 1 .. 3
  /\ result \in {"none", "ok", "failed"}

Init ==
  /\ secrets = Absent /\ drawn = 0
  /\ credentials = [s \in {1, 3} |-> Absent]
  /\ node = Absent /\ etcd = "none"
  /\ bundle = Absent
  /\ RunInit
-----------------------------------------------------------------------------
(***************************************************************************)
(* talos secrets: the file is created exclusively and then filled.  When   *)
(* it is there, whatever it holds, the command reports success and changes *)
(* nothing.                                                                *)
(***************************************************************************)

\* Mutation: an existing file is truncated.
CreateSecretsOver ==
  /\ phase = "idle" /\ drawn < Bundles
  /\ secrets' = Torn /\ drawn' = drawn + 1
  /\ phase' = "secrets" /\ result' = "none"
  /\ UNCHANGED <<credentials, cluster, bundle, pos, applied>>
CreateSecrets ==
  /\ phase = "idle" /\ secrets = Absent /\ drawn < Bundles
  /\ secrets' = Torn /\ drawn' = drawn + 1
  /\ phase' = "secrets" /\ result' = "none"
  /\ UNCHANGED <<credentials, cluster, bundle, pos, applied>>
FillSecrets ==
  /\ phase = "secrets"
  /\ secrets' = drawn
  /\ phase' = "idle"
  /\ UNCHANGED <<credentials, drawn, cluster, bundle, pos, applied, result>>
-----------------------------------------------------------------------------
(***************************************************************************)
(* The world: the operator deletes a bundle that does not load, never one  *)
(* that does; emit, booty and the installer put the bundle on the node;    *)
(* etcd comes up after it is bootstrapped.                                 *)
(***************************************************************************)
DeleteSecrets ==
  /\ phase = "idle" /\ secrets = Torn
  /\ secrets' = Absent
  /\ UNCHANGED <<credentials, drawn, cluster, bundle, phase, pos, applied, result>>
NodeInstalls ==
  /\ node = Absent /\ secrets \in Bundle
  /\ node' = secrets
  /\ UNCHANGED <<secrets, credentials, drawn, etcd, bundle, phase, pos, applied, result>>
EtcdUp ==
  /\ etcd = "starting" /\ etcd' = "up"
  /\ UNCHANGED <<secrets, credentials, drawn, node, bundle, phase, pos, applied, result>>
World == NodeInstalls \/ EtcdUp
-----------------------------------------------------------------------------
\* newTalosSession: without a bundle that loads there is no run.
Begin ==
  /\ secrets \in Bundle
  /\ StartRun
  /\ bundle' = secrets
  /\ UNCHANGED <<secrets, credentials, drawn, cluster>>
NoSession ==
  /\ phase = "idle" /\ secrets \notin Bundle
  /\ result' = "failed"
  /\ UNCHANGED <<secrets, credentials, drawn, cluster, bundle, phase, pos, applied>>

\* The API answers the certificate of the bundle the node was installed with.
Reachable == node = bundle

\* fileExists: a credential that is there is done, whatever it holds.
FileDone ==
  /\ phase = "check" /\ pos \in {1, 3} /\ credentials[pos] # Absent
  /\ SkipStep
  /\ UNCHANGED <<secrets, credentials, drawn, cluster, bundle>>
FilePending ==
  /\ phase = "check" /\ pos \in {1, 3} /\ credentials[pos] = Absent
  /\ Enter(IF pos = 1 THEN "write" ELSE "fetch")
  /\ UNCHANGED <<secrets, credentials, drawn, cluster, bundle>>

\* Mutation: the probe asks for a kubeconfig, which any installed node gives.
EtcdDoneByKubeconfig ==
  /\ phase = "check" /\ pos = 2 /\ Reachable
  /\ SkipStep
  /\ UNCHANGED <<secrets, credentials, drawn, cluster, bundle>>
\* bootstrapped: only an etcd that is up has a member list.
EtcdDone ==
  /\ phase = "check" /\ pos = 2 /\ Reachable /\ etcd = "up"
  /\ SkipStep
  /\ UNCHANGED <<secrets, credentials, drawn, cluster, bundle>>
\* Mutation: a probe that fails is an error.
EtcdProbeFails ==
  /\ phase = "check" /\ pos = 2
  /\ Fail
  /\ UNCHANGED <<secrets, credentials, drawn, cluster, bundle>>
\* Any error of the probe, its timeout included, reads as "not yet".
EtcdPending ==
  /\ phase = "check" /\ pos = 2
  /\ Enter("bootstrap")
  /\ UNCHANGED <<secrets, credentials, drawn, cluster, bundle>>

\* The bootstrap takes effect; its answer arrives, or it is lost.
Bootstrap ==
  /\ phase = "bootstrap" /\ Reachable /\ etcd = "none"
  /\ etcd' = "starting"
  /\ StepApplied \/ Fail
  /\ UNCHANGED <<secrets, credentials, drawn, node, bundle>>
\* FailedPrecondition, AlreadyExists: the data directory is not empty.
AlreadyBootstrapped ==
  /\ phase = "bootstrap" /\ Reachable /\ etcd # "none"
  /\ StepApplied
  /\ UNCHANGED <<secrets, credentials, drawn, cluster, bundle>>

\* The node signs a kubeconfig by itself, bootstrapped or not.
Fetch ==
  /\ phase = "fetch" /\ Reachable
  /\ Goto("write")
  /\ UNCHANGED <<secrets, credentials, drawn, cluster, bundle>>

\* writeCredential: os.WriteFile truncates the file and then fills it.
Write ==
  /\ phase = "write"
  /\ credentials' = [credentials EXCEPT ![pos] = Torn]
  /\ Goto("fill")
  /\ UNCHANGED <<secrets, drawn, cluster, bundle>>
Fill ==
  /\ phase = "fill"
  /\ credentials' = [credentials EXCEPT ![pos] = IF pos = 1 THEN bundle ELSE node]
  /\ StepApplied
  /\ UNCHANGED <<secrets, drawn, cluster, bundle>>

\* A call fails, a file cannot be written, or the process is killed.
Stop == (Fail \/ Kill) /\ UNCHANGED <<secrets, credentials, drawn, cluster, bundle>>

Run ==
  \/ Begin \/ NoSession
  \/ FileDone \/ FilePending \/ EtcdDone \/ EtcdPending
  \/ Bootstrap \/ AlreadyBootstrapped \/ Fetch \/ Write \/ Fill

Next == CreateSecrets \/ FillSecrets \/ DeleteSecrets \/ World \/ Run \/ Stop

Spec == Init /\ [][Next]_vars
-----------------------------------------------------------------------------
(***************************************************************************)
(* One identity: the node and both credentials carry the bundle that is in *)
(* secrets.yaml, however the commands were interrupted and re-run          *)
(* (secrets.go: regenerating the bundle "makes a new cluster identity and  *)
(* orphans every node holding the old one").                               *)
(***************************************************************************)
OneIdentity ==
  \A b \in {node, credentials[1], credentials[3]} : b \in Bundle => b = secrets

(***************************************************************************)
(* After a run that returns no error etcd has been bootstrapped, although  *)
(* the check takes every error for "not yet" and the step takes a refusal  *)
(* for success, and both credentials are there.                            *)
(***************************************************************************)
OkMeansBootstrapped ==
  result = "ok" => etcd # "none" /\ \A s \in {1, 3} : credentials[s] # Absent
-----------------------------------------------------------------------------
(***************************************************************************)
(* talos bootstrap as a stage of the engine: a credential holds when it is *)
(* there, etcd when it has been bootstrapped, and nothing undoes either.   *)
(* The probe of etcd is not exact.  talos secrets is no stage; what it     *)
(* returns, or a session that does not start, comes before the first run.  *)
(***************************************************************************)
Mode == IF phase = "secrets" THEN "idle" ELSE IF phase \in {"idle", "check"} THEN phase ELSE "apply"
Holds == {s \in 1 .. 3 : IF s = 2 THEN etcd # "none" ELSE credentials[s] # Absent}

Stage ==
  INSTANCE Steps WITH
    Stable <- {1, 2, 3},
    Exact <- {1, 3},
    holds <- Holds,
    kind <- "run",
    mode <- Mode,
    pending <- {},
    result <- IF bundle = Absent THEN "none" ELSE result

ImplementsStage == Stage!Spec
=============================================================================
