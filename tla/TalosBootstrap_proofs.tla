------------------------ MODULE TalosBootstrap_proofs -----------------------
(***************************************************************************)
(* Proofs about secrets and bootstrap, for any number of bundles drawn and *)
(* any number of stopped commands.                                         *)
(***************************************************************************)
EXTENDS MCTalosBootstrap, TLAPS

USE DEF Last

LEMMA InitType == Init => TypeOK
  BY BootstrapAssumption DEF Init, RunInit, TypeOK, Content, Absent, Bundle

(***************************************************************************)
(* Why there is one identity.  A bundle that is whole in secrets.yaml is   *)
(* never replaced; a file that is torn or absent is the identity of        *)
(* nothing yet, so the bundle drawn next is free to become it; and a run   *)
(* holds the bundle of the file.                                           *)
(***************************************************************************)
BundleHeld ==
  /\ phase = "secrets" => secrets = Torn /\ drawn \in Bundle
  /\ phase \notin {"idle", "secrets"} => bundle \in Bundle /\ bundle = secrets

LEMMA TornIsNoBundle == Torn \notin Bundle /\ Absent \notin Bundle
  BY BootstrapAssumption DEF Torn, Absent, Bundle

\* What the engine's Advance does to the types.
LEMMA AdvanceTypes ==
  ASSUME TypeOK, phase \in {"check", "bootstrap", "fill"}, pos \in 1 .. 3, Advance
  PROVE  /\ pos' \in 1 .. 4 /\ phase' \in {"check", "idle"}
         /\ phase' = "check" => pos' \in 1 .. 3
         /\ result' \in {"none", "ok"} /\ (result' = "ok" => pos = 3 /\ phase' = "idle")
         /\ phase' = "check" => pos' = pos + 1
  BY DEF TypeOK, Advance

LEMMA NextType == TypeOK /\ BundleHeld /\ Next => TypeOK'
<1> SUFFICES ASSUME TypeOK, BundleHeld, Next PROVE TypeOK'
  OBVIOUS
<1> USE BootstrapAssumption DEF TypeOK
<1>1. CASE CreateSecrets
  BY <1>1 DEF CreateSecrets, cluster, Content, Torn
<1>2. CASE FillSecrets
  BY <1>2 DEF FillSecrets, cluster, Content, Bundle, Absent
<1>3. CASE DeleteSecrets
  BY <1>3 DEF DeleteSecrets, cluster, Content
<1>4. CASE NodeInstalls
  BY <1>4 DEF NodeInstalls, Bundle, Absent
<1>5. CASE EtcdUp
  BY <1>5 DEF EtcdUp
<1>6. CASE Begin
  BY <1>6 DEF Begin, StartRun, cluster
<1>7. CASE NoSession
  BY <1>7 DEF NoSession, cluster
<1>8. CASE FileDone
  BY <1>8, AdvanceTypes DEF FileDone, SkipStep, cluster
<1>9. CASE FilePending
  BY <1>9 DEF FilePending, Enter, Goto, cluster
<1>10. CASE EtcdDone
  BY <1>10, AdvanceTypes DEF EtcdDone, SkipStep, cluster
<1>11. CASE EtcdPending
  BY <1>11 DEF EtcdPending, Enter, Goto, cluster
<1>12. CASE Bootstrap
  <2>1. /\ etcd' = "starting" /\ node # Absent
        /\ UNCHANGED <<secrets, credentials, drawn, node, bundle>>
        /\ phase = "bootstrap" /\ pos = 2
    <3>1. bundle # Absent
      BY <1>12, TornIsNoBundle DEF Bootstrap, BundleHeld
    <3> QED BY <1>12, <3>1 DEF Bootstrap, Reachable
  <2>2. CASE StepApplied
    BY <2>1, <2>2, AdvanceTypes DEF StepApplied
  <2>3. CASE Fail
    BY <2>1, <2>3 DEF Fail
  <2> QED BY <1>12, <2>2, <2>3 DEF Bootstrap
<1>13. CASE AlreadyBootstrapped
  BY <1>13, AdvanceTypes DEF AlreadyBootstrapped, StepApplied, cluster
<1>14. CASE Fetch
  BY <1>14 DEF Fetch, Goto, cluster
<1>15. CASE Write
  BY <1>15 DEF Write, Goto, cluster, Content
<1>16. CASE Fill
  BY <1>16, AdvanceTypes DEF Fill, StepApplied, cluster, Content
<1>17. CASE Stop
  BY <1>17 DEF Stop, Fail, Kill, cluster
<1> QED
  BY <1>1, <1>2, <1>3, <1>4, <1>5, <1>6, <1>7, <1>8, <1>9, <1>10, <1>11, <1>12, <1>13,
     <1>14, <1>15, <1>16, <1>17 DEF Next, Run, World

IdentityInv == TypeOK /\ OneIdentity /\ BundleHeld

LEMMA InitIdentity == Init => IdentityInv
  BY InitType DEF Init, RunInit, IdentityInv, OneIdentity, BundleHeld, Bundle, Absent

LEMMA NextIdentity == IdentityInv /\ Next => IdentityInv'
<1> SUFFICES ASSUME IdentityInv, Next PROVE OneIdentity' /\ BundleHeld'
  BY NextType DEF IdentityInv
<1> USE BootstrapAssumption, TornIsNoBundle DEF IdentityInv, OneIdentity, BundleHeld
<1>1. CASE CreateSecrets
  BY <1>1 DEF CreateSecrets, cluster, TypeOK, Bundle
<1>2. CASE FillSecrets
  BY <1>2 DEF FillSecrets, cluster
<1>3. CASE DeleteSecrets
  BY <1>3 DEF DeleteSecrets, cluster
<1>4. CASE NodeInstalls
  BY <1>4 DEF NodeInstalls
<1>5. CASE EtcdUp
  BY <1>5 DEF EtcdUp
<1>6. CASE Begin
  BY <1>6 DEF Begin, StartRun, cluster
<1>7. CASE NoSession
  BY <1>7 DEF NoSession, cluster
<1>8. CASE Write
  BY <1>8 DEF Write, Goto, cluster, TypeOK
<1>9. CASE Fill
  <2>1. credentials[1]' \in {credentials[1], bundle, node}
        /\ credentials[3]' \in {credentials[3], bundle, node}
    BY <1>9 DEF Fill, TypeOK
  <2>2. UNCHANGED <<secrets, node, bundle, drawn>> /\ phase = "fill" /\ phase' \in {"check", "idle"}
    BY <1>9 DEF Fill, StepApplied, Advance, cluster
  <2> QED BY <2>1, <2>2
<1>10. ASSUME UNCHANGED <<secrets, credentials, drawn, node, bundle>>,
              phase' \notin {"secrets"}, phase \notin {"idle", "secrets"} \/ phase' = "idle"
       PROVE  OneIdentity' /\ BundleHeld'
  BY <1>10
<1>11. CASE FileDone \/ FilePending \/ EtcdDone \/ EtcdPending \/ Bootstrap
            \/ AlreadyBootstrapped \/ Fetch \/ Stop
  BY <1>11, <1>10 DEF FileDone, FilePending, EtcdDone, EtcdPending, Bootstrap, AlreadyBootstrapped,
     Fetch, Stop, SkipStep, StepApplied, Advance, Enter, Goto, Fail, Kill, cluster
<1> QED
  BY <1>1, <1>2, <1>3, <1>4, <1>5, <1>6, <1>7, <1>8, <1>9, <1>11 DEF Next, Run, World

\* The inductive invariant behind both theorems.
LEMMA IdentityAlways == Spec => []IdentityInv
<1>1. IdentityInv /\ UNCHANGED vars => IdentityInv'
  BY DEF IdentityInv, TypeOK, OneIdentity, BundleHeld, vars, cluster
<1> QED BY <1>1, InitIdentity, NextIdentity, PTL DEF Spec

(***************************************************************************)
(* The state keeps its types, torn files and stopped commands included.    *)
(***************************************************************************)
THEOREM TypeCorrect == Spec => []TypeOK
  BY IdentityAlways, PTL DEF IdentityInv

(***************************************************************************)
(* However the commands are stopped and re-run, the node and the           *)
(* credentials never carry another bundle than secrets.yaml.               *)
(***************************************************************************)
THEOREM IdentityIsKept == Spec => []OneIdentity
  BY IdentityAlways, PTL DEF IdentityInv
-----------------------------------------------------------------------------
(***************************************************************************)
(* Why success means bootstrapped: what a step leaves behind is never      *)
(* undone, and each step is passed only with its work there.               *)
(***************************************************************************)
Behind ==
  phase \notin {"idle", "secrets"} =>
    /\ pos > 1 => credentials[1] # Absent
    /\ pos > 2 => etcd # "none"
    /\ result = "none"

DoneInv == IdentityInv /\ OkMeansBootstrapped /\ Behind

LEMMA InitDone == Init => DoneInv
  BY InitIdentity DEF Init, RunInit, DoneInv, OkMeansBootstrapped, Behind

LEMMA NextDone == DoneInv /\ Next => DoneInv'
<1> SUFFICES ASSUME DoneInv, Next PROVE OkMeansBootstrapped' /\ Behind'
  BY NextIdentity DEF DoneInv
<1> USE DEF DoneInv, IdentityInv, OkMeansBootstrapped, Behind
<1>1. CASE CreateSecrets \/ FillSecrets \/ DeleteSecrets \/ NodeInstalls
  BY <1>1 DEF CreateSecrets, FillSecrets, DeleteSecrets, NodeInstalls, cluster
<1>2. CASE EtcdUp
  BY <1>2 DEF EtcdUp
<1>3. CASE Begin \/ NoSession
  BY <1>3 DEF Begin, StartRun, NoSession, cluster
<1>4. ASSUME Advance, phase \in {"check", "bootstrap", "fill"}, pos \in 1 .. 3,
             pos = 1 => credentials'[1] # Absent, pos = 2 => etcd' # "none",
             pos = 3 => credentials'[3] # Absent,
             credentials[1] # Absent => credentials'[1] # Absent, etcd # "none" => etcd' # "none"
      PROVE  OkMeansBootstrapped' /\ Behind'
  BY <1>4, AdvanceTypes DEF TypeOK
<1>5. CASE FileDone
  BY <1>5, <1>4 DEF FileDone, SkipStep, cluster, TypeOK
<1>6. CASE EtcdDone
  BY <1>6, <1>4 DEF EtcdDone, SkipStep, cluster, TypeOK
<1>7. CASE FilePending \/ EtcdPending \/ Fetch
  BY <1>7 DEF FilePending, EtcdPending, Fetch, Enter, Goto, cluster
<1>8. CASE Bootstrap
  BY <1>8, <1>4 DEF Bootstrap, StepApplied, Fail, TypeOK
<1>9. CASE AlreadyBootstrapped
  BY <1>9, <1>4 DEF AlreadyBootstrapped, StepApplied, cluster, TypeOK
<1>10. CASE Write
  <2>1. \A s \in {1, 3} : credentials'[s] \in {credentials[s], Torn} /\ Torn # Absent
    BY <1>10, BootstrapAssumption DEF Write, TypeOK, Torn, Absent
  <2>2. UNCHANGED <<etcd, pos, result>> /\ phase = "write" /\ phase' = "fill"
    BY <1>10 DEF Write, Goto, cluster
  <2> QED BY <2>1, <2>2
<1>11. CASE Fill
  <2>1. bundle # Absent /\ (pos = 3 => node # Absent)
    BY <1>11, TornIsNoBundle DEF Fill, BundleHeld, TypeOK
  <2>2. /\ pos = 1 => credentials'[1] = bundle /\ credentials'[3] = credentials[3]
        /\ pos = 3 => credentials'[3] = node /\ credentials'[1] = credentials[1]
        /\ pos \in {1, 3}
    BY <1>11 DEF Fill, TypeOK
  <2> QED BY <1>11, <2>1, <2>2, <1>4 DEF Fill, StepApplied, cluster
<1>12. CASE Stop
  BY <1>12 DEF Stop, Fail, Kill, cluster
<1> QED
  BY <1>1, <1>2, <1>3, <1>5, <1>6, <1>7, <1>8, <1>9, <1>10, <1>11, <1>12 DEF Next, Run, World

LEMMA StutterDone == DoneInv /\ UNCHANGED vars => DoneInv'
  BY DEF DoneInv, IdentityInv, TypeOK, OneIdentity, BundleHeld, OkMeansBootstrapped, Behind, vars, cluster

(***************************************************************************)
(* A run that returns no error leaves etcd bootstrapped and both           *)
(* credentials written, whatever was answered or lost on the way.          *)
(***************************************************************************)
THEOREM SuccessMeansBootstrapped == Spec => []OkMeansBootstrapped
<1>1. DoneInv => OkMeansBootstrapped
  BY DEF DoneInv
<1> QED BY <1>1, InitDone, NextDone, StutterDone, PTL DEF Spec
-----------------------------------------------------------------------------
(***************************************************************************)
(* Why the credentials are whole.  A file is torn from the moment it is    *)
(* truncated until it is filled, so a torn one outside that moment means a *)
(* run was cut off there, which the history remembers.                     *)
(***************************************************************************)
Whole ==
  cut = "no" => \A s \in {1, 3} : credentials[s] = Torn => phase = "fill" /\ pos = s

WholeInv == DoneInv /\ Whole

\* Leaving a half-written credential sets the history; every other step of
\* the budget is a step of the system, whose history it leaves as it is.
LEMMA MCNextSteps ==
  ASSUME MCNext
  PROVE  /\ Next
         /\ cut' = cut \/ cut' = "yes"
         /\ phase = "fill" => Fill \/ World \/ cut' = "yes"
<1> USE DEF Next, Run, World
<1>1. CASE Progress /\ UNCHANGED <<faults, cut>>
  BY <1>1 DEF Progress, CreateSecrets, FillSecrets, DeleteSecrets, Begin, StartRun, NoSession,
     FileDone, FilePending, EtcdDone, EtcdPending, SkipStep, Enter, Bootstrap, AlreadyBootstrapped,
     Fetch, Write
<1>2. CASE Unreachable /\ UNCHANGED <<faults, cut>>
  BY <1>2 DEF Unreachable
<1>3. CASE World /\ UNCHANGED <<faults, cut>>
  BY <1>3
<1>4. CASE Fault /\ cut' = IF phase = "fill" THEN "yes" ELSE cut
  BY <1>4 DEF Fault
<1> QED BY <1>1, <1>2, <1>3, <1>4 DEF MCNext

LEMMA NextWhole == WholeInv /\ [MCNext]_mcVars => WholeInv'
<1> SUFFICES ASSUME WholeInv, [MCNext]_mcVars PROVE DoneInv' /\ Whole'
  BY DEF WholeInv
<1>1. DoneInv'
  BY NextDone, StutterDone, MCNextSteps DEF WholeInv, mcVars
<1>2. CASE UNCHANGED mcVars
  BY <1>1, <1>2 DEF mcVars, vars, WholeInv, Whole
<1>3. CASE MCNext
  <2>1. Next /\ (cut' = cut \/ cut' = "yes") /\ (phase = "fill" => Fill \/ World \/ cut' = "yes")
    BY <1>3, MCNextSteps
  <2> SUFFICES ASSUME cut' = "no" PROVE Whole'
    BY <1>1 DEF Whole
  <2>2. /\ cut = "no" /\ TypeOK /\ BundleHeld
        /\ \A s \in {1, 3} : credentials[s] = Torn => phase = "fill" /\ pos = s
    BY <2>1 DEF WholeInv, Whole, DoneInv, IdentityInv
  <2>3. CASE Write
    BY <2>2, <2>3 DEF Write, Goto, Whole, TypeOK
  <2>4. CASE Fill
    <3>1. bundle # Torn /\ node # Torn
      BY <2>2, <2>4, TornIsNoBundle, BootstrapAssumption DEF Fill, BundleHeld, TypeOK, Torn, Absent
    <3>2. \A s \in {1, 3} : credentials'[s] # Torn
      BY <2>2, <2>4, <3>1 DEF Fill, TypeOK
    <3> QED BY <3>2 DEF Whole
  <2>5. ASSUME UNCHANGED credentials, phase # "fill" \/ UNCHANGED <<phase, pos>> PROVE Whole'
    BY <2>2, <2>5 DEF Whole
  <2>6. CASE World
    BY <2>5, <2>6 DEF World, NodeInstalls, EtcdUp
  <2>7. CASE ~(Write \/ Fill \/ World)
    BY <2>1, <2>5, <2>7
    DEF Next, Run, CreateSecrets, FillSecrets, DeleteSecrets, Begin, NoSession, FileDone, FilePending,
        EtcdDone, EtcdPending, Bootstrap, AlreadyBootstrapped, Fetch, Stop
  <2> QED BY <1>1, <2>3, <2>4, <2>6, <2>7
<1> QED BY <1>1, <1>2, <1>3

(***************************************************************************)
(* A run that returns no error leaves both credentials whole and those of  *)
(* the node, unless some run was cut off in the middle of writing one      *)
(* (writeCredential, cmd/talos.go): a file that is only there is taken to  *)
(* be done, so nothing but that moment can leave a bad one behind.         *)
(***************************************************************************)
THEOREM SuccessMeansCredentials == MCSpec => []OkMeansCredentials
<1>1. MCInit => WholeInv
  BY InitDone, BootstrapAssumption DEF MCInit, Init, WholeInv, Whole, Torn, Absent
<1>2. WholeInv => OkMeansCredentials
  <2> SUFFICES ASSUME WholeInv, result = "ok", cut = "no", NEW s \in {1, 3}
               PROVE  credentials[s] = node
    BY DEF WholeInv, DoneInv, OkMeansCredentials
  <2>1. /\ TypeOK /\ OneIdentity /\ etcd # "none"
        /\ credentials[s] # Absent /\ credentials[s] # Torn
    BY DEF WholeInv, Whole, DoneInv, IdentityInv, Behind, OkMeansBootstrapped
  <2>2. credentials[s] \in Bundle /\ node \in Bundle
    BY <2>1 DEF TypeOK, Content
  <2> QED BY <2>1, <2>2 DEF OneIdentity
<1> QED BY <1>1, <1>2, NextWhole, PTL DEF MCSpec
-----------------------------------------------------------------------------
(***************************************************************************)
(* talos bootstrap as a stage of the engine.  A session only starts with a *)
(* bundle that loads, and such a bundle is never deleted or replaced: so   *)
(* all that talos secrets does, and every session that does not start,     *)
(* come before the first run of the stage.                                 *)
(***************************************************************************)
BeforeFirst ==
  /\ bundle = Absent => pos = 1 /\ applied = {} /\ phase \in {"idle", "secrets"}
  /\ bundle # Absent => secrets \in Bundle

StageInv == DoneInv /\ BeforeFirst

LEMMA NextBefore == StageInv /\ Next => BeforeFirst'
<1> SUFFICES ASSUME StageInv, Next PROVE BeforeFirst'
  OBVIOUS
<1> USE TornIsNoBundle DEF BeforeFirst
<1>0. TypeOK /\ BundleHeld /\ BeforeFirst
  BY DEF StageInv, DoneInv, IdentityInv
<1>1. CASE CreateSecrets \/ FillSecrets \/ DeleteSecrets
  BY <1>0, <1>1 DEF CreateSecrets, FillSecrets, DeleteSecrets, BundleHeld
<1>2. CASE Begin
  BY <1>0, <1>2 DEF Begin, StartRun
<1>3. CASE World \/ NoSession
  BY <1>0, <1>3 DEF World, NodeInstalls, EtcdUp, NoSession, cluster
<1>4. CASE UNCHANGED <<bundle, secrets>> /\ phase \notin {"idle", "secrets"}
  BY <1>0, <1>4
<1>5. CASE FileDone \/ FilePending \/ EtcdDone \/ EtcdPending \/ Bootstrap \/ AlreadyBootstrapped \/ Fetch \/ Write \/ Fill
  BY <1>4, <1>5 DEF FileDone, FilePending, EtcdDone, EtcdPending, Bootstrap, AlreadyBootstrapped, Fetch, Write, Fill
<1>6. CASE Stop
  BY <1>0, <1>6 DEF Stop, Fail, Kill
<1> QED BY <1>1, <1>2, <1>3, <1>5, <1>6 DEF Next, Run

LEMMA StageInit == Init => Stage!Init /\ StageInv
<1> SUFFICES ASSUME Init PROVE Stage!Init /\ StageInv
  OBVIOUS
<1>1. Stage!Init
  BY DEF Init, RunInit, Stage!Init, Mode, Holds, Stage!Step
<1>2. StageInv
  BY InitDone, TornIsNoBundle DEF Init, RunInit, StageInv, BeforeFirst
<1> QED BY <1>1, <1>2

\* Neither a credential nor the data of etcd goes away.
LEMMA CredentialsHold ==
  ASSUME DoneInv, [Next]_vars
  PROVE  Holds' \in SUBSET Stage!Step /\ Stage!WorldMoves
<1>0. TypeOK /\ BundleHeld /\ Behind
  BY DEF DoneInv, IdentityInv
<1>1. etcd # "none" => etcd' # "none"
  BY DEF Next, Run, World, CreateSecrets, FillSecrets, DeleteSecrets, NodeInstalls, EtcdUp, Begin, NoSession,
         FileDone, FilePending, EtcdDone, EtcdPending, Bootstrap, AlreadyBootstrapped, Fetch, Write, Fill, Stop,
         vars, cluster
<1>2. ASSUME NEW s \in {1, 3}, credentials[s] # Absent PROVE credentials'[s] # Absent
  <2>1. CASE Write
    <3>1. credentials'[s] \in {credentials[s], Torn}
      BY <1>0, <2>1 DEF Write, TypeOK
    <3>2. Torn # Absent
      BY BootstrapAssumption DEF Torn, Absent
    <3> QED BY <1>2, <3>1, <3>2
  <2>2. CASE Fill
    <3>1. bundle # Absent /\ (pos = 3 => node # Absent)
      BY <1>0, <2>2, TornIsNoBundle DEF Fill, BundleHeld, Behind, TypeOK
    <3>2. credentials'[s] = credentials[s] \/ credentials'[s] = (IF pos = 1 THEN bundle ELSE node)
      BY <1>0, <2>2 DEF Fill, TypeOK
    <3>3. pos \in {1, 3}
      BY <1>0, <2>2 DEF Fill, TypeOK
    <3> QED BY <1>2, <3>1, <3>2, <3>3
  <2>3. CASE UNCHANGED credentials
    BY <1>2, <2>3
  <2> QED
    BY <2>1, <2>2, <2>3
    DEF Next, Run, World, CreateSecrets, FillSecrets, DeleteSecrets, NodeInstalls, EtcdUp, Begin, NoSession,
        FileDone, FilePending, EtcdDone, EtcdPending, Bootstrap, AlreadyBootstrapped, Fetch, Stop, vars
<1>3. Holds' \subseteq 1 .. 3
  BY DEF Holds
<1>4. Holds \subseteq Holds'
  BY <1>1, <1>2 DEF Holds
<1> QED BY <1>3, <1>4 DEF Stage!WorldMoves, Stage!WorldMay, Stage!Step

LEMMA StageNext == StageInv /\ [Next]_vars => [Stage!Next]_(Stage!vars)
<1> SUFFICES ASSUME StageInv, [Next]_vars PROVE [Stage!Next]_(Stage!vars)
  OBVIOUS
<1>0. TypeOK /\ BundleHeld /\ Behind /\ BeforeFirst
  BY DEF StageInv, DoneInv, IdentityInv
<1>h. Holds' \in SUBSET Stage!Step /\ Stage!WorldMoves
  BY CredentialsHold DEF StageInv
<1>k. UNCHANGED <<credentials, etcd>> => Holds' = Holds
  BY DEF Holds
<1>s. phase \notin {"idle", "secrets"} => bundle # Absent
  BY <1>0 DEF BeforeFirst
\* What moves only the world, and what stays within Apply.
<1>w. ASSUME Mode' = Mode, UNCHANGED <<pos, applied, bundle>>, result' = result \/ bundle = Absent
      PROVE  Stage!Next
  BY <1>h, <1>w DEF Stage!World, Stage!run, Stage!Next
<1>d. ASSUME phase \notin {"idle", "secrets", "check"}, StepApplied, UNCHANGED bundle, pos \in Holds'
      PROVE  Stage!Next
  BY <1>h, <1>s, <1>d DEF StepApplied, Advance, Stage!ApplyDone, Stage!Advance, Stage!WorldMoves,
                          Stage!WorldMay, Stage!Next, Stage!Run, Mode
<1>a. ASSUME phase \notin {"idle", "secrets", "check"}, Fail, UNCHANGED bundle PROVE Stage!Next
  BY <1>h, <1>s, <1>a DEF Fail, Stage!ApplyError, Stage!Fail, Stage!Next, Stage!Fault, Mode
<1>1. CASE Begin
  <2>1. bundle' # Absent
    BY <1>1, TornIsNoBundle DEF Begin
  <2> QED BY <1>1, <1>h, <2>1 DEF Begin, StartRun, Stage!StartRun, Stage!Next, Mode
<1>2. CASE CreateSecrets \/ FillSecrets \/ DeleteSecrets \/ NoSession
  <2>1. bundle = Absent
    BY <1>0, <1>2, TornIsNoBundle
    DEF CreateSecrets, FillSecrets, DeleteSecrets, NoSession, BundleHeld, BeforeFirst
  <2> QED BY <1>2, <1>w, <2>1 DEF CreateSecrets, FillSecrets, DeleteSecrets, NoSession, Mode
<1>3. CASE World \/ UNCHANGED vars
  BY <1>3, <1>w DEF World, NodeInstalls, EtcdUp, vars, Mode
<1>4. CASE FileDone \/ EtcdDone
  <2>1. phase = "check" /\ SkipStep /\ UNCHANGED <<credentials, etcd, bundle>>
    BY <1>4 DEF FileDone, EtcdDone, cluster
  <2>2. pos \in Holds
    BY <1>4 DEF FileDone, EtcdDone, Holds
  <2> QED
    BY <1>k, <1>s, <2>1, <2>2 DEF SkipStep, Advance, Stage!CheckDone, Stage!Advance, Stage!Next, Stage!Run, Mode
<1>5. CASE FilePending \/ EtcdPending
  <2>1. /\ phase = "check" /\ UNCHANGED <<credentials, etcd, bundle, pos, applied, result>>
        /\ phase' \in {"write", "fetch", "bootstrap"}
    BY <1>5 DEF FilePending, EtcdPending, Enter, Goto, cluster
  <2>2. pos \notin Holds \cap {1, 3}
    BY <1>5 DEF FilePending, EtcdPending, Holds
  <2> QED BY <1>k, <2>1, <2>2 DEF Stage!CheckPending, Stage!Next, Stage!Run, Mode
<1>6. CASE Bootstrap
  <2>1. etcd' # "none" /\ pos = 2 /\ phase = "bootstrap" /\ UNCHANGED bundle /\ (StepApplied \/ Fail)
    BY <1>0, <1>6 DEF Bootstrap, TypeOK
  <2> QED BY <1>a, <1>d, <2>1 DEF Holds
<1>7. CASE AlreadyBootstrapped
  <2>1. etcd' # "none" /\ pos = 2 /\ phase = "bootstrap" /\ UNCHANGED bundle /\ StepApplied
    BY <1>0, <1>7 DEF AlreadyBootstrapped, TypeOK, cluster
  <2> QED BY <1>d, <2>1 DEF Holds
<1>8. CASE Fetch \/ Write
  BY <1>8, <1>w DEF Fetch, Write, Goto, Mode
<1>9. CASE Fill
  <2>1. bundle # Absent /\ (pos = 3 => node # Absent) /\ pos \in {1, 3}
    BY <1>0, <1>9, TornIsNoBundle DEF Fill, BundleHeld, Behind, TypeOK
  <2>2. credentials'[pos] # Absent
    BY <1>0, <1>9, <2>1 DEF Fill, TypeOK
  <2> QED BY <1>9, <1>d, <2>1, <2>2 DEF Fill, Holds
<1>10. CASE Stop
  <2>1. (Fail \/ Kill) /\ UNCHANGED <<credentials, etcd, bundle, secrets>>
    BY <1>10 DEF Stop, cluster
  <2>2. CASE phase = "secrets"
    BY <1>0, <1>w, <2>1, <2>2, TornIsNoBundle DEF Fail, Kill, BundleHeld, BeforeFirst, Mode
  <2>3. CASE phase = "check"
    BY <1>h, <1>k, <1>s, <2>1, <2>3
    DEF Fail, Kill, Stage!CheckError, Stage!Fail, Stage!Interrupt, Stage!Next, Stage!Fault, Mode
  <2>4. CASE phase \notin {"secrets", "check"}
    BY <1>a, <1>h, <1>s, <2>1, <2>4 DEF Fail, Kill, Stage!Interrupt, Stage!Next, Stage!Fault, Mode
  <2> QED BY <2>2, <2>3, <2>4
<1> QED
  BY <1>1, <1>2, <1>3, <1>4, <1>5, <1>6, <1>7, <1>8, <1>9, <1>10 DEF Next, Run

(***************************************************************************)
(* talos bootstrap is a stage of the engine: talosconfig, etcd and         *)
(* kubeconfig in this order, the first failure stops the run, a step       *)
(* returns success only once its file is there or etcd has been            *)
(* bootstrapped, by this run or one whose answer was lost, and nothing     *)
(* undoes any of the three.                                                *)
(***************************************************************************)
THEOREM BootstrapImplementsStage == Spec => ImplementsStage
<1>1. StageInv /\ [Next]_vars => StageInv'
  <2>1. StageInv /\ UNCHANGED vars => StageInv'
    BY StutterDone DEF StageInv, BeforeFirst, vars
  <2> QED BY <2>1, NextDone, NextBefore DEF StageInv
<1> QED BY <1>1, StageInit, StageNext, PTL DEF Spec, ImplementsStage, Stage!Spec
-----------------------------------------------------------------------------
(***************************************************************************)
(* What the engine guarantees for every stage, it guarantees for this one  *)
(* (see PveForm_proofs).                                                   *)
(***************************************************************************)
Engine ==
  INSTANCE Steps_proofs WITH
    Stable <- {1, 2, 3}, Exact <- {1, 3},
    holds <- Holds, kind <- "run", mode <- Mode, pending <- {},
    result <- IF bundle = Absent THEN "none" ELSE result,
    MaxFaults <- 0, faults <- 0, missing <- {}

LEMMA SameEngine == Stage!Spec => Engine!Spec
<1>1. Stage!Init => Engine!Init
  BY DEF Stage!Init, Engine!Init, Stage!Step, Engine!Step
<1>2. [Stage!Next]_(Stage!vars) => [Engine!Next]_(Engine!vars)
  BY DEF Stage!Next, Stage!vars, Stage!run, Stage!Step, Stage!World, Stage!WorldMoves, Stage!WorldMay,
         Stage!StartRun, Stage!NoStage, Stage!Advance, Stage!Fail, Stage!Run, Stage!CheckDone,
         Stage!CheckPending, Stage!ApplyDone, Stage!Fault, Stage!CheckError, Stage!ApplyError, Stage!Interrupt,
         Engine!Next, Engine!vars, Engine!run, Engine!Step, Engine!World, Engine!WorldMoves, Engine!WorldMay,
         Engine!StartRun, Engine!NoStage, Engine!Advance, Engine!Fail, Engine!Run, Engine!CheckDone,
         Engine!CheckPending, Engine!ApplyDone, Engine!Fault, Engine!CheckError, Engine!ApplyError,
         Engine!Interrupt
<1> QED BY <1>1, <1>2, PTL DEF Stage!Spec, Engine!Spec

(***************************************************************************)
(* etcd is only bootstrapped once the talosconfig is there, and the        *)
(* kubeconfig only fetched once etcd has been bootstrapped, by whichever   *)
(* run; after a run that returns no error all three are.                   *)
(***************************************************************************)
THEOREM BootstrappedInOrder == Spec => [](Stage!EarlierHold /\ Stage!ConvergedWhenOk)
<1>1. Engine!StageAssumption
  BY DEF Engine!StageAssumption, Last
<1>2. Engine!Spec => []Engine!EarlierHold /\ []Engine!ConvergedWhenOk
  BY <1>1, Engine!StepsInOrder, Engine!OkConverged
<1>3. Engine!EarlierHold /\ Engine!ConvergedWhenOk => Stage!EarlierHold /\ Stage!ConvergedWhenOk
  BY DEF Engine!EarlierHold, Engine!ConvergedWhenOk, Stage!EarlierHold, Stage!ConvergedWhenOk
<1> QED BY BootstrapImplementsStage, SameEngine, <1>2, <1>3, PTL DEF ImplementsStage
=============================================================================
