--------------------------- MODULE PveForm_proofs ---------------------------
(***************************************************************************)
(* Proofs about cluster formation, for any number of nodes, any members    *)
(* the config does not name and any initial cluster.                       *)
(***************************************************************************)
EXTENDS MCPveForm, FiniteSetTheorems, TLAPS

(***************************************************************************)
(* What the position of a run says: the phase belongs to a step, and every *)
(* node whose step is behind the run is a member.                          *)
(***************************************************************************)
RunInv ==
  /\ phase # "idle" => pos \in Step /\ result = "none"
  /\ phase = "create" => pos = 1
  /\ phase \in {"join", "count"} => pos \in 2 .. N
  /\ phase = "waitMember" => pos \in Node
  /\ phase = "waitQuorum" /\ pos = N + 1 => want = N
  /\ phase = "waitQuorum" => pos # 1
  /\ \A n \in Node : n < pos => n \in members
  /\ phase \in {"count", "waitQuorum"} /\ pos \in Node => pos \in members
  /\ result = "ok" => pos = N + 2 /\ cluster = "ours"

(***************************************************************************)
(* What the requests in flight say about the cluster they change.          *)
(***************************************************************************)
FlightInv ==
  /\ \A n \in inflight : n \notin members /\ \A m \in 1 .. n - 1 : m \in members
  /\ 1 \in inflight => cluster = "none"
  /\ cluster = "none" => members = {}

Inv == TypeOK /\ RunInv /\ FlightInv

LEMMA InitInv == Init => Inv
<1> SUFFICES ASSUME Init PROVE Inv
  OBVIOUS
<1> USE FormAssumption DEF Init, Node, Step, Known
<1>1. TypeOK
  BY DEF TypeOK, Phase
<1>2. RunInv
  BY DEF RunInv
<1>3. FlightInv
  BY DEF FlightInv
<1> QED
  BY <1>1, <1>2, <1>3 DEF Inv

-----------------------------------------------------------------------------
\* The sets whose cardinality the quorum arithmetic takes are finite.
LEMMA KnownFinite == IsFiniteSet(Node) /\ Cardinality(Node) = N /\ IsFiniteSet(Known)
<1>1. N \in Int /\ 1 \in Int /\ ~(1 > N) /\ N - 1 + 1 = N
  BY FormAssumption
<1>2. IsFiniteSet(1 .. N) /\ Cardinality(1 .. N) = N
  BY <1>1, FS_Interval
<1> QED
  BY <1>2, FormAssumption, FS_Union DEF Node, Known

LEMMA MembersFinite ==
  ASSUME TypeOK
  PROVE  /\ IsFiniteSet(members) /\ IsFiniteSet(online)
         /\ Cardinality(members) \in Nat /\ Cardinality(online) \in Nat
<1>1. IsFiniteSet(members)
  BY KnownFinite, FS_Subset DEF TypeOK
<1>2. IsFiniteSet(online)
  BY <1>1, FS_Subset DEF TypeOK
<1> QED
  BY <1>1, <1>2, FS_CardinalityType

(***************************************************************************)
(* Every step of the nodes and of the run preserves the types.             *)
(***************************************************************************)
LEMMA NextType == Inv /\ [Next]_vars => TypeOK'
<1> SUFFICES ASSUME TypeOK, RunInv, FlightInv, [Next]_vars PROVE TypeOK'
  BY DEF Inv
<1>0. Cardinality(members) \in Nat
  BY MembersFinite
<1> USE FormAssumption DEF TypeOK, Phase, Node, Step, Known
<1>1. CASE CreateLands
  BY <1>1 DEF CreateLands, FlightInv, run
<1>2. ASSUME NEW n \in Node, JoinLands(n) \/ JoinDropped(n) PROVE TypeOK'
  BY <1>2 DEF JoinLands, JoinDropped, run
<1>3. ASSUME NEW n \in Known, ComesOnline(n) \/ GoesOffline(n) PROVE TypeOK'
  BY <1>3 DEF ComesOnline, GoesOffline, run
<1>4. CASE StartRun
  BY <1>4 DEF StartRun, world, RunInv
<1>5. CASE CheckDone
  BY <1>5 DEF CheckDone, Advance, Done, QuorateWith, world, RunInv
<1>6. CASE CheckPending
  BY <1>6 DEF CheckPending, world, RunInv
<1>7. CASE CreateAccepted
  BY <1>7 DEF CreateAccepted, RunInv
<1>8. CASE CreateRefused
  BY <1>8 DEF CreateRefused, Fail, world, RunInv
<1>9. CASE JoinNotSent
  BY <1>9 DEF JoinNotSent, Fail, world, RunInv
<1>10. CASE JoinAccepted
  BY <1>10 DEF JoinAccepted, RunInv
<1>11. CASE JoinRefused
  BY <1>11 DEF JoinRefused, world, RunInv
<1>12. CASE MemberSeen
  <2>1. CASE pos = 1
    <3>1. phase = "waitMember" /\ StepApplied
      BY <1>12, <2>1 DEF MemberSeen
    <3>2. pos \in Step /\ applied' \subseteq Step
      BY <2>1, <3>1 DEF StepApplied
    <3> QED
      BY <3>1, <3>2 DEF StepApplied, Advance, world
  <2>2. CASE pos # 1
    BY <1>12, <2>2 DEF MemberSeen, world, RunInv
  <2> QED BY <2>1, <2>2
<1>13. CASE MemberTimeout
  BY <1>13 DEF MemberTimeout, Fail, world, RunInv
<1>14. CASE CountMembers
  BY <1>0, <1>14 DEF CountMembers, world, RunInv
<1>15. CASE CountFails
  BY <1>15 DEF CountFails, Fail, world, RunInv
<1>16. CASE QuorumSeen
  BY <1>16 DEF QuorumSeen, StepApplied, Advance, world, RunInv
<1>17. CASE QuorumTimeout
  BY <1>17 DEF QuorumTimeout, Fail, world, RunInv
<1>18. CASE Interrupt
  BY <1>18 DEF Interrupt, world, RunInv
<1>19. CASE UNCHANGED vars
  BY <1>19 DEF vars, world, run
<1> QED
  BY <1>1, <1>2, <1>3, <1>4, <1>5, <1>6, <1>7, <1>8, <1>9, <1>10, <1>11, <1>12, <1>13, <1>14, <1>15, <1>16, <1>17, <1>18, <1>19 DEF Next, World, CLI

(***************************************************************************)
(* Every step preserves what the position of the run says: a step is only  *)
(* passed by a check that saw it done or a wait that saw it happen, and    *)
(* members never leave the nodelist.                                       *)
(***************************************************************************)
LEMMA NextRunInv == Inv /\ [Next]_vars => RunInv'
<1> SUFFICES ASSUME TypeOK, RunInv, FlightInv, [Next]_vars PROVE RunInv'
  BY DEF Inv
<1> USE FormAssumption DEF TypeOK, RunInv, Node, Step, Known
<1>1. CASE CreateLands
  BY <1>1 DEF CreateLands, FlightInv, run
<1>2. ASSUME NEW n \in Node, JoinLands(n) \/ JoinDropped(n) PROVE RunInv'
  BY <1>2 DEF JoinLands, JoinDropped, run
<1>3. ASSUME NEW n \in Known, ComesOnline(n) \/ GoesOffline(n) PROVE RunInv'
  BY <1>3 DEF ComesOnline, GoesOffline, run
<1>4. CASE StartRun
  BY <1>4 DEF StartRun, world
<1>5. CASE CheckDone
  BY <1>5 DEF CheckDone, Advance, Done, QuorateWith, world
<1>6. CASE CheckPending
  BY <1>6 DEF CheckPending, world
<1>7. CASE CreateAccepted
  BY <1>7 DEF CreateAccepted
<1>8. CASE CreateRefused
  BY <1>8 DEF CreateRefused, Fail, world
<1>9. CASE JoinNotSent
  BY <1>9 DEF JoinNotSent, Fail, world
<1>10. CASE JoinAccepted
  BY <1>10 DEF JoinAccepted
<1>11. CASE JoinRefused
  BY <1>11 DEF JoinRefused, world
<1>12. CASE MemberSeen
  <2>1. CASE pos = 1
    BY <1>12, <2>1 DEF MemberSeen, StepApplied, Advance, world
  <2>2. CASE pos # 1
    BY <1>12, <2>2 DEF MemberSeen, world
  <2> QED BY <2>1, <2>2
<1>13. CASE MemberTimeout
  BY <1>13 DEF MemberTimeout, Fail, world
<1>14. CASE CountMembers
  BY <1>14 DEF CountMembers, world
<1>15. CASE CountFails
  BY <1>15 DEF CountFails, Fail, world
<1>16. CASE QuorumSeen
  BY <1>16 DEF QuorumSeen, StepApplied, Advance, QuorateWith, world
<1>17. CASE QuorumTimeout
  BY <1>17 DEF QuorumTimeout, Fail, world
<1>18. CASE Interrupt
  BY <1>18 DEF Interrupt, world
<1>19. CASE UNCHANGED vars
  BY <1>19 DEF vars, world, run
<1> QED
  BY <1>1, <1>2, <1>3, <1>4, <1>5, <1>6, <1>7, <1>8, <1>9, <1>10, <1>11, <1>12, <1>13, <1>14, <1>15, <1>16, <1>17, <1>18, <1>19 DEF Next, World, CLI

(***************************************************************************)
(* Every step preserves what the requests in flight say: the run only      *)
(* sends one for the node it is at, and it is there because the nodes      *)
(* before it are members.                                                  *)
(***************************************************************************)
LEMMA NextFlightInv == Inv /\ [Next]_vars => FlightInv'
<1> SUFFICES ASSUME TypeOK, RunInv, FlightInv, [Next]_vars PROVE FlightInv'
  BY DEF Inv
<1> USE FormAssumption DEF TypeOK, FlightInv, Node, Known
<1>1. CASE CreateLands
  BY <1>1 DEF CreateLands
<1>2. ASSUME NEW n \in Node, JoinLands(n) \/ JoinDropped(n) PROVE FlightInv'
  BY <1>2 DEF JoinLands, JoinDropped, Quorate
<1>3. ASSUME NEW n \in Known, ComesOnline(n) \/ GoesOffline(n) PROVE FlightInv'
  BY <1>3 DEF ComesOnline, GoesOffline
<1>4. CASE CreateAccepted
  BY <1>4 DEF CreateAccepted
<1>5. CASE JoinAccepted
  BY <1>5 DEF JoinAccepted, RunInv
<1>6. CASE UNCHANGED world
  BY <1>6 DEF world
<1>7. CASE
  \/ StartRun \/ CheckDone \/ CheckPending \/ CreateRefused
  \/ JoinNotSent \/ JoinRefused \/ MemberSeen \/ MemberTimeout
  \/ CountMembers \/ CountFails \/ QuorumSeen \/ QuorumTimeout \/ Interrupt
  BY <1>6, <1>7, Zenon
  DEF StartRun, CheckDone, CheckPending, CreateRefused, JoinNotSent, JoinRefused,
      MemberSeen, MemberTimeout, CountMembers, CountFails, QuorumSeen,
      QuorumTimeout, Interrupt, Fail, StepApplied
<1> QED
  BY <1>1, <1>2, <1>3, <1>4, <1>5, <1>6, <1>7 DEF Next, World, CLI, vars

LEMMA NextInv == Inv /\ [Next]_vars => Inv'
  BY NextType, NextRunInv, NextFlightInv DEF Inv
-----------------------------------------------------------------------------
(***************************************************************************)
(* The variables of the formation keep their types.                        *)
(***************************************************************************)
THEOREM TypeCorrect == Spec => []TypeOK
<1>1. Inv => TypeOK
  BY DEF Inv
<1> QED
  BY <1>1, InitInv, NextInv, PTL DEF Spec

(***************************************************************************)
(* Membership changes never race, for any number of nodes and after any    *)
(* sequence of interruptions, timeouts and re-runs.                        *)
(***************************************************************************)
THEOREM NeverTwoChanges == Spec => []ChangesSerialized
<1>1. Inv => ChangesSerialized
  <2> SUFFICES ASSUME Inv, NEW n \in inflight, NEW m \in inflight, n # m PROVE FALSE
    BY DEF Inv, FlightInv, ChangesSerialized
  <2>1. n \in 1 .. N /\ m \in 1 .. N
    BY DEF Inv, TypeOK, Node
  <2>2. n \in 1 .. m - 1 \/ m \in 1 .. n - 1
    BY <2>1, FormAssumption
  <2> QED
    BY <2>2 DEF Inv, FlightInv
<1> QED
  BY <1>1, InitInv, NextInv, PTL DEF Spec

(***************************************************************************)
(* A run that succeeds leaves a cluster of the configured name with every  *)
(* configured node a member.                                               *)
(***************************************************************************)
THEOREM SuccessMeansFormed == Spec => []OkMeansFormed
<1>1. Inv => OkMeansFormed
  BY FormAssumption DEF Inv, TypeOK, RunInv, OkMeansFormed, Node
<1> QED
  BY <1>1, InitInv, NextInv, PTL DEF Spec

(***************************************************************************)
(* The step that ends a successful run finds every configured node online, *)
(* unless the cluster has other members.                                   *)
(***************************************************************************)
THEOREM SuccessSeenOnline == Spec => OkMeansOnline
<1>1. ASSUME Inv, QuorateWith(N), members \subseteq Node PROVE Node \subseteq online
  <2>1. online \subseteq Node
    BY <1>1 DEF Inv, TypeOK
  <2>2. Cardinality(online) <= N /\ Cardinality(online) >= N
    BY <1>1, <2>1, KnownFinite, FS_Subset DEF QuorateWith
  <2>3. Cardinality(online) \in Nat
    BY <1>1, MembersFinite DEF Inv
  <2>4. Cardinality(online) = Cardinality(Node)
    BY <2>2, <2>3, KnownFinite, FormAssumption
  <2> QED
    BY <2>1, <2>4, KnownFinite, FS_Subset
<1>2. ASSUME Inv, [Next]_vars, result' = "ok", result # "ok", members \subseteq Node
      PROVE  Node \subseteq online
  <2> USE FormAssumption DEF Inv, TypeOK, RunInv, Node, Step
  <2>1. CASE CheckDone
    BY <1>1, <1>2, <2>1 DEF CheckDone, Advance, Done
  <2>2. CASE QuorumSeen
    BY <1>1, <1>2, <2>2 DEF QuorumSeen, StepApplied, Advance
  <2>3. CASE MemberSeen
    <3>1. pos = 1 => pos # N + 1
      OBVIOUS
    <3> QED
      BY <1>2, <2>3, <3>1 DEF MemberSeen, StepApplied, Advance
  <2>4. CheckDone \/ QuorumSeen \/ MemberSeen
    BY <1>2
    DEF Next, World, CLI, vars, run, world, CreateLands, JoinLands, JoinDropped,
        ComesOnline, GoesOffline, StartRun, CheckPending, CreateAccepted,
        CreateRefused, JoinNotSent, JoinAccepted, JoinRefused, MemberTimeout,
        CountMembers, CountFails, QuorumTimeout, Interrupt, Fail
  <2> QED
    BY <2>1, <2>2, <2>3, <2>4
<1>3. Inv /\ [Next]_vars
        => [result' = "ok" /\ result # "ok" /\ members \subseteq Node
              => Node \subseteq online]_vars
  BY <1>2
<1> QED
  BY <1>3, InitInv, NextInv, PTL DEF Spec, OkMeansOnline
-----------------------------------------------------------------------------
(***************************************************************************)
(* Why a join is gated on the one before.  Between the count and the       *)
(* quorum the run waits for, and from there to the next request, only the  *)
(* node after the one just joined can become a member: until it has, the   *)
(* count is still that of the members, and the quorum that was seen still  *)
(* has all of them online, since none goes offline.                        *)
(***************************************************************************)
BehindRun == phase # "idle" => \A s \in applied : s < pos

CountStands ==
  phase = "waitQuorum" /\ pos \in 2 .. N =>
    want = Cardinality(members) \/ pos + 1 \in members

SeenOnline ==
  phase # "idle" /\ pos \in 3 .. N /\ pos - 1 \in applied =>
    pos \in members \/ members \subseteq online

Gate == BehindRun /\ CountStands /\ (outages = 0 => SeenOnline)

GateInv == Inv /\ outages \in Nat /\ Gate

\* The bounds only restrict the steps, and outages counts the members lost.
LEMMA MCNextSteps ==
  ASSUME outages \in Nat, [MCNext]_mcVars
  PROVE  /\ [Next]_vars
         /\ outages' \in Nat
         /\ outages' = 0 => outages = 0 /\ online \subseteq online'
<1>1. CASE /\ Normal \/ Lands \/ Settles \/ \E n \in Node : JoinDropped(n)
           /\ UNCHANGED <<faults, outages>>
  <2>1. Next
    BY <1>1 DEF Normal, Lands, Settles, Next, World, CLI, Known
  <2>2. online \subseteq online'
    BY <1>1
    DEF Normal, Lands, Settles, CreateLands, JoinLands, JoinDropped, ComesOnline, StartRun, CheckDone,
        CheckPending, CreateAccepted, CreateRefused, JoinAccepted, JoinRefused, MemberSeen, MemberTimeout,
        CountMembers, QuorumSeen, QuorumTimeout, StepApplied, Fail, world
  <2> QED BY <1>1, <2>1, <2>2
<1>2. CASE Fault /\ UNCHANGED outages
  <2>1. Next
    BY <1>2 DEF Fault, Next, CLI
  <2>2. UNCHANGED online
    BY <1>2
    DEF Fault, CheckPending, CreateAccepted, CreateRefused, JoinNotSent, JoinRefused, MemberTimeout,
        CountFails, QuorumTimeout, Interrupt, Fail, world
  <2> QED BY <1>2, <2>1, <2>2
<1>3. CASE Outage /\ outages' = outages + 1
  BY <1>3 DEF Outage, Next, World
<1>4. CASE UNCHANGED mcVars
  BY <1>4 DEF mcVars, vars, world
<1> QED BY <1>1, <1>2, <1>3, <1>4 DEF MCNext

\* A node that becomes a member under a run is not behind it, and the run's
\* own node, or the one after it, is a member then.
LEMMA LandsAhead ==
  ASSUME Inv, NEW n \in inflight, 1 \in members,
         NEW p \in Nat \ {0}, \A m \in Node : m < p => m \in members
  PROVE  n # 1 /\ n >= p /\ p \in members \cup {n}
<1>1. N \in Nat /\ n \in 1 .. N /\ n \notin members /\ \A m \in 1 .. n - 1 : m \in members
  BY FormAssumption DEF Inv, TypeOK, FlightInv, Node
<1>2. n >= p
  BY <1>1 DEF Node
<1>3. p \in 1 .. n - 1 \/ p = n
  BY <1>1, <1>2
<1> QED BY <1>1, <1>2, <1>3

LEMMA NextGate == GateInv /\ [MCNext]_mcVars => GateInv'
<1> SUFFICES ASSUME GateInv, [MCNext]_mcVars PROVE Gate'
  BY NextInv, MCNextSteps DEF GateInv
<1>0. /\ Inv /\ Inv' /\ [Next]_vars /\ Gate /\ N \in Nat
      /\ outages' = 0 => outages = 0 /\ online \subseteq online'
  BY NextInv, MCNextSteps, FormAssumption DEF GateInv
<1>t. /\ pos \in Nat /\ pos' \in Nat /\ applied \subseteq Step /\ online \subseteq members
      /\ phase # "idle" => pos \in Step
      /\ \A n \in Node : n < pos => n \in members
      /\ phase = "waitQuorum" /\ pos \in Node => pos \in members
  BY <1>0 DEF Inv, TypeOK, RunInv, Step
<1> USE DEF Gate
\* Steps of the nodes.
<1>1. CASE UNCHANGED run
  <2>1. ASSUME phase # "idle", pos \in 2 .. N, members' # members
        PROVE  \E n \in inflight : n # 1 /\ members' = members \cup {n}
    <3>1. 1 \in members
      BY <1>0, <1>t, <2>1 DEF Node
    <3>2. ~CreateLands
      BY <1>0, <3>1 DEF CreateLands, Inv, FlightInv
    <3> QED
      BY <1>0, <2>1, <3>2, <1>1
      DEF Next, World, CLI, vars, world, run, CreateLands, JoinLands, JoinDropped, ComesOnline, GoesOffline,
          StartRun, CheckDone, CheckPending, CreateAccepted, CreateRefused, JoinNotSent, JoinAccepted,
          JoinRefused, MemberSeen, MemberTimeout, CountMembers, CountFails, QuorumSeen, QuorumTimeout,
          Interrupt, Fail, StepApplied
  <2>2. BehindRun'
    BY <1>0, <1>1 DEF run, BehindRun
  <2>3. CountStands'
    <3> SUFFICES ASSUME phase = "waitQuorum", pos \in 2 .. N, members' # members
                 PROVE  pos + 1 \in members'
      BY <1>0, <1>1, <2>1 DEF run, CountStands
    <3>1. PICK n \in inflight : n # 1 /\ members' = members \cup {n}
      BY <2>1
    <3>2. \A m \in Node : m < pos + 1 => m \in members
      BY <1>t, <1>0 DEF Node
    <3> QED BY <1>0, <1>t, <3>1, <3>2, LandsAhead DEF Node
  <2>4. outages' = 0 => SeenOnline'
    <3> SUFFICES ASSUME outages' = 0, phase # "idle", pos \in 3 .. N, pos - 1 \in applied
                 PROVE  pos \in members' \/ members' \subseteq online'
      BY <1>1 DEF run, SeenOnline
    <3>1. CASE members' = members
      BY <1>0, <3>1 DEF SeenOnline
    <3>2. CASE members' # members
      <4>1. PICK n \in inflight : n # 1 /\ members' = members \cup {n}
        BY <2>1, <3>2
      <4>2. 1 \in members
        BY <1>0, <1>t DEF Node
      <4> QED BY <1>0, <1>t, <4>1, <4>2, LandsAhead
    <3> QED BY <3>1, <3>2
  <2> QED BY <2>2, <2>3, <2>4
\* Steps of the run that stay at its node.
<1>2. ASSUME UNCHANGED <<members, online, pos, applied>>, phase # "idle",
             phase' # "waitQuorum" \/ pos = N + 1 \/ want' = Cardinality(members)
      PROVE  Gate'
  BY <1>0, <1>2 DEF BehindRun, CountStands, SeenOnline
<1>3. ASSUME phase' = "idle" PROVE Gate'
  BY <1>3 DEF BehindRun, CountStands, SeenOnline
<1>4. CASE StartRun
  BY <1>0, <1>4 DEF StartRun, BehindRun, CountStands, SeenOnline
<1>5. CASE CheckPending
  BY <1>0, <1>2, <1>5, <1>t DEF CheckPending, world, Node, Step
<1>6. CASE CreateAccepted \/ JoinAccepted \/ JoinRefused
  BY <1>2, <1>3, <1>6 DEF CreateAccepted, JoinAccepted, JoinRefused, world
<1>7. CASE CountMembers
  BY <1>2, <1>7 DEF CountMembers, world
<1>8. CASE CreateRefused \/ JoinNotSent \/ MemberTimeout \/ CountFails \/ QuorumTimeout \/ Interrupt
  BY <1>3, <1>8 DEF CreateRefused, JoinNotSent, MemberTimeout, CountFails, QuorumTimeout, Interrupt, Fail
\* Steps that go on to the next node.
<1>9. CASE CheckDone
  <2>1. phase' # "waitQuorum" /\ pos' = pos + 1 /\ UNCHANGED applied /\ phase # "idle"
    BY <1>9 DEF CheckDone, Advance
  <2>2. BehindRun' /\ pos' - 1 \notin applied'
    BY <1>0, <1>t, <2>1 DEF BehindRun, Step
  <2> QED BY <2>1, <2>2 DEF CountStands, SeenOnline
<1>10. ASSUME phase # "idle", StepApplied,
              pos \in 2 .. N => pos + 1 \in members \/ members \subseteq online
       PROVE  Gate'
  <2>1. /\ phase' # "waitQuorum" /\ pos' = pos + 1 /\ applied' = applied \cup {pos}
        /\ UNCHANGED <<members, online>>
    BY <1>10 DEF StepApplied, Advance, world
  <2>2. BehindRun'
    BY <1>0, <1>t, <1>10, <2>1 DEF BehindRun, Step
  <2>3. pos' \in 3 .. N => pos \in 2 .. N
    BY <1>0, <1>t, <2>1
  <2> QED BY <1>10, <2>1, <2>2, <2>3 DEF CountStands, SeenOnline
<1>11. CASE MemberSeen
  BY <1>0, <1>2, <1>10, <1>11 DEF MemberSeen, world
<1>12. CASE QuorumSeen
  <2>1. ASSUME pos \in 2 .. N, pos + 1 \notin members PROVE members \subseteq online
    <3>1. want = Cardinality(members) /\ Cardinality(online) >= want
      BY <1>0, <1>12, <2>1 DEF QuorumSeen, QuorateWith, CountStands
    <3>2. IsFiniteSet(members) /\ Cardinality(members) \in Nat /\ Cardinality(online) \in Nat
      BY <1>0, MembersFinite DEF Inv
    <3>3. Cardinality(online) <= Cardinality(members)
          /\ (Cardinality(members) = Cardinality(online) => members = online)
      BY <1>t, <3>2, FS_Subset
    <3> QED BY <3>1, <3>2, <3>3
  <2> QED BY <1>10, <1>12, <2>1 DEF QuorumSeen
<1>13. World \/ UNCHANGED vars => UNCHANGED run
  BY DEF World, vars, CreateLands, JoinLands, JoinDropped, ComesOnline, GoesOffline
<1> QED
  BY <1>0, <1>1, <1>4, <1>5, <1>6, <1>7, <1>8, <1>9, <1>11, <1>12, <1>13 DEF Next, CLI

(***************************************************************************)
(* A join that follows another join of the same run is only accepted while *)
(* every member is online, for any number of nodes and of members the      *)
(* config does not name, as long as no member has gone offline by itself   *)
(* (form.go, applyJoin: quorum before the next node joins).  Of the first  *)
(* join after a create it says nothing: applyCreate has no such wait.      *)
(***************************************************************************)
THEOREM JoinsAreGated == MCSafetySpec => JoinGatedNoOutage
<1>1. MCInit => GateInv
  BY InitInv DEF MCInit, Init, GateInv, Gate, BehindRun, CountStands, SeenOnline
<1>2. GateInv /\ [MCNext]_mcVars => [outages' = 0 => GateHolds(applied)]_mcVars
  <2> SUFFICES ASSUME GateInv, [MCNext]_mcVars, outages' = 0, NEW n \in 3 .. N,
                      n \in inflight' \ inflight, n - 1 \in applied
               PROVE  members \subseteq online
    BY DEF GateHolds
  <2>1. [Next]_vars /\ outages = 0 /\ Inv
    BY MCNextSteps DEF GateInv
  <2>2. CreateAccepted \/ JoinAccepted
    BY <2>1
    DEF Next, World, CLI, vars, run, world, CreateLands, JoinLands, JoinDropped, ComesOnline, GoesOffline,
        StartRun, CheckDone, CheckPending, CreateRefused, JoinNotSent, JoinRefused, MemberSeen,
        MemberTimeout, CountMembers, CountFails, QuorumSeen, QuorumTimeout, Interrupt, Fail, StepApplied
  <2>3. JoinAccepted /\ n = pos
    BY <2>2, FormAssumption DEF CreateAccepted, JoinAccepted
  <2> QED BY <2>1, <2>3 DEF GateInv, Gate, SeenOnline, JoinAccepted
<1> QED BY <1>1, <1>2, NextGate, PTL DEF MCSafetySpec, JoinGatedNoOutage
-----------------------------------------------------------------------------
(***************************************************************************)
(* The formation implements the engine's contract for a stage.             *)
(***************************************************************************)
LEMMA StageInit == Init => Stage!Init
  BY FormAssumption DEF Init, Stage!Init, Mode, Holds, Stage!Step, Step

\* Members stay members, whatever the nodes and the run do.
LEMMA HoldsStable ==
  ASSUME Inv, [Next]_vars
  PROVE  /\ Holds' \subseteq Step
         /\ Holds \cap Node \subseteq Holds'
<1>1. members \subseteq members'
  BY DEF Inv, FlightInv, Next, World, CLI, vars, run, world, CreateLands, JoinLands,
         JoinDropped, ComesOnline, GoesOffline, StartRun, CheckDone, CheckPending,
         CreateAccepted, CreateRefused, JoinNotSent, JoinAccepted, JoinRefused,
         MemberSeen, MemberTimeout, CountMembers, CountFails, QuorumSeen,
         QuorumTimeout, Interrupt, Fail, StepApplied
<1>2. \A s \in Node : s \in Holds => s \in Holds'
  BY <1>1 DEF Holds, Done
<1> QED
  BY <1>2 DEF Holds

LEMMA WorldUnchanged ==
  UNCHANGED world => Holds' = Holds /\ Holds' \in SUBSET Stage!Step /\ Stage!WorldMoves
<1>1. UNCHANGED world => Holds' = Holds
  BY DEF world, Holds, Done, QuorateWith, Quorate
<1>2. Holds \in SUBSET Stage!Step
  BY DEF Holds, Stage!Step, Step
<1> QED BY <1>1, <1>2 DEF Stage!WorldMoves, Stage!WorldMay

LEMMA StageNext == Inv /\ [Next]_vars => [Stage!Next]_(Stage!vars)
<1> SUFFICES ASSUME Inv, [Next]_vars PROVE [Stage!Next]_(Stage!vars)
  OBVIOUS
<1> USE FormAssumption, WorldUnchanged DEF Mode
<1>a. Stage!World \/ UNCHANGED Stage!vars => [Stage!Next]_(Stage!vars)
  BY DEF Stage!Next
<1>1. CASE UNCHANGED run
  BY <1>1, HoldsStable, <1>a
  DEF run, Stage!World, Stage!WorldMoves, Stage!WorldMay, Stage!Step, Step, Stage!run
<1>2. CASE StartRun
  BY <1>2 DEF StartRun, Stage!StartRun, Stage!Next
<1>3. CASE CheckDone
  BY <1>3 DEF CheckDone, Advance, Stage!CheckDone, Stage!Advance, Stage!Next, Stage!Run,
              Holds, Inv, TypeOK, RunInv
<1>4. CASE CheckPending
  BY <1>4 DEF CheckPending, Stage!CheckPending, Stage!Next, Stage!Run
<1>5. ASSUME phase \notin {"idle", "check"}, Fail PROVE Stage!ApplyError
  BY <1>5 DEF Fail, world, Stage!ApplyError, Stage!Fail
<1>6. CASE CreateRefused \/ JoinNotSent \/ MemberTimeout \/ CountFails \/ QuorumTimeout
  BY <1>5, <1>6
  DEF CreateRefused, JoinNotSent, MemberTimeout, CountFails, QuorumTimeout,
      Stage!Next, Stage!Fault
<1>7. CASE CreateAccepted
  <2>1. Holds' = Holds /\ Stage!WorldMoves
    BY <1>7 DEF CreateAccepted, Holds, Done, QuorateWith, Quorate,
                Stage!WorldMoves, Stage!WorldMay, Stage!Step, Step
  <2> QED
    BY <1>7, <2>1
    DEF CreateAccepted, Stage!ApplyError, Stage!Fail, Stage!Next, Stage!Fault,
        Stage!vars, Stage!run
<1>8. CASE JoinAccepted
  <2>1. Holds' = Holds
    BY <1>8 DEF JoinAccepted, Holds, Done, QuorateWith, Quorate
  <2> QED
    BY <1>8, <2>1 DEF JoinAccepted, Stage!vars, Stage!run
<1>9. CASE JoinRefused
  BY <1>9 DEF JoinRefused, Stage!vars, Stage!run
<1>10. CASE CountMembers
  BY <1>10 DEF CountMembers, Stage!vars, Stage!run
<1>11. ASSUME phase \notin {"idle", "check"}, pos \in Holds, StepApplied
       PROVE  Stage!ApplyDone
  <2>1. Holds' = Holds /\ Holds \in SUBSET Stage!Step
    BY <1>11 DEF StepApplied, Holds, Step, Stage!Step
  <2> QED
    BY <1>11, <2>1 DEF StepApplied, Advance, Stage!ApplyDone, Stage!Advance, Stage!WorldMay,
                       Stage!Step, Step, Holds
<1>12. CASE MemberSeen
  <2>1. CASE pos = 1
    BY <1>11, <1>12, <2>1
    DEF MemberSeen, Stage!Next, Stage!Run, Inv, TypeOK, RunInv, Holds, Done
  <2>2. CASE pos # 1
    BY <1>12, <2>2 DEF MemberSeen, Stage!vars, Stage!run
  <2> QED BY <2>1, <2>2
<1>13. CASE QuorumSeen
  <2>1. pos \in Holds
    BY <1>13 DEF QuorumSeen, Inv, TypeOK, RunInv, Holds, Done, Step, Node
  <2> QED
    BY <1>11, <1>13, <2>1 DEF QuorumSeen, Stage!Next, Stage!Run
<1>14. CASE Interrupt
  BY <1>14 DEF Interrupt, Stage!Interrupt, Stage!Next, Stage!Fault
<1>15. World \/ UNCHANGED vars => UNCHANGED run
  BY DEF World, vars, CreateLands, JoinLands, JoinDropped, ComesOnline, GoesOffline
<1> QED
  BY <1>1, <1>2, <1>3, <1>4, <1>6, <1>7, <1>8, <1>9, <1>10, <1>12, <1>13, <1>14, <1>15
  DEF Next, CLI

(***************************************************************************)
(* Formation is a stage of the engine: a membership step returns success   *)
(* only once its node is a member, a check passes a step only when it is   *)
(* done, and every failure stops the run.                                  *)
(***************************************************************************)
THEOREM FormImplementsStage == Spec => ImplementsStage
  BY StageInit, StageNext, InitInv, NextInv, PTL DEF Spec, ImplementsStage, Stage!Spec
-----------------------------------------------------------------------------
(***************************************************************************)
(* What the engine guarantees for every stage, it guarantees for this one. *)
(* The theorems of Steps_proofs are instantiated; the budget of the runs   *)
(* and the history of MCSteps play no part in those used here.             *)
(***************************************************************************)
Engine ==
  INSTANCE Steps_proofs WITH
    Last <- N + 1, Stable <- Node, Exact <- {},
    holds <- Holds, kind <- "run", mode <- Mode, pending <- {},
    MaxFaults <- 0, faults <- 0, missing <- {}

LEMMA SameEngine == Stage!Spec => Engine!Spec
<1>1. Stage!Init => Engine!Init
  BY DEF Stage!Init, Engine!Init, Stage!Step, Engine!Step
<1>2. [Stage!Next]_(Stage!vars) => [Engine!Next]_(Engine!vars)
  BY DEF Stage!Next, Stage!vars, Stage!run, Stage!Step, Stage!World, Stage!WorldMoves, Stage!WorldMay,
         Stage!StartRun, Stage!NoStage, Stage!Advance, Stage!Fail, Stage!Run, Stage!CheckDone,
         Stage!CheckPending, Stage!ApplyDone, Stage!Fault, Stage!CheckError, Stage!ApplyError, Stage!Interrupt,
         Engine!Next, Engine!vars, Engine!run, Engine!Step, Engine!World, Engine!WorldMoves, Engine!WorldMay,
         Engine!StartRun, Engine!NoStage, Engine!Advance, Engine!Fail, Engine!Run, Engine!CheckDone,
         Engine!CheckPending, Engine!ApplyDone, Engine!Fault, Engine!CheckError, Engine!ApplyError,
         Engine!Interrupt
<1> QED BY <1>1, <1>2, PTL DEF Stage!Spec, Engine!Spec

(***************************************************************************)
(* Every node before the one a run of pve form is at is a member of the    *)
(* cluster, and after a run that returns no error all are, however many    *)
(* runs were stopped before.                                               *)
(***************************************************************************)
THEOREM FormedInOrder == Spec => [](Stage!EarlierHold /\ Stage!ConvergedWhenOk)
<1>1. Engine!StageAssumption
  BY FormAssumption DEF Engine!StageAssumption, Node
<1>2. Engine!Spec => []Engine!EarlierHold /\ []Engine!ConvergedWhenOk
  BY <1>1, Engine!StepsInOrder, Engine!OkConverged
<1>3. Engine!EarlierHold /\ Engine!ConvergedWhenOk => Stage!EarlierHold /\ Stage!ConvergedWhenOk
  BY DEF Engine!EarlierHold, Engine!ConvergedWhenOk, Stage!EarlierHold, Stage!ConvergedWhenOk
<1> QED BY FormImplementsStage, SameEngine, <1>2, <1>3, PTL DEF ImplementsStage
=============================================================================
