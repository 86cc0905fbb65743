----------------------------- MODULE PveStorage -----------------------------
(***************************************************************************)
(* pve storage (internal/pve/storage.go): one step per declared datastore. *)
(* An entry is compared field by field with its declaration, so a field is *)
(* either "want", equal to the declared value as a set or a string, or     *)
(* "other".  A field without an opinion in the config is never written.    *)
(* Reads and writes name the digest of storage.cfg, the file that holds    *)
(* every entry; other admins edit it, too.                                 *)
(***************************************************************************)
EXTENDS Naturals

CONSTANTS
  N,        \* number of declared datastores
  Field,    \* fields an update can write: pool, content, nodes, sparse, disable
  Opinion,  \* Opinion[n]: the fields declaration n has an opinion on
  Shared    \* datastores other admins may touch

Step == 1 .. N
Last == N

ASSUME StorageAssumption ==
  /\ N \in Nat \ {0}
  /\ Opinion \in [Step -> SUBSET Field]
  /\ Shared \subseteq Step

VARIABLES
  store,  \* Proxmox: the entry of each declared name
  seen,   \* the run: what Apply has read, entries and digest
  phase, pos, applied, result

vars == <<store, seen, phase, pos, applied, result>>

INSTANCE StageRun

\* kind: whether type and path are the declared ones.
Entry == [kind : {"absent", "ours", "conflict"}, fields : [Field -> {"want", "other"}]]
Phase == {"idle", "check", "read", "create", "update", "lost"}

TypeOK ==
  /\ store \in [Step -> Entry]
  /\ seen \in [Step -> Entry]
  /\ phase \in Phase
  /\ pos \in 1 .. N + 1
  /\ phase # "idle" => pos \in Step
  /\ applied \subseteq Step
  /\ result \in {"none", "ok", "failed"}

Init ==
  /\ store \in [Step -> Entry]
  /\ seen = store
  /\ RunInit
-----------------------------------------------------------------------------
\* storageUpdateFor: the declared fields that differ; nil when there is none.
Drift(n, e) == {f \in Opinion[n] : e.fields[f] # "want"}

\* storageCheck; a conflict is an error, neither done nor pending.
Done(n) == store[n].kind = "ours" /\ Drift(n, store[n]) = {}

\* An admin creates, changes or deletes entries other than the run's own.
AdminEdit ==
  /\ \E n \in Shared, e \in Entry : store' = [store EXCEPT ![n] = e]
  /\ UNCHANGED <<seen, phase, pos, applied, result>>

Begin == StartRun /\ UNCHANGED <<store, seen>>
CheckDone == phase = "check" /\ Done(pos) /\ SkipStep /\ UNCHANGED <<store, seen>>
CheckPending ==
  /\ phase = "check"
  /\ store[pos].kind # "conflict" /\ ~Done(pos)
  /\ Enter("read")
  /\ UNCHANGED <<store, seen>>
CheckConflict ==
  /\ phase = "check" /\ store[pos].kind = "conflict"
  /\ Fail /\ UNCHANGED <<store, seen>>

\* applyStorage reads the index again and decides anew.
ReadAbsent ==
  /\ phase = "read" /\ store[pos].kind = "absent"
  /\ seen' = store
  /\ Goto("create")
  /\ UNCHANGED store
ReadConflict ==
  /\ phase = "read" /\ store[pos].kind = "conflict"
  /\ Fail /\ UNCHANGED <<store, seen>>
\* Mutation: the identity is compared by the check alone.
ReadDriftedAnyKind ==
  /\ phase = "read" /\ store[pos].kind # "absent"
  /\ Drift(pos, store[pos]) # {}
  /\ seen' = store
  /\ Goto("update")
  /\ UNCHANGED store
ReadDrifted ==
  /\ phase = "read" /\ store[pos].kind = "ours"
  /\ Drift(pos, store[pos]) # {}
  /\ seen' = store
  /\ Goto("update")
  /\ UNCHANGED store
ReadConverged == phase = "read" /\ Done(pos) /\ StepApplied /\ UNCHANGED <<store, seen>>

\* The write is effective; its answer may still be lost, and CallFails follows.
Written == StepApplied \/ Goto("lost")

Create ==
  /\ phase = "create" /\ store[pos].kind = "absent"
  /\ \E e \in Entry :
       /\ e.kind = "ours" /\ \A f \in Opinion[pos] : e.fields[f] = "want"
       /\ store' = [store EXCEPT ![pos] = e]
  /\ Written
  /\ UNCHANGED seen

\* Mutation: the update does not carry the digest of the read.
UpdateBlind ==
  /\ phase = "update" /\ store[pos].kind # "absent"
  /\ store' = [store EXCEPT ![pos].fields =
                [f \in Field |-> IF f \in Drift(pos, seen[pos]) THEN "want" ELSE @[f]]]
  /\ Written
  /\ UNCHANGED seen
\* Mutation: the whole declaration is sent, as it is for a create.
UpdateWhole ==
  /\ phase = "update" /\ store = seen
  /\ store' = [store EXCEPT ![pos].fields =
                [f \in Field |-> IF f \in Opinion[pos] THEN "want" ELSE "other"]]
  /\ Written
  /\ UNCHANGED seen
\* UpdateDatastore writes the drifted fields if storage.cfg is as it was read.
Update ==
  /\ phase = "update" /\ store = seen
  /\ store' = [store EXCEPT ![pos].fields =
                [f \in Field |-> IF f \in Drift(pos, seen[pos]) THEN "want" ELSE @[f]]]
  /\ Written
  /\ UNCHANGED seen

\* A call fails, or Proxmox refuses a write that no longer fits.
CallFails == Fail /\ UNCHANGED <<store, seen>>
Killed == Kill /\ UNCHANGED <<store, seen>>

Next ==
  \/ AdminEdit
  \/ Begin \/ CheckDone \/ CheckPending \/ CheckConflict
  \/ ReadAbsent \/ ReadConflict \/ ReadDrifted \/ ReadConverged
  \/ Create \/ Update
  \/ CallFails \/ Killed

Spec == Init /\ [][Next]_vars
-----------------------------------------------------------------------------
(***************************************************************************)
(* The stage never writes an entry of another type or path, which may back *)
(* live disks, even when an admin replaces the entry between the read and  *)
(* the write (identityMismatch: "that decision is the operator's").        *)
(***************************************************************************)
RunWrites == phase \in {"create", "update"} /\ phase' # phase
ConflictsKept ==
  [][RunWrites => \A n \in Step : store[n].kind = "conflict" => store'[n] = store[n]]_vars

(***************************************************************************)
(* What a write of the stage changes is a field that, at that moment, has  *)
(* drifted from what the config declares for it, or an entry that is not   *)
(* there; edits of admins since the read survive ("a concurrent edit fails *)
(* the write instead of being clobbered").                                 *)
(***************************************************************************)
WritesOnlyDrift ==
  [][RunWrites =>
       \A n \in Step, f \in Field :
         store'[n].fields[f] # store[n].fields[f] =>
           store[n].kind = "absent" \/ f \in Drift(n, store[n])]_vars
-----------------------------------------------------------------------------
(***************************************************************************)
(* The stage implements the engine's contract: checks are exact, and an    *)
(* entry only the operator touches stays declared.                         *)
(***************************************************************************)
Mode == IF phase \in {"idle", "check"} THEN phase ELSE "apply"
Holds == {n \in Step : Done(n)}

Stage ==
  INSTANCE Steps WITH
    Last <- N,
    Stable <- Step \ Shared,
    Exact <- Step,
    holds <- Holds,
    kind <- "run",
    mode <- Mode,
    pending <- {}

ImplementsStage == Stage!Spec
=============================================================================
