---------------------------- MODULE MCTalosApply ----------------------------
(***************************************************************************)
(* First the operator reads the diff of some small documents; then comes   *)
(* TalosApply with at most MaxFaults failed calls, lost answers and kills  *)
(* and MaxOutside edits of the config, patches and changed reservations.   *)
(***************************************************************************)
EXTENDS TalosApply, DriftReport, FiniteSets

CONSTANTS
  MaxFaults, MaxOutside,
  MaxLines,   \* lines of a document
  MaxScript   \* lines of an edit script

ASSUME MCApplyAssumption == MaxLines \in Nat /\ MaxScript \in Nat

VARIABLES
  faults, outside,
  reading   \* a diff the operator reads before the stage is run

mcVars == <<vars, faults, outside, reading>>

Texts(n) == UNION {[1 .. k -> 1 .. 2] : k \in 0 .. n}
\* A config with one document or the other, or both; 2 and 3 are secrets.
Bodies == [v1alpha1 |-> UNION {[1 .. k -> 1 .. 3] : k \in 1 .. 2}, HostnameConfig |-> [{1} -> 1 .. 2]]
MachineConfigs ==
  UNION {{c \in [keys -> UNION {Bodies[key] : key \in keys}] : \A key \in keys : c[key] \in Bodies[key]}
           : keys \in SUBSET DOMAIN Bodies}
\* Any lines of distinct texts may be kept or dropped.
Scripts ==
  UNION {{[i \in 1 .. k |-> Op(marks[i], i)] : marks \in [1 .. k -> {"keep", "drop"}]} : k \in 1 .. MaxScript}

Nothing == [of |-> "nothing"]
Readings ==
  [of : {"documents"}, before : Texts(MaxLines), after : Texts(MaxLines)]
    \cup [of : {"configs"}, before : MachineConfigs, after : MachineConfigs]
    \cup [of : {"script"}, ops : Scripts]

MCInit == Init /\ faults = 0 /\ outside = 0 /\ reading \in Readings

HasRead == reading.of # "nothing" /\ reading' = Nothing /\ UNCHANGED <<vars, faults, outside>>
Applying(A) == reading.of = "nothing" /\ A /\ UNCHANGED reading
Calm(A) == Applying(A /\ UNCHANGED <<faults, outside>>)

Fault == Stop \/ BeginFails \/ (Apply /\ result' = "failed")
Progress == Step \/ (Apply /\ result' # "failed")

MCNext ==
  \/ HasRead
  \/ \E s \in {Node} \cup {{n} : n \in Node} : Calm(Begin(s))
  \/ Calm(Progress) \/ Calm(Operator)
  \/ Applying(Fault /\ faults < MaxFaults /\ faults' = faults + 1 /\ UNCHANGED outside)
  \/ Applying(Outside /\ outside < MaxOutside /\ outside' = outside + 1 /\ UNCHANGED faults)

(***************************************************************************)
(* A run goes on, the operator runs the stage for all nodes every now and  *)
(* then, and in the end the upgrade a run failed with the command for.     *)
(***************************************************************************)
MCSpec ==
  /\ MCInit /\ [][MCNext]_mcVars
  /\ WF_mcVars(HasRead) /\ WF_mcVars(Calm(Progress))
  /\ SF_mcVars(Calm(Begin(Node)))
  /\ \A n \in Node : SF_mcVars(Calm(Upgrade(n)))

NeedsReboot(n) == live[n].boot # Kind(config, Reboots)

(***************************************************************************)
(* Once the edits end, every node before the first that takes the config   *)
(* only with a reboot (and every node, when there is none) runs it for     *)
(* good, on an image of the schematic it renders.  Nothing is said of the  *)
(* nodes behind: rebooting, as the error asks, does not make a run get by. *)
(***************************************************************************)
Converges ==
  <>[](\A n \in Node :
         (\A m \in 1 .. n : ~NeedsReboot(m)) => live[n] = Rendered(n, config) /\ RunsSchematic(n, config))
-----------------------------------------------------------------------------
Count(line, text) == Cardinality({i \in DOMAIN text : text[i] = line})

(***************************************************************************)
(* The edit script turns the live lines into the rendered ones, and no     *)
(* script has fewer changes: an operator who reads the diff is not told of *)
(* lines the apply leaves alone (lineDiff: "a minimal LCS line diff").     *)
(***************************************************************************)
ShortestScript ==
  reading.of = "documents" =>
    LET x == reading.before
        y == reading.after
        ops == EditScript(x, y)
    IN /\ LinesOf(ops, {"keep", "drop"}) = x
       /\ LinesOf(ops, {"keep", "add"}) = y
       /\ \A z \in Texts(MaxLines) :
            IsSubsequence(z, x) /\ IsSubsequence(z, y) => Changes(ops) + 2 * Len(z) <= Len(x) + Len(y)

\* What a section drops and adds is what the apply takes and brings.
Balanced(running, rendered) ==
  LET diff == ConfigDiff(running, rendered)
  IN \A key \in DOMAIN running \cup DOMAIN rendered, line \in 0 .. 1 :
       LET section == Document(diff, key)
       IN   Count(line, Document(Redact(rendered), key)) + Count(line, LinesOf(section, {"drop"}))
          = Count(line, Document(Redact(running), key)) + Count(line, LinesOf(section, {"add"}))

(***************************************************************************)
(* Nothing that changes is hidden: the sections of a config drop and add,  *)
(* line by line, what the apply takes away and brings, secrets redacted,   *)
(* and a script is printed with its context, gaps for the rest             *)
(* (formatOps: "keeping only the lines within diffContext of a change").   *)
(***************************************************************************)
DiffShowsChanges ==
  /\ reading.of = "script" /\ Changes(reading.ops) > 0 => FormatOps(reading.ops) = Unified(reading.ops)
  /\ reading.of = "configs" => Balanced(reading.before, reading.after)
=============================================================================
