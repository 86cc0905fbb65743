---------------------------- MODULE DriftReport ----------------------------
(***************************************************************************)
(* The diff talos apply prints of a node that differs, in a dry run too    *)
(* (internal/talos/normalize.go): per document of the machine config, from *)
(* the live lines to the rendered ones, with secrets redacted.  It is what *)
(* an operator reads before a config is sent.  A config maps the keys of   *)
(* its documents to their lines; a line is a number, and only which lines  *)
(* are equal counts.                                                       *)
(***************************************************************************)
EXTENDS Naturals, Sequences, FiniteSetsExt

CONSTANT Secrets   \* lines that hold a secret

Redacted == 0
Context == 2       \* unchanged lines printed around a change

ASSUME DriftAssumption == Secrets \subseteq Nat \ {Redacted}

Op(mark, line) == [mark |-> mark, line |-> line]
Gap == Op("gap", 0)
IsChange(op) == op.mark \in {"drop", "add"}

\* Positions in two texts, the ends included.
Positions(x, y) == (1 .. Len(x) + 1) \X (1 .. Len(y) + 1)

\* Length of the longest common subsequence of x from at[1] on and y from at[2] on.
Lcs(x, y) ==
  LET lcs[at \in Positions(x, y)] ==
        LET i == at[1]
            j == at[2]
        IN IF i > Len(x) \/ j > Len(y) THEN 0
           ELSE IF x[i] = y[j] THEN lcs[<<i + 1, j + 1>>] + 1
           ELSE Max({lcs[<<i + 1, j>>], lcs[<<i, j + 1>>]})
  IN lcs

\* Mutation: the two sides of the comparison are swapped.
AddsFirst(lcs, i, j) == lcs[<<i + 1, j>>] <= lcs[<<i, j + 1>>]
\* Where the lines differ, the live one goes first unless that costs a match.
DropsFirst(lcs, i, j) == lcs[<<i + 1, j>>] >= lcs[<<i, j + 1>>]

EditScript(x, y) ==
  LET lcs == Lcs(x, y)
      Kept(i, j) == i <= Len(x) /\ j <= Len(y) /\ x[i] = y[j]
      Dropped(i, j) == i <= Len(x) /\ (j > Len(y) \/ DropsFirst(lcs, i, j))
      script[at \in Positions(x, y)] ==
        LET i == at[1]
            j == at[2]
        IN IF i > Len(x) /\ j > Len(y) THEN <<>>
           ELSE IF Kept(i, j) THEN <<Op("keep", x[i])>> \o script[<<i + 1, j + 1>>]
           ELSE IF Dropped(i, j) THEN <<Op("drop", x[i])>> \o script[<<i + 1, j>>]
           ELSE <<Op("add", y[j])>> \o script[<<i, j + 1>>]
  IN script[<<1, 1>>]

\* Mutation: the last line of the context counts as outside.
NearLess(ops, k) == \E d \in DOMAIN ops : IsChange(ops[d]) /\ d <= k + Context /\ k < d + Context
Near(ops, k) == \E d \in DOMAIN ops : IsChange(ops[d]) /\ d <= k + Context /\ k <= d + Context

\* Lines near a change are printed; others in a row become one gap.
FormatOps(ops) ==
  LET Line(out, k) ==
        IF Near(ops, k) THEN Append(out, ops[k])
        ELSE IF out # <<>> /\ out[Len(out)] = Gap THEN out
        ELSE Append(out, Gap)
      printed[k \in 0 .. Len(ops)] == IF k = 0 THEN <<>> ELSE Line(printed[k - 1], k)
  IN printed[Len(ops)]

LineDiff(x, y) == FormatOps(EditScript(x, y))

Redact(docs) ==
  [key \in DOMAIN docs |->
     [i \in DOMAIN docs[key] |-> IF docs[key][i] \in Secrets THEN Redacted ELSE docs[key][i]]]
\* The lines of a document, none when the config does not have it.
Document(docs, key) == IF key \in DOMAIN docs THEN docs[key] ELSE <<>>

\* The printed sections, by document.
ConfigDiff(running, rendered) ==
  LET l == Redact(running)
      r == Redact(rendered)
      differing == {key \in DOMAIN l \cup DOMAIN r : Document(l, key) # Document(r, key)}
  IN [key \in differing |-> LineDiff(Document(l, key), Document(r, key))]
-----------------------------------------------------------------------------
(***************************************************************************)
(* Reference definitions.                                                  *)
(***************************************************************************)
\* What a script leaves of its lines when only these marks are kept.
LinesOf(ops, marks) ==
  LET lines[k \in 0 .. Len(ops)] ==
        IF k = 0 THEN <<>>
        ELSE IF ops[k].mark \in marks THEN Append(lines[k - 1], ops[k].line) ELSE lines[k - 1]
  IN lines[Len(ops)]
Changes(ops) == Len(LinesOf(ops, {"drop", "add"}))

IsSubsequence(z, x) ==
  \E f \in [DOMAIN z -> DOMAIN x] :
    /\ \A i \in DOMAIN z : x[f[i]] = z[i]
    /\ \A i, j \in DOMAIN z : i < j => f[i] < f[j]

\* Unchanged lines before the first change, between two, and after the last.
Before(u) == IF Len(u) <= Context THEN u ELSE <<Gap>> \o SubSeq(u, Len(u) - Context + 1, Len(u))
After(u) == IF Len(u) <= Context THEN u ELSE SubSeq(u, 1, Context) \o <<Gap>>
Between(u) ==
  IF Len(u) <= 2 * Context THEN u
  ELSE SubSeq(u, 1, Context) \o <<Gap>> \o SubSeq(u, Len(u) - Context + 1, Len(u))

\* A script with a change, read as a unified diff.
Unified(ops) ==
  LET changes == {k \in DOMAIN ops : IsChange(ops[k])}
      upTo[c \in changes] ==
        LET earlier == {k \in changes : k < c}
            lead == IF earlier = {} THEN Before(SubSeq(ops, 1, c - 1))
                    ELSE upTo[Max(earlier)] \o Between(SubSeq(ops, Max(earlier) + 1, c - 1))
        IN lead \o <<ops[c]>>
  IN upTo[Max(changes)] \o After(SubSeq(ops, Max(changes) + 1, Len(ops)))
=============================================================================
