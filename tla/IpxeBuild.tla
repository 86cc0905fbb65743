------------------------------ MODULE IpxeBuild -----------------------------
(***************************************************************************)
(* talos ipxe (internal/emit/ipxe.go): one step builds boot/ipxe.efi in a  *)
(* container, with the chain script talos emit left on disk baked in, and  *)
(* then writes the stamp: the digest of the script the binary was built    *)
(* with.  The check compares the stamp with what the config renders.       *)
(* A script is identified by the booty.url it was rendered for.            *)
(***************************************************************************)
EXTENDS Naturals

CONSTANTS
  Urls,      \* number of booty URLs
  Edits      \* "new": a config edit names a URL never used before;
             \* "any": it may go back to an earlier one

ASSUME IpxeAssumption ==
  /\ Urls \in Nat \ {0}
  /\ Edits \in {"new", "any"}

VARIABLES
  url,      \* booty.url of the config
  embed,    \* embed.ipxe on disk: whose script it is, Absent or Torn
  binary,   \* boot/ipxe.efi: the script in it, Absent or Torn
  stamp,    \* the script whose digest the stamp holds, Absent or Torn
  build,    \* the container of the run
  orphans,  \* containers that went on when their run stopped
  want,     \* the URL the run has loaded
  phase, pos, applied, result

files == <<embed, binary, stamp>>
vars == <<url, files, build, orphans, want, phase, pos, applied, result>>

Last == 1
INSTANCE StageRun

Url == 1 .. Urls
Absent == 0
Torn == Urls + 1
Content == Url \cup {Absent, Torn}

\* "make": it will read the mounted script; "copy": about to copy the binary
\* out; "copying": the target is truncated.
Build == [at : {"make"}, from : {Absent}]
           \cup [at : {"copy", "copying", "done"}, from : Url]
           \cup {[at |-> "none", from |-> Absent]}
NoBuild == [at |-> "none", from |-> Absent]

TypeOK ==
  /\ url \in Url /\ want \in Url
  /\ embed \in Content /\ binary \in Content /\ stamp \in Content
  /\ build \in Build /\ (build # NoBuild => phase = "docker")
  /\ orphans \subseteq Build
  /\ phase \in {"idle", "check", "embed", "docker", "stamp", "digest"}
  /\ pos \in {1, 2} /\ (phase # "idle" => pos = 1)
  /\ applied \subseteq {1}
  /\ result \in {"none", "ok", "failed"}

Init ==
  /\ url = 1 /\ want = 1
  /\ embed = Absent /\ binary = Absent /\ stamp = Absent
  /\ build = NoBuild /\ orphans = {}
  /\ RunInit
-----------------------------------------------------------------------------
EditConfig ==
  /\ phase = "idle"
  /\ url' \in (IF Edits = "new" THEN {u \in Url : u > url} ELSE Url \ {url})
  /\ UNCHANGED <<files, build, orphans, want, phase, pos, applied, result>>

\* talos emit writes the script of the config, or stops in the middle of it.
Emit ==
  /\ phase = "idle"
  /\ embed' \in {url, Torn}
  /\ UNCHANGED <<url, binary, stamp, build, orphans, want, phase, pos, applied, result>>
-----------------------------------------------------------------------------
Begin == StartRun /\ want' = url /\ UNCHANGED <<url, files, build, orphans>>

Stamped == binary # Absent /\ stamp = want
CheckDone ==
  /\ phase = "check" /\ Stamped
  /\ SkipStep
  /\ UNCHANGED <<url, files, build, orphans, want>>
\* Mutation: a digest cut short is an error, as it is for a boot asset.
CheckPendingIfWhole ==
  /\ phase = "check" /\ ~Stamped
  /\ IF stamp = Torn THEN Fail ELSE Enter("embed")
  /\ UNCHANGED <<url, files, build, orphans, want>>
CheckPending ==
  /\ phase = "check" /\ ~Stamped
  /\ Enter("embed")
  /\ UNCHANGED <<url, files, build, orphans, want>>

\* Mutation: whatever script is on disk is built.
ScriptAny ==
  /\ phase = "embed" /\ embed \in Url
  /\ build' = [at |-> "make", from |-> Absent]
  /\ Goto("docker")
  /\ UNCHANGED <<url, files, orphans, want>>
\* The script on disk must be the one the config renders (ErrEmbedScriptStale).
ScriptCurrent ==
  /\ phase = "embed" /\ embed = want
  /\ build' = [at |-> "make", from |-> Absent]
  /\ Goto("docker")
  /\ UNCHANGED <<url, files, orphans, want>>
ScriptStale ==
  /\ phase = "embed" /\ embed # want
  /\ Fail
  /\ UNCHANGED <<url, files, build, orphans, want>>

\* One step of the container b, which becomes c: it bakes in the script as it
\* is then, truncates the target and fills it.  A torn script fails the build.
Works(b, c) ==
  \/ /\ b.at = "make" /\ embed \in Url
     /\ c = [at |-> "copy", from |-> embed] /\ UNCHANGED binary
  \/ b.at = "copy" /\ c = [b EXCEPT !.at = "copying"] /\ binary' = Torn
  \/ b.at = "copying" /\ c = [b EXCEPT !.at = "done"] /\ binary' = b.from
BuildWorks ==
  /\ \E c \in Build : Works(build, c) /\ build' = c
  /\ UNCHANGED <<url, embed, stamp, orphans, want, phase, pos, applied, result>>
OrphanWorks ==
  /\ \E b \in orphans, c \in Build :
       /\ Works(b, c)
       /\ orphans' = (orphans \ {b}) \cup {c}
  /\ UNCHANGED <<url, embed, stamp, build, want, phase, pos, applied, result>>

DockerDone ==
  /\ phase = "docker" /\ build.at = "done"
  /\ build' = NoBuild
  /\ Goto("stamp")
  /\ UNCHANGED <<url, files, orphans, want>>
\* The stamp is written in place: truncated and then filled.
Stamp ==
  /\ phase = "stamp"
  /\ stamp' = Torn
  /\ Goto("digest")
  /\ UNCHANGED <<url, embed, binary, build, orphans, want>>
\* Mutation: the run goes on before the container is done.
StampEarly ==
  /\ phase \in {"docker", "digest"} /\ stamp' = want
  /\ build' = NoBuild
  /\ StepApplied
  /\ UNCHANGED <<url, embed, binary, orphans, want>>
StampWritten ==
  /\ phase = "digest"
  /\ stamp' = want
  /\ StepApplied
  /\ UNCHANGED <<url, embed, binary, build, orphans, want>>

\* A call or the build fails, or the process is killed: its container stops
\* with it or goes on.
Stop ==
  /\ Fail \/ Kill
  /\ build' = NoBuild
  /\ orphans' \in {orphans, orphans \cup ({build} \ {NoBuild})}
  /\ UNCHANGED <<url, files, want>>

Run ==
  \/ Begin \/ CheckDone \/ CheckPending \/ ScriptCurrent \/ ScriptStale
  \/ DockerDone \/ Stamp \/ StampWritten

Next == EditConfig \/ Emit \/ Run \/ BuildWorks \/ OrphanWorks \/ Stop

Spec == Init /\ [][Next]_vars
-----------------------------------------------------------------------------
(***************************************************************************)
(* A run that returns no error leaves a complete binary with the chain     *)
(* script of the config in it (Steps: "a changed booty.url triggers a      *)
(* rebuild"), and it stays so until the next run, as long as no container  *)
(* has gone on without its run: one that has may still overwrite it.       *)
(***************************************************************************)
OkMeansBuilt == result = "ok" /\ orphans = {} => binary = want

(***************************************************************************)
(* The stamp never says the binary is the current one when it is not,      *)
(* wherever a build was interrupted: it is "the only way to tell built     *)
(* from the current booty.url from built from the previous one".           *)
(***************************************************************************)
StampVouches ==
  binary # Absent /\ stamp = url /\ orphans = {} => binary = url
-----------------------------------------------------------------------------
(***************************************************************************)
(* The binary as a stage of the engine: its one step is done when it is    *)
(* stamped for the URL of the latest run, which the check finds out        *)
(* exactly.                                                                *)
(***************************************************************************)
Mode == IF phase \in {"idle", "check"} THEN phase ELSE "apply"
Holds == {s \in {1} : Stamped}

Stage ==
  INSTANCE Steps WITH
    Stable <- {1},
    Exact <- {1},
    holds <- Holds,
    kind <- "run",
    mode <- Mode,
    pending <- {}

ImplementsStage == Stage!Spec
=============================================================================
