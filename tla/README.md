# TLA+ models of the hoomlab bootstrap CLI

The repository builds a home Kubernetes platform. Its program logic is one Go
CLI, `src/tools/bootstrap`, which turns a config file and a rack of fresh
Proxmox VE hosts into a running Talos cluster. Everything else in the
repository is configuration, documentation, a Helm chart, CI workflows and a
27-line stub service. These modules model the CLI.

## 1. The system

The operator runs subcommands, in order, from a workstation. Each of them
builds a *stage*: a list of steps with a `Check` that reads the world and an
`Apply` that changes it. The engine (`internal/steps`) runs the stage. It keeps
no state between runs: an interrupted or failed run is simply started again,
and what was done must check as done. That sentence is what most of the models
here are about.

| stage (command) | package | the world it changes | how it learns of success |
|---|---|---|---|
| `pve form` | `internal/pve/form.go` | corosync membership of the Proxmox nodes | polls the primary's nodelist and the cluster status |
| `pve storage` | `internal/pve/storage.go` | datastore definitions | synchronous call, digest-guarded |
| `pve certs` | `internal/pve/certs.go` | ACME account, plugin, node config, certificates | Proxmox tasks |
| `emit` | `internal/emit` | files of the artifact tree; boot assets downloaded to disk | the file system |
| `talos ipxe` | `internal/emit/ipxe.go` | the iPXE binary built by docker, and its stamp file | the file system |
| `talos vms` | `internal/pve/vms.go` | virtual machines | Proxmox tasks |
| `talos apply` | `internal/talos/apply.go` | Talos machine configs | synchronous call |
| `talos bootstrap` | `internal/talos/bootstrap.go` | etcd, credentials written to disk | Talos API, the file system |
| `talos secrets` | `internal/talos/secrets.go` | the cluster secrets bundle | exclusive create |
| `talos health` | `internal/talos/client.go` | nothing | one bounded health call |

The pure part of the program computes what the stages install:

* `internal/config` decides which files are accepted, and resolves for every node
  its interfaces (from a network plane or inline), its labels and its runtimes;
* `internal/emit` and `internal/talos` render one machine-config template for every
  class of nodes, and the catalog booty selects from by MAC address: a group per
  node, a profile per kind of image and class. The same templates give `talos
  apply` the config to compare a live node with;
* `VMSpec` in `internal/pve` gives a VM its interfaces and boot order.

### State and interactions

* The **engine** has a position in the stage and the result of the run.
* **Formation** keeps nothing either; the state is the cluster name, the
  nodelist, who is online, and requests accepted but not landed yet. The CLI
  reads the primary through the API while that API restarts.
* **Certificates** keep the state in Proxmox: account (and its directory),
  plugin, the `acmedomainN` slots of each node, and each node's certificates.
  Writes that Proxmox guards with a digest fail if the object changed since it
  was read.
* **Emit, ipxe and the credentials** keep the state in files. Some are written
  by rename, some in place.
* **emit -> ipxe**: the embed script emit writes must equal the one ipxe
  renders before it is baked into the binary; the stamp next to the binary
  records what it was built from.
* **emit -> booty**: the boot server reads the tree once, at its start, so a run
  that changed the tree tells the operator to restart it.
* **vms -> booty -> Talos**: machines network-boot what emit and ipxe left. The MAC
  address of the boot interface is the only thing that ties a VM, which `talos
  vms` made from the config it had loaded, to the group booty answers with, which
  emit rendered from the config of its own time.
* **form -> storage, certs, vms** rely on the formed cluster.

### What is hard here

Nothing runs in parallel inside the CLI, but almost every write is
asynchronous on the other side, every run may stop between any two calls, the
answer of a call may be lost, the operator (or a second operator) may change
Proxmox objects between a read and the write that follows it, and the only
memory is what the next run's checks can see. `PROJECT.json` lists the hazards
at their lines.

### What makes each part correct

| part | promise |
|---|---|
| configuration | a malformed or out-of-range value of a plane, an interface, a label, a profile or the Gateway API pin is reported once, however many blocks depend on it; a fact is judged alike whichever form states it; no label is set from two sources or refused by the API server; one primary interface per node, one node per MAC address |
| catalog, machine configs | booty answers a node's boot address with that node's own config, the one `talos apply` renders |
| engine | steps in order; the first failure stops the run; success means converged; a re-run repeats nothing that took effect; a dry run applies nothing |
| formation | membership changes never race; a join waits for quorum after the join before it in the same run; success means the whole configured cluster, seen online |
| storage | an entry of another type or path is never written; a write changes only what has drifted; a concurrent edit fails the write |
| certificates | ordered from the configured CA only; a right certificate is never lost; other domains' slots are left alone |
| emit | success means the tree and the assets of the config are on disk; the operator hears that booty must be restarted, unless a run stopped between the written tree and its summary |
| ipxe | success means the binary has the script of the config in it |
| secrets, bootstrap | one cluster identity, whatever is interrupted; success means bootstrapped, with both credentials |
| vms | a VM is only created once those before it run |
| vms, emit and booty together | a machine installs the config of its own node, whatever is edited in between; every VM that was created becomes a node |
| apply | the right config on the right node, one node after another, stopping at the first that fails; success means the rendered config on the rendered schematic |
| all stages | re-running after any interruption converges |

## 2. The modules

`Steps` is both the model of the engine and the abstract specification of a
stage. `StageRun` is the same run, as the stage modules use it: they instantiate
it, give `Last`, add their own phases inside Apply, and add the world the calls
act on. Every stage implements `Steps` under a refinement mapping of its own
(`Stage == INSTANCE Steps WITH ...`, `ImplementsStage == Stage!Spec`), which says
when a step holds and what the stage promises of its checks. That is proved of all
eight; for `PveForm` and `PveStorage` it is also a property of their runs.

```
Steps  <--implements--  PveForm, PveStorage, PveCerts, EmitArtifacts, IpxeBuild,
                        TalosBootstrap, PveVMs, TalosApply
StageRun  <--INSTANCE-- PveStorage, PveCerts, EmitArtifacts, IpxeBuild,
                        TalosBootstrap, PveVMs, TalosApply
ClusterConfig  <--EXTENDS--  Catalog  <--EXTENDS--  Drafting
PveVMs  <--EXTENDS--  Install
MCPveVMs, Install, Drafting  <--EXTENDS--  MCInstall
TalosApply, DriftReport  <--EXTENDS--  MCTalosApply
X  <--EXTENDS--  MCX (bounds, fairness, histories)
X or MCX  <--EXTENDS--  X_proofs  --INSTANCE-->  Steps_proofs
MCEmitArtifacts  <--EXTENDS--  Emit_proofs  --INSTANCE-->  IpxeBuild
Install, Drafting  <--EXTENDS--  Install_proofs
```

A module of proofs extends `MCX` where a property is about what `MCX` adds (a
history, or the diffs that are read), and `X` otherwise. `Emit_proofs` is about both commands that fill booty's directory; it
reaches `IpxeBuild` by an instance, since the two stages use the same names.

How a module corresponds to its code:

* **Steps** (`internal/steps/steps.go`): `holds` is the set of steps whose
  desired state, as the config of the latest run has it, holds in the world. A new
  run is built from the config as it is then, so it may find any steps holding;
  while it goes on, the world moves as `WorldMay` allows. `pos` is the loop index of
  `Runner.Run` or `dryRun`, `applied` and `pending` what `Result` counts. `NoStage` is
  a command that fails before it has a stage (no secrets, no credentials). A call
  that returns an error, or in which the process is killed, may have had its effect. `CheckDone`,
  `CheckPending`, `CheckError`, `ApplyDone`, `ApplyError` are the branches of the
  loop. What the engine asks of a step is in two constants: `Stable` steps stay
  done, `Exact` ones never check as pending when they are done. A stage whose
  checks turn a failed read into "pending" is not exact.
* **PveForm** (`form.go`): steps 1..N make node n a member (1 creates, the others
  join), step N+1 waits for quorum. `inflight` holds accepted requests that have
  not landed. The polls are one action at each place where they can return:
  `MemberSeen`/`MemberTimeout`, `QuorumSeen`/`QuorumTimeout`; `count` is the read
  of the member count between the two. `QuorateWith` is one
  read of the cluster status.
* **PveStorage** (`storage.go`): `store` is storage.cfg entry by entry, told apart
  by whether type and path are the declared ones and whether each field has the
  declared value. `seen` is what Apply has read; Proxmox guards the whole file
  with one digest, so `Update` needs `store = seen`.
* **PveCerts** (`certs.go`): account, plugin, node configs with their
  acmedomain slots, the frontend certificate of each node, and the tasks.
  `ActionFor` is `certActionFor`, `SlotFor` is `slotFor`, `IssuerMatchesCA` the
  function of that name. A run that stops moves its task to `left`, where it
  still ends.
* **EmitArtifacts** (`internal/emit`, `emitSummary` in `cmd/talos.go`): `files`
  says from which config each file was rendered; `Truncate` and `Fill` are the two
  halves of `os.WriteFile`, since a run may stop between them. Assets are renamed
  into place (`Fetch`, one step) and their digests written in place (`Record`,
  `Digest`). `served` and `told` are booty and the operator.
* **IpxeBuild** (`internal/emit/ipxe.go`): a script is identified by the URL it was
  rendered for. `build` is the container of the run; it reads the script when it
  runs, truncates the target and fills it. `orphans` are containers that went on
  after their run: `exec.CommandContext` kills the docker client, which need not
  stop the container.
* **TalosBootstrap** (`secrets.go`, `bootstrap.go`, `cmd/talos.go`): bundles are
  told apart by the order they are drawn in. `EtcdPending` is possible in every
  state of etcd, because the probe reads any error, its timeout included, as "not
  yet"; `AlreadyBootstrapped` is the refusal the step takes for success.
* **PveVMs** (`internal/pve/vms.go`): `vm` has the state "creating" between the
  acceptance of a create and its end, because both checks look at an index in
  which the VM already is. Tasks of stopped runs are in `left`.
* **TalosApply** (`apply.go`, `normalize.go`, `newTalosApplyCmd`): a machine config
  is the node it is for, the part only a reboot changes and the rest, which names
  the installer image; `image` is the one a node runs, a schematic and a Talos
  release (`InstallImage`). `RunsSchematic` is what `checkSchematic` compares: the
  schematic, whatever the release. `Reboots`, `Schematics` and `Releases` say which
  versions differ in what. `lease` says who holds each address, `addrs` what
  discovery resolved at the start. The order in which discovery lists the members
  is the `p` of `Begin`.
* **DriftReport** (`normalize.go`): the diff that is printed of a node that differs.
  A config maps document keys to lines, `Redact` makes one line of all secrets,
  `Lcs` is the table of `editScript` and `EditScript` its walk through it, `FormatOps`
  its printing. Its reference definitions are `IsSubsequence`, for the length of
  a script, and `Unified`, which says block by block what is printed. Each behaviour
  of `MCTalosApply` begins with one diff that is read (`reading`). A node that
  differs in secrets only has an empty diff, although the comment on
  `configDiff` says "Empty means no difference": its heading is printed all the
  same, and the stage applies what differs.

* **ClusterConfig** (`internal/config`): a cluster is a record of its blocks. A
  diagnostic is a tuple, built by `Diag` where the code calls `errf`; `Staged` is an
  early return, with the second group of rules left for a file that passes the
  first. `Load` is the whole of it: the decoder's uniqueness checks, then
  `ValidateAndNormalize`, then the Cilium values. A MAC address is a number and the
  notation it was written in, which `NormalizeMAC` drops; the decoder compares what
  is written, `ValidateInterfaceMACs` what it means. Addresses are `AddressBits`
  wide, so a prefix has a meaning. The domain of a label key is a list of DNS
  labels from the last one, so a namespace is a beginning of it. A Cilium values
  file is the settings that hold in it and the keys that are null.
* **Catalog** (`internal/emit`, `machineconfig.go`, `completion.go`, `VMSpec`):
  `RoleTemplate` renders what the nodes of a class share, with a `Var` where the
  code writes a placeholder and swaps it for a template action; `Execute` is the
  execution of that template by booty, or by `talos apply`, which renders the same
  template (`NodeConfig`). `RenderCatalog` splits a role by schematic and label
  set where the nodes differ. `Serve` is booty.
* **Drafting**: an operator writes a config. From one of `Drafts`, `Edit` sets an
  attribute (of a plane, an interface, a node or the cluster block) to a value that
  may fit or not; `Slip` puts a value that is wrong in itself into a draft that was
  accepted. `Decoded` is what decoding a file guarantees before any rule is asked:
  the blocks of a kind in a list, every attribute there, if only as `Unset`, and a
  network block that states all but its cidr. `Drafts` are decoded, and
  `Edit` keeps to files that decode. Its properties state what the configuration
  and the catalog promise of every draft.
* **Install** (`talos vms`, `talos emit`, booty): `PveVMs` with what its steps mean
  for the machines. Everything is of the version of the file it came from: the
  loaded config of a run, the settings of a VM (`from`), the tree booty serves and
  the disk of a machine. What VMs boot from and what booty answers are constants,
  which `MCInstall` computes from `Catalog`.

Definitions marked `Mutation:` are not part of a specification. Each is a
plausible mistake in the definition that follows it (a dropped guard, an ignored
error, a blind write). A property of a run is only worth keeping when replacing
the definition by its mutation makes the run fail; `PROJECT.json` pairs them.

### What is assumed about the outside

These things are not in the repository; the models take them from how the code
uses them, and `PROJECT.json` marks them external.

* Proxmox: a create or join request is asynchronous; a join lands only while the
  cluster is quorate, and may be dropped; reads may fail at any time. Account
  tasks run in order of submission. An order refuses to overwrite a frontend
  certificate, a renewal wants one. A VM being created is locked and in the
  index; a creation that breaks removes it. A start works on a stopped VM only.
* Talos: NO_REBOOT is refused, with nothing staged, when the change needs a
  reboot. The extension a node reports as its schematic is the one its running
  image was built from. Bootstrap is refused once the etcd data directory is not empty. A node
  signs a kubeconfig whether or not etcd is up.
* A digest identifies its content. A rename is atomic; a write in place is not.
* hclkit: the decoder rejects a VM number or a MAC address that is written twice, as
  it is written (`Decode`).
* booty picks the group with the MAC address of the request and executes the
  template of its profile with the variables of both (`Serve`). The firmware boots
  from the interface in the boot order. Talos's generator labels control planes
  (`MachineryLabels`).
* The factory answers a set of extensions with one id. A hash the catalog cuts to
  eight digits is taken to tell its contents apart.
* DHCP reservations change between runs of `talos apply`, not under one (the
  runbook asks for it, `docs/runbook/bootstrap-cluster.md`).
* The operator edits the config between runs of `emit` and `ipxe`, and during a run
  of `apply`, too.

## 3. What the runs show

| run | instance | shows |
|---|---|---|
| `steps` | 3 steps: stable and exact, stable and inexact, unstable; 3 faults or edits of the config | order, success, no repetition, convergence of any stage |
| `form` | 4 nodes, an extra member, primary in no / our / a foreign cluster; 3 faults, 1 outage | no race, success formed and seen online, a join after another join of the same run gated, `Steps` implemented, convergence |
| `form_rejoin` | 3 nodes, 1 fault | **fails**: over two runs a join is not gated |
| `certs` | 2 nodes (one with a self-signed certificate for its FQDN), 2 slots, any first state within these bounds; 2 faults, 1 edit | only the wanted CA, no right certificate lost, slots kept, success, convergence through a CA flip |
| `storage` | 2 entries, one shared with another admin, 2 fields, 2 edits, 2 faults | conflicts kept, only drift written, `Steps` implemented |
| `emit_rerun` | 2 files, 2 assets, 3 configs, 2 faults, 1 rotten asset | success means emitted, the operator hears of it unless a run stops between the written tree and its summary, convergence |
| `emit_told` | 2 files, 1 asset, 2 configs, 1 fault | **fails**: a stopped run is never summarised |
| `ipxe_rerun` | 3 URLs, never used twice, 3 faults | success means built, convergence |
| `ipxe_revert` | 2 URLs, back to the first, 1 fault | **fails**: the old stamp vouches for another binary |
| `bootstrap` | 4 bundles, 3 faults | one identity, success, convergence |
| `install` | 3 drafts of 3 nodes, then 3 VMs, any of which may exist; 3 versions of the file; 2 edits or mistakes, 2 faults or disturbances | one error for a value wrong in itself, planes and inline blocks alike, labels from one source, every node served its own config; installed machines are of their own node; VMs in order; convergence to installed nodes |
| `apply` | 3 nodes, 4 versions (one needs a reboot, one another schematic and release, one another release only), 2 outside changes, 2 faults; documents of up to 4 lines, scripts of up to 9 | right node, order, success on the rendered schematic, convergence for good of the nodes before the first that needs a reboot; a shortest diff that shows every change |

### Findings

* **`form_rejoin`**, documentation and code differ. Help text: "each join waits for
  corosync membership and quorum before the next", over re-runs too. The Check of
  a join asks only for membership, so a run that stops between `waitForMember`
  and `waitForQuorum` is followed by one that sends the next join at once.
  `JoinGatedNoOutage` is what does hold: within one run the gate works between
  two joins. The first join, right after the create, has none: `applyCreate` waits
  for membership only.
* **`emit_told`**, documentation and code differ. "A run that changed anything ends
  with the restart instruction." A run that writes the tree and then fails on an
  asset prints an error; the re-run changes nothing and says so. booty goes on
  serving the old tree. `StaleMeansToldOrStopped` holds: only a stop between
  the written tree and the summary leads there, and a restart makes up for it.
  A run that stops earlier, or has written nothing, does no such harm: what it
  leaves differs from what the next run renders, which then writes and says so.
* **`ipxe_revert`**, a bug. The stamp is left in place while a new binary is built
  over the old one. Interrupt the rebuild and go back to the first URL: the old
  stamp matches, and the run reports a torn or a differently built binary as
  done. `OkMeansBuilt` holds, and is proved, when URLs are never reused; removing
  the stamp before the build would make it hold always.

Other places where the code does less than one may expect have no run of their
own; `PROJECT.json` lists them among the hazards with a note. The models contain
them, and a property says so where it excepts them:

* the create check of `pve form` takes any cluster, and quorum counts any online
  member (`OkMeansOnline` excepts clusters with extra members, the `Converges` of
  `form` a foreign cluster);
* a disabled ACME plugin is never enabled, and a self-signed certificate that
  covers the FQDN counts as certified (`Builtin`);
* a torn asset digest or a torn secrets bundle is an error until somebody deletes
  the file (`DeleteAsset`, `DeleteSecrets`), a torn credential counts as written
  (`cut`);
* a container of a killed `ipxe` run may overwrite a stamped binary (`orphans`);
* a config refused in NO_REBOOT mode is not staged, so the reboot the error asks
  for does not help: the re-run is refused again, and the nodes behind are not
  reached. `Converges` of `apply` speaks of the nodes before the first such one
  only. Applying the config by other means would help (`ApplyByHand`, which the
  model allows and never relies on);
* `talos apply` compares the schematic of the running image and nothing else of it.
  When a version changes only the Talos release, the new `install.image` is
  ordinary drift to the code: it is applied, the run reports success, and the node
  goes on with the old release until somebody upgrades it. `ConvergedInOrder`,
  `Converges` and the refinement speak of the schematic only;
* a VM is recognised by its number alone: a VM that was there before the first run
  has no known origin (`from` is 0), and an existing VM is left as it is when an
  edit gives its node another MAC address. `OwnIdentity` excepts the second case
  (`Kept`): a machine may then boot as another node, or not at all.
* a file `validate` accepts may be refused by emit, when nodes of a role have
  different interfaces (`ShapesAgree`).

### Bounds

Every bound is a constant of an MC module (`MaxFaults`, `MaxEdits`, `MaxOutages`,
`MaxOutside`, `MaxRots`, `MaxTrouble`, `MaxChanges`, `MaxLines`, `MaxScript`) or of the
module (`Configs`, `Urls`, `Bundles`, `Versions`, `MaxEdits`, `MaxSlips`). They are
chosen so that the interesting histories fit:

* Two interrupted runs and a third that succeeds need two faults; the third fault
  strikes the re-run of a re-run. A property that fails needs one or two.
* Three nodes or VMs are the fewest with a first, a middle and a last one;
  formation has four, because node 3 is the first whose join is gated.
* Two files and two assets distinguish "stopped at the first", "stopped between"
  and "stopped at the last".
* Three configs or URLs allow a change while the previous one is still half
  installed. Four bundles are one more than the three torn files three faults
  can leave.
* In `storage` the first declaration is ours alone and has an opinion on one of
  the two fields; the second is shared and has one on both. So a write may race an
  edit of the entry itself and, through the digest of the file, of another one.
* In `install` there is one draft with planes, profiles, labels and Cilium, the
  same with every fact inline, and a plain one whose workers have one interface.
  Each property of a draft relates two attributes, so two changes (`MaxChanges`)
  reach what breaks it: a dropped cidr and the address in it, a label and the
  role that renders the same one, a profile for one of two workers. Edits change
  the planes, the cluster block and node 2 (`EditedNodes`), which shares its role
  with node 3 and gets node 1's by an edit; mistakes strike anywhere. Four address
  bits with prefixes of two and three leave room for an address outside a cidr,
  and for one inside it with the wrong prefix.
* The versions of `install` move a MAC address from one worker to another in two
  edits. In the middle version both have it, in two notations, so only
  `ValidateInterfaceMACs` refuses it. Two disturbances or faults (`MaxTrouble`)
  let an edit meet a run that has loaded the version before, or a wiped disk. Which
  VMs exist at first, stopped or running, is free, so no disturbance is spent on
  that.
* In `apply` version 2 can only be applied with a reboot, 3 needs another schematic
  (and release), 4 only another release of the first schematic. So every order of
  a plain edit, one that is refused, an upgrade and a release that goes
  unnoticed occurs within two outside changes.
* In `apply` two documents of four lines (`MaxLines`) can match in several ways, of
  which a wrong turn costs a match. A script of nine lines (`MaxScript`) has room for
  two changes, their context and a gap between or around them. Two secrets and one
  other line let a document differ in secrets, in more, or by being absent.

Faults are counted only for what something must have gone wrong for: a failed
call, a lost answer, a read that fails, a kill, a needless timeout. What the code
does by itself is free, timeouts it cannot avoid included.

### Fairness

* The process goes on while it is not killed: weak fairness of the run's own
  steps (`Progress`, `Normal`, `Run`). Nothing in the CLI waits for ever; every
  poll has a timeout, which is a step of the run.
* The operator re-runs a stage that stopped: the same weak fairness covers the
  begin of a run. Where there are several commands, strong fairness of those that
  are needed (emit for ipxe, secrets and the session commands for bootstrap, apply
  for all nodes), since running one disables the others for a while. This is what
  "re-running converges" presupposes.
* Proxmox tasks end, accepted requests land and members come online (weak).
  In `install` the run's task and the left ones are separate actions with a
  condition each: one that ends must not stand in for the other.
* In `install` (all weak): a draft is finished (`Settle`), the operator emits and
  restarts booty after an edit, as emit says (`Emit`), goes on editing a file that
  `validate` or emit refuses (`Repair`), and a machine without anything on its disk
  boots from the network (`Boot`). In `apply` the reading of a diff ends (`HasRead`).
* In `emit`, `bootstrap` and `apply` the operator does what the error message
  tells (strong): delete the file it names, or run the upgrade command. Without it
  these stages do not converge; that is the code's own contract. Where the message
  is not enough, as for a refused config, nothing else is assumed, and `Converges`
  leaves out what then stays behind.
* There is no fairness for faults, edits or outages, and their number is bounded;
  so convergence says: once the disturbances end, a later run gets through.

`PveStorage` is checked for safety only; its convergence is the engine's, through
`ImplementsStage`, as long as other admins leave its entries alone.

## 4. What is proved

TLAPS checks these for every value of the constants that the named assumptions
allow. Each rests on an inductive invariant; the plain property is never
inductive, because a step of the run relies on what the position in the step says
about the world.

| module | theorems | the invariant that carries them |
|---|---|---|
| `Steps_proofs` | types; `EarlierHold`; `ConvergedWhenOk`; a dry run applies nothing; `AppliesOnlyMissing` | `EarlierHold` with `OkAtEnd`: success is only returned past the last step. `SinceStart`: a stable step that held when the run started still does, and an exact one about to be applied did not |
| `PveForm_proofs` | types; `ChangesSerialized`; `OkMeansFormed`; `OkMeansOnline`; `JoinGatedNoOutage`; `ImplementsStage`; `FormedInOrder` | `RunInv`: the nodes before `pos` are members, the last wait is for all nodes, and a run that ended well went past the last step; `FlightInv`: a request in flight is for a node that is not a member while all before it are; `Gate`: what the run has joined is behind it, the count it waits for still stands, and past the wait all members are online |
| `PveStorage_proofs` | types; `ConflictsKept`; `WritesOnlyDrift`; `ImplementsStage`; `DeclaredInOrder` | `UpdatesOurs`: what an update has read is ours; with the digest guard, so is what it writes |
| `Emit_proofs`, emit | types; `OkMeansEmitted`; `StaleMeansToldOrStopped`; `ImplementsStage`; `TreeBeforeAssets` | `Placed` and `Written` (the files the loop has passed are those of the run's config, and past the tree all are); `Announced`: unless a run stopped short of its summary, a tree booty does not serve was announced, or is written by the run going on, or is not the one of the latest run; `NotAhead` (no file is of a later config, so a newer one differs too) and `Complete` (after success the tree is the run's) |
| `Emit_proofs`, ipxe | types; `StampVouches` and `OkMeansBuilt` when URLs are never reused; `ImplementsStage`, reused or not | `NotNewer` (no stamp is of a later URL), `RunOfUrl` (a run has the current one), `Building` (while one builds, the stamp is not of the current one, and the container works on the current script); `Unstamped`: until its stamp is written, a run works on a binary that is not stamped for its URL |
| `TalosBootstrap_proofs` | types; `OneIdentity`; `OkMeansBootstrapped`; `OkMeansCredentials`; `ImplementsStage`; `BootstrappedInOrder` | `IdentityInv`: a run holds the bundle of the file, and while one is being written no copy exists yet; `DoneInv`: the steps behind `pos` are done; and unless a write was cut, a credential that is there is whole; `BeforeFirst`: before the first secrets bundle there is nothing to bootstrap |
| `PveCerts_proofs` | types; `OrderedFromWant`; `OkMeansServed`; `RightCertKept`; `OtherSlotsKept`; `ImplementsStage`; `CertsInOrder` | `AccountWanted` (from the deactivation on, the account is the wanted one or missing), `JobsOurs` (every task, left ones included, is for the wanted CA) and `CertsInv` (what is about to be renewed is right, what is about to be deleted is not, and what the run has passed is right); `Registered` (once the register task of a run has ended well, the account is the wanted one and no task left behind undoes it) |
| `Install_proofs`, the VM stage | types; `RunningInOrder`; `ImplementsStage`; `StartedInOrder` | `Earlier` (VMs the run has passed are settled) and `Started` (so is the one whose start task ended well); no step but a begin unsettles a VM; `Created` (once a create task has ended well, its VM is there or others removed it) |
| `Install_proofs`, drafts | a draft always decodes; `OneErrorPerMistake`; `SameWhicheverForm`; `LabelsOnce`; `ServesOwnConfig` | `Decoded`; `Blame`: the draft is an accepted file in which wrong values stand for others, at most `slips` of them |
| `Install_proofs`, machines | types of `Install`; `EveryMachineItself`: `OwnIdentity` | `InstallTypeOK` relates a disk to the MAC address of its VM and the tree that was served |
| `TalosApply_proofs`, the stage | types; `RightNode`; `ConvergedInOrder`; `ImplementsStage` | `Dialed` (the addresses of a run lead to their nodes), `Imaged` (past the schematic check the schematic is right) and `Earlier` |
| `TalosApply_proofs`, the diff | `EditScriptIsShortest` and `PrintedAsUnified` of any texts and scripts; `ShortestScript`; `DiffShowsChanges` | what is read is a document, config or script of the instance (`DocumentsRead`, `DiffsRead`); the rest are lemmas about the operators |

The theorems about drafts hold for any drafts that decode, any values an edit may
choose, and any number of edits and mistakes, in clusters of any size. They are
lemmas about a file first, and the invariant of `DraftSpec` brings them to every
draft. (When `MCInstall` has set a draft aside, `draft` is `Unset`, of which they
say nothing.)

* `OneErrorPerMistake` is about the values `Slip` breaks, those of planes,
  interfaces, labels, profiles and the Gateway API pin, as the comments it comes from are.
  It does not hold of every mistake: a mistyped role on the only control plane brings
  two diagnostics, one for the role and one for the missing control plane.
  `Faults` is the set of diagnostics a file can get for values that are wrong in
  themselves, one for each such value. Two facts meet. If
  `Slipped(a, b)`, so b is a with such values in place of others, and a was accepted, then
  every diagnostic of b is one of `Faults(b)`: rule by rule, either the rule reads the
  value itself, or it relates it to others and then keeps silent, as
  `validateAddress` does of a cidr that does not parse, or what it reads has not
  changed. That is where the "one error" of the code is, and it needs `a`: a rule that
  relates two blocks has nothing to say as long as the one it relates to is as it was.
  And a slip adds one element to `Faults` (`SlipEffect`), so the file after
  n slips has at most n. That there is an error at all is the other direction:
  a file with a fault is never accepted (`AcceptedFaultless`), wherever the fault is;
  of a plane's this needs that an unreferenced plane is itself a mistake.
* `SameWhicheverForm`. The rules for a plane and the ones for an interface
  that states the same facts are compared attribute by attribute (`FilesSame`,
  `ModesSame`); the rest of `Load` reads only what both files have in common
  (`OnlyPlanesDiffer`) or the resolved interfaces, which are equal.
* `ServesOwnConfig`. Being accepted gives what it needs of a cluster: every node
  resolves, to one primary interface and one interface per slot, and no two
  interfaces have the same MAC address. So exactly one group is selected; the
  names of profiles and the paths of templates tell classes apart exactly where
  the nodes of a role differ, so exactly one profile and one template follow; and
  executing that template with the node's variables gives what its blocks say.

`EveryMachineItself` is about any versions of the file, those that load being
accepted clusters of the same number of nodes, with what VMs boot from and booty
answers as `Catalog` has it: `OwnIdentity` follows since the same argument gives
each boot address the one answer `talos apply` renders, shapes or no shapes.

The theorems about the diff are about texts of any length. `Lcs`, `EditScript`,
`FormatOps`, `LinesOf` and `Unified` are recursive functions, and the proofs
take them in two steps. A recursive function is the table a CHOOSE takes, so a table
that satisfies the equation has to be exhibited before the equation can be
used (`LcsExists`, `ScriptExists`, `PrintedExists`, `UpToExists`). And induction is
by the least counterexample of a set of numbers (`LeastOf`, `UpFrom0`) or of
positions counted from the ends of two texts (`FromTheEnds`), since the library's
induction theorems take an operator.

* `ShortestScript`. No common subsequence is longer than its cell of the table
  (`NoneIsLonger`): where the lines are equal, what embeds after the first line of
  each embeds in what is left; where they differ, an embedding passes by one of
  them. And the walk loses none (`ScriptEdits`): from every position the script
  makes what is left of one text into what is left of the other, and its changes and twice
  the cell are the lines left. So the changes are as few as a common subsequence allows.
* `DiffShowsChanges`. A section prints every drop and add of its script
  (`PrintedLines`), and the script keeps the rest, so the lines balance
  (`DiffBalances`). That it is printed as a unified diff is proved from change to
  change: stretches near a change are copied (`NearRun`), the others become one gap
  (`FarRun`), which gives `Before`, `Between` and `After`. It is shown of scripts
  without gaps, as `EditScript` makes them.

### What the proofs assume

Most of the named assumptions only say that a count is positive or a set finite. The
others:

* `ConfigAssumption`: the two values that stand for "not set" and "not well formed" are
  neither numbers nor blocks. `RuntimesAssumption`: the extensions that make a
  runtime are well-formed names; they are a table in the code (`runtime.go`).
* `DraftingAssumption`: the drafts to start from decode, and what the cluster block
  may become is a cluster block. It is what gohcl leaves in the structs of
  `config.go`.
* `DeletesAssumption`: the assets the operator may delete are assets.
* `DriftAssumption`: no secret is the word it is replaced by. `MCApplyAssumption`: the
  bounds on documents and scripts are numbers.
* `InstallAssumption`: what can be emitted can be loaded, and the table of booty's
  answers covers every boot address (with no answer where no group matches).

TLC evaluates all of them in the runs.

The types of a stage are part of its invariant and stated as a theorem. The runs do
not check them again, but for those of `EmitArtifacts`.

### Every stage is a stage of the engine

The refinement theorems have the usual two halves: a lemma on the initial states
(`StageInit`), and one that maps every step to a step of `Steps` or a stutter
(`StageNext`), with lemmas that say which steps of the world `Steps` allows
(`HoldsStable`, `WriteHolds`, `TreeHolds`). A step of the code's own phases inside Apply is a
move of the world to `Steps`, and only the last one, the return of Apply, is
`ApplyDone` or `ApplyError`; so the theorem says that no path through those phases
returns success before its step holds. What a stage promises besides is how much of it is
stable (nothing undoes it before the next run) and exact (it never checks as
pending when it holds):

| stage | a step holds when | stable | exact |
|---|---|---|---|
| `pve form` | the node is a member; the configured cluster is quorate with all nodes online | the members | none: a failed read checks as pending |
| `pve storage` | the entry is as declared | entries no admin shares | all |
| `pve certs` | the account is the wanted one, the plugin has the credentials, the node is wired, the certificate covers the FQDN | the certificates: admins edit the rest | account and wiring |
| `talos emit` | the tree is the config's and not being written; the assets are vouched for | the tree | both |
| `talos ipxe` | the binary is stamped for the URL | yes | yes |
| `talos vms` | the VM is in the index (create) or runs (start), or others stopped or removed it since the run began | the starts: a creation may break | none |
| `talos apply` | the node is not selected, or runs the config on an image of the schematic | none: admins apply by hand | all |
| `talos bootstrap` | the credential is there; etcd was bootstrapped | all | the credentials |

Where a stage has stable steps, it inherits what the engine guarantees:
`Engine == INSTANCE Steps_proofs WITH ...` takes the engine's theorems to the stage,
`SameEngine` that the two instances of `Steps` are one specification, and so
`FormedInOrder`, `DeclaredInOrder`, `CertsInOrder`, `TreeBeforeAssets`,
`BootstrappedInOrder` and `StartedInOrder` say of the stage, in the terms of its own
world, that a run is only where it is once all stable steps before it hold, and
that success leaves all of them holding. TLC checks the refinement of `form` and
`storage` on their runs.

Every invariant the runs check is stated by a theorem, and so is every action
property they expect to hold (`OkMeansBuilt` for URLs that are never reused, as in
`ipxe_rerun`). Only model-checked are the liveness properties, every `Converges` and
`Installs`: liveness under fairness is out of the prover's reach.

## 5. What is not modelled

* Of the configuration: HCL syntax, `env()` references and their redaction, the
  check for exactly one cluster block, and what no rule of `Load` looks at
  (bridges, CPU, memory and disk sizes, credentials, mail addresses). Names
  of slots with leading zeros (`net00`) and two nodes of the same name are not
  among the drafts.
* Of the rendered content: the launcher script of boot assets, the text of the
  Cilium Job and of manifests, and what Talos's generator puts into a machine
  config besides its node label. The catalog and `TalosApply` are joined by
  `NodeConfig`, which is what a version of `TalosApply` stands for; the iPXE script
  is known by its URL.
* `Dial` in `talos apply` matches members by hostname and takes the address chosen
  among a member's as given. Documents are compared as "equal or not"; how they are
  encoded and sorted first is left out.
* All output, except the restart instruction of emit and the diff of apply, which
  properties are about.
* `talos health`: one call that delegates to Talos.
* Authentication, TLS and flags; generated mocks; the Helm chart, workflows,
  scripts and the stub binary.

## 6. Plan

Done, in this order: engine; formation; certificates; storage; emit and ipxe;
secrets and bootstrap; vms; apply; configuration; catalog and machine configs;
the composition of emit, booty and vms; the proofs of section 4, the last of them that
every stage implements the engine.

Next: the choice among a member's addresses (`apply.go`), which `Dial` takes as given.
