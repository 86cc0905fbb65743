----------------------------- MODULE MCInstall -----------------------------
(***************************************************************************)
(* First an operator drafts a config; then one of Configs is deployed,     *)
(* with the faults and disturbances of MCPveVMs, of which an edit of the   *)
(* file and a wiped disk are more.                                         *)
(***************************************************************************)
EXTENDS MCPveVMs, Install, Drafting, TLC

CONSTANTS
  MaxChanges, \* edits and slips of a draft
  MaxTrouble  \* faults and disturbances of a deployment

VARIABLE drafting

allVars == <<mcVars, installVars, draftVars, drafting>>

Prefix(addr, bits) == [addr |-> addr, bits |-> bits]
MAC(n) == [addr |-> n, form |-> "colons"]
Iface(slot, network, mac, address) ==
  [slot |-> slot, network |-> network, mac |-> mac, address |-> address,
   vlan |-> Unset, dhcp |-> Unset, primary |-> Unset, cidr |-> Unset, mtu |-> Unset]
Node(i, role, profiles, labels, ifaces) ==
  [name |-> i, role |-> role, pve_node |-> "pve1", vmid |-> 100 + i, storage |-> "local",
   profiles |-> profiles, labels |-> labels, interfaces |-> ifaces]

Servers == [name |-> "servers", vlan |-> 0, dhcp |-> TRUE, primary |-> TRUE, cidr |-> Unset, mtu |-> 0]
Storage == [name |-> "storage", vlan |-> 40, dhcp |-> FALSE, primary |-> FALSE, cidr |-> Prefix(8, 2), mtu |-> 9000]
\* The boot interface is in slot boot, one on the storage plane in the other.
Two(i, boot) ==
  <<Iface(boot, "servers", MAC(10 * i), Unset), Iface(1 - boot, "storage", MAC(10 * i + 1), Prefix(8 + i, 2))>>

Size == Key(<<"dev", "hoomlab">>, "size")
Values == [null |-> {}, holds |-> {"kubeProxyReplacement", "k8sServiceHost", "k8sServicePort", "hostNamespaceOnly"}]
Cilium(values) ==
  [cni |-> "cilium",
   cilium |-> [version |-> [v |-> TRUE, release |-> <<1, 20>>],
               gateway |-> [v |-> TRUE, release |-> <<1, 5>>], values |-> values]]

\* Planes, profiles, labels and Cilium: the worker classes differ in both.
Full ==
  [name |-> "home", pve |-> <<[name |-> "pve1", primary |-> TRUE, endpoint |-> "https"]>>,
   storage |-> <<[name |-> "local", type |-> "dir", backing |-> "/data", nodes |-> {"pve1"}]>>,
   acme |-> [dns |-> "cloudflare", directory |-> Unset], endpoint |-> "https", booty |-> "http",
   schematic |-> Unset, cluster |-> Cilium(Values), networks |-> <<Servers, Storage>>,
   profiles |-> <<[name |-> "base", extensions |-> {"agent"}],
                  [name |-> "kata", extensions |-> {"kata-containers"}]>>,
   nodes |-> <<Node(1, "controlplane", {"base"}, <<>>, Two(1, 0)),
               Node(2, "worker", {"base"}, Size :> "large", Two(2, 1)),
               Node(3, "worker", {"base", "kata"}, <<>>, Two(3, 1))>>]
\* Neither, one image, and workers with one interface.
Plain ==
  [Full EXCEPT !.storage = <<>>, !.cluster = Unset, !.networks = <<Servers>>, !.profiles = <<>>, !.schematic = "pinned",
     !.nodes = <<Node(1, "controlplane", {}, <<>>,
                      <<[Iface(0, Unset, MAC(11), Prefix(3, 2)) EXCEPT !.dhcp = FALSE], Iface(1, "servers", MAC(10), Unset)>>),
                 Node(2, "worker", {}, Size :> "large", <<Iface(0, "servers", MAC(20), Unset)>>),
                 Node(3, "worker", {}, <<>>, <<[Iface(0, Unset, MAC(30), Unset) EXCEPT !.dhcp = TRUE, !.primary = TRUE]>>)>>]
MCDrafts == {Full, Inlined(Full), Plain}

\* The third node gets the MAC address of the second, in two edits.
Moving == [Full EXCEPT !.nodes[3].interfaces[1].mac = MAC(20)]
Moved == [Moving EXCEPT !.nodes[2].interfaces[1].mac = MAC(25)]
MCConfigs == <<Full, [Moving EXCEPT !.nodes[3].interfaces[1].mac.form = "dashes"], Moved>>
\* What the code makes of each of them.
Deployment ==
  LET loadable == {d \in DOMAIN MCConfigs : Accepted(MCConfigs[d])}
      emittable == {d \in loadable : ShapesAgree(MCConfigs[d])}
      macs == [d \in loadable |-> [v \in VM |-> BootMAC(VMSpec(MCConfigs[d], v))]]
      Answer(tree, mac) == {answer.config : answer \in Serve(tree, mac)}
  IN [loadable    |-> loadable,
      emittable   |-> emittable,
      macs        |-> macs,
      answers     |-> [e \in emittable |-> LET tree == Tree(MCConfigs[e]) IN
                         [mac \in {macs[d][v] : d \in loadable, v \in VM} |-> Answer(tree, mac)]],
      nodeConfigs |-> [e \in emittable |-> [v \in VM |-> NodeConfig(MCConfigs[e], v)]]]
MCVersions == DOMAIN MCConfigs
MCLoadable == Deployment.loadable
MCEmittable == Deployment.emittable
MCMACs == Deployment.macs
MCAnswers == Deployment.answers
MCNodeConfigs == Deployment.nodeConfigs

MCModeValues ==
  [vlan |-> {Unset, 0, 40}, dhcp |-> {Unset, TRUE, FALSE}, primary |-> {Unset, TRUE, FALSE},
   cidr |-> {Unset, Prefix(8, 2), Prefix(0, 2), Prefix(8, 3)}, mtu |-> {Unset, 0, 9000}]
MCAddresses == {Unset, Prefix(10, 2), Prefix(1, 2), Prefix(10, 3)}
MCLabels ==
  {<<>>, Size :> "large", Size :> "small", Key(RuntimeNamespace, "kata") :> "true", LabelTopologyZone :> "rack",
   LabelExcludeFromExternalLB :> "", Key(K8s("node-role"), "worker") :> ""}
MCClusters ==
  {Unset, [cni |-> Unset, cilium |-> Unset], Cilium(Values),
   Cilium([Values EXCEPT !.holds = @ \ {"hostNamespaceOnly"}])}
-----------------------------------------------------------------------------
(***************************************************************************)
(* While an operator drafts, nothing is deployed; then any of the VMs may  *)
(* exist, and the file is at some version.                                 *)
(***************************************************************************)
AllInit ==
  /\ MCInit /\ vm = [v \in VM |-> "absent"]
  /\ InstallInit /\ file = 1
  /\ DraftInit /\ drafting = TRUE
Settle ==
  /\ drafting /\ drafting' = FALSE
  /\ draft' = Unset /\ edits' = 0 /\ slips' = 0
  /\ vm' \in [VM -> {"absent", "stopped", "running"}]
  /\ UNCHANGED file
  /\ UNCHANGED <<left, task, touched, phase, pos, applied, result, faults, outside, loaded, serving, from, disk>>

Draft == drafting /\ edits + slips < MaxChanges /\ DraftNext /\ UNCHANGED <<mcVars, installVars, drafting>>

Deployed(A) == ~drafting /\ A /\ UNCHANGED <<draftVars, drafting>>
Calm(A) == Deployed(A /\ UNCHANGED <<faults, outside>>)

RunStep == Calm(Progress /\ Machines)
LeftTask == Calm(LeftTaskEnds /\ Machines)
Task == Calm(TaskEnds /\ Machines)
Emit == Calm(Publish)
Boot(v) == Calm(InstallMachine(v))
\* A file that no command takes is edited again.
Repair == Calm(file \notin Emittable /\ EditFile /\ file' \in Emittable)
Troubled(A) == Deployed(A /\ faults + outside < MaxTrouble)
Disturb ==
  Troubled(/\ EditFile \/ \E v \in VM : Wipe(v)
           /\ outside' = outside + 1 /\ UNCHANGED faults)
Harm == Troubled(MCNext /\ Machines /\ <<faults, outside>>' # <<faults, outside>>)

AllNext ==
  \/ Draft \/ Settle \/ RunStep \/ LeftTask \/ Task \/ Emit \/ Repair \/ Disturb \/ Harm
  \/ \E v \in VM : Boot(v)

(***************************************************************************)
(* Drafting ends, a stopped stage is run again, tasks end, booty is        *)
(* brought up to date with the file, a file that is refused is edited, and *)
(* a machine that has nothing to boot from its disk boots from the network *)
(***************************************************************************)
AllSpec ==
  /\ AllInit /\ [][AllNext]_allVars
  /\ WF_allVars(Settle) /\ WF_allVars(RunStep) /\ WF_allVars(LeftTask) /\ WF_allVars(Task)
  /\ WF_allVars(Emit) /\ WF_allVars(Repair) /\ \A v \in VM : WF_allVars(Boot(v))

(***************************************************************************)
(* Once nobody interferes any more, every VM talos vms has created is a    *)
(* node, unless an edit has taken its MAC address from it.                 *)
(***************************************************************************)
Installs ==
  <>[](file \in Emittable /\ \A v \in VM : from[v] # 0 /\ Kept(v, from[v], file) => disk[v] # Blank)
=============================================================================
