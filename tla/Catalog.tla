------------------------------ MODULE Catalog ------------------------------
(***************************************************************************)
(* From a resolved cluster to what booty serves and what Proxmox builds    *)
(* (internal/emit, internal/talos, VMSpec in internal/pve).  A template is *)
(* shared by the nodes of a role that have the same labels, and what is    *)
(* each node's own is left to variables, which the catalog sets by MAC     *)
(* address.  In a name, a schematic is known by its extensions and a label *)
(* set by itself, where the code shortens their hashes to eight digits.    *)
(***************************************************************************)
EXTENDS ClusterConfig

Roles == {"controlplane", "worker"}
OfRole(c, role) == {i \in DOMAIN c.nodes : c.nodes[i].role = role}

\* The content-addressed image of a node's extensions, the pinned or the vanilla one.
Schematic(c, i) ==
  IF NodeExtensions(c, i) = {} THEN [id |-> Default(c.schematic, "vanilla"), extensions |-> {}]
  ELSE [id |-> "factory", extensions |-> NodeExtensions(c, i)]
-----------------------------------------------------------------------------
(***************************************************************************)
(* Templates.  A value in one is Text, or Var: read from a variable when   *)
(* it is executed, and empty without one, which missingkey=error does not  *)
(* prevent since index does not heed it.                                   *)
(***************************************************************************)
Text(value) == <<"text", value>>
Var(key) == <<"var", key>>
Fill(x, vars) ==
  IF x[1] = "text" THEN x
  ELSE Text(IF x[2] \in DOMAIN vars THEN vars[x[2]] ELSE Unset)

HostnameVarKey == <<"hostname">>
InstallImageVarKey == <<"install_image">>
MACVarKey(slot) == <<"mac", slot>>
AddressVarKey(slot) == <<"address", slot>>

\* The nodes of a role share one shape, which leaves out what is each one's own.
NodeShape(c, i) ==
  {[slot |-> r.slot, dhcp |-> r.dhcp, mtu |-> r.mtu] : r \in ResolvedInterfaces(c, i)}
ShapesAgree(c) ==
  \A i, k \in DOMAIN c.nodes : c.nodes[i].role = c.nodes[k].role => NodeShape(c, i) = NodeShape(c, k)
RoleShape(c, role) ==
  IF OfRole(c, role) = {} THEN {} ELSE NodeShape(c, CHOOSE i \in OfRole(c, role) : TRUE)

\* A single interface is not declared at all.
SetInterfaces(shape) ==
  IF Cardinality(shape) <= 1 THEN {}
  ELSE {[hardwareAddr |-> Var(MACVarKey(s.slot)),
         dhcp         |-> s.dhcp,
         mtu          |-> s.mtu,
         addresses    |-> IF s.dhcp THEN {} ELSE {Var(AddressVarKey(s.slot))}] : s \in shape}

\* What Talos's generator and the completion label a node of the role with.
MachineryLabels(role) ==
  [key \in IF role = "controlplane" THEN {LabelExcludeFromExternalLB} ELSE {} |-> Text("")]
CompletionLabels(c) ==
  IF c.cluster = Unset THEN <<>>
  ELSE Only(LabelTopologyRegion, Text(c.name)) ++ Only(LabelTopologyZone, Var(HostnameVarKey))
ApplyLabels(base, labels) == [key \in DOMAIN labels |-> Text(labels[key])] ++ base

\* What the Job that installs Cilium works with.
CiliumInlineManifests(cilium) == [values |-> cilium.values, version |-> cilium.version]
\* The completion surface: the CNI, what it needs, and kubelet certificates.
ApplyCompletion(c) ==
  LET completed == c.cluster # Unset
      cilium == completed /\ c.cluster.cni = "cilium"
  IN [rotate    |-> completed,
      builtin   |-> ~completed \/ c.cluster.cni \notin {"none", "cilium"},
      kubeProxy |-> ~cilium,
      manifests |-> (IF completed THEN {<<"serving-cert-approver">>} ELSE {})
                    \cup (IF cilium THEN {<<"gateway-api", c.cluster.cilium.gateway>>} ELSE {}),
      inline    |-> IF cilium THEN CiliumInlineManifests(c.cluster.cilium) ELSE Unset]

RoleTemplate(c, role, labels) ==
  [hostname   |-> Var(HostnameVarKey),
   image      |-> Var(InstallImageVarKey),
   interfaces |-> SetInterfaces(RoleShape(c, role)),
   nodeLabels |-> ApplyLabels(CompletionLabels(c) ++ MachineryLabels(role), labels),
   cluster    |-> ApplyCompletion(c)]

\* A role without nodes still has its unlabelled class.
LabelSets(c, role) ==
  IF OfRole(c, role) = {} THEN {<<>>} ELSE {ResolvedLabels(c, i) : i \in OfRole(c, role)}
ClassTemplates(c) ==
  UNION {{[role |-> role, labels |-> labels, data |-> RoleTemplate(c, role, labels)] :
            labels \in LabelSets(c, role)} : role \in Roles}

Execute(template, vars) ==
  [hostname   |-> Fill(template.hostname, vars),
   image      |-> Fill(template.image, vars),
   interfaces |-> {[hardwareAddr |-> Fill(d.hardwareAddr, vars), dhcp |-> d.dhcp, mtu |-> d.mtu,
                    addresses |-> {Fill(a, vars) : a \in d.addresses}]
                   : d \in template.interfaces},
   nodeLabels |-> [key \in DOMAIN template.nodeLabels |-> Fill(template.nodeLabels[key], vars)],
   cluster    |-> template.cluster]
-----------------------------------------------------------------------------
(***************************************************************************)
(* The catalog: a profile for every class of nodes and a group for every   *)
(* node, which says by the MAC address of its boot interface who it is.    *)
(***************************************************************************)
LabelSplits(c, role) == Cardinality(LabelSets(c, role)) > 1
SchematicSplits(c, role) == Cardinality({Schematic(c, i) : i \in OfRole(c, role)}) > 1
\* A part is left out where the role is not split, or the label set is empty.
LabelSuffix(labels, split) == IF split THEN labels ELSE <<>>
TemplatePath(c, role, labels) == <<role, LabelSuffix(labels, LabelSplits(c, role))>>

\* Mutation: the schematic is in no name.
ProfileNameByLabels(c, i) ==
  <<c.nodes[i].role, Unset, LabelSuffix(ResolvedLabels(c, i), LabelSplits(c, c.nodes[i].role))>>
ProfileName(c, i) ==
  <<c.nodes[i].role,
    IF SchematicSplits(c, c.nodes[i].role) THEN Schematic(c, i) ELSE Unset,
    LabelSuffix(ResolvedLabels(c, i), LabelSplits(c, c.nodes[i].role))>>

InterfaceVars(nics) ==
  LET mac == [key \in {MACVarKey(r.slot) : r \in nics} |-> (CHOOSE r \in nics : key = MACVarKey(r.slot)).mac]
      static == {r \in nics : ~r.dhcp}
      address == [key \in {AddressVarKey(r.slot) : r \in static} |->
                    (CHOOSE r \in static : key = AddressVarKey(r.slot)).address]
  IN IF Cardinality(nics) <= 1 THEN <<>> ELSE mac ++ address
GroupVars(c, i) == Only(HostnameVarKey, c.nodes[i].name) ++ InterfaceVars(ResolvedInterfaces(c, i))

CatalogProfile(c, i) ==
  [name     |-> ProfileName(c, i),
   template |-> TemplatePath(c, c.nodes[i].role, ResolvedLabels(c, i)),
   boot     |-> Schematic(c, i),
   vars     |-> Only(InstallImageVarKey, Schematic(c, i))]
CatalogGroup(c, i) ==
  [profile |-> ProfileName(c, i), mac |-> PrimaryInterface(c, i).mac, vars |-> GroupVars(c, i)]
RenderCatalog(c) ==
  [profiles |-> {CatalogProfile(c, i) : i \in DOMAIN c.nodes},
   groups   |-> {CatalogGroup(c, i) : i \in DOMAIN c.nodes}]
Tree(c) ==
  [catalog   |-> RenderCatalog(c),
   templates |-> {[path |-> TemplatePath(c, t.role, t.labels), data |-> t.data] : t \in ClassTemplates(c)}]

\* booty: what a machine that boots with this MAC address gets.
Serve(tree, mac) ==
  UNION {UNION {{[boot |-> p.boot, config |-> Execute(t.data, g.vars ++ p.vars)] :
                   t \in {t \in tree.templates : t.path = p.template}} :
                p \in {p \in tree.catalog.profiles : p.name = g.profile}} :
         g \in {g \in tree.catalog.groups : g.mac = mac}}

\* talos apply: every node's config, without the catalog.
NodeConfig(c, i) ==
  LET class == CHOOSE t \in ClassTemplates(c) : t.role = c.nodes[i].role /\ t.labels = ResolvedLabels(c, i)
  IN Execute(class.data, GroupVars(c, i) ++ Only(InstallImageVarKey, Schematic(c, i)))
-----------------------------------------------------------------------------
(***************************************************************************)
(* The VM of a node: its interfaces in their slots, and the one it boots   *)
(* from when its disk is empty.                                            *)
(***************************************************************************)
\* Mutation: the first slot boots, whichever interface is the primary one.
BootOrderFirst(c, i) == CHOOSE slot \in {r.slot : r \in ResolvedInterfaces(c, i)} :
                          \A r \in ResolvedInterfaces(c, i) : slot <= r.slot
BootOrder(c, i) == PrimaryInterface(c, i).slot
VMSpec(c, i) ==
  [nics |-> {[slot |-> r.slot, mac |-> r.mac, tag |-> r.vlan, mtu |-> r.mtu] : r \in ResolvedInterfaces(c, i)},
   boot |-> BootOrder(c, i)]
BootMAC(spec) == (CHOOSE nic \in spec.nics : nic.slot = spec.boot).mac
=============================================================================
