----------------------------- MODULE Drafting -----------------------------
(***************************************************************************)
(* An operator writes the configuration and asks bootstrap validate about  *)
(* it.  From one of Drafts, edits set attributes to values that may fit or *)
(* not; then, in a draft that is accepted, the operator slips and writes   *)
(* values that are wrong in themselves.                                    *)
(***************************************************************************)
EXTENDS Catalog

CONSTANTS
  Drafts,      \* clusters to start from
  EditedNodes, \* positions of the nodes that edits change
  ModeValues,  \* ModeValues[attr]: what attr may be set to
  Addresses, Labels, Clusters,  \* what an address, all labels of a node, the cluster block may be
  MaxEdits, MaxSlips

(***************************************************************************)
(* What decoding a file leaves: blocks of a kind in a list, and each       *)
(* attribute of a block there, if only as Unset.  A network block without  *)
(* a vlan or an mtu reads as one with zero.                                *)
(***************************************************************************)
IsList(s) == Cardinality(DOMAIN s) \in Nat /\ s = [k \in 1 .. Cardinality(DOMAIN s) |-> s[k]]
DecodedNode(node) ==
  /\ DOMAIN node = {"name", "role", "pve_node", "vmid", "storage", "profiles", "labels", "interfaces"}
  /\ IsList(node.interfaces)
  /\ \A j \in DOMAIN node.interfaces :
       DOMAIN node.interfaces[j] = {"slot", "network", "mac", "address"} \cup ModeAttrs
Proper(c) ==
  \A k \in DOMAIN c.networks :
    Unset \notin {c.networks[k].vlan, c.networks[k].mtu, c.networks[k].dhcp, c.networks[k].primary}
Decoded(c) ==
  /\ DOMAIN c = {"name", "pve", "storage", "acme", "endpoint", "booty", "schematic", "cluster",
                 "networks", "profiles", "nodes"}
  /\ IsList(c.networks) /\ IsList(c.profiles) /\ IsList(c.nodes)
  /\ c.cluster \in TalosCluster \cup {Unset} /\ Proper(c)
  /\ \A k \in DOMAIN c.networks : DOMAIN c.networks[k] = {"name"} \cup ModeAttrs
  /\ \A k \in DOMAIN c.profiles : DOMAIN c.profiles[k] = {"name", "extensions"}
  /\ \A i \in DOMAIN c.nodes : DecodedNode(c.nodes[i])

ASSUME DraftingAssumption ==
  (\A c \in Drafts : Decoded(c)) /\ Clusters \subseteq TalosCluster \cup {Unset}

VARIABLES
  draft,  \* the cluster in the file, Unset when nobody drafts
  edits,  \* attributes set so far
  slips   \* values written since that are wrong in themselves

draftVars == <<draft, edits, slips>>

DraftInit == draft \in Drafts /\ edits = 0 /\ slips = 0

\* One attribute is set.
NetworkEdit ==
  \E k \in DOMAIN draft.networks, attr \in ModeAttrs : \E value \in ModeValues[attr] :
    draft' = [draft EXCEPT !.networks[k][attr] = value]
InterfaceEdit(i) ==
  \E j \in DOMAIN draft.nodes[i].interfaces :
    \/ \E attr \in ModeAttrs : \E value \in ModeValues[attr] :
         draft' = [draft EXCEPT !.nodes[i].interfaces[j][attr] = value]
    \/ \E value \in Addresses : draft' = [draft EXCEPT !.nodes[i].interfaces[j].address = value]
    \/ \E value \in Names(draft.networks) \cup {Unset} :
         draft' = [draft EXCEPT !.nodes[i].interfaces[j].network = value]
NodeEdit(i) ==
  \/ \E role \in Roles : draft' = [draft EXCEPT !.nodes[i].role = role]
  \/ \E profiles \in SUBSET Names(draft.profiles) : draft' = [draft EXCEPT !.nodes[i].profiles = profiles]
  \/ \E labels \in Labels : draft' = [draft EXCEPT !.nodes[i].labels = labels]
ClusterEdit == \E cluster \in Clusters : draft' = [draft EXCEPT !.cluster = cluster]
Edit ==
  /\ edits < MaxEdits /\ slips = 0
  /\ \/ NetworkEdit \/ ClusterEdit
     \/ \E i \in EditedNodes \cap DOMAIN draft.nodes : InterfaceEdit(i) \/ NodeEdit(i)
  /\ Proper(draft') /\ draft' # draft
  /\ edits' = edits + 1 /\ UNCHANGED slips

\* Values no cluster can have, in place of ones that could be right.
Bad == [vlan |-> 4095, mtu |-> 575, cidr |-> Malformed, address |-> Malformed, mac |-> Malformed]
Breakable(block, attrs) == {attr \in attrs : block[attr] \notin {Unset, Bad[attr]}}

NetworkSlip ==
  \E k \in DOMAIN draft.networks : \E attr \in Breakable(draft.networks[k], {"vlan", "mtu", "cidr"}) :
    draft' = [draft EXCEPT !.networks[k][attr] = Bad[attr]]
InterfaceSlip(i) ==
  \E j \in DOMAIN draft.nodes[i].interfaces : \E attr \in Breakable(draft.nodes[i].interfaces[j], DOMAIN Bad) :
    draft' = [draft EXCEPT !.nodes[i].interfaces[j][attr] = Bad[attr]]
LabelSlip(i) ==
  \E key \in DOMAIN draft.nodes[i].labels :
    /\ draft.nodes[i].labels[key] # Malformed
    /\ draft' = [draft EXCEPT !.nodes[i].labels[key] = Malformed]
ProfileSlip ==
  \E k \in DOMAIN draft.profiles :
    /\ Malformed \notin draft.profiles[k].extensions
    /\ draft' = [draft EXCEPT !.profiles[k].extensions = @ \cup {Malformed}]
PinSlip ==
  /\ draft.cluster # Unset /\ draft.cluster.cilium # Unset /\ draft.cluster.cilium.gateway # Unset
  /\ draft.cluster.cilium.gateway.v /\ draft.cluster.cilium.gateway.release # Malformed
  /\ \/ draft' = [draft EXCEPT !.cluster.cilium.gateway.v = FALSE]
     \/ draft' = [draft EXCEPT !.cluster.cilium.gateway.release = Malformed]
Slip ==
  /\ slips < MaxSlips
  /\ slips = 0 => Accepted(draft)
  /\ \/ NetworkSlip \/ ProfileSlip \/ PinSlip
     \/ \E i \in DOMAIN draft.nodes : InterfaceSlip(i) \/ LabelSlip(i)
  /\ slips' = slips + 1 /\ UNCHANGED edits

DraftNext == Edit \/ Slip
DraftSpec == DraftInit /\ [][DraftNext]_draftVars
-----------------------------------------------------------------------------
(***************************************************************************)
(* "One error per mistake, whichever way the fact arrived"                 *)
(* (validateNetworks, resolveInline, validateAddress): values of planes,   *)
(* interfaces, labels, profiles and the pin that are wrong in themselves   *)
(* (Slip), in a file that was fine, bring an error and no more errors than *)
(* there are of them, however many blocks depend on them.                  *)
(***************************************************************************)
OneErrorPerMistake ==
  draft # Unset /\ slips > 0 => Load(draft) # {} /\ Cardinality(Load(draft)) <= slips

(***************************************************************************)
(* "The same mistake reads the same whichever form declared it"            *)
(* (validateInlineMode): a file that refers to planes is accepted exactly  *)
(* when it is accepted with their facts written into the interfaces and    *)
(* keeps the rules only planes have, and then it resolves to the same.     *)
(***************************************************************************)
InlineForm(c, iface) ==
  IF iface.network = Unset THEN iface
  ELSE LET p == Plane(c, iface.network)
       IN [iface EXCEPT !.network = Unset, !.vlan = p.vlan, !.dhcp = p.dhcp, !.primary = p.primary,
                        !.cidr = p.cidr, !.mtu = p.mtu]
InlinedNode(c, node) ==
  [node EXCEPT !.interfaces = [j \in DOMAIN node.interfaces |-> InlineForm(c, node.interfaces[j])]]
Inlined(c) ==
  [c EXCEPT !.networks = <<>>, !.nodes = [i \in DOMAIN c.nodes |-> InlinedNode(c, c.nodes[i])]]
PlaneRules(c) ==
  /\ Cardinality(PrimaryPlanes(c)) <= 1
  /\ \A k \in DOMAIN c.networks :
       /\ ~Duplicate(c.networks, k) /\ References(c, c.networks[k].name)
       /\ c.networks[k].dhcp \/ c.networks[k].cidr # Unset
OneFormEach(c) ==
  \A at \in Interfaces(c) :
    LET iface == c.nodes[at[1]].interfaces[at[2]]
    IN iface.network # Unset => iface.network \in Names(c.networks) /\ InlineModeAttrs(iface) = {}
SameWhicheverForm ==
  draft # Unset /\ OneFormEach(draft) =>
    /\ Accepted(draft) <=> Accepted(Inlined(draft)) /\ PlaneRules(draft)
    /\ Accepted(draft) =>
         \A i \in DOMAIN draft.nodes : ResolvedInterfaces(draft, i) = ResolvedInterfaces(Inlined(draft), i)

(***************************************************************************)
(* "So the merge never overwrites" (applyLabels, resolveLabels), and no    *)
(* kubelet is left retrying a label it may not set: an accepted node's     *)
(* labels come from one source each, and NodeRestriction allows them all.  *)
(***************************************************************************)
LabelsOnce ==
  draft # Unset /\ Accepted(draft) =>
    \A i \in DOMAIN draft.nodes :
      LET explicit == DOMAIN draft.nodes[i].labels
          derived == {Key(RuntimeNamespace, r.name) : r \in NodeRuntimes(draft, i)}
          rendered == DOMAIN (CompletionLabels(draft) ++ MachineryLabels(draft.nodes[i].role))
      IN /\ explicit \cap derived = {} /\ (explicit \cup derived) \cap rendered = {}
         /\ \A key \in explicit \cup derived \cup rendered : ~NodeRestricted(key)

(***************************************************************************)
(* "The PXE identity binding agrees by construction" (TalosNode), and      *)
(* "what apply compares against a live node is what that node would get    *)
(* from a fresh install" (NodeConfigs): booty answers the MAC address the  *)
(* VM of a node boots from with exactly one config, the one apply renders, *)
(* and it is what the node's own blocks say.  A file that is accepted is   *)
(* only refused by emit when nodes of a role have different interfaces.    *)
(***************************************************************************)
OwnInterfaces(nics) ==
  IF Cardinality(nics) = 1 THEN {}
  ELSE {[hardwareAddr |-> Text(r.mac), dhcp |-> r.dhcp, mtu |-> r.mtu,
         addresses |-> IF r.dhcp THEN {} ELSE {Text(r.address)}] : r \in nics}
OwnLabels(c, i, labels) ==
  LET Label(key) == IF key \in DOMAIN labels THEN labels[key]
                    ELSE IF key = LabelTopologyRegion THEN c.name
                    ELSE IF key = LabelTopologyZone THEN c.nodes[i].name ELSE ""
  IN [key \in RenderedLabels(c, i) \cup DOMAIN labels |-> Text(Label(key))]
OwnConfig(c, i) ==
  [hostname   |-> Text(c.nodes[i].name),
   image      |-> Text(Schematic(c, i)),
   interfaces |-> OwnInterfaces(ResolvedInterfaces(c, i)),
   nodeLabels |-> OwnLabels(c, i, ResolvedLabels(c, i)),
   cluster    |-> ApplyCompletion(c)]
ServesOwnConfig ==
  draft # Unset /\ Accepted(draft) /\ ShapesAgree(draft) =>
    \A i \in DOMAIN draft.nodes :
      /\ Serve(Tree(draft), BootMAC(VMSpec(draft, i))) =
           {[boot |-> Schematic(draft, i), config |-> OwnConfig(draft, i)]}
      /\ NodeConfig(draft, i) = OwnConfig(draft, i)
=============================================================================
