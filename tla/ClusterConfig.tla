--------------------------- MODULE ClusterConfig ---------------------------
(***************************************************************************)
(* The configuration (internal/config): what Load refuses in a file, and   *)
(* what every node's interfaces and labels resolve to.  A cluster is a     *)
(* record of its blocks, in sequences where their order or repetition can  *)
(* matter.  A diagnostic is a tuple: its summary, then the positions of    *)
(* the block and the field it is about.  An attribute that is not set is   *)
(* Unset, one that does not parse Malformed.  Addresses are AddressBits    *)
(* wide, the DNS labels of a label key's prefix are listed from the last,  *)
(* and what only ends up in an image or a log is left out.                 *)
(***************************************************************************)
EXTENDS Integers, Sequences, FiniteSets

CONSTANTS
  Unset, Malformed,
  AddressBits  \* width of an IP address

\* The cluster block: a version is pinned with its "v" or without, and of the
\* Helm values it matters what holds in them and which keys have no value.
VersionPin == [v : BOOLEAN, release : Seq(Nat) \cup {Malformed}]
HelmValues == [null : SUBSET STRING, holds : SUBSET STRING]
CiliumConfig ==
  [version : VersionPin \cup {Unset}, gateway : VersionPin \cup {Unset},
   values : HelmValues \cup {Unset, Malformed}]
TalosCluster == [cni : STRING \cup {Unset}, cilium : CiliumConfig \cup {Unset}]

ASSUME ConfigAssumption ==
  /\ AddressBits \in Nat \ {0}
  /\ Unset # Malformed /\ {Unset, Malformed} \cap Int = {}
  /\ Unset \notin VersionPin \cup CiliumConfig \cup TalosCluster

\* Maps: what is in the left one counts.
f ++ g == [x \in DOMAIN f \cup DOMAIN g |-> IF x \in DOMAIN f THEN f[x] ELSE g[x]]
Only(key, value) == [x \in {key} |-> value]

Diag(wrong, diagnostic) == IF wrong THEN {diagnostic} ELSE {}
Each(blocks, Diags(_)) == UNION {Diags(i) : i \in DOMAIN blocks}
Names(blocks) == {blocks[i].name : i \in DOMAIN blocks}
\* What stops at a first kind of diagnostics, and what does not return early.
Staged(first, then) == IF first # {} THEN first ELSE then
Duplicate(blocks, i) == \E k \in 1 .. i - 1 : blocks[k].name = blocks[i].name

InvalidVLAN(n) == n # 0 /\ n \notin 1 .. 4094
InvalidMTU(n) == n # 0 /\ n \notin 576 .. 65520
Contains(cidr, addr) ==
  LET block == 2 ^ (AddressBits - cidr.bits)
  IN addr \div block = cidr.addr \div block
-----------------------------------------------------------------------------
(***************************************************************************)
(* Profiles, and the runtimes their extensions provide.                    *)
(***************************************************************************)
Runtimes == {[name |-> "kata", extension |-> "kata-containers", workerOnly |-> TRUE]}
ASSUME RuntimesAssumption == \A r \in Runtimes : r.extension # Malformed

NodeExtensions(c, i) ==
  UNION {c.profiles[k].extensions :
           k \in {k \in DOMAIN c.profiles : c.profiles[k].name \in c.nodes[i].profiles}}
NodeRuntimes(c, i) == {r \in Runtimes : r.extension \in NodeExtensions(c, i)}
CarriesRuntime(c, name) ==
  \E i \in DOMAIN c.nodes : \E r \in NodeRuntimes(c, i) : r.name = name

ValidateProfiles(c) ==
  LET Profile(k) ==
        LET p == c.profiles[k]
        IN IF Duplicate(c.profiles, k) THEN {<<"Duplicate profile name", k>>}
           ELSE Diag(p.extensions = {}, <<"Empty profile", k>>)
                \cup Diag(Malformed \in p.extensions, <<"Invalid extension name", k>>)
      Unreferenced(k) ==
        Diag(\A i \in DOMAIN c.nodes : c.profiles[k].name \notin c.nodes[i].profiles,
             <<"Unreferenced profile", k>>)
      Unknown(i) ==
        {<<"Unknown profile reference", i, ref>> : ref \in c.nodes[i].profiles \ Names(c.profiles)}
  IN Diag(c.profiles # <<>> /\ c.schematic # Unset, <<"Both schematic_id and profiles declared">>)
     \cup Each(c.profiles, Profile) \cup Each(c.nodes, Unknown) \cup Each(c.profiles, Unreferenced)

ValidateRuntimes(c) ==
  LET WorkerOnly(i) ==
        {<<"Worker-only runtime on a control plane", i, r.name>> :
           r \in {r \in NodeRuntimes(c, i) : c.nodes[i].role = "controlplane" /\ r.workerOnly}}
  IN Each(c.nodes, WorkerOnly)
-----------------------------------------------------------------------------
(***************************************************************************)
(* The Proxmox side, the certificates, and what the Talos nodes refer to.  *)
(***************************************************************************)
ValidatePVE(c) ==
  LET Endpoint(i) == Diag(c.pve[i].endpoint = Malformed, <<"Invalid pve node endpoint", i>>)
  IN Each(c.pve, Endpoint)
     \cup Diag(Cardinality({i \in DOMAIN c.pve : c.pve[i].primary}) # 1,
               <<"Exactly one primary pve node required">>)

\* A block of a known type names what backs it; of another type it need not.
ValidateStorage(c) ==
  LET Storage(i) ==
        LET s == c.storage[i]
        IN IF Duplicate(c.storage, i) THEN {<<"Duplicate storage name", i>>}
           ELSE Diag(s.type = Unset, <<"Missing storage type", i>>)
                \cup Diag(s.type \in {"zfspool", "dir"} /\ s.backing = Unset, <<"Missing storage backing", i>>)
                \cup {<<"Unknown storage node restriction", i, n>> : n \in s.nodes \ Names(c.pve)}
      Undeclared(i) ==
        Diag(c.storage # <<>> /\ c.nodes[i].storage \notin Names(c.storage),
             <<"Undeclared talos node storage", i>>)
  IN Each(c.storage, Storage) \cup Each(c.nodes, Undeclared)

ValidateACME(c) ==
  Diag(c.acme.dns # "cloudflare", <<"Unsupported acme dns provider">>)
  \cup Diag(c.acme.directory = Malformed, <<"Invalid acme directory">>)

ValidateTalosNode(c, i) ==
  Diag(c.nodes[i].role \notin {"controlplane", "worker"}, <<"Invalid talos node role", i>>)
  \cup Diag(c.nodes[i].pve_node \notin Names(c.pve), <<"Unknown pve_node reference", i>>)
  \cup Diag(c.nodes[i].vmid < 100, <<"Invalid talos node vmid", i>>)
ValidateTalos(c) ==
  Diag(c.endpoint = Malformed, <<"Invalid talos endpoint">>)
  \cup Diag(c.booty = Malformed, <<"Invalid booty url">>)
  \cup UNION {ValidateTalosNode(c, i) : i \in DOMAIN c.nodes}
  \cup Diag(\A i \in DOMAIN c.nodes : c.nodes[i].role # "controlplane",
            <<"No controlplane node declared">>)

\* A pin is Unset (the empty string), or has its "v" or not, and a release.
GatewayAPIFloor == <<1, 5>>
Older(release, floor) ==
  \/ release[1] < floor[1]
  \/ release[1] = floor[1] /\ release[2] < floor[2]
ValidateGatewayAPIFloor(pin) ==
  IF pin = Unset \/ ~pin.v THEN {}
  ELSE IF pin.release = Malformed THEN {<<"Invalid gateway_api_version">>}
  ELSE Diag(Older(pin.release, GatewayAPIFloor), <<"Gateway API pin below the CRD-layout floor">>)

CNIs == {Unset, "flannel", "none", "cilium"}
ValidateTalosCluster(c) ==
  IF c.cluster = Unset THEN {}
  ELSE LET cni == c.cluster.cni
           cilium == c.cluster.cilium
       IN Diag(cni \notin CNIs, <<"Invalid talos cluster cni">>)
          \cup Diag(cni = "cilium" /\ cilium = Unset, <<"Missing cilium block">>)
          \cup Diag(cni # "cilium" /\ cilium # Unset, <<"Cilium block without cni cilium">>)
          \cup IF cilium = Unset THEN {}
               ELSE {<<"Unprefixed version pin", pin>> :
                       pin \in {pin \in {"version", "gateway"} : cilium[pin] # Unset /\ ~cilium[pin].v}}
                    \cup ValidateGatewayAPIFloor(cilium.gateway)
-----------------------------------------------------------------------------
(***************************************************************************)
(* The network planes.                                                     *)
(***************************************************************************)
ValidateNetwork(c, k) ==
  LET p == c.networks[k]
  IN Diag(p.primary /\ ~p.dhcp, <<"Static primary network", k>>)
     \cup Diag(InvalidVLAN(p.vlan), <<"Invalid network vlan", k>>)
     \cup Diag(InvalidMTU(p.mtu), <<"Invalid network mtu", k>>)
     \cup Diag(~p.dhcp /\ p.cidr = Unset, <<"Missing network cidr", k>>)
     \cup Diag(p.dhcp /\ p.cidr # Unset, <<"Cidr on a dhcp network", k>>)
     \cup Diag(~p.dhcp /\ p.cidr = Malformed, <<"Invalid network cidr", k>>)

References(c, network) ==
  /\ network # Unset
  /\ \E i \in DOMAIN c.nodes : \E j \in DOMAIN c.nodes[i].interfaces :
       c.nodes[i].interfaces[j].network = network
PrimaryPlanes(c) ==
  {k \in DOMAIN c.networks : ~Duplicate(c.networks, k) /\ c.networks[k].primary}

ValidateNetworks(c) ==
  LET Network(k) ==
        IF Duplicate(c.networks, k) THEN {<<"Duplicate network name", k>>} ELSE ValidateNetwork(c, k)
      Unreferenced(k) == Diag(~References(c, c.networks[k].name), <<"Unreferenced network", k>>)
  IN Each(c.networks, Network)
     \cup Diag(Cardinality(PrimaryPlanes(c)) > 1, <<"Multiple primary networks">>)
     \cup Each(c.networks, Unreferenced)
-----------------------------------------------------------------------------
(***************************************************************************)
(* The labels of a node, a function from keys to values.  A key has a      *)
(* prefix, its namespace, or none (Unset), and a name.                     *)
(***************************************************************************)
InNamespace(ns, base) == Len(ns) >= Len(base) /\ \A n \in 1 .. Len(base) : ns[n] = base[n]

Kubernetes == <<"io", "kubernetes">>
K8s(part) == <<"io", "kubernetes", part>>
RuntimeNamespace == <<"dev", "hoomlab", "runtime">>
Key(ns, name) == [ns |-> ns, name |-> name]
LabelTopologyRegion == Key(K8s("topology"), "region")
LabelTopologyZone == Key(K8s("topology"), "zone")
LabelExcludeFromExternalLB == Key(K8s("node"), "exclude-from-external-load-balancers")

\* What the kubelet may set in the namespaces of Kubernetes.
KubeletLabels ==
  {Key(Kubernetes, name) : name \in {"hostname", "arch", "os"}}
  \cup {Key(K8s("beta"), name) : name \in {"arch", "os", "instance-type"}}
  \cup {Key(ns, name) : ns \in {K8s("topology"), <<"io", "kubernetes", "beta", "failure-domain">>},
                        name \in {"region", "zone"}}
  \cup {Key(K8s("node"), "instance-type")}
NodeRestricted(key) ==
  /\ key.ns # Unset
  /\ InNamespace(key.ns, Kubernetes) \/ InNamespace(key.ns, <<"io", "k8s">>)
  /\ \/ InNamespace(key.ns, K8s("node-restriction"))
     \/ /\ key \notin KubeletLabels
        /\ ~InNamespace(key.ns, K8s("kubelet")) /\ ~InNamespace(key.ns, K8s("node"))

RenderedLabels(c, i) ==
  (IF c.cluster # Unset THEN {LabelTopologyRegion, LabelTopologyZone} ELSE {})
  \cup (IF c.nodes[i].role = "controlplane" THEN {LabelExcludeFromExternalLB} ELSE {})

LabelSyntax(c, i, key) ==
  Diag(key.ns = Malformed \/ key.name = Malformed, <<"Invalid label key", i, key>>)
  \cup Diag(c.nodes[i].labels[key] = Malformed, <<"Invalid label value", i, key>>)
\* Mutation: what the render sets itself is not looked at.
LabelMeaningAlone(c, i, key) ==
  Diag(key.ns = RuntimeNamespace \/ NodeRestricted(key), <<"Label refused by NodeRestriction", i, key>>)
LabelMeaning(c, i, key) ==
  IF key.ns = RuntimeNamespace THEN {<<"Label in the derived runtime namespace", i, key>>}
  ELSE IF key \in RenderedLabels(c, i) THEN {<<"Label collides with a rendered label", i, key>>}
  ELSE Diag(NodeRestricted(key), <<"Label refused by NodeRestriction", i, key>>)
ValidateLabel(c, i, key) == Staged(LabelSyntax(c, i, key), LabelMeaning(c, i, key))
ValidateLabels(c) ==
  UNION {UNION {ValidateLabel(c, i, key) : key \in DOMAIN c.nodes[i].labels} : i \in DOMAIN c.nodes}

\* The explicit labels, then one for each runtime, which would overwrite.
ResolvedLabels(c, i) ==
  [key \in {Key(RuntimeNamespace, r.name) : r \in NodeRuntimes(c, i)} |-> "true"] ++ c.nodes[i].labels
-----------------------------------------------------------------------------
(***************************************************************************)
(* The interfaces of a node.  A raw one has its slot (net<slot>, or -1 for *)
(* a name that is no slot), its MAC address as somebody wrote it, an       *)
(* address, and either a reference to a plane or the attributes of a mode. *)
(* A resolved one has its slot, MAC and address, and every fact of a mode. *)
(***************************************************************************)
ModeAttrs == {"vlan", "dhcp", "primary", "cidr", "mtu"}
InlineModeAttrs(iface) == {attr \in ModeAttrs : iface[attr] # Unset}

NormalizeMAC(mac) == mac.addr
Default(value, default) == IF value = Unset THEN default ELSE value

\* planes: the last block of a name is the one a reference finds.
Plane(c, name) ==
  c.networks[CHOOSE k \in DOMAIN c.networks :
               c.networks[k].name = name /\ \A l \in DOMAIN c.networks : c.networks[l].name = name => l <= k]

\* The facts come whole from the plane, or from the attributes of the block.
Facts(source) ==
  [vlan    |-> Default(source.vlan, 0),
   dhcp    |-> source.dhcp,
   primary |-> Default(source.primary, FALSE),
   cidr    |-> source.cidr,
   mtu     |-> Default(source.mtu, 0)]
ResolveMode(c, iface) == Facts(IF iface.network # Unset THEN Plane(c, iface.network) ELSE iface)
Resolved(iface, mode) ==
  [slot |-> iface.slot, mac |-> NormalizeMAC(iface.mac), address |-> iface.address, vlan |-> mode.vlan,
   dhcp |-> mode.dhcp, primary |-> mode.primary, cidr |-> mode.cidr, mtu |-> mode.mtu]
ResolveInterface(c, iface) == Resolved(iface, ResolveMode(c, iface))

\* Mutation: the rules about the mode itself are left to the planes.
ValidateInlineLoosely(r, at) ==
  Diag(InvalidVLAN(r.vlan), <<"Invalid network_interface vlan", at>>)
  \cup Diag(InvalidMTU(r.mtu), <<"Invalid network_interface mtu", at>>)
ValidateInline(r, at) ==
  Diag(InvalidVLAN(r.vlan), <<"Invalid network_interface vlan", at>>)
  \cup Diag(InvalidMTU(r.mtu), <<"Invalid network_interface mtu", at>>)
  \cup Diag(r.primary /\ ~r.dhcp, <<"Static primary network_interface", at>>)
  \cup Diag(r.dhcp /\ r.cidr # Unset, <<"Cidr on a dhcp network_interface", at>>)
  \cup Diag(~r.dhcp /\ r.cidr = Malformed, <<"Invalid network_interface cidr", at>>)
ModeDiags(c, iface, at) ==
  IF iface.network # Unset
  THEN IF InlineModeAttrs(iface) # {} THEN {<<"Conflicting network_interface forms", at>>}
       ELSE Diag(iface.network \notin Names(c.networks), <<"Unknown network reference", at>>)
  ELSE IF iface.dhcp = Unset THEN {<<"Incomplete network_interface", at>>}
  ELSE ValidateInline(Facts(iface), at)

\* Mutation: an address cannot be inside a cidr that is malformed.
ValidateAddressInside(r, address, at) ==
  IF r.dhcp THEN Diag(address # Unset, <<"Address on a dhcp interface", at>>)
  ELSE IF address = Unset THEN {<<"Missing static address", at>>}
  ELSE IF address = Malformed THEN {<<"Invalid network_interface address", at>>}
  ELSE IF r.cidr = Unset THEN {}
  ELSE Diag(r.cidr = Malformed \/ ~Contains(r.cidr, address.addr), <<"Address outside the governing cidr", at>>)
\* A cidr that is malformed is reported where it was declared.
ValidateAddress(r, address, at) ==
  IF r.dhcp THEN Diag(address # Unset, <<"Address on a dhcp interface", at>>)
  ELSE IF address = Unset THEN {<<"Missing static address", at>>}
  ELSE IF address = Malformed THEN {<<"Invalid network_interface address", at>>}
  ELSE IF r.cidr \in {Unset, Malformed} THEN {}
  ELSE IF ~Contains(r.cidr, address.addr) THEN {<<"Address outside the governing cidr", at>>}
  ELSE Diag(address.bits # r.cidr.bits, <<"Address prefix differs from the governing cidr", at>>)

InterfaceDiags(c, iface, at) ==
  Diag(iface.mac = Malformed, <<"Invalid network_interface mac", at>>)
  \cup Staged(ModeDiags(c, iface, at), ValidateAddress(ResolveMode(c, iface), iface.address, at))

\* The rule about all of a node waits for each of its interfaces to resolve.
ResolveNode(c, i) ==
  LET ifaces == c.nodes[i].interfaces
      Interface(j) ==
        Diag(ifaces[j].slot = -1, <<"Invalid network_interface label", <<i, j>>>>)
        \cup Diag(\E k \in 1 .. j - 1 : ifaces[k].slot = ifaces[j].slot,
                  <<"Duplicate network_interface label", <<i, j>>>>)
        \cup InterfaceDiags(c, ifaces[j], <<i, j>>)
      primaries == {j \in DOMAIN ifaces : ResolveMode(c, ifaces[j]).primary}
  IN IF ifaces = <<>> THEN {<<"Missing network interface", i>>}
     ELSE Staged(Each(ifaces, Interface),
                 Diag(Cardinality(primaries) # 1, <<"Exactly one primary interface required", i>>))
ResolveInterfaces(c) == UNION {ResolveNode(c, i) : i \in DOMAIN c.nodes}

\* Nothing of a node that does not resolve is seen downstream.
ResolvedInterfaces(c, i) ==
  IF ResolveNode(c, i) # {} THEN {}
  ELSE {ResolveInterface(c, c.nodes[i].interfaces[j]) : j \in DOMAIN c.nodes[i].interfaces}
PrimaryInterface(c, i) == CHOOSE r \in ResolvedInterfaces(c, i) : r.primary

\* Mutation: an address is only looked for among the interfaces of its own node.
TakenWithin(c, i, r) == \E q \in ResolvedInterfaces(c, i) : q.mac = r.mac /\ q.slot < r.slot
\* An earlier interface has the address.
Taken(c, i, r) ==
  \E k \in 1 .. i : \E q \in ResolvedInterfaces(c, k) : q.mac = r.mac /\ (k < i \/ q.slot < r.slot)
ValidateInterfaceMACs(c) ==
  UNION {{<<"Duplicate network_interface mac", i, r.slot>> :
            r \in {r \in ResolvedInterfaces(c, i) : Taken(c, i, r)}} : i \in DOMAIN c.nodes}
-----------------------------------------------------------------------------
(***************************************************************************)
(* The Helm values of Cilium (Unset: no such file): the settings that hold *)
(* in it, and the keys at its top that have no value.                      *)
(***************************************************************************)
ValidateCiliumValues(values, kata) ==
  LET needed == {"kubeProxyReplacement", "k8sServiceHost", "k8sServicePort"}
                \cup (IF kata THEN {"hostNamespaceOnly"} ELSE {})
  IN {<<"Null top-level cilium value", key>> : key \in values.null}
     \cup {<<"Cilium values miss", setting>> : setting \in needed \ values.holds}
     \cup Diag(kata /\ "bandwidthManager" \in values.holds, <<"Cilium bandwidth manager enabled with Kata">>)
ResolveCiliumValues(c) ==
  IF c.cluster = Unset \/ c.cluster.cilium = Unset THEN {}
  ELSE LET values == c.cluster.cilium.values
       IN IF values = Unset THEN {<<"Unreadable cilium values file">>}
          ELSE IF values = Malformed THEN {<<"Invalid cilium values file">>}
          ELSE ValidateCiliumValues(values, CarriesRuntime(c, "kata"))

ValidateAndNormalize(c) ==
  ValidatePVE(c) \cup ValidateStorage(c) \cup ValidateACME(c) \cup ValidateTalos(c)
  \cup ValidateTalosCluster(c) \cup ValidateProfiles(c) \cup ValidateRuntimes(c) \cup ValidateNetworks(c)
  \cup ValidateLabels(c) \cup ResolveInterfaces(c) \cup ValidateInterfaceMACs(c)

(***************************************************************************)
(* hclkit: the decoder and its validators, which compare what is written.  *)
(***************************************************************************)
Interfaces(c) == UNION {{i} \X DOMAIN c.nodes[i].interfaces : i \in DOMAIN c.nodes}
Decode(c) ==
  LET MAC(at) == c.nodes[at[1]].interfaces[at[2]].mac
      Earlier(a, b) == a[1] < b[1] \/ (a[1] = b[1] /\ a[2] < b[2])
      Repeated(at) == MAC(at) # Malformed /\ \E b \in Interfaces(c) : Earlier(b, at) /\ MAC(b) = MAC(at)
  IN {<<"Duplicate vmid", i>> : i \in
        {i \in DOMAIN c.nodes : \E k \in 1 .. i - 1 : c.nodes[k].vmid = c.nodes[i].vmid}}
     \cup {<<"Duplicate mac", at>> : at \in {at \in Interfaces(c) : Repeated(at)}}

Load(c) == Staged(Decode(c), Staged(ValidateAndNormalize(c), ResolveCiliumValues(c)))
Accepted(c) == Load(c) = {}
=============================================================================
