------------------------------ MODULE Install ------------------------------
(***************************************************************************)
(* How the VMs become nodes: talos vms creates each as the config it has   *)
(* loaded says, booty serves the tree emitted from a config, and a machine *)
(* with an empty disk boots from the network and installs what booty       *)
(* answers to its MAC address.  The config file is edited meanwhile, and   *)
(* everything is of the version it came from.  A VM is known by its        *)
(* position among the nodes, the same in every version.                    *)
(***************************************************************************)
EXTENDS PveVMs

CONSTANTS
  Versions,   \* what the config file may hold, one after the other
  Loadable,   \* those without an error
  Emittable,  \* those of them that talos emit can render
  MACs,       \* MACs[d][v]: the address VM v boots from, when created as d says
  Answers,    \* Answers[e][m]: the configs booty has for address m, when it serves e
  NodeConfigs \* NodeConfigs[e][v]: the config of node v in e

ASSUME InstallAssumption ==
  /\ Emittable \subseteq Loadable /\ Loadable \subseteq Versions /\ 0 \notin Versions
  /\ DOMAIN Answers = Emittable
  /\ \A e \in Emittable, d \in Loadable, v \in VM : MACs[d][v] \in DOMAIN Answers[e]

VARIABLES
  file,     \* the version in the file
  loaded,   \* the one the latest run of talos vms has loaded, 0 before any
  serving,  \* the one booty serves, 0 before it runs
  from,     \* from[v]: the one VM v was created from, 0: no such VM, or not ours
  disk      \* disk[v]: Blank, or the config it has installed and the version that was of

installVars == <<file, loaded, serving, from, disk>>

Blank == [of |-> 0]

InstallTypeOK ==
  /\ file \in Versions /\ loaded \in Loadable \cup {0} /\ serving \in Emittable \cup {0}
  /\ phase # "idle" => loaded # 0
  /\ from \in [VM -> Loadable \cup {0}]
  /\ DOMAIN disk = VM
  /\ \A v \in VM : vm[v] = "absent" => from[v] = 0
  /\ \A v \in VM : disk[v] # Blank =>
       /\ from[v] # 0 /\ disk[v].of \in Emittable
       /\ disk[v].config \in Answers[disk[v].of][MACs[from[v]][v]]

\* VMs that are there before the first run are somebody else's.
InstallInit ==
  /\ file \in Versions /\ loaded = 0 /\ serving = 0
  /\ from = [v \in VM |-> 0] /\ disk = [v \in VM |-> Blank]
-----------------------------------------------------------------------------
(***************************************************************************)
(* What a step of talos vms, of Proxmox or of an admin means for the       *)
(* machines: a run starts with a config that loads, a creation takes the   *)
(* VM's settings from the loaded one, a VM that goes takes its disk along. *)
(***************************************************************************)
Starting == phase = "idle" /\ phase' # "idle"
Machines ==
  /\ Starting => file \in Loadable
  /\ loaded' = IF Starting THEN file ELSE loaded
  /\ from' = [v \in VM |-> IF vm'[v] = "absent" THEN 0 ELSE IF vm[v] = "absent" THEN loaded ELSE from[v]]
  /\ disk' = [v \in VM |-> IF vm'[v] = "absent" THEN Blank ELSE disk[v]]
  /\ UNCHANGED <<file, serving>>

\* talos emit, copied to the booty host, and booty started anew.
Publish ==
  /\ file \in Emittable /\ serving # file
  /\ serving' = file
  /\ UNCHANGED <<vars, file, loaded, from, disk>>

\* A machine whose disk is empty boots from the network and is answered.
InstallMachine(v) ==
  /\ vm[v] = "running" /\ from[v] # 0 /\ disk[v] = Blank /\ serving # 0
  /\ \E config \in Answers[serving][MACs[from[v]][v]] :
       disk' = [disk EXCEPT ![v] = [of |-> serving, config |-> config]]
  /\ UNCHANGED <<vars, file, loaded, serving, from>>

EditFile ==
  /\ file' \in Versions \ {file}
  /\ UNCHANGED <<vars, loaded, serving, from, disk>>
\* "Re-imaging is wipe the disk and reboot".
Wipe(v) ==
  /\ vm[v] = "running" /\ disk[v] # Blank
  /\ disk' = [disk EXCEPT ![v] = Blank]
  /\ UNCHANGED <<vars, file, loaded, serving, from>>

InstallNext ==
  \/ Next /\ Machines
  \/ Publish \/ EditFile
  \/ \E v \in VM : InstallMachine(v) \/ Wipe(v)
InstallSpec == Init /\ InstallInit /\ [][InstallNext]_<<vars, installVars>>
-----------------------------------------------------------------------------
\* The node v of both versions boots from the same MAC address.
Kept(v, d, e) == MACs[d][v] = MACs[e][v]

(***************************************************************************)
(* "The same MAC the emitted booty catalog selects on, so the machine gets *)
(* its own machineconfig" (talos vms): whatever is edited, loaded, served, *)
(* removed or wiped in between, what a machine has installed is the config *)
(* of its own node, in the version booty served, unless an edit has given  *)
(* the node another MAC address since the VM was created: an existing VM   *)
(* is left as it is.                                                       *)
(***************************************************************************)
OwnIdentity ==
  \A v \in VM :
    disk[v] # Blank /\ Kept(v, from[v], disk[v].of) => disk[v].config = NodeConfigs[disk[v].of][v]
=============================================================================
