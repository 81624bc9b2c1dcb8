--------------------------- MODULE MaasTopology ----------------------------
(***************************************************************************)
(* The topology document (src/cli/maas_topology.py): two requests to MAAS, *)
(* the rack controllers and the machines, from which the CLI derives each  *)
(* machine's rack and role, selects the machines under test, retains the   *)
(* others it must recognise, and refuses incomplete configurations.        *)
(*                                                                         *)
(* A segment is a (fabric, VLAN) pair; a node has at most one interface on *)
(* each, a bond standing for its members.  MAAS lists interfaces that the  *)
(* document leaves out (bridges): racks, roles and retention look at what  *)
(* is listed, the checks at what is recorded.  Machines and controllers    *)
(* are known by their system_id.                                           *)
(***************************************************************************)
EXTENDS Naturals, FiniteSets, FiniteSetsExt

CONSTANTS
  Machines,      \* machines of the inventory
  Controllers,   \* rack controllers of the inventory; a rack bears the name of one
  NoRack,        \* the empty rack name
  Segments,      \* (fabric, VLAN) pairs, numbered in the order interfaces list them
  FabricOf,      \* fabric of a segment
  Wirings,       \* how a machine may be configured: see Wiring
  Primaries,     \* which controllers may lead the VLANs of the segments
  CtlLinks       \* the links of each rack controller, a member of [Segments -> Links]

\* What MAAS lists on a segment: nothing, an interface of a type that the
\* document does not record, or one that it does, with link_up and no address,
\* an automatic address (assigned at deployment only), or a static one; whether
\* an interface has no VLAN; whether a bond has no mode; the boot interface.
Links == {"none", "bridge", "link_up", "auto", "static"}
Wiring == [boot : Segments, on : [Segments -> Links], loose : BOOLEAN, modeless : BOOLEAN]

ASSUME SegmentsAssumption ==
  Segments \subseteq Nat /\ IsFiniteSet(Segments) /\ DOMAIN FabricOf = Segments
ASSUME NodesAssumption ==
  Machines \cap Controllers = {} /\ NoRack \notin Machines \cup Controllers
ASSUME WiringsAssumption ==
  /\ Wirings \subseteq Wiring
  /\ Primaries \subseteq [Segments -> Controllers \cup {NoRack}]
  /\ CtlLinks \in [Controllers -> [Segments -> Links]]

VARIABLES
  wiring,      \* configuration of each machine
  ready,       \* machines in status Ready
  primary,     \* primary rack controller of each segment's VLAN, or none
  known,       \* rack controllers that had registered at the first request
  stage,       \* where cmd_run is
  topology     \* the document: machines in scope, machines recorded, racks, roles

inventory == <<wiring, ready, primary>>
fetchVars == <<inventory, known, stage, topology>>

Roles == {"rack-controller", "data", "bmc-oam", "unclassified"}
Requests ==
  [mode : {"all"}, args : {{}}]
    \cup [mode : {"rack"}, args : SUBSET Controllers \ {{}}]
    \cup [mode : {"nodes"}, args : SUBSET (Machines \cup Controllers) \ {{}}]

-----------------------------------------------------------------------------
\* The derivations, from what the two requests returned.
Nodes == Machines \cup Controllers
Link(n, s) == IF n \in Controllers THEN CtlLinks[n][s] ELSE wiring[n].on[s]

\* The segments of a node's interface_set, and those of its record.
Listed(n) == {s \in Segments : Link(n, s) # "none"}
On(n) == {s \in Segments : Link(n, s) \notin {"none", "bridge"}}
ManagementFabrics == {FabricOf[s] : s \in UNION {Listed(c) : c \in known}}

\* Faulty form, for mutation: a controller the first request did not return.
MachineRackUnknown(m) ==
  LET led == {s \in Listed(m) : primary[s] # NoRack}
  IN IF led = {} THEN NoRack ELSE primary[Min(led)]

\* The boot interface comes first, then the others in order, then the only
\* rack controller there is.
MachineRack(m) ==
  LET led == {s \in Listed(m) : primary[s] \in known}
  IN IF wiring[m].boot \in led THEN primary[wiring[m].boot]
     ELSE IF led # {} THEN primary[Min(led)]
     ELSE IF Cardinality(known) = 1 THEN CHOOSE c \in known : TRUE
     ELSE NoRack

Role(m) ==
  LET fabrics == {FabricOf[s] : s \in Listed(m)}
  IN CASE ~ fabrics \subseteq ManagementFabrics -> "data"
       [] fabrics # {} /\ fabrics \subseteq ManagementFabrics -> "bmc-oam"
       [] OTHER -> "unclassified"

Unselectable(r) ==
  \/ r.mode = "rack" /\ ~ r.args \subseteq known
  \/ r.mode = "nodes" /\ ~ r.args \subseteq ready
Selection(r) ==
  CASE r.mode = "all" -> ready
    [] r.mode = "rack" -> {m \in ready : MachineRack(m) \in r.args}
    [] r.mode = "nodes" -> r.args

\* Faulty forms: only one of the two reasons to retain a machine, or data
\* machines only when their rack is not under test.
RetainedData(selected) == {m \in Machines \ selected : Role(m) = "data"}
RetainedOfOtherRacks(selected) ==
  {m \in Machines \ selected :
     \/ Role(m) = "data" /\ MachineRack(m) \notin {MachineRack(n) : n \in selected}
     \/ Listed(m) \cap UNION {Listed(n) : n \in selected} # {}}

Retained(selected) ==
  {m \in Machines \ selected :
     Role(m) = "data" \/ Listed(m) \cap UNION {Listed(n) : n \in selected} # {}}

Topology(selected) ==
  [inScope |-> selected,
   machines |-> known \cup selected \cup Retained(selected),
   rack |-> [n \in Nodes |-> IF n \in Controllers THEN n ELSE MachineRack(n)],
   role |-> [n \in Nodes |-> IF n \in Controllers THEN "rack-controller" ELSE Role(n)]]

\* An addressed link is any other than link_up; it gives the interface a
\* subnet, and an ip only if it is static (an automatic address comes with
\* the deployment).
Subnetted(n) == {s \in On(n) : Link(n, s) \in {"auto", "static"}}
Address(n) == {s \in On(n) : Link(n, s) = "static"}

\* Machines in scope that preflight names, for whatever reason.
\* Faulty form: every machine of the document is validated.
FailuresOfAll(t) ==
  {m \in t.machines \ Controllers :
     \/ t.role[m] = "unclassified"
     \/ t.rack[m] = NoRack
     \/ wiring[m].loose
     \/ Subnetted(m) # On(m) \/ On(m) = {}
     \/ wiring[m].modeless}
Failures(t) ==
  {m \in t.inScope :
     \/ t.role[m] = "unclassified"
     \/ t.rack[m] = NoRack
     \/ wiring[m].loose
     \/ On(m) = {}
     \/ Subnetted(m) # On(m)
     \/ wiring[m].modeless}

-----------------------------------------------------------------------------
NothingRead == [inScope |-> {}, machines |-> {}, rack |-> <<>>, role |-> <<>>]

FetchInit ==
  /\ wiring \in [Machines -> Wirings]
  /\ ready \in SUBSET Machines
  /\ primary \in Primaries
  /\ known = {}
  /\ stage = "start"
  /\ topology = NothingRead

\* A request fails, or MAAS knows no rack controller: MaasError, exit code 1.
MaasFails ==
  /\ stage \in {"start", "controllers"}
  /\ stage' = "maas_error"
  /\ UNCHANGED <<inventory, known, topology>>

\* Controllers register while the CLI reads: a VLAN of the second answer may
\* name one that the first did not have.
GetRackControllers ==
  /\ stage = "start"
  /\ known' \in SUBSET Controllers
  /\ stage' = IF known' = {} THEN "maas_error" ELSE "controllers"
  /\ UNCHANGED <<inventory, topology>>

\* The second request, and build_topology.  A name that does not select
\* anything is a MaasError as well.
GetMachines(request) ==
  /\ stage = "controllers"
  /\ IF Unselectable(request)
       THEN stage' = "unselectable" /\ UNCHANGED topology
       ELSE stage' = "preflight" /\ topology' = Topology(Selection(request))
  /\ UNCHANGED <<inventory, known>>

Preflight ==
  /\ stage = "preflight"
  /\ stage' = IF Failures(topology) # {} THEN "refused" ELSE "plan"
  /\ UNCHANGED <<inventory, known, topology>>

FetchNext(requests) ==
  MaasFails \/ GetRackControllers \/ (\E r \in requests : GetMachines(r)) \/ Preflight
=============================================================================
