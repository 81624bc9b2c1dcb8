--------------------------- MODULE CheckUniverse ---------------------------
(***************************************************************************)
(* Three readings of one topology document: the checks the CLI announces   *)
(* before it deploys (main.plan_checks), the peers a machine's VLAN        *)
(* validator probes (vlan_neighbor_validator.derive_peer_sets), and the    *)
(* edges the report judges (report_generator._expected_l2_edges).  They    *)
(* are separate code on two hosts; nothing but the topology relates them.  *)
(*                                                                         *)
(* The report ends with an advice: add a node that was left out, to test   *)
(* the paths skipped for its sake.  The operator may follow it once, in a  *)
(* second run on the same inventory.                                       *)
(***************************************************************************)
EXTENDS MaasTopology

VARIABLES
  wouldRun, wouldSkip,   \* the plan: checks with their two ends
  earlier                \* the run whose advice this one follows, if it follows one

universeVars == <<fetchVars, wouldRun, wouldSkip, earlier>>

NoEarlier == [topology |-> NothingRead, known |-> {}, added |-> NoRack]
Following == earlier.added # NoRack

-----------------------------------------------------------------------------
\* The validator on machine a: derive_peer_sets, per segment.
\* Faulty form: the restriction is looked for on one side only.
AdjacencyAllowedOneWay(t, a, b) ==
  t.role[a] = "bmc-oam" => t.role[b] = "rack-controller" /\ t.rack[b] = t.rack[a]
AdjacencyAllowed(t, a, b) ==
  \A e \in {<<a, b>>, <<b, a>>} : t.role[e[1]] = "bmc-oam" =>
    t.role[e[2]] = "rack-controller" /\ t.rack[e[2]] = t.rack[e[1]]

Others(t, a, s) == {b \in t.machines \ {a} : s \in On(b)}
Forbidden(t, a, s) == {b \in Others(t, a, s) : ~AdjacencyAllowed(t, a, b)}
Expected(t, a, s) ==
  {b \in Others(t, a, s) \ Forbidden(t, a, s) : b \in t.inScope /\ s \in Address(b)}
OutOfScope(t, a, s) == Others(t, a, s) \ (Forbidden(t, a, s) \cup Expected(t, a, s))

Probes(t, a, b) == a \in t.inScope /\ \E s \in On(a) : b \in Expected(t, a, s)

\* The report's edges between machines that share a segment; those with an
\* end out of scope are skipped, the others judged.
\* Faulty form: the restriction of management machines is forgotten.
ReportAllowsAll(t, a, b) == TRUE
ReportAllows(t, a, b) ==
  /\ t.role[a] = "bmc-oam" => t.role[b] = "rack-controller" /\ t.rack[a] = t.rack[b]
  /\ t.role[b] = "bmc-oam" => t.role[a] = "rack-controller" /\ t.rack[a] = t.rack[b]

ExpectedEdges(t) ==
  {{p[1], p[2]} : p \in {q \in t.inScope \X t.machines :
     /\ q[1] # q[2]
     /\ On(q[1]) \cap On(q[2]) # {}
     /\ ReportAllows(t, q[1], q[2])}}
Judged(t) == {e \in ExpectedEdges(t) : e \subseteq t.inScope}
Skipped(t) == ExpectedEdges(t) \ Judged(t)

-----------------------------------------------------------------------------
\* The plan: plan_checks.  Its lines about bonds are left out.
\* Faulty form: only machines in scope are looked up by segment.
PlanPeersInScope(t, a) == {b \in t.inScope \ {a} : On(a) \cap On(b) # {}}
PlanPeers(t, a) ==
  IF t.role[a] = "bmc-oam"
    THEN {c \in t.machines : t.role[c] = "rack-controller" /\ t.rack[c] = t.rack[a]}
    ELSE {b \in t.machines \ {a} : On(a) \cap On(b) # {}}

VlanLines(t) == UNION {{<<"vlan", a, b>> : b \in PlanPeers(t, a)} : a \in t.inScope}

\* Who represents the racks of the machines under test.
Rep == INSTANCE Representatives WITH
  Nodes <- {m \in topology.inScope : topology.role[m] = "data"},
  RackOf <- topology.rack,
  NoNode <- NoRack

AllDataRacks(t) == {t.rack[m] : m \in {n \in t.machines : t.role[n] = "data"}} \ {NoRack}
Untargeted(t) == AllDataRacks(t) \ Rep!DataRacks

PlanInit == FetchInit /\ wouldRun = {} /\ wouldSkip = {} /\ earlier = NoEarlier

\* What cmd_run may be asked: anything, or what the report advised.
Advised == [mode |-> "nodes", args |-> earlier.topology.inScope \cup {earlier.added}]
FetchStep ==
  /\ FetchNext(IF Following THEN {Advised} ELSE Requests)
  /\ UNCHANGED <<wouldRun, wouldSkip, earlier>>

PlanChecks ==
  /\ stage = "plan"
  /\ stage' = "planned"
  /\ wouldRun' = {l \in VlanLines(topology) : l[3] \in topology.inScope}
       \cup {<<"cross-rack", p[1], p[2]>> : p \in Rep!Paths}
  /\ wouldSkip' = {l \in VlanLines(topology) : l[3] \notin topology.inScope}
       \cup {<<"cross-rack", r, q>> : r \in Rep!DataRacks, q \in Untargeted(topology)}
       \cup IF Cardinality(Rep!DataRacks) = 1 /\ Cardinality(AllDataRacks(topology)) <= 1
              THEN {<<"cross-rack", r, NoRack>> : r \in Rep!DataRacks} ELSE {}
  /\ UNCHANGED <<inventory, known, topology, earlier>>

\* "N checks skipped - add M to test these paths": the operator repeats the
\* selection with M.  M is any node that ends a skipped edge, be it a machine
\* that is not Ready or a rack controller.  The controllers are read anew.
Follow(m) ==
  /\ stage = "planned" /\ ~Following
  /\ m \in (UNION Skipped(topology)) \ topology.inScope
  /\ earlier' = [topology |-> topology, known |-> known, added |-> m]
  /\ stage' = "start" /\ topology' = NothingRead
  /\ wouldRun' = {} /\ wouldSkip' = {}
  /\ UNCHANGED <<inventory, known>>

PlanNext == FetchStep \/ PlanChecks \/ (\E m \in Nodes : Follow(m))
Spec == PlanInit /\ [][PlanNext]_universeVars

-----------------------------------------------------------------------------
Planned == stage = "planned"
Lines == {"vlan", "cross-rack"} \X Nodes \X (Nodes \cup {NoRack})

TypeOK ==
  /\ stage \in {"start", "controllers", "preflight", "maas_error", "unselectable",
                "refused", "plan", "planned"}
  /\ known \subseteq Controllers
  /\ topology # NothingRead =>
       /\ topology.inScope \subseteq ready
       /\ topology.inScope \subseteq topology.machines
       /\ \A n \in Nodes : topology.role[n] \in Roles /\ topology.rack[n] \in Controllers \cup {NoRack}
       /\ \A m \in topology.inScope : topology.rack[m] \in known \cup {NoRack}
  /\ wouldRun \subseteq Lines /\ wouldSkip \subseteq Lines

\* The three readings agree on every VLAN check.  What is probed was announced
\* and is judged; a judged edge was announced from both ends and is probed
\* from one, unless no end has an address on a shared segment; a skipped edge
\* was announced as skipped.  What is announced and not probed is a management
\* machine's edge, or an end without an address (main.py:130,
\* vlan_neighbor_validator.py:57, report_generator.py:40).
ViewsAgree ==
  Planned =>
    LET t == topology
    IN /\ \A a \in t.inScope, b \in t.inScope :
            /\ Probes(t, a, b) => <<"vlan", a, b>> \in wouldRun /\ {a, b} \in Judged(t)
            /\ {a, b} \in Judged(t) /\ a # b =>
                 /\ <<"vlan", a, b>> \in wouldRun
                 /\ Probes(t, a, b) \/ On(a) \cap Address(b) = {}
            /\ <<"vlan", a, b>> \in wouldRun /\ ~Probes(t, a, b) =>
                 t.role[b] = "bmc-oam" \/ On(a) \cap Address(b) = {}
       /\ \A e \in Skipped(t), a \in t.inScope : a \in e =>
            \A p \in e \ {a} : <<"vlan", a, p>> \in wouldSkip

\* Whatever machine or rack controller of the inventory has a recorded kind of
\* interface on a segment of a machine under test, its validator knows it: what
\* it hears from it is an expected peer, a recognised one or a forbidden one,
\* never an unexpected neighbour (maas_topology.py:268-293).  A bridge is not
\* recorded, so a node that is on the segment with nothing else is not known.
NeighboursKnown ==
  Planned =>
    \A a \in topology.inScope : \A s \in On(a) :
      {n \in (Machines \cup known) \ {a} : s \in On(n)} \subseteq
        Expected(topology, a, s) \cup OutOfScope(topology, a, s) \cup Forbidden(topology, a, s)

\* For every rack under test and every other rack with data machines in MAAS,
\* whether selected or not, the plan says once that the path is checked or
\* that it is skipped; no rack under test is left without a line
\* (main.py:167-198).
CrossRackPlanIsTotal ==
  Planned =>
    LET tested == {topology.rack[m] : m \in {n \in topology.inScope : topology.role[n] = "data"}}
        racks == {MachineRack(m) : m \in {n \in Machines : Role(n) = "data"}} \ {NoRack}
    IN \A r \in tested :
         /\ \A q \in racks \ {r} :
              <<"cross-rack", r, q>> \in wouldRun <=> <<"cross-rack", r, q>> \notin wouldSkip
         /\ \E q \in racks \cup {NoRack} : <<"cross-rack", r, q>> \in wouldRun \cup wouldSkip

\* The advice "add M to test these paths" (report_generator.py:146-154) comes
\* to what it says, as long as MAAS names the same rack controllers: a second
\* run that gets as far as its plan judges every edge skipped for M's sake,
\* judges again all that the first one judged and knows every machine it knew.
\* If preflight refuses that run it is for M alone, and if the selection is
\* refused it is because M is not a Ready machine.
AdviceIsRight ==
  Following /\ known = earlier.known =>
    LET first == earlier.topology
        m == earlier.added
    IN /\ Planned =>
            /\ Judged(first) \subseteq Judged(topology)
            /\ first.machines \subseteq topology.machines
            /\ \A e \in Skipped(first) : m \in e => e \in Judged(topology)
       /\ stage = "refused" => Failures(topology) = {m}
       /\ stage = "unselectable" => m \notin ready
=============================================================================
