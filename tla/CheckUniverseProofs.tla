------------------------ MODULE CheckUniverseProofs ------------------------
(***************************************************************************)
(* Theorems about CheckUniverse, for any inventory, any configuration of   *)
(* its machines and any request.                                           *)
(*                                                                         *)
(* The invariant is that the topology stays the one derived from its own   *)
(* selection, and that the plan is the one plan_checks makes of it; the    *)
(* properties then compare three readings of the same derivation.  For a   *)
(* run that follows an advice it adds that the earlier document is what    *)
(* the same controllers would still give, and had no failure.              *)
(***************************************************************************)
EXTENDS CheckUniverse, WellFoundedInduction, FiniteSetTheorems, TLAPS

\* The two lists of plan_checks.
RunLines ==
  {l \in VlanLines(topology) : l[3] \in topology.inScope}
    \cup {<<"cross-rack", p[1], p[2]>> : p \in Rep!Paths}
SkipLines ==
  {l \in VlanLines(topology) : l[3] \notin topology.inScope}
    \cup {<<"cross-rack", r, q>> : r \in Rep!DataRacks, q \in Untargeted(topology)}
    \cup IF Cardinality(Rep!DataRacks) = 1 /\ Cardinality(AllDataRacks(topology)) <= 1
           THEN {<<"cross-rack", r, NoRack>> : r \in Rep!DataRacks} ELSE {}

InventoryOK == wiring \in [Machines -> Wirings] /\ ready \subseteq Machines

\* A document is the one its selection of Ready machines gives.
DerivedFrom(t) == t.inScope \subseteq ready /\ t = Topology(t.inScope)
Derived == DerivedFrom(topology)

\* The run whose advice is followed: the same controllers would give the same
\* document again, and preflight found nothing in it.
EarlierInv ==
  Following =>
    /\ earlier.added \notin earlier.topology.inScope
    /\ stage = "start" => known = earlier.known
    /\ known = earlier.known => DerivedFrom(earlier.topology) /\ Failures(earlier.topology) = {}
    /\ stage \in {"preflight", "refused", "plan", "planned"} => topology.inScope = Advised.args
    /\ stage = "unselectable" => ~(Advised.args \subseteq ready)

PlanInv ==
  /\ InventoryOK /\ known \subseteq Controllers
  /\ stage \in {"start", "controllers", "preflight", "maas_error", "unselectable",
                "refused", "plan", "planned"}
  /\ stage \in {"start", "controllers", "maas_error", "unselectable"} => topology = NothingRead
  /\ stage \in {"preflight", "refused", "plan", "planned"} => Derived
  /\ stage \in {"plan", "planned"} => Failures(topology) = {}
  /\ stage = "refused" => Failures(topology) # {}
  /\ stage # "planned" => wouldRun = {} /\ wouldSkip = {}
  /\ stage = "planned" => wouldRun = RunLines /\ wouldSkip = SkipLines
  /\ EarlierInv

-----------------------------------------------------------------------------
\* A nonempty set of natural numbers has a least element, which Min returns.
LEMMA Least ==
  ASSUME NEW S \in SUBSET Nat, S # {}
  PROVE  Min(S) \in S /\ \A y \in S : Min(S) <= y
<1> DEFINE R == OpToRel(<, Nat)
<1>1. PICK x \in S : \A y \in S : ~ (<<y, x>> \in R)
  BY NatLessThanWellFounded, WFMin
<1>2. ASSUME NEW y \in S, y < x PROVE FALSE
  <2>1. <<y, x>> \in Nat \X Nat /\ <<y, x>>[1] < <<y, x>>[2]
    BY <1>2
  <2>2. <<y, x>> \in R
    BY <2>1, Zenon DEF OpToRel
  <2>. QED
    BY <1>1, <2>2
<1>3. \A y \in S : x <= y
  BY <1>2
<1>. QED
  BY <1>3 DEF Min

\* A machine's rack is a rack controller the CLI knows, or none.
LEMMA RackIsKnown ==
  ASSUME InventoryOK, NEW m \in Machines
  PROVE  MachineRack(m) \in known \cup {NoRack}
<1> DEFINE led == {s \in Listed(m) : primary[s] \in known}
<1>1. led \in SUBSET Nat
  BY SegmentsAssumption, NodesAssumption DEF Listed
<1>2. led # {} => Min(led) \in led
  BY <1>1, Least
<1>3. Cardinality(known) = 1 => (CHOOSE c \in known : TRUE) \in known
  <2>1. known = {} => Cardinality(known) = 0
    BY FS_EmptySet
  <2>. QED
    BY <2>1
<1>. QED
  BY <1>2, <1>3 DEF MachineRack

\* What is recorded of a node was listed.
LEMMA RecordedIsListed == \A n : On(n) \subseteq Listed(n)
  BY DEF On, Listed

\* A machine is never taken for a rack controller.
LEMMA RoleOfMachine == \A m : Role(m) \in {"data", "bmc-oam", "unclassified"}
  BY DEF Role

\* The parts of a document derived from a selection.
LEMMA TopologyParts ==
  ASSUME NEW S \in SUBSET Machines, known \subseteq Controllers
  PROVE  /\ Topology(S).inScope = S
         /\ Topology(S).machines = known \cup S \cup Retained(S)
         /\ Topology(S).machines \subseteq Nodes
         /\ \A m \in Machines : /\ Topology(S).role[m] = Role(m)
                                /\ Topology(S).rack[m] = MachineRack(m)
                                /\ m \notin Controllers /\ m \in Nodes
         /\ \A c \in Controllers : /\ Topology(S).role[c] = "rack-controller"
                                   /\ Topology(S).rack[c] = c
                                   /\ c \in Nodes
  BY NodesAssumption DEF Topology, Nodes, Retained

\* A Ready machine that neighbours one under test, or carries data, is recorded.
LEMMA Recorded ==
  ASSUME NEW S \in SUBSET Machines, known \subseteq Controllers, NEW n \in Machines
  PROVE  /\ Role(n) = "data" => n \in Topology(S).machines
         /\ (\E a \in S : On(n) \cap On(a) # {}) => n \in Topology(S).machines
  BY TopologyParts, RecordedIsListed DEF Retained

-----------------------------------------------------------------------------
\* What the inventory and the topology give stays while they do.
LEMMA InventoryKept ==
  ASSUME UNCHANGED <<inventory, known, topology>>
  PROVE  /\ InventoryOK' <=> InventoryOK
         /\ Derived' <=> Derived
         /\ (Failures(topology) = {})' <=> Failures(topology) = {}
         /\ RunLines' = RunLines /\ SkipLines' = SkipLines
<1>1. UNCHANGED <<wiring, ready, primary, known, topology>>
  BY DEF inventory
<1>2. (InventoryOK' <=> InventoryOK) /\ (Derived' <=> Derived)
  BY <1>1 DEF InventoryOK, Derived, DerivedFrom, Topology, Retained, Role, MachineRack,
              ManagementFabrics, Listed, Link
<1>3. (Failures(topology) = {})' <=> Failures(topology) = {}
  BY <1>1 DEF Failures, On, Subnetted, Link
<1>4. RunLines' = RunLines /\ SkipLines' = SkipLines
  BY <1>1 DEF RunLines, SkipLines, VlanLines, PlanPeers, On, Link, Rep!Paths, Rep!DataRacks,
              Untargeted, AllDataRacks
<1>. QED
  BY <1>2, <1>3, <1>4

\* So does what the same controllers would give again.
LEMMA EarlierDocumentKept ==
  ASSUME UNCHANGED <<inventory, known, earlier>>
  PROVE  /\ DerivedFrom(earlier.topology)' <=> DerivedFrom(earlier.topology)
         /\ Failures(earlier.topology)' = Failures(earlier.topology)
         /\ Following' = Following /\ Advised' = Advised
<1>1. UNCHANGED <<wiring, ready, primary, known, earlier>>
  BY DEF inventory
<1>2. Following' = Following /\ Advised' = Advised
  BY <1>1 DEF Following, Advised
<1>. QED
  BY <1>1, <1>2 DEF DerivedFrom, Topology, Retained, Role, MachineRack, ManagementFabrics, Listed, On,
              Link, Failures, Subnetted

\* A document that is followed is the one the controllers just gave.
LEMMA FollowedDocument ==
  ASSUME UNCHANGED <<inventory, known>>, earlier'.topology = topology
  PROVE  /\ DerivedFrom(earlier.topology)' <=> Derived
         /\ Failures(earlier.topology)' = Failures(topology)
<1>1. UNCHANGED <<wiring, ready, primary, known>>
  BY DEF inventory
<1>. QED
  BY <1>1 DEF Derived, DerivedFrom, Topology, Retained, Role, MachineRack, ManagementFabrics,
              Listed, On, Link, Failures, Subnetted

\* The invariant holds initially.
LEMMA InitPlan == PlanInit => PlanInv
  BY DEF PlanInit, FetchInit, PlanInv, InventoryOK, NothingRead, EarlierInv, Following, NoEarlier

\* Only Ready machines are selected.
LEMMA SelectedAreReady ==
  ASSUME NEW r, r.mode \in {"all", "rack", "nodes"}, ~Unselectable(r)
  PROVE  Selection(r) \subseteq ready
<1>2. r.mode = "nodes" => r.args \subseteq ready
  BY DEF Unselectable
<1>. QED
  BY <1>2 DEF Selection

\* Every step keeps what is said of the run whose advice is followed.
LEMMA NextEarlier == PlanInv /\ [PlanNext]_universeVars => EarlierInv'
<1> SUFFICES ASSUME PlanInv, [PlanNext]_universeVars, Following' PROVE EarlierInv'
  BY DEF EarlierInv
<1>1. CASE UNCHANGED <<inventory, known, earlier>> /\ stage' # "start"
           /\ (stage' \in {"preflight", "refused", "plan", "planned"} =>
                  topology'.inScope = Advised.args)
           /\ (stage' = "unselectable" => ~(Advised.args \subseteq ready))
  <2>1. Following /\ UNCHANGED <<ready, known, earlier>> /\ Advised' = Advised
    BY <1>1, EarlierDocumentKept DEF inventory
  <2>2. /\ known = earlier.known =>
             DerivedFrom(earlier.topology)' /\ (Failures(earlier.topology) = {})'
        /\ earlier.added \notin earlier.topology.inScope
    BY <1>1, <2>1, EarlierDocumentKept DEF PlanInv, EarlierInv
  <2>. QED
    BY <1>1, <2>1, <2>2 DEF EarlierInv
<1>2. CASE UNCHANGED <<earlier, topology, stage>> /\ UNCHANGED <<inventory, known>>
  <2>1. UNCHANGED <<ready, earlier, topology, stage, known>>
    BY <1>2 DEF inventory
  <2>. QED
    BY <1>2, <2>1, EarlierDocumentKept DEF PlanInv, EarlierInv
<1>3. CASE GetRackControllers /\ UNCHANGED earlier
  <2>1. /\ stage = "start" /\ stage' \in {"maas_error", "controllers"}
        /\ UNCHANGED <<inventory, topology, earlier>>
    BY <1>3 DEF GetRackControllers
  <2>2. /\ Following /\ known = earlier.known
        /\ earlier.added \notin earlier.topology.inScope
    BY <1>3, <2>1 DEF PlanInv, EarlierInv, Following
  <2>3. CASE known' = known
    BY <1>1, <2>1, <2>3
  <2>4. CASE known' # known
    BY <2>1, <2>2, <2>4 DEF EarlierInv
  <2>. QED
    BY <2>3, <2>4
<1>4. CASE \E r \in {Advised} : GetMachines(r) /\ UNCHANGED earlier
  <2>1. GetMachines(Advised) /\ UNCHANGED <<inventory, known, earlier>>
    BY <1>4 DEF GetMachines
  <2>2. /\ Unselectable(Advised) <=> ~(Advised.args \subseteq ready)
        /\ Selection(Advised) = Advised.args
    BY DEF Advised, Unselectable, Selection
  <2>3. \/ Unselectable(Advised) /\ stage' = "unselectable"
        \/ stage' = "preflight" /\ topology'.inScope = Selection(Advised)
    BY <2>1 DEF GetMachines, Topology
  <2>. QED
    BY <1>1, <2>1, <2>2, <2>3
<1>5. CASE MaasFails /\ UNCHANGED earlier
  BY <1>1, <1>5 DEF MaasFails
<1>6. CASE (Preflight \/ PlanChecks) /\ UNCHANGED earlier
  <2>1. /\ stage \in {"preflight", "plan"} /\ stage' \in {"refused", "plan", "planned"}
        /\ UNCHANGED <<inventory, known, topology, earlier>>
    BY <1>6 DEF Preflight, PlanChecks
  <2>2. topology.inScope = Advised.args
    BY <2>1, EarlierDocumentKept DEF PlanInv, EarlierInv
  <2>. QED
    BY <1>1, <2>1, <2>2
<1>7. CASE \E m \in Nodes : Follow(m)
  <2>1. /\ stage = "planned" /\ stage' = "start"
        /\ earlier'.topology = topology /\ earlier'.known = known
        /\ earlier'.added \notin topology.inScope
        /\ UNCHANGED <<inventory, known>>
    <3>1. PICK m \in Nodes : Follow(m)
      BY <1>7
    <3>2. /\ earlier' = [topology |-> topology, known |-> known, added |-> m]
          /\ m \notin topology.inScope
      BY <3>1 DEF Follow
    <3>. QED
      BY <3>1, <3>2 DEF Follow
  <2>2. Derived /\ Failures(topology) = {}
    BY <2>1 DEF PlanInv
  <2>. QED
    BY <2>1, <2>2, FollowedDocument DEF EarlierInv
<1>8. CASE FetchStep
  <2>1. UNCHANGED earlier /\ FetchNext(IF Following THEN {Advised} ELSE Requests)
    BY <1>8 DEF FetchStep
  <2>2. Following
    BY <2>1 DEF Following
  <2>. QED
    BY <1>3, <1>4, <1>5, <1>6, <2>1, <2>2 DEF FetchNext
<1>9. CASE PlanChecks
  BY <1>6, <1>9 DEF PlanChecks
<1>. QED
  BY <1>2, <1>7, <1>8, <1>9 DEF PlanNext, universeVars, fetchVars

\* Every step keeps the invariant.
LEMMA NextPlan == PlanInv /\ [PlanNext]_universeVars => PlanInv'
<1> SUFFICES ASSUME PlanInv, [PlanNext]_universeVars PROVE PlanInv'
  OBVIOUS
<1>0. EarlierInv'
  BY NextEarlier
<1>1. CASE MaasFails /\ UNCHANGED <<wouldRun, wouldSkip>>
  <2>1. /\ stage \in {"start", "controllers"} /\ stage' = "maas_error"
        /\ UNCHANGED <<inventory, known, topology, wouldRun, wouldSkip>>
    BY <1>1 DEF MaasFails
  <2>. QED
    BY <1>0, <2>1, InventoryKept DEF PlanInv
<1>2. CASE GetRackControllers /\ UNCHANGED <<wouldRun, wouldSkip>>
  <2>1. /\ stage = "start" /\ stage' \in {"maas_error", "controllers"}
        /\ known' \subseteq Controllers
        /\ UNCHANGED <<inventory, topology, wouldRun, wouldSkip>>
    BY <1>2 DEF GetRackControllers
  <2>2. InventoryOK'
    BY <2>1 DEF PlanInv, InventoryOK, inventory
  <2>. QED
    BY <1>0, <2>1, <2>2 DEF PlanInv
<1>3. CASE /\ \E r \in IF Following THEN {Advised} ELSE Requests : GetMachines(r)
           /\ UNCHANGED <<wouldRun, wouldSkip>>
  <2>1. PICK r : GetMachines(r) /\ r.mode \in {"all", "rack", "nodes"}
    BY <1>3 DEF Requests, Advised
  <2>2. stage = "controllers" /\ UNCHANGED <<inventory, known>>
    BY <2>1 DEF GetMachines
  <2>3. UNCHANGED <<wiring, ready, primary>> /\ InventoryOK'
    BY <2>2 DEF inventory, PlanInv, InventoryOK
  <2>4. CASE Unselectable(r)
    <3>1. stage' = "unselectable" /\ UNCHANGED topology
      BY <2>1, <2>4 DEF GetMachines
    <3>. QED
      BY <1>0, <1>3, <2>2, <2>3, <3>1 DEF PlanInv
  <2>5. CASE ~Unselectable(r)
    <3>1. stage' = "preflight" /\ topology' = Topology(Selection(r))
      BY <2>1, <2>5 DEF GetMachines
    <3>2. topology'.inScope = Selection(r)
      BY <3>1 DEF Topology
    <3>4. topology'.inScope \subseteq ready'
      BY <2>1, <2>3, <2>5, <3>2, SelectedAreReady
    <3>5. Derived'
      <4>1. PICK S : S = Selection(r)
        OBVIOUS
      <4>2. topology' = Topology(S) /\ topology'.inScope = S
        BY <3>1, <3>2, <4>1
      <4>3. Topology(topology.inScope)' = Topology(S)
        BY <2>2, <2>3, <4>2 DEF Topology, Retained, Role, MachineRack, ManagementFabrics,
                                Listed, Link
      <4>. QED
        BY <3>4, <4>2, <4>3 DEF Derived, DerivedFrom
    <3>. QED
      BY <1>0, <1>3, <2>2, <2>3, <3>1, <3>5 DEF PlanInv
  <2>. QED
    BY <2>4, <2>5
<1>4. CASE Preflight /\ UNCHANGED <<wouldRun, wouldSkip>>
  <2>1. /\ stage = "preflight"
        /\ UNCHANGED <<inventory, known, topology, wouldRun, wouldSkip>>
        /\ stage' = IF Failures(topology) # {} THEN "refused" ELSE "plan"
    BY <1>4 DEF Preflight
  <2>. QED
    BY <1>0, <2>1, InventoryKept DEF PlanInv
<1>5. CASE PlanChecks
  <2>1. /\ stage = "plan" /\ stage' = "planned" /\ UNCHANGED <<inventory, known, topology>>
        /\ wouldRun' = RunLines /\ wouldSkip' = SkipLines
    BY <1>5 DEF PlanChecks, RunLines, SkipLines
  <2>. QED
    BY <1>0, <2>1, InventoryKept DEF PlanInv
<1>6. CASE \E m \in Nodes : Follow(m)
  <2>1. /\ stage' = "start" /\ topology' = NothingRead /\ wouldRun' = {} /\ wouldSkip' = {}
        /\ UNCHANGED <<inventory, known>>
    BY <1>6 DEF Follow
  <2>2. InventoryOK'
    BY <2>1 DEF PlanInv, InventoryOK, inventory
  <2>. QED
    BY <1>0, <2>1, <2>2 DEF PlanInv
<1>7. CASE UNCHANGED universeVars
  <2>1. UNCHANGED <<inventory, known, stage, topology, wouldRun, wouldSkip>>
    BY <1>7 DEF universeVars, fetchVars
  <2>. QED
    BY <1>0, <2>1, InventoryKept DEF PlanInv
<1>. QED
  BY <1>1, <1>2, <1>3, <1>4, <1>5, <1>6, <1>7 DEF PlanNext, FetchStep, FetchNext

\* PlanInv is an invariant.
LEMMA PlanAlways == Spec => []PlanInv
  BY InitPlan, NextPlan, PTL DEF Spec

-----------------------------------------------------------------------------
\* What a document that has been derived says.
LEMMA DerivedParts ==
  ASSUME PlanInv, Derived
  PROVE  /\ topology.inScope \subseteq Machines
         /\ topology.machines = known \cup topology.inScope \cup Retained(topology.inScope)
         /\ topology.machines \subseteq Nodes
         /\ \A m \in Machines : /\ topology.role[m] = Role(m) /\ topology.rack[m] = MachineRack(m)
                                /\ m \notin Controllers /\ m \in Nodes
                                /\ topology.role[m] # "rack-controller"
         /\ \A c \in Controllers : /\ topology.role[c] = "rack-controller"
                                   /\ topology.rack[c] = c /\ c \in Nodes
<1> DEFINE S == topology.inScope
<1>1. S \in SUBSET Machines /\ known \subseteq Controllers /\ topology = Topology(S)
  BY DEF PlanInv, InventoryOK, Derived, DerivedFrom
<1> HIDE DEF S
<1>2. /\ topology.machines = known \cup S \cup Retained(S) /\ topology.machines \subseteq Nodes
      /\ \A m \in Machines : /\ topology.role[m] = Role(m) /\ topology.rack[m] = MachineRack(m)
                             /\ m \notin Controllers /\ m \in Nodes
      /\ \A c \in Controllers : /\ topology.role[c] = "rack-controller"
                                /\ topology.rack[c] = c /\ c \in Nodes
  BY <1>1, TopologyParts
<1>. QED
  BY <1>1, <1>2, RoleOfMachine DEF S

\* Whatever shares a segment with a machine under test, its validator knows it.
THEOREM EveryNeighbourKnown == Spec => []NeighboursKnown
<1>1. ASSUME PlanInv, Planned, NEW a \in topology.inScope, NEW s \in On(a),
             NEW n \in (Machines \cup known) \ {a}, s \in On(n)
      PROVE  n \in topology.machines
  <2>1. /\ topology.inScope \subseteq Machines
        /\ topology.machines = known \cup topology.inScope \cup Retained(topology.inScope)
    BY <1>1, DerivedParts DEF Planned, PlanInv
  <2>. QED
    BY <1>1, <2>1, RecordedIsListed DEF Retained
<1>2. PlanInv => NeighboursKnown
  BY <1>1 DEF NeighboursKnown, Expected, OutOfScope, Others
<1>. QED
  BY <1>2, PlanAlways, PTL

\* A machine under test and another node share a segment, and neither forbids
\* the other: the validator and the report read the restriction alike.
LEMMA RestrictionsAgree ==
  ASSUME NEW t, NEW a, NEW b
  PROVE  /\ AdjacencyAllowed(t, a, b) <=> ReportAllows(t, a, b)
         /\ ReportAllows(t, a, b) <=> ReportAllows(t, b, a)
<1>1. AdjacencyAllowed(t, a, b) <=>
        /\ t.role[a] = "bmc-oam" => t.role[b] = "rack-controller" /\ t.rack[b] = t.rack[a]
        /\ t.role[b] = "bmc-oam" => t.role[a] = "rack-controller" /\ t.rack[a] = t.rack[b]
  <2>1. <<a, b>>[1] = a /\ <<a, b>>[2] = b /\ <<b, a>>[1] = b /\ <<b, a>>[2] = a
    OBVIOUS
  <2>. QED
    BY <2>1, Zenon DEF AdjacencyAllowed
<1>. QED
  BY <1>1 DEF ReportAllows

\* An edge of the report has an end under test, and its ends share a segment.
LEMMA Edges ==
  ASSUME NEW t, NEW e
  PROVE  e \in ExpectedEdges(t) <=>
           \E a \in t.inScope, b \in t.machines :
             /\ e = {a, b} /\ a # b /\ On(a) \cap On(b) # {} /\ ReportAllows(t, a, b)
<1> DEFINE Q == {q \in t.inScope \X t.machines :
                  q[1] # q[2] /\ On(q[1]) \cap On(q[2]) # {} /\ ReportAllows(t, q[1], q[2])}
<1>1. e \in ExpectedEdges(t) <=> \E p \in Q : e = {p[1], p[2]}
  BY DEF ExpectedEdges
<1>2. ASSUME NEW p \in Q
      PROVE  /\ p[1] \in t.inScope /\ p[2] \in t.machines /\ p[1] # p[2]
             /\ On(p[1]) \cap On(p[2]) # {} /\ ReportAllows(t, p[1], p[2])
  OBVIOUS
<1>3. ASSUME NEW a \in t.inScope, NEW b \in t.machines,
             a # b, On(a) \cap On(b) # {}, ReportAllows(t, a, b)
      PROVE  <<a, b>> \in Q /\ <<a, b>>[1] = a /\ <<a, b>>[2] = b
  BY <1>3
<1> HIDE DEF Q
<1>4. ASSUME e \in ExpectedEdges(t)
      PROVE  \E a \in t.inScope, b \in t.machines :
               /\ e = {a, b} /\ a # b /\ On(a) \cap On(b) # {} /\ ReportAllows(t, a, b)
  <2>1. PICK p \in Q : e = {p[1], p[2]}
    BY <1>1, <1>4
  <2>. QED
    BY <1>2, <2>1
<1>5. ASSUME NEW a \in t.inScope, NEW b \in t.machines,
             e = {a, b}, a # b, On(a) \cap On(b) # {}, ReportAllows(t, a, b)
      PROVE  e \in ExpectedEdges(t)
  BY <1>1, <1>3, <1>5
<1>. QED
  BY <1>4, <1>5

\* The plan's lines about VLANs: a line that is not one of them is about racks.
LEMMA VlanLine ==
  ASSUME NEW a, NEW b
  PROVE  /\ <<"vlan", a, b>> \in RunLines <=>
              a \in topology.inScope /\ b \in PlanPeers(topology, a) /\ b \in topology.inScope
         /\ <<"vlan", a, b>> \in SkipLines <=>
              a \in topology.inScope /\ b \in PlanPeers(topology, a) /\ b \notin topology.inScope
<1>1. <<"vlan", a, b>> \in VlanLines(topology) <=>
        a \in topology.inScope /\ b \in PlanPeers(topology, a)
  BY DEF VlanLines
<1>2. \A x, y : <<"vlan", a, b>> # <<"cross-rack", x, y>> /\ <<"vlan", a, b>>[3] = b
  OBVIOUS
<1>. QED
  BY <1>1, <1>2 DEF RunLines, SkipLines

\* The announcement, the probe and the judgment of a VLAN check agree.
THEOREM ThreeViewsAgree == Spec => []ViewsAgree
<1>1. ASSUME PlanInv, Planned PROVE ViewsAgree
  <2> DEFINE t == topology
  <2>1. wouldRun = RunLines /\ wouldSkip = SkipLines /\ Derived
    BY <1>1 DEF Planned, PlanInv
  <2>2. /\ t.inScope \subseteq Machines /\ t.inScope \subseteq t.machines
        /\ \A m \in t.inScope : m \notin Controllers /\ t.role[m] # "rack-controller"
    BY <1>1, <2>1, DerivedParts
  <2>3. \A b \in t.inScope : Address(b) \subseteq On(b)
    BY <2>2 DEF Address, On
  <2>4. ASSUME NEW a \in t.inScope, NEW b \in t.inScope
        PROVE  Probes(t, a, b) <=>
                 /\ a # b /\ ReportAllows(t, a, b) /\ On(a) \cap Address(b) # {}
    BY <2>2, <2>3, <2>4, RestrictionsAgree DEF Probes, Expected, Forbidden, Others
  <2>5. ASSUME NEW a \in t.inScope, NEW b \in t.inScope
        PROVE  {a, b} \in Judged(t) <=>
                 a # b /\ On(a) \cap On(b) # {} /\ ReportAllows(t, a, b)
    <3>1. {a, b} \in Judged(t) <=> {a, b} \in ExpectedEdges(t)
      BY <2>5 DEF Judged
    <3>2. \A x, y : {a, b} = {x, y} => (x = a /\ y = b) \/ (x = b /\ y = a)
      OBVIOUS
    <3>. QED
      BY <2>2, <2>5, <3>1, <3>2, Edges, RestrictionsAgree
  <2>6. ASSUME NEW a \in t.inScope, NEW b \in t.inScope
        PROVE  <<"vlan", a, b>> \in wouldRun <=>
                 a # b /\ On(a) \cap On(b) # {} /\ t.role[a] # "bmc-oam"
    BY <2>1, <2>2, <2>6, VlanLine DEF PlanPeers
  <2>7. ASSUME NEW a \in t.inScope, NEW b \in t.inScope
        PROVE  ReportAllows(t, a, b) <=> t.role[a] # "bmc-oam" /\ t.role[b] # "bmc-oam"
    BY <2>2, <2>7 DEF ReportAllows
  <2>8. ASSUME NEW e \in Skipped(t), NEW a \in t.inScope, a \in e, NEW p \in e \ {a}
        PROVE  <<"vlan", a, p>> \in wouldSkip
    <3>1. e \in ExpectedEdges(t) /\ ~(e \subseteq t.inScope)
      BY <2>8 DEF Skipped, Judged
    <3>2. PICK x \in t.inScope, y \in t.machines :
            e = {x, y} /\ x # y /\ On(x) \cap On(y) # {} /\ ReportAllows(t, x, y)
      BY <3>1, Edges
    <3>3. a = x /\ p = y /\ p \notin t.inScope
      BY <2>8, <3>1, <3>2
    <3>4. p \in PlanPeers(t, a)
      BY <3>2, <3>3 DEF PlanPeers, ReportAllows
    <3>. QED
      BY <2>1, <3>3, <3>4, VlanLine
  <2> HIDE DEF t
  <2>9. ASSUME NEW a \in t.inScope, NEW b \in t.inScope
        PROVE  /\ Probes(t, a, b) => <<"vlan", a, b>> \in wouldRun /\ {a, b} \in Judged(t)
               /\ {a, b} \in Judged(t) /\ a # b =>
                    /\ <<"vlan", a, b>> \in wouldRun
                    /\ Probes(t, a, b) \/ On(a) \cap Address(b) = {}
               /\ <<"vlan", a, b>> \in wouldRun /\ ~Probes(t, a, b) =>
                    t.role[b] = "bmc-oam" \/ On(a) \cap Address(b) = {}
    BY <2>3, <2>4, <2>5, <2>6, <2>7, <2>9
  <2>. QED
    BY <2>8, <2>9 DEF ViewsAgree, t
<1>2. PlanInv => ViewsAgree
  BY <1>1 DEF ViewsAgree
<1>. QED
  BY <1>2, PlanAlways, PTL

\* The advice is followed with the same controllers: both documents are derived
\* from the same racks and roles, the later one from one more machine.
LEMMA FollowedParts ==
  ASSUME PlanInv, Following, known = earlier.known,
         stage \in {"preflight", "refused", "plan", "planned"}
  PROVE  LET t == earlier.topology
             w == topology
         IN /\ t.inScope \subseteq Machines /\ w.inScope \subseteq Machines
            /\ w.inScope = t.inScope \cup {earlier.added}
            /\ t.machines = known \cup t.inScope \cup Retained(t.inScope)
            /\ w.machines = known \cup w.inScope \cup Retained(w.inScope)
            /\ t.machines \subseteq Nodes
            /\ \A n \in Nodes : t.role[n] = w.role[n] /\ t.rack[n] = w.rack[n]
            /\ Failures(t) = {}
<1> DEFINE S == earlier.topology.inScope
           W == topology.inScope
<1>1. /\ S \in SUBSET Machines /\ W \in SUBSET Machines /\ W = S \cup {earlier.added}
      /\ earlier.topology = Topology(S) /\ topology = Topology(W)
      /\ known \subseteq Controllers /\ Failures(earlier.topology) = {}
  BY DEF PlanInv, EarlierInv, InventoryOK, Derived, DerivedFrom, Advised
<1> HIDE DEF S, W
<1>2. \A n \in Nodes : /\ Topology(S).role[n] = Topology(W).role[n]
                       /\ Topology(S).rack[n] = Topology(W).rack[n]
  BY DEF Topology
<1>3. /\ Topology(S).machines = known \cup S \cup Retained(S) /\ Topology(S).machines \subseteq Nodes
      /\ Topology(W).machines = known \cup W \cup Retained(W)
  BY <1>1, TopologyParts
<1>. QED
  BY <1>1, <1>2, <1>3 DEF S, W

\* Following the advice only adds, unless the machine added is to blame.
THEOREM WiderIsBetter == Spec => []AdviceIsRight
<1>1. ASSUME PlanInv, Following, known = earlier.known, Planned
      PROVE  /\ Judged(earlier.topology) \subseteq Judged(topology)
             /\ earlier.topology.machines \subseteq topology.machines
             /\ \A e \in Skipped(earlier.topology) : earlier.added \in e => e \in Judged(topology)
  <2> DEFINE t == earlier.topology
             w == topology
             m == earlier.added
  <2>1. /\ w.inScope = t.inScope \cup {m}
        /\ t.machines = known \cup t.inScope \cup Retained(t.inScope)
        /\ w.machines = known \cup w.inScope \cup Retained(w.inScope)
        /\ t.machines \subseteq Nodes
        /\ \A n \in Nodes : t.role[n] = w.role[n] /\ t.rack[n] = w.rack[n]
    BY <1>1, FollowedParts DEF Planned
  <2> HIDE DEF t, w, m
  <2>2. t.machines \subseteq w.machines
    <3>1. UNION {Listed(n) : n \in t.inScope} \subseteq UNION {Listed(n) : n \in w.inScope}
      BY <2>1
    <3>2. ASSUME NEW n \in Retained(t.inScope) PROVE n \in w.inScope \cup Retained(w.inScope)
      <4>1. /\ n \in Machines
            /\ Role(n) = "data" \/ Listed(n) \cap UNION {Listed(o) : o \in t.inScope} # {}
        BY DEF Retained
      <4>2. Role(n) = "data" \/ Listed(n) \cap UNION {Listed(o) : o \in w.inScope} # {}
        BY <3>1, <4>1
      <4>. QED
        BY <4>1, <4>2 DEF Retained
    <3>. QED
      BY <2>1, <3>2
  <2>3. ASSUME NEW a \in t.machines, NEW b \in t.machines
        PROVE  ReportAllows(t, a, b) <=> ReportAllows(w, a, b)
    BY <2>1 DEF ReportAllows
  <2>4. ASSUME NEW e \in ExpectedEdges(t)
        PROVE  e \in ExpectedEdges(w) /\ (m \in e => e \subseteq w.inScope)
    <3>1. PICK a \in t.inScope, b \in t.machines :
            e = {a, b} /\ a # b /\ On(a) \cap On(b) # {} /\ ReportAllows(t, a, b)
      BY <2>4, Edges
    <3>2. /\ a \in w.inScope /\ b \in w.machines /\ ReportAllows(w, a, b)
          /\ m \in {a, b} => b \in w.inScope \/ m = a
      BY <2>1, <2>2, <2>3, <3>1
    <3>3. e \in ExpectedEdges(w)
      BY <3>1, <3>2, Edges
    <3>4. ASSUME m \in e PROVE e \subseteq w.inScope
      <4>1. m \notin t.inScope
        BY <1>1 DEF PlanInv, EarlierInv, m, t
      <4>. QED
        BY <2>1, <3>1, <3>2, <3>4, <4>1
    <3>. QED
      BY <3>3, <3>4
  <2>5. Judged(t) \subseteq Judged(w)
    BY <2>1, <2>4 DEF Judged
  <2>6. \A e \in Skipped(t) : m \in e => e \in Judged(w)
    BY <2>4 DEF Judged, Skipped
  <2>. QED
    BY <2>2, <2>5, <2>6 DEF t, w, m
<1>2. ASSUME PlanInv, Following, known = earlier.known, stage = "refused"
      PROVE  Failures(topology) = {earlier.added}
  <2>1. /\ earlier.topology.inScope \subseteq Machines
        /\ topology.inScope = earlier.topology.inScope \cup {earlier.added}
        /\ \A n \in Nodes : /\ earlier.topology.role[n] = topology.role[n]
                            /\ earlier.topology.rack[n] = topology.rack[n]
        /\ Failures(earlier.topology) = {} /\ Failures(topology) # {}
    BY <1>2, FollowedParts DEF PlanInv
  <2>2. ASSUME NEW n \in Failures(topology) PROVE n = earlier.added
    <3>1. n \in topology.inScope
      BY <2>2 DEF Failures
    <3>2. n \in earlier.topology.inScope => n \in Failures(earlier.topology)
      BY <2>1, <2>2 DEF Failures, Nodes
    <3>. QED
      BY <2>1, <3>1, <3>2
  <2>. QED
    BY <2>1, <2>2
<1>3. ASSUME PlanInv, Following, known = earlier.known, stage = "unselectable"
      PROVE  earlier.added \notin ready
  BY <1>3 DEF PlanInv, EarlierInv, DerivedFrom, Advised
<1>4. PlanInv => AdviceIsRight
  BY <1>1, <1>2, <1>3 DEF AdviceIsRight
<1>. QED
  BY <1>4, PlanAlways, PTL

-----------------------------------------------------------------------------
\* A rack under test has a name, for preflight has found no failure.
LEMMA TestedRacks ==
  ASSUME PlanInv, stage \in {"plan", "planned"}
  PROVE  /\ \A m \in topology.inScope : topology.rack[m] \in known
         /\ Rep!DataRacks = {topology.rack[m] : m \in {n \in topology.inScope :
                                                         topology.role[n] = "data"}}
         /\ Rep!DataRacks \subseteq known
<1>1. Derived /\ Failures(topology) = {} /\ InventoryOK
  BY DEF PlanInv
<1>2. ASSUME NEW m \in topology.inScope PROVE topology.rack[m] \in known
  <2>1. m \in Machines /\ topology.rack[m] = MachineRack(m)
    BY <1>1, DerivedParts
  <2>2. topology.rack[m] # NoRack
    BY <1>1 DEF Failures
  <2>. QED
    BY <1>1, <2>1, <2>2, RackIsKnown
<1>3. Rep!DataRacks = {topology.rack[m] : m \in {n \in topology.inScope :
                                                   topology.role[n] = "data"}}
  BY DEF Rep!DataRacks
<1>. QED
  BY <1>2, <1>3

\* The racks the plan looks at are those of all data machines in MAAS.
LEMMA AllRacks ==
  ASSUME PlanInv, Derived
  PROVE  AllDataRacks(topology) =
           {MachineRack(m) : m \in {n \in Machines : Role(n) = "data"}} \ {NoRack}
<1>1. \A n : n \in topology.machines /\ topology.role[n] = "data"
               <=> n \in Machines /\ Role(n) = "data"
  <2>1. known \subseteq Controllers
    BY DEF PlanInv
  <2>. QED
    BY <2>1, DerivedParts DEF Nodes, Retained
<1>2. \A n \in Machines : topology.rack[n] = MachineRack(n)
  BY DerivedParts
<1>. QED
  BY <1>1, <1>2 DEF AllDataRacks

\* The plan says of every pair of racks whether it is checked or skipped.
LEMMA RackLine ==
  ASSUME NEW r, NEW q, q # NoRack
  PROVE  /\ <<"cross-rack", r, q>> \in RunLines <=> <<r, q>> \in Rep!Paths
         /\ <<"cross-rack", r, q>> \in SkipLines <=>
              r \in Rep!DataRacks /\ q \in Untargeted(topology)
<1>1. \A l \in VlanLines(topology) : l # <<"cross-rack", r, q>>
  BY DEF VlanLines
<1>2. \A p \in Rep!Paths : p = <<p[1], p[2]>>
  BY DEF Rep!Paths
<1>3. <<"cross-rack", r, q>> \in RunLines <=> <<r, q>> \in Rep!Paths
  <2>1. <<"cross-rack", r, q>> \in RunLines
          <=> \E p \in Rep!Paths : <<"cross-rack", r, q>> = <<"cross-rack", p[1], p[2]>>
    BY <1>1 DEF RunLines
  <2>2. \A p : <<"cross-rack", r, q>> = <<"cross-rack", p[1], p[2]>> <=> r = p[1] /\ q = p[2]
    OBVIOUS
  <2>3. <<r, q>>[1] = r /\ <<r, q>>[2] = q
    OBVIOUS
  <2>. QED
    BY <1>2, <2>1, <2>2, <2>3
<1>4. <<"cross-rack", r, q>> \in SkipLines <=>
        r \in Rep!DataRacks /\ q \in Untargeted(topology)
  <2>1. \A x, y : <<"cross-rack", r, q>> = <<"cross-rack", x, y>> <=> r = x /\ q = y
    OBVIOUS
  <2>. QED
    BY <1>1, <2>1 DEF SkipLines
<1>. QED
  BY <1>3, <1>4

\* Every rack under test has its lines, one for each other rack with data
\* machines in MAAS, or one that says there is none.
THEOREM CrossRackPlanTotal == Spec => []CrossRackPlanIsTotal
<1>1. ASSUME PlanInv, Planned PROVE CrossRackPlanIsTotal
  <2> DEFINE tested == {topology.rack[m] : m \in {n \in topology.inScope :
                                                    topology.role[n] = "data"}}
             racks == {MachineRack(m) : m \in {n \in Machines : Role(n) = "data"}} \ {NoRack}
  <2>1. wouldRun = RunLines /\ wouldSkip = SkipLines /\ Derived
    BY <1>1 DEF Planned, PlanInv
  <2>2. tested = Rep!DataRacks /\ tested \subseteq known
    BY <1>1, TestedRacks DEF Planned
  <2>3. racks = AllDataRacks(topology)
    BY <1>1, <2>1, AllRacks
  <2>4. tested \subseteq racks
    <3>1. /\ topology.inScope \subseteq Machines
          /\ \A m \in Machines : topology.role[m] = Role(m) /\ topology.rack[m] = MachineRack(m)
      BY <1>1, <2>1, DerivedParts
    <3>2. NoRack \notin known
      BY <1>1, NodesAssumption DEF PlanInv
    <3>. QED
      BY <2>2, <3>1, <3>2
  <2> HIDE DEF tested, racks
  <2>5. ASSUME NEW r \in tested, NEW q \in racks \ {r}
        PROVE  /\ <<"cross-rack", r, q>> \in wouldRun <=> <<"cross-rack", r, q>> \notin wouldSkip
               /\ <<"cross-rack", r, q>> \in wouldRun \cup wouldSkip
    <3>1. q # NoRack
      BY <2>3 DEF AllDataRacks
    <3>2. <<"cross-rack", r, q>> \in wouldRun <=> q \in tested
      <4>1. <<r, q>> \in Rep!Paths <=> q \in tested
        BY <2>2, <2>5 DEF Rep!Paths
      <4>. QED
        BY <2>1, <3>1, <4>1, RackLine
    <3>3. <<"cross-rack", r, q>> \in wouldSkip <=> q \notin tested
      BY <2>1, <2>2, <2>3, <2>5, <3>1, RackLine DEF Untargeted
    <3>. QED
      BY <3>2, <3>3
  <2>6. ASSUME NEW r \in tested, racks \ {r} = {}
        PROVE  <<"cross-rack", r, NoRack>> \in wouldSkip
    <3>1. tested = {r} /\ racks = {r}
      BY <2>4, <2>6
    <3>2. Cardinality(Rep!DataRacks) = 1 /\ Cardinality(AllDataRacks(topology)) = 1
      <4>1. Rep!DataRacks = {r} /\ AllDataRacks(topology) = {r}
        BY <2>2, <2>3, <3>1
      <4>. QED
        BY <4>1, FS_Singleton
    <3>. QED
      BY <2>1, <2>2, <3>2 DEF SkipLines
  <2>7. ASSUME NEW r \in tested
        PROVE  \E q \in racks \cup {NoRack} : <<"cross-rack", r, q>> \in wouldRun \cup wouldSkip
    BY <2>5, <2>6
  <2>. QED
    BY <2>5, <2>7 DEF CrossRackPlanIsTotal, tested, racks
<1>2. PlanInv => CrossRackPlanIsTotal
  BY <1>1 DEF CrossRackPlanIsTotal
<1>. QED
  BY <1>2, PlanAlways, PTL

\* Types: the document covers what it selects, every node has a role and a
\* rack, and the plan's lines are about nodes of the inventory.
THEOREM PlanTypeCorrect == Spec => []TypeOK
<1>1. ASSUME PlanInv, topology # NothingRead
      PROVE  /\ topology.inScope \subseteq ready
             /\ topology.inScope \subseteq topology.machines
             /\ \A n \in Nodes : /\ topology.role[n] \in Roles
                                 /\ topology.rack[n] \in Controllers \cup {NoRack}
             /\ \A m \in topology.inScope : topology.rack[m] \in known \cup {NoRack}
  <2>1. Derived /\ InventoryOK /\ known \subseteq Controllers
    BY <1>1 DEF PlanInv
  <2>. QED
    BY <1>1, <2>1, DerivedParts, RackIsKnown, RoleOfMachine DEF Derived, DerivedFrom, Nodes, Roles
<1>2. ASSUME PlanInv, Planned PROVE RunLines \subseteq Lines /\ SkipLines \subseteq Lines
  <2>1. Derived /\ known \subseteq Controllers
    BY <1>2 DEF PlanInv, Planned
  <2>2. /\ topology.inScope \subseteq Nodes /\ topology.machines \subseteq Nodes
        /\ Rep!DataRacks \subseteq Nodes /\ Controllers \subseteq Nodes
    BY <1>2, <2>1, DerivedParts, TestedRacks DEF Planned, Nodes
  <2>3. VlanLines(topology) \subseteq Lines
    <3>1. \A a : PlanPeers(topology, a) \subseteq topology.machines \cup topology.inScope
      BY DEF PlanPeers
    <3>. QED
      BY <2>2, <3>1 DEF VlanLines, Lines
  <2>4. Untargeted(topology) \subseteq Nodes
    BY <1>2, <2>1, AllRacks, RackIsKnown DEF Untargeted, Nodes, PlanInv
  <2>5. {<<"cross-rack", p[1], p[2]>> : p \in Rep!Paths} \subseteq Lines
    BY <2>2 DEF Rep!Paths, Lines
  <2>6. {<<"cross-rack", r, q>> : r \in Rep!DataRacks, q \in Untargeted(topology)} \subseteq Lines
    BY <2>2, <2>4 DEF Lines
  <2>7. {<<"cross-rack", r, NoRack>> : r \in Rep!DataRacks} \subseteq Lines
    BY <2>2 DEF Lines
  <2>. QED
    BY <2>3, <2>5, <2>6, <2>7 DEF RunLines, SkipLines
<1>3. PlanInv => TypeOK
  BY <1>1, <1>2 DEF TypeOK, PlanInv, Planned
<1>. QED
  BY <1>3, PlanAlways, PTL
=============================================================================
