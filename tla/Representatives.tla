-------------------------- MODULE Representatives --------------------------
(***************************************************************************)
(* Which data machine speaks for a rack (src/cli/representatives.py, whose *)
(* byte-identical copy runs in the payload): the probe on the node and the *)
(* report on the workstation derive the same cross-rack paths from the     *)
(* same topology.  Nodes are in-scope data machines, numbered in the order *)
(* of their system_id.                                                     *)
(***************************************************************************)
EXTENDS Naturals, FiniteSets, FiniteSetsExt

CONSTANTS
  Nodes,    \* in-scope data machines of the topology
  RackOf,   \* their racks
  NoNode    \* no such machine

ASSUME NodesAssumption == Nodes \subseteq Nat /\ IsFiniteSet(Nodes) /\ NoNode \notin Nodes
ASSUME RackAssumption == RackOf \in [Nodes -> Nat]

Eligible(r) == {m \in Nodes : RackOf[m] = r}
DataRacks == {RackOf[m] : m \in Nodes}

\* Source and target selection are the same rule: the lowest eligible.
Representative(r) == Min(Eligible(r))

FallbackTarget(r) ==
  LET others == Eligible(r) \ {Representative(r)}
  IN IF others = {} THEN NoNode ELSE Min(others)

\* Faulty form, for mutation: the rack is remote to itself.
RemoteRacksWithOwn(r) == DataRacks
\* Taken in the order of their names.
RemoteRacks(r) == DataRacks \ {r}

\* Expected directed rack-pair paths, and the links they make up.
Paths == {p \in DataRacks \X DataRacks : p[1] # p[2]}
Links == {{p[1], p[2]} : p \in Paths}
=============================================================================
