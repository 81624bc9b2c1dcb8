-------------------------- MODULE MCVlanNeighbors --------------------------
(***************************************************************************)
(* VlanNeighbors on two segments.  Machines 1 and 2 are data machines on   *)
(* both, 2 without an address on the second; 3 is an out-of-band machine   *)
(* and 4 the rack controller, the only one 3 may meet; 5 is not under      *)
(* test.                                                                   *)
(***************************************************************************)
EXTENDS VlanNeighbors

Roles == <<"data", "data", "bmc-oam", "rack-controller", "data">>
Racking == [m \in Nodes |-> 1]
Interfaces == <<{1, 2}, {1, 2}, {1}, {1}, {1}>>
Addresses == <<{1, 2}, {1}, {1}, {1}, {1}>>
=============================================================================
