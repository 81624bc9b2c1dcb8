---------------------------- MODULE MCCrossRack ----------------------------
(***************************************************************************)
(* CrossRack on three racks of two, two and one data machines.             *)
(***************************************************************************)
EXTENDS CrossRack

Racking == [m \in Nodes |-> (m + 1) \div 2]
=============================================================================
