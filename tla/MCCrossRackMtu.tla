-------------------------- MODULE MCCrossRackMtu ---------------------------
(***************************************************************************)
(* CrossRackMtu with bonds of three members.                              *)
(***************************************************************************)
EXTENDS CrossRackMtu

ThreeMembers == [b \in Bonds |-> {<<b, 1>>, <<b, 2>>, <<b, 3>>}]
=============================================================================
