------------------------------- MODULE MCCList -------------------------------
(***************************************************************************)
(* An instance of CList: four nodes, of which two share an order, and two  *)
(* lists that exchange them.                                               *)
(***************************************************************************)
EXTENDS CList

FourNodes == 1..4
TwoLists == {"executeManage", "deleteManage"}
Orders == [n \in Nodes |-> n \div 2]
=============================================================================
