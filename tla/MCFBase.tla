------------------------------- MODULE MCFBase -------------------------------
(***************************************************************************)
(* Instances of FBase.  The stage scene comes first in both lists; the two *)
(* actor profiles are executed in one order and drawn in the other.        *)
(***************************************************************************)
EXTENDS FBase
CONSTANTS Stage, Enemy, Item

TwoProfiles == {Stage, Enemy}
ThreeProfiles == {Stage, Enemy, Item}
MCScenes == {Stage}
MCExecuteOrder == [p \in Profiles |-> CASE p = Stage -> 0 [] p = Enemy -> 1 [] p = Item -> 2]
MCDrawOrder == [p \in Profiles |-> CASE p = Stage -> 0 [] p = Enemy -> 2 [] p = Item -> 1]
=============================================================================
