-------------------------------- MODULE FTree --------------------------------
(***************************************************************************)
(* The connect tree of the process framework (cTreeMg_c of fTrNdBa_c), as  *)
(* FBase sees it: the set of its bases and the parent of each.  Children   *)
(* are appended to their siblings and base IDs only grow, so siblings are  *)
(* in the order of their IDs and a parent's ID is below its children's.    *)
(* The pointer level is module CTree, which is checked against this one.   *)
(***************************************************************************)
EXTENDS FList

CONSTANTS Bases
VARIABLES live, parent

Children(p) == {c \in live : parent[c] = p}
FirstOf(S) == IF S = {} THEN Null ELSE Min(S)
Roots == Children(Null)

\* b and its ancestors.
Lineage(b) ==
  LET up[x \in Bases \cup {Null}] ==
        IF x = Null THEN {} ELSE {x} \cup up[parent[x]]
  IN up[b]

Descendants(b) == {x \in live : x # b /\ b \in Lineage(x)}

\* cTreeNd_c::mpNext: the next sibling.
Sibling(b) == FirstOf({c \in Children(parent[b]) : c > b})

\* cTreeNd_c::getTreeNextNotChild: the next sibling of the closest of b and
\* its ancestors that has one.
TreeNextNotChild(b) ==
  LET up == {a \in Lineage(b) : Sibling(a) # Null}
  IN IF up = {} THEN Null ELSE Sibling(Max(up))

\* cTreeNd_c::getTreeNext: the next node in preorder.
TreeNext(b) == IF Children(b) # {} THEN FirstOf(Children(b)) ELSE TreeNextNotChild(b)
=============================================================================
