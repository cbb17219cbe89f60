-------------------------------- MODULE FList --------------------------------
(***************************************************************************)
(* The doubly linked lists of the process framework (cListMg_c, fLiMgBa_c, *)
(* fLiMgPTMF_c), seen as sequences of base IDs.  cListMg_c::append is the  *)
(* library's Append and cListMg_c::prepend its Cons.  The pointer level of *)
(* the same operations is module CList, which is shown to implement these. *)
(***************************************************************************)
EXTENDS Integers, SequencesExt

\* BASE_ID_NULL, and the null node pointer: no base has this ID.
Null == 0

\* cListMg_c::getFirst.
First(s) == IF s = << >> THEN Null ELSE Head(s)

\* The position of node x in the list.
IndexOf(s, x) == CHOOSE i \in 1..Len(s) : s[i] = x

\* cListNd_c::getNext of a node of the list.
NextOf(s, x) == LET i == IndexOf(s, x) IN IF i = Len(s) THEN Null ELSE s[i + 1]

\* cListMg_c::remove.  A node that is in no list is left alone: its links are
\* null and it is neither mpFirst nor mpLast.
Unlink(s, x) == IF x \in ToSet(s) THEN RemoveAt(s, IndexOf(s, x)) ELSE s

\* How many nodes fLiMgPTMF_c::addNode passes over: the leading ones whose
\* order is not above the new node's.
PrioPos(s, x, order) ==
  CHOOSE k \in 0..Len(s) :
    /\ \A j \in 1..k : order[s[j]] <= order[x]
    /\ k < Len(s) => order[s[k + 1]] > order[x]

\* fLiMgPTMF_c::addNode: insert after every node of the same or a lower order.
AddNode(s, x, order) == InsertAt(s, PrioPos(s, x, order) + 1, x)

\* No node is linked twice, and the nodes are in ascending order.
Injective(s) == \A i, j \in 1..Len(s) : s[i] = s[j] => i = j
SortedBy(s, order) == \A i, j \in 1..Len(s) : i < j => order[s[i]] <= order[s[j]]
=============================================================================
