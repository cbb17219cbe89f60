-------------------------------- MODULE CList --------------------------------
(***************************************************************************)
(* cListMg_c and cListNd_c, pointer by pointer, with fLiMgPTMF_c::addNode  *)
(* on top of them.  `lists' is a history variable: the sequences that the  *)
(* callers believe in, changed by the operators of FList that FBase uses.  *)
(* What there is to show is that the links always spell those sequences.   *)
(*                                                                         *)
(* A node carries one pair of links and no record of its list, so the      *)
(* operations only work for callers that insert a node while it is in no   *)
(* list, and remove it through its own list or while it is in none (this   *)
(* is what FBase's ScheduleMatchesState says of the framework).            *)
(***************************************************************************)
EXTENDS FList

CONSTANTS
  Nodes,      \* cListNd_c objects
  Lists,      \* cListMg_c objects
  mOrder      \* fLiNdPrio_c::mOrder of each node

ASSUME NodeAssumption == Null \notin Nodes /\ mOrder \in [Nodes -> Nat]

VARIABLES
  mpPrev, mpNext,     \* of each node
  mpFirst, mpLast,    \* of each list
  adding,             \* the node addNode is placing, or Null
  into,               \* the list addNode is walking
  curr,               \* addNode's position in it
  lists               \* history: each list as a sequence of nodes

linkVars == << mpPrev, mpNext, mpFirst, mpLast >>
scanVars == << adding, into, curr >>
vars == << linkVars, scanVars, lists >>

NodeOrNull == Nodes \cup {Null}

TypeOK ==
  /\ mpPrev \in [Nodes -> NodeOrNull]
  /\ mpNext \in [Nodes -> NodeOrNull]
  /\ mpFirst \in [Lists -> NodeOrNull]
  /\ mpLast \in [Lists -> NodeOrNull]
  /\ adding \in NodeOrNull
  /\ into \in Lists
  /\ curr \in NodeOrNull
  /\ lists \in [Lists -> Seq(Nodes)]

\* The node is in no list, and addNode is not about to put it in one.
Unlinked(n) == n # adding /\ \A l \in Lists : n \notin ToSet(lists[l])
Idle == adding = Null

Init ==
  /\ mpPrev = [n \in Nodes |-> Null]
  /\ mpNext = [n \in Nodes |-> Null]
  /\ mpFirst = [l \in Lists |-> Null]
  /\ mpLast = [l \in Lists |-> Null]
  /\ adding = Null
  /\ into \in Lists
  /\ curr = Null
  /\ lists = [l \in Lists |-> << >>]

-----------------------------------------------------------------------------
(* What the operations do to the links.                                     *)

\* Mutant: the new node gets no link back.
AppendLinksForward(l, n) ==
  /\ IF mpLast[l] # Null
     THEN mpNext' = [mpNext EXCEPT ![mpLast[l]] = n] /\ UNCHANGED mpFirst
     ELSE mpFirst' = [mpFirst EXCEPT ![l] = n] /\ UNCHANGED mpNext
  /\ mpLast' = [mpLast EXCEPT ![l] = n]
  /\ UNCHANGED mpPrev

AppendLinks(l, n) ==
  /\ IF mpLast[l] # Null
     THEN /\ mpNext' = [mpNext EXCEPT ![mpLast[l]] = n]
          /\ mpPrev' = [mpPrev EXCEPT ![n] = mpLast[l]]
          /\ UNCHANGED mpFirst
     ELSE mpFirst' = [mpFirst EXCEPT ![l] = n] /\ UNCHANGED << mpPrev, mpNext >>
  /\ mpLast' = [mpLast EXCEPT ![l] = n]

PrependLinks(l, n) ==
  /\ IF mpFirst[l] # Null
     THEN /\ mpPrev' = [mpPrev EXCEPT ![mpFirst[l]] = n]
          /\ mpNext' = [mpNext EXCEPT ![n] = mpFirst[l]]
          /\ UNCHANGED mpLast
     ELSE mpLast' = [mpLast EXCEPT ![l] = n] /\ UNCHANGED << mpPrev, mpNext >>
  /\ mpFirst' = [mpFirst EXCEPT ![l] = n]

\* insertAfter a given node (without one it is prepend).
InsertLinks(l, n, prevNode) ==
  LET succ == mpNext[prevNode] IN
  /\ mpNext' = [mpNext EXCEPT ![n] = succ, ![prevNode] = n]
  /\ mpPrev' = [m \in Nodes |-> IF m = succ THEN n ELSE IF m = n THEN prevNode ELSE mpPrev[m]]
  /\ mpLast' = IF succ = Null THEN [mpLast EXCEPT ![l] = n] ELSE mpLast
  /\ UNCHANGED mpFirst

RemoveLinks(l, n) ==
  LET pred == mpPrev[n]
      succ == mpNext[n]
  IN
  /\ mpNext' = [m \in Nodes |-> IF m = n THEN Null ELSE IF m = pred THEN succ ELSE mpNext[m]]
  /\ mpPrev' = [m \in Nodes |-> IF m = n THEN Null ELSE IF m = succ THEN pred ELSE mpPrev[m]]
  /\ mpFirst' = IF pred = Null /\ n = mpFirst[l] THEN [mpFirst EXCEPT ![l] = succ] ELSE mpFirst
  /\ mpLast' = IF succ = Null /\ n = mpLast[l] THEN [mpLast EXCEPT ![l] = pred] ELSE mpLast

-----------------------------------------------------------------------------
(* The operations, on the links and on the sequences.                       *)

append(l, n) ==
  /\ Idle /\ Unlinked(n)
  /\ AppendLinks(l, n)
  /\ lists' = [lists EXCEPT ![l] = Append(@, n)]
  /\ UNCHANGED scanVars

prepend(l, n) ==
  /\ Idle /\ Unlinked(n)
  /\ PrependLinks(l, n)
  /\ lists' = [lists EXCEPT ![l] = Cons(n, @)]
  /\ UNCHANGED scanVars

insertAfter(l, n, prevNode) ==
  /\ Idle /\ Unlinked(n) /\ prevNode \in ToSet(lists[l])
  /\ InsertLinks(l, n, prevNode)
  /\ lists' = [lists EXCEPT ![l] = InsertAt(@, IndexOf(@, prevNode) + 1, n)]
  /\ UNCHANGED scanVars

remove(l, n) ==
  /\ Idle /\ (n \in ToSet(lists[l]) \/ Unlinked(n))
  /\ RemoveLinks(l, n)
  /\ lists' = [lists EXCEPT ![l] = Unlink(@, n)]
  /\ UNCHANGED scanVars

\* fLiMgPTMF_c::addNode in an empty list, in front of a node of a higher order,
\* and otherwise by a walk to the last node it has to follow.
AddToEmpty(l, n) ==
  /\ Idle /\ Unlinked(n)
  /\ mpFirst[l] = Null
  /\ AppendLinks(l, n)
  /\ lists' = [lists EXCEPT ![l] = AddNode(@, n, mOrder)]
  /\ UNCHANGED scanVars

AddInFront(l, n) ==
  /\ Idle /\ Unlinked(n)
  /\ mpFirst[l] # Null /\ mOrder[mpFirst[l]] > mOrder[n]
  /\ PrependLinks(l, n)
  /\ lists' = [lists EXCEPT ![l] = AddNode(@, n, mOrder)]
  /\ UNCHANGED scanVars

BeginScan(l, n) ==
  /\ Idle /\ Unlinked(n)
  /\ mpFirst[l] # Null /\ mOrder[mpFirst[l]] <= mOrder[n]
  /\ adding' = n /\ into' = l /\ curr' = mpFirst[l]
  /\ UNCHANGED << linkVars, lists >>

\* Mutant: the new node goes in front of those of its own order.
MayAdvanceBelow == mpNext[curr] # Null /\ mOrder[mpNext[curr]] < mOrder[adding]

\* The loop's condition.
MayAdvance == mpNext[curr] # Null /\ mOrder[mpNext[curr]] <= mOrder[adding]

\* Mutant: the walk starts over.
AdvanceAgain ==
  /\ ~Idle /\ MayAdvance
  /\ curr' = mpFirst[into]
  /\ UNCHANGED << linkVars, adding, into, lists >>

Advance ==
  /\ ~Idle /\ MayAdvance
  /\ curr' = mpNext[curr]
  /\ UNCHANGED << linkVars, adding, into, lists >>

EndScan ==
  /\ ~Idle /\ ~MayAdvance
  /\ InsertLinks(into, adding, curr)
  /\ lists' = [lists EXCEPT ![into] = AddNode(@, adding, mOrder)]
  /\ adding' = Null /\ curr' = Null
  /\ UNCHANGED into

addNode(l, n) == AddToEmpty(l, n) \/ AddInFront(l, n) \/ BeginScan(l, n)

Next ==
  \/ \E l \in Lists, n \in Nodes :
       \/ append(l, n)
       \/ prepend(l, n)
       \/ \E prevNode \in Nodes : insertAfter(l, n, prevNode)
       \/ remove(l, n)
       \/ addNode(l, n)
  \/ Advance
  \/ EndScan

Spec == Init /\ [][Next]_vars

\* addNode's loop runs on; nobody has to call the list again.
FairSpec == Spec /\ WF_vars(Advance \/ EndScan)

-----------------------------------------------------------------------------

\* The links spell the sequence s forwards from first and backwards from last.
Spells(s, first, last, next, prev) ==
  /\ first = First(s)
  /\ last = IF s = << >> THEN Null ELSE s[Len(s)]
  /\ \A i \in 1..Len(s) : next[s[i]] = IF i = Len(s) THEN Null ELSE s[i + 1]
  /\ \A i \in 1..Len(s) : prev[s[i]] = IF i = 1 THEN Null ELSE s[i - 1]

\* Every list spells its sequence, and a node that was removed, or is not yet
\* inserted, keeps no link into any list.
LinksSpellLists ==
  /\ \A l \in Lists : Spells(lists[l], mpFirst[l], mpLast[l], mpNext, mpPrev)
  /\ \A n \in Nodes : (\A l \in Lists : n \notin ToSet(lists[l])) =>
       mpNext[n] = Null /\ mpPrev[n] = Null

\* While addNode walks, every node up to its position is to precede the new
\* one: it never oversteps the place PrioPos gives.
ScanOnCourse ==
  ~Idle =>
    /\ curr \in ToSet(lists[into])
    /\ \A i \in 1..IndexOf(lists[into], curr) : mOrder[lists[into][i]] <= mOrder[adding]
    /\ \A l \in Lists : adding \notin ToSet(lists[l])

\* A node is in one place of one list.
OneList ==
  \A k, l \in Lists : Injective(lists[l]) /\ (k # l => ToSet(lists[k]) \cap ToSet(lists[l]) = {})

IInv == TypeOK /\ OneList /\ LinksSpellLists /\ ScanOnCourse

\* addNode's loop ends.
ScanEnds == ~Idle ~> Idle
=============================================================================
