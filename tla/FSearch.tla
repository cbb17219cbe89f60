------------------------------- MODULE FSearch -------------------------------
(***************************************************************************)
(* The search API of fManager_c: bases are found by ID in the search lists *)
(* (the ID picks one of a few lists), and by profile or group type by a    *)
(* walk of the connect tree.  The two searches of the tree differ in the   *)
(* field they compare, so one of them stands for both.                     *)
(***************************************************************************)
EXTENDS CTree

CONSTANTS
  SearchTables,     \* how many search lists there are (a power of two)
  Profiles

ASSUME SearchAssumption == SearchTables \in Nat \ {0} /\ Profiles # {}

VARIABLES
  mProfName,           \* each base's profile name
  m_searchManage       \* the search lists, as sequences of base IDs

searchVars == << mProfName, m_searchManage >>

\* fManager_c::getSearchTableNum, and the same mask in searchBaseByID.
getSearchTableNum(id) == id % SearchTables

SearchInit ==
  /\ Init
  /\ mProfName = [b \in Bases |-> CHOOSE p \in Profiles : TRUE]
  /\ m_searchManage = [i \in 0..(SearchTables - 1) |-> << >>]

\* The constructor adds the base to the tree and to its search list, and
\* postDelete removes it from both.
Construct(p, prof) ==
  LET b == m_rootUniqueID IN
  /\ ConstructNode(p)
  /\ m_searchManage' = [m_searchManage EXCEPT ![getSearchTableNum(b)] = Cons(b, @)]
  /\ mProfName' = [mProfName EXCEPT ![b] = prof]

\* Mutant: the base stays in its search list.
DestroyUnsearched(b) == DestroyNode(b) /\ UNCHANGED searchVars

Destroy(b) ==
  /\ DestroyNode(b)
  /\ m_searchManage' = [m_searchManage EXCEPT ![getSearchTableNum(b)] = Unlink(@, b)]
  /\ UNCHANGED mProfName

SearchNext ==
  \/ \E p \in live \cup {Null}, prof \in Profiles : Construct(p, prof)
  \/ \E b \in live : Destroy(b)

SearchSpec == SearchInit /\ [][SearchNext]_<< vars, searchVars >>

\* The first base from x on, in the order of the walk, that has the profile.
FirstWith(prof, x) ==
  LET found[y \in NodeOrNull] ==
        IF y = Null \/ mProfName[y] = prof THEN y ELSE found[getTreeNext(y)]
  IN found[x]

\* Mutant: the children of the base to start from are passed over.
searchBaseByProfNameAfter(prof, from) ==
  FirstWith(prof, IF from # Null THEN getTreeNextNotChild(from) ELSE mpRootNode)

\* With a base to start from the search starts at the node after it.
searchBaseByProfName(prof, from) ==
  FirstWith(prof, IF from # Null THEN getTreeNext(from) ELSE mpRootNode)

searchBaseByID(id) ==
  IF id \in ToSet(m_searchManage[getSearchTableNum(id)]) THEN id ELSE Null

-----------------------------------------------------------------------------

\* An ID that game code has kept finds its base while that lives, and nothing
\* once it is destroyed: no ID is lost, shared or looked for in another list.
IDsFindTheirBases ==
  \A id \in Bases : searchBaseByID(id) = IF id \in live THEN id ELSE Null

\* The loop that game code writes, from no base and then from each result on.
SearchLoop(prof) ==
  LET hit[k \in 1..m_rootUniqueID] ==
        IF k = 1 THEN searchBaseByProfName(prof, Null)
        ELSE IF hit[k - 1] = Null THEN Null ELSE searchBaseByProfName(prof, hit[k - 1])
  IN hit

\* It meets every base of the profile once and ends.
SearchLoopMeetsAll ==
  \A prof \in Profiles : MeetsOnce(SearchLoop(prof), {b \in live : mProfName[b] = prof})
=============================================================================
