-------------------------------- MODULE CTree --------------------------------
(***************************************************************************)
(* cTreeMg_c and cTreeNd_c, pointer by pointer: the connect tree as a left *)
(* child, right sibling tree with links back.  `live' and `parent' are     *)
(* history variables: the tree that FBase computes with (module FTree).    *)
(* What there is to show is that the pointers always spell that tree, and  *)
(* that getTreeNext walks it as FBase does.                                *)
(***************************************************************************)
EXTENDS FList

CONSTANTS Bases      \* the IDs of the bases that are ever constructed

ASSUME BasesAssumption == Bases \subseteq Nat \ {Null}

VARIABLES
  mpParent, mpChild, mpPrev, mpNext,     \* of each base's connect node
  mpRootNode,
  m_rootUniqueID,                        \* the ID of the next base
  live, parent                           \* history: the tree

treeVars == << mpParent, mpChild, mpPrev, mpNext, mpRootNode >>
vars == << treeVars, m_rootUniqueID, live, parent >>

INSTANCE FTree

NodeOrNull == Bases \cup {Null}

forcedClear == [b \in Bases |-> Null]

Init ==
  /\ mpParent = forcedClear /\ mpChild = forcedClear
  /\ mpPrev = forcedClear /\ mpNext = forcedClear
  /\ mpRootNode = Null
  /\ m_rootUniqueID = 1
  /\ live = {}
  /\ parent = forcedClear

\* The end of the sibling chain that starts at c.
LastSibling(c) ==
  LET last[x \in Bases] == IF mpNext[x] = Null THEN x ELSE last[mpNext[x]]
  IN last[c]

\* n becomes the last child of p, or the last root if p is null.
addTreeNode(n, p) ==
  LET eldest == IF p # Null THEN mpChild[p] ELSE mpRootNode IN
  /\ mpParent' = IF p # Null THEN [mpParent EXCEPT ![n] = p] ELSE mpParent
  /\ IF eldest # Null
     THEN /\ mpNext' = [mpNext EXCEPT ![LastSibling(eldest)] = n]
          /\ mpPrev' = [mpPrev EXCEPT ![n] = LastSibling(eldest)]
          /\ UNCHANGED << mpChild, mpRootNode >>
     ELSE /\ mpChild' = IF p # Null THEN [mpChild EXCEPT ![p] = n] ELSE mpChild
          /\ mpRootNode' = IF p = Null THEN n ELSE mpRootNode
          /\ UNCHANGED << mpPrev, mpNext >>

\* Mutant: the next sibling keeps its link back.
removeTreeNodeForward(n) ==
  LET pred == mpPrev[n]
      succ == mpNext[n]
      p == mpParent[n]
  IN
  /\ mpChild[n] = Null
  /\ mpNext' = [m \in Bases |-> IF m = n THEN Null ELSE IF m = pred THEN succ ELSE mpNext[m]]
  /\ mpPrev' = [mpPrev EXCEPT ![n] = Null]
  /\ mpChild' = IF pred = Null /\ p # Null THEN [mpChild EXCEPT ![p] = succ] ELSE mpChild
  /\ mpRootNode' = IF pred = Null /\ p = Null /\ n = mpRootNode THEN succ ELSE mpRootNode
  /\ mpParent' = [mpParent EXCEPT ![n] = Null]

\* A node that has children is not removed.
removeTreeNode(n) ==
  LET pred == mpPrev[n]
      succ == mpNext[n]
      isEldest == pred = Null
      p == mpParent[n]
  IN
  /\ mpChild[n] = Null
  /\ mpNext' = [m \in Bases |-> IF m = n THEN Null ELSE IF m = pred THEN succ ELSE mpNext[m]]
  /\ mpPrev' = [m \in Bases |-> IF m = n THEN Null ELSE IF m = succ THEN pred ELSE mpPrev[m]]
  /\ mpChild' = IF isEldest /\ p # Null THEN [mpChild EXCEPT ![p] = succ] ELSE mpChild
  /\ mpRootNode' = IF isEldest /\ p = Null /\ n = mpRootNode THEN succ ELSE mpRootNode
  /\ mpParent' = [mpParent EXCEPT ![n] = Null]

\* Mutant: only the parent's sibling is looked for.
getTreeNextNotChildNear(b) ==
  IF mpNext[b] # Null \/ mpParent[b] = Null THEN mpNext[b] ELSE mpNext[mpParent[b]]

getTreeNextNotChild(b) ==
  LET up[x \in NodeOrNull] == IF x = Null THEN Null
                              ELSE IF mpNext[x] # Null THEN mpNext[x] ELSE up[mpParent[x]]
  IN up[b]

getTreeNext(b) == IF mpChild[b] # Null THEN mpChild[b] ELSE getTreeNextNotChild(b)

-----------------------------------------------------------------------------

\* A base is constructed under a living one, and destroyed without children
\* (FBase's ParentOutlivesChildren and NoLateChild).
ConstructNode(p) ==
  /\ m_rootUniqueID \in Bases
  /\ addTreeNode(m_rootUniqueID, p)
  /\ m_rootUniqueID' = m_rootUniqueID + 1
  /\ live' = live \cup {m_rootUniqueID}
  /\ parent' = [parent EXCEPT ![m_rootUniqueID] = p]

DestroyNode(b) ==
  /\ removeTreeNode(b)
  /\ live' = live \ {b}
  /\ UNCHANGED << m_rootUniqueID, parent >>

Next ==
  \/ \E p \in live \cup {Null} : ConstructNode(p)
  \/ \E b \in live : DestroyNode(b)

Spec == Init /\ [][Next]_vars

-----------------------------------------------------------------------------

\* The pointers spell the tree, in the order in which the bases were
\* constructed, and a destroyed base is pointed to by nobody.
PointersSpellTree ==
  /\ mpRootNode = FirstOf(Roots)
  /\ \A b \in live :
       /\ mpParent[b] = parent[b]
       /\ mpChild[b] = FirstOf(Children(b))
       /\ mpNext[b] = Sibling(b)
       /\ \A c \in live : mpNext[b] = c <=> mpPrev[c] = b
  /\ \A b \in Bases \ live : mpChild[b] = Null /\ mpNext[b] = Null /\ mpPrev[b] = Null

\* The walk of the tree, as walkPack takes it.  m_rootUniqueID is more than the
\* bases there are, so it is over by then.
WalkOrder ==
  LET at[k \in 1..m_rootUniqueID] ==
        IF k = 1 THEN mpRootNode
        ELSE IF at[k - 1] = Null THEN Null ELSE getTreeNext(at[k - 1])
  IN at

\* f meets every member of S once, nothing else, and comes to its end.
MeetsOnce(f, S) ==
  /\ {f[k] : k \in DOMAIN f} = S \cup {Null}
  /\ \A i, j \in DOMAIN f : f[i] = f[j] => i = j \/ f[i] = Null

\* The walk meets every living base once, each one right before its own
\* descendants; getTreeNextNotChild passes over exactly those; and the walk goes
\* on as FBase has it.
WalkIsPreorder ==
  LET at == WalkOrder IN
  /\ MeetsOnce(at, live)
  /\ \A i \in DOMAIN at : at[i] # Null =>
       /\ \E j \in (i + 1)..m_rootUniqueID :
            /\ at[j] = getTreeNextNotChild(at[i])
            /\ {at[k] : k \in (i + 1)..(j - 1)} = Descendants(at[i])
       /\ getTreeNext(at[i]) = TreeNext(at[i])
=============================================================================
