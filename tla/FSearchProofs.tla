---------------------------- MODULE FSearchProofs ----------------------------
(***************************************************************************)
(* The theorems of the connect tree's pointers (CTree) and of the search   *)
(* API on top of them (FSearch), for any bases, profiles and number of     *)
(* search lists: the pointers spell the tree that FBase computes with, its *)
(* walk meets every base once and in FBase's order, a search loop meets    *)
(* every base of its profile once, and an ID finds its base.               *)
(***************************************************************************)
EXTENDS FSearch, FListProofs

-----------------------------------------------------------------------------
(* The first of a set of bases.                                            *)

LEMMA FirstIsLeast ==
  ASSUME NEW T \in SUBSET (Nat \ {Null})
  PROVE  /\ T = {} => FirstOf(T) = Null
         /\ T # {} => FirstOf(T) \in T /\ FirstOf(T) # Null /\ \A c \in T : FirstOf(T) <= c
         /\ \A x \in T : (\A c \in T : x <= c) => FirstOf(T) = x
<1>1. CASE T = {}
  BY <1>1 DEF FirstOf
<1>2. CASE T # {}
  <2>1. T \in SUBSET Nat /\ Null \notin T
    OBVIOUS
  <2>2. FirstOf(T) \in T /\ \A c \in T : FirstOf(T) <= c
    BY <1>2, <2>1, MinIn DEF FirstOf
  <2>3. ASSUME NEW x \in T, \A c \in T : x <= c PROVE FirstOf(T) = x
    <3>1. x \in Nat /\ FirstOf(T) \in Nat /\ x <= FirstOf(T) /\ FirstOf(T) <= x
      BY <2>1, <2>2, <2>3
    <3> QED BY <3>1
  <2> QED BY <1>2, <2>1, <2>2, <2>3
<1> QED BY <1>1, <1>2

LEMMA FirstRemoved ==
  ASSUME NEW T \in SUBSET (Nat \ {Null}), NEW n \in Nat
  PROVE  FirstOf(T \ {n}) = IF FirstOf(T) = n THEN FirstOf({c \in T : c > n}) ELSE FirstOf(T)
<1> DEFINE U == {c \in T : c > n}
           V == T \ {n}
<1>1. U \in SUBSET (Nat \ {Null}) /\ V \in SUBSET (Nat \ {Null})
  OBVIOUS
<1>2. CASE T = {}
  <2>1. V = {} /\ U = {}
    BY <1>2
  <2>2. FirstOf(T) = Null /\ FirstOf(U) = Null /\ FirstOf(V) = Null
    BY <1>2, <2>1 DEF FirstOf
  <2> QED BY <2>2
<1>3. CASE T # {} /\ FirstOf(T) = n
  <2>1. n \in T /\ \A c \in T : n <= c
    BY <1>3, FirstIsLeast
  <2>2. \A c \in T : c > n <=> c # n
    <3>1. \A c \in T : c \in Nat /\ n <= c
      BY <2>1
    <3> QED BY <3>1
  <2>3. U = V
    BY <2>2
  <2> QED BY <1>3, <2>3
<1>4. CASE T # {} /\ FirstOf(T) # n
  <2>1. FirstOf(T) \in V /\ \A c \in V : FirstOf(T) <= c
    BY <1>4, FirstIsLeast
  <2>2. FirstOf(V) = FirstOf(T)
    BY <1>1, <2>1, FirstIsLeast
  <2> QED BY <1>4, <2>2
<1> QED BY <1>2, <1>3, <1>4

LEMMA FirstAdded ==
  ASSUME NEW T \in SUBSET (Nat \ {Null}), NEW n \in Nat \ {Null}, \A c \in T : c < n
  PROVE  FirstOf(T \cup {n}) = IF T = {} THEN n ELSE FirstOf(T)
<1> DEFINE V == T \cup {n}
<1>1. V \in SUBSET (Nat \ {Null})
  OBVIOUS
<1>2. CASE T = {}
  <2>1. n \in V /\ \A c \in V : n <= c
    BY <1>2
  <2>2. FirstOf(V) = n
    BY <1>1, <2>1, FirstIsLeast
  <2> QED BY <1>2, <2>2
<1>3. CASE T # {}
  <2>1. FirstOf(T) \in T /\ \A c \in T : FirstOf(T) <= c
    BY <1>3, FirstIsLeast
  <2>2. FirstOf(T) <= n
    <3>1. FirstOf(T) \in Nat /\ FirstOf(T) < n
      BY <2>1
    <3> QED BY <3>1
  <2>3. FirstOf(T) \in V /\ \A c \in V : FirstOf(T) <= c
    BY <2>1, <2>2
  <2>4. FirstOf(V) = FirstOf(T)
    BY <1>1, <2>3, FirstIsLeast
  <2> QED BY <1>3, <2>4
<1> QED BY <1>2, <1>3

-----------------------------------------------------------------------------
(* The invariant.                                                          *)

Pointers ==
  /\ mpParent \in [Bases -> NodeOrNull] /\ mpChild \in [Bases -> NodeOrNull]
  /\ mpPrev \in [Bases -> NodeOrNull] /\ mpNext \in [Bases -> NodeOrNull]

\* A parent lives and is older; the next ID is nobody's.
Ages ==
  /\ m_rootUniqueID \in Nat \ {Null} /\ live \in SUBSET Bases /\ parent \in [Bases -> NodeOrNull]
  /\ \A b \in live : b < m_rootUniqueID
  /\ \A b \in live : parent[b] = Null \/ (parent[b] \in live /\ parent[b] < b)

\* A link back leads to a living base, and a base that is not in the tree has
\* no parent: addTreeNode does not clear the node it adds.
Links ==
  /\ \A b \in live : mpPrev[b] \in live \cup {Null}
  /\ \A b \in Bases \ live : mpParent[b] = Null

TreeInv == Pointers /\ Ages /\ PointersSpellTree /\ Links

\* The search lists hold the living bases of their IDs.
SearchLists ==
  /\ m_searchManage \in [0 .. SearchTables - 1 -> Seq(Bases)]
  /\ \A i \in 0 .. SearchTables - 1 :
       /\ Injective(m_searchManage[i])
       /\ ToSet(m_searchManage[i]) = {b \in live : getSearchTableNum(b) = i}

SearchInv == TreeInv /\ SearchLists

LEMMA AgesAre ==
  ASSUME Ages
  PROVE  /\ Null \notin Bases /\ Bases \in SUBSET Nat /\ live \in SUBSET (Nat \ {Null})
         /\ \A p : Children(p) \in SUBSET (Nat \ {Null}) /\ Children(p) \in SUBSET live
         /\ \A c \in live : c \in Children(parent[c])
BY BasesAssumption DEF Ages, Children

\* A sibling is a younger child of the same parent.
LEMMA SiblingIs ==
  ASSUME Ages, NEW b \in live
  PROVE  LET T == {c \in Children(parent[b]) : c > b} IN
         /\ T \in SUBSET (Nat \ {Null})
         /\ T = {} <=> Sibling(b) = Null
         /\ Sibling(b) # Null =>
              /\ Sibling(b) \in live /\ parent[Sibling(b)] = parent[b] /\ Sibling(b) > b
              /\ \A c \in T : Sibling(b) <= c
<1> DEFINE T == {c \in Children(parent[b]) : c > b}
<1>1. T \in SUBSET (Nat \ {Null})
  BY AgesAre
<1>2. Sibling(b) = FirstOf(T)
  BY DEF Sibling
<1>3. \A c \in T : c \in live /\ parent[c] = parent[b] /\ c > b
  BY DEF Children
<1> HIDE DEF T
<1>4. (T = {} => FirstOf(T) = Null) /\ (T # {} => FirstOf(T) \in T /\ FirstOf(T) # Null
      /\ \A c \in T : FirstOf(T) <= c)
  BY <1>1, FirstIsLeast
<1> QED BY <1>1, <1>2, <1>3, <1>4 DEF T

-----------------------------------------------------------------------------
(* addTreeNode's walk to the last sibling.                                 *)

\* The recursive function of LastSibling.
Lasts ==
  CHOOSE last : last = [x \in Bases |-> IF mpNext[x] = Null THEN x ELSE last[mpNext[x]]]

LEMMA LastSiblingIs ==
  ASSUME TreeInv, NEW x \in live
  PROVE  /\ LastSibling(x) = Max(Children(parent[x]))
         /\ Max(Children(parent[x])) \in Children(parent[x])
         /\ \A c \in Children(parent[x]) : c <= Max(Children(parent[x]))
<1> DEFINE eldestOf(b) == Max(Children(parent[b]))
           g == [b \in Bases |-> IF b \in live THEN eldestOf(b) ELSE b]
<1>1. Ages /\ PointersSpellTree
  BY DEF TreeInv
<1>2. ASSUME NEW b \in live
      PROVE  eldestOf(b) \in Children(parent[b]) /\ \A c \in Children(parent[b]) : c <= eldestOf(b)
  <2>1. Children(parent[b]) \in SUBSET Nat /\ b \in Children(parent[b])
        /\ \A c \in Children(parent[b]) : c <= m_rootUniqueID
    <3>1. \A c \in live : c \in Nat /\ c < m_rootUniqueID /\ m_rootUniqueID \in Nat
      BY <1>1, AgesAre DEF Ages
    <3> QED BY <1>1, <3>1, AgesAre
  <2> QED BY <1>1, <2>1, MaxIn DEF Ages
<1>3. ASSUME NEW b \in live, mpNext[b] = Null PROVE eldestOf(b) = b
  <2>1. {c \in Children(parent[b]) : c > b} = {}
    BY <1>1, <1>3, SiblingIs DEF PointersSpellTree
  <2>2. eldestOf(b) \in Nat /\ b \in Nat /\ b <= eldestOf(b)
    BY <1>1, <1>2, AgesAre
  <2>3. ~(eldestOf(b) > b)
    BY <1>2, <2>1
  <2> HIDE DEF eldestOf
  <2> QED BY <2>2, <2>3
<1>4. ASSUME NEW b \in live, mpNext[b] # Null
      PROVE  mpNext[b] \in live /\ mpNext[b] > b /\ eldestOf(mpNext[b]) = eldestOf(b)
  BY <1>1, <1>4, SiblingIs DEF PointersSpellTree
<1> HIDE DEF eldestOf
<1>5. live \subseteq Bases /\ \A b \in Bases \ live : mpNext[b] = Null
  BY <1>1 DEF Ages, PointersSpellTree
<1>6. g = [b \in Bases |-> IF mpNext[b] = Null THEN b ELSE g[mpNext[b]]]
  <2>1. ASSUME NEW b \in Bases PROVE g[b] = IF mpNext[b] = Null THEN b ELSE g[mpNext[b]]
    BY <1>3, <1>4, <1>5
  <2>2. g = [b \in Bases |-> g[b]]
    OBVIOUS
  <2> HIDE DEF g
  <2> QED BY <2>1, <2>2
<1> HIDE DEF g
<1>7. Lasts = [b \in Bases |-> IF mpNext[b] = Null THEN b ELSE Lasts[mpNext[b]]]
  BY <1>6 DEF Lasts
<1>8. ASSUME NEW b \in live
      PROVE  Lasts[b] = IF mpNext[b] = Null THEN b ELSE Lasts[mpNext[b]]
  BY <1>5, <1>7
<1> DEFINE T == {b \in live : Lasts[b] # eldestOf(b)}
<1>9. T = {}
  <2> SUFFICES ASSUME T # {} PROVE FALSE
    OBVIOUS
  <2>1. T \in SUBSET Nat /\ m_rootUniqueID \in Nat /\ \A b \in T : b <= m_rootUniqueID
    <3>1. \A c \in live : c \in Nat /\ c < m_rootUniqueID /\ m_rootUniqueID \in Nat
      BY <1>1, AgesAre DEF Ages
    <3> QED BY <1>1, <3>1 DEF Ages
  <2>2. PICK b \in T : \A c \in T : c <= b
    BY <2>1, NatMax
  <2>3. b \in live /\ Lasts[b] # eldestOf(b) /\ b \in Nat
    BY <2>1, <2>2
  <2>4. mpNext[b] # Null
    BY <1>3, <1>8, <2>3
  <2>5. mpNext[b] \in live /\ mpNext[b] > b /\ eldestOf(mpNext[b]) = eldestOf(b)
    BY <1>4, <2>3, <2>4
  <2>6. mpNext[b] \notin T
    <3>1. mpNext[b] \in Nat
      BY <1>1, <2>5, AgesAre
    <3> QED BY <2>2, <2>3, <2>5, <3>1
  <2> QED BY <1>8, <2>3, <2>4, <2>5, <2>6
<1>10. LastSibling(x) = Lasts[x]
  BY DEF LastSibling, Lasts
<1>11. LastSibling(x) = eldestOf(x)
  BY <1>9, <1>10
<1> QED BY <1>2, <1>11 DEF eldestOf

-----------------------------------------------------------------------------
(* A base is constructed.                                                  *)

\* The tree gets n as the youngest child of p, and no other child or sibling.
LEMMA Grows ==
  ASSUME TreeInv, NEW p \in live \cup {Null}, ConstructNode(p),
         NEW n, n = m_rootUniqueID
  PROVE  /\ n \in Bases \ live /\ n \in Nat \ {Null} /\ n # p /\ \A b \in live : b < n
         /\ live' = live \cup {n} /\ parent' \in [Bases -> NodeOrNull]
         /\ parent'[n] = p /\ \A b \in live : parent'[b] = parent[b]
         /\ Children(p)' = Children(p) \cup {n}
         /\ \A q \in live \cup {Null} : q # p => Children(q)' = Children(q)
         /\ Children(n)' = {}
<1>1. Ages /\ n \in Bases /\ live' = live \cup {n} /\ parent' = [parent EXCEPT ![n] = p]
  BY DEF TreeInv, ConstructNode
<1>2. n \in Nat \ {Null} /\ n \notin live /\ p \in NodeOrNull
      /\ \A b \in live : b < n /\ b \in Bases /\ b \in Nat
  <2>1. n \in Nat \ {Null} /\ \A b \in live : b < n /\ b \in Bases /\ b \in Nat
    BY <1>1, AgesAre DEF Ages
  <2>2. n \notin live
    BY <2>1
  <2> QED BY <1>1, <2>1, <2>2 DEF NodeOrNull
<1>3. /\ parent' \in [Bases -> NodeOrNull] /\ parent'[n] = p
      /\ \A b \in live : parent'[b] = parent[b]
  BY <1>1, <1>2 DEF Ages
<1>4. \A b \in live : parent[b] # n
  BY <1>1, <1>2 DEF Ages
<1>5. n # p
  BY <1>1, <1>2
<1>6. \A q : Children(q)' = {c \in live' : parent'[c] = q}
  BY DEF Children
<1>7. \A q : Children(q) = {c \in live : parent[c] = q}
  BY DEF Children
<1>8. Children(p)' = Children(p) \cup {n}
  BY <1>1, <1>3, <1>6, <1>7
<1>9. ASSUME NEW q \in live \cup {Null}, q # p PROVE Children(q)' = Children(q)
  BY <1>1, <1>3, <1>6, <1>7, <1>9
<1>10. Children(n)' = {}
  BY <1>1, <1>3, <1>4, <1>5, <1>6
<1> QED BY <1>1, <1>2, <1>3, <1>5, <1>8, <1>9, <1>10

\* The sibling of the youngest child is now n.
LEMMA GrowsSibling ==
  ASSUME TreeInv, NEW p \in live \cup {Null}, ConstructNode(p),
         NEW n, n = m_rootUniqueID
  PROVE  /\ Sibling(n)' = Null
         /\ \A b \in live :
              Sibling(b)' = IF parent[b] = p /\ Sibling(b) = Null THEN n ELSE Sibling(b)
<1>1. /\ n \in Bases \ live /\ n \in Nat \ {Null} /\ n # p /\ \A b \in live : b < n
      /\ live' = live \cup {n} /\ parent'[n] = p /\ \A b \in live : parent'[b] = parent[b]
      /\ Children(p)' = Children(p) \cup {n}
      /\ \A q \in live \cup {Null} : q # p => Children(q)' = Children(q)
  BY Grows
<1>2. Ages
  BY DEF TreeInv
<1>3. \A b, q : parent'[b] = q => Sibling(b)' = FirstOf({c \in Children(q)' : c > b})
  BY DEF Sibling, Children, FirstOf
<1>4. Sibling(n)' = Null
  <2>1. {c \in Children(p)' : c > n} = {}
    <3>1. \A c \in Children(p) : c \in live /\ c < n /\ c \in Nat
      BY <1>1, <1>2, AgesAre
    <3> QED BY <1>1, <3>1
  <2>2. Sibling(n)' = FirstOf({c \in Children(p)' : c > n})
    BY <1>1, <1>3
  <2> QED BY <2>1, <2>2 DEF FirstOf
<1>5. ASSUME NEW b \in live
      PROVE  Sibling(b)' = IF parent[b] = p /\ Sibling(b) = Null THEN n ELSE Sibling(b)
  <2> DEFINE T == {c \in Children(parent[b]) : c > b}
  <2>1. T \in SUBSET (Nat \ {Null}) /\ (T = {} <=> Sibling(b) = Null) /\ Sibling(b) = FirstOf(T)
        /\ \A c \in T : c < n
    <3>1. T \in SUBSET (Nat \ {Null}) /\ (T = {} <=> Sibling(b) = Null)
      BY <1>2, SiblingIs
    <3>2. T \in SUBSET live
      BY <1>2, AgesAre
    <3> QED BY <1>1, <3>1, <3>2 DEF Sibling
  <2>2. CASE parent[b] = p
    <3>1. b \in Nat /\ b < n
      BY <1>1, <1>2, AgesAre
    <3>2. {c \in Children(p)' : c > b} = T \cup {n}
      BY <1>1, <2>2, <3>1
    <3>3. Sibling(b)' = FirstOf(T \cup {n})
      BY <1>1, <1>3, <2>2, <3>2
    <3> HIDE DEF T
    <3>4. FirstOf(T \cup {n}) = IF T = {} THEN n ELSE FirstOf(T)
      BY <1>1, <2>1, FirstAdded
    <3> QED BY <2>1, <2>2, <3>3, <3>4
  <2>3. CASE parent[b] # p
    <3>1. Children(parent[b])' = Children(parent[b])
      BY <1>1, <1>2, <2>3 DEF Ages
    <3> QED BY <1>1, <1>3, <2>3, <3>1 DEF Sibling
  <2> QED BY <2>2, <2>3
<1> QED BY <1>4, <1>5

\* The pointers of the same step: only the youngest sibling, or the parent if
\* there is none, points to n.
LEMMA GrowsPointers ==
  ASSUME TreeInv, NEW p \in live \cup {Null}, ConstructNode(p),
         NEW n, n = m_rootUniqueID
  PROVE  /\ Pointers'
         /\ mpParent'[n] = p /\ \A b \in Bases : b # n => mpParent'[b] = mpParent[b]
         /\ \A b \in Bases : mpNext'[b] =
              IF b \in live /\ parent[b] = p /\ Sibling(b) = Null THEN n ELSE mpNext[b]
         /\ \A b \in Bases : b # n => mpPrev'[b] = mpPrev[b]
         /\ Children(p) = {} => mpPrev'[n] = Null
         /\ Children(p) # {} => /\ mpPrev'[n] \in live /\ parent[mpPrev'[n]] = p
                                /\ Sibling(mpPrev'[n]) = Null
         /\ \A b \in Bases :
              mpChild'[b] = IF b = p /\ Children(p) = {} THEN n ELSE mpChild[b]
         /\ mpRootNode' = IF Null = p /\ Children(p) = {} THEN n ELSE mpRootNode
<1> DEFINE eldest == IF p # Null THEN mpChild[p] ELSE mpRootNode
<1>1. n \in Bases \ live /\ n \in Nat \ {Null} /\ n # p
  BY Grows
<1>2. Ages /\ Pointers /\ PointersSpellTree /\ Links /\ addTreeNode(n, p)
  BY DEF TreeInv, ConstructNode
<1>3. mpPrev[n] = Null /\ mpNext[n] = Null /\ mpParent[n] = Null
  BY <1>1, <1>2 DEF PointersSpellTree, Links
<1>4. eldest = FirstOf(Children(p))
  BY <1>2 DEF PointersSpellTree, Roots
<1>5. live \subseteq Bases /\ p \in NodeOrNull /\ n \in NodeOrNull /\ Null \notin Bases
  BY <1>1, <1>2, AgesAre DEF Ages, NodeOrNull
<1>6. mpParent' \in [Bases -> NodeOrNull] /\ mpParent'[n] = p
      /\ \A b \in Bases : b # n => mpParent'[b] = mpParent[b]
  BY <1>1, <1>2, <1>3, <1>5 DEF addTreeNode, Pointers
<1>7. CASE Children(p) = {}
  <2>1. eldest = Null
    BY <1>4, <1>7 DEF FirstOf
  <2>2. UNCHANGED << mpPrev, mpNext >>
        /\ mpChild' = (IF p # Null THEN [mpChild EXCEPT ![p] = n] ELSE mpChild)
        /\ mpRootNode' = (IF p = Null THEN n ELSE mpRootNode)
    BY <1>2, <2>1 DEF addTreeNode
  <2>3. \A b \in live : parent[b] # p
    BY <1>7 DEF Children
  <2>4. mpChild' \in [Bases -> NodeOrNull]
        /\ \A b \in Bases : mpChild'[b] = IF b = p THEN n ELSE mpChild[b]
    BY <1>2, <1>5, <2>2 DEF Pointers
  <2>5. Pointers'
    BY <1>2, <1>6, <2>2, <2>4 DEF Pointers
  <2> QED BY <1>3, <1>6, <1>7, <2>2, <2>3, <2>4, <2>5
<1>8. CASE Children(p) # {}
  <2>1. eldest \in live /\ parent[eldest] = p /\ eldest # Null
    <3>1. Children(p) \in SUBSET (Nat \ {Null})
      BY <1>2, AgesAre
    <3>2. FirstOf(Children(p)) \in Children(p) /\ FirstOf(Children(p)) # Null
      BY <1>8, <3>1, FirstIsLeast
    <3> QED BY <1>4, <3>2 DEF Children
  <2> DEFINE m == LastSibling(eldest)
  <2>2. m \in Children(p) /\ \A c \in Children(p) : c <= m
    <3> HIDE DEF eldest
    <3> QED BY <2>1, LastSiblingIs
  <2>3. /\ mpNext' = [mpNext EXCEPT ![m] = n]
        /\ mpPrev' = [mpPrev EXCEPT ![n] = m]
        /\ UNCHANGED << mpChild, mpRootNode >>
    BY <1>2, <2>1 DEF addTreeNode
  <2> HIDE DEF m, eldest
  <2>4. m \in live /\ parent[m] = p /\ m \in Bases /\ m # n
    BY <1>1, <1>5, <2>2 DEF Children
  <2>5. \A b \in live : (parent[b] = p /\ Sibling(b) = Null) <=> b = m
    <3>1. ASSUME NEW b \in live, parent[b] = p, Sibling(b) = Null PROVE b = m
      <4>1. {c \in Children(p) : c > b} = {}
        BY <1>2, <3>1, SiblingIs
      <4>2. ~(m > b) /\ b <= m
        BY <2>2, <3>1, <4>1 DEF Children
      <4>3. b \in Nat /\ m \in Nat
        BY <1>2, <2>4, AgesAre
      <4> QED BY <4>2, <4>3
    <3>2. Sibling(m) = Null
      <4>1. \A c \in Children(p) : c \in Nat /\ m \in Nat /\ c <= m
        BY <1>2, <2>2, AgesAre
      <4>2. {c \in Children(p) : c > m} = {}
        BY <4>1
      <4> QED BY <1>2, <2>4, <4>2, SiblingIs
    <3> QED BY <2>4, <3>1, <3>2
  <2>6. /\ mpNext' \in [Bases -> NodeOrNull] /\ mpPrev' \in [Bases -> NodeOrNull]
        /\ \A b \in Bases : mpNext'[b] = IF b = m THEN n ELSE mpNext[b]
        /\ \A b \in Bases : mpPrev'[b] = IF b = n THEN m ELSE mpPrev[b]
    <3>1. m \in NodeOrNull
      BY <2>4 DEF NodeOrNull
    <3> QED BY <1>1, <1>2, <1>5, <2>3, <2>4, <3>1 DEF Pointers
  <2>7. Pointers'
    BY <1>2, <1>6, <2>3, <2>6 DEF Pointers
  <2>8. \A b \in Bases : mpNext'[b] =
              IF b \in live /\ parent[b] = p /\ Sibling(b) = Null THEN n ELSE mpNext[b]
    BY <2>4, <2>5, <2>6
  <2>9. mpPrev'[n] = m /\ Sibling(m) = Null /\ \A b \in Bases : b # n => mpPrev'[b] = mpPrev[b]
    BY <1>1, <2>4, <2>5, <2>6
  <2> QED BY <1>6, <1>8, <2>3, <2>4, <2>7, <2>8, <2>9
<1> QED BY <1>7, <1>8

LEMMA ConstructTree ==
  ASSUME TreeInv, NEW p \in live \cup {Null}, ConstructNode(p)
  PROVE  TreeInv'
<1>1. PICK m : m = m_rootUniqueID
  OBVIOUS
<1>2. /\ m \in Bases \ live /\ m \in Nat \ {Null} /\ m # p /\ \A b \in live : b < m
      /\ live' = live \cup {m} /\ parent' \in [Bases -> NodeOrNull]
      /\ parent'[m] = p /\ \A b \in live : parent'[b] = parent[b]
      /\ Children(p)' = Children(p) \cup {m}
      /\ \A q \in live \cup {Null} : q # p => Children(q)' = Children(q)
      /\ Children(m)' = {}
  BY <1>1, Grows
<1>3. /\ Sibling(m)' = Null
      /\ \A b \in live :
           Sibling(b)' = IF parent[b] = p /\ Sibling(b) = Null THEN m ELSE Sibling(b)
  BY <1>1, GrowsSibling
<1>4. /\ Pointers'
      /\ mpParent'[m] = p /\ \A b \in Bases : b # m => mpParent'[b] = mpParent[b]
      /\ \A b \in Bases : mpNext'[b] =
           IF b \in live /\ parent[b] = p /\ Sibling(b) = Null THEN m ELSE mpNext[b]
      /\ \A b \in Bases : b # m => mpPrev'[b] = mpPrev[b]
      /\ Children(p) = {} => mpPrev'[m] = Null
      /\ Children(p) # {} => /\ mpPrev'[m] \in live /\ parent[mpPrev'[m]] = p
                             /\ Sibling(mpPrev'[m]) = Null
      /\ \A b \in Bases :
           mpChild'[b] = IF b = p /\ Children(p) = {} THEN m ELSE mpChild[b]
      /\ mpRootNode' = IF Null = p /\ Children(p) = {} THEN m ELSE mpRootNode
  BY <1>1, GrowsPointers
<1>5. Ages /\ PointersSpellTree /\ Links
  BY DEF TreeInv
<1>6. m_rootUniqueID' = m + 1
  BY <1>1 DEF ConstructNode
<1>7. live \subseteq Bases /\ Null \notin live /\ Null \notin Bases
  BY <1>5, AgesAre DEF Ages
<1>8. Ages'
  <2>1. m_rootUniqueID' \in Nat \ {Null} /\ \A b \in live' : b < m_rootUniqueID'
    BY <1>2, <1>5, <1>6, AgesAre DEF Ages, Null
  <2>2. \A b \in live' : parent'[b] = Null \/ (parent'[b] \in live' /\ parent'[b] < b)
    BY <1>2, <1>5 DEF Ages
  <2> QED BY <1>2, <1>7, <2>1, <2>2 DEF Ages
<1>9. FirstOf(Children(p) \cup {m}) = IF Children(p) = {} THEN m ELSE FirstOf(Children(p))
  <2>1. Children(p) \in SUBSET (Nat \ {Null}) /\ \A c \in Children(p) : c < m
    BY <1>2, <1>5, AgesAre
  <2> QED BY <1>2, <2>1, FirstAdded
<1>10. \A q : FirstOf(Children(q))' = FirstOf(Children(q)')
  BY DEF FirstOf
<1>11. mpRootNode' = FirstOf(Roots)'
  <2>1. FirstOf(Roots)' = FirstOf(Children(Null)')
    BY <1>10 DEF Roots
  <2>2. mpRootNode = FirstOf(Children(Null))
    BY <1>5 DEF PointersSpellTree, Roots
  <2> QED BY <1>2, <1>4, <1>9, <2>1, <2>2
<1>12. \A b \in live' : mpChild'[b] = FirstOf(Children(b))'
  <2>1. \A b \in live : mpChild[b] = FirstOf(Children(b))
    BY <1>5 DEF PointersSpellTree
  <2>2. mpChild'[m] = FirstOf(Children(m)')
    <3>1. mpChild[m] = Null
      BY <1>2, <1>5 DEF PointersSpellTree
    <3> QED BY <1>2, <1>4, <3>1 DEF FirstOf
  <2>3. ASSUME NEW b \in live PROVE mpChild'[b] = FirstOf(Children(b)')
    BY <1>2, <1>4, <1>7, <1>9, <2>1, <2>3, SMTT(60)
  <2> QED BY <1>2, <1>10, <2>2, <2>3
<1>13. \A b \in live' : mpParent'[b] = parent'[b]
  BY <1>2, <1>4, <1>5, <1>7 DEF PointersSpellTree
<1>14. \A b \in live' : mpNext'[b] = Sibling(b)'
  <2>1. mpNext'[m] = Sibling(m)'
    <3>1. mpNext[m] = Null
      BY <1>2, <1>5 DEF PointersSpellTree
    <3> QED BY <1>2, <1>3, <1>4, <3>1
  <2>2. ASSUME NEW b \in live PROVE mpNext'[b] = Sibling(b)'
    BY <1>3, <1>4, <1>5, <1>7, <2>2 DEF PointersSpellTree
  <2> QED BY <1>2, <2>1, <2>2
<1>15. ASSUME NEW b \in live', NEW c \in live' PROVE mpNext'[b] = c <=> mpPrev'[c] = b
  <2>1. \A x, y \in live : mpNext[x] = y <=> mpPrev[y] = x
    BY <1>5 DEF PointersSpellTree
  <2>2. \A x \in live : mpNext[x] = Sibling(x) /\ (Sibling(x) = Null \/ Sibling(x) \in live)
    BY <1>5, SiblingIs DEF PointersSpellTree
  <2>3. \A x \in live : mpPrev[x] \in live \cup {Null}
    BY <1>5 DEF Links
  <2>4. mpNext'[m] = Null
    BY <1>2, <1>3, <1>14
  <2>5. CASE b = m
    BY <1>2, <1>4, <1>7, <2>3, <2>4, <2>5
  <2>6. CASE b # m /\ c = m
    <3>1. b \in live /\ mpNext[b] # m
      BY <1>2, <1>7, <2>2, <2>6
    <3>2. mpNext'[b] = m <=> parent[b] = p /\ Sibling(b) = Null
      BY <1>4, <1>7, <3>1
    <3>3. ASSUME parent[b] = p, Sibling(b) = Null PROVE mpPrev'[m] = b
      <4> DEFINE l == mpPrev'[m]
      <4>1. Children(p) # {} /\ b \in Children(p)
        BY <3>1, <3>3 DEF Children
      <4>2. l \in live /\ parent[l] = p /\ Sibling(l) = Null
        BY <1>4, <4>1
      <4>3. {x \in Children(p) : x > b} = {} /\ {x \in Children(p) : x > l} = {}
        BY <1>5, <3>1, <3>3, <4>2, SiblingIs
      <4>4. l \in Children(p) /\ b \in Nat /\ l \in Nat
        BY <1>5, <3>1, <4>2, AgesAre
      <4> HIDE DEF l
      <4>5. l = b
        BY <4>1, <4>3, <4>4
      <4> QED BY <4>5 DEF l
    <3>4. ASSUME mpPrev'[m] = b PROVE parent[b] = p /\ Sibling(b) = Null
      BY <1>4, <1>7, <3>1, <3>4
    <3> QED BY <2>6, <3>2, <3>3, <3>4
  <2>7. CASE b # m /\ c # m
    <3>1. b \in live /\ c \in live /\ mpPrev'[c] = mpPrev[c]
      BY <1>2, <1>4, <1>7, <2>7
    <3>2. mpNext'[b] = c <=> mpNext[b] = c
      BY <1>4, <1>7, <2>2, <2>7, <3>1
    <3> QED BY <2>1, <3>1, <3>2
  <2> QED BY <2>5, <2>6, <2>7
<1>16. \A b \in Bases \ live' : mpChild'[b] = Null /\ mpNext'[b] = Null /\ mpPrev'[b] = Null
  BY <1>2, <1>4, <1>5, <1>7 DEF PointersSpellTree
<1>17. PointersSpellTree'
  BY <1>11, <1>12, <1>13, <1>14, <1>15, <1>16 DEF PointersSpellTree
<1>18. Links'
  <2>1. \A b \in live' : mpPrev'[b] \in live' \cup {Null}
    BY <1>2, <1>4, <1>5, <1>7 DEF Links
  <2>2. \A b \in Bases \ live' : mpParent'[b] = Null
    BY <1>2, <1>4, <1>5, <1>7 DEF Links
  <2> QED BY <2>1, <2>2 DEF Links
<1> QED BY <1>4, <1>8, <1>17, <1>18 DEF TreeInv

-----------------------------------------------------------------------------
(* A base is destroyed.                                                    *)

\* The link back is null on the eldest child only.
LEMMA EldestHasNoPrev ==
  ASSUME TreeInv, NEW n \in live
  PROVE  mpPrev[n] = Null <=> FirstOf(Children(parent[n])) = n
<1>1. Ages /\ PointersSpellTree /\ Links
  BY DEF TreeInv
<1> DEFINE T == Children(parent[n])
<1>2. T \in SUBSET (Nat \ {Null}) /\ T \in SUBSET live /\ n \in T /\ n \in Nat
  BY <1>1, AgesAre
<1>3. ASSUME mpPrev[n] = Null PROVE FirstOf(T) = n
  <2> DEFINE U == {c \in T : c < n}
  <2>1. SUFFICES ASSUME U # {} PROVE FALSE
    <3>1. ASSUME U = {} PROVE \A c \in T : n <= c
      BY <1>2, <3>1
    <3> QED BY <1>2, <2>1, <3>1, FirstIsLeast
  <2>2. U \in SUBSET Nat /\ \A c \in U : c <= n
    BY <1>2
  <2>3. PICK k \in U : \A c \in U : c <= k
    BY <1>2, <2>1, <2>2, NatMax
  <2>4. k \in live /\ parent[k] = parent[n] /\ k < n /\ k \in Nat
    BY <1>2, <2>3 DEF Children
  <2>5. n \in {c \in Children(parent[k]) : c > k}
    BY <1>2, <2>4
  <2>6. /\ Sibling(k) # Null /\ Sibling(k) \in live /\ parent[Sibling(k)] = parent[k]
        /\ Sibling(k) > k /\ Sibling(k) <= n
    BY <1>1, <2>4, <2>5, SiblingIs
  <2>7. Sibling(k) \in T /\ Sibling(k) \in Nat
    BY <1>2, <2>4, <2>6 DEF Children
  <2>8. Sibling(k) = n
    BY <1>2, <2>3, <2>4, <2>6, <2>7
  <2> QED BY <1>1, <1>2, <1>3, <2>4, <2>8, AgesAre DEF PointersSpellTree
<1>4. ASSUME mpPrev[n] # Null PROVE FirstOf(T) # n
  <2> DEFINE k == mpPrev[n]
  <2>1. k \in live /\ mpNext[k] = n
    BY <1>1, <1>4 DEF PointersSpellTree, Links
  <2> HIDE DEF k
  <2>2. Sibling(k) = n /\ n # Null
    BY <1>1, <1>2, <2>1 DEF PointersSpellTree
  <2>3. parent[n] = parent[k] /\ n > k
    BY <1>1, <2>1, <2>2, SiblingIs
  <2>4. k \in T /\ k \in Nat
    BY <1>2, <2>1, <2>3 DEF Children
  <2>5. FirstOf(T) <= k
    BY <1>2, <2>4, FirstIsLeast
  <2> QED BY <1>2, <2>3, <2>4, <2>5
<1> QED BY <1>3, <1>4

\* The tree without n, which has no children.
LEMMA Shrinks ==
  ASSUME TreeInv, NEW n \in live, DestroyNode(n)
  PROVE  /\ live' = live \ {n} /\ parent' = parent /\ Children(n) = {}
         /\ \A b \in live : parent[b] # n
         /\ \A q : Children(q)' = Children(q) \ {n}
         /\ \A q \in NodeOrNull : q # parent[n] => Children(q)' = Children(q)
         /\ \A b \in live \ {n} :
              Sibling(b)' = IF Sibling(b) = n THEN Sibling(n) ELSE Sibling(b)
<1>1. Ages /\ PointersSpellTree
  BY DEF TreeInv
<1>2. live' = live \ {n} /\ parent' = parent /\ mpChild[n] = Null
  BY DEF DestroyNode, removeTreeNode
<1>3. Children(n) = {}
  <2>1. FirstOf(Children(n)) = Null
    BY <1>1, <1>2 DEF PointersSpellTree
  <2> QED BY <1>1, <2>1, AgesAre, FirstIsLeast
<1>4. \A b \in live : parent[b] # n
  BY <1>3 DEF Children
<1>5. \A q : Children(q)' = Children(q) \ {n}
  BY <1>2 DEF Children
<1>6. \A q \in NodeOrNull : q # parent[n] => Children(q)' = Children(q)
  BY <1>5 DEF Children
<1>7. ASSUME NEW b \in live \ {n}
      PROVE  Sibling(b)' = IF Sibling(b) = n THEN Sibling(n) ELSE Sibling(b)
  <2> DEFINE T == Children(parent[b])
             U == {c \in T : c > b}
  <2>1. PICK q : q = parent[b] /\ Sibling(b)' = FirstOf({c \in Children(q)' : c > b})
    BY <1>2 DEF Sibling, Children, FirstOf
  <2>2. {c \in Children(q)' : c > b} = U \ {n}
    BY <1>5, <2>1
  <2>3. U \in SUBSET (Nat \ {Null}) /\ n \in Nat /\ b \in Nat
    BY <1>1, AgesAre
  <2>4. Sibling(b) = FirstOf(U)
    BY DEF Sibling
  <2>5. FirstOf(U) = n => {c \in U : c > n} = {c \in Children(parent[n]) : c > n}
    <3> SUFFICES ASSUME FirstOf(U) = n
                 PROVE  {c \in U : c > n} = {c \in Children(parent[n]) : c > n}
      OBVIOUS
    <3>1. parent[n] = parent[b] /\ n > b
      BY <1>1, <2>3, <2>4, AgesAre, SiblingIs
    <3>2. \A c \in T : c > n => c > b
      BY <1>1, <2>3, <3>1, AgesAre
    <3> QED BY <3>1, <3>2
  <2>6. FirstOf(U \ {n}) = IF FirstOf(U) = n THEN FirstOf({c \in U : c > n}) ELSE FirstOf(U)
    <3> HIDE DEF U
    <3> QED BY <2>3, FirstRemoved
  <2>7. Sibling(n) = FirstOf({c \in Children(parent[n]) : c > n})
    BY DEF Sibling
  <2> HIDE DEF T, U
  <2> QED BY <2>1, <2>2, <2>4, <2>5, <2>6, <2>7
<1> QED BY <1>2, <1>3, <1>4, <1>5, <1>6, <1>7

LEMMA DestroyTree ==
  ASSUME TreeInv, NEW n \in live, DestroyNode(n)
  PROVE  TreeInv'
<1> DEFINE pred == mpPrev[n]
           succ == mpNext[n]
           p == mpParent[n]
<1>1. Ages /\ Pointers /\ PointersSpellTree /\ Links /\ removeTreeNode(n)
  BY DEF TreeInv, DestroyNode
<1>2. /\ live' = live \ {n} /\ parent' = parent /\ m_rootUniqueID' = m_rootUniqueID
      /\ \A b \in live : parent[b] # n
      /\ \A q : Children(q)' = Children(q) \ {n}
      /\ \A q \in NodeOrNull : q # parent[n] => Children(q)' = Children(q)
      /\ \A b \in live \ {n} :
           Sibling(b)' = IF Sibling(b) = n THEN Sibling(n) ELSE Sibling(b)
  BY Shrinks DEF DestroyNode
<1>3. /\ n \in Bases /\ n # Null /\ live \subseteq Bases /\ Null \notin Bases
      /\ Null \in NodeOrNull /\ Bases \subseteq NodeOrNull
  BY <1>1, AgesAre DEF Ages, NodeOrNull
<1>4. /\ p = parent[n] /\ succ = Sibling(n) /\ p # n /\ p \in live \cup {Null}
      /\ pred \in live \cup {Null} /\ pred \in NodeOrNull /\ succ \in NodeOrNull
  BY <1>1, <1>2, <1>3 DEF PointersSpellTree, Pointers, Links, Ages
<1>5. succ # Null => succ \in live /\ succ # n
  <2>1. succ # Null => succ \in live /\ succ > n
    BY <1>1, <1>4, SiblingIs
  <2>2. n \in Nat
    BY <1>1, AgesAre
  <2> QED BY <2>1, <2>2
<1>6. /\ mpNext' \in [Bases -> NodeOrNull] /\ mpPrev' \in [Bases -> NodeOrNull]
      /\ \A b \in Bases :
           mpNext'[b] = IF b = n THEN Null ELSE IF b = pred THEN succ ELSE mpNext[b]
      /\ \A b \in Bases :
           mpPrev'[b] = IF b = n THEN Null ELSE IF b = succ THEN pred ELSE mpPrev[b]
  BY <1>1, <1>3, <1>4 DEF removeTreeNode, Pointers
<1>7. /\ mpChild' \in [Bases -> NodeOrNull] /\ mpParent' \in [Bases -> NodeOrNull]
      /\ \A b \in Bases : mpChild'[b] = IF b = p /\ pred = Null THEN succ ELSE mpChild[b]
      /\ \A b \in Bases : mpParent'[b] = IF b = n THEN Null ELSE mpParent[b]
      /\ mpRootNode' = IF pred = Null /\ p = Null /\ n = mpRootNode THEN succ ELSE mpRootNode
      /\ mpChild[n] = Null
  BY <1>1, <1>3, <1>4 DEF removeTreeNode, Pointers
<1>8. pred = Null <=> FirstOf(Children(p)) = n
  BY <1>4, EldestHasNoPrev
<1>9. \A b, c \in live : mpNext[b] = c <=> mpPrev[c] = b
  BY <1>1 DEF PointersSpellTree
<1>10. pred # Null => mpNext[pred] = n
  BY <1>4, <1>9
<1>11. succ # Null => mpPrev[succ] = n
  BY <1>5, <1>9
<1> HIDE DEF pred, succ, p
<1>12. Ages'
  BY <1>1, <1>2 DEF Ages
<1>13. \A q : FirstOf(Children(q))' = FirstOf(Children(q)')
  BY DEF FirstOf
<1>14. FirstOf(Children(p) \ {n}) = IF pred = Null THEN succ ELSE FirstOf(Children(p))
  <2>1. Children(p) \in SUBSET (Nat \ {Null}) /\ n \in Nat
    BY <1>1, AgesAre
  <2>2. succ = FirstOf({c \in Children(p) : c > n})
    BY <1>4 DEF Sibling
  <2> QED BY <1>8, <2>1, <2>2, FirstRemoved
<1>15. mpRootNode' = FirstOf(Roots)'
  <2>1. FirstOf(Roots)' = FirstOf(Children(Null)') /\ mpRootNode = FirstOf(Children(Null))
    BY <1>1, <1>13 DEF Roots, PointersSpellTree
  <2>2. CASE p = Null
    BY <1>2, <1>7, <1>8, <1>14, <2>1, <2>2
  <2>3. CASE p # Null
    BY <1>2, <1>3, <1>4, <1>7, <2>1, <2>3
  <2> QED BY <2>2, <2>3
<1>16. ASSUME NEW b \in live \ {n} PROVE mpChild'[b] = FirstOf(Children(b))'
  <2>1. FirstOf(Children(b))' = FirstOf(Children(b)') /\ mpChild[b] = FirstOf(Children(b))
    BY <1>1, <1>13 DEF PointersSpellTree
  <2>2. CASE b = p
    BY <1>2, <1>3, <1>7, <1>14, <2>1, <2>2
  <2>3. CASE b # p
    BY <1>2, <1>3, <1>4, <1>7, <2>1, <2>3
  <2> QED BY <2>2, <2>3
<1>17. \A b \in live' : mpParent'[b] = parent'[b]
  BY <1>1, <1>2, <1>3, <1>7 DEF PointersSpellTree
<1>18. ASSUME NEW b \in live \ {n} PROVE mpNext'[b] = Sibling(b)'
  <2>1. mpNext[b] = Sibling(b)
    BY <1>1 DEF PointersSpellTree
  <2>2. Sibling(b) = n <=> b = pred
    BY <1>3, <1>4, <1>9, <1>10, <2>1 DEF pred
  <2> QED BY <1>2, <1>3, <1>4, <1>6, <2>1, <2>2
<1>19. ASSUME NEW b \in live \ {n}, NEW c \in live \ {n} PROVE mpNext'[b] = c <=> mpPrev'[c] = b
  <2>1. mpNext'[b] = (IF b = pred THEN succ ELSE mpNext[b])
        /\ mpPrev'[c] = (IF c = succ THEN pred ELSE mpPrev[c])
    BY <1>3, <1>6
  <2>2. b # Null /\ c # Null /\ (mpNext[b] = c <=> mpPrev[c] = b)
    BY <1>3, <1>9
  <2> QED BY <1>10, <1>11, <2>1, <2>2
<1>20. \A b \in Bases \ live' : mpChild'[b] = Null /\ mpNext'[b] = Null /\ mpPrev'[b] = Null
  <2>1. mpChild'[n] = Null /\ mpNext'[n] = Null /\ mpPrev'[n] = Null
    BY <1>3, <1>4, <1>6, <1>7
  <2>2. ASSUME NEW b \in Bases \ live
        PROVE  mpChild'[b] = Null /\ mpNext'[b] = Null /\ mpPrev'[b] = Null
    <3>1. b # n /\ b # pred /\ b # succ /\ b # p
      BY <1>3, <1>4, <1>5
    <3> QED BY <1>1, <1>6, <1>7, <3>1 DEF PointersSpellTree
  <2> QED BY <1>2, <2>1, <2>2
<1>21. PointersSpellTree'
  BY <1>2, <1>15, <1>16, <1>17, <1>18, <1>19, <1>20 DEF PointersSpellTree
<1>22. Links'
  <2>1. ASSUME NEW b \in live \ {n} PROVE mpPrev'[b] \in (live \ {n}) \cup {Null}
    <3>1. mpPrev[b] \in live \cup {Null} /\ (mpPrev[b] = n => mpNext[n] = b)
      BY <1>1, <1>9 DEF Links
    <3>2. pred # n
      BY <1>3, <1>5, <1>10 DEF succ
    <3> QED BY <1>3, <1>4, <1>6, <3>1, <3>2 DEF succ
  <2>2. \A b \in Bases \ live' : mpParent'[b] = Null
    BY <1>1, <1>2, <1>3, <1>7 DEF Links
  <2> QED BY <1>2, <2>1, <2>2 DEF Links
<1>23. Pointers'
  BY <1>6, <1>7 DEF Pointers
<1> QED BY <1>12, <1>21, <1>22, <1>23 DEF TreeInv

-----------------------------------------------------------------------------
(* The search lists.                                                       *)

\* The mask of fManager_c picks one of the lists.
LEMMA SearchTableIs ==
  ASSUME NEW id \in Nat
  PROVE  getSearchTableNum(id) \in 0 .. SearchTables - 1
<1>1. SearchTables \in Nat \ {0}
  BY SearchAssumption
<1> QED BY <1>1 DEF getSearchTableNum

LEMMA SearchTreeInit == SearchInit => SearchInv
<1> SUFFICES ASSUME SearchInit PROVE SearchInv
  OBVIOUS
<1>1. Init
  BY DEF SearchInit
<1>2. live = {} /\ m_rootUniqueID = 1 /\ mpRootNode = Null
  BY <1>1 DEF Init
<1>3. mpParent \in [Bases -> NodeOrNull] /\ mpChild \in [Bases -> NodeOrNull]
      /\ mpPrev \in [Bases -> NodeOrNull] /\ mpNext \in [Bases -> NodeOrNull]
      /\ parent \in [Bases -> NodeOrNull]
      /\ \A b \in Bases : mpParent[b] = Null /\ mpChild[b] = Null
                         /\ mpPrev[b] = Null /\ mpNext[b] = Null
  BY <1>1 DEF Init, forcedClear, NodeOrNull
<1>4. FirstOf(Roots) = Null
  BY <1>2 DEF FirstOf, Roots, Children
<1>5. TreeInv
  BY <1>2, <1>3, <1>4 DEF TreeInv, Pointers, Ages, PointersSpellTree, Links, Null
<1>6. SearchLists
  <2>1. ToSet(<< >>) = {} /\ Injective(<< >>) /\ << >> \in Seq(Bases)
    BY DEF ToSet, Injective
  <2>2. m_searchManage = [i \in 0 .. SearchTables - 1 |-> << >>]
    BY DEF SearchInit
  <2> QED BY <1>2, <2>1, <2>2 DEF SearchLists
<1> QED BY <1>5, <1>6 DEF SearchInv

LEMMA ConstructSearch ==
  ASSUME SearchInv, NEW p \in live \cup {Null}, NEW prof \in Profiles, Construct(p, prof)
  PROVE  SearchInv'
<1> DEFINE k == getSearchTableNum(m_rootUniqueID)
<1>1. TreeInv /\ SearchLists /\ ConstructNode(p)
  BY DEF SearchInv, Construct
<1>2. PICK n : n = m_rootUniqueID
  OBVIOUS
<1>3. n \in Bases /\ n \in Nat /\ n \notin live /\ live' = live \cup {n}
  BY <1>1, <1>2, Grows
<1>4. k \in 0 .. SearchTables - 1 /\ k = getSearchTableNum(n)
  BY <1>2, <1>3, SearchTableIs
<1>5. m_searchManage' = [m_searchManage EXCEPT ![k] = Cons(n, m_searchManage[k])]
  BY <1>2 DEF Construct
<1> HIDE DEF k
<1>6. /\ m_searchManage[k] \in Seq(Bases) /\ Injective(m_searchManage[k])
      /\ n \notin ToSet(m_searchManage[k])
  BY <1>1, <1>3, <1>4 DEF SearchLists
<1>7. /\ Cons(n, m_searchManage[k]) \in Seq(Bases) /\ Injective(Cons(n, m_searchManage[k]))
      /\ ToSet(Cons(n, m_searchManage[k])) = ToSet(m_searchManage[k]) \cup {n}
  BY <1>3, <1>6, ConsIs
<1>8. SearchLists'
  <2>1. m_searchManage' \in [0 .. SearchTables - 1 -> Seq(Bases)]
    BY <1>1, <1>4, <1>5, <1>7 DEF SearchLists
  <2>2. ASSUME NEW i \in 0 .. SearchTables - 1
        PROVE  /\ Injective(m_searchManage'[i])
               /\ ToSet(m_searchManage'[i]) = {b \in live' : getSearchTableNum(b) = i}
    <3>1. m_searchManage'[i] = IF i = k THEN Cons(n, m_searchManage[k]) ELSE m_searchManage[i]
      BY <1>1, <1>4, <1>5 DEF SearchLists
    <3>2. /\ Injective(m_searchManage[i])
          /\ ToSet(m_searchManage[i]) = {b \in live : getSearchTableNum(b) = i}
      BY <1>1 DEF SearchLists
    <3>3. CASE i = k
      BY <1>3, <1>4, <1>7, <3>1, <3>2, <3>3
    <3>4. CASE i # k
      BY <1>3, <1>4, <3>1, <3>2, <3>4
    <3> QED BY <3>3, <3>4
  <2> QED BY <2>1, <2>2 DEF SearchLists, getSearchTableNum
<1>9. TreeInv'
  BY <1>1, ConstructTree
<1> QED BY <1>8, <1>9 DEF SearchInv

LEMMA DestroySearch ==
  ASSUME SearchInv, NEW n \in live, Destroy(n)
  PROVE  SearchInv'
<1> DEFINE k == getSearchTableNum(n)
<1>1. TreeInv /\ SearchLists /\ DestroyNode(n)
  BY DEF SearchInv, Destroy
<1>2. n \in Nat /\ live' = live \ {n}
  BY <1>1, AgesAre, Shrinks DEF TreeInv
<1>3. k \in 0 .. SearchTables - 1
  BY <1>2, SearchTableIs
<1>4. m_searchManage' = [m_searchManage EXCEPT ![k] = Unlink(m_searchManage[k], n)]
  BY DEF Destroy
<1>5. m_searchManage[k] \in Seq(Bases) /\ Injective(m_searchManage[k])
  BY <1>1, <1>3 DEF SearchLists
<1>6. /\ Unlink(m_searchManage[k], n) \in Seq(Bases) /\ Injective(Unlink(m_searchManage[k], n))
      /\ ToSet(Unlink(m_searchManage[k], n)) = ToSet(m_searchManage[k]) \ {n}
  BY <1>5, UnlinkIs
<1>7. SearchLists'
  <2>1. m_searchManage' \in [0 .. SearchTables - 1 -> Seq(Bases)]
    BY <1>1, <1>3, <1>4, <1>6 DEF SearchLists
  <2>2. ASSUME NEW i \in 0 .. SearchTables - 1
        PROVE  /\ Injective(m_searchManage'[i])
               /\ ToSet(m_searchManage'[i]) = {b \in live' : getSearchTableNum(b) = i}
    <3>1. m_searchManage'[i] = IF i = k THEN Unlink(m_searchManage[k], n) ELSE m_searchManage[i]
      BY <1>1, <1>3, <1>4 DEF SearchLists
    <3>2. /\ Injective(m_searchManage[i])
          /\ ToSet(m_searchManage[i]) = {b \in live : getSearchTableNum(b) = i}
      BY <1>1 DEF SearchLists
    <3>3. CASE i = k
      BY <1>2, <1>6, <3>1, <3>2, <3>3
    <3>4. CASE i # k
      BY <1>2, <3>1, <3>2, <3>4
    <3> QED BY <3>3, <3>4
  <2> QED BY <2>1, <2>2 DEF SearchLists, getSearchTableNum
<1>8. TreeInv'
  BY <1>1, DestroyTree
<1> QED BY <1>7, <1>8 DEF SearchInv

LEMMA SearchInvariant == SearchSpec => []SearchInv
<1>1. SearchInv /\ SearchNext => SearchInv'
  BY ConstructSearch, DestroySearch DEF SearchNext
<1>2. ASSUME SearchInv, UNCHANGED << vars, searchVars >> PROVE SearchInv'
  <2> USE <1>2 DEF vars, treeVars, searchVars
  <2>1. Pointers' /\ Ages' /\ Links'
    BY DEF SearchInv, TreeInv, Pointers, Ages, Links
  <2>2. PointersSpellTree'
    <3>1. \A q : Children(q)' = Children(q)
      BY DEF Children
    <3>2. Roots' = Roots
      BY DEF Roots, Children
    <3>3. \A b \in live : Sibling(b)' = Sibling(b)
      BY DEF Sibling, FirstOf, Children
    <3>4. FirstOf(Roots)' = FirstOf(Roots) /\ \A q : FirstOf(Children(q))' = FirstOf(Children(q))
      BY <3>1, <3>2 DEF FirstOf
    <3> QED BY <3>3, <3>4 DEF SearchInv, TreeInv, PointersSpellTree
  <2>3. SearchLists'
    BY DEF SearchInv, SearchLists, getSearchTableNum
  <2> QED BY <2>1, <2>2, <2>3 DEF SearchInv, TreeInv
<1> QED BY <1>1, <1>2, SearchTreeInit, PTL DEF SearchSpec

\* cTreeMg_c's pointers always spell the tree that FBase computes with, in
\* the order in which the bases were constructed.
THEOREM PointersSpell == SearchSpec => []PointersSpellTree
<1>1. SearchInv => PointersSpellTree
  BY DEF SearchInv, TreeInv
<1> QED BY <1>1, SearchInvariant, PTL

\* An ID that game code has kept finds its base while that lives, and nothing
\* afterwards.
THEOREM IDsFind == SearchSpec => []IDsFindTheirBases
<1>1. ASSUME SearchInv, NEW id \in Bases
      PROVE  searchBaseByID(id) = IF id \in live THEN id ELSE Null
  <2>1. getSearchTableNum(id) \in 0 .. SearchTables - 1
    BY BasesAssumption, SearchTableIs
  <2>2. ToSet(m_searchManage[getSearchTableNum(id)])
          = {b \in live : getSearchTableNum(b) = getSearchTableNum(id)}
    BY <1>1, <2>1 DEF SearchInv, SearchLists
  <2> QED BY <2>2 DEF searchBaseByID
<1>2. SearchInv => IDsFindTheirBases
  BY <1>1 DEF IDsFindTheirBases
<1> QED BY <1>2, SearchInvariant, PTL

-----------------------------------------------------------------------------
(* The walk.                                                               *)

LEMMA LineageOf ==
  ASSUME Ages
  PROVE  /\ Lineage(Null) = {}
         /\ \A b \in live : Lineage(b) = {b} \cup Lineage(parent[b])
<1>1. parent \in [Bases -> Bases \cup {Null}] /\ Null \notin Bases /\ live \subseteq Bases
  BY AgesAre DEF Ages, NodeOrNull
<1>2. \A b : Lineage(b) = Ups(Bases, parent)[b]
  BY DEF Lineage, Ups
<1> QED BY <1>1, <1>2, UpsIs

LEMMA TreeHere ==
  ASSUME Ages
  PROVE  Tree(live, parent, Ups(Bases, parent)) /\ \A b : Lineage(b) = Ups(Bases, parent)[b]
<1>1. \A b : Lineage(b) = Ups(Bases, parent)[b]
  BY DEF Lineage, Ups
<1>2. /\ live \in SUBSET Nat /\ Null \notin live
      /\ \A b \in live : parent[b] = Null \/ (parent[b] \in live /\ parent[b] < b)
  BY AgesAre DEF Ages
<1> QED BY <1>1, <1>2, LineageOf DEF Tree

\* All of a lineage lives, and is not younger.
LEMMA LineageIsOld ==
  ASSUME Ages, NEW b \in live
  PROVE  \A a \in Lineage(b) : a \in live /\ a <= b
BY TreeHere, UpsLive

\* FTree's definition, one step up at a time.
LEMMA TreeNextNotChildIs ==
  ASSUME Ages, NEW b \in live
  PROVE  TreeNextNotChild(b) = IF Sibling(b) # Null THEN Sibling(b)
                               ELSE IF parent[b] = Null THEN Null ELSE TreeNextNotChild(parent[b])
<1> DEFINE up(x) == {a \in Lineage(x) : Sibling(a) # Null}
<1>1. \A x : TreeNextNotChild(x) = IF up(x) = {} THEN Null ELSE Sibling(Max(up(x)))
  BY DEF TreeNextNotChild
<1>2. Lineage(Null) = {} /\ Lineage(b) = {b} \cup Lineage(parent[b])
  BY LineageOf
<1>3. CASE Sibling(b) # Null
  <2>1. up(b) \in SUBSET Nat /\ b \in up(b) /\ b \in Nat /\ \A c \in up(b) : c <= b
    BY <1>2, <1>3, LineageIsOld, AgesAre
  <2> HIDE DEF up
  <2>2. Max(up(b)) \in up(b) /\ \A c \in up(b) : c <= Max(up(b))
    BY <2>1, MaxIn
  <2>3. Max(up(b)) = b
    <3>1. Max(up(b)) \in Nat /\ Max(up(b)) <= b /\ b <= Max(up(b))
      BY <2>1, <2>2
    <3> QED BY <2>1, <3>1
  <2> QED BY <1>1, <1>3, <2>1, <2>3
<1>4. CASE Sibling(b) = Null
  <2>1. up(b) = up(parent[b])
    BY <1>2, <1>4
  <2>2. CASE parent[b] = Null
    <3>1. up(b) = {}
      BY <1>2, <2>1, <2>2
    <3> QED BY <1>1, <1>4, <2>2, <3>1
  <2>3. CASE parent[b] # Null
    <3> HIDE DEF up
    <3> QED BY <1>1, <1>4, <2>1, <2>3
  <2> QED BY <2>2, <2>3
<1> QED BY <1>3, <1>4

\* The recursive function of getTreeNextNotChild.
Nexts ==
  CHOOSE up : up = [x \in NodeOrNull |->
                      IF x = Null THEN Null
                      ELSE IF mpNext[x] # Null THEN mpNext[x] ELSE up[mpParent[x]]]

LEMMA NextsIs ==
  ASSUME TreeInv
  PROVE  /\ \A x : getTreeNextNotChild(x) = Nexts[x]
         /\ \A x \in NodeOrNull : Nexts[x] =
              IF x = Null THEN Null ELSE IF mpNext[x] # Null THEN mpNext[x] ELSE Nexts[mpParent[x]]
<1> DEFINE g == [x \in NodeOrNull |-> IF x \in live THEN TreeNextNotChild(x) ELSE Null]
<1>1. Ages /\ Pointers /\ PointersSpellTree /\ Links
  BY DEF TreeInv
<1>2. /\ live \in SUBSET Nat /\ live \subseteq NodeOrNull /\ Null \notin live
      /\ Null \in NodeOrNull /\ \A x \in NodeOrNull : x = Null \/ x \in Bases
  BY <1>1, AgesAre DEF Ages, NodeOrNull
<1>3. ASSUME NEW x \in live
      PROVE  /\ mpNext[x] = Sibling(x) /\ mpParent[x] = parent[x]
             /\ parent[x] = Null \/ (parent[x] \in live /\ parent[x] < x)
  BY <1>1 DEF PointersSpellTree, Ages
<1>4. g = [x \in NodeOrNull |->
             IF x = Null THEN Null ELSE IF mpNext[x] # Null THEN mpNext[x] ELSE g[mpParent[x]]]
  <2>1. ASSUME NEW x \in NodeOrNull
        PROVE  g[x] = IF x = Null THEN Null
                      ELSE IF mpNext[x] # Null THEN mpNext[x] ELSE g[mpParent[x]]
    <3>1. CASE x = Null
      BY <1>2, <3>1
    <3>2. CASE x \in live
      BY <1>1, <1>2, <1>3, <3>2, TreeNextNotChildIs
    <3>3. CASE x # Null /\ x \notin live
      <4>1. mpNext[x] = Null /\ mpParent[x] = Null
        BY <1>1, <1>2, <3>3 DEF PointersSpellTree, Links
      <4> QED BY <1>2, <3>3, <4>1
    <3> QED BY <3>1, <3>2, <3>3
  <2>2. g = [x \in NodeOrNull |-> g[x]]
    OBVIOUS
  <2> HIDE DEF g
  <2> QED BY <2>1, <2>2
<1> HIDE DEF g
<1>5. Nexts = [x \in NodeOrNull |->
        IF x = Null THEN Null ELSE IF mpNext[x] # Null THEN mpNext[x] ELSE Nexts[mpParent[x]]]
  BY <1>4 DEF Nexts
<1>6. \A x : getTreeNextNotChild(x) = Nexts[x]
  BY DEF getTreeNextNotChild, Nexts
<1>7. ASSUME NEW x \in NodeOrNull
      PROVE  Nexts[x] = IF x = Null THEN Null
                        ELSE IF mpNext[x] # Null THEN mpNext[x] ELSE Nexts[mpParent[x]]
  BY <1>5
<1> QED BY <1>6, <1>7

LEMMA GetTreeNextIs ==
  ASSUME TreeInv, NEW b \in live
  PROVE  getTreeNextNotChild(b) = TreeNextNotChild(b) /\ getTreeNext(b) = TreeNext(b)
<1>1. Ages /\ PointersSpellTree
  BY DEF TreeInv
<1>2. live \in SUBSET Nat /\ live \subseteq NodeOrNull /\ Null \notin live
  BY <1>1, AgesAre DEF Ages, NodeOrNull
<1>3. ASSUME NEW x \in live
      PROVE  Nexts[x] = IF Sibling(x) # Null THEN Sibling(x) ELSE Nexts[parent[x]]
  <2>1. x \in NodeOrNull /\ x # Null /\ mpNext[x] = Sibling(x) /\ mpParent[x] = parent[x]
    BY <1>1, <1>2 DEF PointersSpellTree
  <2> QED BY <2>1, NextsIs
<1> DEFINE T == {x \in live : Nexts[x] # TreeNextNotChild(x)}
<1>4. T = {}
  <2> SUFFICES ASSUME T # {} PROVE FALSE
    OBVIOUS
  <2>1. PICK x \in T : \A y \in T : x <= y
    BY <1>2, NatMin
  <2>2. x \in live /\ Nexts[x] # TreeNextNotChild(x) /\ x \in Nat
    BY <1>2, <2>1
  <2>3. CASE Sibling(x) # Null
    BY <1>1, <1>3, <2>2, <2>3, TreeNextNotChildIs
  <2>4. CASE Sibling(x) = Null /\ parent[x] = Null
    <3>1. Nexts[Null] = Null
      BY NextsIs DEF NodeOrNull
    <3> QED BY <1>1, <1>3, <2>2, <2>4, <3>1, TreeNextNotChildIs
  <2>5. CASE Sibling(x) = Null /\ parent[x] # Null
    <3>1. parent[x] \in live /\ parent[x] < x /\ parent[x] \in Nat
      BY <1>1, <1>2, <2>2, <2>5 DEF Ages
    <3>2. Nexts[parent[x]] = TreeNextNotChild(parent[x])
      BY <2>1, <2>2, <3>1
    <3> QED BY <1>1, <1>3, <2>2, <2>5, <3>2, TreeNextNotChildIs
  <2> QED BY <2>3, <2>4, <2>5
<1>5. getTreeNextNotChild(b) = TreeNextNotChild(b)
  BY <1>4, NextsIs
<1>6. mpChild[b] = FirstOf(Children(b)) /\ (mpChild[b] = Null <=> Children(b) = {})
  <2>1. Children(b) \in SUBSET (Nat \ {Null}) /\ mpChild[b] = FirstOf(Children(b))
    BY <1>1, AgesAre DEF PointersSpellTree
  <2> QED BY <2>1, FirstIsLeast
<1> QED BY <1>5, <1>6 DEF getTreeNext, TreeNext

\* From a base that is not in the tree a walk goes nowhere.
LEMMA GetTreeNextOfDead ==
  ASSUME TreeInv, NEW b \in Bases \ live
  PROVE  getTreeNext(b) = Null
<1>1. b # Null /\ b \in NodeOrNull /\ Null \in NodeOrNull
  BY AgesAre DEF TreeInv, NodeOrNull
<1>2. mpChild[b] = Null /\ mpNext[b] = Null /\ mpParent[b] = Null
  BY DEF TreeInv, PointersSpellTree, Links
<1>3. Nexts[b] = Null
  <2>1. Nexts[Null] = Null /\ Nexts[b] = Nexts[Null]
    BY <1>1, <1>2, NextsIs
  <2> QED BY <2>1
<1> QED BY <1>2, <1>3, NextsIs DEF getTreeNext

\* cTreeNd_c's getTreeNextNotChild and getTreeNext, which follow pointers, take
\* the walk of connectProc and of the searches to the base that FBase says.
WalkStepsAgree ==
  \A b \in live : getTreeNextNotChild(b) = TreeNextNotChild(b) /\ getTreeNext(b) = TreeNext(b)

THEOREM WalkSteps == SearchSpec => []WalkStepsAgree
<1>1. SearchInv => WalkStepsAgree
  BY GetTreeNextIs DEF SearchInv, WalkStepsAgree
<1> QED BY <1>1, SearchInvariant, PTL
-----------------------------------------------------------------------------
(* The walk as a whole.                                                    *)

LEMMA EldestIs ==
  ASSUME Ages, NEW C \in SUBSET live
  PROVE  IF C = {} THEN FirstOf(C) = Null ELSE Eldest(C, FirstOf(C)) /\ FirstOf(C) # Null
<1>1. C \in SUBSET (Nat \ {Null})
  BY AgesAre
<1> QED BY <1>1, FirstIsLeast DEF Eldest

\* What a walk that stands on n has still to visit.
Rest(n) == Remaining(live, parent, Ups(Bases, parent), n)

\* TreeNextNotChild comes first after n and all below it, and TreeNext leaves
\* out nothing and visits nothing twice.
LEMMA TreeNextRest ==
  ASSUME Ages, NEW n \in live
  PROVE  /\ Rest(TreeNextNotChild(n)) = Beyond(live, parent, Ups(Bases, parent), n)
         /\ Rest(TreeNext(n)) = Rest(n) \ {n}
         /\ TreeNextNotChild(n) \in live \cup {Null} /\ TreeNext(n) \in live \cup {Null}
<1> DEFINE up == Ups(Bases, parent)
           T == {a \in up[n] : Younger(live, parent, a) # {}}
<1>1. Tree(live, parent, up) /\ \A b : Lineage(b) = up[b]
  BY TreeHere
<1>2. Children(n) = Childs(live, parent, n) /\ Children(n) \in SUBSET live
  BY DEF Children, Childs
<1>3. \A a \in live : Sibling(a) = FirstOf(Younger(live, parent, a))
                      /\ Younger(live, parent, a) \in SUBSET live
  BY DEF Sibling, Children, Younger
<1>4. \A a \in up[n] : a \in live
  BY <1>1, UpsLive
<1>5. \A a \in live : IF Younger(live, parent, a) = {} THEN Sibling(a) = Null
                      ELSE Eldest(Younger(live, parent, a), Sibling(a)) /\ Sibling(a) # Null
  BY <1>3, EldestIs
<1>6. T = {a \in Lineage(n) : Sibling(a) # Null}
  BY <1>1, <1>4, <1>5
<1>7. T \in SUBSET Nat /\ n \in Nat /\ \A a \in T : a <= n
  BY <1>1, <1>4, UpsLive, AgesAre
<1>8. TreeNextNotChild(n) = IF T = {} THEN Null ELSE Sibling(Max(T))
  BY <1>6 DEF TreeNextNotChild
<1>9. T # {} => Max(T) \in T
  <2> HIDE DEF T
  <2> QED BY <1>7, MaxIn
<1>10. IF T = {} THEN TreeNextNotChild(n) = Null
       ELSE Eldest(Younger(live, parent, Max(T)), TreeNextNotChild(n))
  BY <1>4, <1>5, <1>8, <1>9
<1>11. TreeNextNotChild(n) \in live \cup {Null}
  BY <1>10 DEF Eldest, Younger
<1> HIDE DEF up
<1>12. Passes(live, parent, up, n, TreeNextNotChild(n))
  BY <1>1, <1>10, PassesIs
<1>13. IF Childs(live, parent, n) = {} THEN Passes(live, parent, up, n, TreeNext(n))
       ELSE Eldest(Childs(live, parent, n), TreeNext(n))
  BY <1>2, <1>12, EldestIs DEF TreeNext
<1>14. Rest(TreeNext(n)) = Rest(n) \ {n}
  BY <1>1, <1>13, PreorderStep DEF Rest, up
<1>15. Rest(TreeNextNotChild(n)) = Beyond(live, parent, up, n)
  BY <1>1, <1>12, PassesRest DEF Rest, up
<1>16. TreeNext(n) \in live \cup {Null}
  BY <1>2, <1>11, EldestIs DEF TreeNext, Eldest
<1> QED BY <1>11, <1>14, <1>15, <1>16 DEF up

RestOf == [x \in live \cup {Null} |-> Rest(x)]

LEMMA RestOfIs ==
  ASSUME TreeInv
  PROVE  /\ \A x \in live \cup {Null} : RestOf[x] = Rest(x)
         /\ RestOf[Null] = {} /\ mpRootNode \in live \cup {Null} /\ RestOf[mpRootNode] = live
         /\ \A x \in live : x \in RestOf[x] /\ RestOf[x] \subseteq live
<1> DEFINE up == Ups(Bases, parent)
<1>1. Ages /\ mpRootNode = FirstOf(Roots)
  BY DEF TreeInv, PointersSpellTree
<1>2. Tree(live, parent, up)
  BY <1>1, TreeHere
<1>3. Roots = Childs(live, parent, Null) /\ Roots \in SUBSET live
  BY DEF Roots, Children, Childs
<1>4. IF Roots = {} THEN mpRootNode = Null ELSE Eldest(Roots, mpRootNode)
  BY <1>1, <1>3, EldestIs
<1> HIDE DEF up
<1>5. Rest(mpRootNode) = live /\ Rest(Null) = {}
  BY <1>2, <1>3, <1>4, RootRest, BeyondNull DEF Rest, up
<1>6. mpRootNode \in live \cup {Null}
  BY <1>3, <1>4 DEF Eldest
<1>7. ASSUME NEW x \in live PROVE x \in Rest(x) /\ Rest(x) \subseteq live
  <2>1. x \in up[x]
    BY <1>2, TreeIs
  <2> QED BY <2>1 DEF Rest, Remaining, Under, Beyond, up
<1> QED BY <1>5, <1>6, <1>7 DEF RestOf

\* The walk of getTreeNext from mpRootNode, and what remains in each round.
LEMMA WalkOrderIs ==
  ASSUME TreeInv
  PROVE  /\ DOMAIN WalkOrder = 1..m_rootUniqueID
         /\ WalkOrder[1] = mpRootNode
         /\ \A k \in 1..(m_rootUniqueID - 1) :
              WalkOrder[k + 1] = IF WalkOrder[k] = Null THEN Null ELSE getTreeNext(WalkOrder[k])
         /\ \A k \in 1..m_rootUniqueID : WalkOrder[k] \in live \cup {Null}
         /\ Walks(live, RestOf, m_rootUniqueID, WalkOrder)
<1> DEFINE X == live \cup {Null}
           G == [x \in X |-> IF x = Null THEN Null ELSE getTreeNext(x)]
           n == m_rootUniqueID
           Loop(f) == f = [k \in 1..n |-> IF k = 1 THEN mpRootNode
                             ELSE IF f[k - 1] = Null THEN Null ELSE getTreeNext(f[k - 1])]
<1>1. Ages
  BY DEF TreeInv
<1>2. n \in Nat \ {0} /\ Null \notin live /\ live \in SUBSET (1..(n - 1))
  BY <1>1, AgesAre DEF Ages, Null
<1>3. ASSUME NEW x \in live
      PROVE  getTreeNext(x) \in X /\ RestOf[getTreeNext(x)] = RestOf[x] \ {x}
  <2>1. getTreeNext(x) = TreeNext(x)
    BY GetTreeNextIs
  <2>2. TreeNext(x) \in X /\ Rest(TreeNext(x)) = Rest(x) \ {x}
    BY <1>1, TreeNextRest
  <2> QED BY <2>1, <2>2, RestOfIs
<1>4. mpRootNode \in X
  BY RestOfIs
<1>5. G \in [X -> X]
  BY <1>2, <1>3
<1>6. PICK f : /\ f \in [1..n -> X] /\ f[1] = mpRootNode
               /\ \A k \in 1..(n - 1) : f[k + 1] = G[f[k]]
  <2>1. PICK f : Rounds(X, mpRootNode, G, n, f)
    <3> HIDE DEF G, n, X, Loop
    <3> QED BY <1>2, <1>4, <1>5, LoopExists
  <2> HIDE DEF G, n, X, Loop
  <2> QED BY <2>1 DEF Rounds
<1>7. Loop(f)
  <2>1. ASSUME NEW k \in 1..n, k # 1
        PROVE  f[k] = IF f[k - 1] = Null THEN Null ELSE getTreeNext(f[k - 1])
    <3>1. k - 1 \in 1..(n - 1) /\ k - 1 \in 1..n /\ (k - 1) + 1 = k
      BY <1>2, <2>1
    <3>2. f[k] = G[f[k - 1]] /\ f[k - 1] \in X
      <4> HIDE DEF G, n, X
      <4> QED BY <1>6, <3>1
    <3> QED BY <3>2
  <2> HIDE DEF G, n, X
  <2>2. f = [k \in 1..n |-> f[k]]
    BY <1>6
  <2>3. \A k \in 1..n : f[k] = IF k = 1 THEN mpRootNode
                               ELSE IF f[k - 1] = Null THEN Null ELSE getTreeNext(f[k - 1])
    BY <1>6, <2>1
  <2> QED BY <2>2, <2>3
<1>8. Loop(WalkOrder)
  <2>1. WalkOrder = CHOOSE h : Loop(h)
    BY DEF WalkOrder
  <2> HIDE DEF Loop
  <2> QED BY <1>7, <2>1
<1>9. /\ DOMAIN WalkOrder = 1..n
      /\ \A k \in 1..n : WalkOrder[k] = IF k = 1 THEN mpRootNode
           ELSE IF WalkOrder[k - 1] = Null THEN Null ELSE getTreeNext(WalkOrder[k - 1])
  <2> HIDE DEF n
  <2> QED BY <1>8
<1> HIDE DEF Loop, G, n
<1>10. WalkOrder[1] = mpRootNode
  <2>1. 1 \in 1..n
    BY <1>2
  <2> QED BY <1>9, <2>1
<1>11. ASSUME NEW k \in 1..(n - 1)
       PROVE  WalkOrder[k + 1] = IF WalkOrder[k] = Null THEN Null ELSE getTreeNext(WalkOrder[k])
  <2>1. k + 1 \in 1..n /\ k + 1 # 1 /\ (k + 1) - 1 = k
    BY <1>2
  <2> QED BY <1>9, <2>1
<1>12. \A k \in 1..n : WalkOrder[k] \in X
  <2>1. \A k \in 1..(n - 1) : WalkOrder[k] \in X => WalkOrder[k + 1] \in X
    BY <1>3, <1>11
  <2> HIDE DEF X
  <2> QED BY <1>2, <1>4, <1>10, <2>1, LoopStays
<1>13. Walks(live, RestOf, n, WalkOrder)
  <2>1. RestOf[Null] = {} /\ \A x \in live : x \in RestOf[x] /\ RestOf[x] \subseteq live
    BY RestOfIs
  <2>2. RestOf[WalkOrder[1]] = live
    BY <1>10, RestOfIs
  <2>3. ASSUME NEW k \in 1..(n - 1)
        PROVE  IF WalkOrder[k] = Null THEN WalkOrder[k + 1] = Null
               ELSE RestOf[WalkOrder[k + 1]] = RestOf[WalkOrder[k]] \ {WalkOrder[k]}
    <3>1. WalkOrder[k] \in X
      BY <1>2, <1>12
    <3> QED BY <1>3, <1>11, <3>1
  <2> QED BY <1>2, <1>12, <2>1, <2>2, <2>3 DEF Walks
<1> QED BY <1>9, <1>10, <1>11, <1>12, <1>13 DEF n
LEMMA WalkFacts ==
  ASSUME TreeInv, NEW n, n = m_rootUniqueID, NEW at, at = WalkOrder, NEW R, R = RestOf
  PROVE  /\ Walks(live, R, n, at) /\ n \in Nat \ {0} /\ at[n] = Null
         /\ DOMAIN at = 1..n /\ \A i \in 1..n : at[i] \in live \cup {Null}
         /\ \A i, j \in 1..n : at[i] = at[j] => i = j \/ at[i] = Null
         /\ live = {at[k] : k \in 1..n} \ {Null}
<1>1. Walks(live, R, n, at) /\ DOMAIN at = 1..n
  BY WalkOrderIs
<1>2. n \in Nat \ {0} /\ R[at[1]] = live /\ \A i \in 1..n : at[i] \in live \cup {Null}
  BY <1>1 DEF Walks
<1>3. at[n] = Null
  BY <1>1, WalkEnds
<1>4. PICK L : Walks(L, R, n, at)
  BY <1>1
<1>5. \A i, j \in 1..n : at[i] = at[j] => i = j \/ at[i] = Null
  BY <1>4, WalkVisits
<1>6. \A i \in 1..n : R[at[i]] = {at[k] : k \in i..n} \ {Null}
  BY <1>4, WalkVisits
<1>7. live = {at[k] : k \in 1..n} \ {Null}
  <2>1. 1 \in 1..n
    BY <1>2
  <2> QED BY <1>2, <1>6, <2>1
<1> QED BY <1>1, <1>2, <1>3, <1>5, <1>7

\* The walk of the tree visits every living base once, each one right before
\* what is below it, getTreeNextNotChild passes over exactly that, and FBase's
\* TreeNext walks in the same order.
THEOREM WalkMeetsAll == SearchSpec => []WalkIsPreorder
<1> DEFINE n == m_rootUniqueID
           up == Ups(Bases, parent)
           After(b, i) == \E j \in (i + 1)..n :
                            /\ WalkOrder[j] = getTreeNextNotChild(b)
                            /\ {WalkOrder[k] : k \in (i + 1)..(j - 1)} = Descendants(b)
<1>1. ASSUME TreeInv, NEW i \in 1..n, NEW b \in live, WalkOrder[i] = b PROVE After(b, i)
  <2>1. Ages /\ Tree(live, parent, up) /\ b # Null
    BY <1>1, TreeHere, AgesAre DEF TreeInv
  <2>2. PICK m : m = getTreeNextNotChild(b)
    OBVIOUS
  <2>3. m \in live \cup {Null} /\ Rest(m) = Beyond(live, parent, up, b)
    BY <1>1, <2>1, <2>2, GetTreeNextIs, TreeNextRest
  <2> HIDE DEF up
  <2>4. /\ RestOf[m] = Beyond(live, parent, up, b)
        /\ RestOf[b] = Under(live, up, b) \cup Beyond(live, parent, up, b)
    BY <1>1, <2>3, RestOfIs DEF Rest, Remaining, up
  <2>5. /\ \A x \in Under(live, up, b) : x \notin Beyond(live, parent, up, b)
        /\ b \in Under(live, up, b)
    BY <2>1, UnderOrBeyond, TreeIs DEF Under
  <2>6. m = Null \/ m \in RestOf[m]
    BY <1>1, <2>3, RestOfIs
  <2>7. RestOf[m] \subseteq RestOf[b] \ {b}
    BY <2>4, <2>5
  <2>8. Descendants(b) = Under(live, up, b) \ {b}
    BY <2>1, TreeHere DEF Descendants, Under, up
  <2>9. Descendants(b) = RestOf[b] \ ({b} \cup RestOf[m])
    BY <2>4, <2>5, <2>8
  <2>10. Walks(live, RestOf, n, WalkOrder)
    BY <1>1, WalkOrderIs
  <2>11. \E j \in (i + 1)..n :
           /\ WalkOrder[j] = m
           /\ {WalkOrder[k] : k \in (i + 1)..(j - 1)} = RestOf[b] \ ({b} \cup RestOf[m])
    <3> HIDE DEF n
    <3> QED BY <1>1, <2>1, <2>6, <2>7, <2>10, WalkSegment
  <2> QED BY <2>2, <2>9, <2>11
<1>2. ASSUME TreeInv PROVE MeetsOnce(WalkOrder, live) /\ DOMAIN WalkOrder = 1..n
  <2> HIDE DEF n
  <2>1. PICK at : at = WalkOrder
    OBVIOUS
  <2>2. PICK k : k = n
    OBVIOUS
  <2>3. /\ k \in Nat \ {0} /\ at[k] = Null /\ DOMAIN at = 1..k
        /\ \A i, j \in 1..k : at[i] = at[j] => i = j \/ at[i] = Null
        /\ live = {at[i] : i \in 1..k} \ {Null}
    BY <1>2, <2>1, <2>2, WalkFacts DEF n
  <2>4. k \in 1..k
    BY <2>3
  <2>5. {at[i] : i \in 1..k} = live \cup {Null}
    BY <2>3, <2>4
  <2>6. MeetsOnce(at, live)
    BY <2>3, <2>5 DEF MeetsOnce
  <2> QED BY <2>1, <2>2, <2>3, <2>6
<1>3. ASSUME TreeInv PROVE WalkIsPreorder
  <2>1. MeetsOnce(WalkOrder, live) /\ DOMAIN WalkOrder = 1..n
    BY <1>2, <1>3
  <2>2. ASSUME NEW i \in 1..n, WalkOrder[i] # Null
        PROVE  After(WalkOrder[i], i) /\ getTreeNext(WalkOrder[i]) = TreeNext(WalkOrder[i])
    <3>1. PICK b \in live : WalkOrder[i] = b
      BY <1>3, <2>2, WalkOrderIs
    <3>2. After(b, i)
      <4> HIDE DEF After, n
      <4> QED BY <1>1, <1>3, <2>2, <3>1
    <3>3. getTreeNext(b) = TreeNext(b)
      BY <1>3, GetTreeNextIs
    <3> HIDE DEF After
    <3> QED BY <3>1, <3>2, <3>3
  <2> QED BY <2>1, <2>2 DEF WalkIsPreorder
<1>4. SearchInv => WalkIsPreorder
  BY <1>3 DEF SearchInv
<1> QED BY <1>4, SearchInvariant, PTL

-----------------------------------------------------------------------------
(* The search by profile.                                                  *)

OfProfile(prof) == {b \in live : mProfName[b] = prof}

\* The recursive function of FirstWith.
Finds(prof) ==
  CHOOSE found : found = [y \in NodeOrNull |->
                            IF y = Null \/ mProfName[y] = prof THEN y ELSE found[getTreeNext(y)]]

\* From any place of the walk the search finds the first base of the profile
\* that the walk comes to.
LEMMA FirstWithIs ==
  ASSUME TreeInv, NEW n, n = m_rootUniqueID, NEW at, at = WalkOrder,
         NEW prof, NEW H, H = OfProfile(prof)
  PROVE  \A i \in 1..n : \E j : Found(n, at, H, i, j) /\ FirstWith(prof, at[i]) = at[j]
<1> DEFINE Fits(f, y) == f[y] = IF y = Null \/ mProfName[y] = prof THEN y ELSE f[getTreeNext(y)]
<1>1. PICK R : R = RestOf
  OBVIOUS
<1>2. /\ Walks(live, R, n, at) /\ n \in Nat \ {0} /\ at[n] = Null
      /\ \A k \in 1..n : at[k] \in live \cup {Null}
      /\ live = {at[k] : k \in 1..n} \ {Null}
  BY <1>1, WalkFacts
<1>3. \A k \in 1..(n - 1) : at[k] # Null => at[k + 1] = getTreeNext(at[k])
  BY WalkOrderIs
<1>4. /\ live \subseteq Bases /\ Null \notin Bases /\ \A y \in NodeOrNull : y = Null \/ y \in Bases
      /\ live \subseteq NodeOrNull /\ Null \in NodeOrNull
  BY AgesAre DEF TreeInv, Ages, NodeOrNull
<1>5. ASSUME NEW k \in 1..n, at[k] # Null
      PROVE  /\ k + 1 \in 1..n /\ at[k] \in live /\ at[k] \in NodeOrNull
             /\ at[k + 1] = getTreeNext(at[k]) /\ (at[k] \in H <=> mProfName[at[k]] = prof)
  <2>1. k \in 1..(n - 1) /\ k + 1 \in 1..n
    BY <1>2, <1>5
  <2>2. at[k] \in live
    BY <1>2, <1>5
  <2> QED BY <1>3, <1>4, <1>5, <2>1, <2>2 DEF OfProfile
<1>6. \E f : f = [y \in NodeOrNull |->
                    IF y = Null \/ mProfName[y] = prof THEN y ELSE f[getTreeNext(y)]]
  <2>1. PICK F : \A k \in 1..n : F[at[k]] = IF at[k] \in H \cup {Null} THEN at[k] ELSE F[at[k + 1]]
    <3>1. PICK L : Walks(L, R, n, at)
      BY <1>2
    <3>2. PICK F : Searches(n, at, H, F)
      BY <3>1, SearchExists
    <3> QED BY <3>2 DEF Searches
  <2> DEFINE f == [y \in NodeOrNull |-> IF y \in live \cup {Null} THEN F[y]
                                        ELSE IF mProfName[y] = prof THEN y ELSE Null]
  <2>2. \A y \in live \cup {Null} : f[y] = F[y]
    BY <1>4
  <2>3. f[Null] = Null
    <3>1. n \in 1..n
      BY <1>2
    <3>2. F[Null] = Null
      BY <1>2, <2>1, <3>1
    <3> QED BY <2>2, <3>2
  <2>4. ASSUME NEW y \in NodeOrNull PROVE Fits(f, y)
    <3>1. CASE y = Null
      <4> HIDE DEF f
      <4> QED BY <2>3, <3>1
    <3>2. CASE y \in live
      <4>1. PICK k \in 1..n : at[k] = y
        BY <1>2, <3>2
      <4>2. y # Null
        BY <1>4, <3>2
      <4>3. /\ k + 1 \in 1..n /\ at[k + 1] = getTreeNext(y)
            /\ (y \in H <=> mProfName[y] = prof)
        BY <1>5, <4>1, <4>2
      <4>4. getTreeNext(y) \in live \cup {Null}
        BY <1>2, <4>3
      <4>5. F[y] = IF y \in H THEN y ELSE F[getTreeNext(y)]
        BY <2>1, <4>1, <4>2, <4>3
      <4> HIDE DEF f
      <4> QED BY <2>2, <3>2, <4>2, <4>3, <4>4, <4>5
    <3>3. CASE y \notin live \cup {Null}
      <4>1. getTreeNext(y) = Null
        BY <1>4, <3>3, GetTreeNextOfDead
      <4>2. f[y] = IF mProfName[y] = prof THEN y ELSE Null
        BY <3>3
      <4> HIDE DEF f
      <4> QED BY <2>3, <3>3, <4>1, <4>2
    <3> QED BY <3>1, <3>2, <3>3
  <2>5. f = [y \in NodeOrNull |-> f[y]]
    OBVIOUS
  <2> HIDE DEF f
  <2>6. f = [y \in NodeOrNull |->
              IF y = Null \/ mProfName[y] = prof THEN y ELSE f[getTreeNext(y)]]
    BY <2>4, <2>5
  <2> QED BY <2>6
<1>7. Finds(prof) = [y \in NodeOrNull |-> IF y = Null \/ mProfName[y] = prof THEN y
                                          ELSE Finds(prof)[getTreeNext(y)]]
  BY <1>6 DEF Finds
<1>8. PICK f : f = Finds(prof)
  OBVIOUS
<1>9. \A y \in NodeOrNull : Fits(f, y)
  BY <1>7, <1>8
<1>10. ASSUME NEW k \in 1..n
       PROVE  f[at[k]] = IF at[k] \in H \cup {Null} THEN at[k] ELSE f[at[k + 1]]
  <2>1. CASE at[k] = Null
    BY <1>4, <1>9, <2>1
  <2>2. CASE at[k] # Null
    BY <1>5, <1>9, <2>2
  <2> QED BY <2>1, <2>2
<1>11. \A i \in 1..n : \E j : Found(n, at, H, i, j) /\ f[at[i]] = at[j]
  <2>1. PICK L : Walks(L, R, n, at)
    BY <1>2
  <2>2. Searches(n, at, H, f)
    BY <1>10 DEF Searches
  <2> QED BY <2>1, <2>2, SearchFinds
<1>12. \A x : FirstWith(prof, x) = f[x]
  BY <1>8 DEF FirstWith, Finds
<1> QED BY <1>11, <1>12

LEMMA SearchLoopIs ==
  ASSUME TreeInv, NEW n, n = m_rootUniqueID, NEW at, at = WalkOrder,
         NEW prof, NEW H, H = OfProfile(prof), NEW hit, hit = SearchLoop(prof)
  PROVE  DOMAIN hit = 1..n /\ Hits(n, at, H, hit)
<1> DEFINE X == live \cup {Null}
           first == searchBaseByProfName(prof, Null)
           after(x) == IF x = Null THEN Null ELSE searchBaseByProfName(prof, x)
           G == [x \in X |-> after(x)]
           Loop(f) == f = [k \in 1..n |-> IF k = 1 THEN searchBaseByProfName(prof, Null)
                             ELSE IF f[k - 1] = Null THEN Null
                             ELSE searchBaseByProfName(prof, f[k - 1])]
<1>1. /\ n \in Nat \ {0} /\ at[n] = Null /\ Null \notin live
      /\ \A i \in 1..n : at[i] \in X
      /\ live = {at[k] : k \in 1..n} \ {Null}
  BY WalkFacts
<1>2. at[1] = mpRootNode /\ \A k \in 1..(n - 1) : at[k] # Null => at[k + 1] = getTreeNext(at[k])
  BY WalkOrderIs
<1>3. \A i \in 1..n : \E j : Found(n, at, H, i, j) /\ FirstWith(prof, at[i]) = at[j]
  BY FirstWithIs
<1>4. \A i \in 1..n : \A j : Found(n, at, H, i, j) => j \in 1..n
  BY <1>1 DEF Found
<1>5. /\ \E j : Found(n, at, H, 1, j) /\ first = at[j]
      /\ first \in X
  <2>1. first = FirstWith(prof, at[1]) /\ 1 \in 1..n
    BY <1>1, <1>2 DEF searchBaseByProfName
  <2> HIDE DEF first, X
  <2> QED BY <1>1, <1>3, <1>4, <2>1
<1>6. ASSUME NEW i \in 1..n, at[i] # Null
      PROVE  /\ i < n /\ after(at[i]) \in X
             /\ \E j : Found(n, at, H, i + 1, j) /\ after(at[i]) = at[j]
  <2>1. i \in 1..(n - 1) /\ i + 1 \in 1..n /\ i < n
    BY <1>1, <1>6
  <2>2. after(at[i]) = FirstWith(prof, at[i + 1])
    BY <1>2, <1>6, <2>1 DEF searchBaseByProfName
  <2> HIDE DEF after, X
  <2> QED BY <1>1, <1>3, <1>4, <2>1, <2>2
<1>7. G \in [X -> X]
  <2>1. ASSUME NEW x \in X PROVE after(x) \in X
    <3>1. CASE x = Null
      BY <3>1
    <3>2. CASE x # Null
      <4>1. PICK i \in 1..n : at[i] = x
        BY <1>1, <3>2
      <4> HIDE DEF after, X
      <4> QED BY <1>6, <3>2, <4>1
    <3> QED BY <3>1, <3>2
  <2> HIDE DEF after, X
  <2> QED BY <2>1
<1>8. PICK f : /\ f \in [1..n -> X] /\ f[1] = first
               /\ \A k \in 1..(n - 1) : f[k + 1] = G[f[k]]
  <2> HIDE DEF G, X, Loop, first
  <2>1. PICK f : Rounds(X, first, G, n, f)
    BY <1>1, <1>5, <1>7, LoopExists
  <2> QED BY <2>1 DEF Rounds
<1>9. Loop(f)
  <2>1. ASSUME NEW k \in 1..n, k # 1
        PROVE  f[k] = after(f[k - 1])
    <3>1. k - 1 \in 1..(n - 1) /\ k - 1 \in 1..n /\ (k - 1) + 1 = k
      BY <1>1, <2>1
    <3>2. f[k] = G[f[k - 1]] /\ f[k - 1] \in X
      <4> HIDE DEF G, X
      <4> QED BY <1>8, <3>1
    <3> HIDE DEF after, X
    <3> QED BY <3>2
  <2>2. f = [k \in 1..n |-> f[k]]
    BY <1>8
  <2>3. \A k \in 1..n : f[k] = IF k = 1 THEN searchBaseByProfName(prof, Null)
                               ELSE IF f[k - 1] = Null THEN Null
                               ELSE searchBaseByProfName(prof, f[k - 1])
    <3> HIDE DEF G, X
    <3> QED BY <1>8, <2>1
  <2> HIDE DEF G, X
  <2> QED BY <2>2, <2>3
<1>10. Loop(hit)
  <2>1. hit = CHOOSE h : Loop(h)
    BY DEF SearchLoop
  <2> HIDE DEF Loop
  <2> QED BY <1>9, <2>1
<1>11. DOMAIN hit = 1..n /\ \A k \in 1..n : hit[k] = IF k = 1 THEN first ELSE after(hit[k - 1])
  <2>1. hit = [k \in 1..n |-> IF k = 1 THEN first ELSE after(hit[k - 1])]
    BY <1>10
  <2> HIDE DEF after, first
  <2> QED BY <2>1
<1>12. hit[1] = first
  BY <1>1, <1>11
<1>13. ASSUME NEW k \in 1..(n - 1), NEW i \in 1..n, hit[k] = at[i]
       PROVE  IF at[i] = Null THEN hit[k + 1] = Null
              ELSE i < n /\ \E j : Found(n, at, H, i + 1, j) /\ hit[k + 1] = at[j]
  <2>1. hit[k + 1] = after(at[i])
    <3>1. k + 1 \in 1..n /\ k + 1 # 1 /\ (k + 1) - 1 = k
      BY <1>1
    <3> HIDE DEF after
    <3> QED BY <1>11, <1>13, <3>1
  <2>2. CASE at[i] = Null
    BY <2>1, <2>2
  <2>3. CASE at[i] # Null
    <3> HIDE DEF after
    <3> QED BY <1>6, <2>1, <2>3
  <2> QED BY <2>2, <2>3
<1> HIDE DEF first
<1> QED BY <1>5, <1>11, <1>12, <1>13 DEF Hits

\* The loop that game code writes to search for a profile meets every base of
\* the profile once, and ends.
THEOREM SearchMeetsAll == SearchSpec => []SearchLoopMeetsAll
<1>1. ASSUME TreeInv, NEW prof PROVE MeetsOnce(SearchLoop(prof), OfProfile(prof))
  <2>1. PICK n : n = m_rootUniqueID
    OBVIOUS
  <2>2. PICK at : at = WalkOrder
    OBVIOUS
  <2>3. PICK R : R = RestOf
    OBVIOUS
  <2>4. PICK hit : hit = SearchLoop(prof)
    OBVIOUS
  <2>5. PICK H : H = OfProfile(prof)
    OBVIOUS
  <2>6. PICK L : Walks(L, R, n, at) /\ L = live
    BY <1>1, <2>1, <2>2, <2>3, WalkFacts
  <2>7. H \in SUBSET L
    BY <2>5, <2>6 DEF OfProfile
  <2>8. DOMAIN hit = 1..n
    BY <1>1, <2>1, <2>2, <2>4, <2>5, SearchLoopIs
  <2>9. Hits(n, at, H, hit)
    BY <1>1, <2>1, <2>2, <2>4, <2>5, SearchLoopIs
  <2>10. {hit[k] : k \in 1..n} = H \cup {Null}
    BY <2>6, <2>7, <2>9, LoopMeetsAll
  <2>11. \A k, l \in 1..n : hit[k] = hit[l] => k = l \/ hit[k] = Null
    BY <2>6, <2>7, <2>9, LoopMeetsAll
  <2>12. MeetsOnce(hit, H)
    BY <2>8, <2>10, <2>11 DEF MeetsOnce
  <2> QED BY <2>4, <2>5, <2>12
<1>2. SearchInv => SearchLoopMeetsAll
  BY <1>1 DEF SearchInv, SearchLoopMeetsAll, OfProfile
<1> QED BY <1>2, SearchInvariant, PTL
=============================================================================
