----------------------------- MODULE FListProofs -----------------------------
(***************************************************************************)
(* What the list operations of FList return, preserve and bound; what the  *)
(* recursion over the parents of a tree's nodes defines; and that a walk   *)
(* in preorder meets every node once, and a loop of searches along a walk  *)
(* every node that is searched for.                                        *)
(***************************************************************************)
EXTENDS FList, SequenceTheorems, FiniteSetTheorems, WellFoundedInduction, TLAPS

\* Every nonempty set of naturals has a least element.
LEMMA NatMin ==
  ASSUME NEW T \in SUBSET Nat, T # {}
  PROVE  \E m \in T : \A n \in T : m <= n
<1>1. PICK m \in T : \A n \in T : ~(<< n, m >> \in OpToRel(<, Nat))
  BY NatLessThanWellFounded, WFMin
<1>2. \A n \in T : ~(n < m)
  BY <1>1 DEF OpToRel
<1>3. \A n \in T : m <= n
  BY <1>2
<1> QED BY <1>3

\* Every nonempty set of naturals below a bound has a greatest element.
LEMMA NatMax ==
  ASSUME NEW T \in SUBSET Nat, T # {}, NEW top \in Nat, \A n \in T : n <= top
  PROVE  \E m \in T : \A n \in T : n <= m
<1> DEFINE U == {top - n : n \in T}
<1>1. U \in SUBSET Nat /\ U # {}
  <2>1. \A n \in T : top - n \in Nat
    OBVIOUS
  <2> QED BY <2>1
<1>2. PICK u \in U : \A n \in U : u <= n
  BY <1>1, NatMin
<1>3. PICK m \in T : u = top - m
  BY <1>2
<1>4. ASSUME NEW n \in T PROVE n <= m
  <2>1. top - n \in U
    OBVIOUS
  <2>2. u <= top - n
    BY <1>2, <2>1
  <2> QED BY <1>3, <2>2
<1> QED BY <1>4

\* FiniteSetsExt!Min and Max of a nonempty set of naturals are in the set.
LEMMA MinIn ==
  ASSUME NEW T \in SUBSET Nat, T # {}
  PROVE  Min(T) \in T /\ \A n \in T : Min(T) <= n
BY NatMin DEF Min

LEMMA MaxIn ==
  ASSUME NEW T \in SUBSET Nat, T # {}, NEW top \in Nat, \A n \in T : n <= top
  PROVE  Max(T) \in T /\ \A n \in T : n <= Max(T)
<1>1. \E m \in T : \A n \in T : m >= n
  BY NatMax
<1> QED BY <1>1 DEF Max

-----------------------------------------------------------------------------

\* The members of a list are its elements.
LEMMA ToSetIs ==
  ASSUME NEW S, NEW s \in Seq(S)
  PROVE  /\ ToSet(s) = {s[i] : i \in 1..Len(s)}
         /\ ToSet(s) \in SUBSET S
BY LenProperties DEF ToSet

LEMMA IndexOfIs ==
  ASSUME NEW S, NEW s \in Seq(S), NEW x \in ToSet(s)
  PROVE  IndexOf(s, x) \in 1..Len(s) /\ s[IndexOf(s, x)] = x
BY ToSetIs DEF IndexOf

\* getNext gives a member of the list other than the node itself, or null.
LEMMA NextOfIs ==
  ASSUME NEW S, NEW s \in Seq(S), Injective(s), NEW x \in ToSet(s)
  PROVE  NextOf(s, x) = Null \/ (NextOf(s, x) \in ToSet(s) /\ NextOf(s, x) # x)
<1>1. IndexOf(s, x) \in 1..Len(s) /\ s[IndexOf(s, x)] = x /\ Len(s) \in Nat
  BY IndexOfIs, LenProperties
<1>2. CASE IndexOf(s, x) = Len(s)
  BY <1>2 DEF NextOf
<1>3. CASE IndexOf(s, x) # Len(s)
  <2>1. IndexOf(s, x) + 1 \in 1..Len(s) /\ IndexOf(s, x) # IndexOf(s, x) + 1
    BY <1>1, <1>3
  <2>2. NextOf(s, x) = s[IndexOf(s, x) + 1]
    BY <1>3 DEF NextOf
  <2> QED BY <1>1, <2>1, <2>2, ToSetIs DEF Injective
<1> QED BY <1>2, <1>3

LEMMA FirstIs ==
  ASSUME NEW S, NEW s \in Seq(S)
  PROVE  First(s) = Null \/ First(s) \in ToSet(s)
<1>1. CASE s = << >>
  BY <1>1 DEF First
<1>2. CASE s # << >>
  <2>1. Len(s) \in Nat \ {0} /\ Head(s) = s[1]
    BY <1>2, EmptySeq
  <2> QED BY <1>2, <2>1, ToSetIs DEF First
<1> QED BY <1>1, <1>2

\* Removing the node at position i moves the nodes after it up by one.
LEMMA UnlinkAt ==
  ASSUME NEW S, NEW s \in Seq(S), NEW x \in ToSet(s)
  PROVE  /\ Unlink(s, x) \in Seq(S) /\ Len(Unlink(s, x)) = Len(s) - 1
         /\ \A j \in 1..(Len(s) - 1) :
              Unlink(s, x)[j] = IF j < IndexOf(s, x) THEN s[j] ELSE s[j + 1]
<1> DEFINE i == IndexOf(s, x)
           a == SubSeq(s, 1, i - 1)
           b == SubSeq(s, i + 1, Len(s))
           u == a \o b
<1>1. i \in 1..Len(s) /\ s[i] = x /\ Len(s) \in Nat
  BY IndexOfIs, LenProperties
<1>2. Unlink(s, x) = u
  BY DEF Unlink, RemoveAt
<1> HIDE DEF i
<1>3. /\ a \in Seq(S) /\ Len(a) = i - 1
      /\ \A j \in 1..(i - 1) : a[j] = s[j]
  <2>1. \A j \in 1..(i - 1) : s[j] \in S
    BY <1>1, ElementOfSeq
  <2> QED BY <1>1, <2>1, SubSeqProperties
<1>4. /\ b \in Seq(S) /\ Len(b) = Len(s) - i
      /\ \A j \in 1..(Len(s) - i) : b[j] = s[i + j]
  <2>1. \A j \in (i + 1)..Len(s) : s[j] \in S
    BY <1>1, ElementOfSeq
  <2>2. /\ b \in Seq(S)
        /\ Len(b) = IF i + 1 <= Len(s) THEN Len(s) - (i + 1) + 1 ELSE 0
        /\ \A j \in 1..(Len(s) - (i + 1) + 1) : b[j] = s[(i + 1) + j - 1]
    BY <1>1, <2>1, SubSeqProperties
  <2> QED BY <1>1, <2>2
<1> HIDE DEF a, b
<1>5. /\ u \in Seq(S) /\ Len(u) = Len(a) + Len(b)
      /\ \A j \in 1..(Len(a) + Len(b)) : u[j] = IF j <= Len(a) THEN a[j] ELSE b[j - Len(a)]
  BY <1>3, <1>4, ConcatProperties
<1> HIDE DEF u
<1>6. Len(u) = Len(s) - 1
  BY <1>1, <1>3, <1>4, <1>5
<1>7. ASSUME NEW j \in 1..(Len(s) - 1) PROVE u[j] = IF j < i THEN s[j] ELSE s[j + 1]
  <2>0. j \in 1..(Len(a) + Len(b)) /\ Len(a) = i - 1
    BY <1>1, <1>3, <1>4
  <2>3. u[j] = IF j <= Len(a) THEN a[j] ELSE b[j - Len(a)]
    BY <1>5, <2>0
  <2>1. CASE j < i
    <3>1. j \in 1..(i - 1) /\ j <= Len(a)
      BY <1>1, <2>0, <2>1
    <3> QED BY <1>3, <2>3, <2>1, <3>1
  <2>2. CASE ~(j < i)
    <3>1. j - (i - 1) \in 1..(Len(s) - i) /\ i + (j - (i - 1)) = j + 1
      BY <1>1, <2>2
    <3>2. u[j] = b[j - (i - 1)]
      BY <1>1, <2>0, <2>3, <2>2
    <3> QED BY <1>4, <2>2, <3>1, <3>2
  <2> QED BY <2>1, <2>2
<1> QED BY <1>2, <1>5, <1>6, <1>7 DEF i

\* Removing a node takes exactly that node out of the list, and keeps a sorted
\* list sorted.
LEMMA UnlinkIs ==
  ASSUME NEW S, NEW s \in Seq(S), Injective(s), NEW x
  PROVE  /\ Unlink(s, x) \in Seq(S)
         /\ ToSet(Unlink(s, x)) = ToSet(s) \ {x}
         /\ Injective(Unlink(s, x))
         /\ \A order : SortedBy(s, order) => SortedBy(Unlink(s, x), order)
<1>1. CASE x \notin ToSet(s)
  BY <1>1 DEF Unlink
<1>2. CASE x \in ToSet(s)
  <2> DEFINE i == IndexOf(s, x)
             u == Unlink(s, x)
  <2>1. i \in 1..Len(s) /\ s[i] = x /\ Len(s) \in Nat
    BY <1>2, IndexOfIs, LenProperties
  <2>5. /\ u \in Seq(S) /\ Len(u) = Len(s) - 1
        /\ \A j \in 1..(Len(s) - 1) : u[j] = IF j < i THEN s[j] ELSE s[j + 1]
    BY <1>2, UnlinkAt
  <2> HIDE DEF i, u
  <2>6. Injective(u)
    <3> SUFFICES ASSUME NEW j \in 1..Len(u), NEW k \in 1..Len(u), u[j] = u[k]
                 PROVE  j = k
      BY DEF Injective
    <3> DEFINE at(n) == IF n < i THEN n ELSE n + 1
    <3>1. at(j) \in 1..Len(s) /\ at(k) \in 1..Len(s)
      BY <2>1, <2>5
    <3>2. s[at(j)] = s[at(k)]
      BY <2>5
    <3>3. at(j) = at(k)
      BY <3>1, <3>2 DEF Injective
    <3> QED BY <2>1, <2>5, <3>3
  <2>7. ToSet(u) \subseteq ToSet(s) \ {x}
    <3> SUFFICES ASSUME NEW j \in 1..Len(u) PROVE u[j] \in ToSet(s) /\ u[j] # x
      BY <2>5, ToSetIs
    <3>1. PICK k \in 1..Len(s) : u[j] = s[k] /\ k # i
      BY <2>1, <2>5
    <3> QED BY <2>1, <3>1, ToSetIs DEF Injective
  <2>8. ToSet(s) \ {x} \subseteq ToSet(u)
    <3> SUFFICES ASSUME NEW k \in 1..Len(s), s[k] # x PROVE \E j \in 1..Len(u) : u[j] = s[k]
      BY <2>5, ToSetIs
    <3>1. CASE k < i
      <4>1. k \in 1..Len(u) /\ u[k] = s[k]
        BY <2>1, <2>5, <3>1
      <4> QED BY <4>1
    <3>2. CASE k > i
      <4>1. k - 1 \in 1..Len(u) /\ u[k - 1] = s[k]
        BY <2>1, <2>5, <3>2
      <4> QED BY <4>1
    <3> QED BY <2>1, <3>1, <3>2
  <2>9. ASSUME NEW order, SortedBy(s, order) PROVE SortedBy(u, order)
    <3> SUFFICES ASSUME NEW j \in 1..Len(u), NEW k \in 1..Len(u), j < k
                 PROVE  order[u[j]] <= order[u[k]]
      BY DEF SortedBy
    <3> DEFINE at(n) == IF n < i THEN n ELSE n + 1
    <3>1. /\ at(j) \in 1..Len(s) /\ at(k) \in 1..Len(s) /\ at(j) < at(k)
          /\ u[j] = s[at(j)] /\ u[k] = s[at(k)]
      BY <2>1, <2>5
    <3> QED BY <2>9, <3>1 DEF SortedBy
  <2> QED BY <2>5, <2>6, <2>7, <2>8, <2>9 DEF u
<1> QED BY <1>1, <1>2

\* u is s with node x put after its first k nodes.
Inserted(s, k, x, u) ==
  /\ Len(u) = Len(s) + 1
  /\ \A j \in 1..k : u[j] = s[j]
  /\ u[k + 1] = x
  /\ \A j \in (k + 2)..(Len(s) + 1) : u[j] = s[j - 1]

\* A list with a node inserted has exactly that node more.
LEMMA InsertedIs ==
  ASSUME NEW S, NEW s \in Seq(S), Injective(s), NEW x \in S, x \notin ToSet(s),
         NEW k \in 0..Len(s), NEW u \in Seq(S), Inserted(s, k, x, u)
  PROVE  ToSet(u) = ToSet(s) \cup {x} /\ Injective(u)
<1> DEFINE at(n) == IF n <= k THEN n ELSE n - 1
<1> USE DEF Inserted
<1>1. Len(s) \in Nat
  BY LenProperties
<1>2. \A j \in 1..Len(s) : s[j] # x
  BY ToSetIs
<1>3. ASSUME NEW j \in 1..Len(u), j # k + 1
      PROVE  at(j) \in 1..Len(s) /\ u[j] = s[at(j)]
  <2>1. CASE j <= k
    BY <1>1, <2>1
  <2>2. CASE j > k
    <3>1. j \in (k + 2)..(Len(s) + 1)
      BY <1>1, <1>3, <2>2
    <3> QED BY <1>1, <2>2, <3>1
  <2> QED BY <1>1, <2>1, <2>2
<1>4. ASSUME NEW j \in 1..Len(u), u[j] = x PROVE j = k + 1
  BY <1>2, <1>3, <1>4
<1>5. k + 1 \in 1..Len(u)
  BY <1>1
<1>6. Injective(u)
  <2> SUFFICES ASSUME NEW i \in 1..Len(u), NEW j \in 1..Len(u), u[i] = u[j]
               PROVE  i = j
    BY DEF Injective
  <2>1. CASE u[i] = x
    BY <1>4, <2>1
  <2>2. CASE u[i] # x
    <3>1. i # k + 1 /\ j # k + 1
      BY <2>2
    <3>2. /\ at(i) \in 1..Len(s) /\ u[i] = s[at(i)]
          /\ at(j) \in 1..Len(s) /\ u[j] = s[at(j)]
      BY <1>3, <3>1
    <3> HIDE DEF at
    <3>3. at(i) = at(j)
      BY <3>2 DEF Injective
    <3> USE DEF at
    <3> QED BY <1>1, <3>1, <3>3
  <2> QED BY <2>1, <2>2
<1>7. ToSet(u) \subseteq ToSet(s) \cup {x}
  <2> SUFFICES ASSUME NEW j \in 1..Len(u) PROVE u[j] = x \/ \E i \in 1..Len(s) : s[i] = u[j]
    BY ToSetIs
  <2> QED BY <1>3
<1>8. ToSet(s) \cup {x} \subseteq ToSet(u)
  <2>1. ASSUME NEW i \in 1..Len(s) PROVE \E j \in 1..Len(u) : u[j] = s[i]
    <3>1. CASE i <= k
      <4>1. i \in 1..Len(u) /\ u[i] = s[i]
        BY <1>1, <3>1
      <4> QED BY <4>1
    <3>2. CASE i > k
      <4>1. i + 1 \in (k + 2)..(Len(s) + 1) /\ (i + 1) - 1 = i /\ i + 1 \in 1..Len(u)
        BY <1>1, <3>2
      <4>2. u[i + 1] = s[i]
        BY <4>1
      <4> QED BY <4>1, <4>2
    <3> QED BY <1>1, <3>1, <3>2
  <2> QED BY <1>5, <2>1, ToSetIs, SMTT(60)
<1> QED BY <1>6, <1>7, <1>8

\* Inserting a node that is not in the list puts it after the first k nodes,
\* and changes nothing else.
LEMMA InsertAtIs ==
  ASSUME NEW S, NEW s \in Seq(S), NEW x \in S, NEW k \in 0..Len(s), NEW u,
         u = InsertAt(s, k + 1, x)
  PROVE  u \in Seq(S) /\ Inserted(s, k, x, u)
<1> DEFINE a == SubSeq(s, 1, k)
           b == SubSeq(s, k + 1, Len(s))
           m == a \o << x >>
<1>1. Len(s) \in Nat /\ u = m \o b
  BY LenProperties DEF InsertAt
<1>2. /\ a \in Seq(S) /\ Len(a) = k
      /\ \A j \in 1..k : a[j] = s[j]
  <2>1. \A j \in 1..k : s[j] \in S
    BY <1>1, ElementOfSeq
  <2> QED BY <1>1, <2>1, SubSeqProperties
<1>3. /\ b \in Seq(S) /\ Len(b) = Len(s) - k
      /\ \A j \in 1..(Len(s) - k) : b[j] = s[k + j]
  <2>1. \A j \in (k + 1)..Len(s) : s[j] \in S
    BY <1>1, ElementOfSeq
  <2>2. /\ b \in Seq(S)
        /\ Len(b) = IF k + 1 <= Len(s) THEN Len(s) - (k + 1) + 1 ELSE 0
        /\ \A j \in 1..(Len(s) - (k + 1) + 1) : b[j] = s[(k + 1) + j - 1]
    BY <1>1, <2>1, SubSeqProperties
  <2> QED BY <1>1, <2>2
<1> HIDE DEF a, b
<1>4. /\ m \in Seq(S) /\ Len(m) = k + 1
      /\ \A j \in 1..k : m[j] = s[j]
      /\ m[k + 1] = x
  <2>1. << x >> \in Seq(S) /\ Len(<< x >>) = 1 /\ << x >>[1] = x
    OBVIOUS
  <2>2. /\ m \in Seq(S) /\ Len(m) = Len(a) + 1
        /\ \A j \in 1..(Len(a) + 1) : m[j] = IF j <= Len(a) THEN a[j] ELSE << x >>[j - Len(a)]
    BY <1>2, <2>1, ConcatProperties
  <2> QED BY <1>1, <1>2, <2>1, <2>2
<1> HIDE DEF m
<1>5. /\ m \o b \in Seq(S) /\ Len(m \o b) = Len(m) + Len(b)
      /\ \A j \in 1..(Len(m) + Len(b)) : (m \o b)[j] = IF j <= Len(m) THEN m[j] ELSE b[j - Len(m)]
  BY <1>3, <1>4, ConcatProperties
<1>6. \A j \in 1..(Len(s) + 1) : u[j] = IF j <= k + 1 THEN m[j] ELSE b[j - (k + 1)]
  <2>1. Len(m) = k + 1 /\ Len(m) + Len(b) = Len(s) + 1
    BY <1>1, <1>3, <1>4
  <2> QED BY <1>1, <1>5, <2>1
<1>7. ASSUME NEW j \in (k + 2)..(Len(s) + 1) PROVE u[j] = s[j - 1]
  <2>1. j - (k + 1) \in 1..(Len(s) - k) /\ k + (j - (k + 1)) = j - 1
        /\ j \in 1..(Len(s) + 1) /\ ~(j <= k + 1)
    BY <1>1
  <2>2. u[j] = b[j - (k + 1)]
    BY <1>6, <2>1
  <2> QED BY <1>3, <2>1, <2>2
<1>8. \A j \in 1..k : u[j] = s[j]
  BY <1>1, <1>4, <1>6
<1>9. u[k + 1] = x
  BY <1>1, <1>4, <1>6
<1>10. Len(u) = Len(s) + 1
  BY <1>1, <1>3, <1>4, <1>5
<1> QED BY <1>1, <1>5, <1>7, <1>8, <1>9, <1>10 DEF Inserted

\* addNode's position is in the list, after every node of the same or a lower
\* order and before every other.
LEMMA PrioPosIs ==
  ASSUME NEW S, NEW s \in Seq(S), NEW order \in [S -> Nat], NEW x \in S
  PROVE  /\ PrioPos(s, x, order) \in 0..Len(s)
         /\ \A j \in 1..PrioPos(s, x, order) : order[s[j]] <= order[x]
         /\ PrioPos(s, x, order) < Len(s) => order[s[PrioPos(s, x, order) + 1]] > order[x]
<1> DEFINE T == {k \in 0..Len(s) : k < Len(s) => order[s[k + 1]] > order[x]}
<1>1. Len(s) \in Nat /\ \A i \in 1..Len(s) : s[i] \in S
  BY LenProperties, ElementOfSeq
<1>2. T \in SUBSET Nat /\ Len(s) \in T
  BY <1>1
<1>3. PICK m \in T : \A n \in T : m <= n
  BY <1>2, NatMin
<1>4. ASSUME NEW j \in 1..m PROVE order[s[j]] <= order[x]
  <2>1. j - 1 \in 0..Len(s) /\ j - 1 < Len(s) /\ j - 1 < m /\ s[j] \in S /\ (j - 1) + 1 = j
    BY <1>1, <1>3
  <2>2. j - 1 \notin T
    BY <1>3, <2>1
  <2>3. ~(order[s[j]] > order[x])
    BY <2>1, <2>2
  <2>4. order[s[j]] \in Nat /\ order[x] \in Nat
    BY <2>1
  <2> QED BY <2>3, <2>4
<1>5. m \in 0..Len(s) /\ (m < Len(s) => order[s[m + 1]] > order[x])
  BY <1>3
<1>6. \E k \in 0..Len(s) : /\ \A j \in 1..k : order[s[j]] <= order[x]
                           /\ k < Len(s) => order[s[k + 1]] > order[x]
  BY <1>4, <1>5
<1> QED BY <1>6 DEF PrioPos

\* addNode adds exactly that node, and keeps a sorted list sorted.
LEMMA AddNodeIs ==
  ASSUME NEW S, NEW s \in Seq(S), Injective(s), NEW order \in [S -> Nat],
         NEW x \in S, x \notin ToSet(s)
  PROVE  /\ AddNode(s, x, order) \in Seq(S)
         /\ ToSet(AddNode(s, x, order)) = ToSet(s) \cup {x}
         /\ Injective(AddNode(s, x, order))
         /\ SortedBy(s, order) => SortedBy(AddNode(s, x, order), order)
         /\ Inserted(s, PrioPos(s, x, order), x, AddNode(s, x, order))
<1> DEFINE k == PrioPos(s, x, order)
           u == AddNode(s, x, order)
<1>1. /\ k \in 0..Len(s)
      /\ \A j \in 1..k : order[s[j]] <= order[x]
      /\ k < Len(s) => order[s[k + 1]] > order[x]
  BY PrioPosIs
<1>2. u = InsertAt(s, k + 1, x)
  BY DEF AddNode
<1> HIDE DEF k, u
<1>3. u \in Seq(S) /\ Inserted(s, k, x, u)
  BY <1>1, <1>2, InsertAtIs
<1>4. ToSet(u) = ToSet(s) \cup {x} /\ Injective(u)
  BY <1>1, <1>3, InsertedIs
<1>5. Len(s) \in Nat /\ order[x] \in Nat
  BY LenProperties
<1>6. \A i \in 1..Len(s) : order[s[i]] \in Nat
  BY ElementOfSeq
<1>7. ASSUME SortedBy(s, order) PROVE SortedBy(u, order)
  <2> SUFFICES ASSUME NEW i \in 1..Len(u), NEW j \in 1..Len(u), i < j
               PROVE  order[u[i]] <= order[u[j]]
    BY DEF SortedBy
  <2>0. i \in 1..(Len(s) + 1) /\ j \in 1..(Len(s) + 1)
    BY <1>3 DEF Inserted
  <2>1. CASE j <= k
    <3>1. i \in 1..k /\ j \in 1..k /\ i \in 1..Len(s) /\ j \in 1..Len(s)
      BY <1>1, <1>5, <2>0, <2>1
    <3>2. u[i] = s[i] /\ u[j] = s[j]
      BY <1>3, <3>1 DEF Inserted
    <3> QED BY <1>7, <3>1, <3>2 DEF SortedBy
  <2>2. CASE j = k + 1
    <3>1. i \in 1..k
      BY <1>1, <1>5, <2>0, <2>2
    <3> QED BY <1>1, <1>3, <2>2, <3>1 DEF Inserted
  <2>3. CASE j > k + 1
    <3>1. j \in (k + 2)..(Len(s) + 1) /\ j - 1 \in 1..Len(s)
      BY <1>1, <1>5, <2>0, <2>3
    <3>2. u[j] = s[j - 1]
      BY <1>3, <3>1 DEF Inserted
    <3>3. CASE i <= k
      <4>1. i \in 1..k /\ i \in 1..Len(s) /\ i < j - 1
        BY <1>1, <1>5, <2>0, <2>3, <3>3
      <4>2. u[i] = s[i]
        BY <1>3, <4>1 DEF Inserted
      <4> QED BY <1>7, <3>1, <3>2, <4>1, <4>2 DEF SortedBy
    <3>4. CASE i = k + 1
      <4>1. k + 1 \in 1..Len(s) /\ k < Len(s) /\ (k + 1 = j - 1 \/ k + 1 < j - 1)
        BY <1>1, <1>5, <2>3, <3>1
      <4>2. order[s[k + 1]] <= order[s[j - 1]]
        <5>1. CASE k + 1 = j - 1
          BY <1>6, <3>1, <5>1
        <5>2. CASE k + 1 < j - 1
          BY <1>7, <3>1, <4>1, <5>2 DEF SortedBy
        <5> QED BY <4>1, <5>1, <5>2
      <4>3. order[s[k + 1]] > order[x]
        BY <1>1, <4>1
      <4>4. order[s[k + 1]] \in Nat /\ order[s[j - 1]] \in Nat
        BY <1>6, <3>1, <4>1
      <4>5. order[x] <= order[s[j - 1]]
        BY <1>5, <4>2, <4>3, <4>4
      <4>6. u[i] = x
        BY <1>3, <3>4 DEF Inserted
      <4> QED BY <3>2, <4>5, <4>6
    <3>5. CASE i > k + 1
      <4>1. i \in (k + 2)..(Len(s) + 1) /\ i - 1 \in 1..Len(s) /\ i - 1 < j - 1
        BY <1>1, <1>5, <2>0, <2>3, <3>5
      <4>2. u[i] = s[i - 1]
        BY <1>3, <4>1 DEF Inserted
      <4> QED BY <1>7, <3>1, <3>2, <4>1, <4>2 DEF SortedBy
    <3> QED BY <1>1, <1>5, <2>0, <3>3, <3>4, <3>5
  <2> QED BY <1>1, <1>5, <2>0, <2>1, <2>2, <2>3
<1> QED BY <1>3, <1>4, <1>7 DEF k, u

\* cListMg_c::append and prepend add exactly that node.
LEMMA AppendIs ==
  ASSUME NEW S, NEW s \in Seq(S), Injective(s), NEW x \in S, x \notin ToSet(s)
  PROVE  /\ Append(s, x) \in Seq(S)
         /\ ToSet(Append(s, x)) = ToSet(s) \cup {x}
         /\ Injective(Append(s, x))
         /\ Inserted(s, Len(s), x, Append(s, x))
<1> DEFINE u == Append(s, x)
           k == Len(s)
<1>1. k \in Nat /\ k \in 0..Len(s)
  BY LenProperties
<1>2. /\ u \in Seq(S) /\ Len(u) = Len(s) + 1
      /\ \A i \in 1..k : u[i] = s[i]
      /\ u[k + 1] = x
  BY AppendProperties
<1>3. \A j \in (k + 2)..(Len(s) + 1) : u[j] = s[j - 1]
  BY <1>1
<1> HIDE DEF u
<1>4. ToSet(u) = ToSet(s) \cup {x} /\ Injective(u) /\ Inserted(s, k, x, u)
  <2>1. Inserted(s, k, x, u)
    BY <1>2, <1>3 DEF Inserted
  <2> QED BY <1>1, <1>2, <2>1, InsertedIs
<1> QED BY <1>2, <1>4 DEF u

LEMMA ConsIs ==
  ASSUME NEW S, NEW s \in Seq(S), Injective(s), NEW x \in S, x \notin ToSet(s)
  PROVE  /\ Cons(x, s) \in Seq(S)
         /\ ToSet(Cons(x, s)) = ToSet(s) \cup {x}
         /\ Injective(Cons(x, s))
         /\ Inserted(s, 0, x, Cons(x, s))
<1> DEFINE u == << x >> \o s
<1>1. Len(s) \in Nat /\ 0 \in 0..Len(s)
  BY LenProperties
<1>2. << x >> \in Seq(S) /\ Len(<< x >>) = 1 /\ << x >>[1] = x
  OBVIOUS
<1>3. /\ u \in Seq(S) /\ Len(u) = 1 + Len(s)
      /\ \A j \in 1..(1 + Len(s)) : u[j] = IF j <= 1 THEN << x >>[j] ELSE s[j - 1]
  BY <1>2, ConcatProperties
<1> HIDE DEF u
<1>4. Len(u) = Len(s) + 1 /\ \A j \in 1..0 : u[j] = s[j]
  BY <1>1, <1>3
<1>5. u[0 + 1] = x
  BY <1>1, <1>2, <1>3
<1>6. \A j \in (0 + 2)..(Len(s) + 1) : u[j] = s[j - 1]
  BY <1>1, <1>3
<1>7. ToSet(u) = ToSet(s) \cup {x} /\ Injective(u) /\ Inserted(s, 0, x, u)
  <2>1. Inserted(s, 0, x, u)
    BY <1>4, <1>5, <1>6 DEF Inserted
  <2> QED BY <1>1, <1>3, <2>1, InsertedIs
<1> QED BY <1>3, <1>7 DEF u, Cons

-----------------------------------------------------------------------------
(* The nodes above a node of a tree, from the bottom up.  FTree defines    *)
(* them by recursion over the parents; that there is such a function needs *)
(* no induction, as the sets that are closed upwards give one outright.    *)
Ups(S, par) ==
  CHOOSE up : up = [x \in S \cup {Null} |-> IF x = Null THEN {} ELSE {x} \cup up[par[x]]]

\* The least set that has x and the parents of its members.
Closed(par, C) == \A x \in C : x # Null => par[x] \in C
Above(S, par, x) ==
  {y \in S : \A C \in SUBSET (S \cup {Null}) : x \in C /\ Closed(par, C) => y \in C}

LEMMA AboveIs ==
  ASSUME NEW S, Null \notin S, NEW par \in [S -> S \cup {Null}], NEW x \in S
  PROVE  Above(S, par, x) = {x} \cup (IF par[x] = Null THEN {} ELSE Above(S, par, par[x]))
<1> DEFINE p == par[x]
           A == IF p = Null THEN {} ELSE Above(S, par, p)
<1>1. p \in S \cup {Null} /\ A \in SUBSET S
  BY DEF Above
<1>2. x \in Above(S, par, x) /\ (p # Null => p \in A)
  BY <1>1 DEF Above
<1>3. ASSUME NEW z \in A PROVE par[z] \in A \cup {Null}
  <2>1. par[z] \in S \cup {Null} /\ p \in S /\ z \in Above(S, par, p) /\ z # Null
    BY <1>1, <1>3
  <2>2. ASSUME par[z] # Null PROVE par[z] \in Above(S, par, p)
    BY <2>1, <2>2 DEF Above, Closed
  <2> QED BY <2>1, <2>2
<1>4. Above(S, par, x) \subseteq {x} \cup A
  <2> DEFINE C == {x, Null} \cup A
  <2>1. C \in SUBSET (S \cup {Null}) /\ x \in C
    BY <1>1
  <2>2. Closed(par, C)
    BY <1>1, <1>2, <1>3 DEF Closed
  <2>3. ASSUME NEW y \in Above(S, par, x) PROVE y \in C /\ y # Null
    BY <1>1, <2>1, <2>2 DEF Above
  <2> QED BY <2>3
<1>5. ASSUME NEW y \in A PROVE y \in Above(S, par, x)
  <2>1. y \in S /\ y \in Above(S, par, p) /\ p # Null
    BY <1>1, <1>5
  <2>2. ASSUME NEW C \in SUBSET (S \cup {Null}), x \in C, Closed(par, C) PROVE y \in C
    <3>1. p \in C
      BY <1>1, <2>2 DEF Closed
    <3> QED BY <2>1, <2>2, <3>1 DEF Above
  <2> QED BY <2>1, <2>2 DEF Above
<1> QED BY <1>2, <1>4, <1>5

LEMMA UpsIs ==
  ASSUME NEW S, Null \notin S, NEW par \in [S -> S \cup {Null}]
  PROVE  /\ Ups(S, par)[Null] = {}
         /\ \A x \in S : Ups(S, par)[x] = {x} \cup Ups(S, par)[par[x]]
<1> DEFINE g == [x \in S \cup {Null} |-> IF x = Null THEN {} ELSE Above(S, par, x)]
           up == Ups(S, par)
<1>1. \A x \in S : par[x] \in S \cup {Null}
  OBVIOUS
<1>2. g = [x \in S \cup {Null} |-> IF x = Null THEN {} ELSE {x} \cup g[par[x]]]
  <2>1. ASSUME NEW x \in S PROVE Above(S, par, x) = {x} \cup g[par[x]]
    BY <1>1, AboveIs
  <2> QED BY <2>1
<1> HIDE DEF g
<1>3. up = [x \in S \cup {Null} |-> IF x = Null THEN {} ELSE {x} \cup up[par[x]]]
  BY <1>2 DEF Ups
<1> HIDE DEF up
<1>4. up[Null] = {} /\ \A x \in S : up[x] = {x} \cup up[par[x]]
  BY <1>3
<1> QED BY <1>4 DEF up

-----------------------------------------------------------------------------
(* The preorder of a tree, for FBase's walk and for the pointers'.  L are  *)
(* the nodes, younger than their parents (par), and up[x] is x and what is *)
(* above it.  What holds of every node is proved from a smallest one of    *)
(* which it would not.                                                     *)
Tree(L, par, up) ==
  /\ L \in SUBSET Nat /\ Null \notin L /\ up[Null] = {}
  /\ \A x \in L : /\ up[x] = {x} \cup up[par[x]]
                  /\ par[x] = Null \/ (par[x] \in L /\ par[x] < x)

LEMMA TreeIs ==
  ASSUME NEW L, NEW par, NEW up, Tree(L, par, up)
  PROVE  /\ L \in SUBSET Nat /\ Null \notin L /\ up[Null] = {}
         /\ \A x \in L : x \in up[x] /\ up[x] = {x} \cup up[par[x]]
         /\ \A x \in L : par[x] = Null \/ (par[x] \in L /\ par[x] < x)
BY DEF Tree

\* All above a node lives, and is not younger.
LEMMA UpsLive ==
  ASSUME NEW L, NEW par, NEW up, Tree(L, par, up), NEW b \in L
  PROVE  \A a \in up[b] : a \in L /\ a <= b
<1> DEFINE P(x) == \A a \in up[x] : a \in L /\ a <= x
           T == {x \in L : ~P(x)}
<1> USE TreeIs
<1>1. SUFFICES ASSUME T # {} PROVE FALSE
  OBVIOUS
<1>2. PICK x \in T : \A y \in T : x <= y
  BY <1>1, NatMin
<1>3. x \in L /\ ~P(x)
  BY <1>2
<1>4. CASE par[x] = Null
  BY <1>3, <1>4
<1>5. CASE par[x] # Null
  <2>1. par[x] \in L /\ par[x] < x
    BY <1>3, <1>5
  <2>2. P(par[x])
    BY <1>2, <2>1
  <2>3. \A a \in up[par[x]] : a \in L /\ a <= x
    BY <1>3, <2>1, <2>2
  <2> QED BY <1>3, <2>3
<1> QED BY <1>4, <1>5

\* Of two nodes above b the older one is above the other one.
LEMMA UpsAreChain ==
  ASSUME NEW L, NEW par, NEW up, Tree(L, par, up), NEW b \in L,
         NEW a \in up[b], NEW u \in up[b], a <= u
  PROVE  a \in up[u]
<1> DEFINE P(x) == \A v, w \in up[x] : v <= w => v \in up[w]
           T == {x \in L : ~P(x)}
<1> USE TreeIs
<1>1. SUFFICES ASSUME T # {} PROVE FALSE
  OBVIOUS
<1>2. PICK x \in T : \A y \in T : x <= y
  BY <1>1, NatMin
<1>3. x \in L /\ ~P(x)
  BY <1>2
<1>4. CASE par[x] = Null
  BY <1>3, <1>4
<1>5. CASE par[x] # Null
  <2>1. par[x] \in L /\ par[x] < x
    BY <1>3, <1>5
  <2>2. P(par[x])
    BY <1>2, <2>1
  <2>3. \A v \in up[par[x]] : v \in L /\ v < x
    <3>1. \A v \in up[par[x]] : v \in L /\ v <= par[x]
      BY <2>1, UpsLive
    <3> QED BY <1>3, <2>1, <3>1
  <2>4. ASSUME NEW v \in up[x], NEW w \in up[x], v <= w PROVE v \in up[w]
    <3>1. CASE w = x
      BY <3>1
    <3>2. CASE w # x
      BY <1>3, <2>2, <2>3, <2>4, <3>2
    <3> QED BY <3>1, <3>2
  <2> QED BY <1>3, <2>4
<1> QED BY <1>4, <1>5

\* What is above a node above b is above b.
LEMMA UpsNest ==
  ASSUME NEW L, NEW par, NEW up, Tree(L, par, up), NEW b \in L, NEW u \in up[b]
  PROVE  up[u] \subseteq up[b]
<1> DEFINE P(x) == \A w \in up[x] : up[w] \subseteq up[x]
           T == {x \in L : ~P(x)}
<1> USE TreeIs
<1>1. SUFFICES ASSUME T # {} PROVE FALSE
  OBVIOUS
<1>2. PICK x \in T : \A y \in T : x <= y
  BY <1>1, NatMin
<1>3. x \in L /\ ~P(x)
  BY <1>2
<1>4. CASE par[x] = Null
  BY <1>3, <1>4
<1>5. CASE par[x] # Null
  <2>1. par[x] \in L /\ par[x] < x
    BY <1>3, <1>5
  <2>2. P(par[x])
    BY <1>2, <2>1
  <2> QED BY <1>3, <2>2
<1> QED BY <1>4, <1>5

\* Between b and a node above it there is a child of that node, and at the top
\* there is a root.
LEMMA UpsBelow ==
  ASSUME NEW L, NEW par, NEW up, Tree(L, par, up), NEW b \in L
  PROVE  /\ \A a \in up[b] : a # b => \E c \in up[b] : c \in L /\ par[c] = a
         /\ \E r \in up[b] : r \in L /\ par[r] = Null
<1> DEFINE P(x) == /\ \A a \in up[x] : a # x => \E c \in up[x] : c \in L /\ par[c] = a
                   /\ \E r \in up[x] : r \in L /\ par[r] = Null
           T == {x \in L : ~P(x)}
<1> USE TreeIs
<1>1. SUFFICES ASSUME T # {} PROVE FALSE
  OBVIOUS
<1>2. PICK x \in T : \A y \in T : x <= y
  BY <1>1, NatMin
<1>3. x \in L /\ ~P(x)
  BY <1>2
<1>4. CASE par[x] = Null
  BY <1>3, <1>4
<1>5. CASE par[x] # Null
  <2>1. par[x] \in L /\ par[x] < x /\ up[x] = {x} \cup up[par[x]]
    BY <1>3, <1>5
  <2>2. P(par[x])
    BY <1>2, <2>1
  <2>3. ASSUME NEW a \in up[x], a # x PROVE \E c \in up[x] : c \in L /\ par[c] = a
    <3>1. CASE a = par[x]
      BY <1>3, <2>1, <3>1
    <3>2. CASE a # par[x]
      BY <2>1, <2>2, <2>3, <3>2
    <3> QED BY <3>1, <3>2
  <2>4. \E r \in up[x] : r \in L /\ par[r] = Null
    BY <2>1, <2>2
  <2> QED BY <1>3, <2>3, <2>4
<1> QED BY <1>4, <1>5

\* What a walk that stands on n has still to visit: n and what is below it, and
\* the younger siblings of n and of what is above n, and what is below them.
Younger(L, par, b) == {c \in L : par[c] = par[b] /\ c > b}
Under(L, up, n) == {x \in L : n \in up[x]}
Beyond(L, par, up, n) ==
  {x \in L : \E a \in up[n], y \in up[x] : y \in Younger(L, par, a)}
Remaining(L, par, up, n) == Under(L, up, n) \cup Beyond(L, par, up, n)

\* m is the eldest of C.
Eldest(C, m) == m \in C /\ \A c \in C : m <= c
Childs(L, par, n) == {c \in L : par[c] = n}

\* m comes first after n and all below it: an eldest younger sibling, of the
\* lowest node above n that has one.
Passes(L, par, up, n, m) ==
  \/ m = Null /\ \A a \in up[n] : Younger(L, par, a) = {}
  \/ \E u \in up[n] : /\ Eldest(Younger(L, par, u), m)
                      /\ \A a \in up[n] : Younger(L, par, a) # {} => a <= u

LEMMA PassesIs ==
  ASSUME NEW L, NEW par, NEW up, Tree(L, par, up), NEW n \in L, NEW m,
         LET T == {a \in up[n] : Younger(L, par, a) # {}}
         IN IF T = {} THEN m = Null ELSE Eldest(Younger(L, par, Max(T)), m)
  PROVE  Passes(L, par, up, n, m)
<1> DEFINE T == {a \in up[n] : Younger(L, par, a) # {}}
<1>1. CASE T = {}
  BY <1>1 DEF Passes
<1>2. CASE T # {}
  <2>1. T \in SUBSET Nat /\ n \in Nat /\ \A a \in T : a <= n
    BY UpsLive, TreeIs
  <2>2. T \subseteq up[n] /\ Eldest(Younger(L, par, Max(T)), m)
        /\ \A a \in up[n] : Younger(L, par, a) # {} => a \in T
    BY <1>2
  <2> HIDE DEF T
  <2>3. Max(T) \in T /\ \A a \in T : a <= Max(T)
    BY <1>2, <2>1, MaxIn
  <2> QED BY <2>2, <2>3 DEF Passes
<1> QED BY <1>1, <1>2

\* What is below n does not come after n and all below it.
LEMMA UnderOrBeyond ==
  ASSUME NEW L, NEW par, NEW up, Tree(L, par, up), NEW n \in L, NEW x \in Under(L, up, n)
  PROVE  x \notin Beyond(L, par, up, n)
<1> USE TreeIs
<1>1. SUFFICES ASSUME NEW a \in up[n], NEW y \in up[x], y \in Younger(L, par, a) PROVE FALSE
  BY DEF Beyond
<1>2. x \in L /\ n \in up[x]
  BY DEF Under
<1>3. a \in up[x]
  BY <1>2, UpsNest
<1>4. a \in L /\ y \in L /\ a < y /\ par[y] = par[a]
  BY <1>1, <1>2, <1>3, UpsLive DEF Younger
<1>5. a \in up[y]
  <2>1. a <= y
    BY <1>4
  <2> QED BY <1>2, <1>3, <2>1, UpsAreChain
<1>6. a \in up[par[a]]
  BY <1>4, <1>5
<1>7. par[a] \in L /\ par[a] < a
  BY <1>4, <1>6
<1>8. a <= par[a]
  BY <1>6, <1>7, UpsLive
<1> QED BY <1>4, <1>7, <1>8

LEMMA BeyondNull ==
  ASSUME NEW L, NEW par, NEW up, Tree(L, par, up)
  PROVE  Remaining(L, par, up, Null) = {}
<1> USE TreeIs
<1>1. \A x \in L : Null \notin up[x]
  BY UpsLive
<1> QED BY <1>1 DEF Remaining, Under, Beyond

\* The next node that is not below n has all the rest before it.
LEMMA PassesRest ==
  ASSUME NEW L, NEW par, NEW up, Tree(L, par, up), NEW n \in L, NEW m, Passes(L, par, up, n, m)
  PROVE  Remaining(L, par, up, m) = Beyond(L, par, up, n)
<1> USE TreeIs
<1>1. CASE \A a \in up[n] : Younger(L, par, a) = {}
  <2>1. m = Null
    BY <1>1 DEF Passes, Eldest
  <2>2. Beyond(L, par, up, n) = {}
    BY <1>1 DEF Beyond
  <2> QED BY <2>1, <2>2, BeyondNull
<1>2. CASE ~\A a \in up[n] : Younger(L, par, a) = {}
  <2>1. PICK u \in up[n] : /\ Eldest(Younger(L, par, u), m)
                           /\ \A a \in up[n] : Younger(L, par, a) # {} => a <= u
    BY <1>2 DEF Passes
  <2>2. /\ u \in L /\ m \in L /\ par[m] = par[u] /\ m > u
        /\ \A c \in Younger(L, par, u) : m <= c
    BY <2>1, UpsLive DEF Eldest, Younger
  <2>3. up[m] = {m} \cup up[par[u]] /\ up[par[u]] \subseteq up[u] /\ up[u] \subseteq up[n]
    BY <2>1, <2>2, UpsNest
  <2>4. ASSUME NEW x \in Remaining(L, par, up, m) PROVE x \in Beyond(L, par, up, n)
    <3>1. CASE x \in L /\ m \in up[x]
      <4>1. m \in Younger(L, par, u)
        BY <2>2 DEF Younger
      <4> QED BY <2>1, <3>1, <4>1 DEF Beyond
    <3>2. CASE x \notin Under(L, up, m)
      <4>1. PICK a \in up[m], y \in up[x] : y \in Younger(L, par, a)
        BY <2>4, <3>2 DEF Remaining, Beyond
      <4>2. x \in L
        BY <2>4 DEF Remaining, Under, Beyond
      <4>3. CASE a = m
        <5>1. y \in L /\ y > m /\ par[y] = par[m]
          BY <4>1, <4>3 DEF Younger
        <5>2. y \in Younger(L, par, u)
          BY <2>2, <5>1 DEF Younger
        <5> QED BY <2>1, <4>2, <5>2 DEF Beyond
      <4>4. CASE a # m
        BY <2>3, <4>1, <4>2, <4>4 DEF Beyond
      <4> QED BY <4>3, <4>4
    <3> QED BY <3>1, <3>2 DEF Under
  <2>5. ASSUME NEW x \in Beyond(L, par, up, n) PROVE x \in Remaining(L, par, up, m)
    <3>1. PICK a \in up[n], y \in up[x] : y \in Younger(L, par, a)
      BY <2>5 DEF Beyond
    <3>2. x \in L /\ a \in L /\ y \in L /\ a <= u
      BY <2>1, <2>5, <3>1, UpsLive DEF Beyond
    <3>3. CASE a = u
      <4>1. y \in L /\ m <= y /\ par[y] = par[m]
        BY <2>2, <3>1, <3>3 DEF Younger
      <4>2. m = y \/ y \in Younger(L, par, m)
        BY <2>2, <4>1 DEF Younger
      <4> QED BY <2>2, <3>1, <3>2, <4>2 DEF Remaining, Under, Beyond
    <3>4. CASE a # u
      <4>1. a \in up[u]
        BY <2>1, <3>2, UpsAreChain
      <4>2. a \in up[m]
        BY <2>2, <2>3, <3>4, <4>1
      <4> QED BY <3>1, <3>2, <4>2 DEF Remaining, Beyond
    <3> QED BY <3>3, <3>4
  <2> QED BY <2>4, <2>5
<1> QED BY <1>1, <1>2

\* A step of the walk leaves all that remains but the node it leaves.
LEMMA PreorderStep ==
  ASSUME NEW L, NEW par, NEW up, Tree(L, par, up), NEW n \in L, NEW m,
         IF Childs(L, par, n) = {} THEN Passes(L, par, up, n, m) ELSE Eldest(Childs(L, par, n), m)
  PROVE  Remaining(L, par, up, m) = Remaining(L, par, up, n) \ {n}
<1> USE TreeIs
<1>1. n \in Under(L, up, n) /\ n \notin Beyond(L, par, up, n)
  BY UnderOrBeyond DEF Under
<1>2. ASSUME NEW x \in Under(L, up, n), x # n PROVE \E c \in up[x] : c \in Childs(L, par, n)
  BY <1>2, UpsBelow DEF Under, Childs
<1>3. CASE Childs(L, par, n) = {}
  <2>1. Under(L, up, n) = {n}
    BY <1>1, <1>2, <1>3
  <2>2. Remaining(L, par, up, m) = Beyond(L, par, up, n)
    BY <1>3, PassesRest
  <2> QED BY <1>1, <2>1, <2>2 DEF Remaining
<1>4. CASE Childs(L, par, n) # {}
  <2>1. m \in L /\ par[m] = n /\ n < m /\ \A c \in Childs(L, par, n) : m <= c
    BY <1>4 DEF Eldest, Childs
  <2>2. up[m] = {m} \cup up[n] /\ n \in up[n]
    BY <2>1
  <2>3. ASSUME NEW x \in Remaining(L, par, up, m)
        PROVE  x \in Remaining(L, par, up, n) /\ x # n
    <3>1. x \in L
      BY <2>3 DEF Remaining, Under, Beyond
    <3>2. CASE m \in up[x]
      <4>1. n \in up[x] /\ m <= x
        BY <2>1, <2>2, <3>1, <3>2, UpsNest, UpsLive
      <4> QED BY <2>1, <3>1, <4>1 DEF Remaining, Under
    <3>3. CASE m \notin up[x]
      <4>1. PICK a \in up[m], y \in up[x] : y \in Younger(L, par, a)
        BY <2>3, <3>3 DEF Remaining, Under, Beyond
      <4>2. CASE a = m
        <5>1. y \in L /\ par[y] = n /\ n < y /\ y <= x
          BY <2>1, <3>1, <4>1, <4>2, UpsLive DEF Younger
        <5>2. n \in up[y] /\ up[y] \subseteq up[x]
          BY <2>2, <3>1, <4>1, <5>1, UpsNest
        <5> QED BY <3>1, <5>1, <5>2 DEF Remaining, Under
      <4>3. CASE a # m
        <5>1. x \in Beyond(L, par, up, n)
          BY <2>2, <3>1, <4>1, <4>3 DEF Beyond
        <5> QED BY <1>1, <5>1 DEF Remaining
      <4> QED BY <4>2, <4>3
    <3> QED BY <3>2, <3>3
  <2>4. ASSUME NEW x \in Remaining(L, par, up, n), x # n PROVE x \in Remaining(L, par, up, m)
    <3>1. CASE x \in Under(L, up, n)
      <4>1. PICK c \in up[x] : c \in Childs(L, par, n)
        BY <1>2, <2>4, <3>1
      <4>2. c \in L /\ par[c] = par[m] /\ m <= c
        BY <2>1, <4>1 DEF Childs
      <4>3. c = m \/ c \in Younger(L, par, m)
        BY <2>1, <4>2 DEF Younger
      <4> QED BY <2>2, <3>1, <4>1, <4>3 DEF Remaining, Under, Beyond
    <3>2. CASE x \notin Under(L, up, n)
      BY <2>2, <2>4, <3>2 DEF Remaining, Beyond
    <3> QED BY <3>1, <3>2
  <2> QED BY <2>3, <2>4
<1> QED BY <1>3, <1>4

\* At the eldest root everything remains.
LEMMA RootRest ==
  ASSUME NEW L, NEW par, NEW up, Tree(L, par, up), NEW m,
         IF Childs(L, par, Null) = {} THEN m = Null ELSE Eldest(Childs(L, par, Null), m)
  PROVE  Remaining(L, par, up, m) = L
<1> USE TreeIs
<1>1. ASSUME NEW x \in L PROVE x \in Remaining(L, par, up, m)
  <2>1. PICK r \in up[x] : r \in L /\ par[r] = Null
    BY UpsBelow
  <2>2. r \in Childs(L, par, Null)
    BY <2>1 DEF Childs
  <2>3. m \in L /\ par[m] = Null /\ m <= r
    BY <2>2 DEF Eldest, Childs
  <2>4. r = m \/ r \in Younger(L, par, m)
    BY <2>1, <2>3 DEF Younger
  <2> QED BY <2>1, <2>3, <2>4 DEF Remaining, Under, Beyond
<1> QED BY <1>1 DEF Remaining, Under, Beyond

-----------------------------------------------------------------------------
(* Loops of n rounds, as functions of the round.                           *)

\* f starts with x0 and goes on with G.
Rounds(X, x0, G, n, f) ==
  f \in [1..n -> X] /\ f[1] = x0 /\ \A k \in 1..(n - 1) : f[k + 1] = G[f[k]]

LEMMA LoopExists ==
  ASSUME NEW X, NEW x0 \in X, NEW G \in [X -> X], NEW n \in Nat \ {0}
  PROVE  \E f : Rounds(X, x0, G, n, f)
<1> DEFINE Q(m) == \E f \in [1..m -> X] : f[1] = x0 /\ \A k \in 1..(m - 1) : f[k + 1] = G[f[k]]
           T == {m \in Nat \ {0} : ~Q(m)}
<1>1. SUFFICES ASSUME T # {} PROVE FALSE
  BY DEF Rounds
<1>2. PICK m \in T : \A l \in T : m <= l
  BY <1>1, NatMin
<1>3. m \in Nat \ {0} /\ ~Q(m)
  BY <1>2
<1>4. CASE m = 1
  <2>1. [k \in 1..1 |-> x0] \in [1..1 -> X] /\ [k \in 1..1 |-> x0][1] = x0 /\ 1..(1 - 1) = {}
    OBVIOUS
  <2>2. Q(1)
    BY <2>1
  <2> HIDE DEF Q
  <2> QED BY <1>3, <1>4, <2>2
<1>5. CASE m # 1
  <2>1. m - 1 \in Nat \ {0} /\ m - 1 < m
    BY <1>3, <1>5
  <2>2. Q(m - 1)
    <3> HIDE DEF Q
    <3> QED BY <1>2, <2>1
  <2>3. PICK f \in [1..(m - 1) -> X] : f[1] = x0 /\ \A k \in 1..((m - 1) - 1) : f[k + 1] = G[f[k]]
    BY <2>2
  <2> DEFINE g == [k \in 1..m |-> IF k < m THEN f[k] ELSE G[f[m - 1]]]
  <2>4. \A k \in 1..m : k < m => k \in 1..(m - 1) /\ g[k] = f[k] /\ f[k] \in X
    BY <1>3, <2>3
  <2>5. g[m] = G[f[m - 1]] /\ G[f[m - 1]] \in X /\ 1 < m
    BY <1>3, <1>5, <2>1, <2>3
  <2>6. g \in [1..m -> X]
    <3>1. \A k \in 1..m : g[k] \in X
      <4> HIDE DEF g
      <4> QED BY <1>3, <2>4, <2>5
    <3> QED BY <3>1
  <2> HIDE DEF g
  <2>7. g[1] = x0
    BY <1>3, <2>3, <2>4, <2>5
  <2>8. ASSUME NEW k \in 1..(m - 1) PROVE g[k + 1] = G[g[k]]
    <3>1. k \in 1..m /\ k < m /\ g[k] = f[k]
      BY <1>3, <2>4
    <3>2. CASE k = m - 1
      <4>1. k + 1 = m
        BY <1>3, <3>2
      <4> QED BY <2>5, <3>1, <3>2, <4>1
    <3>3. CASE k # m - 1
      <4>1. k \in 1..((m - 1) - 1) /\ k + 1 \in 1..m /\ k + 1 < m
        BY <1>3, <3>3
      <4> QED BY <2>3, <2>4, <3>1, <4>1
    <3> QED BY <3>2, <3>3
  <2> QED BY <1>3, <2>6, <2>7, <2>8
<1> QED BY <1>4, <1>5

\* What every round keeps holds in all of them.
LEMMA LoopStays ==
  ASSUME NEW X, NEW n \in Nat \ {0}, NEW f, f[1] \in X,
         \A k \in 1..(n - 1) : f[k] \in X => f[k + 1] \in X
  PROVE  \A k \in 1..n : f[k] \in X
<1> DEFINE T == {k \in 1..n : f[k] \notin X}
<1>1. SUFFICES ASSUME T # {} PROVE FALSE
  OBVIOUS
<1>2. PICK k \in T : \A l \in T : k <= l
  <2>1. T \in SUBSET Nat
    OBVIOUS
  <2> HIDE DEF T
  <2> QED BY <1>1, <2>1, NatMin
<1>3. k \in 1..n /\ f[k] \notin X /\ k # 1
  BY <1>2
<1>4. k - 1 \in 1..(n - 1) /\ k - 1 \in 1..n /\ (k - 1) + 1 = k /\ ~(k <= k - 1)
  BY <1>3
<1>5. f[k - 1] \in X
  BY <1>2, <1>4
<1> QED BY <1>3, <1>4, <1>5

-----------------------------------------------------------------------------
(* Walks.  at[k] is where the walk stands in its k-th round, R[x] what it  *)
(* still has to visit when it stands on x.                                 *)
Walks(L, R, n, at) ==
  /\ n \in Nat \ {0} /\ L \in SUBSET (1..(n - 1)) /\ R[Null] = {}
  /\ \A x \in L : x \in R[x] /\ R[x] \subseteq L
  /\ R[at[1]] = L
  /\ \A k \in 1..n : at[k] \in L \cup {Null}
  /\ \A k \in 1..(n - 1) : IF at[k] = Null THEN at[k + 1] = Null
                           ELSE R[at[k + 1]] = R[at[k]] \ {at[k]}

\* It is over after as many rounds as there are nodes.
LEMMA WalkEnds ==
  ASSUME NEW L, NEW R, NEW n, NEW at, Walks(L, R, n, at)
  PROVE  at[n] = Null
<1> DEFINE C(k) == IsFiniteSet(R[at[k]]) /\ Cardinality(R[at[k]]) <= n - k
           T == {k \in 1..n : ~C(k)}
<1>1. n \in Nat /\ n >= 1 /\ IsFiniteSet(1..(n - 1)) /\ Cardinality(1..(n - 1)) = n - 1
  <2>1. n \in Nat /\ n >= 1 /\ 1 \in Int /\ n - 1 \in Int
    BY DEF Walks
  <2> QED BY <2>1, FS_Interval
<1>2. C(1)
  <2>1. L \in SUBSET (1..(n - 1)) /\ R[at[1]] = L
    BY DEF Walks
  <2> QED BY <1>1, <2>1, FS_Subset
<1>3. ASSUME NEW k \in 1..(n - 1), C(k) PROVE C(k + 1)
  <2>1. k \in 1..n /\ at[k] \in L \cup {Null}
    BY <1>1 DEF Walks
  <2>2. CASE at[k] = Null
    <3>1. R[at[k + 1]] = {} /\ n - (k + 1) >= 0
      BY <1>1, <2>2 DEF Walks
    <3> QED BY <3>1, FS_EmptySet
  <2>3. CASE at[k] # Null
    <3>1. R[at[k + 1]] = R[at[k]] \ {at[k]} /\ at[k] \in R[at[k]]
      BY <2>1, <2>3 DEF Walks
    <3> DEFINE S == R[at[k]]
    <3>2. IsFiniteSet(S) /\ Cardinality(S) <= n - k /\ at[k] \in S /\ Cardinality(S) \in Nat
      BY <1>3, <3>1, FS_CardinalityType
    <3> HIDE DEF S
    <3>3. IsFiniteSet(S \ {at[k]}) /\ Cardinality(S \ {at[k]}) = Cardinality(S) - 1
      BY <3>2, FS_RemoveElement
    <3>4. Cardinality(S \ {at[k]}) <= n - (k + 1)
      BY <1>1, <3>2, <3>3
    <3> QED BY <3>1, <3>3, <3>4 DEF S
  <2> QED BY <2>2, <2>3
<1>4. C(n)
  <2> HIDE DEF C
  <2>1. SUFFICES ASSUME T # {} PROVE FALSE
    BY <1>1
  <2>2. PICK k \in T : \A l \in T : k <= l
    <3>1. T \in SUBSET Nat
      BY <1>1
    <3> HIDE DEF T
    <3> QED BY <2>1, <3>1, NatMin
  <2>3. k \in 1..n /\ ~C(k) /\ k # 1
    BY <1>2, <2>2
  <2>4. k - 1 \in 1..(n - 1) /\ k - 1 \in 1..n /\ (k - 1) + 1 = k /\ ~(k <= k - 1)
    BY <1>1, <2>3
  <2>5. C(k - 1)
    BY <2>2, <2>4
  <2> QED BY <1>3, <2>3, <2>4, <2>5
<1>5. R[at[n]] = {}
  <2>1. PICK S : S = R[at[n]]
    OBVIOUS
  <2>2. IsFiniteSet(S) /\ Cardinality(S) <= n - n
    BY <1>4, <2>1
  <2>3. Cardinality(S) \in Nat
    BY <2>2, FS_CardinalityType
  <2>4. Cardinality(S) = 0
    BY <1>1, <2>2, <2>3
  <2> QED BY <2>1, <2>2, <2>4, FS_EmptySet
<1>6. at[n] \in L \cup {Null} /\ \A x \in L : x \in R[x]
  BY <1>1 DEF Walks
<1> QED BY <1>5, <1>6

\* What remains in a round is what the later rounds visit.
LEMMA WalkVisits ==
  ASSUME NEW L, NEW R, NEW n, NEW at, Walks(L, R, n, at)
  PROVE  /\ \A i \in 1..n : R[at[i]] = {at[k] : k \in i..n} \ {Null}
         /\ \A i, j \in 1..n : at[i] = at[j] => i = j \/ at[i] = Null
         /\ \A i, j \in 1..n : at[i] = Null /\ i <= j => at[j] = Null
<1> DEFINE V(i) == {at[k] : k \in i..n} \ {Null}
           T == {i \in 1..n : R[at[i]] # V(i)}
<1>0. at[n] = Null
  BY WalkEnds
<1>1. n \in Nat \ {0} /\ at[n] = Null /\ R[Null] = {}
  BY <1>0 DEF Walks
<1>2. T = {}
  <2>1. SUFFICES ASSUME T # {} PROVE FALSE
    OBVIOUS
  <2>2. PICK i \in T : \A j \in T : j <= i
    <3>1. T \in SUBSET Nat /\ \A j \in T : j <= n
      BY <1>1
    <3> HIDE DEF T
    <3> QED BY <1>1, <2>1, <3>1, NatMax
  <2>3. i \in 1..n /\ R[at[i]] # V(i)
    BY <2>2
  <2>4. CASE i = n
    <3>1. V(n) = {}
      <4>1. \A k \in n..n : at[k] = Null
        BY <1>1
      <4> QED BY <4>1
    <3> QED BY <1>1, <2>3, <2>4, <3>1
  <2>5. CASE i # n
    <3>1. i \in 1..(n - 1) /\ i + 1 \in 1..n /\ i..n = {i} \cup ((i + 1)..n) /\ ~(i + 1 <= i)
      BY <1>1, <2>3, <2>5
    <3>2. R[at[i + 1]] = V(i + 1)
      BY <2>2, <3>1
    <3>3. V(i) = ({at[i]} \cup V(i + 1)) \ {Null}
      BY <3>1
    <3> HIDE DEF V
    <3>4. CASE at[i] = Null
      <4>1. V(i + 1) = {}
        BY <1>1, <3>1, <3>2, <3>4 DEF Walks
      <4> QED BY <1>1, <2>3, <3>3, <3>4, <4>1
    <3>5. CASE at[i] # Null
      <4>1. V(i + 1) = R[at[i]] \ {at[i]} /\ at[i] \in R[at[i]] /\ R[at[i]] \subseteq L
        BY <2>3, <3>1, <3>2, <3>5 DEF Walks
      <4>2. Null \notin R[at[i]]
        BY <4>1 DEF Walks, Null
      <4> QED BY <2>3, <3>3, <4>1, <4>2
    <3> QED BY <3>4, <3>5
  <2> QED BY <2>4, <2>5
<1>3. \A i \in 1..n : R[at[i]] = V(i)
  BY <1>2
<1>4. ASSUME NEW i \in 1..n, NEW j \in 1..n, at[i] = Null, i <= j PROVE at[j] = Null
  <2>1. V(i) = {} /\ j \in i..n
    BY <1>1, <1>3, <1>4
  <2> QED BY <2>1
<1>5. ASSUME NEW i \in 1..n, NEW j \in 1..n, i < j, at[i] # Null PROVE at[i] # at[j]
  <2>1. i \in 1..(n - 1) /\ i + 1 \in 1..n /\ j \in (i + 1)..n
    BY <1>1, <1>5
  <2>2. at[i] \notin V(i + 1)
    <3>1. R[at[i + 1]] = R[at[i]] \ {at[i]}
      BY <1>5, <2>1 DEF Walks
    <3>2. R[at[i + 1]] = V(i + 1)
      BY <1>3, <2>1
    <3> QED BY <3>1, <3>2
  <2> QED BY <1>5, <2>1, <2>2
<1>6. ASSUME NEW i \in 1..n, NEW j \in 1..n, at[i] = at[j] PROVE i = j \/ at[i] = Null
  <2>1. i < j \/ j < i \/ i = j
    BY <1>1
  <2> QED BY <1>5, <1>6, <2>1
<1> QED BY <1>3, <1>4, <1>6

\* What a part B of the rest leaves out is visited before B, in one run.
LEMMA WalkSegment ==
  ASSUME NEW L, NEW R, NEW n, NEW at, Walks(L, R, n, at), NEW i \in 1..n, at[i] # Null,
         NEW m, m = Null \/ m \in R[m], R[m] \subseteq R[at[i]] \ {at[i]}
  PROVE  \E j \in (i + 1)..n :
           /\ at[j] = m
           /\ {at[k] : k \in (i + 1)..(j - 1)} = R[at[i]] \ ({at[i]} \cup R[m])
<1> DEFINE T == {j \in (i + 1)..n : at[j] = m}
<1>1. n \in Nat \ {0} /\ at[n] = Null /\ i < n /\ n \in (i + 1)..n
  <2>1. n \in Nat \ {0}
    BY DEF Walks
  <2>2. at[n] = Null
    BY WalkEnds
  <2> QED BY <2>1, <2>2
<1>2. /\ R[at[i]] = {at[k] : k \in i..n} \ {Null}
      /\ \A k, l \in 1..n : at[k] = at[l] => k = l \/ at[k] = Null
      /\ \A k, l \in 1..n : at[k] = Null /\ k <= l => at[l] = Null
  BY WalkVisits
<1>3. T # {}
  <2>1. CASE m = Null
    BY <1>1, <2>1
  <2>2. CASE m # Null
    <3>1. m \in R[at[i]] /\ m # at[i]
      BY <2>2
    <3>2. PICK k \in i..n : at[k] = m
      BY <1>2, <3>1
    <3>3. k \in (i + 1)..n
      BY <3>1, <3>2
    <3> QED BY <3>2, <3>3
  <2> QED BY <2>1, <2>2
<1>4. PICK j \in T : \A l \in T : j <= l
  <2>1. T \in SUBSET Nat
    BY <1>1
  <2> HIDE DEF T
  <2> QED BY <1>3, <2>1, NatMin
<1>5. j \in (i + 1)..n /\ j \in 1..n /\ at[j] = m
      /\ \A k \in (i + 1)..(j - 1) : k \in 1..n /\ k \in i..n /\ k < j /\ k # i /\ at[k] # m
  BY <1>1, <1>4
<1>6. R[m] = {at[k] : k \in j..n} \ {Null}
  BY <1>5, WalkVisits
<1>7. ASSUME NEW k \in (i + 1)..(j - 1)
      PROVE  at[k] \in R[at[i]] /\ at[k] # at[i] /\ at[k] \notin R[m]
  <2>1. at[k] # Null
    <3>1. SUFFICES ASSUME at[k] = Null PROVE FALSE
      OBVIOUS
    <3>2. at[j] = Null
      BY <1>2, <1>5, <3>1
    <3> QED BY <1>5, <3>1, <3>2
  <2>2. at[k] \in R[at[i]] /\ at[k] # at[i]
    BY <1>2, <1>5, <2>1
  <2>3. ASSUME NEW l \in j..n PROVE at[l] # at[k]
    <3>1. l \in 1..n /\ l # k
      BY <1>1, <1>5
    <3> QED BY <1>2, <1>5, <2>1, <3>1
  <2> QED BY <1>6, <2>2, <2>3
<1>8. ASSUME NEW x \in R[at[i]], x # at[i], x \notin R[m]
      PROVE  \E k \in (i + 1)..(j - 1) : at[k] = x
  <2>1. PICK k \in i..n : at[k] = x /\ x # Null
    BY <1>2
  <2>2. k # i /\ ~(k \in j..n)
    BY <1>6, <1>8, <2>1
  <2>3. k \in (i + 1)..(j - 1)
    BY <1>1, <1>5, <2>2
  <2> QED BY <2>1, <2>3
<1>9. {at[k] : k \in (i + 1)..(j - 1)} = R[at[i]] \ ({at[i]} \cup R[m])
  BY <1>7, <1>8
<1> QED BY <1>5, <1>9

\* The first round from i on in which the walk stands on one of H, or is over.
Found(n, at, H, i, j) ==
  /\ j \in i..n /\ at[j] \in H \cup {Null}
  /\ \A k \in i..(j - 1) : at[k] \notin H \cup {Null}

LEMMA FoundIs ==
  ASSUME NEW L, NEW R, NEW n, NEW at, Walks(L, R, n, at), NEW H, NEW i \in 1..n
  PROVE  /\ \E j : Found(n, at, H, i, j)
         /\ \A j, k : Found(n, at, H, i, j) /\ Found(n, at, H, i, k) => j = k
         /\ at[i] \in H \cup {Null} => Found(n, at, H, i, i)
         /\ at[i] \notin H \cup {Null} =>
              /\ i + 1 \in 1..n
              /\ \A j : Found(n, at, H, i + 1, j) => Found(n, at, H, i, j)
<1>1. n \in Nat \ {0} /\ at[n] = Null
  <2>1. n \in Nat \ {0}
    BY DEF Walks
  <2>2. at[n] = Null
    BY WalkEnds
  <2> QED BY <2>1, <2>2
<1> DEFINE T == {j \in i..n : at[j] \in H \cup {Null}}
<1>2. PICK j \in T : \A l \in T : j <= l
  <2>1. T \in SUBSET Nat /\ n \in T
    BY <1>1
  <2> HIDE DEF T
  <2> QED BY <2>1, NatMin
<1>3. Found(n, at, H, i, j)
  BY <1>1, <1>2 DEF Found
<1>4. ASSUME NEW k, NEW l, Found(n, at, H, i, k), Found(n, at, H, i, l) PROVE k = l
  <2>1. k \in i..n /\ l \in i..n /\ ~(k \in i..(l - 1)) /\ ~(l \in i..(k - 1))
    BY <1>4 DEF Found
  <2> QED BY <1>1, <2>1
<1>5. at[i] \in H \cup {Null} => Found(n, at, H, i, i)
  BY <1>1 DEF Found
<1>6. ASSUME at[i] \notin H \cup {Null}
      PROVE  i + 1 \in 1..n /\ \A k : Found(n, at, H, i + 1, k) => Found(n, at, H, i, k)
  <2>1. i + 1 \in 1..n
    BY <1>1, <1>6
  <2>2. ASSUME NEW k, Found(n, at, H, i + 1, k) PROVE Found(n, at, H, i, k)
    <3>1. k \in (i + 1)..n /\ k \in i..n /\ \A l \in i..(k - 1) : l = i \/ l \in (i + 1)..(k - 1)
      BY <1>1, <2>2 DEF Found
    <3> QED BY <1>6, <2>2, <3>1 DEF Found
  <2> QED BY <2>1, <2>2
<1> QED BY <1>3, <1>4, <1>5, <1>6

\* F steps through the walk until it stands on one of H.
Searches(n, at, H, F) ==
  \A i \in 1..n : F[at[i]] = IF at[i] \in H \cup {Null} THEN at[i] ELSE F[at[i + 1]]

\* There is such a search, and from any place of the walk it ends on the first
\* of H.
LEMMA SearchExists ==
  ASSUME NEW L, NEW R, NEW n, NEW at, Walks(L, R, n, at), NEW H
  PROVE  \E F : Searches(n, at, H, F)
<1> DEFINE Ends(x, j) == \E i \in 1..n : at[i] = x /\ Found(n, at, H, i, j)
           F == [x \in L \cup {Null} |-> at[CHOOSE j : Ends(x, j)]]
<1>1. /\ \A i, j \in 1..n : at[i] = at[j] => i = j \/ at[i] = Null
      /\ \A i, j \in 1..n : at[i] = Null /\ i <= j => at[j] = Null
  BY WalkVisits
<1>2. n \in Nat \ {0} /\ \A i \in 1..n : at[i] \in L \cup {Null}
  BY DEF Walks
<1>3. ASSUME NEW i \in 1..n, NEW j, Found(n, at, H, i, j) PROVE F[at[i]] = at[j]
  <2>1. PICK k : Ends(at[i], k) /\ F[at[i]] = at[k]
    <3>1. Ends(at[i], j)
      BY <1>3
    <3>2. Ends(at[i], CHOOSE k : Ends(at[i], k))
      <4> HIDE DEF Ends
      <4> QED BY <3>1
    <3>3. F[at[i]] = at[CHOOSE k : Ends(at[i], k)]
      BY <1>2
    <3> HIDE DEF Ends, F
    <3> QED BY <3>2, <3>3
  <2>2. PICK l \in 1..n : at[l] = at[i] /\ Found(n, at, H, l, k)
    BY <2>1
  <2>3. j \in i..n /\ k \in l..n /\ j \in 1..n /\ k \in 1..n
    BY <1>2, <1>3, <2>2 DEF Found
  <2> HIDE DEF F
  <2>4. CASE at[i] = Null
    BY <1>1, <2>1, <2>2, <2>3, <2>4
  <2>5. CASE at[i] # Null
    <3>1. l = i
      BY <1>1, <2>2, <2>5
    <3>2. j = k
      BY <1>3, <2>2, <3>1, FoundIs
    <3> QED BY <2>1, <3>2
  <2> QED BY <2>4, <2>5
<1>4. ASSUME NEW i \in 1..n
      PROVE  F[at[i]] = IF at[i] \in H \cup {Null} THEN at[i] ELSE F[at[i + 1]]
  <2> HIDE DEF F
  <2>1. CASE at[i] \in H \cup {Null}
    <3>1. Found(n, at, H, i, i)
      BY <2>1, FoundIs
    <3> QED BY <1>3, <2>1, <3>1
  <2>2. CASE at[i] \notin H \cup {Null}
    <3>1. i + 1 \in 1..n /\ \A j : Found(n, at, H, i + 1, j) => Found(n, at, H, i, j)
      BY <2>2, FoundIs
    <3>2. PICK j : Found(n, at, H, i + 1, j)
      BY <3>1, FoundIs
    <3>3. F[at[i + 1]] = at[j] /\ F[at[i]] = at[j]
      BY <1>3, <3>1, <3>2
    <3> QED BY <2>2, <3>3
  <2> QED BY <2>1, <2>2
<1> HIDE DEF F
<1> QED BY <1>4 DEF Searches

LEMMA SearchFinds ==
  ASSUME NEW L, NEW R, NEW n, NEW at, Walks(L, R, n, at), NEW H,
         NEW F, Searches(n, at, H, F)
  PROVE  \A i \in 1..n : \E j : Found(n, at, H, i, j) /\ F[at[i]] = at[j]
<1> DEFINE Q(i) == \E j : Found(n, at, H, i, j) /\ F[at[i]] = at[j]
           T == {i \in 1..n : ~Q(i)}
<1>1. SUFFICES ASSUME T # {} PROVE FALSE
  OBVIOUS
<1>2. PICK i \in T : \A j \in T : j <= i
  <2>1. n \in Nat /\ T \in SUBSET Nat /\ \A j \in T : j <= n
    BY DEF Walks
  <2> HIDE DEF T
  <2> QED BY <1>1, <2>1, NatMax
<1>3. i \in 1..n /\ ~Q(i)
  BY <1>2
<1>4. CASE at[i] \in H \cup {Null}
  <2>1. Found(n, at, H, i, i)
    BY <1>3, <1>4, FoundIs
  <2>2. F[at[i]] = at[i]
    BY <1>3, <1>4 DEF Searches
  <2> QED BY <1>3, <2>1, <2>2
<1>5. CASE at[i] \notin H \cup {Null}
  <2>1. i + 1 \in 1..n /\ \A j : Found(n, at, H, i + 1, j) => Found(n, at, H, i, j)
    BY <1>3, <1>5, FoundIs
  <2>2. Q(i + 1)
    <3>1. ~(i + 1 <= i)
      BY <1>3
    <3> HIDE DEF Q
    <3> QED BY <1>2, <2>1, <3>1
  <2>3. F[at[i]] = F[at[i + 1]]
    BY <1>3, <1>5 DEF Searches
  <2> QED BY <1>3, <2>1, <2>2, <2>3
<1> QED BY <1>4, <1>5

\* A loop that searches H from the start of the walk, and then after each hit.
Hits(n, at, H, hit) ==
  /\ \E j : Found(n, at, H, 1, j) /\ hit[1] = at[j]
  /\ \A k \in 1..(n - 1), i \in 1..n : hit[k] = at[i] =>
       IF at[i] = Null THEN hit[k + 1] = Null
       ELSE i < n /\ \E j : Found(n, at, H, i + 1, j) /\ hit[k + 1] = at[j]

\* It hits every member of H once.
LEMMA LoopMeetsAll ==
  ASSUME NEW L, NEW R, NEW n, NEW at, Walks(L, R, n, at), NEW H \in SUBSET L,
         NEW hit, Hits(n, at, H, hit)
  PROVE  /\ {hit[k] : k \in 1..n} = H \cup {Null}
         /\ \A k, l \in 1..n : hit[k] = hit[l] => k = l \/ hit[k] = Null
<1>1. n \in Nat \ {0} /\ at[n] = Null /\ Null \notin L
  <2>1. n \in Nat \ {0} /\ L \in SUBSET (1..(n - 1))
    BY DEF Walks
  <2>2. at[n] = Null
    BY WalkEnds
  <2> QED BY <2>1, <2>2 DEF Null
<1>2. /\ \A i, j \in 1..n : at[i] = at[j] => i = j \/ at[i] = Null
      /\ \A i, j \in 1..n : at[i] = Null /\ i <= j => at[j] = Null
      /\ L = {at[k] : k \in 1..n} \ {Null}
  <2>1. 1 \in 1..n /\ R[at[1]] = L
    BY <1>1 DEF Walks
  <2> QED BY <2>1, WalkVisits
\* In round k the loop has come to place j of the walk, which is k or further
\* on, and has hit in the rounds before what the walk has met before of H.
<1> DEFINE Before(j) == {at[q] : q \in 1..(j - 1)} \cap H
           P(k) == \E j \in k..n : /\ hit[k] = at[j] /\ at[j] \in H \cup {Null}
                                   /\ {hit[l] : l \in 1..(k - 1)} \ {Null} = Before(j)
           T == {k \in 1..n : ~P(k)}
<1>3. ASSUME NEW i \in 1..n, NEW j, Found(n, at, H, i, j) PROVE Before(j) = Before(i) /\ j \in i..n
  <2>1. j \in i..n /\ \A q \in i..(j - 1) : at[q] \notin H
    BY <1>3 DEF Found
  <2>2. \A q \in 1..(j - 1) : q \in 1..(i - 1) \/ q \in i..(j - 1)
    BY <1>1, <2>1
  <2>3. \A q \in 1..(i - 1) : q \in 1..(j - 1)
    BY <1>1, <2>1
  <2> QED BY <2>1, <2>2, <2>3
<1>4. P(1)
  <2>1. PICK j : Found(n, at, H, 1, j) /\ hit[1] = at[j]
    BY DEF Hits
  <2>2. Before(j) = Before(1) /\ j \in 1..n /\ at[j] \in H \cup {Null}
    BY <1>1, <1>3, <2>1 DEF Found
  <2>3. Before(1) = {} /\ {hit[l] : l \in 1..(1 - 1)} = {}
    OBVIOUS
  <2> QED BY <2>1, <2>2, <2>3
<1>5. ASSUME NEW k \in 1..(n - 1), P(k) PROVE P(k + 1)
  <2>1. PICK i \in k..n : /\ hit[k] = at[i] /\ at[i] \in H \cup {Null}
                          /\ {hit[l] : l \in 1..(k - 1)} \ {Null} = Before(i)
    BY <1>5
  <2>2. i \in 1..n
    BY <1>1, <2>1
  <2>3. {hit[l] : l \in 1..k} \ {Null} = Before(i) \cup ({at[i]} \ {Null})
    <3>1. 1..k = (1..(k - 1)) \cup {k}
      BY <1>1
    <3>2. {hit[l] : l \in 1..k} = {hit[l] : l \in 1..(k - 1)} \cup {hit[k]}
      BY <3>1
    <3> QED BY <2>1, <3>2
  <2>4. ASSUME i < n PROVE Before(i + 1) = Before(i) \cup ({at[i]} \cap H)
    <3>1. 1..((i + 1) - 1) = (1..(i - 1)) \cup {i}
      BY <1>1, <2>2
    <3> QED BY <3>1
  <2> HIDE DEF Before
  <2>5. CASE at[i] = Null
    <3>1. hit[k + 1] = Null
      BY <2>1, <2>2, <2>5 DEF Hits
    <3>2. CASE i > k
      <4>1. i \in (k + 1)..n /\ (k + 1) - 1 = k
        BY <2>1, <3>2
      <4>2. {hit[l] : l \in 1..k} \ {Null} = Before(i)
        BY <2>3, <2>5
      <4> QED BY <2>5, <3>1, <4>1, <4>2
    <3>3. CASE i = k
      <4>1. i + 1 \in (k + 1)..n /\ i + 1 \in 1..n /\ (k + 1) - 1 = k /\ i < n /\ i <= i + 1
        BY <1>1, <3>3
      <4>2. at[i + 1] = Null
        BY <1>2, <2>2, <2>5, <4>1
      <4>3. Before(i + 1) = Before(i)
        BY <1>1, <2>4, <2>5, <4>1
      <4>4. {hit[l] : l \in 1..k} \ {Null} = Before(i + 1)
        BY <2>3, <2>5, <4>3
      <4> QED BY <3>1, <4>1, <4>2, <4>4
    <3> QED BY <1>1, <2>1, <3>2, <3>3
  <2>6. CASE at[i] # Null
    <3>1. PICK j : i < n /\ Found(n, at, H, i + 1, j) /\ hit[k + 1] = at[j]
      BY <2>1, <2>2, <2>6 DEF Hits
    <3>2. i + 1 \in 1..n /\ j \in (i + 1)..n
      BY <1>1, <2>2, <3>1 DEF Found
    <3>3. j \in (k + 1)..n /\ (k + 1) - 1 = k
      BY <1>1, <2>1, <3>2
    <3>4. Before(j) = Before(i + 1)
      BY <1>3, <3>1, <3>2
    <3>5. {hit[l] : l \in 1..k} \ {Null} = Before(j)
      BY <2>1, <2>3, <2>4, <2>6, <3>1, <3>4
    <3>6. at[j] \in H \cup {Null}
      BY <3>1 DEF Found
    <3> QED BY <3>1, <3>3, <3>5, <3>6
  <2> QED BY <2>5, <2>6
<1>6. \A k \in 1..n : P(k)
  <2> HIDE DEF P
  <2>1. SUFFICES ASSUME T # {} PROVE FALSE
    OBVIOUS
  <2>2. PICK k \in T : \A l \in T : k <= l
    <3>1. T \in SUBSET Nat
      BY <1>1
    <3> HIDE DEF T
    <3> QED BY <2>1, <3>1, NatMin
  <2>3. k \in 1..n /\ ~P(k) /\ k # 1
    BY <1>4, <2>2
  <2>4. k - 1 \in 1..(n - 1) /\ k - 1 \in 1..n /\ (k - 1) + 1 = k /\ ~(k <= k - 1)
    BY <1>1, <2>3
  <2>5. P(k - 1)
    BY <2>2, <2>4
  <2> QED BY <1>5, <2>3, <2>4, <2>5
<1>7. {hit[k] : k \in 1..n} = H \cup {Null}
  <2>1. PICK j \in n..n : /\ hit[n] = at[j]
                          /\ {hit[l] : l \in 1..(n - 1)} \ {Null} = Before(j)
    <3>1. n \in 1..n
      BY <1>1
    <3>2. P(n)
      <4> HIDE DEF P
      <4> QED BY <1>6, <3>1
    <3> QED BY <3>2
  <2>2. j = n /\ hit[n] = Null /\ {hit[l] : l \in 1..(n - 1)} \ {Null} = Before(n)
    BY <1>1, <2>1
  <2>3. Before(n) = H
    <3>1. ASSUME NEW x \in H PROVE \E q \in 1..(n - 1) : at[q] = x
      <4>1. PICK q \in 1..n : at[q] = x
        BY <1>2
      <4>2. q # n
        BY <1>1, <4>1
      <4> QED BY <1>1, <4>1, <4>2
    <3> QED BY <3>1
  <2>4. 1..n = (1..(n - 1)) \cup {n}
    BY <1>1
  <2>5. {hit[k] : k \in 1..n} = {hit[l] : l \in 1..(n - 1)} \cup {hit[n]}
    BY <2>4
  <2> HIDE DEF Before
  <2> QED BY <2>2, <2>3, <2>5
<1>8. ASSUME NEW k \in 1..n, NEW l \in 1..n, k < l, hit[k] # Null PROVE hit[k] # hit[l]
  <2>1. PICK j \in l..n : hit[l] = at[j] /\ {hit[q] : q \in 1..(l - 1)} \ {Null} = Before(j)
    BY <1>6
  <2>2. k \in 1..(l - 1)
    BY <1>1, <1>8
  <2>3. hit[k] \in Before(j)
    <3> HIDE DEF Before
    <3> QED BY <1>8, <2>1, <2>2
  <2>4. PICK q \in 1..(j - 1) : hit[k] = at[q]
    BY <2>3
  <2>5. q \in 1..n /\ j \in 1..n /\ q # j
    BY <1>1, <2>1, <2>4
  <2> QED BY <1>2, <1>8, <2>1, <2>4, <2>5
<1>9. \A k, l \in 1..n : hit[k] = hit[l] => k = l \/ hit[k] = Null
  <2>1. \A k, l \in 1..n : k < l \/ l < k \/ k = l
    BY <1>1
  <2> QED BY <1>8, <2>1
<1> QED BY <1>7, <1>9
=============================================================================
