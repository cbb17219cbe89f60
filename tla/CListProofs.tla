----------------------------- MODULE CListProofs -----------------------------
(***************************************************************************)
(* The pointers of cListMg_c always spell the sequences that the framework *)
(* computes with: whatever nodes, lists and orders there are, and however  *)
(* the operations follow each other.                                       *)
(***************************************************************************)
EXTENDS CList, FListProofs

\* What every insertion does to the links: n is put after the first k nodes of
\* the list s of l.
LinkedIn(l, s, n, k) ==
  /\ mpNext' = [m \in Nodes |->
                  IF m = n THEN IF k = Len(s) THEN Null ELSE s[k + 1]
                  ELSE IF k > 0 /\ m = s[k] THEN n ELSE mpNext[m]]
  /\ mpPrev' = [m \in Nodes |->
                  IF m = n THEN IF k = 0 THEN Null ELSE s[k]
                  ELSE IF k < Len(s) /\ m = s[k + 1] THEN n ELSE mpPrev[m]]
  /\ mpFirst' = IF k = 0 THEN [mpFirst EXCEPT ![l] = n] ELSE mpFirst
  /\ mpLast' = IF k = Len(s) THEN [mpLast EXCEPT ![l] = n] ELSE mpLast

\* The facts about a list and its links that the lemmas below start from.
LEMMA ListFacts ==
  ASSUME IInv, NEW l \in Lists
  PROVE  /\ lists[l] \in Seq(Nodes) /\ Injective(lists[l]) /\ Len(lists[l]) \in Nat
         /\ ToSet(lists[l]) = {lists[l][i] : i \in 1..Len(lists[l])}
         /\ \A i \in 1..Len(lists[l]) : lists[l][i] \in Nodes /\ lists[l][i] # Null
         /\ lists[l] = << >> <=> Len(lists[l]) = 0
         /\ mpFirst[l] = (IF Len(lists[l]) = 0 THEN Null ELSE lists[l][1])
         /\ mpLast[l] = (IF Len(lists[l]) = 0 THEN Null ELSE lists[l][Len(lists[l])])
         /\ \A i \in 1..Len(lists[l]) :
              mpNext[lists[l][i]] = IF i = Len(lists[l]) THEN Null ELSE lists[l][i + 1]
         /\ \A i \in 1..Len(lists[l]) :
              mpPrev[lists[l][i]] = IF i = 1 THEN Null ELSE lists[l][i - 1]
<1> DEFINE s == lists[l]
<1>1. s \in Seq(Nodes) /\ Injective(s) /\ Spells(s, mpFirst[l], mpLast[l], mpNext, mpPrev)
  BY DEF IInv, TypeOK, OneList, LinksSpellLists
<1> HIDE DEF s
<1>2. Len(s) \in Nat /\ (s = << >> <=> Len(s) = 0)
  BY <1>1, LenProperties, EmptySeq
<1>3. \A i \in 1..Len(s) : s[i] \in Nodes
  BY <1>1, ElementOfSeq
<1>4. s # << >> => Head(s) = s[1]
  BY <1>1, HeadTailProperties
<1> QED BY <1>1, <1>2, <1>3, <1>4, NodeAssumption, ToSetIs DEF Spells, First, s

LEMMA AppendLinked ==
  ASSUME IInv, NEW l \in Lists, NEW n \in Nodes, Unlinked(n), AppendLinks(l, n)
  PROVE  LinkedIn(l, lists[l], n, Len(lists[l]))
<1> DEFINE s == lists[l]
           k == Len(s)
<1>1. /\ Injective(s) /\ Len(s) \in Nat /\ ToSet(s) = {s[i] : i \in 1..Len(s)}
      /\ \A i \in 1..Len(s) : s[i] \in Nodes /\ s[i] # Null
      /\ mpLast[l] = (IF Len(s) = 0 THEN Null ELSE s[Len(s)])
  BY ListFacts
<1>2. n \notin ToSet(s) /\ mpNext[n] = Null /\ mpPrev[n] = Null
  BY DEF IInv, LinksSpellLists, Unlinked
<1>3. mpNext \in [Nodes -> NodeOrNull] /\ mpPrev \in [Nodes -> NodeOrNull]
  BY DEF IInv, TypeOK
<1>4. CASE k = 0
  BY <1>1, <1>2, <1>3, <1>4 DEF AppendLinks, LinkedIn
<1>5. CASE k > 0
  BY <1>1, <1>2, <1>3, <1>5 DEF AppendLinks, LinkedIn
<1> QED BY <1>1, <1>4, <1>5

LEMMA PrependLinked ==
  ASSUME IInv, NEW l \in Lists, NEW n \in Nodes, Unlinked(n), PrependLinks(l, n)
  PROVE  LinkedIn(l, lists[l], n, 0)
<1> DEFINE s == lists[l]
<1>1. /\ Injective(s) /\ Len(s) \in Nat /\ ToSet(s) = {s[i] : i \in 1..Len(s)}
      /\ \A i \in 1..Len(s) : s[i] \in Nodes /\ s[i] # Null
      /\ mpFirst[l] = (IF Len(s) = 0 THEN Null ELSE s[1])
  BY ListFacts
<1>2. n \notin ToSet(s) /\ mpNext[n] = Null /\ mpPrev[n] = Null
  BY DEF IInv, LinksSpellLists, Unlinked
<1>3. mpNext \in [Nodes -> NodeOrNull] /\ mpPrev \in [Nodes -> NodeOrNull]
  BY DEF IInv, TypeOK
<1>4. CASE Len(s) = 0
  BY <1>1, <1>2, <1>3, <1>4 DEF PrependLinks, LinkedIn
<1>5. CASE Len(s) > 0
  BY <1>1, <1>2, <1>3, <1>5 DEF PrependLinks, LinkedIn
<1> QED BY <1>1, <1>4, <1>5

LEMMA InsertLinked ==
  ASSUME IInv, NEW l \in Lists, NEW n \in Nodes, n \notin ToSet(lists[l]),
         NEW k \in 1..Len(lists[l]), InsertLinks(l, n, lists[l][k])
  PROVE  LinkedIn(l, lists[l], n, k)
<1> DEFINE s == lists[l]
           p == s[k]
           succ == IF k = Len(s) THEN Null ELSE s[k + 1]
<1>1. /\ Injective(s) /\ Len(s) \in Nat /\ ToSet(s) = {s[i] : i \in 1..Len(s)}
      /\ \A i \in 1..Len(s) : s[i] \in Nodes /\ s[i] # Null
      /\ \A i \in 1..Len(s) : mpNext[s[i]] = IF i = Len(s) THEN Null ELSE s[i + 1]
  BY ListFacts
<1>2. mpNext \in [Nodes -> NodeOrNull] /\ mpPrev \in [Nodes -> NodeOrNull]
  BY DEF IInv, TypeOK
<1>3. p \in Nodes /\ p # n /\ mpNext[p] = succ
  BY <1>1
<1>4. k < Len(s) => s[k + 1] \in Nodes /\ s[k + 1] # Null /\ s[k + 1] # n
  BY <1>1
<1>5. /\ mpNext' = [mpNext EXCEPT ![n] = succ, ![p] = n]
      /\ mpPrev' = [m \in Nodes |-> IF m = succ THEN n ELSE IF m = n THEN p ELSE mpPrev[m]]
      /\ mpLast' = IF succ = Null THEN [mpLast EXCEPT ![l] = n] ELSE mpLast
      /\ mpFirst' = mpFirst
  BY <1>3 DEF InsertLinks
<1>6. k \in Nat /\ k # 0 /\ k <= Len(s)
  BY <1>1
<1>7. (k = Len(s) \/ k < Len(s)) /\ (succ = Null <=> k = Len(s))
  BY <1>1, <1>4, <1>6
<1>8. mpNext' = [m \in Nodes |-> IF m = n THEN succ ELSE IF k > 0 /\ m = s[k] THEN n ELSE mpNext[m]]
  <2>1. k > 0
    BY <1>6
  <2> HIDE DEF p, succ
  <2>2. mpNext' = [m \in Nodes |-> IF m = n THEN succ ELSE IF m = p THEN n ELSE mpNext[m]]
    BY <1>2, <1>3, <1>5
  <2> QED BY <2>1, <2>2 DEF p
<1>9. mpPrev' = [m \in Nodes |-> IF m = n THEN IF k = 0 THEN Null ELSE s[k]
                                 ELSE IF k < Len(s) /\ m = s[k + 1] THEN n ELSE mpPrev[m]]
  <2>1. ASSUME NEW m \in Nodes
        PROVE  (m = succ) <=> (m # n /\ k < Len(s) /\ m = s[k + 1])
    BY <1>4, <1>6, <1>7, NodeAssumption
  <2> QED BY <1>5, <1>6, <2>1
<1>10. mpFirst' = IF k = 0 THEN [mpFirst EXCEPT ![l] = n] ELSE mpFirst
  BY <1>5, <1>6
<1>11. mpLast' = IF k = Len(s) THEN [mpLast EXCEPT ![l] = n] ELSE mpLast
  BY <1>5, <1>7
<1> QED BY <1>8, <1>9, <1>10, <1>11 DEF LinkedIn

\* After an insertion the links of every list spell its sequence again.
LEMMA InsertionSpells ==
  ASSUME IInv, NEW l \in Lists, NEW n \in Nodes, \A j \in Lists : n \notin ToSet(lists[j]),
         NEW k \in 0..Len(lists[l]), NEW u \in Seq(Nodes), Inserted(lists[l], k, n, u),
         LinkedIn(l, lists[l], n, k), lists' = [lists EXCEPT ![l] = u]
  PROVE  /\ lists' \in [Lists -> Seq(Nodes)]
         /\ mpNext' \in [Nodes -> NodeOrNull] /\ mpPrev' \in [Nodes -> NodeOrNull]
         /\ mpFirst' \in [Lists -> NodeOrNull] /\ mpLast' \in [Lists -> NodeOrNull]
         /\ OneList' /\ LinksSpellLists'
<1> DEFINE s == lists[l]
<1>1. /\ s \in Seq(Nodes) /\ Injective(s) /\ Len(s) \in Nat
      /\ ToSet(s) = {s[i] : i \in 1..Len(s)}
      /\ \A i \in 1..Len(s) : s[i] \in Nodes /\ s[i] # Null
      /\ mpFirst[l] = (IF Len(s) = 0 THEN Null ELSE s[1])
      /\ mpLast[l] = (IF Len(s) = 0 THEN Null ELSE s[Len(s)])
      /\ \A i \in 1..Len(s) : mpNext[s[i]] = IF i = Len(s) THEN Null ELSE s[i + 1]
      /\ \A i \in 1..Len(s) : mpPrev[s[i]] = IF i = 1 THEN Null ELSE s[i - 1]
  BY ListFacts
<1>2. /\ TypeOK /\ OneList /\ LinksSpellLists
  BY DEF IInv
<1>3. ToSet(u) = ToSet(s) \cup {n} /\ Injective(u)
  BY <1>1, InsertedIs
<1>4. /\ lists' \in [Lists -> Seq(Nodes)] /\ lists'[l] = u
      /\ \A j \in Lists : j # l => lists'[j] = lists[j]
  BY <1>2 DEF TypeOK
<1>5. \A i \in 1..Len(s) : s[i] # n
  BY <1>1
<1>6. /\ Len(u) = Len(s) + 1
      /\ \A j \in 1..k : u[j] = s[j]
      /\ u[k + 1] = n
      /\ \A j \in (k + 2)..(Len(s) + 1) : u[j] = s[j - 1]
  BY DEF Inserted
<1>7. /\ \A m \in Nodes : mpNext'[m] = IF m = n THEN IF k = Len(s) THEN Null ELSE s[k + 1]
                                    ELSE IF k > 0 /\ m = s[k] THEN n ELSE mpNext[m]
      /\ \A m \in Nodes : mpPrev'[m] = IF m = n THEN IF k = 0 THEN Null ELSE s[k]
                                    ELSE IF k < Len(s) /\ m = s[k + 1] THEN n ELSE mpPrev[m]
      /\ mpFirst' = IF k = 0 THEN [mpFirst EXCEPT ![l] = n] ELSE mpFirst
      /\ mpLast' = IF k = Len(s) THEN [mpLast EXCEPT ![l] = n] ELSE mpLast
  BY DEF LinkedIn
<1>8. k \in Nat /\ k <= Len(s)
  BY <1>1
<1>9. /\ mpNext' \in [Nodes -> NodeOrNull] /\ mpPrev' \in [Nodes -> NodeOrNull]
      /\ mpFirst' \in [Lists -> NodeOrNull] /\ mpLast' \in [Lists -> NodeOrNull]
  <2>1. /\ mpNext \in [Nodes -> NodeOrNull] /\ mpPrev \in [Nodes -> NodeOrNull]
        /\ mpFirst \in [Lists -> NodeOrNull] /\ mpLast \in [Lists -> NodeOrNull]
    BY <1>2 DEF TypeOK
  <2>2. /\ k = Len(s) \/ s[k + 1] \in Nodes
        /\ k = 0 \/ s[k] \in Nodes
    BY <1>1, <1>8
  <2>3. mpNext' \in [Nodes -> NodeOrNull]
    BY <2>1, <2>2 DEF LinkedIn, NodeOrNull
  <2>4. mpPrev' \in [Nodes -> NodeOrNull]
    BY <2>1, <2>2 DEF LinkedIn, NodeOrNull
  <2>5. mpFirst' \in [Lists -> NodeOrNull] /\ mpLast' \in [Lists -> NodeOrNull]
    BY <1>7, <2>1 DEF NodeOrNull
  <2> QED BY <2>3, <2>4, <2>5
<1>10. OneList'
  <2>1. \A i, j \in Lists : i # j => ToSet(lists[i]) \cap ToSet(lists[j]) = {}
    BY <1>2 DEF OneList
  <2>2. \A j \in Lists : Injective(lists[j])
    BY <1>2 DEF OneList
  <2>3. \A j \in Lists : j # l => ToSet(lists[j]) \cap ToSet(u) = {}
    BY <1>3, <2>1
  <2> QED BY <1>3, <1>4, <2>1, <2>2, <2>3 DEF OneList
<1>11. Spells(u, mpFirst'[l], mpLast'[l], mpNext', mpPrev')
  <2> HIDE DEF s
  <2>1. u # << >> /\ Head(u) = u[1] /\ Len(u) > 0
    BY <1>1, <1>6, HeadTailProperties, EmptySeq
  <2>2. mpFirst'[l] = u[1]
    <3>1. CASE k = 0
      BY <1>2, <1>6, <1>7, <3>1 DEF TypeOK
    <3>2. CASE k > 0
      BY <1>1, <1>6, <1>7, <1>8, <3>2
    <3> QED BY <1>8, <3>1, <3>2
  <2>3. mpLast'[l] = u[Len(u)]
    <3>1. CASE k = Len(s)
      BY <1>2, <1>6, <1>7, <3>1 DEF TypeOK
    <3>2. CASE k < Len(s)
      <4>1. Len(s) + 1 \in (k + 2)..(Len(s) + 1) /\ (Len(s) + 1) - 1 = Len(s)
        BY <1>1, <1>8, <3>2
      <4>2. u[Len(u)] = s[Len(s)]
        BY <1>6, <4>1
      <4> QED BY <1>1, <1>7, <1>8, <3>2, <4>2
    <3> QED BY <1>1, <1>8, <3>1, <3>2
  <2>4. ASSUME NEW i \in 1..Len(u)
        PROVE  mpNext'[u[i]] = IF i = Len(u) THEN Null ELSE u[i + 1]
    <3>1. CASE i < k
      <4>1. i \in 1..k /\ i + 1 \in 1..k /\ i \in 1..Len(s) /\ i # Len(s) /\ i # k /\ i # Len(u)
            /\ k \in 1..Len(s)
        BY <1>1, <1>6, <1>8, <3>1
      <4>2. u[i] = s[i] /\ u[i + 1] = s[i + 1] /\ s[i] # s[k]
        BY <1>1, <1>6, <4>1 DEF Injective
      <4> QED BY <1>1, <1>5, <1>7, <4>1, <4>2
    <3>2. CASE i = k
      <4>1. i \in 1..k /\ i \in 1..Len(s) /\ i # Len(u) /\ k > 0
        BY <1>1, <1>6, <1>8, <3>2
      <4> QED BY <1>1, <1>5, <1>6, <1>7, <3>2, <4>1
    <3>3. CASE i = k + 1
      <4>1. CASE k = Len(s)
        BY <1>6, <1>7, <3>3, <4>1
      <4>2. CASE k < Len(s)
        <5>1. i + 1 \in (k + 2)..(Len(s) + 1) /\ (i + 1) - 1 = k + 1 /\ i # Len(u)
          BY <1>1, <1>6, <1>8, <3>3, <4>2
        <5> QED BY <1>6, <1>7, <3>3, <4>2, <5>1
      <4> QED BY <1>1, <1>8, <4>1, <4>2
    <3>4. CASE i > k + 1
      <4>1. i \in (k + 2)..(Len(s) + 1) /\ i - 1 \in 1..Len(s) /\ i - 1 # k /\ (i - 1) + 1 = i
            /\ (i = Len(u) <=> i - 1 = Len(s))
        BY <1>1, <1>6, <1>8, <3>4
      <4>2. u[i] = s[i - 1] /\ (k > 0 => s[i - 1] # s[k])
        BY <1>1, <1>6, <1>8, <4>1 DEF Injective
      <4>3. mpNext'[u[i]] = IF i = Len(u) THEN Null ELSE s[i]
        <5>1. s[i - 1] \in Nodes /\ s[i - 1] # n
          BY <1>1, <1>5, <4>1
        <5>2. mpNext'[s[i - 1]] = mpNext[s[i - 1]]
          BY <1>7, <4>2, <5>1
        <5>3. mpNext[s[i - 1]] = IF i - 1 = Len(s) THEN Null ELSE s[i]
          BY <1>1, <4>1
        <5> QED BY <4>1, <4>2, <5>2, <5>3
      <4>4. i # Len(u) => i + 1 \in (k + 2)..(Len(s) + 1) /\ (i + 1) - 1 = i
        BY <1>1, <1>6, <1>8, <4>1
      <4>5. i # Len(u) => u[i + 1] = s[i]
        BY <1>6, <4>4
      <4> QED BY <4>3, <4>5
    <3> QED BY <1>8, <3>1, <3>2, <3>3, <3>4
  <2>5. ASSUME NEW i \in 1..Len(u)
        PROVE  mpPrev'[u[i]] = IF i = 1 THEN Null ELSE u[i - 1]
    <3>1. CASE i <= k
      <4>1. i \in 1..k /\ i \in 1..Len(s) /\ i # k + 1 /\ (i # 1 => i - 1 \in 1..k)
        BY <1>1, <1>6, <1>8, <3>1
      <4>2. u[i] = s[i] /\ (k < Len(s) => s[i] # s[k + 1])
        BY <1>1, <1>6, <1>8, <4>1 DEF Injective
      <4>3. mpPrev'[u[i]] = IF i = 1 THEN Null ELSE s[i - 1]
        BY <1>1, <1>5, <1>7, <4>1, <4>2
      <4> QED BY <1>6, <4>1, <4>3
    <3>2. CASE i = k + 1
      <4>1. CASE k = 0
        BY <1>6, <1>7, <3>2, <4>1
      <4>2. CASE k > 0
        <5>1. k \in 1..k /\ i - 1 = k /\ i # 1
          BY <1>8, <3>2, <4>2
        <5> QED BY <1>6, <1>7, <3>2, <4>2, <5>1
      <4> QED BY <1>8, <4>1, <4>2
    <3>3. CASE i = k + 2
      <4>1. i \in (k + 2)..(Len(s) + 1) /\ i - 1 = k + 1 /\ k < Len(s) /\ k + 1 \in 1..Len(s) /\ i # 1
        BY <1>1, <1>6, <1>8, <3>3
      <4>2. u[i] = s[k + 1]
        BY <1>6, <4>1
      <4>3. mpPrev'[u[i]] = n
        BY <1>1, <1>5, <1>7, <4>1, <4>2
      <4> QED BY <1>6, <4>1, <4>3
    <3>4. CASE i > k + 2
      <4>1. /\ i \in (k + 2)..(Len(s) + 1) /\ i - 1 \in 1..Len(s) /\ i - 1 # k + 1 /\ i - 1 # 1 /\ i # 1
            /\ i - 1 \in (k + 2)..(Len(s) + 1)
        BY <1>1, <1>6, <1>8, <3>4
      <4>2. u[i] = s[i - 1] /\ u[i - 1] = s[(i - 1) - 1]
        BY <1>6, <4>1
      <4>3. k < Len(s) => s[i - 1] # s[k + 1]
        <5>1. \A a, b \in 1..Len(s) : s[a] = s[b] => a = b
          BY <1>1 DEF Injective
        <5>2. k < Len(s) => k + 1 \in 1..Len(s)
          BY <1>8
        <5> HIDE DEF s
        <5> QED BY <4>1, <5>1, <5>2
      <4> QED BY <1>1, <1>5, <1>7, <4>1, <4>2, <4>3, SMTT(60)
    <3> QED BY <1>8, <3>1, <3>2, <3>3, <3>4
  <2> QED BY <2>1, <2>2, <2>3, <2>4, <2>5 DEF Spells, First
<1>12. ASSUME NEW j \in Lists, j # l
       PROVE  Spells(lists[j], mpFirst'[j], mpLast'[j], mpNext', mpPrev')
  <2>1. ToSet(lists[j]) = {lists[j][i] : i \in 1..Len(lists[j])}
        /\ \A i \in 1..Len(lists[j]) : lists[j][i] \in Nodes
    BY ListFacts
  <2>2. ToSet(lists[j]) \cap ToSet(s) = {}
    BY <1>2, <1>12 DEF OneList
  <2>3. \A i \in 1..Len(lists[j]) : lists[j][i] # n /\ lists[j][i] \notin ToSet(s)
    BY <2>1, <2>2
  <2>4. /\ k > 0 => s[k] \in ToSet(s)
        /\ k < Len(s) => s[k + 1] \in ToSet(s)
    BY <1>1, <1>8
  <2>5. \A i \in 1..Len(lists[j]) : /\ mpNext'[lists[j][i]] = mpNext[lists[j][i]]
                                  /\ mpPrev'[lists[j][i]] = mpPrev[lists[j][i]]
    BY <1>7, <2>1, <2>3, <2>4
  <2>6. mpFirst'[j] = mpFirst[j] /\ mpLast'[j] = mpLast[j]
    BY <1>2, <1>7, <1>12 DEF TypeOK
  <2>7. Spells(lists[j], mpFirst[j], mpLast[j], mpNext, mpPrev)
    BY <1>2 DEF LinksSpellLists
  <2> QED BY <2>5, <2>6, <2>7 DEF Spells
<1>13. ASSUME NEW m \in Nodes, \A j \in Lists : m \notin ToSet(lists'[j])
       PROVE  mpNext'[m] = Null /\ mpPrev'[m] = Null
  <2>1. m # n /\ m \notin ToSet(s) /\ \A j \in Lists : m \notin ToSet(lists[j])
    BY <1>3, <1>4, <1>13
  <2>2. mpNext[m] = Null /\ mpPrev[m] = Null
    BY <1>2, <2>1 DEF LinksSpellLists
  <2>3. /\ k > 0 => s[k] \in ToSet(s)
        /\ k < Len(s) => s[k + 1] \in ToSet(s)
    BY <1>1, <1>8
  <2> QED BY <1>7, <2>1, <2>2, <2>3
<1>14. LinksSpellLists'
  <2>1. \A j \in Lists : Spells(lists'[j], mpFirst'[j], mpLast'[j], mpNext', mpPrev')
    BY <1>4, <1>11, <1>12
  <2> QED BY <1>13, <2>1 DEF LinksSpellLists, Spells
<1> QED BY <1>4, <1>9, <1>10, <1>14

\* After a removal the links of every list spell its sequence again, and the
\* removed node has no links left.
LEMMA RemovalSpells ==
  ASSUME IInv, NEW l \in Lists, NEW n \in ToSet(lists[l]), RemoveLinks(l, n),
         lists' = [lists EXCEPT ![l] = Unlink(@, n)]
  PROVE  /\ lists' \in [Lists -> Seq(Nodes)]
         /\ mpNext' \in [Nodes -> NodeOrNull] /\ mpPrev' \in [Nodes -> NodeOrNull]
         /\ mpFirst' \in [Lists -> NodeOrNull] /\ mpLast' \in [Lists -> NodeOrNull]
         /\ OneList' /\ LinksSpellLists'
<1> DEFINE s == lists[l]
           u == Unlink(s, n)
           k == IndexOf(s, n)
<1>1. /\ s \in Seq(Nodes) /\ Injective(s) /\ Len(s) \in Nat
      /\ ToSet(s) = {s[i] : i \in 1..Len(s)}
      /\ \A i \in 1..Len(s) : s[i] \in Nodes /\ s[i] # Null
      /\ mpFirst[l] = (IF Len(s) = 0 THEN Null ELSE s[1])
      /\ mpLast[l] = (IF Len(s) = 0 THEN Null ELSE s[Len(s)])
      /\ \A i \in 1..Len(s) : mpNext[s[i]] = IF i = Len(s) THEN Null ELSE s[i + 1]
      /\ \A i \in 1..Len(s) : mpPrev[s[i]] = IF i = 1 THEN Null ELSE s[i - 1]
  BY ListFacts
<1>2. TypeOK /\ OneList /\ LinksSpellLists
  BY DEF IInv
<1>3. k \in 1..Len(s) /\ s[k] = n
  BY <1>1, IndexOfIs
<1>4. /\ u \in Seq(Nodes) /\ Len(u) = Len(s) - 1
      /\ \A j \in 1..(Len(s) - 1) : u[j] = IF j < k THEN s[j] ELSE s[j + 1]
  BY <1>1, UnlinkAt
<1>5. ToSet(u) = ToSet(s) \ {n} /\ Injective(u)
  BY <1>1, UnlinkIs
<1>6. /\ lists' \in [Lists -> Seq(Nodes)] /\ lists'[l] = u
      /\ \A j \in Lists : j # l => lists'[j] = lists[j]
  BY <1>2, <1>4 DEF TypeOK
<1> HIDE DEF u, k
<1> DEFINE pred == IF k = 1 THEN Null ELSE s[k - 1]
           succ == IF k = Len(s) THEN Null ELSE s[k + 1]
<1>7. mpPrev[n] = pred /\ mpNext[n] = succ /\ n \in Nodes
  BY <1>1, <1>3
<1>8. /\ k # 1 => pred \in Nodes /\ pred \in ToSet(s)
      /\ k # Len(s) => succ \in Nodes /\ succ \in ToSet(s)
      /\ (pred = Null <=> k = 1) /\ (succ = Null <=> k = Len(s))
  <2>1. k # 1 => k - 1 \in 1..Len(s)
    BY <1>1, <1>3
  <2>2. k # Len(s) => k + 1 \in 1..Len(s)
    BY <1>1, <1>3
  <2> QED BY <1>1, <2>1, <2>2
<1>9. /\ mpNext' = [m \in Nodes |-> IF m = n THEN Null ELSE IF m = pred THEN succ ELSE mpNext[m]]
      /\ mpPrev' = [m \in Nodes |-> IF m = n THEN Null ELSE IF m = succ THEN pred ELSE mpPrev[m]]
      /\ mpFirst' = IF pred = Null /\ n = mpFirst[l] THEN [mpFirst EXCEPT ![l] = succ] ELSE mpFirst
      /\ mpLast' = IF succ = Null /\ n = mpLast[l] THEN [mpLast EXCEPT ![l] = pred] ELSE mpLast
  BY <1>7 DEF RemoveLinks
<1>10. /\ mpNext' \in [Nodes -> NodeOrNull] /\ mpPrev' \in [Nodes -> NodeOrNull]
       /\ mpFirst' \in [Lists -> NodeOrNull] /\ mpLast' \in [Lists -> NodeOrNull]
  <2>1. pred \in NodeOrNull /\ succ \in NodeOrNull /\ Null \in NodeOrNull
    BY <1>8 DEF NodeOrNull
  <2>2. /\ mpNext \in [Nodes -> NodeOrNull] /\ mpPrev \in [Nodes -> NodeOrNull]
        /\ mpFirst \in [Lists -> NodeOrNull] /\ mpLast \in [Lists -> NodeOrNull]
    BY <1>2 DEF TypeOK
  <2> HIDE DEF pred, succ
  <2> QED BY <1>9, <2>1, <2>2
<1>11. OneList'
  <2>1. \A i, j \in Lists : i # j => ToSet(lists[i]) \cap ToSet(lists[j]) = {}
    BY <1>2 DEF OneList
  <2>2. \A j \in Lists : Injective(lists[j])
    BY <1>2 DEF OneList
  <2>3. \A j \in Lists : j # l => ToSet(lists[j]) \cap ToSet(u) = {}
    BY <1>5, <2>1
  <2> QED BY <1>5, <1>6, <2>1, <2>2, <2>3 DEF OneList
<1> HIDE DEF s
<1>12. Spells(u, mpFirst'[l], mpLast'[l], mpNext', mpPrev')
  <2>1. k \in Nat /\ Len(s) \in Nat /\ 1 <= k /\ k <= Len(s)
    BY <1>1, <1>3
  <2>2. mpFirst'[l] = First(u)
    <3>1. u # << >> => Head(u) = u[1]
      BY <1>4, HeadTailProperties
    <3>2. u = << >> <=> Len(s) = 1
      BY <1>4, <2>1, EmptySeq
    <3>3. CASE k = 1
      <4>1. mpFirst'[l] = succ
        BY <1>1, <1>2, <1>3, <1>9, <2>1, <3>3 DEF TypeOK
      <4>2. Len(s) # 1 => u[1] = s[2]
        BY <1>4, <2>1, <3>3
      <4> QED BY <2>1, <3>1, <3>2, <3>3, <4>1, <4>2 DEF First
    <3>4. CASE k # 1
      <4>1. mpFirst'[l] = s[1]
        BY <1>1, <1>8, <1>9, <2>1, <3>4
      <4>2. Len(s) # 1 /\ u[1] = s[1]
        BY <1>4, <2>1, <3>4
      <4> QED BY <3>1, <3>2, <4>1, <4>2 DEF First
    <3> QED BY <3>3, <3>4
  <2>3. mpLast'[l] = IF u = << >> THEN Null ELSE u[Len(u)]
    <3>1. u = << >> <=> Len(s) = 1
      BY <1>4, <2>1, EmptySeq
    <3>2. CASE k = Len(s)
      <4>1. mpLast'[l] = pred
        BY <1>1, <1>2, <1>3, <1>9, <2>1, <3>2 DEF TypeOK
      <4>2. Len(s) # 1 => u[Len(u)] = s[k - 1]
        <5>1. Len(s) # 1 => Len(s) - 1 \in 1..(Len(s) - 1) /\ Len(s) - 1 < k
          BY <2>1, <3>2
        <5> QED BY <1>4, <3>2, <5>1
      <4> QED BY <2>1, <3>1, <3>2, <4>1, <4>2
    <3>3. CASE k # Len(s)
      <4>1. mpLast'[l] = s[Len(s)]
        BY <1>1, <1>8, <1>9, <2>1, <3>3
      <4>2. /\ Len(s) # 1 /\ Len(s) - 1 \in 1..(Len(s) - 1) /\ ~(Len(s) - 1 < k)
            /\ (Len(s) - 1) + 1 = Len(s)
        <5> DEFINE w == Len(s)
        <5>1. w \in Nat /\ k \in Nat /\ 1 <= k /\ k <= w /\ k # w
          BY <2>1, <3>3
        <5> HIDE DEF w
        <5>2. w # 1 /\ w - 1 \in 1..(w - 1) /\ ~(w - 1 < k) /\ (w - 1) + 1 = w
          BY <5>1
        <5> QED BY <5>2 DEF w
      <4>3. u[Len(u)] = s[Len(s)]
        BY <1>4, <4>2
      <4> QED BY <3>1, <4>1, <4>2, <4>3
    <3> QED BY <3>2, <3>3
  <2>4. ASSUME NEW i \in 1..Len(u)
        PROVE  mpNext'[u[i]] = IF i = Len(u) THEN Null ELSE u[i + 1]
    <3>0. i \in 1..(Len(s) - 1) /\ i \in Nat
      BY <1>4
    <3>1. CASE i < k - 1
      <4>1. i \in 1..Len(s) /\ i # k /\ k # 1 /\ i # k - 1 /\ k - 1 \in 1..Len(s) /\ i # Len(s)
            /\ i + 1 \in 1..(Len(s) - 1) /\ i + 1 < k /\ i < k /\ i # Len(u)
        BY <1>4, <2>1, <3>0, <3>1
      <4>2. u[i] = s[i] /\ u[i + 1] = s[i + 1] /\ s[i] # n /\ s[i] # pred /\ s[i] \in Nodes
        BY <1>1, <1>3, <1>4, <3>0, <4>1 DEF Injective
      <4> QED BY <1>1, <1>9, <4>1, <4>2
    <3>2. CASE i = k - 1
      <4>1. i \in 1..Len(s) /\ i # k /\ k # 1 /\ i < k /\ (i = Len(u) <=> k = Len(s))
        BY <1>4, <2>1, <3>0, <3>2
      <4>2. u[i] = pred /\ pred \in Nodes /\ pred # n
        BY <1>1, <1>3, <1>4, <1>8, <3>0, <3>2, <4>1 DEF Injective
      <4>3. mpNext'[u[i]] = succ
        BY <1>9, <4>2
      <4>4. i # Len(u) => i + 1 \in 1..(Len(s) - 1) /\ ~(i + 1 < k) /\ (i + 1) + 1 = k + 1
        BY <1>4, <2>1, <3>0, <3>2
      <4>5. i # Len(u) => u[i + 1] = s[k + 1]
        BY <1>4, <4>4
      <4> QED BY <4>1, <4>3, <4>5
    <3>3. CASE i >= k
      <4>1. i + 1 \in 1..Len(s) /\ i + 1 # k /\ i + 1 # k - 1 /\ ~(i < k) /\ (i = Len(u) <=> i + 1 = Len(s))
            /\ (k # 1 => k - 1 \in 1..Len(s))
        BY <1>4, <2>1, <3>0, <3>3
      <4>2. u[i] = s[i + 1] /\ s[i + 1] # n /\ s[i + 1] # pred /\ s[i + 1] \in Nodes
        BY <1>1, <1>3, <1>4, <3>0, <4>1 DEF Injective
      <4>3. mpNext'[u[i]] = IF i + 1 = Len(s) THEN Null ELSE s[(i + 1) + 1]
        BY <1>1, <1>9, <4>1, <4>2
      <4>4. i # Len(u) => i + 1 \in 1..(Len(s) - 1) /\ ~(i + 1 < k)
        BY <1>4, <2>1, <3>0, <3>3
      <4>5. i # Len(u) => u[i + 1] = s[(i + 1) + 1]
        BY <1>4, <4>4
      <4> QED BY <4>1, <4>3, <4>5
    <3> QED BY <2>1, <3>0, <3>1, <3>2, <3>3
  <2>5. ASSUME NEW i \in 1..Len(u)
        PROVE  mpPrev'[u[i]] = IF i = 1 THEN Null ELSE u[i - 1]
    <3>0. i \in 1..(Len(s) - 1) /\ i \in Nat
      BY <1>4
    <3>1. CASE i < k
      <4>1. i \in 1..Len(s) /\ i # k /\ i # k + 1 /\ (k # Len(s) => k + 1 \in 1..Len(s))
            /\ (i # 1 => i - 1 \in 1..(Len(s) - 1) /\ i - 1 < k)
        BY <2>1, <3>0, <3>1
      <4>2. u[i] = s[i] /\ s[i] # n /\ s[i] # succ /\ s[i] \in Nodes
        BY <1>1, <1>3, <1>4, <3>0, <3>1, <4>1 DEF Injective
      <4>3. mpPrev'[u[i]] = IF i = 1 THEN Null ELSE s[i - 1]
        BY <1>1, <1>9, <4>1, <4>2
      <4>4. i # 1 => u[i - 1] = s[i - 1]
        BY <1>4, <4>1
      <4> QED BY <4>3, <4>4
    <3>2. CASE i = k
      <4>1. k # Len(s) /\ k + 1 \in 1..Len(s) /\ k # k + 1
            /\ (i # 1 => i - 1 \in 1..(Len(s) - 1) /\ i - 1 < k)
        BY <2>1, <3>0, <3>2
      <4>2. u[i] = succ /\ succ \in Nodes /\ succ # n
        BY <1>1, <1>3, <1>4, <1>8, <3>0, <3>2, <4>1 DEF Injective
      <4>3. mpPrev'[u[i]] = pred
        BY <1>9, <4>2
      <4>4. i # 1 => u[i - 1] = s[k - 1]
        BY <1>4, <3>2, <4>1
      <4> QED BY <3>2, <4>3, <4>4
    <3>3. CASE i > k
      <4>1. i + 1 \in 1..Len(s) /\ i + 1 # k /\ i + 1 # k + 1 /\ ~(i < k) /\ i + 1 # 1 /\ i # 1
            /\ (k # Len(s) => k + 1 \in 1..Len(s)) /\ (i + 1) - 1 = i
            /\ i - 1 \in 1..(Len(s) - 1) /\ ~(i - 1 < k) /\ (i - 1) + 1 = i
        BY <2>1, <3>0, <3>3
      <4>2. u[i] = s[i + 1] /\ s[i + 1] # n /\ s[i + 1] # succ /\ s[i + 1] \in Nodes
        BY <1>1, <1>3, <1>4, <3>0, <4>1 DEF Injective
      <4>3. mpPrev'[u[i]] = s[i]
        BY <1>1, <1>9, <4>1, <4>2
      <4>4. u[i - 1] = s[i]
        BY <1>4, <4>1
      <4> QED BY <4>1, <4>3, <4>4
    <3> QED BY <2>1, <3>0, <3>1, <3>2, <3>3
  <2> QED BY <2>2, <2>3, <2>4, <2>5 DEF Spells
<1>13. ASSUME NEW j \in Lists, j # l
       PROVE  Spells(lists[j], mpFirst'[j], mpLast'[j], mpNext', mpPrev')
  <2>1. ToSet(lists[j]) = {lists[j][i] : i \in 1..Len(lists[j])}
        /\ \A i \in 1..Len(lists[j]) : lists[j][i] \in Nodes
    BY ListFacts
  <2>2. ToSet(lists[j]) \cap ToSet(s) = {}
    BY <1>2, <1>13 DEF OneList, s
  <2>3. \A i \in 1..Len(lists[j]) :
          /\ lists[j][i] # n /\ lists[j][i] # pred /\ lists[j][i] # succ /\ lists[j][i] \in Nodes
    <3>1. n \in ToSet(s)
      BY DEF s
    <3>2. \A i \in 1..Len(lists[j]) : lists[j][i] \in ToSet(lists[j]) /\ lists[j][i] # Null
      BY <2>1, NodeAssumption
    <3> HIDE DEF pred, succ
    <3> QED BY <1>8, <2>1, <2>2, <3>1, <3>2 DEF pred, succ
  <2>4. \A i \in 1..Len(lists[j]) : /\ mpNext'[lists[j][i]] = mpNext[lists[j][i]]
                                  /\ mpPrev'[lists[j][i]] = mpPrev[lists[j][i]]
    BY <1>9, <2>3
  <2>5. mpFirst'[j] = mpFirst[j] /\ mpLast'[j] = mpLast[j]
    BY <1>2, <1>9, <1>13 DEF TypeOK
  <2>6. Spells(lists[j], mpFirst[j], mpLast[j], mpNext, mpPrev)
    BY <1>2 DEF LinksSpellLists
  <2> QED BY <2>4, <2>5, <2>6 DEF Spells
<1>14. ASSUME NEW m \in Nodes, \A j \in Lists : m \notin ToSet(lists'[j])
       PROVE  mpNext'[m] = Null /\ mpPrev'[m] = Null
  <2>1. CASE m = n
    BY <1>9, <2>1
  <2>2. CASE m # n
    <3>1. m \notin ToSet(s) /\ \A j \in Lists : m \notin ToSet(lists[j])
      BY <1>5, <1>6, <1>14, <2>2 DEF s
    <3>2. mpNext[m] = Null /\ mpPrev[m] = Null
      BY <1>2, <3>1 DEF LinksSpellLists
    <3>3. m # pred /\ m # succ
      BY <1>8, <3>1, NodeAssumption
    <3> QED BY <1>9, <2>2, <3>2, <3>3
  <2> QED BY <2>1, <2>2
<1>15. LinksSpellLists'
  <2>1. \A j \in Lists : Spells(lists'[j], mpFirst'[j], mpLast'[j], mpNext', mpPrev')
    BY <1>6, <1>12, <1>13
  <2> QED BY <1>14, <2>1 DEF LinksSpellLists, Spells
<1> QED BY <1>6, <1>10, <1>11, <1>15

-----------------------------------------------------------------------------

\* addNode's position is the only one that the order allows.
LEMMA PrioPosUnique ==
  ASSUME NEW S, NEW s \in Seq(S), NEW order \in [S -> Nat], NEW x \in S, NEW k \in 0..Len(s),
         \A j \in 1..k : order[s[j]] <= order[x],
         k < Len(s) => order[s[k + 1]] > order[x]
  PROVE  PrioPos(s, x, order) = k
<1> DEFINE p == PrioPos(s, x, order)
<1>1. /\ p \in 0..Len(s)
      /\ \A j \in 1..p : order[s[j]] <= order[x]
      /\ p < Len(s) => order[s[p + 1]] > order[x]
  BY PrioPosIs
<1>2. Len(s) \in Nat /\ order[x] \in Nat /\ \A i \in 1..Len(s) : order[s[i]] \in Nat
  BY LenProperties, ElementOfSeq
<1> HIDE DEF p
<1>3. CASE p < k
  <2>1. p + 1 \in 1..k /\ p + 1 \in 1..Len(s) /\ p < Len(s)
    BY <1>1, <1>2, <1>3
  <2> QED BY <1>1, <1>2, <2>1
<1>4. CASE k < p
  <2>1. k + 1 \in 1..p /\ k + 1 \in 1..Len(s) /\ k < Len(s)
    BY <1>1, <1>2, <1>4
  <2> QED BY <1>1, <1>2, <2>1
<1> QED BY <1>1, <1>2, <1>3, <1>4 DEF p

\* Initially every list is empty and no node is linked.
LEMMA InitInvariant == Init => IInv
<1> SUFFICES ASSUME Init PROVE IInv
  OBVIOUS
<1>1. TypeOK
  BY DEF Init, TypeOK, NodeOrNull
<1>2. Len(<< >>) = 0 /\ ToSet(<< >>) = {}
  BY DEF ToSet
<1>3. OneList
  BY <1>2 DEF Init, OneList, Injective
<1>4. LinksSpellLists
  BY <1>2 DEF Init, LinksSpellLists, Spells, First
<1> QED BY <1>1, <1>3, <1>4 DEF Init, IInv, ScanOnCourse, Idle

\* An insertion that leaves addNode idle keeps the invariant.
LEMMA InsertionKeeps ==
  ASSUME IInv, NEW l \in Lists, NEW n \in Nodes, \A j \in Lists : n \notin ToSet(lists[j]),
         NEW k \in 0..Len(lists[l]), NEW u \in Seq(Nodes), Inserted(lists[l], k, n, u),
         LinkedIn(l, lists[l], n, k), lists' = [lists EXCEPT ![l] = u],
         adding' = Null, into' \in Lists, curr' \in NodeOrNull
  PROVE  IInv'
<1>1. /\ lists' \in [Lists -> Seq(Nodes)]
      /\ mpNext' \in [Nodes -> NodeOrNull] /\ mpPrev' \in [Nodes -> NodeOrNull]
      /\ mpFirst' \in [Lists -> NodeOrNull] /\ mpLast' \in [Lists -> NodeOrNull]
      /\ OneList' /\ LinksSpellLists'
  BY InsertionSpells
<1>2. TypeOK'
  BY <1>1 DEF TypeOK, NodeOrNull
<1> QED BY <1>1, <1>2 DEF IInv, ScanOnCourse, Idle

LEMMA appendStep ==
  ASSUME IInv, NEW l \in Lists, NEW n \in Nodes, append(l, n) PROVE IInv'
<1> DEFINE s == lists[l]
<1>1. s \in Seq(Nodes) /\ Injective(s) /\ Len(s) \in 0..Len(s)
  <2>1. s \in Seq(Nodes) /\ Injective(s) /\ Len(s) \in Nat
    BY ListFacts
  <2> HIDE DEF s
  <2> QED BY <2>1
<1>2. /\ \A j \in Lists : n \notin ToSet(lists[j])
      /\ adding' = Null /\ into' \in Lists /\ curr' \in NodeOrNull
      /\ lists' = [lists EXCEPT ![l] = Append(s, n)]
  BY DEF append, Unlinked, Idle, IInv, TypeOK, scanVars
<1>3. Append(s, n) \in Seq(Nodes) /\ Inserted(s, Len(s), n, Append(s, n))
  BY <1>1, <1>2, AppendIs
<1>4. LinkedIn(l, s, n, Len(s))
  BY AppendLinked DEF append
<1> QED BY <1>1, <1>2, <1>3, <1>4, InsertionKeeps

LEMMA prependStep ==
  ASSUME IInv, NEW l \in Lists, NEW n \in Nodes, prepend(l, n) PROVE IInv'
<1> DEFINE s == lists[l]
<1>1. s \in Seq(Nodes) /\ Injective(s) /\ 0 \in 0..Len(s)
  BY ListFacts
<1>2. /\ \A j \in Lists : n \notin ToSet(lists[j])
      /\ adding' = Null /\ into' \in Lists /\ curr' \in NodeOrNull
      /\ lists' = [lists EXCEPT ![l] = Cons(n, s)]
  BY DEF prepend, Unlinked, Idle, IInv, TypeOK, scanVars
<1>3. Cons(n, s) \in Seq(Nodes) /\ Inserted(s, 0, n, Cons(n, s))
  BY <1>1, <1>2, ConsIs
<1>4. LinkedIn(l, s, n, 0)
  BY PrependLinked DEF prepend
<1> QED BY <1>1, <1>2, <1>3, <1>4, InsertionKeeps

LEMMA insertAfterStep ==
  ASSUME IInv, NEW l \in Lists, NEW n \in Nodes, NEW prevNode \in Nodes,
         insertAfter(l, n, prevNode)
  PROVE  IInv'
<1> DEFINE s == lists[l]
           k == IndexOf(s, prevNode)
<1>1. s \in Seq(Nodes) /\ Injective(s) /\ Len(s) \in Nat
  BY ListFacts
<1>2. /\ \A j \in Lists : n \notin ToSet(lists[j])
      /\ adding' = Null /\ into' \in Lists /\ curr' \in NodeOrNull
      /\ lists' = [lists EXCEPT ![l] = InsertAt(s, k + 1, n)]
      /\ prevNode \in ToSet(s) /\ InsertLinks(l, n, prevNode)
  BY DEF insertAfter, Unlinked, Idle, IInv, TypeOK, scanVars
<1>3. k \in 1..Len(s) /\ s[k] = prevNode
  BY <1>1, <1>2, IndexOfIs
<1> HIDE DEF k
<1>4. k \in 0..Len(s)
  BY <1>1, <1>3
<1>5. InsertAt(s, k + 1, n) \in Seq(Nodes) /\ Inserted(s, k, n, InsertAt(s, k + 1, n))
  BY <1>1, <1>4, InsertAtIs
<1>6. LinkedIn(l, s, n, k)
  BY <1>2, <1>3, InsertLinked
<1> QED BY <1>2, <1>4, <1>5, <1>6, InsertionKeeps

LEMMA removeStep ==
  ASSUME IInv, NEW l \in Lists, NEW n \in Nodes, remove(l, n) PROVE IInv'
<1>1. /\ adding' = Null /\ into' \in Lists /\ curr' \in NodeOrNull
      /\ RemoveLinks(l, n)
      /\ lists' = [lists EXCEPT ![l] = Unlink(@, n)]
      /\ n \in ToSet(lists[l]) \/ \A j \in Lists : n \notin ToSet(lists[j])
  BY DEF remove, Unlinked, Idle, IInv, TypeOK, scanVars
<1>2. CASE n \in ToSet(lists[l])
  <2>1. /\ lists' \in [Lists -> Seq(Nodes)]
        /\ mpNext' \in [Nodes -> NodeOrNull] /\ mpPrev' \in [Nodes -> NodeOrNull]
        /\ mpFirst' \in [Lists -> NodeOrNull] /\ mpLast' \in [Lists -> NodeOrNull]
        /\ OneList' /\ LinksSpellLists'
    BY <1>1, <1>2, RemovalSpells
  <2>2. TypeOK'
    BY <1>1, <2>1 DEF TypeOK, NodeOrNull
  <2> QED BY <1>1, <2>1, <2>2 DEF IInv, ScanOnCourse, Idle
<1>3. CASE \A j \in Lists : n \notin ToSet(lists[j])
  <2>1. TypeOK /\ LinksSpellLists /\ mpNext[n] = Null /\ mpPrev[n] = Null
    BY <1>3 DEF IInv, LinksSpellLists
  <2>2. n # mpFirst[l] /\ n # mpLast[l]
    <3>1. /\ ToSet(lists[l]) = {lists[l][i] : i \in 1..Len(lists[l])} /\ Len(lists[l]) \in Nat
          /\ mpFirst[l] = (IF Len(lists[l]) = 0 THEN Null ELSE lists[l][1])
          /\ mpLast[l] = (IF Len(lists[l]) = 0 THEN Null ELSE lists[l][Len(lists[l])])
      BY ListFacts
    <3> QED BY <1>3, <3>1, NodeAssumption
  <2>3. UNCHANGED linkVars
    <3>1. mpNext \in [Nodes -> NodeOrNull] /\ mpPrev \in [Nodes -> NodeOrNull]
      BY <2>1 DEF TypeOK
    <3>2. \A m \in Nodes : m # Null
      BY NodeAssumption
    <3> QED BY <1>1, <2>1, <2>2, <3>1, <3>2 DEF RemoveLinks, linkVars
  <2>4. lists' = lists
    BY <1>1, <1>3, <2>1 DEF Unlink, TypeOK
  <2>5. mpNext' = mpNext /\ mpPrev' = mpPrev /\ mpFirst' = mpFirst /\ mpLast' = mpLast
    BY <2>3 DEF linkVars
  <2>6. TypeOK'
    BY <1>1, <2>1, <2>4, <2>5 DEF TypeOK, NodeOrNull
  <2>7. OneList'
    BY <2>4 DEF IInv, OneList
  <2>8. LinksSpellLists'
    BY <2>1, <2>4, <2>5 DEF LinksSpellLists, Spells
  <2> QED BY <1>1, <2>6, <2>7, <2>8 DEF IInv, ScanOnCourse, Idle
<1> QED BY <1>1, <1>2, <1>3

LEMMA addNodeStep ==
  ASSUME IInv, NEW l \in Lists, NEW n \in Nodes, addNode(l, n) PROVE IInv'
<1> DEFINE s == lists[l]
           u == AddNode(s, n, mOrder)
<1>1. /\ s \in Seq(Nodes) /\ Injective(s) /\ Len(s) \in Nat
      /\ \A i \in 1..Len(s) : s[i] \in Nodes /\ s[i] # Null
      /\ mpFirst[l] = (IF Len(s) = 0 THEN Null ELSE s[1])
      /\ ToSet(s) = {s[i] : i \in 1..Len(s)}
  BY ListFacts
<1>2. /\ \A j \in Lists : n \notin ToSet(lists[j])
      /\ adding = Null /\ into \in Lists /\ curr \in NodeOrNull /\ Unlinked(n)
      /\ mOrder \in [Nodes -> Nat] /\ Null \notin Nodes
  BY NodeAssumption DEF addNode, AddToEmpty, AddInFront, BeginScan, Unlinked, Idle, IInv, TypeOK
<1>3. u \in Seq(Nodes) /\ Inserted(s, PrioPos(s, n, mOrder), n, u)
  BY <1>1, <1>2, AddNodeIs
<1> HIDE DEF s
<1>4. CASE AddToEmpty(l, n)
  <2>1. Len(s) = 0 /\ lists' = [lists EXCEPT ![l] = u] /\ AppendLinks(l, n)
        /\ adding' = Null /\ into' \in Lists /\ curr' \in NodeOrNull
    BY <1>1, <1>2, <1>4 DEF AddToEmpty, scanVars, s
  <2>2. 0 \in 0..Len(s) /\ PrioPos(s, n, mOrder) = 0
    <3>1. 0 \in 0..Len(s) /\ (\A j \in 1..0 : mOrder[s[j]] <= mOrder[n]) /\ ~(0 < Len(s))
      BY <2>1
    <3> QED BY <1>1, <1>2, <3>1, PrioPosUnique
  <2>3. LinkedIn(l, s, n, 0)
    BY <1>2, <2>1, AppendLinked DEF s
  <2> HIDE DEF u
  <2> QED BY <1>2, <1>3, <2>1, <2>2, <2>3, InsertionKeeps DEF s
<1>5. CASE AddInFront(l, n)
  <2>1. /\ lists' = [lists EXCEPT ![l] = u] /\ PrependLinks(l, n)
        /\ Len(s) # 0 /\ mOrder[s[1]] > mOrder[n]
        /\ adding' = Null /\ into' \in Lists /\ curr' \in NodeOrNull
    BY <1>1, <1>2, <1>5 DEF AddInFront, scanVars, s
  <2>2. 0 \in 0..Len(s) /\ PrioPos(s, n, mOrder) = 0
    <3>1. /\ 0 \in 0..Len(s)
          /\ \A j \in 1..0 : mOrder[s[j]] <= mOrder[n]
          /\ mOrder[s[0 + 1]] > mOrder[n]
      BY <1>1, <2>1
    <3> QED BY <1>1, <1>2, <3>1, PrioPosUnique
  <2>3. LinkedIn(l, s, n, 0)
    BY <1>2, <2>1, PrependLinked DEF s
  <2> HIDE DEF u
  <2> QED BY <1>2, <1>3, <2>1, <2>2, <2>3, InsertionKeeps DEF s
<1>6. CASE BeginScan(l, n)
  <2>1. /\ adding' = n /\ into' = l /\ curr' = s[1] /\ mOrder[s[1]] <= mOrder[n]
        /\ Len(s) # 0 /\ UNCHANGED << mpPrev, mpNext, mpFirst, mpLast, lists >>
    BY <1>1, <1>6 DEF BeginScan, linkVars
  <2>2. 1 \in 1..Len(s) /\ s[1] \in Nodes /\ s[1] \in ToSet(s)
    BY <1>1, <2>1
  <2>3. IndexOf(s, s[1]) = 1
    <3>1. IndexOf(s, s[1]) \in 1..Len(s) /\ s[IndexOf(s, s[1])] = s[1]
      BY <1>1, <2>2, IndexOfIs
    <3> QED BY <1>1, <2>2, <3>1 DEF Injective
  <2>4. TypeOK' /\ OneList' /\ LinksSpellLists'
    <3>1. TypeOK'
      BY <2>1, <2>2 DEF IInv, TypeOK, NodeOrNull
    <3>2. OneList'
      BY <2>1 DEF IInv, OneList
    <3>3. LinksSpellLists'
      BY <2>1 DEF IInv, LinksSpellLists, Spells
    <3> QED BY <3>1, <3>2, <3>3
  <2>5. ScanOnCourse'
    <3>1. \A i \in 1..IndexOf(s, s[1]) : mOrder[s[i]] <= mOrder[n]
      BY <2>1, <2>3
    <3> QED BY <1>2, <2>1, <2>2, <3>1 DEF ScanOnCourse, s
  <2> QED BY <2>4, <2>5 DEF IInv
<1> QED BY <1>4, <1>5, <1>6 DEF addNode

\* What addNode's walk knows of its position.
LEMMA ScanFacts ==
  ASSUME IInv, ~Idle
  PROVE  LET s == lists[into]
             k == IndexOf(s, curr)
         IN /\ into \in Lists /\ adding \in Nodes /\ \A l \in Lists : adding \notin ToSet(lists[l])
            /\ s \in Seq(Nodes) /\ Injective(s) /\ Len(s) \in Nat
            /\ \A i \in 1..Len(s) : s[i] \in Nodes /\ s[i] # Null /\ s[i] \in ToSet(s)
            /\ k \in 1..Len(s) /\ s[k] = curr
            /\ \A i \in 1..k : mOrder[s[i]] <= mOrder[adding]
            /\ mpNext[curr] = IF k = Len(s) THEN Null ELSE s[k + 1]
<1> DEFINE s == lists[into]
           k == IndexOf(s, curr)
<1>1. /\ into \in Lists /\ adding \in Nodes /\ \A l \in Lists : adding \notin ToSet(lists[l])
      /\ curr \in ToSet(s)
      /\ \A i \in 1..k : mOrder[s[i]] <= mOrder[adding]
  BY DEF IInv, TypeOK, NodeOrNull, ScanOnCourse, Idle
<1>2. /\ s \in Seq(Nodes) /\ Injective(s) /\ Len(s) \in Nat
      /\ \A i \in 1..Len(s) : s[i] \in Nodes /\ s[i] # Null
      /\ \A i \in 1..Len(s) : mpNext[s[i]] = IF i = Len(s) THEN Null ELSE s[i + 1]
      /\ ToSet(s) = {s[i] : i \in 1..Len(s)}
  BY <1>1, ListFacts
<1>3. k \in 1..Len(s) /\ s[k] = curr
  BY <1>1, <1>2, IndexOfIs
<1> HIDE DEF k, s
<1>4. \A i \in 1..Len(s) : s[i] \in ToSet(s)
  BY <1>2
<1>5. mpNext[curr] = IF k = Len(s) THEN Null ELSE s[k + 1]
  BY <1>2, <1>3
<1> QED BY <1>1, <1>2, <1>3, <1>4, <1>5 DEF k, s

LEMMA AdvanceStep == ASSUME IInv, Advance PROVE IInv'
<1> DEFINE s == lists[into]
           k == IndexOf(s, curr)
<1>1. /\ into \in Lists /\ adding \in Nodes /\ \A l \in Lists : adding \notin ToSet(lists[l])
      /\ s \in Seq(Nodes) /\ Injective(s) /\ Len(s) \in Nat
      /\ \A i \in 1..Len(s) : s[i] \in Nodes /\ s[i] # Null /\ s[i] \in ToSet(s)
      /\ k \in 1..Len(s) /\ s[k] = curr
      /\ \A i \in 1..k : mOrder[s[i]] <= mOrder[adding]
      /\ mpNext[curr] = IF k = Len(s) THEN Null ELSE s[k + 1]
  BY ScanFacts DEF Advance
<1>2. /\ mpNext[curr] # Null /\ mOrder[mpNext[curr]] <= mOrder[adding] /\ curr' = mpNext[curr]
      /\ UNCHANGED << mpPrev, mpNext, mpFirst, mpLast, adding, into, lists >>
  BY DEF Advance, MayAdvance, linkVars
<1> HIDE DEF k, s
<1>3. k + 1 \in 1..Len(s) /\ curr' = s[k + 1] /\ k \in Nat
  BY <1>1, <1>2
<1>4. IndexOf(s, curr') = k + 1
  <2>1. IndexOf(s, curr') \in 1..Len(s) /\ s[IndexOf(s, curr')] = curr'
    BY <1>1, <1>3, IndexOfIs
  <2> QED BY <1>1, <1>3, <2>1 DEF Injective
<1>5. \A i \in 1..(k + 1) : mOrder[s[i]] <= mOrder[adding]
  <2>1. \A i \in 1..(k + 1) : i \in 1..k \/ i = k + 1
    BY <1>3
  <2> QED BY <1>1, <1>2, <1>3, <2>1
<1>6. ScanOnCourse'
  <2>1. s' = s
    BY <1>2 DEF s
  <2>2. curr' \in ToSet(s)
    BY <1>1, <1>3
  <2> QED BY <1>1, <1>2, <1>4, <1>5, <2>1, <2>2 DEF ScanOnCourse, s
<1>7. TypeOK'
  BY <1>1, <1>2, <1>3 DEF IInv, TypeOK, NodeOrNull
<1>8. OneList'
  BY <1>2 DEF IInv, OneList
<1>9. LinksSpellLists'
  BY <1>2 DEF IInv, LinksSpellLists, Spells
<1> QED BY <1>6, <1>7, <1>8, <1>9 DEF IInv

LEMMA EndScanStep == ASSUME IInv, EndScan PROVE IInv'
<1> DEFINE s == lists[into]
           k == IndexOf(s, curr)
           u == AddNode(s, adding, mOrder)
<1>1. /\ into \in Lists /\ adding \in Nodes /\ \A l \in Lists : adding \notin ToSet(lists[l])
      /\ s \in Seq(Nodes) /\ Injective(s) /\ Len(s) \in Nat
      /\ \A i \in 1..Len(s) : s[i] \in Nodes /\ s[i] # Null /\ s[i] \in ToSet(s)
      /\ k \in 1..Len(s) /\ s[k] = curr
      /\ \A i \in 1..k : mOrder[s[i]] <= mOrder[adding]
      /\ mpNext[curr] = IF k = Len(s) THEN Null ELSE s[k + 1]
  BY ScanFacts DEF EndScan
<1>2. /\ mpNext[curr] = Null \/ ~(mOrder[mpNext[curr]] <= mOrder[adding])
      /\ InsertLinks(into, adding, curr) /\ lists' = [lists EXCEPT ![into] = u]
      /\ adding' = Null /\ curr' = Null /\ into' = into
  BY DEF EndScan, MayAdvance
<1>3. mOrder \in [Nodes -> Nat]
  BY NodeAssumption
<1>4. u \in Seq(Nodes) /\ Inserted(s, PrioPos(s, adding, mOrder), adding, u)
  BY <1>1, <1>3, AddNodeIs
<1> HIDE DEF k, s, u
<1>5. k \in 0..Len(s)
  BY <1>1
<1>6. k < Len(s) => mOrder[s[k + 1]] > mOrder[adding]
  <2>1. SUFFICES ASSUME k < Len(s) PROVE mOrder[s[k + 1]] > mOrder[adding]
    OBVIOUS
  <2>2. k + 1 \in 1..Len(s) /\ mpNext[curr] = s[k + 1]
    BY <1>1, <2>1
  <2>3. mOrder[s[k + 1]] \in Nat /\ mOrder[adding] \in Nat
    BY <1>1, <1>3, <2>2
  <2> QED BY <1>1, <1>2, <2>2, <2>3
<1>7. PrioPos(s, adding, mOrder) = k
  BY <1>1, <1>3, <1>5, <1>6, PrioPosUnique
<1>8. LinkedIn(into, s, adding, k)
  BY <1>1, <1>2, InsertLinked DEF s
<1>9. curr' \in NodeOrNull /\ into' \in Lists
  BY <1>1, <1>2 DEF NodeOrNull
<1> QED BY <1>1, <1>2, <1>4, <1>5, <1>7, <1>8, <1>9, InsertionKeeps DEF s

-----------------------------------------------------------------------------

\* Whatever operations follow each other, and whatever the orders: the links
\* spell the lists, and addNode's walk stays on its list and on its course.
THEOREM ListInvariant == Spec => []IInv
<1>1. Init => IInv
  BY InitInvariant
<1>2. IInv /\ [Next]_vars => IInv'
  <2> SUFFICES ASSUME IInv, [Next]_vars PROVE IInv'
    OBVIOUS
  <2>1. ASSUME NEW l \in Lists, NEW n \in Nodes, append(l, n) PROVE IInv'
    BY <2>1, appendStep
  <2>2. ASSUME NEW l \in Lists, NEW n \in Nodes, prepend(l, n) PROVE IInv'
    BY <2>2, prependStep
  <2>3. ASSUME NEW l \in Lists, NEW n \in Nodes, NEW prevNode \in Nodes,
               insertAfter(l, n, prevNode)
        PROVE  IInv'
    BY <2>3, insertAfterStep
  <2>4. ASSUME NEW l \in Lists, NEW n \in Nodes, remove(l, n) PROVE IInv'
    BY <2>4, removeStep
  <2>5. ASSUME NEW l \in Lists, NEW n \in Nodes, addNode(l, n) PROVE IInv'
    BY <2>5, addNodeStep
  <2>6. CASE Advance
    BY <2>6, AdvanceStep
  <2>7. CASE EndScan
    BY <2>7, EndScanStep
  <2>8. CASE UNCHANGED vars
    <3>1. UNCHANGED << mpPrev, mpNext, mpFirst, mpLast, adding, into, curr, lists >>
      BY <2>8 DEF vars, linkVars, scanVars
    <3>2. TypeOK'
      BY <3>1 DEF IInv, TypeOK, NodeOrNull
    <3>3. OneList'
      BY <3>1 DEF IInv, OneList
    <3>4. LinksSpellLists'
      BY <3>1 DEF IInv, LinksSpellLists, Spells
    <3>5. ScanOnCourse'
      BY <3>1 DEF IInv, ScanOnCourse, Idle
    <3> QED BY <3>2, <3>3, <3>4, <3>5 DEF IInv
  <2> QED BY <2>1, <2>2, <2>3, <2>4, <2>5, <2>6, <2>7, <2>8 DEF Next
<1> QED BY <1>1, <1>2, PTL DEF Spec

\* The links of cListMg_c spell the sequences that FBase computes with.
THEOREM LinksRepresentLists == Spec => []LinksSpellLists
<1>1. IInv => LinksSpellLists
  BY DEF IInv
<1> QED BY <1>1, ListInvariant, PTL

\* addNode never oversteps the place its order gives it.
THEOREM ScanStaysOnCourse == Spec => []ScanOnCourse
<1>1. IInv => ScanOnCourse
  BY DEF IInv
<1> QED BY <1>1, ListInvariant, PTL
=============================================================================
