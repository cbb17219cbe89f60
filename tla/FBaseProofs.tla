---------------------------- MODULE FBaseProofs ----------------------------
(***************************************************************************)
(* The safety theorems of FBase, for every set of profiles, every order of *)
(* execution and drawing, every ID limit and both client assumptions.      *)
(* IInv is inductive: each action of the framework and of game code        *)
(* preserves it, and the invariants the runs check are its conjuncts.      *)
(***************************************************************************)
EXTENDS FBase, FListProofs

\* Null is the ID of no base.
LEMMA BasesAre == Bases \in SUBSET Nat /\ Null \notin Bases
BY IdAssumption DEF Bases, Null, BASE_ID_FIRST

LEMMA OrdersAre ==
  ASSUME mProfName \in [Bases -> Profiles]
  PROVE  ExecuteOrder \in [Bases -> Nat] /\ DrawOrder \in [Bases -> Nat]
BY ProfileAssumption DEF ExecuteOrder, DrawOrder

-----------------------------------------------------------------------------
(* The tree walk stays in the tree.                                         *)

LEMMA FirstOfIs ==
  ASSUME NEW T \in SUBSET Bases
  PROVE  FirstOf(T) = Null \/ FirstOf(T) \in T
<1>1. CASE T = {}
  BY <1>1 DEF FirstOf
<1>2. CASE T # {}
  <2>1. T \in SUBSET Nat
    BY BasesAre
  <2>2. Min(T) \in T
    BY <1>2, <2>1, MinIn
  <2> QED BY <1>2, <2>2 DEF FirstOf
<1> QED BY <1>1, <1>2

LEMMA TreeNextIs ==
  ASSUME TypeOK, NEW b
  PROVE  TreeNext(b) = Null \/ TreeNext(b) \in live
<1>1. \A x : Children(x) \in SUBSET Bases /\ Children(x) \in SUBSET live
  BY DEF TypeOK, Children
<1>2. \A x : FirstOf(Children(x)) = Null \/ FirstOf(Children(x)) \in live
  BY <1>1, FirstOfIs
<1>3. \A x : Sibling(x) = Null \/ Sibling(x) \in live
  <2> TAKE x
  <2> DEFINE T == {c \in Children(parent[x]) : c > x}
  <2>1. T \in SUBSET Bases /\ T \in SUBSET live
    BY <1>1
  <2>2. FirstOf(T) = Null \/ FirstOf(T) \in T
    BY <2>1, FirstOfIs
  <2> QED BY <2>1, <2>2 DEF Sibling
<1>4. TreeNextNotChild(b) = Null \/ TreeNextNotChild(b) \in live
  BY <1>3 DEF TreeNextNotChild
<1> QED BY <1>2, <1>4 DEF TreeNext

-----------------------------------------------------------------------------
(* The stack of operations.                                                 *)

\* The bases whose first create operation is in progress, of a stack.
MakesOf(st, loop) == {st[i] : i \in {j \in 1..Len(st) : j > 1 \/ ~loop}}

LEMMA PopIs ==
  ASSUME NEW S, NEW st \in Seq(S), st # << >>, Injective(st), NEW loop \in BOOLEAN
  PROVE  LET p == SubSeq(st, 1, Len(st) - 1) IN
         /\ p \in Seq(S) /\ Injective(p)
         /\ ToSet(p) \subseteq ToSet(st) /\ st[Len(st)] \in ToSet(st)
         /\ p # << >> => p[1] = st[1] /\ p[1] # st[Len(st)]
         /\ MakesOf(p, loop) = MakesOf(st, loop) \ {st[Len(st)]}
         /\ Len(st) > 1 \/ ~loop => st[Len(st)] \in MakesOf(st, loop)
         /\ ~(Len(st) > 1 \/ ~loop) => p = << >> /\ Len(st) = 1 /\ MakesOf(st, loop) = {}
<1> DEFINE p == SubSeq(st, 1, Len(st) - 1)
<1>1. Len(st) \in Nat \ {0} /\ \A i \in 1..Len(st) : st[i] \in S
  BY EmptySeq, LenProperties, ElementOfSeq
<1>2. p \in Seq(S) /\ Len(p) = Len(st) - 1 /\ \A i \in 1..(Len(st) - 1) : p[i] = st[i]
  <2>1. PICK n \in Nat : n = Len(st) - 1
    BY <1>1
  <2>2. 1 \in Int /\ n \in Int /\ (\A i \in 1..n : st[i] \in S) /\ p = SubSeq(st, 1, n)
    BY <1>1, <2>1
  <2>3. /\ p \in Seq(S)
        /\ Len(p) = IF 1 <= n THEN n - 1 + 1 ELSE 0
        /\ \A i \in 1..(n - 1 + 1) : p[i] = st[1 + i - 1]
    BY <2>2, SubSeqProperties
  <2>4. Len(p) = n
    BY <2>3
  <2>5. ASSUME NEW i \in 1..n PROVE p[i] = st[i]
    <3>1. i \in 1..(n - 1 + 1) /\ 1 + i - 1 = i
      OBVIOUS
    <3>2. p[i] = st[1 + i - 1]
      BY <2>3, <3>1
    <3> QED BY <3>1, <3>2
  <2> QED BY <2>1, <2>3, <2>4, <2>5
<1> HIDE DEF p
<1>3. \A i \in 1..Len(p) : i \in 1..Len(st) /\ p[i] = st[i] /\ p[i] # st[Len(st)]
  BY <1>1, <1>2 DEF Injective
<1>4. Injective(p)
  BY <1>1, <1>2, <1>3 DEF Injective
<1>5. MakesOf(p, loop) = MakesOf(st, loop) \ {st[Len(st)]}
  <2>1. ASSUME NEW x \in MakesOf(p, loop) PROVE x \in MakesOf(st, loop) \ {st[Len(st)]}
    BY <1>3, <2>1 DEF MakesOf
  <2>2. ASSUME NEW x \in MakesOf(st, loop), x # st[Len(st)] PROVE x \in MakesOf(p, loop)
    <3>1. PICK i \in 1..Len(st) : (i > 1 \/ ~loop) /\ x = st[i]
      BY <2>2 DEF MakesOf
    <3>2. i \in 1..Len(p) /\ p[i] = x
      BY <1>1, <1>2, <2>2, <3>1
    <3> QED BY <3>1, <3>2 DEF MakesOf
  <2> QED BY <2>1, <2>2
<1>6. Len(st) > 1 \/ ~loop => st[Len(st)] \in MakesOf(st, loop)
  BY <1>1 DEF MakesOf
<1>7. ASSUME ~(Len(st) > 1 \/ ~loop) PROVE p = << >> /\ Len(st) = 1 /\ MakesOf(st, loop) = {}
  <2>1. Len(st) = 1 /\ Len(p) = 0
    BY <1>1, <1>2, <1>7
  <2> QED BY <1>2, <1>7, <2>1, EmptySeq DEF MakesOf
<1>8. p # << >> => p[1] = st[1] /\ p[1] # st[Len(st)]
  <2>1. p # << >> => 1 \in 1..Len(p)
    BY <1>2, EmptySeq, LenProperties
  <2> QED BY <1>3, <2>1
<1>9. ToSet(p) \subseteq ToSet(st) /\ st[Len(st)] \in ToSet(st)
  <2>1. ToSet(p) = {p[i] : i \in 1..Len(p)} /\ ToSet(st) = {st[i] : i \in 1..Len(st)}
    BY <1>2, LenProperties DEF ToSet
  <2> QED BY <1>1, <1>3, <2>1
<1> QED BY <1>2, <1>4, <1>5, <1>6, <1>7, <1>8, <1>9 DEF p

LEMMA PushIs ==
  ASSUME NEW S, NEW st \in Seq(S), NEW loop \in BOOLEAN, NEW x \in S, st # << >> \/ ~loop
  PROVE  /\ MakesOf(Append(st, x), loop) = MakesOf(st, loop) \cup {x}
         /\ Append(st, x) # << >>
         /\ st # << >> => Append(st, x)[1] = st[1]
<1> DEFINE p == Append(st, x)
<1>1. Len(st) \in Nat /\ (st # << >> => Len(st) > 0)
  BY EmptySeq, LenProperties
<1>2. p \in Seq(S) /\ p # << >> /\ Len(p) = Len(st) + 1
      /\ (\A i \in 1..Len(st) : p[i] = st[i]) /\ p[Len(st) + 1] = x
  BY AppendProperties
<1> HIDE DEF p
<1>3. \A i \in 1..Len(p) : i = Len(st) + 1 \/ i \in 1..Len(st)
  BY <1>1, <1>2
<1>4. MakesOf(p, loop) \subseteq MakesOf(st, loop) \cup {x}
  BY <1>2, <1>3 DEF MakesOf
<1>5. ASSUME NEW y \in MakesOf(st, loop) PROVE y \in MakesOf(p, loop)
  <2>1. PICK i \in 1..Len(st) : (i > 1 \/ ~loop) /\ y = st[i]
    BY <1>5 DEF MakesOf
  <2>2. i \in 1..Len(p) /\ p[i] = y
    BY <1>1, <1>2, <2>1
  <2> QED BY <2>1, <2>2 DEF MakesOf
<1>6. x \in MakesOf(p, loop)
  <2>1. Len(st) + 1 \in 1..Len(p) /\ (Len(st) + 1 > 1 \/ ~loop)
    BY <1>1, <1>2
  <2> QED BY <1>2, <2>1 DEF MakesOf
<1>7. st # << >> => p[1] = st[1]
  <2>1. st # << >> => 1 \in 1..Len(st)
    BY <1>1
  <2> QED BY <1>2, <2>1
<1>8. p # << >>
  BY <1>2
<1>9. MakesOf(p, loop) = MakesOf(st, loop) \cup {x}
  BY <1>4, <1>5, <1>6
<1> QED BY <1>7, <1>8, <1>9 DEF p

LEMMA MakesIs ==
  /\ Makes = MakesOf(stack, inLoop) /\ (stack = << >> => Makes = {})
  /\ Makes' = MakesOf(stack', inLoop') /\ (stack' = << >> => Makes' = {})
BY EmptySeq DEF Makes, MakesOf

-----------------------------------------------------------------------------
(* deleteRequest() marks its base, and only bases it may mark.              *)

LEMMA RequestDeletionIs ==
  ASSUME TypeOK, NEW T
  PROVE  /\ RequestDeletion(T) \in [Bases -> BOOLEAN]
         /\ \A b \in Bases : mDeleteRequested[b] => RequestDeletion(T)[b]
         /\ \A b \in Bases : RequestDeletion(T)[b] => mDeleteRequested[b] \/ Unrequested(b)
         /\ \A b \in T : Unrequested(b) => RequestDeletion(T)[b]
<1>1. \A x, b : b \in DeleteClosure(x) => Unrequested(b)
  BY DEF DeleteClosure
<1>2. \A x : Unrequested(x) => x \in DeleteClosure(x) /\ x \in Bases
  BY DEF DeleteClosure, Unrequested, TypeOK
<1>3. \A b \in Bases : RequestDeletion(T)[b]
                         = (mDeleteRequested[b] \/ \E x \in T : b \in DeleteClosure(x))
  BY DEF RequestDeletion
<1>4. RequestDeletion(T) \in [Bases -> BOOLEAN]
  BY DEF RequestDeletion, TypeOK
<1> QED BY <1>1, <1>2, <1>3, <1>4

-----------------------------------------------------------------------------
(* Initially.                                                               *)

LEMMA InitIInv == Init => IInv
<1> SUFFICES ASSUME Init PROVE IInv
  OBVIOUS
<1> USE DEF Init
<1>1. TypeOK
  <2>1. mProfName \in [Bases -> Profiles]
    BY ProfileAssumption
  <2>2. m_rootUniqueID \in BASE_ID_FIRST..BASE_ID_MAX
    BY IdAssumption DEF BASE_ID_FIRST
  <2>3. << >> \in Seq(Bases)
    OBVIOUS
  <2> QED BY <2>1, <2>2, <2>3 DEF TypeOK, LOOP_PROC_e, LIFECYCLE_e
<1>2. ToSet(<< >>) = {} /\ Injective(<< >>)
  BY DEF ToSet, Injective
<1>3. ListsInjective /\ ScheduleMatchesState /\ OneWayForward
  BY <1>2 DEF ListsInjective, ScheduleMatchesState, OneWayForward
<1>4. WalkIntact /\ ParentOutlivesChildren /\ FreshIds /\ RequestsTaken
  BY DEF WalkIntact, ParentOutlivesChildren, FreshIds, RequestsTaken
<1>5. StackLegal /\ PhaseLegal /\ NoLateChild
  BY <1>2, MakesIs DEF StackLegal, PhaseLegal, NoLateChild
<1> QED BY <1>1, <1>3, <1>4, <1>5 DEF IInv

-----------------------------------------------------------------------------
(* The frame.                                                               *)

\* The first node of the list that a walk is about to start on.
StartOf(proc, first) ==
  first = Null \/ CASE proc = "DELETE"  -> first \in ToSet(m_deleteManage)
                    [] proc = "CREATE"  -> first \in ToSet(m_createManage)
                    [] proc = "EXECUTE" -> first \in ToSet(m_executeManage)
                    [] proc = "DRAW"    -> first \in ToSet(m_drawManage)
                    [] OTHER            -> first \in live

LEMMA BeginWalkStep ==
  ASSUME IInv, stack = << >>, NEW proc \in LOOP_PROC_e, proc # "NONE",
         NEW first, StartOf(proc, first), BeginWalk(proc, first)
  PROVE  IInv'
<1> USE DEF IInv, BeginWalk, baseVars, flagVars, lifeVars, listVars
<1>1. Makes = {} /\ Makes' = {}
  BY MakesIs
<1>2. first \in live \cup {Null}
  BY DEF StartOf, ScheduleMatchesState, LOOP_PROC_e
<1>3. TypeOK'
  BY <1>2 DEF TypeOK
<1>4. ListsInjective' /\ ScheduleMatchesState'
  BY DEF ListsInjective, ScheduleMatchesState
<1>5. OneWayForward'
  BY <1>1 DEF OneWayForward
<1>6. WalkIntact'
  BY DEF WalkIntact, Walked, StartOf, LOOP_PROC_e
<1>7. ParentOutlivesChildren' /\ FreshIds' /\ RequestsTaken'
  BY DEF ParentOutlivesChildren, FreshIds, RequestsTaken
<1>8. StackLegal'
  BY <1>1 DEF StackLegal
<1>9. PhaseLegal' /\ NoLateChild'
  BY DEF PhaseLegal, NoLateChild
<1> QED BY <1>3, <1>4, <1>5, <1>6, <1>7, <1>8, <1>9

LEMMA StartLoopStep == IInv /\ StartLoop => IInv'
<1> SUFFICES ASSUME IInv, StartLoop PROVE IInv'
  OBVIOUS
<1>1. StartOf("DELETE", First(m_deleteManage))
  BY FirstIs DEF StartOf, IInv, TypeOK
<1> QED BY <1>1, BeginWalkStep DEF StartLoop, LOOP_PROC_e

LEMMA NextProcStep == IInv /\ NextProc => IInv'
<1> SUFFICES ASSUME IInv, NextProc PROVE IInv'
  OBVIOUS
<1> USE DEF LOOP_PROC_e
<1>1. stack = << >>
  BY DEF NextProc, WalkDone
<1>2. TypeOK
  BY DEF IInv
<1>3. CASE BeginWalk("CREATE", First(m_createManage))
  <2>1. StartOf("CREATE", First(m_createManage))
    BY <1>2, FirstIs DEF StartOf, TypeOK
  <2> QED BY <1>1, <1>3, <2>1, BeginWalkStep
<1>4. CASE BeginWalk("EXECUTE", First(m_executeManage))
  <2>1. StartOf("EXECUTE", First(m_executeManage))
    BY <1>2, FirstIs DEF StartOf, TypeOK
  <2> QED BY <1>1, <1>4, <2>1, BeginWalkStep
<1>5. CASE BeginWalk("DRAW", First(m_drawManage))
  <2>1. StartOf("DRAW", First(m_drawManage))
    BY <1>2, FirstIs DEF StartOf, TypeOK
  <2> QED BY <1>1, <1>5, <2>1, BeginWalkStep
<1>6. CASE BeginWalk("CONNECT", FirstOf(Roots))
  <2>1. Roots \in SUBSET Bases /\ Roots \in SUBSET live
    BY <1>2 DEF Roots, Children, TypeOK
  <2>2. StartOf("CONNECT", FirstOf(Roots))
    BY <2>1, FirstOfIs DEF StartOf
  <2> QED BY <1>1, <1>6, <2>2, BeginWalkStep
<1> QED BY <1>3, <1>4, <1>5, <1>6 DEF NextProc

LEMMA EndLoopStep == IInv /\ EndLoop => IInv'
<1> SUFFICES ASSUME IInv, EndLoop PROVE IInv'
  OBVIOUS
<1> USE DEF IInv, EndLoop, WalkDone, baseVars, flagVars, lifeVars, listVars
<1>1. Makes = {} /\ Makes' = {}
  BY MakesIs
<1>2. TypeOK'
  BY DEF TypeOK, LOOP_PROC_e
<1>3. ListsInjective' /\ ScheduleMatchesState'
  BY DEF ListsInjective, ScheduleMatchesState
<1>4. OneWayForward'
  BY <1>1 DEF OneWayForward
<1>5. WalkIntact' /\ ParentOutlivesChildren' /\ FreshIds' /\ RequestsTaken'
  BY DEF WalkIntact, ParentOutlivesChildren, FreshIds, RequestsTaken
<1>6. StackLegal' /\ PhaseLegal' /\ NoLateChild'
  BY <1>1 DEF StackLegal, PhaseLegal, NoLateChild
<1> QED BY <1>2, <1>3, <1>4, <1>5, <1>6

LEMMA WalkPackStep == IInv /\ WalkPack => IInv'
<1> SUFFICES ASSUME IInv, WalkPack PROVE IInv'
  OBVIOUS
<1> USE DEF IInv, WalkPack, baseVars, flagVars, lifeVars, listVars
<1>1. Makes = {} /\ Makes' = {}
  <2>1. \A i \in 1..Len(<< next >>) : ~(i > 1)
    OBVIOUS
  <2>2. MakesOf(<< next >>, TRUE) = {}
    BY <2>1 DEF MakesOf
  <2> QED BY <2>2, MakesIs
<1>2. next \in ToSet(Walked) /\ Walked \in Seq(Bases) /\ Injective(Walked)
      /\ ToSet(Walked) \in SUBSET live
  BY DEF WalkIntact, Walked, TypeOK, ListsInjective, ScheduleMatchesState, PhaseLegal, LOOP_PROC_e
<1>3. next' = Null \/ (next' \in ToSet(Walked) /\ next' # next)
  BY <1>2, NextOfIs
<1>4. next \in live /\ live \subseteq Bases /\ next # Null
  BY <1>2 DEF TypeOK
<1>5. stack' = << >> \/ (stack' = << next >> /\ Ready(next))
  OBVIOUS
<1>6. stack' \in Seq(Bases) /\ Injective(stack') /\ ToSet(stack') \subseteq {next}
  <2>1. stack' \in Seq(Bases) /\ \A i \in 1..Len(stack') : stack'[i] = next /\ i = 1
    BY <1>4, <1>5
  <2>2. ToSet(stack') = {stack'[i] : i \in 1..Len(stack')}
    <3> HIDE DEF IInv, WalkPack, baseVars, flagVars, lifeVars, listVars
    <3> QED BY <2>1, LenProperties DEF ToSet
  <2> QED BY <2>1, <2>2 DEF Injective
<1>7. TypeOK'
  BY <1>2, <1>3, <1>4, <1>6 DEF TypeOK
<1>8. ListsInjective' /\ ScheduleMatchesState'
  BY DEF ListsInjective, ScheduleMatchesState
<1>9. OneWayForward'
  BY <1>1 DEF OneWayForward
<1>10. WalkIntact'
  <2>1. Walked' = Walked
    BY DEF Walked
  <2> QED BY <1>2, <1>3, <1>5, <2>1 DEF WalkIntact
<1>11. ParentOutlivesChildren' /\ FreshIds' /\ RequestsTaken'
  BY DEF ParentOutlivesChildren, FreshIds, RequestsTaken
<1>12. StackLegal' /\ PhaseLegal'
  BY <1>1, <1>4, <1>6 DEF StackLegal, PhaseLegal
<1>13. NoLateChild'
  BY <1>5 DEF NoLateChild, Ready, Children
<1> QED BY <1>7, <1>8, <1>9, <1>10, <1>11, <1>12, <1>13

-----------------------------------------------------------------------------
(* What game code calls.                                                    *)

LEMMA DeleteRequestStep == ASSUME IInv, NEW x \in live, DeleteRequest(x) PROVE IInv'
<1> USE DEF IInv, DeleteRequest, baseVars, flagVars, listVars, loopVars
<1> DEFINE rd == RequestDeletion({x})
<1>1. /\ rd \in [Bases -> BOOLEAN]
      /\ \A b \in Bases : mDeleteRequested[b] => rd[b]
      /\ \A b \in Bases : rd[b] => mDeleteRequested[b] \/ Unrequested(b)
  BY RequestDeletionIs
<1>2. mDeleteRequested' = rd
  OBVIOUS
<1> HIDE DEF rd
<1>3. Makes' = Makes
  BY MakesIs
<1>4. TypeOK'
  BY <1>1, <1>2 DEF TypeOK
<1>5. ListsInjective' /\ ScheduleMatchesState'
  BY DEF ListsInjective, ScheduleMatchesState
<1>6. OneWayForward'
  BY <1>1, <1>2, <1>3 DEF OneWayForward, TypeOK
<1>7. WalkIntact' /\ ParentOutlivesChildren'
  BY DEF WalkIntact, Walked, ParentOutlivesChildren
<1>8. FreshIds' /\ RequestsTaken'
  <2>1. \A b \in Bases : b >= m_rootUniqueID => b \notin live
    BY BasesAre DEF FreshIds, TypeOK, BASE_ID_FIRST
  <2> QED BY <1>1, <1>2, <2>1 DEF FreshIds, RequestsTaken, Unrequested
<1>9. StackLegal' /\ PhaseLegal' /\ NoLateChild'
  BY <1>3 DEF StackLegal, PhaseLegal, NoLateChild, Children
<1> QED BY <1>4, <1>5, <1>6, <1>7, <1>8, <1>9

LEMMA MakeBaseStep ==
  ASSUME IInv, NEW p \in live \cup {Null}, NEW prof \in Profiles, MakeBase(p, prof)
  PROVE  IInv'
<1> DEFINE b == m_rootUniqueID
<1> USE DEF IInv, MakeBase, lifeVars, listVars, loopVars
<1>1. b \in Bases /\ b \in Nat /\ b \notin live /\ b + 1 \in BASE_ID_FIRST..BASE_ID_MAX
  <2>1. b \in BASE_ID_FIRST..BASE_ID_MAX /\ b # BASE_ID_MAX /\ b + 1 # BASE_ID_MAX
    BY DEF TypeOK, Stalled
  <2>2. b \in Bases /\ b \in Nat /\ b + 1 \in BASE_ID_FIRST..BASE_ID_MAX
    BY <2>1, IdAssumption DEF Bases, BASE_ID_FIRST
  <2>3. b \notin live
    BY <2>2 DEF FreshIds
  <2> QED BY <2>2, <2>3
<1>2. /\ live' = live \cup {b} /\ m_rootUniqueID' = b + 1
      /\ parent' = [parent EXCEPT ![b] = p] /\ stack' = Append(stack, b)
      /\ mProfName' = [mProfName EXCEPT ![b] = prof]
  OBVIOUS
<1>3. stack # << >> \/ ~inLoop
  BY DEF MayCreate
<1>4. mLifecycleState[b] = "CREATING" /\ ~mDeleteRequested[b] /\ ~mDeferExecute[b]
      /\ ~mDeferRetryCreate[b]
  BY <1>1 DEF FreshIds
<1> HIDE DEF b
<1>5. /\ stack' \in Seq(Bases) /\ Injective(stack') /\ stack' # << >>
      /\ ToSet(stack') = ToSet(stack) \cup {b}
      /\ Makes' = Makes \cup {b}
      /\ stack # << >> => stack'[1] = stack[1]
  <2>1. stack \in Seq(Bases) /\ inLoop \in BOOLEAN /\ Injective(stack)
    BY DEF TypeOK, StackLegal
  <2>2. b \notin ToSet(stack)
    BY <1>1 DEF StackLegal
  <2>3. inLoop' = inLoop
    OBVIOUS
  <2> HIDE DEF IInv, MakeBase, lifeVars, listVars, loopVars
  <2>4. stack' \in Seq(Bases) /\ Injective(stack') /\ ToSet(stack') = ToSet(stack) \cup {b}
    BY <1>1, <1>2, <2>1, <2>2, AppendIs
  <2>5. /\ MakesOf(stack', inLoop) = MakesOf(stack, inLoop) \cup {b}
        /\ stack' # << >>
        /\ stack # << >> => stack'[1] = stack[1]
    BY <1>1, <1>2, <1>3, <2>1, PushIs
  <2> QED BY <2>3, <2>4, <2>5, MakesIs
<1>6. TypeOK'
  <2>1. disable' \in [Bases -> BOOLEAN] /\ rootDisable' \in [Bases -> BOOLEAN]
    BY <1>1 DEF TypeOK, b
  <2>2. /\ m_rootUniqueID' \in BASE_ID_FIRST..BASE_ID_MAX /\ live' \subseteq Bases
        /\ parent' \in [Bases -> Bases \cup {Null}] /\ mProfName' \in [Bases -> Profiles]
    BY <1>1, <1>2 DEF TypeOK
  <2> QED BY <1>5, <2>1, <2>2 DEF TypeOK
<1>7. ListsInjective'
  BY DEF ListsInjective
<1>8. ScheduleMatchesState'
  BY <1>2, <1>4 DEF ScheduleMatchesState
<1>9. OneWayForward'
  <2>1. b \notin ToSet(m_createManage)
    BY <1>1 DEF ScheduleMatchesState
  <2> QED BY <1>2, <1>4, <1>5, <2>1 DEF OneWayForward
<1>10. WalkIntact'
  BY <1>2, <1>3, <1>5 DEF WalkIntact, Walked
<1>11. ParentOutlivesChildren'
  <2>1. parent' [b] = p /\ \A x \in live : x # b /\ parent'[x] = parent[x]
    BY <1>1, <1>2 DEF TypeOK
  <2>2. p # Null => p \in live /\ p < b
    BY DEF FreshIds, b
  <2> QED BY <1>2, <2>1, <2>2 DEF ParentOutlivesChildren
<1>12. FreshIds' /\ RequestsTaken'
  <2>1. \A x \in live' : x < m_rootUniqueID'
    BY <1>1, <1>2, BasesAre DEF FreshIds, TypeOK, b
  <2>2. ASSUME NEW x \in Bases, x >= b + 1 PROVE x >= b
    <3>1. x \in Nat /\ b \in Nat
      BY <1>1, BasesAre
    <3> QED BY <2>2, <3>1
  <2> QED BY <1>1, <1>2, <2>1, <2>2 DEF FreshIds, RequestsTaken, b
<1>13. StackLegal' /\ PhaseLegal'
  BY <1>2, <1>3, <1>4, <1>5 DEF StackLegal, PhaseLegal
<1>14. NoLateChild'
  <2> SUFFICES ASSUME inLoop, m_nowLoopProc = "DELETE" PROVE Children(stack[1])' = {}
    BY <1>3, <1>5 DEF NoLateChild, Children
  <2>1. p # stack[1] /\ stack # << >>
    BY <1>3 DEF MayCreate
  <2>2. parent' [b] = p /\ \A x \in live : x # b /\ parent'[x] = parent[x]
    BY <1>1, <1>2 DEF TypeOK
  <2>3. Children(stack[1]) = {} /\ stack'[1] = stack[1]
    BY <1>5, <2>1 DEF NoLateChild
  <2> QED BY <1>2, <2>1, <2>2, <2>3 DEF Children
<1> QED BY <1>6, <1>7, <1>8, <1>9, <1>10, <1>11, <1>12, <1>13, <1>14

LEMMA StallMakeStep == IInv /\ StallMake => IInv'
<1> SUFFICES ASSUME IInv, StallMake PROVE IInv'
  OBVIOUS
<1> USE DEF IInv, StallMake, flagVars, lifeVars, listVars, loopVars
<1>1. Makes' = Makes
  BY MakesIs
<1>2. m_rootUniqueID < BASE_ID_MAX /\ m_rootUniqueID \in Nat
  BY IdAssumption DEF TypeOK, BASE_ID_FIRST, Stalled
<1>3. TypeOK'
  BY IdAssumption DEF TypeOK, BASE_ID_FIRST
<1>4. ListsInjective' /\ ScheduleMatchesState'
  BY DEF ListsInjective, ScheduleMatchesState
<1>5. OneWayForward'
  BY <1>1 DEF OneWayForward
<1>6. WalkIntact' /\ ParentOutlivesChildren' /\ RequestsTaken'
  BY DEF WalkIntact, Walked, ParentOutlivesChildren, RequestsTaken
<1>7. FreshIds'
  <2>1. live \subseteq Nat /\ Bases \subseteq Nat /\ BASE_ID_MAX \in Nat
    BY BasesAre, IdAssumption DEF TypeOK
  <2> QED BY <1>2, <2>1 DEF FreshIds
<1>8. StackLegal' /\ PhaseLegal' /\ NoLateChild'
  BY <1>1 DEF StackLegal, PhaseLegal, NoLateChild, Children
<1> QED BY <1>3, <1>4, <1>5, <1>6, <1>7, <1>8

-----------------------------------------------------------------------------
(* The operation in progress returns.                                       *)

\* What the return of the innermost operation leaves in progress.
LEMMA Popped ==
  ASSUME IInv, stack # << >>, stack' = Pop, inLoop' = inLoop
  PROVE  /\ Top \in live /\ Top \in Bases
         /\ stack' \in Seq(Bases) /\ Injective(stack') /\ ToSet(stack') \subseteq live
         /\ Makes' = Makes \ {Top}
         /\ stack' # << >> => stack'[1] = stack[1] /\ stack[1] # Top
         /\ IsMake => Top \in Makes
         /\ ~IsMake => stack' = << >> /\ Makes = {} /\ stack[1] = Top /\ inLoop
<1>1. stack \in Seq(Bases) /\ inLoop \in BOOLEAN /\ Injective(stack) /\ ToSet(stack) \subseteq live
      /\ live \subseteq Bases
  BY DEF IInv, TypeOK, StackLegal
<1> DEFINE p == Pop
<1>2. /\ p \in Seq(Bases) /\ Injective(p)
      /\ ToSet(p) \subseteq ToSet(stack) /\ Top \in ToSet(stack)
      /\ p # << >> => p[1] = stack[1] /\ p[1] # Top
      /\ MakesOf(p, inLoop) = MakesOf(stack, inLoop) \ {Top}
      /\ IsMake => Top \in MakesOf(stack, inLoop)
      /\ ~IsMake => p = << >> /\ Len(stack) = 1 /\ MakesOf(stack, inLoop) = {}
  <2> DEFINE t == stack[Len(stack)]
  <2>1. /\ p \in Seq(Bases) /\ Injective(p)
        /\ ToSet(p) \subseteq ToSet(stack) /\ t \in ToSet(stack)
        /\ p # << >> => p[1] = stack[1] /\ p[1] # t
        /\ MakesOf(p, inLoop) = MakesOf(stack, inLoop) \ {t}
        /\ Len(stack) > 1 \/ ~inLoop => t \in MakesOf(stack, inLoop)
        /\ ~(Len(stack) > 1 \/ ~inLoop) =>
             p = << >> /\ Len(stack) = 1 /\ MakesOf(stack, inLoop) = {}
    BY <1>1, PopIs DEF Pop
  <2> QED BY <2>1 DEF Top, IsMake
<1> HIDE DEF p
<1>3. stack' = p
  BY DEF p
<1>4. ~IsMake => stack[1] = Top /\ inLoop
  BY <1>2 DEF Top, IsMake
<1> QED BY <1>1, <1>2, <1>3, <1>4, MakesIs

\* A walk survives a step that at most takes node b, which is neither the node
\* read ahead nor the walk's current base, out of a list.
LEMMA WalkKept ==
  ASSUME WalkIntact, NEW b, m_nowLoopProc' = m_nowLoopProc, inLoop' = inLoop, next' = next,
         live \subseteq live',
         ToSet(m_deleteManage) \ {b} \subseteq ToSet(m_deleteManage'),
         ToSet(m_createManage) \ {b} \subseteq ToSet(m_createManage'),
         ToSet(m_executeManage) \ {b} \subseteq ToSet(m_executeManage'),
         ToSet(m_drawManage) \ {b} \subseteq ToSet(m_drawManage'),
         next # Null /\ m_nowLoopProc # "CONNECT" => next # b,
         inLoop /\ stack' # << >> => stack # << >> /\ stack'[1] = stack[1] /\ stack[1] # b
  PROVE  WalkIntact'
<1>1. ToSet(Walked) \ {b} \subseteq ToSet(Walked')
  BY DEF Walked
<1>2. next' # Null => IF m_nowLoopProc' = "CONNECT" THEN next' \in live' ELSE next' \in ToSet(Walked')
  BY <1>1 DEF WalkIntact
<1>3. inLoop' /\ stack' # << >> => stack'[1] \in ToSet(Walked') /\ stack'[1] # next'
  BY <1>1 DEF WalkIntact
<1> QED BY <1>2, <1>3 DEF WalkIntact

LEMMA EnableSceneStep == IInv /\ EnableScene => IInv'
<1> SUFFICES ASSUME IInv, EnableScene PROVE IInv'
  OBVIOUS
<1> USE DEF IInv, EnableScene, baseVars, lifeVars, listVars, loopVars
<1>1. /\ Top \in live /\ Top \in Bases
      /\ ~IsMake /\ stack' = << >> /\ Makes' = {} /\ Makes = {} /\ inLoop
      /\ stack' \in Seq(Bases) /\ Injective(stack') /\ ToSet(stack') \subseteq live
  BY Popped DEF Running
<1>2. TypeOK'
  BY <1>1 DEF TypeOK
<1>3. ListsInjective' /\ ScheduleMatchesState'
  BY DEF ListsInjective, ScheduleMatchesState
<1>4. OneWayForward'
  BY <1>1 DEF OneWayForward
<1>5. WalkIntact' /\ ParentOutlivesChildren' /\ FreshIds' /\ RequestsTaken'
  BY <1>1 DEF WalkIntact, Walked, ParentOutlivesChildren, FreshIds, RequestsTaken
<1>6. StackLegal' /\ PhaseLegal' /\ NoLateChild'
  BY <1>1 DEF StackLegal, PhaseLegal, NoLateChild
<1> QED BY <1>2, <1>3, <1>4, <1>5, <1>6

LEMMA PackEndsStep == IInv /\ PackEnds => IInv'
<1> SUFFICES ASSUME IInv, PackEnds PROVE IInv'
  OBVIOUS
<1> USE DEF IInv, PackEnds, baseVars, flagVars, lifeVars, listVars, loopVars
<1>1. /\ Top \in live /\ Top \in Bases
      /\ ~IsMake /\ stack' = << >> /\ Makes' = {} /\ Makes = {} /\ inLoop
      /\ stack' \in Seq(Bases) /\ Injective(stack') /\ ToSet(stack') \subseteq live
  BY Popped DEF Running
<1>2. TypeOK'
  BY <1>1 DEF TypeOK
<1>3. ListsInjective' /\ ScheduleMatchesState'
  BY DEF ListsInjective, ScheduleMatchesState
<1>4. OneWayForward'
  BY <1>1 DEF OneWayForward
<1>5. WalkIntact' /\ ParentOutlivesChildren' /\ FreshIds' /\ RequestsTaken'
  BY <1>1 DEF WalkIntact, Walked, ParentOutlivesChildren, FreshIds, RequestsTaken
<1>6. StackLegal' /\ PhaseLegal' /\ NoLateChild'
  BY <1>1 DEF StackLegal, PhaseLegal, NoLateChild
<1> QED BY <1>2, <1>3, <1>4, <1>5, <1>6

LEMMA DeleteSucceededStep == IInv /\ DeleteSucceeded => IInv'
<1> SUFFICES ASSUME IInv, DeleteSucceeded PROVE IInv'
  OBVIOUS
<1> DEFINE b == Top
           u == Unlink(m_deleteManage, b)
<1> USE DEF IInv, DeleteSucceeded, flagVars, lifeVars, loopVars
<1>1. /\ b \in live /\ b \in Bases /\ m_nowLoopProc = "DELETE"
      /\ stack' = << >> /\ Makes' = {} /\ Makes = {} /\ inLoop /\ stack[1] = b
      /\ stack' \in Seq(Bases) /\ Injective(stack') /\ ToSet(stack') = {}
  BY Popped DEF Running, ToSet
<1>2. b \in ToSet(m_deleteManage) /\ b # next /\ Children(b) = {}
  BY <1>1 DEF WalkIntact, Walked, NoLateChild, Running
<1>3. u \in Seq(Bases) /\ Injective(u) /\ ToSet(u) = ToSet(m_deleteManage) \ {b}
  BY UnlinkIs DEF TypeOK, ListsInjective
<1>4. live' = live \ {b} /\ m_deleteManage' = u /\ mLifecycleState[b] = "DELETING"
  BY <1>2 DEF ScheduleMatchesState
<1> HIDE DEF b, u
<1>5. TypeOK'
  BY <1>1, <1>3, <1>4 DEF TypeOK
<1>6. ListsInjective' /\ ScheduleMatchesState'
  BY <1>3, <1>4 DEF ListsInjective, ScheduleMatchesState
<1>7. OneWayForward'
  BY <1>1, <1>4 DEF OneWayForward
<1>8. WalkIntact'
  BY <1>1, <1>2, <1>3, <1>4 DEF WalkIntact, Walked
<1>9. ParentOutlivesChildren'
  BY <1>2, <1>4 DEF ParentOutlivesChildren, Children
<1>10. FreshIds' /\ RequestsTaken'
  BY <1>4 DEF FreshIds, RequestsTaken
<1>11. StackLegal' /\ PhaseLegal' /\ NoLateChild'
  BY <1>1 DEF StackLegal, PhaseLegal, NoLateChild
<1> QED BY <1>5, <1>6, <1>7, <1>8, <1>9, <1>10, <1>11

\* The base whose create operation is in progress is in no list but the create
\* list, and walkPack did not read it ahead.
LEMMA CreatingTop ==
  ASSUME IInv, Running("CREATE")
  PROVE  /\ Top \in live /\ mLifecycleState[Top] = "CREATING"
         /\ Top \notin ToSet(m_executeManage) /\ Top \notin ToSet(m_drawManage)
         /\ IsMake => /\ Top \in Makes /\ Top \notin ToSet(m_createManage)
                      /\ ~mDeferRetryCreate[Top] /\ ~mDeferExecute[Top]
         /\ ~IsMake => Top \in ToSet(m_createManage) /\ m_nowLoopProc = "CREATE"
         /\ next # Null /\ m_nowLoopProc # "CONNECT" => next # Top
<1> USE DEF IInv
<1>1. stack \in Seq(Bases) /\ inLoop \in BOOLEAN /\ Injective(stack) /\ stack # << >>
      /\ ToSet(stack) \subseteq live
  BY DEF TypeOK, StackLegal, Running
<1>2. /\ Top \in ToSet(stack)
      /\ IsMake => Top \in Makes
      /\ ~IsMake => stack[1] = Top /\ inLoop
  <2> HIDE DEF IInv
  <2> DEFINE t == stack[Len(stack)]
  <2>1. /\ t \in ToSet(stack)
        /\ Len(stack) > 1 \/ ~inLoop => t \in MakesOf(stack, inLoop)
        /\ ~(Len(stack) > 1 \/ ~inLoop) => Len(stack) = 1
    BY <1>1, PopIs
  <2> QED BY <2>1, MakesIs DEF Top, IsMake
<1>3. Top \in live
  BY <1>1, <1>2
<1>4. ASSUME IsMake
      PROVE  /\ mLifecycleState[Top] = "CREATING" /\ Top \notin ToSet(m_createManage)
             /\ ~mDeferRetryCreate[Top] /\ ~mDeferExecute[Top]
  <2>1. mLifecycleState[Top] = "CREATING"
    BY <1>2, <1>4 DEF StackLegal
  <2> QED BY <1>2, <1>3, <1>4, <2>1 DEF OneWayForward
<1>5. ASSUME ~IsMake
      PROVE  /\ m_nowLoopProc = "CREATE" /\ Top \in ToSet(m_createManage) /\ Top # next
             /\ mLifecycleState[Top] = "CREATING"
  <2>1. m_nowLoopProc = "CREATE" /\ stack[1] \in ToSet(Walked) /\ stack[1] # next
    BY <1>1, <1>2, <1>5 DEF WalkIntact, Running
  <2>2. Top \in ToSet(m_createManage) /\ Top # next
    BY <1>2, <1>5, <2>1 DEF Walked
  <2> QED BY <2>1, <2>2 DEF ScheduleMatchesState
<1>6. mLifecycleState[Top] = "CREATING"
  BY <1>4, <1>5
<1>7. Top \notin ToSet(m_executeManage) /\ Top \notin ToSet(m_drawManage)
      /\ Top \notin ToSet(m_deleteManage)
  BY <1>6 DEF ScheduleMatchesState
<1>8. ASSUME next # Null, m_nowLoopProc # "CONNECT" PROVE next # Top
  <2>1. next \in ToSet(Walked)
    BY <1>8 DEF WalkIntact
  <2>2. m_nowLoopProc \in LOOP_PROC_e /\ m_nowLoopProc # "NONE"
    BY <1>8 DEF TypeOK, PhaseLegal
  <2>3. CASE m_nowLoopProc = "CREATE"
    BY <1>4, <1>5, <2>1, <2>3 DEF Walked
  <2>4. CASE m_nowLoopProc # "CREATE"
    BY <1>7, <1>8, <2>1, <2>2, <2>4 DEF Walked, LOOP_PROC_e
  <2> QED BY <2>3, <2>4
<1> QED BY <1>2, <1>3, <1>4, <1>5, <1>6, <1>7, <1>8

\* A CREATING base that becomes active joins the execute and the draw list.
LEMMA Activated ==
  ASSUME IInv, NEW b \in live, mLifecycleState[b] = "CREATING", Activate(b)
  PROVE  /\ m_executeManage' \in Seq(Bases) /\ Injective(m_executeManage')
         /\ ToSet(m_executeManage') = ToSet(m_executeManage) \cup {b}
         /\ m_drawManage' \in Seq(Bases) /\ Injective(m_drawManage')
         /\ ToSet(m_drawManage') = ToSet(m_drawManage) \cup {b}
         /\ mLifecycleState' = [mLifecycleState EXCEPT ![b] = "ACTIVE"]
<1>1. /\ m_executeManage \in Seq(Bases) /\ Injective(m_executeManage)
      /\ m_drawManage \in Seq(Bases) /\ Injective(m_drawManage)
      /\ mProfName \in [Bases -> Profiles] /\ b \in Bases
  BY DEF IInv, TypeOK, ListsInjective
<1>2. b \notin ToSet(m_executeManage) /\ b \notin ToSet(m_drawManage)
  BY DEF IInv, ScheduleMatchesState
<1>3. ExecuteOrder \in [Bases -> Nat] /\ DrawOrder \in [Bases -> Nat]
  BY <1>1, OrdersAre
<1>4. ASSUME NEW s \in Seq(Bases), Injective(s), b \notin ToSet(s),
             NEW order \in [Bases -> Nat]
      PROVE  /\ AddNode(s, b, order) \in Seq(Bases) /\ Injective(AddNode(s, b, order))
             /\ ToSet(AddNode(s, b, order)) = ToSet(s) \cup {b}
  <2>1. b \in Bases
    BY <1>1
  <2> QED BY <1>4, <2>1, AddNodeIs
<1> QED BY <1>1, <1>2, <1>3, <1>4 DEF Activate

LEMMA CreateSucceededStep == IInv /\ CreateSucceeded => IInv'
<1> SUFFICES ASSUME IInv, CreateSucceeded PROVE IInv'
  OBVIOUS
<1> DEFINE b == Top
           u == Unlink(m_createManage, b)
<1> USE DEF IInv
<1>1. stack # << >> /\ stack' = Pop /\ inLoop' = inLoop /\ Running("CREATE")
  BY DEF CreateSucceeded, Running, loopVars
<1>2. /\ b \in live /\ b \in Bases
      /\ stack' \in Seq(Bases) /\ Injective(stack') /\ ToSet(stack') \subseteq live
      /\ Makes' = Makes \ {b}
      /\ stack' # << >> => stack'[1] = stack[1] /\ stack[1] # b
      /\ IsMake => b \in Makes
      /\ ~IsMake => stack' = << >> /\ Makes = {}
  BY <1>1, Popped
<1>3. /\ mLifecycleState[b] = "CREATING"
      /\ IsMake => /\ b \notin ToSet(m_createManage)
                   /\ ~mDeferRetryCreate[b] /\ ~mDeferExecute[b]
      /\ ~IsMake => b \in ToSet(m_createManage) /\ m_nowLoopProc = "CREATE"
      /\ next # Null /\ m_nowLoopProc # "CONNECT" => next # b
  BY <1>1, CreatingTop
<1>4. u \in Seq(Bases) /\ Injective(u) /\ ToSet(u) = ToSet(m_createManage) \ {b}
  BY UnlinkIs DEF TypeOK, ListsInjective
<1>5. /\ m_createManage' = u /\ m_deleteManage' = m_deleteManage
      /\ live' = live /\ parent' = parent /\ mProfName' = mProfName
      /\ m_rootUniqueID' = m_rootUniqueID /\ rootDisable' = rootDisable /\ disable' = disable
      /\ mDeleteRequested' = mDeleteRequested /\ mDeferRetryCreate' = mDeferRetryCreate
      /\ m_nowLoopProc' = m_nowLoopProc /\ inLoop' = inLoop /\ next' = next
  BY DEF CreateSucceeded, baseVars, flagVars, loopVars
<1>6. \/ /\ m_nowLoopProc = "EXECUTE"
         /\ mDeferExecute' = [mDeferExecute EXCEPT ![b] = TRUE]
         /\ UNCHANGED << m_executeManage, m_drawManage, mLifecycleState >>
      \/ /\ m_nowLoopProc # "EXECUTE"
         /\ Activate(b) /\ mDeferExecute' = mDeferExecute
  BY DEF CreateSucceeded
<1> HIDE DEF b, u
<1>7. CASE m_nowLoopProc = "EXECUTE"
  <2>1. /\ mDeferExecute' = [mDeferExecute EXCEPT ![b] = TRUE]
        /\ UNCHANGED << m_executeManage, m_drawManage, mLifecycleState >>
        /\ b \in Makes /\ IsMake
    BY <1>2, <1>3, <1>6, <1>7
  <2>2. TypeOK'
    BY <1>2, <1>4, <1>5, <2>1 DEF TypeOK
  <2>3. ListsInjective' /\ ScheduleMatchesState'
    BY <1>4, <1>5, <2>1 DEF ListsInjective, ScheduleMatchesState
  <2>4. OneWayForward'
    BY <1>2, <1>3, <1>4, <1>5, <2>1 DEF OneWayForward, TypeOK
  <2>5. WalkIntact'
    BY <1>1, <1>2, <1>3, <1>4, <1>5, <2>1, WalkKept
  <2>6. ParentOutlivesChildren' /\ FreshIds' /\ RequestsTaken'
    BY <1>2, <1>5, <2>1, BasesAre DEF ParentOutlivesChildren, FreshIds, RequestsTaken, TypeOK, BASE_ID_FIRST
  <2>7. StackLegal' /\ PhaseLegal' /\ NoLateChild'
    BY <1>2, <1>5, <1>7, <2>1 DEF StackLegal, PhaseLegal, NoLateChild
  <2> QED BY <2>2, <2>3, <2>4, <2>5, <2>6, <2>7
<1>8. CASE m_nowLoopProc # "EXECUTE"
  <2>1. /\ m_executeManage' \in Seq(Bases) /\ Injective(m_executeManage')
        /\ ToSet(m_executeManage') = ToSet(m_executeManage) \cup {b}
        /\ m_drawManage' \in Seq(Bases) /\ Injective(m_drawManage')
        /\ ToSet(m_drawManage') = ToSet(m_drawManage) \cup {b}
        /\ mLifecycleState' = [mLifecycleState EXCEPT ![b] = "ACTIVE"]
        /\ mDeferExecute' = mDeferExecute
    BY <1>2, <1>3, <1>6, <1>8, Activated
  <2>2. TypeOK'
    BY <1>2, <1>4, <1>5, <2>1 DEF TypeOK, LIFECYCLE_e
  <2>3. ListsInjective'
    BY <1>4, <1>5, <2>1 DEF ListsInjective
  <2>4. ScheduleMatchesState'
    BY <1>2, <1>3, <1>4, <1>5, <2>1 DEF ScheduleMatchesState, TypeOK
  <2>5. OneWayForward'
    BY <1>2, <1>3, <1>4, <1>5, <2>1 DEF OneWayForward, TypeOK
  <2>6. WalkIntact'
    BY <1>1, <1>2, <1>3, <1>4, <1>5, <2>1, WalkKept
  <2>7. ParentOutlivesChildren' /\ RequestsTaken'
    BY <1>5, <2>1 DEF ParentOutlivesChildren, RequestsTaken, TypeOK
  <2>8. FreshIds'
    BY <1>2, <1>5, <2>1, BasesAre DEF FreshIds, TypeOK, BASE_ID_FIRST
  <2>9. StackLegal' /\ PhaseLegal'
    BY <1>1, <1>2, <1>5, <2>1 DEF StackLegal, PhaseLegal, TypeOK
  <2>10. NoLateChild'
    BY <1>1, <1>2, <1>5 DEF NoLateChild, Children
  <2> QED BY <2>2, <2>3, <2>4, <2>5, <2>6, <2>7, <2>8, <2>9, <2>10
<1> QED BY <1>7, <1>8

LEMMA CreateWaitingStep == IInv /\ CreateWaiting => IInv'
<1> SUFFICES ASSUME IInv, CreateWaiting PROVE IInv'
  OBVIOUS
<1> DEFINE b == Top
           reschedule == IsMake /\ ~mDeleteRequested[b] /\ ~mDeferExecute[b]
                         /\ mLifecycleState[b] = "CREATING"
           u == IF reschedule /\ m_nowLoopProc # "CREATE"
                THEN Append(m_createManage, b) ELSE m_createManage
           r == reschedule /\ m_nowLoopProc = "CREATE"
<1> USE DEF IInv
<1>1. stack # << >> /\ stack' = Pop /\ inLoop' = inLoop /\ Running("CREATE")
  BY DEF CreateWaiting, Running, loopVars
<1>2. /\ b \in live /\ b \in Bases
      /\ stack' \in Seq(Bases) /\ Injective(stack') /\ ToSet(stack') \subseteq live
      /\ Makes' = Makes \ {b}
      /\ stack' # << >> => stack'[1] = stack[1] /\ stack[1] # b
      /\ IsMake => b \in Makes
      /\ ~IsMake => stack' = << >> /\ Makes = {}
  BY <1>1, Popped
<1>3. /\ mLifecycleState[b] = "CREATING"
      /\ IsMake => /\ b \notin ToSet(m_createManage)
                   /\ ~mDeferRetryCreate[b] /\ ~mDeferExecute[b]
      /\ ~IsMake => b \in ToSet(m_createManage) /\ m_nowLoopProc = "CREATE"
      /\ next # Null /\ m_nowLoopProc # "CONNECT" => next # b
  BY <1>1, CreatingTop
<1>4. /\ m_createManage' = u
      /\ mDeferRetryCreate' = [mDeferRetryCreate EXCEPT ![b] = mDeferRetryCreate[b] \/ r]
      /\ UNCHANGED << baseVars, flagVars, mLifecycleState, mDeleteRequested, mDeferExecute,
                      m_executeManage, m_drawManage, m_deleteManage, loopVars >>
  BY DEF CreateWaiting
<1>5. r \in BOOLEAN /\ (r => IsMake) /\ (reschedule => IsMake)
      /\ (IsMake => mDeleteRequested[b] \/ reschedule)
  BY <1>3
<1>6. u \in Seq(Bases) /\ Injective(u)
      /\ ToSet(u) = ToSet(m_createManage)
                      \cup (IF reschedule /\ m_nowLoopProc # "CREATE" THEN {b} ELSE {})
  BY <1>2, <1>3, AppendIs DEF TypeOK, ListsInjective
<1>7. m_nowLoopProc = "CREATE" => (r <=> reschedule)
  OBVIOUS
<1>8. m_nowLoopProc # "CREATE" => ~r
  OBVIOUS
<1> HIDE DEF b, u, r, reschedule
<1> USE DEF baseVars, flagVars, loopVars
<1>9. TypeOK'
  BY <1>2, <1>4, <1>5, <1>6 DEF TypeOK
<1>10. ListsInjective' /\ ScheduleMatchesState'
  BY <1>2, <1>3, <1>4, <1>6 DEF ListsInjective, ScheduleMatchesState
<1>11. OneWayForward'
  <2>1. mDeferRetryCreate'[b] = (mDeferRetryCreate[b] \/ r)
        /\ \A x \in Bases : x # b => mDeferRetryCreate'[x] = mDeferRetryCreate[x]
    BY <1>2, <1>4 DEF TypeOK
  <2>2. ASSUME NEW x \in live, mLifecycleState[x] = "CREATING", x # b
        PROVE  /\ (x \in ToSet(m_createManage)') = (x \in ToSet(m_createManage))
               /\ (x \in Makes') = (x \in Makes)
               /\ mDeferRetryCreate'[x] = mDeferRetryCreate[x]
    BY <1>2, <1>4, <1>6, <2>1, <2>2 DEF TypeOK
  <2>3. CASE IsMake
    BY <1>2, <1>3, <1>4, <1>5, <1>6, <1>7, <1>8, <2>1, <2>2, <2>3 DEF OneWayForward
  <2>4. CASE ~IsMake
    BY <1>2, <1>3, <1>4, <1>5, <1>6, <2>1, <2>2, <2>4 DEF OneWayForward
  <2> QED BY <2>3, <2>4
<1>12. WalkIntact'
  BY <1>1, <1>2, <1>3, <1>4, <1>6, WalkKept
<1>13. ParentOutlivesChildren' /\ RequestsTaken'
  BY <1>4 DEF ParentOutlivesChildren, RequestsTaken
<1>14. FreshIds'
  BY <1>2, <1>4, BasesAre DEF FreshIds, TypeOK, BASE_ID_FIRST
<1>15. StackLegal' /\ PhaseLegal' /\ NoLateChild'
  BY <1>1, <1>2, <1>4 DEF StackLegal, PhaseLegal, NoLateChild, Children
<1> QED BY <1>9, <1>10, <1>11, <1>12, <1>13, <1>14, <1>15

LEMMA CreateFailedStep == IInv /\ CreateFailed => IInv'
<1> SUFFICES ASSUME IInv, CreateFailed PROVE IInv'
  OBVIOUS
<1> DEFINE b == Top
           rd == RequestDeletion({b})
<1> USE DEF IInv
<1>1. stack # << >> /\ stack' = Pop /\ inLoop' = inLoop /\ Running("CREATE")
  BY DEF CreateFailed, Running, loopVars
<1>2. /\ b \in live /\ b \in Bases
      /\ stack' \in Seq(Bases) /\ Injective(stack') /\ ToSet(stack') \subseteq live
      /\ Makes' = Makes \ {b}
      /\ stack' # << >> => stack'[1] = stack[1] /\ stack[1] # b
  BY <1>1, Popped
<1>3. /\ mLifecycleState[b] = "CREATING"
      /\ next # Null /\ m_nowLoopProc # "CONNECT" => next # b
  BY <1>1, CreatingTop
<1>4. /\ rd \in [Bases -> BOOLEAN] /\ rd[b]
      /\ \A x \in Bases : mDeleteRequested[x] => rd[x]
      /\ \A x \in Bases : rd[x] => mDeleteRequested[x] \/ Unrequested(x)
  <2>1. mDeleteRequested[b] \/ Unrequested(b)
    BY <1>2, <1>3 DEF Unrequested
  <2> QED BY <1>2, <2>1, RequestDeletionIs
<1>5. mDeleteRequested' = rd
  BY DEF CreateFailed
<1> HIDE DEF b, rd
<1>6. UNCHANGED << baseVars, flagVars, mLifecycleState, mDeferExecute, mDeferRetryCreate,
                   listVars, loopVars >>
  BY DEF CreateFailed
<1> USE DEF baseVars, flagVars, listVars, loopVars
<1>7. TypeOK'
  BY <1>2, <1>4, <1>5, <1>6 DEF TypeOK
<1>8. ListsInjective' /\ ScheduleMatchesState'
  BY <1>6 DEF ListsInjective, ScheduleMatchesState
<1>9. OneWayForward'
  BY <1>2, <1>4, <1>5, <1>6 DEF OneWayForward, TypeOK
<1>10. WalkIntact'
  BY <1>1, <1>2, <1>3, <1>6, WalkKept
<1>11. ParentOutlivesChildren'
  BY <1>6 DEF ParentOutlivesChildren
<1>12. FreshIds' /\ RequestsTaken'
  <2>1. \A x \in Bases : x >= m_rootUniqueID => x \notin live
    BY BasesAre DEF FreshIds, TypeOK, BASE_ID_FIRST
  <2> QED BY <1>4, <1>5, <1>6, <2>1 DEF FreshIds, RequestsTaken, Unrequested
<1>13. StackLegal' /\ PhaseLegal' /\ NoLateChild'
  BY <1>1, <1>2, <1>6 DEF StackLegal, PhaseLegal, NoLateChild, Children
<1> QED BY <1>7, <1>8, <1>9, <1>10, <1>11, <1>12, <1>13

-----------------------------------------------------------------------------
(* connectProc.                                                             *)

LEMMA ConnectDeleteStep == IInv /\ ConnectProc /\ ConnectDelete(next) => IInv'
<1> SUFFICES ASSUME IInv, ConnectProc, ConnectDelete(next) PROVE IInv'
  OBVIOUS
<1> DEFINE b == next
           rd == RequestDeletion(Children(b))
           d == Cons(b, m_deleteManage)
           run == mLifecycleState[b] = "ACTIVE"
           ec == IF run THEN Unlink(m_executeManage, b) ELSE m_executeManage
           dr == IF run THEN Unlink(m_drawManage, b) ELSE m_drawManage
           cr == IF run THEN m_createManage ELSE Unlink(m_createManage, b)
<1> USE DEF IInv
<1>1. /\ b \in live /\ b \in Bases /\ stack = << >> /\ inLoop /\ m_nowLoopProc = "CONNECT"
      /\ mDeleteRequested[b] /\ mLifecycleState[b] # "DELETING"
      /\ mLifecycleState[b] \in LIFECYCLE_e
  BY DEF ConnectProc, ConnectDelete, TakeRequest, LeaveLists, ScheduleDelete, WalkIntact, RequestsTaken, TypeOK
<1>2. next' = Null \/ next' \in live
  BY TreeNextIs DEF ConnectProc
<1>3. /\ rd \in [Bases -> BOOLEAN]
      /\ \A x \in Bases : mDeleteRequested[x] => rd[x]
      /\ \A x \in Bases : rd[x] => mDeleteRequested[x] \/ Unrequested(x)
  BY RequestDeletionIs
<1>4. b \notin ToSet(m_deleteManage)
  BY <1>1 DEF ScheduleMatchesState
<1>5. d \in Seq(Bases) /\ Injective(d) /\ ToSet(d) = ToSet(m_deleteManage) \cup {b}
  BY <1>1, <1>4, ConsIs DEF TypeOK, ListsInjective
<1>6. /\ ec \in Seq(Bases) /\ Injective(ec) /\ ToSet(ec) = ToSet(m_executeManage) \ {b}
      /\ dr \in Seq(Bases) /\ Injective(dr) /\ ToSet(dr) = ToSet(m_drawManage) \ {b}
      /\ cr \in Seq(Bases) /\ Injective(cr) /\ ToSet(cr) = ToSet(m_createManage) \ {b}
  <2>1. ASSUME NEW s \in Seq(Bases), Injective(s)
        PROVE  /\ Unlink(s, b) \in Seq(Bases) /\ Injective(Unlink(s, b))
               /\ ToSet(Unlink(s, b)) = ToSet(s) \ {b}
    BY <2>1, UnlinkIs
  <2>2. run => b \notin ToSet(m_createManage)
    BY DEF ScheduleMatchesState
  <2>3. ~run => b \notin ToSet(m_executeManage) /\ b \notin ToSet(m_drawManage)
    BY DEF ScheduleMatchesState
  <2> QED BY <2>1, <2>2, <2>3 DEF TypeOK, ListsInjective
<1>7. /\ mDeleteRequested' = [rd EXCEPT ![b] = FALSE]
      /\ m_executeManage' = ec /\ m_drawManage' = dr /\ m_createManage' = cr
      /\ m_deleteManage' = d
      /\ mLifecycleState' = [mLifecycleState EXCEPT ![b] = "DELETING"]
      /\ UNCHANGED << disable, mDeferExecute, mDeferRetryCreate >>
  BY DEF ConnectDelete, TakeRequest, LeaveLists, ScheduleDelete
<1>8. UNCHANGED << baseVars, rootDisable, m_nowLoopProc, inLoop, stack >>
  BY DEF ConnectProc
<1>9. Makes = {} /\ Makes' = {}
  BY <1>1, <1>8, MakesIs
<1> HIDE DEF b, rd, d, ec, dr, cr
<1> USE DEF baseVars
<1>10. TypeOK'
  BY <1>1, <1>2, <1>3, <1>5, <1>6, <1>7, <1>8 DEF TypeOK, LIFECYCLE_e
<1>11. ListsInjective'
  BY <1>5, <1>6, <1>7 DEF ListsInjective
<1>12. ScheduleMatchesState'
  BY <1>1, <1>5, <1>6, <1>7, <1>8 DEF ScheduleMatchesState, TypeOK
<1>13. OneWayForward'
  BY <1>1, <1>3, <1>6, <1>7, <1>8, <1>9 DEF OneWayForward, TypeOK
<1>14. WalkIntact'
  BY <1>1, <1>2, <1>8 DEF WalkIntact
<1>15. ParentOutlivesChildren'
  BY <1>8 DEF ParentOutlivesChildren
<1>16. FreshIds' /\ RequestsTaken'
  <2>1. \A x \in Bases : x >= m_rootUniqueID => x \notin live
    BY BasesAre DEF FreshIds, TypeOK, BASE_ID_FIRST
  <2>2. \A x \in Bases : x # b => mDeleteRequested'[x] = rd[x] /\ mLifecycleState'[x] = mLifecycleState[x]
    BY <1>3, <1>7 DEF TypeOK
  <2>3. ~mDeleteRequested'[b]
    BY <1>1, <1>3, <1>7
  <2> QED BY <1>1, <1>3, <1>7, <1>8, <2>1, <2>2, <2>3 DEF FreshIds, RequestsTaken, Unrequested
<1>17. StackLegal' /\ PhaseLegal' /\ NoLateChild'
  BY <1>1, <1>8, <1>9 DEF StackLegal, PhaseLegal, NoLateChild
<1> QED BY <1>10, <1>11, <1>12, <1>13, <1>14, <1>15, <1>16, <1>17

LEMMA ConnectUpdateStep == IInv /\ ConnectProc /\ ConnectUpdate(next) => IInv'
<1> SUFFICES ASSUME IInv, ConnectProc, ConnectUpdate(next) PROVE IInv'
  OBVIOUS
<1> DEFINE b == next
           retry == mLifecycleState[b] = "CREATING" /\ mDeferRetryCreate[b]
           run == mLifecycleState[b] = "CREATING" /\ ~mDeferRetryCreate[b] /\ mDeferExecute[b]
           cr == IF retry THEN Append(m_createManage, b) ELSE m_createManage
<1> USE DEF IInv
<1>1. b \in live /\ b \in Bases /\ stack = << >> /\ inLoop /\ m_nowLoopProc = "CONNECT"
  BY DEF ConnectProc, WalkIntact, TypeOK
<1>2. next' = Null \/ next' \in live
  BY TreeNextIs DEF ConnectProc
<1>3. /\ mDeferRetryCreate' = [mDeferRetryCreate EXCEPT ![b] = mDeferRetryCreate[b] /\ ~retry]
      /\ mDeferExecute' = [mDeferExecute EXCEPT ![b] = mDeferExecute[b] /\ ~run]
      /\ m_createManage' = cr /\ disable' \in [Bases -> BOOLEAN]
      /\ UNCHANGED << mDeleteRequested, m_deleteManage >>
  BY <1>1 DEF ConnectUpdate, InheritFlags, ScheduleDeferred, TypeOK
<1>4. retry \in BOOLEAN /\ run \in BOOLEAN
  OBVIOUS
<1>5. /\ retry => b \notin ToSet(m_createManage) /\ ~mDeferExecute[b]
      /\ run => b \notin ToSet(m_createManage)
  BY <1>1 DEF OneWayForward
<1>6. cr \in Seq(Bases) /\ Injective(cr)
      /\ ToSet(cr) = ToSet(m_createManage) \cup (IF retry THEN {b} ELSE {})
  BY <1>1, <1>5, AppendIs DEF TypeOK, ListsInjective
<1>7. /\ m_executeManage' \in Seq(Bases) /\ Injective(m_executeManage')
      /\ ToSet(m_executeManage') = ToSet(m_executeManage) \cup (IF run THEN {b} ELSE {})
      /\ m_drawManage' \in Seq(Bases) /\ Injective(m_drawManage')
      /\ ToSet(m_drawManage') = ToSet(m_drawManage) \cup (IF run THEN {b} ELSE {})
      /\ mLifecycleState' = [mLifecycleState EXCEPT ![b] = IF run THEN "ACTIVE" ELSE mLifecycleState[b]]
  <2>1. CASE run
    <3>1. Activate(b) /\ mLifecycleState[b] = "CREATING"
      BY <2>1 DEF ConnectUpdate, InheritFlags, ScheduleDeferred
    <3> QED BY <1>1, <2>1, <3>1, Activated
  <2>2. CASE ~run
    <3>1. UNCHANGED << m_executeManage, m_drawManage, mLifecycleState >>
      BY <2>2 DEF ConnectUpdate, InheritFlags, ScheduleDeferred
    <3> QED BY <2>2, <3>1 DEF TypeOK, ListsInjective
  <2> QED BY <2>1, <2>2
<1>8. UNCHANGED << baseVars, rootDisable, m_nowLoopProc, inLoop, stack >>
  BY DEF ConnectProc
<1>9. Makes = {} /\ Makes' = {}
  BY <1>1, <1>8, MakesIs
<1>10. /\ retry => mLifecycleState[b] = "CREATING" /\ mDeferRetryCreate[b] /\ ~run
       /\ run => mLifecycleState[b] = "CREATING" /\ mDeferExecute[b] /\ ~mDeferRetryCreate[b]
       /\ mLifecycleState[b] = "CREATING" /\ ~retry => ~mDeferRetryCreate[b]
       /\ mLifecycleState[b] = "CREATING" /\ ~retry /\ ~run => ~mDeferExecute[b]
  OBVIOUS
<1> HIDE DEF b, cr, retry, run
<1> USE DEF baseVars
<1>11. TypeOK'
  BY <1>1, <1>2, <1>3, <1>4, <1>6, <1>7, <1>8 DEF TypeOK, LIFECYCLE_e
<1>12. ListsInjective'
  BY <1>3, <1>6, <1>7 DEF ListsInjective
<1>13. ScheduleMatchesState'
  BY <1>1, <1>3, <1>5, <1>6, <1>7, <1>8, <1>10 DEF ScheduleMatchesState, TypeOK
<1>14. OneWayForward'
  <2>1. /\ mDeferRetryCreate'[b] = (mDeferRetryCreate[b] /\ ~retry)
        /\ mDeferExecute'[b] = (mDeferExecute[b] /\ ~run)
        /\ mLifecycleState'[b] = IF run THEN "ACTIVE" ELSE mLifecycleState[b]
        /\ \A x \in Bases : x # b => /\ mDeferRetryCreate'[x] = mDeferRetryCreate[x]
                                     /\ mDeferExecute'[x] = mDeferExecute[x]
                                     /\ mLifecycleState'[x] = mLifecycleState[x]
    BY <1>1, <1>3, <1>7 DEF TypeOK
  <2> SUFFICES ASSUME NEW x \in live, mLifecycleState'[x] = "CREATING"
               PROVE  /\ x \in ToSet(m_createManage)' => ~mDeferRetryCreate'[x] /\ ~mDeferExecute'[x]
                      /\ mDeferRetryCreate'[x] => ~mDeferExecute'[x]
                      /\ x \in ToSet(m_createManage)' \/ mDeferRetryCreate'[x] \/ mDeferExecute'[x]
                         \/ mDeleteRequested'[x]
    BY <1>8, <1>9 DEF OneWayForward
  <2>2. CASE x # b
    <3>1. (x \in ToSet(m_createManage)') = (x \in ToSet(m_createManage))
      BY <1>3, <1>6, <2>2
    <3> QED BY <1>3, <1>9, <2>1, <2>2, <3>1 DEF OneWayForward, TypeOK
  <2>3. CASE x = b
    BY <1>1, <1>3, <1>5, <1>6, <1>9, <1>10, <2>1, <2>3 DEF OneWayForward
  <2> QED BY <2>2, <2>3
<1>15. WalkIntact'
  BY <1>1, <1>2, <1>8 DEF WalkIntact
<1>16. ParentOutlivesChildren'
  BY <1>8 DEF ParentOutlivesChildren
<1>17. FreshIds' /\ RequestsTaken'
  <2>1. b < m_rootUniqueID /\ b \in Nat /\ m_rootUniqueID \in Nat
    BY <1>1, BasesAre DEF FreshIds, TypeOK, BASE_ID_FIRST
  <2>2. \A x \in Bases : x >= m_rootUniqueID => x # b
    BY <2>1
  <2>3. \A x \in Bases : x # b => /\ mDeferRetryCreate'[x] = mDeferRetryCreate[x]
                                  /\ mDeferExecute'[x] = mDeferExecute[x]
                                  /\ mLifecycleState'[x] = mLifecycleState[x]
    BY <1>1, <1>3, <1>7 DEF TypeOK
  <2>4. mLifecycleState'[b] = "ACTIVE" \/ mLifecycleState'[b] = mLifecycleState[b]
    BY <1>1, <1>7 DEF TypeOK
  <2> QED BY <1>3, <1>8, <2>2, <2>3, <2>4 DEF FreshIds, RequestsTaken
<1>18. StackLegal' /\ PhaseLegal' /\ NoLateChild'
  BY <1>1, <1>8, <1>9 DEF StackLegal, PhaseLegal, NoLateChild
<1> QED BY <1>11, <1>12, <1>13, <1>14, <1>15, <1>16, <1>17, <1>18

-----------------------------------------------------------------------------
(* The theorems.                                                            *)

LEMMA NextIInv == IInv /\ [Next]_vars => IInv'
<1> SUFFICES ASSUME IInv, [Next]_vars PROVE IInv'
  OBVIOUS
<1>1. CASE Framework
  <2>1. CASE ConnectProc
    BY <2>1, ConnectDeleteStep, ConnectUpdateStep DEF ConnectProc
  <2> QED BY <1>1, <2>1, StartLoopStep, NextProcStep, EndLoopStep, WalkPackStep DEF Framework
<1>2. CASE Return
  BY <1>2, CreateSucceededStep, CreateWaitingStep, CreateFailedStep, DeleteSucceededStep,
     PackEndsStep, EnableSceneStep DEF Return
<1>3. CASE \E x \in live : DeleteRequest(x)
  BY <1>3, DeleteRequestStep
<1>4. CASE \E p \in live \cup {Null}, prof \in Profiles : MakeBase(p, prof)
  BY <1>4, MakeBaseStep
<1>5. CASE StallMake
  BY <1>5, StallMakeStep
<1>6. CASE Spin \/ UNCHANGED vars
  <2>1. UNCHANGED vars
    BY <1>6 DEF Spin
  <2> USE <2>1 DEF vars, baseVars, flagVars, lifeVars, listVars, loopVars
  <2>2. Makes' = Makes
    BY DEF Makes
  <2>3. TypeOK' /\ ListsInjective' /\ ScheduleMatchesState'
    BY DEF IInv, TypeOK, ListsInjective, ScheduleMatchesState
  <2>4. OneWayForward' /\ WalkIntact' /\ ParentOutlivesChildren'
    BY <2>2 DEF IInv, OneWayForward, WalkIntact, Walked, ParentOutlivesChildren
  <2>5. FreshIds' /\ RequestsTaken' /\ StackLegal' /\ PhaseLegal' /\ NoLateChild'
    BY <2>2 DEF IInv, FreshIds, RequestsTaken, StackLegal, PhaseLegal, NoLateChild, Children
  <2> QED BY <2>3, <2>4, <2>5 DEF IInv
<1> QED BY <1>1, <1>2, <1>3, <1>4, <1>5, <1>6 DEF Next

\* IInv holds in every state of every execution.
THEOREM InductiveInvariant == Spec => []IInv
BY InitIInv, NextIInv, PTL DEF Spec

\* Every variable keeps its type: in particular the lists and the stack hold
\* bases only, and the ID counter stops at BASE_ID_MAX.
THEOREM TypeCorrectness == Spec => []TypeOK
<1>1. IInv => TypeOK
  BY DEF IInv
<1> QED BY <1>1, InductiveInvariant, PTL

\* mMainNode, the one node that three lists share, is at every point of every
\* operation linked exactly into the lists of the base's lifecycle state, and
\* once: the unconditional removals of postCreate and connectProc are safe.
THEOREM OneNodeSuffices == Spec => [](ScheduleMatchesState /\ ListsInjective)
<1>1. IInv => ScheduleMatchesState /\ ListsInjective
  BY DEF IInv
<1> QED BY <1>1, InductiveInvariant, PTL

\* A base whose create operation is unfinished is never forgotten and never
\* scheduled twice, whatever phase it was created in.
THEOREM NeverForgotten == Spec => []OneWayForward
<1>1. IInv => OneWayForward
  BY DEF IInv
<1> QED BY <1>1, InductiveInvariant, PTL

\* The node that walkPack reads ahead of an operation is still the right one
\* after it, whatever the operation creates, deletes or schedules.
THEOREM WalksAreSafe == Spec => []WalkIntact
<1>1. IInv => WalkIntact
  BY DEF IInv
<1> QED BY <1>1, InductiveInvariant, PTL

\* No base is destroyed before its children.
THEOREM ParentsLast == Spec => []ParentOutlivesChildren
<1>1. IInv => ParentOutlivesChildren
  BY DEF IInv
<1> QED BY <1>1, InductiveInvariant, PTL

-----------------------------------------------------------------------------
(* The order of deletion, and of execution and drawing.                     *)

\* The node that prepend adds comes before every other.
LEMMA ConsFirst ==
  ASSUME NEW S, NEW s \in Seq(S), Injective(s), NEW x \in S, x \notin ToSet(s),
         NEW y \in ToSet(s)
  PROVE  IndexOf(Cons(x, s), x) < IndexOf(Cons(x, s), y)
<1> DEFINE u == Cons(x, s)
<1>1. u \in Seq(S) /\ ToSet(u) = ToSet(s) \cup {x} /\ Injective(u)
  BY ConsIs
<1>2. u[1] = x /\ 1 \in 1..Len(u)
  <2>1. << x >> \in Seq(S) /\ Len(<< x >>) = 1 /\ << x >>[1] = x
    OBVIOUS
  <2>2. /\ Len(<< x >> \o s) = 1 + Len(s)
        /\ \A j \in 1..(1 + Len(s)) :
             (<< x >> \o s)[j] = IF j <= 1 THEN << x >>[j] ELSE s[j - 1]
    BY <2>1, ConcatProperties
  <2> QED BY <2>1, <2>2, LenProperties DEF Cons
<1> HIDE DEF u
<1>3. IndexOf(u, x) \in 1..Len(u) /\ u[IndexOf(u, x)] = x
  BY <1>1, IndexOfIs
<1>4. IndexOf(u, y) \in 1..Len(u) /\ u[IndexOf(u, y)] = y
  BY <1>1, IndexOfIs
<1>5. IndexOf(u, x) = 1
  BY <1>1, <1>2, <1>3 DEF Injective
<1>6. IndexOf(u, y) # 1
  BY <1>2, <1>4
<1>7. IndexOf(u, x) < IndexOf(u, y)
  BY <1>4, <1>5, <1>6
<1> QED BY <1>7 DEF u

\* Only connectProc makes a base DELETING.
LEMMA OnlyConnectDeletes ==
  ASSUME IInv, [Next]_vars, NEW b \in Bases,
         mLifecycleState[b] # "DELETING", mLifecycleState'[b] = "DELETING"
  PROVE  ConnectProc /\ ConnectDelete(b)
<1> USE DEF lifeVars
<1>1. mLifecycleState \in [Bases -> LIFECYCLE_e] /\ mLifecycleState'[b] # mLifecycleState[b]
  BY DEF IInv, TypeOK
<1>2. \A x : ~(b \in Bases /\ Activate(x))
  BY <1>1 DEF Activate
<1>3. CASE Framework
  <2>1. ConnectProc
    BY <1>1, <1>3 DEF Framework, StartLoop, NextProc, EndLoop, WalkPack, BeginWalk
  <2>2. ~ConnectUpdate(next)
    BY <1>1, <1>2 DEF ConnectUpdate, InheritFlags, ScheduleDeferred
  <2>3. ConnectDelete(next)
    BY <2>1, <2>2 DEF ConnectProc
  <2>4. next = b
    BY <1>1, <2>3 DEF ConnectDelete, TakeRequest, LeaveLists, ScheduleDelete
  <2> QED BY <2>1, <2>3, <2>4
<1>4. CASE Return
  BY <1>1, <1>2, <1>4 DEF Return, CreateSucceeded, CreateWaiting, CreateFailed,
     DeleteSucceeded, PackEnds, EnableScene
<1>5. CASE \E x \in live : DeleteRequest(x)
  BY <1>1, <1>5 DEF DeleteRequest
<1>6. CASE \E p \in live \cup {Null}, prof \in Profiles : MakeBase(p, prof)
  BY <1>1, <1>6 DEF MakeBase
<1>7. CASE StallMake \/ Spin \/ UNCHANGED vars
  BY <1>1, <1>7 DEF StallMake, Spin, vars
<1> QED BY <1>3, <1>4, <1>5, <1>6, <1>7 DEF Next

\* A base that is scheduled for deletion after its parent is deleted before it.
THEOREM FamiliesDeletedBottomUp == Spec => ChildrenDeletedFirst
<1> DEFINE Step == \A b \in live, p \in live :
       /\ parent[b] = p /\ mLifecycleState[p] = "DELETING"
       /\ mLifecycleState[b] # "DELETING" /\ mLifecycleState'[b] = "DELETING"
       => IndexOf(m_deleteManage', b) < IndexOf(m_deleteManage', p)
<1>1. ASSUME IInv, [Next]_vars PROVE [Step]_vars
  <2> SUFFICES ASSUME NEW b \in live, NEW p \in live,
                      mLifecycleState[p] = "DELETING",
                      mLifecycleState[b] # "DELETING", mLifecycleState'[b] = "DELETING"
               PROVE  IndexOf(m_deleteManage', b) < IndexOf(m_deleteManage', p)
    OBVIOUS
  <2>1. b \in Bases /\ m_deleteManage \in Seq(Bases) /\ Injective(m_deleteManage)
        /\ b \notin ToSet(m_deleteManage) /\ p \in ToSet(m_deleteManage)
    BY <1>1 DEF IInv, TypeOK, ListsInjective, ScheduleMatchesState
  <2>2. m_deleteManage' = Cons(b, m_deleteManage)
    BY <1>1, <2>1, OnlyConnectDeletes DEF ConnectDelete, TakeRequest, LeaveLists, ScheduleDelete
  <2> QED BY <2>1, <2>2, ConsFirst
<1> QED BY <1>1, InductiveInvariant, PTL DEF Spec, ChildrenDeletedFirst

\* What keeps one list sorted: it is unchanged, or loses a node, or gains one by
\* addNode; and no base in it changes its order.
Sorts(s, order, t) ==
  \/ t = s
  \/ \E x : t = Unlink(s, x)
  \/ \E x \in Bases : x \notin ToSet(s) /\ t = AddNode(s, x, order)

LEMMA SortsSorted ==
  ASSUME NEW s \in Seq(Bases), Injective(s), NEW order \in [Bases -> Nat], NEW t,
         SortedBy(s, order), Sorts(s, order, t)
  PROVE  SortedBy(t, order)
<1>1. CASE t = s
  BY <1>1
<1>2. CASE \E x : t = Unlink(s, x)
  BY <1>2, UnlinkIs
<1>3. CASE \E x \in Bases : x \notin ToSet(s) /\ t = AddNode(s, x, order)
  <2>1. PICK x \in Bases : x \notin ToSet(s) /\ t = AddNode(s, x, order)
    BY <1>3
  <2> QED BY <2>1, AddNodeIs
<1> QED BY <1>1, <1>2, <1>3 DEF Sorts

\* Every step but the construction of a base changes the two lists as Sorts
\* says, and no base's profile.
LEMMA StepSorts ==
  ASSUME IInv, [Next]_vars, ~(\E p \in live \cup {Null}, prof \in Profiles : MakeBase(p, prof))
  PROVE  /\ mProfName' = mProfName
         /\ Sorts(m_executeManage, ExecuteOrder, m_executeManage')
         /\ Sorts(m_drawManage, DrawOrder, m_drawManage')
<1> USE DEF baseVars, listVars
<1>1. CASE Activate(Top) /\ CreateSucceeded
  <2>1. Top \in Bases /\ Top \notin ToSet(m_executeManage) /\ Top \notin ToSet(m_drawManage)
    BY <1>1, CreatingTop DEF CreateSucceeded, IInv, TypeOK
  <2> QED BY <1>1, <2>1 DEF Activate, CreateSucceeded, Sorts
<1>2. CASE CreateSucceeded /\ ~Activate(Top)
  BY <1>2 DEF CreateSucceeded, Sorts
<1>3. CASE ConnectProc /\ ConnectDelete(next)
  BY <1>3 DEF ConnectProc, ConnectDelete, TakeRequest, LeaveLists, ScheduleDelete, Sorts
<1>4. CASE ConnectProc /\ ConnectUpdate(next)
  <2>1. mProfName' = mProfName
    BY <1>4 DEF ConnectProc
  <2>2. CASE UNCHANGED << m_executeManage, m_drawManage >>
    BY <2>1, <2>2 DEF Sorts
  <2>3. CASE Activate(next) /\ mLifecycleState[next] = "CREATING"
    <3>1. next \in Bases /\ next \notin ToSet(m_executeManage) /\ next \notin ToSet(m_drawManage)
      BY <1>4, <2>3 DEF ConnectProc, IInv, TypeOK, WalkIntact, ScheduleMatchesState
    <3> QED BY <2>1, <2>3, <3>1 DEF Activate, Sorts
  <2> QED BY <1>4, <2>2, <2>3 DEF ConnectUpdate, InheritFlags, ScheduleDeferred
<1>5. CASE StartLoop \/ NextProc \/ EndLoop \/ WalkPack
  BY <1>5 DEF StartLoop, NextProc, EndLoop, WalkPack, BeginWalk, Sorts
<1>6. CASE CreateWaiting \/ CreateFailed \/ DeleteSucceeded \/ PackEnds \/ EnableScene
  BY <1>6 DEF CreateWaiting, CreateFailed, DeleteSucceeded, PackEnds, EnableScene, Sorts
<1>7. CASE \E x \in live : DeleteRequest(x)
  BY <1>7 DEF DeleteRequest, Sorts
<1>8. CASE StallMake \/ Spin \/ UNCHANGED vars
  BY <1>8 DEF StallMake, Spin, vars, Sorts
<1> QED BY <1>1, <1>2, <1>3, <1>4, <1>5, <1>6, <1>7, <1>8 DEF Next, Framework, Return, ConnectProc

LEMMA NextSorted == IInv /\ ListsSorted /\ [Next]_vars => ListsSorted'
<1> SUFFICES ASSUME IInv, ListsSorted, [Next]_vars PROVE ListsSorted'
  OBVIOUS
<1>1. /\ m_executeManage \in Seq(Bases) /\ Injective(m_executeManage)
      /\ m_drawManage \in Seq(Bases) /\ Injective(m_drawManage)
      /\ ToSet(m_executeManage) \subseteq live /\ ToSet(m_drawManage) \subseteq live
      /\ live \subseteq Bases /\ mProfName \in [Bases -> Profiles]
  BY DEF IInv, TypeOK, ListsInjective, ScheduleMatchesState
<1>2. ExecuteOrder \in [Bases -> Nat] /\ DrawOrder \in [Bases -> Nat]
  BY <1>1, OrdersAre
<1>3. CASE \E p \in live \cup {Null}, prof \in Profiles : MakeBase(p, prof)
  <2>1. PICK prof \in Profiles :
          /\ mProfName' = [mProfName EXCEPT ![m_rootUniqueID] = prof]
          /\ m_executeManage' = m_executeManage /\ m_drawManage' = m_drawManage
    BY <1>3 DEF MakeBase, listVars
  <2>2. \A b \in live : mProfName'[b] = mProfName[b]
    BY <1>1, <2>1, BasesAre DEF IInv, FreshIds
  <2>3. \A b \in live : ExecuteOrder'[b] = ExecuteOrder[b] /\ DrawOrder'[b] = DrawOrder[b]
    BY <1>1, <2>2 DEF ExecuteOrder, DrawOrder
  <2>4. /\ \A i \in 1..Len(m_executeManage) : m_executeManage[i] \in live
        /\ \A i \in 1..Len(m_drawManage) : m_drawManage[i] \in live
    <3>1. ToSet(m_executeManage) = {m_executeManage[i] : i \in 1..Len(m_executeManage)}
      BY <1>1, ToSetIs
    <3>2. ToSet(m_drawManage) = {m_drawManage[i] : i \in 1..Len(m_drawManage)}
      BY <1>1, ToSetIs
    <3> QED BY <1>1, <3>1, <3>2
  <2>5. SortedBy(m_executeManage', ExecuteOrder')
    BY <2>1, <2>3, <2>4 DEF ListsSorted, SortedBy
  <2>6. SortedBy(m_drawManage', DrawOrder')
    BY <2>1, <2>3, <2>4 DEF ListsSorted, SortedBy
  <2> QED BY <2>5, <2>6 DEF ListsSorted
<1>4. CASE ~(\E p \in live \cup {Null}, prof \in Profiles : MakeBase(p, prof))
  <2>1. /\ mProfName' = mProfName
        /\ Sorts(m_executeManage, ExecuteOrder, m_executeManage')
        /\ Sorts(m_drawManage, DrawOrder, m_drawManage')
    BY <1>4, StepSorts
  <2>2. ExecuteOrder' = ExecuteOrder /\ DrawOrder' = DrawOrder
    BY <2>1 DEF ExecuteOrder, DrawOrder
  <2>3. SortedBy(m_executeManage', ExecuteOrder)
    BY <1>1, <1>2, <2>1, SortsSorted DEF ListsSorted
  <2>4. SortedBy(m_drawManage', DrawOrder)
    BY <1>1, <1>2, <2>1, SortsSorted DEF ListsSorted
  <2> QED BY <2>2, <2>3, <2>4 DEF ListsSorted
<1> QED BY <1>3, <1>4

\* Bases are executed and drawn in the order of their profiles, at every point
\* of every frame, whatever was created and deleted in which phase.
THEOREM PriorityOrderKept == Spec => []ListsSorted
<1>1. Init => ListsSorted
  BY DEF Init, ListsSorted, SortedBy
<1> QED BY <1>1, NextSorted, InductiveInvariant, PTL DEF Spec

-----------------------------------------------------------------------------
(* FBase implements BaseLifecycle: every step of the framework and of game *)
(* code is a step of the abstract life of a base, or changes nothing in it.*)

\* The abstract stage of a base that has an ID.
LEMMA StageIs ==
  /\ stage = [b \in Bases |-> IF b \in live THEN mLifecycleState[b]
                              ELSE IF b < m_rootUniqueID THEN "destroyed" ELSE "unborn"]
  /\ stage' = [b \in Bases |-> IF b \in live' THEN mLifecycleState'[b]
                               ELSE IF b < m_rootUniqueID' THEN "destroyed" ELSE "unborn"]
BY DEF stage

LEMMA AliveIs ==
  ASSUME IInv, NEW b \in Bases
  PROVE  Lifecycle!Alive(b) <=> b \in live
BY StageIs DEF Lifecycle!Alive, IInv, TypeOK, LIFECYCLE_e

\* The abstract calls are the frames of the stack, as a sequence.
Frames(st, loop, proc) ==
  [i \in 1..Len(st) |->
     [base |-> st[i], op |-> IF i > 1 \/ ~loop THEN "CREATE" ELSE proc]]
Calls == [base : Bases, op : LOOP_PROC_e]

LEMMA CallsAre ==
  /\ calls = Frames(stack, inLoop, m_nowLoopProc)
  /\ calls' = Frames(stack', inLoop', m_nowLoopProc')
BY DEF calls, Frames

LEMMA FramesIs ==
  ASSUME NEW st \in Seq(Bases), NEW loop \in BOOLEAN, NEW proc \in LOOP_PROC_e
  PROVE  /\ Frames(st, loop, proc) \in Seq(Calls)
         /\ Len(Frames(st, loop, proc)) = Len(st)
         /\ \A i \in 1..Len(st) : Frames(st, loop, proc)[i]
              = [base |-> st[i], op |-> IF i > 1 \/ ~loop THEN "CREATE" ELSE proc]
         /\ Frames(st, loop, proc) = << >> <=> st = << >>
<1> DEFINE f == Frames(st, loop, proc)
<1>1. Len(st) \in Nat /\ \A i \in 1..Len(st) : st[i] \in Bases
  BY LenProperties, ElementOfSeq
<1>2. \A i \in 1..Len(st) : f[i]
        = [base |-> st[i], op |-> IF i > 1 \/ ~loop THEN "CREATE" ELSE proc]
  BY DEF Frames
<1>3. \A i \in 1..Len(st) :
        [base |-> st[i], op |-> IF i > 1 \/ ~loop THEN "CREATE" ELSE proc] \in Calls
  BY <1>1 DEF Calls, LOOP_PROC_e
<1>4. f \in [1..Len(st) -> Calls]
  BY <1>3 DEF Frames
<1>5. f \in Seq(Calls) /\ Len(f) = Len(st)
  BY <1>1, <1>4, LenProperties
<1>6. f = << >> <=> st = << >>
  BY <1>5, EmptySeq
<1> QED BY <1>2, <1>5, <1>6

LEMMA CallsType ==
  ASSUME IInv
  PROVE  /\ stack \in Seq(Bases) /\ inLoop \in BOOLEAN /\ m_nowLoopProc \in LOOP_PROC_e
         /\ calls \in Seq(Calls) /\ Len(calls) = Len(stack)
         /\ \A i \in 1..Len(stack) : calls[i]
              = [base |-> stack[i], op |-> IF i > 1 \/ ~inLoop THEN "CREATE" ELSE m_nowLoopProc]
         /\ calls = << >> <=> stack = << >>
<1>1. stack \in Seq(Bases) /\ inLoop \in BOOLEAN /\ m_nowLoopProc \in LOOP_PROC_e
  BY DEF IInv, TypeOK
<1> QED BY <1>1, CallsAre, FramesIs

LEMMA CallsTypeNext ==
  ASSUME IInv'
  PROVE  /\ stack' \in Seq(Bases) /\ inLoop' \in BOOLEAN /\ m_nowLoopProc' \in LOOP_PROC_e
         /\ calls' \in Seq(Calls) /\ Len(calls') = Len(stack')
         /\ \A i \in 1..Len(stack') : calls'[i]
              = [base |-> stack'[i], op |-> IF i > 1 \/ ~inLoop' THEN "CREATE" ELSE m_nowLoopProc']
         /\ calls' = << >> <=> stack' = << >>
<1>1. stack' \in Seq(Bases) /\ inLoop' \in BOOLEAN /\ m_nowLoopProc' \in LOOP_PROC_e
  BY DEF IInv, TypeOK
<1> QED BY <1>1, CallsAre, FramesIs

\* A step that leaves the tree and the states alone, with nothing in progress
\* before or after it, changes nothing in the abstract view.
LEMMA QuietStep ==
  ASSUME IInv, IInv', stack = << >>, stack' = << >>,
         m_rootUniqueID' = m_rootUniqueID, live' = live, parent' = parent,
         mLifecycleState' = mLifecycleState
  PROVE  UNCHANGED Lifecycle!vars
<1>1. stage' = stage
  BY StageIs
<1>2. calls = << >> /\ calls' = << >>
  BY CallsAre, FramesIs DEF IInv, TypeOK
<1> QED BY <1>1, <1>2 DEF Lifecycle!vars

\* While an operation is in progress, one that changes neither the tree, the
\* states nor the stack changes nothing in the abstract view.
LEMMA InnerStep ==
  ASSUME UNCHANGED << m_rootUniqueID, live, parent, mLifecycleState, stack, inLoop, m_nowLoopProc >>
  PROVE  UNCHANGED Lifecycle!vars
BY DEF Lifecycle!vars, stage, calls

\* A walk that calls a base's operation is an abstract call, in its stage.
LEMMA WalkPackCalls ==
  ASSUME IInv, IInv', WalkPack
  PROVE  Lifecycle!Next \/ UNCHANGED Lifecycle!vars
<1> USE DEF WalkPack, baseVars, lifeVars
<1>1. CASE ~Ready(next)
  BY <1>1, QuietStep
<1>2. CASE Ready(next)
  <2> DEFINE op == m_nowLoopProc
  <2>1. inLoop /\ inLoop' = inLoop /\ m_nowLoopProc' = op /\ stack' = << next >> /\ stack = << >>
        /\ next \in ToSet(Walked)
    BY <1>2 DEF IInv, WalkIntact
  <2>2. op \in {"CREATE", "EXECUTE", "DELETE", "DRAW"}
    BY <2>1 DEF IInv, PhaseLegal, TypeOK, LOOP_PROC_e
  <2>3. next \in live /\ next \in Bases
        /\ (op = "CREATE" => mLifecycleState[next] = "CREATING")
        /\ (op \in {"EXECUTE", "DRAW"} => mLifecycleState[next] = "ACTIVE")
        /\ (op = "DELETE" => mLifecycleState[next] = "DELETING" /\ Children(next) = {})
    BY <1>2, <2>1, <2>2 DEF IInv, Walked, ScheduleMatchesState, TypeOK, Ready
  <2>4. stage[next] = mLifecycleState[next]
    BY <2>3, StageIs
  <2>5. op = "DELETE" => Lifecycle!Childless(next)
    BY <2>3, AliveIs DEF Lifecycle!Childless, Children
  <2>6. calls = << >>
    BY <2>1, CallsType
  <2>7. calls' = << [base |-> next, op |-> op] >>
    <3>1. calls' \in Seq(Calls) /\ Len(calls') = 1
          /\ calls'[1] = [base |-> next, op |-> op]
      <4>1. Len(stack') = 1 /\ stack'[1] = next /\ 1 \in 1..Len(stack')
        BY <2>1
      <4>2. calls'[1] = [base |-> stack'[1], op |-> IF 1 > 1 \/ ~inLoop' THEN "CREATE" ELSE m_nowLoopProc']
        BY <4>1, CallsTypeNext
      <4> QED BY <2>1, <4>1, <4>2, CallsTypeNext
    <3>2. << [base |-> next, op |-> op] >> \in Seq(Calls)
      BY <2>2, <2>3 DEF Calls, LOOP_PROC_e
    <3> QED BY <3>1, <3>2, SeqEqual
  <2>8. stage' = stage
    BY StageIs
  <2>9. Lifecycle!Call(next, op)
    BY <2>2, <2>3, <2>4, <2>5, <2>6, <2>7, <2>8 DEF Lifecycle!Call
  <2> QED BY <2>2, <2>3, <2>9 DEF Lifecycle!Next
<1> QED BY <1>1, <1>2

\* fBase_make is an abstract construction.
LEMMA MakeBaseConstructs ==
  ASSUME IInv, IInv', NEW p \in live \cup {Null}, NEW prof \in Profiles, MakeBase(p, prof)
  PROVE  Lifecycle!Next
<1> DEFINE b == m_rootUniqueID
<1> USE DEF MakeBase, loopVars, lifeVars
<1>1. /\ b \in Bases /\ b \notin live /\ p \in Bases \cup {Null}
      /\ live' = live \cup {b} /\ m_rootUniqueID' = b + 1
      /\ parent' = [parent EXCEPT ![b] = p] /\ stack' = Append(stack, b)
      /\ mLifecycleState' = mLifecycleState /\ mLifecycleState[b] = "CREATING"
      /\ (stack # << >> \/ ~inLoop) /\ inLoop' = inLoop /\ m_nowLoopProc' = m_nowLoopProc
  <2>1. b \in Bases
    BY IdAssumption DEF IInv, TypeOK, Stalled, Bases, BASE_ID_FIRST
  <2>2. b \notin live /\ mLifecycleState[b] = "CREATING"
    BY <2>1, BasesAre DEF IInv, FreshIds
  <2>3. stack # << >> \/ ~inLoop
    BY DEF MayCreate
  <2> QED BY <2>1, <2>2, <2>3 DEF IInv, TypeOK
<1> HIDE DEF b
<1>2. stage[b] = "unborn"
  BY <1>1, BasesAre, StageIs DEF b
<1>3. stage' = [stage EXCEPT ![b] = "CREATING"]
  <2>1. ASSUME NEW x \in Bases, x # b PROVE x < b + 1 <=> x < b
    BY <1>1, <2>1, BasesAre
  <2>2. \A x \in Bases : x # b => stage'[x] = stage[x]
    BY <1>1, <2>1, StageIs DEF b
  <2>3. stage'[b] = "CREATING"
    BY <1>1, StageIs
  <2> QED BY <1>1, <2>2, <2>3, StageIs
<1>4. p # Null => Lifecycle!Alive(p)
  BY <1>1, AliveIs
<1>5. p # Null /\ calls # << >> => calls[1] # [base |-> p, op |-> "DELETE"]
  <2> SUFFICES ASSUME p # Null, calls # << >> PROVE calls[1] # [base |-> p, op |-> "DELETE"]
    OBVIOUS
  <2>1. stack # << >> /\ 1 \in 1..Len(stack)
    BY CallsType, EmptySeq
  <2>2. calls[1] = [base |-> stack[1], op |-> IF ~inLoop THEN "CREATE" ELSE m_nowLoopProc]
    BY <2>1, CallsType
  <2>3. ~(m_nowLoopProc = "DELETE" /\ p = stack[1])
    BY DEF MayCreate
  <2> QED BY <2>2, <2>3
<1>6. calls' = Append(calls, [base |-> b, op |-> "CREATE"])
  <2> DEFINE c == [base |-> b, op |-> "CREATE"]
  <2>1. c \in Calls
    BY <1>1 DEF Calls, LOOP_PROC_e
  <2>2. /\ calls' \in Seq(Calls) /\ Len(calls') = Len(stack')
        /\ \A i \in 1..Len(stack') : calls'[i]
             = [base |-> stack'[i], op |-> IF i > 1 \/ ~inLoop THEN "CREATE" ELSE m_nowLoopProc]
    BY <1>1, CallsTypeNext
  <2>3. /\ Len(stack') = Len(stack) + 1 /\ stack'[Len(stack) + 1] = b /\ Len(stack) \in Nat
        /\ \A i \in 1..Len(stack) : stack'[i] = stack[i]
        /\ stack # << >> => Len(stack) > 0
    BY <1>1, CallsType, AppendProperties, LenProperties, EmptySeq
  <2> HIDE DEF c
  <2>4. /\ Append(calls, c) \in Seq(Calls) /\ Len(Append(calls, c)) = Len(stack) + 1
        /\ \A i \in 1..Len(stack) : Append(calls, c)[i] = calls[i]
        /\ Append(calls, c)[Len(stack) + 1] = c
    BY <2>1, CallsType, AppendProperties
  <2>5. ASSUME NEW i \in 1..(Len(stack) + 1) PROVE calls'[i] = Append(calls, c)[i]
    <3>1. CASE i \in 1..Len(stack)
      <4>1. calls'[i] = [base |-> stack[i], op |-> IF i > 1 \/ ~inLoop THEN "CREATE" ELSE m_nowLoopProc]
        <5>1. i \in 1..Len(stack')
          BY <2>3, <3>1
        <5> QED BY <2>2, <2>3, <3>1, <5>1
      <4>2. calls[i] = [base |-> stack[i], op |-> IF i > 1 \/ ~inLoop THEN "CREATE" ELSE m_nowLoopProc]
        BY <3>1, CallsType
      <4>3. Append(calls, c)[i] = calls[i]
        BY <2>4, <3>1
      <4> QED BY <4>1, <4>2, <4>3
    <3>2. CASE i = Len(stack) + 1
      <4>1. i > 1 \/ ~inLoop
        BY <1>1, <2>3, <3>2
      <4>2. calls'[i] = c
        <5>1. i \in 1..Len(stack') /\ stack'[i] = b
          BY <2>3, <3>2
        <5> QED BY <2>2, <4>1, <5>1 DEF c
      <4> QED BY <2>4, <3>2, <4>2
    <3>3. i \in 1..Len(stack) \/ i = Len(stack) + 1
      <4>1. Len(stack) \in Nat
        BY <2>3
      <4> QED BY <4>1
    <3> QED BY <3>1, <3>2, <3>3
  <2>6. calls' = Append(calls, c)
    BY <2>2, <2>3, <2>4, <2>5, SeqEqual
  <2> QED BY <2>6 DEF c
<1>7. Lifecycle!Construct(b, p)
  BY <1>1, <1>2, <1>3, <1>4, <1>5, <1>6 DEF Lifecycle!Construct
<1> QED BY <1>1, <1>7 DEF Lifecycle!Next

\* Popping the stack pops the abstract calls.
LEMMA PopCalls ==
  ASSUME IInv, IInv', stack # << >>, stack' = Pop, inLoop' = inLoop,
         m_nowLoopProc' = m_nowLoopProc
  PROVE  /\ calls # << >> /\ calls' = SubSeq(calls, 1, Len(calls) - 1)
         /\ calls[Len(calls)].base = Top
         /\ calls[Len(calls)].op = IF IsMake THEN "CREATE" ELSE m_nowLoopProc
<1>1. Len(stack) \in Nat /\ Len(stack) >= 1 /\ Len(stack) \in 1..Len(stack)
  BY CallsType, EmptySeq
<1>2. PICK n \in Nat : n = Len(stack) - 1
  BY <1>1
<1>3. stack' \in Seq(Bases) /\ Len(stack') = n /\ \A i \in 1..n : stack'[i] = stack[i]
  <2>1. stack' = SubSeq(stack, 1, n) /\ 1 \in Int /\ n \in Int
    BY <1>2 DEF Pop
  <2>2. \A i \in 1..n : stack[i] \in Bases
    BY <1>1, <1>2, CallsType, ElementOfSeq
  <2>3. /\ stack' \in Seq(Bases)
        /\ Len(stack') = IF 1 <= n THEN n - 1 + 1 ELSE 0
        /\ \A i \in 1..(n - 1 + 1) : stack'[i] = stack[1 + i - 1]
    BY <2>1, <2>2, CallsType, SubSeqProperties
  <2>4. Len(stack') = n
    BY <2>3
  <2>5. ASSUME NEW i \in 1..n PROVE stack'[i] = stack[i]
    <3>1. i \in 1..(n - 1 + 1) /\ 1 + i - 1 = i
      OBVIOUS
    <3>2. stack'[i] = stack[1 + i - 1]
      BY <2>3, <3>1
    <3> QED BY <3>1, <3>2
  <2> QED BY <2>3, <2>4, <2>5
<1>4. calls \in Seq(Calls) /\ Len(calls) = Len(stack) /\ calls # << >>
  BY CallsType
<1> DEFINE d == SubSeq(calls, 1, n)
<1>5. d \in Seq(Calls) /\ Len(d) = n /\ \A i \in 1..n : d[i] = calls[i]
  <2>1. 1 \in Int /\ n \in Int /\ \A i \in 1..n : calls[i] \in Calls
    BY <1>1, <1>2, <1>4, ElementOfSeq
  <2>2. /\ d \in Seq(Calls)
        /\ Len(d) = IF 1 <= n THEN n - 1 + 1 ELSE 0
        /\ \A i \in 1..(n - 1 + 1) : d[i] = calls[1 + i - 1]
    BY <1>4, <2>1, SubSeqProperties
  <2>3. Len(d) = n
    BY <2>2
  <2>4. ASSUME NEW i \in 1..n PROVE d[i] = calls[i]
    <3>1. i \in 1..(n - 1 + 1) /\ 1 + i - 1 = i
      OBVIOUS
    <3>2. d[i] = calls[1 + i - 1]
      BY <2>2, <3>1
    <3> QED BY <3>1, <3>2
  <2> QED BY <2>2, <2>3, <2>4
<1> HIDE DEF d
<1>6. ASSUME NEW i \in 1..n PROVE calls'[i] = d[i]
  <2>1. i \in 1..Len(stack) /\ i \in 1..Len(stack')
    BY <1>1, <1>2, <1>3
  <2>2. calls[i] = [base |-> stack[i], op |-> IF i > 1 \/ ~inLoop THEN "CREATE" ELSE m_nowLoopProc]
    BY <2>1, CallsType
  <2>3. calls'[i] = [base |-> stack'[i], op |-> IF i > 1 \/ ~inLoop' THEN "CREATE" ELSE m_nowLoopProc']
    BY <2>1, CallsTypeNext
  <2>4. stack'[i] = stack[i] /\ d[i] = calls[i]
    BY <1>3, <1>5
  <2> QED BY <2>2, <2>3, <2>4
<1>7. calls' = d
  BY <1>3, <1>5, <1>6, CallsTypeNext, SeqEqual
<1>8. calls[Len(stack)] = [base |-> Top, op |-> IF IsMake THEN "CREATE" ELSE m_nowLoopProc]
  BY <1>1, CallsType DEF Top, IsMake
<1>9. Len(calls) - 1 = n
  BY <1>2, <1>4
<1> QED BY <1>4, <1>7, <1>8, <1>9 DEF d

\* A return is an abstract return.
LEMMA ReturnReturns ==
  ASSUME IInv, IInv', Return
  PROVE  Lifecycle!Next
<1> USE DEF flagVars, loopVars, baseVars, lifeVars
<1>1. stack # << >> /\ stack' = Pop /\ inLoop' = inLoop /\ m_nowLoopProc' = m_nowLoopProc
      /\ parent' = parent /\ m_rootUniqueID' = m_rootUniqueID
  BY DEF Return, CreateSucceeded, CreateWaiting, CreateFailed, DeleteSucceeded, PackEnds,
     EnableScene, Running
<1>2. /\ calls # << >> /\ calls' = SubSeq(calls, 1, Len(calls) - 1)
      /\ calls[Len(calls)].base = Top
      /\ calls[Len(calls)].op = IF IsMake THEN "CREATE" ELSE m_nowLoopProc
  BY <1>1, PopCalls
<1>3. Top \in live /\ Top \in Bases
  BY <1>1, Popped
<1>4. \/ UNCHANGED stage
      \/ calls[Len(calls)].op = "CREATE" /\ stage' = [stage EXCEPT ![Top] = "ACTIVE"]
      \/ calls[Len(calls)].op = "DELETE" /\ stage' = [stage EXCEPT ![Top] = "destroyed"]
  <2>1. CASE live' = live /\ mLifecycleState' = mLifecycleState
    BY <1>1, <2>1, StageIs
  <2>2. CASE CreateSucceeded /\ Activate(Top)
    <3>1. calls[Len(calls)].op = "CREATE"
      BY <1>2, <2>2 DEF CreateSucceeded, Running
    <3>2. live' = live /\ mLifecycleState' = [mLifecycleState EXCEPT ![Top] = "ACTIVE"]
      BY <2>2 DEF CreateSucceeded, Activate
    <3>3. stage' = [stage EXCEPT ![Top] = "ACTIVE"]
      BY <1>1, <1>3, <3>2, StageIs DEF IInv, TypeOK
    <3> QED BY <3>1, <3>3
  <2>3. CASE DeleteSucceeded
    <3>1. calls[Len(calls)].op = "DELETE"
      BY <1>2, <2>3 DEF DeleteSucceeded, Running
    <3>2. live' = live \ {Top} /\ mLifecycleState' = mLifecycleState
      BY <2>3 DEF DeleteSucceeded
    <3>3. Top < m_rootUniqueID
      BY <1>3 DEF IInv, FreshIds
    <3>4. stage' = [stage EXCEPT ![Top] = "destroyed"]
      BY <1>1, <1>3, <3>2, <3>3, StageIs
    <3> QED BY <3>1, <3>4
  <2> QED BY <2>1, <2>2, <2>3 DEF Return, CreateSucceeded, CreateWaiting, CreateFailed,
             PackEnds, EnableScene
<1>5. Lifecycle!Return
  BY <1>1, <1>2, <1>4 DEF Lifecycle!Return
<1> QED BY <1>5 DEF Lifecycle!Next

\* connectProc settles a base, or changes nothing in the abstract view.
LEMMA ConnectProcSettles ==
  ASSUME IInv, IInv', ConnectProc
  PROVE  Lifecycle!Next \/ UNCHANGED Lifecycle!vars
<1> USE DEF ConnectProc, baseVars, lifeVars
<1>1. stack = << >> /\ stack' = << >> /\ next \in live /\ next \in Bases
      /\ live' = live /\ parent' = parent /\ m_rootUniqueID' = m_rootUniqueID
      /\ mLifecycleState \in [Bases -> LIFECYCLE_e]
  BY DEF IInv, WalkIntact, TypeOK
<1>2. calls = << >> /\ calls' = << >> /\ stage[next] = mLifecycleState[next]
  BY <1>1, CallsType, CallsTypeNext, StageIs
<1>3. CASE mLifecycleState' = mLifecycleState
  BY <1>1, <1>3, QuietStep
<1>4. CASE ConnectDelete(next)
  <2>1. mLifecycleState' = [mLifecycleState EXCEPT ![next] = "DELETING"]
        /\ mLifecycleState[next] # "DELETING"
    BY <1>1, <1>4 DEF ConnectDelete, TakeRequest, LeaveLists, ScheduleDelete, IInv, RequestsTaken
  <2>2. stage' = [stage EXCEPT ![next] = "DELETING"]
    BY <1>1, <2>1, StageIs
  <2>3. mLifecycleState[next] \in {"CREATING", "ACTIVE"}
    BY <1>1, <2>1 DEF LIFECYCLE_e
  <2>4. Lifecycle!Settle(next)
    BY <1>1, <1>2, <2>2, <2>3 DEF Lifecycle!Settle
  <2> QED BY <1>1, <2>4 DEF Lifecycle!Next
<1>5. CASE mLifecycleState[next] = "CREATING" /\ Activate(next)
  <2>1. stage' = [stage EXCEPT ![next] = "ACTIVE"]
    BY <1>1, <1>5, StageIs DEF Activate
  <2>2. Lifecycle!Settle(next)
    BY <1>1, <1>2, <1>5, <2>1 DEF Lifecycle!Settle
  <2> QED BY <1>1, <2>2 DEF Lifecycle!Next
<1> QED BY <1>3, <1>4, <1>5 DEF ConnectUpdate, InheritFlags, ScheduleDeferred

LEMMA NextRefines ==
  ASSUME IInv, IInv', [Next]_vars
  PROVE  [Lifecycle!Next]_(Lifecycle!vars)
<1>1. CASE StartLoop \/ NextProc \/ EndLoop
  BY <1>1, QuietStep DEF StartLoop, NextProc, EndLoop, WalkDone, BeginWalk, baseVars, lifeVars
<1>2. CASE WalkPack
  BY <1>2, WalkPackCalls
<1>3. CASE ConnectProc
  BY <1>3, ConnectProcSettles
<1>4. CASE Return
  BY <1>4, ReturnReturns
<1>5. CASE \E x \in live : DeleteRequest(x)
  BY <1>5, InnerStep DEF DeleteRequest, baseVars, loopVars
<1>6. CASE \E p \in live \cup {Null}, prof \in Profiles : MakeBase(p, prof)
  BY <1>6, MakeBaseConstructs
<1>7. CASE StallMake
  <2>1. /\ live' = live /\ parent' = parent /\ mLifecycleState' = mLifecycleState
        /\ stack' = stack /\ inLoop' = inLoop /\ m_nowLoopProc' = m_nowLoopProc
        /\ m_rootUniqueID + 1 = BASE_ID_MAX /\ m_rootUniqueID' = BASE_ID_MAX
        /\ m_rootUniqueID \in Nat /\ BASE_ID_MAX \in Nat
    BY <1>7, IdAssumption DEF StallMake, lifeVars, loopVars, IInv, TypeOK, BASE_ID_FIRST
  <2>2. \A b \in Bases : b < m_rootUniqueID /\ b < m_rootUniqueID'
    BY <2>1 DEF Bases, BASE_ID_FIRST
  <2>3. stage' = stage
    BY <2>1, <2>2, StageIs
  <2>4. calls' = calls
    BY <2>1, CallsAre
  <2> QED BY <2>1, <2>3, <2>4 DEF Lifecycle!vars
<1>8. CASE Spin \/ UNCHANGED vars
  BY <1>8, InnerStep DEF Spin, vars, baseVars, lifeVars, loopVars
<1> QED BY <1>1, <1>2, <1>3, <1>4, <1>5, <1>6, <1>7, <1>8 DEF Next, Framework

LEMMA InitRefines == Init => Lifecycle!Init
<1> SUFFICES ASSUME Init PROVE Lifecycle!Init
  OBVIOUS
<1>1. IInv
  BY InitIInv
<1>2. calls = << >>
  BY <1>1, CallsType DEF Init
<1>3. \A b \in Bases : ~(b < BASE_ID_FIRST)
  BY BasesAre DEF Bases, BASE_ID_FIRST
<1>4. stage = [b \in Bases |-> "unborn"]
  BY <1>3, StageIs DEF Init
<1> QED BY <1>2, <1>4 DEF Init, Lifecycle!Init

\* The framework keeps what it promises to game code: operations run one at a
\* time, each in the stage it belongs to, a base is destroyed only when it has no
\* children, and stages change only between operations or as they return.
THEOREM FrameworkImplementsLifecycle == Spec => ImplementsLifecycle
<1>1. Init => Lifecycle!Init
  BY InitRefines
<1>2. IInv /\ IInv' /\ [Next]_vars => [Lifecycle!Next]_(Lifecycle!vars)
  BY NextRefines
<1> QED BY <1>1, <1>2, InductiveInvariant, PTL DEF Spec, ImplementsLifecycle, Lifecycle!Spec

-----------------------------------------------------------------------------
(* Lineages and the preorder walk of the connect tree.  What holds of      *)
(* every base is proved from a smallest base of which it would not.        *)

LEMMA LineageIs ==
  ASSUME TypeOK
  PROVE  /\ Lineage(Null) = {}
         /\ \A b \in Bases : Lineage(b) = {b} \cup Lineage(parent[b])
<1>1. parent \in [Bases -> Bases \cup {Null}] /\ Null \notin Bases
  BY BasesAre DEF TypeOK
<1>2. \A b : Lineage(b) = Ups(Bases, parent)[b]
  BY DEF Lineage, Ups
<1> QED BY <1>1, <1>2, UpsIs

\* What a family is: a parent lives, and is older.
Family == TypeOK /\ ParentOutlivesChildren

LEMMA FamilyIs ==
  ASSUME Family
  PROVE  /\ live \in SUBSET Bases /\ live \in SUBSET Nat /\ Null \notin live
         /\ Lineage(Null) = {}
         /\ \A b \in live : b \in Lineage(b) /\ Lineage(b) = {b} \cup Lineage(parent[b])
         /\ \A b \in live : parent[b] = Null \/ (parent[b] \in live /\ parent[b] < b)
BY BasesAre, LineageIs DEF Family, TypeOK, ParentOutlivesChildren

LEMMA TreeHere ==
  ASSUME Family
  PROVE  Tree(live, parent, Ups(Bases, parent))
<1>1. \A b : Lineage(b) = Ups(Bases, parent)[b]
  BY DEF Lineage, Ups
<1> QED BY <1>1, FamilyIs DEF Tree

\* The first of a set of bases.
LEMMA FirstOfLeast ==
  ASSUME Family, NEW C \in SUBSET live
  PROVE  /\ C = {} => FirstOf(C) = Null
         /\ C # {} => Eldest(C, FirstOf(C)) /\ FirstOf(C) # Null
<1>1. live \in SUBSET Nat /\ Null \notin live
  BY FamilyIs
<1>2. C # {} => Min(C) \in C /\ \A c \in C : Min(C) <= c
  BY <1>1, MinIn
<1> QED BY <1>1, <1>2 DEF FirstOf, Eldest

\* What a walk that stands on n has still to visit.
Rest(n) == Remaining(live, parent, Ups(Bases, parent), n)

\* The walk starts in front of everything, and has nothing left at its end.
LEMMA RestBounds ==
  ASSUME Family
  PROVE  Rest(FirstOf(Roots)) = live /\ Rest(Null) = {}
<1>1. Roots = Childs(live, parent, Null) /\ Roots \in SUBSET live
  BY DEF Roots, Children, Childs
<1>2. IF Roots = {} THEN FirstOf(Roots) = Null ELSE Eldest(Roots, FirstOf(Roots))
  BY <1>1, FirstOfLeast
<1> QED BY <1>1, <1>2, TreeHere, RootRest, BeyondNull DEF Rest

\* getTreeNext leaves out nothing, and visits nothing twice: what the walk has
\* to visit on n it still has to visit on the next base, but for n.
LEMMA TreeNextRest ==
  ASSUME Family, NEW n \in live
  PROVE  Rest(TreeNext(n)) = Rest(n) \ {n}
<1> DEFINE up == Ups(Bases, parent)
           T == {a \in up[n] : Younger(live, parent, a) # {}}
<1>1. Tree(live, parent, up) /\ \A b : Lineage(b) = up[b]
  BY TreeHere DEF Lineage, Ups
<1>2. Children(n) = Childs(live, parent, n) /\ Children(n) \in SUBSET live
  BY DEF Children, Childs
<1>3. \A a \in live : Sibling(a) = FirstOf(Younger(live, parent, a))
                      /\ Younger(live, parent, a) \in SUBSET live
  BY DEF Sibling, Children, Younger
<1>4. \A a \in up[n] : a \in live
  BY <1>1, UpsLive
<1>5. \A a \in live : IF Younger(live, parent, a) = {} THEN Sibling(a) = Null
                      ELSE Eldest(Younger(live, parent, a), Sibling(a)) /\ Sibling(a) # Null
  BY <1>3, FirstOfLeast
<1>6. T = {a \in Lineage(n) : Sibling(a) # Null}
  BY <1>1, <1>4, <1>5
<1>7. T \in SUBSET Nat /\ \A a \in T : a <= n
  BY <1>1, <1>4, UpsLive, FamilyIs
<1>8. TreeNextNotChild(n) = IF T = {} THEN Null ELSE Sibling(Max(T))
  BY <1>6 DEF TreeNextNotChild
<1>9. T # {} => Max(T) \in T
  <2>1. n \in Nat
    BY FamilyIs
  <2> HIDE DEF T
  <2> QED BY <1>7, <2>1, MaxIn
<1>10. IF T = {} THEN TreeNextNotChild(n) = Null
       ELSE Eldest(Younger(live, parent, Max(T)), TreeNextNotChild(n))
  BY <1>4, <1>5, <1>8, <1>9
<1> HIDE DEF up
<1>11. Passes(live, parent, up, n, TreeNextNotChild(n))
  BY <1>1, <1>10, PassesIs
<1>12. IF Childs(live, parent, n) = {} THEN Passes(live, parent, up, n, TreeNext(n))
       ELSE Eldest(Childs(live, parent, n), TreeNext(n))
  BY <1>2, <1>11, FirstOfLeast DEF TreeNext
<1> QED BY <1>1, <1>12, PreorderStep DEF Rest, up

-----------------------------------------------------------------------------
(* The flags and the deletion of families.                                 *)

InConnect == inLoop /\ m_nowLoopProc = "CONNECT"

\* Below a base that is disabled, or disables what is below it, no base is
\* enabled: flags are cleared from the root downwards.
FlagsReach ==
  \A b \in live : parent[b] # Null /\ ~disable[b] =>
    ~rootDisable[parent[b]] /\ ~disable[parent[b]]

\* What the CONNECT walk has visited has its parent's flags.
FlagsSpread ==
  \A b \in live :
    /\ parent[b] # Null /\ mLifecycleState[b] # "DELETING"
    /\ ~inLoop \/ (InConnect /\ b \notin Rest(next))
    => disable[b] = (rootDisable[parent[b]] \/ disable[parent[b]])

\* A child of a base that is being deleted is being deleted, or will be once
\* the CONNECT walk gets there.
FamilyKept ==
  \A b \in live : parent[b] # Null /\ mLifecycleState[parent[b]] = "DELETING" =>
    \/ mLifecycleState[b] = "DELETING"
    \/ InConnect /\ mDeleteRequested[b] /\ b \in Rest(next)

FamilyInv == FlagsReach /\ FlagsSpread /\ (~OrphanCreates => FamilyKept)

LEMMA FamilyHere ==
  ASSUME IInv
  PROVE  Family /\ live \in SUBSET Bases
         /\ \A b \in live : parent[b] # Null => parent[b] \in live /\ parent[b] # b
BY FamilyIs DEF IInv, Family

LEMMA SameTree ==
  ASSUME live' = live, parent' = parent
  PROVE  /\ \A x : Lineage(x)' = Lineage(x) /\ Children(x)' = Children(x)
         /\ Rest(next)' = Rest(next')
<1>1. \A x : Lineage(x)' = Lineage(x)
  BY DEF Lineage
<1>2. \A x : Children(x)' = Children(x)
  BY DEF Children
<1>3. Lineage(next)' = Lineage(next')
  BY DEF Lineage
<1>4. Rest(next)' = Rest(next')
  BY <1>1, <1>3 DEF Rest
<1> QED BY <1>1, <1>2, <1>4

\* No deletion is taken back.
LEMMA DeletingStays ==
  ASSUME IInv, [Next]_vars, NEW b \in Bases, mLifecycleState[b] = "DELETING"
  PROVE  mLifecycleState'[b] = "DELETING"
<1> USE DEF lifeVars
<1>1. mLifecycleState \in [Bases -> LIFECYCLE_e]
  BY DEF IInv, TypeOK
<1>2. \A x : Activate(x) /\ x # b => mLifecycleState'[b] = "DELETING"
  BY <1>1 DEF Activate
<1>3. CASE ConnectProc
  <2>1. ConnectDelete(next) => mLifecycleState'[b] = "DELETING"
    BY <1>1 DEF ConnectDelete, TakeRequest, LeaveLists, ScheduleDelete
  <2>2. ConnectUpdate(next) => mLifecycleState'[b] = "DELETING"
    BY <1>2 DEF ConnectUpdate, InheritFlags, ScheduleDeferred
  <2> QED BY <1>3, <2>1, <2>2 DEF ConnectProc
<1>4. CASE StartLoop \/ NextProc \/ EndLoop \/ WalkPack
  BY <1>4 DEF StartLoop, NextProc, EndLoop, WalkPack, BeginWalk
<1>5. CASE CreateSucceeded
  <2>1. Top # b
    BY <1>5, CreatingTop DEF CreateSucceeded
  <2> QED BY <1>2, <1>5, <2>1 DEF CreateSucceeded
<1>6. CASE CreateWaiting \/ CreateFailed \/ DeleteSucceeded \/ PackEnds \/ EnableScene
  BY <1>6 DEF CreateWaiting, CreateFailed, DeleteSucceeded, PackEnds, EnableScene
<1>7. CASE \E x \in live : DeleteRequest(x)
  BY <1>7 DEF DeleteRequest
<1>8. CASE \E p \in live \cup {Null}, prof \in Profiles : MakeBase(p, prof)
  BY <1>8 DEF MakeBase
<1>9. CASE StallMake \/ Spin \/ UNCHANGED vars
  BY <1>9 DEF StallMake, Spin, vars
<1> QED BY <1>3, <1>4, <1>5, <1>6, <1>7, <1>8, <1>9 DEF Next, Framework, Return

\* A step that moves neither the tree, nor the flags, nor the walk, schedules
\* no deletion and takes no request back.
LEMMA QuietFamily ==
  ASSUME IInv, FamilyInv, live' = live, parent' = parent,
         rootDisable' = rootDisable, disable' = disable,
         inLoop' = inLoop, m_nowLoopProc' = m_nowLoopProc, next' = next,
         \A b \in live : mLifecycleState'[b] = "DELETING" <=> mLifecycleState[b] = "DELETING",
         \A b \in live : mDeleteRequested[b] => mDeleteRequested'[b]
  PROVE  FamilyInv'
<1>1. Rest(next)' = Rest(next) /\ InConnect' = InConnect
  BY SameTree DEF InConnect
<1>2. FlagsReach'
  BY DEF FamilyInv, FlagsReach
<1>3. FlagsSpread'
  BY <1>1 DEF FamilyInv, FlagsSpread
<1>4. FamilyKept => FamilyKept'
  BY <1>1, FamilyHere DEF FamilyKept
<1> QED BY <1>2, <1>3, <1>4 DEF FamilyInv

\* The walks of the frame begin and end.
LEMMA WalkFamily ==
  ASSUME IInv, FamilyInv, StartLoop \/ NextProc \/ EndLoop \/ WalkPack
  PROVE  FamilyInv'
<1>1. /\ live' = live /\ parent' = parent /\ rootDisable' = rootDisable /\ disable' = disable
      /\ mLifecycleState' = mLifecycleState /\ mDeleteRequested' = mDeleteRequested
  BY DEF StartLoop, NextProc, EndLoop, WalkPack, BeginWalk, baseVars, flagVars, lifeVars
<1>2. FlagsReach'
  BY <1>1 DEF FamilyInv, FlagsReach
<1>3. Rest(next)' = Rest(next') /\ Rest(Null) = {} /\ Rest(FirstOf(Roots)) = live
  BY <1>1, SameTree, RestBounds, FamilyHere
<1>4. \/ inLoop' /\ ~InConnect'
      \/ inLoop' /\ next' = FirstOf(Roots) /\ ~InConnect
      \/ InConnect /\ next = Null /\ ~inLoop'
  BY DEF StartLoop, NextProc, EndLoop, WalkPack, BeginWalk, WalkDone, InConnect, loopVars
<1>5. ~InConnect \/ next = Null
  BY DEF StartLoop, NextProc, EndLoop, WalkPack, WalkDone, InConnect
<1>6. FlagsSpread'
  <2> SUFFICES ASSUME NEW b \in live, parent[b] # Null, mLifecycleState[b] # "DELETING",
                      ~inLoop' \/ (InConnect' /\ b \notin Rest(next'))
               PROVE  disable[b] = (rootDisable[parent[b]] \/ disable[parent[b]])
    BY <1>1, <1>3 DEF FlagsSpread
  <2>1. InConnect /\ next = Null
    BY <1>3, <1>4
  <2> QED BY <1>3, <2>1 DEF FamilyInv, FlagsSpread
<1>7. FamilyKept => FamilyKept'
  <2> SUFFICES ASSUME FamilyKept, NEW b \in live, parent[b] # Null,
                      mLifecycleState[parent[b]] = "DELETING"
               PROVE  mLifecycleState[b] = "DELETING"
    BY <1>1 DEF FamilyKept
  <2> QED BY <1>3, <1>5 DEF FamilyKept
<1> QED BY <1>2, <1>6, <1>7 DEF FamilyInv

\* connectProc gives a base its parent's flags, or schedules its deletion and
\* requests its children's, which the walk has still to visit.
LEMMA ConnectFamily ==
  ASSUME IInv, IInv', FamilyInv, [Next]_vars, ConnectProc
  PROVE  FamilyInv'
<1> DEFINE n == next
<1>1. /\ n \in live /\ InConnect /\ InConnect' /\ live' = live /\ parent' = parent
      /\ rootDisable' = rootDisable /\ next' = TreeNext(n)
  BY DEF ConnectProc, WalkIntact, IInv, InConnect, baseVars
<1>2. Family /\ live \in SUBSET Bases
      /\ \A b \in live : parent[b] # Null => parent[b] \in live /\ parent[b] # b
  BY FamilyHere
<1>3. Rest(next)' = Rest(next')
  BY <1>1, SameTree
<1>4. \A b \in live : b \in Rest(n) /\ b # n => b \in Rest(next)'
  BY <1>1, <1>2, <1>3, TreeNextRest
<1>5. \A b \in live : parent[b] = n => b \in Rest(n) /\ b # n
  <2> DEFINE up == Ups(Bases, parent)
  <2>1. Tree(live, parent, up)
    BY <1>2, TreeHere
  <2> HIDE DEF up
  <2>2. \A b \in live : parent[b] = n => n \in up[b]
    BY <1>1, <2>1, TreeIs
  <2>3. \A x : x \in live /\ n \in up[x] => x \in Rest(n)
    BY DEF Rest, Remaining, Under, up
  <2>4. n # Null
    BY <1>1, <1>2, FamilyIs
  <2> QED BY <1>2, <2>2, <2>3, <2>4
<1>6. /\ disable \in [Bases -> BOOLEAN] /\ mLifecycleState \in [Bases -> LIFECYCLE_e]
      /\ mDeleteRequested \in [Bases -> BOOLEAN]
  BY DEF IInv, TypeOK
<1>7. \A b \in live : b # n => disable'[b] = disable[b]
      /\ (mLifecycleState[b] # "DELETING" => mLifecycleState'[b] # "DELETING")
  <2>1. ASSUME NEW b \in live, b # n PROVE disable'[b] = disable[b]
    BY <1>1, <1>2, <1>6, <2>1 DEF ConnectProc, ConnectDelete, ConnectUpdate, InheritFlags
  <2>2. ASSUME NEW b \in live, b # n, mLifecycleState[b] # "DELETING",
               mLifecycleState'[b] = "DELETING"
        PROVE  FALSE
    <3>1. ConnectDelete(n) \/ ConnectUpdate(n)
      BY DEF ConnectProc
    <3>2. ConnectDelete(n) => mLifecycleState'[b] = mLifecycleState[b]
      BY <1>1, <1>2, <1>6, <2>2 DEF ConnectDelete
    <3>3. ConnectUpdate(n) => mLifecycleState'[b] = mLifecycleState[b]
      BY <1>1, <1>2, <1>6, <2>2 DEF ConnectUpdate, ScheduleDeferred, Activate
    <3> QED BY <2>2, <3>1, <3>2, <3>3
  <2> QED BY <2>1, <2>2
<1>8. CASE ConnectDelete(n)
  <2>1. /\ mDeleteRequested[n] /\ disable' = disable
        /\ mLifecycleState' = [mLifecycleState EXCEPT ![n] = "DELETING"]
        /\ mDeleteRequested' = [RequestDeletion(Children(n)) EXCEPT ![n] = FALSE]
    BY <1>8 DEF ConnectDelete, TakeRequest
  <2>2. FlagsReach'
    BY <1>1, <2>1 DEF FamilyInv, FlagsReach
  <2>3. FlagsSpread'
    <3> SUFFICES ASSUME NEW b \in live, parent[b] # Null, mLifecycleState'[b] # "DELETING",
                        b \notin Rest(next)'
                 PROVE  disable[b] = (rootDisable[parent[b]] \/ disable[parent[b]])
      BY <1>1, <2>1 DEF FlagsSpread, InConnect
    <3>1. b # n
      BY <1>1, <1>2, <1>6, <2>1
    <3>2. b \notin Rest(n) /\ mLifecycleState[b] # "DELETING"
      BY <1>2, <1>4, <1>6, <2>1, <3>1
    <3> QED BY <1>1, <3>2 DEF FamilyInv, FlagsSpread
  <2>4. FamilyKept => FamilyKept'
    <3> SUFFICES ASSUME FamilyKept, NEW b \in live, parent[b] # Null,
                        mLifecycleState'[parent[b]] = "DELETING", mLifecycleState'[b] # "DELETING"
                 PROVE  mDeleteRequested'[b] /\ b \in Rest(next)'
      BY <1>1 DEF FamilyKept
    <3>1. b # n /\ mLifecycleState[b] # "DELETING"
      BY <1>1, <1>2, <1>6, <2>1
    <3>2. mDeleteRequested'[b] = RequestDeletion(Children(n))[b]
      BY <1>2, <2>1, <3>1, RequestDeletionIs DEF IInv
    <3>3. CASE parent[b] = n
      <4>1. b \in Children(n) /\ (mDeleteRequested[b] \/ Unrequested(b))
        BY <3>1, <3>3 DEF Children, Unrequested
      <4>2. RequestDeletion(Children(n))[b]
        BY <1>2, <4>1, RequestDeletionIs DEF IInv
      <4> QED BY <1>4, <1>5, <3>2, <3>3, <4>2
    <3>4. CASE parent[b] # n
      <4>1. mLifecycleState[parent[b]] = "DELETING"
        BY <1>2, <1>6, <2>1, <3>4
      <4>2. mDeleteRequested[b] /\ b \in Rest(n)
        BY <3>1, <4>1 DEF FamilyKept
      <4>3. RequestDeletion(Children(n))[b]
        BY <1>2, <4>2, RequestDeletionIs DEF IInv
      <4> QED BY <1>4, <3>1, <3>2, <4>2, <4>3
    <3> QED BY <3>3, <3>4
  <2> QED BY <2>2, <2>3, <2>4 DEF FamilyInv
<1>9. CASE ConnectUpdate(n)
  <2>1. /\ ~mDeleteRequested[n] /\ mDeleteRequested' = mDeleteRequested
        /\ parent[n] = Null => disable' = disable
        /\ parent[n] # Null => disable'[n] = (rootDisable[parent[n]] \/ disable[parent[n]])
    BY <1>1, <1>2, <1>6, <1>9 DEF ConnectUpdate, InheritFlags
  <2>2. ~disable[n] => ~disable'[n]
    BY <1>1, <2>1 DEF FamilyInv, FlagsReach
  <2>3. ASSUME NEW b \in live, parent[b] # Null
        PROVE  ~disable[parent[b]] => ~disable'[parent[b]]
    BY <1>2, <1>7, <2>2, <2>3
  <2>4. FlagsReach'
    <3> SUFFICES ASSUME NEW b \in live, parent[b] # Null, ~disable'[b]
                 PROVE  ~rootDisable[parent[b]] /\ ~disable'[parent[b]]
      BY <1>1 DEF FlagsReach
    <3>1. CASE b = n
      BY <1>1, <2>1, <2>3, <3>1
    <3>2. CASE b # n
      BY <1>7, <2>3, <3>2 DEF FamilyInv, FlagsReach
    <3> QED BY <3>1, <3>2
  <2>5. FlagsSpread'
    <3> SUFFICES ASSUME NEW b \in live, parent[b] # Null, mLifecycleState'[b] # "DELETING",
                        b \notin Rest(next)'
                 PROVE  disable'[b] = (rootDisable[parent[b]] \/ disable'[parent[b]])
      BY <1>1 DEF FlagsSpread, InConnect
    <3>1. parent[b] # n /\ disable'[parent[b]] = disable[parent[b]]
      BY <1>2, <1>4, <1>5, <1>7
    <3>2. CASE b = n
      BY <2>1, <3>1, <3>2
    <3>3. CASE b # n
      <4>1. b \notin Rest(n) /\ mLifecycleState[b] # "DELETING" /\ disable'[b] = disable[b]
        BY <1>2, <1>4, <1>7, <3>3, DeletingStays
      <4> QED BY <1>1, <3>1, <4>1 DEF FamilyInv, FlagsSpread
    <3> QED BY <3>2, <3>3
  <2>6. FamilyKept => FamilyKept'
    <3> SUFFICES ASSUME FamilyKept, NEW b \in live, parent[b] # Null,
                        mLifecycleState'[parent[b]] = "DELETING", mLifecycleState'[b] # "DELETING"
                 PROVE  mDeleteRequested[b] /\ b \in Rest(next)'
      BY <1>1, <2>1 DEF FamilyKept
    <3>1. mLifecycleState[n] # "DELETING" => mLifecycleState'[n] # "DELETING"
      BY <1>1, <1>2, <1>6, <1>9 DEF ConnectUpdate, ScheduleDeferred, Activate
    <3>2. mLifecycleState[parent[b]] = "DELETING" /\ mLifecycleState[b] # "DELETING"
      BY <1>2, <1>7, <3>1, DeletingStays
    <3>3. mDeleteRequested[b] /\ b \in Rest(n)
      BY <3>2 DEF FamilyKept
    <3> QED BY <1>4, <2>1, <3>3
  <2> QED BY <2>4, <2>5, <2>6 DEF FamilyInv
<1> QED BY <1>8, <1>9 DEF ConnectProc


\* A new base takes over its parent's flags; nobody is its child.
LEMMA MakeFamily ==
  ASSUME IInv, FamilyInv, NEW p \in live \cup {Null}, NEW prof \in Profiles, MakeBase(p, prof)
  PROVE  FamilyInv'
<1> DEFINE b == m_rootUniqueID
<1>1. b \in Bases /\ b \notin live /\ mLifecycleState[b] = "CREATING"
  <2>1. b \in BASE_ID_FIRST..BASE_ID_MAX /\ b # BASE_ID_MAX /\ b + 1 # BASE_ID_MAX
    BY DEF MakeBase, IInv, TypeOK, Stalled
  <2>2. b \in Bases
    BY <2>1, IdAssumption DEF Bases, BASE_ID_FIRST
  <2> QED BY <2>1, <2>2, IdAssumption DEF IInv, FreshIds, BASE_ID_FIRST
<1>2. /\ live' = live \cup {b} /\ mLifecycleState' = mLifecycleState
      /\ mDeleteRequested' = mDeleteRequested /\ inLoop' = inLoop
      /\ m_nowLoopProc' = m_nowLoopProc
      /\ parent' = [parent EXCEPT ![b] = p]
      /\ disable' = [disable EXCEPT ![b] = p # Null /\ (rootDisable[p] \/ disable[p])]
      /\ rootDisable' = [rootDisable EXCEPT ![b] = prof \in Scenes]
      /\ stack' = Append(stack, b)
  BY DEF MakeBase, lifeVars, loopVars
<1>3. stack # << >> \/ ~inLoop
  BY DEF MakeBase, MayCreate
<1>4. ~InConnect /\ ~InConnect'
  BY <1>2, <1>3 DEF InConnect, IInv, PhaseLegal
<1> HIDE DEF b
<1>5. Null \notin Bases /\ live \in SUBSET Bases
      /\ \A c \in live : parent[c] # Null => parent[c] \in live /\ parent[c] # c
  BY BasesAre, FamilyHere
<1>6. /\ parent \in [Bases -> Bases \cup {Null}] /\ disable \in [Bases -> BOOLEAN]
      /\ rootDisable \in [Bases -> BOOLEAN]
  BY DEF IInv, TypeOK
<1>7. /\ parent'[b] = p /\ disable'[b] = (p # Null /\ (rootDisable[p] \/ disable[p]))
      /\ \A c \in live : parent'[c] = parent[c] /\ disable'[c] = disable[c]
                         /\ rootDisable'[c] = rootDisable[c]
  BY <1>1, <1>2, <1>5, <1>6
<1>8. \A c \in live : parent[c] # Null =>
        disable'[parent[c]] = disable[parent[c]] /\ rootDisable'[parent[c]] = rootDisable[parent[c]]
  BY <1>5, <1>7
<1>9. p # Null => disable'[p] = disable[p] /\ rootDisable'[p] = rootDisable[p]
  BY <1>7
<1>10. FlagsReach'
  <2> SUFFICES ASSUME NEW c \in live', parent'[c] # Null, ~disable'[c]
               PROVE  ~rootDisable'[parent'[c]] /\ ~disable'[parent'[c]]
    BY DEF FlagsReach
  <2>1. CASE c = b
    BY <1>7, <1>9, <2>1
  <2>2. CASE c # b
    BY <1>2, <1>7, <1>8, <2>2 DEF FamilyInv, FlagsReach
  <2> QED BY <2>1, <2>2
<1>11. FlagsSpread'
  <2> SUFFICES ASSUME NEW c \in live', parent'[c] # Null, mLifecycleState[c] # "DELETING", ~inLoop
               PROVE  disable'[c] = (rootDisable'[parent'[c]] \/ disable'[parent'[c]])
    BY <1>2, <1>4 DEF FlagsSpread
  <2>1. CASE c = b
    BY <1>7, <1>9, <2>1
  <2>2. CASE c # b
    BY <1>2, <1>7, <1>8, <2>2 DEF FamilyInv, FlagsSpread
  <2> QED BY <2>1, <2>2
<1>12. ~OrphanCreates /\ FamilyKept => FamilyKept'
  <2> SUFFICES ASSUME ~OrphanCreates, FamilyKept, NEW c \in live', parent'[c] # Null,
                      mLifecycleState[parent'[c]] = "DELETING"
               PROVE  mLifecycleState[c] = "DELETING"
    BY <1>2 DEF FamilyKept
  <2>1. c # b
    BY <1>7 DEF MakeBase, MayCreate
  <2> QED BY <1>2, <1>4, <1>7, <2>1 DEF FamilyKept
<1> QED BY <1>10, <1>11, <1>12 DEF FamilyInv

\* A base that is destroyed, or a scene that enables its family, is not met by
\* the CONNECT walk.
LEMMA ReturnFamily ==
  ASSUME IInv, IInv', FamilyInv, DeleteSucceeded \/ EnableScene
  PROVE  FamilyInv'
<1>1. stack # << >> /\ inLoop
  BY Popped DEF DeleteSucceeded, EnableScene, Running, IsMake, IInv, PhaseLegal
<1>2. /\ ~InConnect /\ ~InConnect' /\ inLoop' = inLoop
      /\ live' \subseteq live /\ parent' = parent /\ disable' = disable
      /\ mLifecycleState' = mLifecycleState
  BY <1>1 DEF DeleteSucceeded, EnableScene, baseVars, flagVars, lifeVars, loopVars,
     InConnect, IInv, PhaseLegal
<1>3. \A b \in Bases : rootDisable'[b] => rootDisable[b]
  BY DEF DeleteSucceeded, EnableScene, flagVars, IInv, TypeOK
<1>4. FlagsReach'
  BY <1>2, <1>3, FamilyHere DEF FamilyInv, FlagsReach
<1>5. FlagsSpread'
  BY <1>1, <1>2 DEF FlagsSpread
<1>6. FamilyKept => FamilyKept'
  BY <1>2 DEF FamilyKept
<1> QED BY <1>4, <1>5, <1>6 DEF FamilyInv

LEMMA NextFamily ==
  ASSUME IInv, IInv', FamilyInv, [Next]_vars
  PROVE  FamilyInv'
<1>1. CASE StartLoop \/ NextProc \/ EndLoop \/ WalkPack
  BY <1>1, WalkFamily
<1>2. CASE ConnectProc
  BY <1>2, ConnectFamily
<1>3. CASE \E p \in live \cup {Null}, prof \in Profiles : MakeBase(p, prof)
  BY <1>3, MakeFamily
<1>4. CASE DeleteSucceeded \/ EnableScene
  BY <1>4, ReturnFamily
<1>5. CASE \/ CreateSucceeded \/ CreateWaiting \/ CreateFailed \/ PackEnds
           \/ \E x \in live : DeleteRequest(x)
           \/ StallMake \/ Spin \/ UNCHANGED vars
  <2>1. /\ live' = live /\ parent' = parent /\ rootDisable' = rootDisable /\ disable' = disable
        /\ inLoop' = inLoop /\ m_nowLoopProc' = m_nowLoopProc /\ next' = next
    BY <1>5 DEF CreateSucceeded, CreateWaiting, CreateFailed, PackEnds, DeleteRequest, StallMake,
       Spin, vars, baseVars, flagVars, loopVars
  <2>2. live \in SUBSET Bases
    BY FamilyHere
  <2>3. \A b \in live : mDeleteRequested[b] => mDeleteRequested'[b]
    <3>1. \A T : \A b \in live : mDeleteRequested[b] => RequestDeletion(T)[b]
      BY <2>2, RequestDeletionIs DEF IInv
    <3>2. mDeleteRequested' = mDeleteRequested \/ \E T : mDeleteRequested' = RequestDeletion(T)
      BY <1>5 DEF CreateSucceeded, CreateWaiting, CreateFailed, PackEnds, DeleteRequest, StallMake,
         Spin, vars, lifeVars
    <3> QED BY <3>1, <3>2
  <2>4. \A b \in live : mLifecycleState'[b] = "DELETING" => mLifecycleState[b] = "DELETING"
    <3>1. mLifecycleState \in [Bases -> LIFECYCLE_e]
      BY DEF IInv, TypeOK
    <3>2. \A x : Activate(x) => \A b \in live : mLifecycleState'[b] = "DELETING"
                                                  => mLifecycleState[b] = "DELETING"
      BY <2>2, <3>1 DEF Activate
    <3> QED BY <1>5, <3>2 DEF CreateSucceeded, CreateWaiting, CreateFailed, PackEnds, DeleteRequest,
       StallMake, Spin, vars, lifeVars
  <2>5. \A b \in live : mLifecycleState[b] = "DELETING" => mLifecycleState'[b] = "DELETING"
    BY <2>2, DeletingStays
  <2> QED BY <2>1, <2>3, <2>4, <2>5, QuietFamily
<1> QED BY <1>1, <1>2, <1>3, <1>4, <1>5 DEF Next, Framework, Return

LEMMA FamilyInvariant == Spec => [](IInv /\ FamilyInv)
<1>1. Init => FamilyInv
  BY DEF Init, FamilyInv, FlagsReach, FlagsSpread, FamilyKept
<1>2. IInv /\ IInv' /\ FamilyInv /\ [Next]_vars => FamilyInv'
  BY NextFamily
<1> QED BY <1>1, <1>2, InductiveInvariant, PTL DEF Spec

\* After every frame the flags of a scene have reached its whole family, in
\* one CONNECT walk, whatever was created where and when.
THEOREM FlagsReachFamilies == Spec => []FlagsSynced
<1>1. FamilyInv => FlagsSynced
  BY DEF FamilyInv, FlagsSpread, FlagsSynced
<1> QED BY <1>1, FamilyInvariant, PTL

\* After every frame the family of a base that is scheduled for deletion is
\* scheduled with it, if nobody creates under such a base.
THEOREM FamiliesDeletedTogether == ~OrphanCreates => (Spec => []FamilyScheduled)
<1>1. ~OrphanCreates /\ FamilyInv => FamilyScheduled
  BY DEF FamilyInv, FamilyKept, FamilyScheduled, InConnect
<1>2. ASSUME ~OrphanCreates PROVE Spec => []FamilyScheduled
  <2>1. FamilyInv => FamilyScheduled
    BY <1>1, <1>2
  <2> QED BY <2>1, FamilyInvariant, PTL
<1> QED BY <1>2

\* An enabled base has no disabled ancestor that disables what is below it.
LEMMA EnabledLineage ==
  ASSUME IInv, FlagsReach, NEW b \in live, ~disable[b], NEW a \in Lineage(b), a # b
  PROVE  ~rootDisable[a]
<1> DEFINE P(x) == ~disable[x] => \A v \in Lineage(x) \ {x} : ~rootDisable[v]
           T == {x \in live : ~P(x)}
<1>0. Family
  BY FamilyHere
<1> USE FamilyIs
<1>1. SUFFICES ASSUME T # {} PROVE FALSE
  OBVIOUS
<1>2. PICK x \in T : \A y \in T : x <= y
  BY <1>0, <1>1, NatMin
<1>3. x \in live /\ ~P(x)
  BY <1>2
<1>4. CASE parent[x] = Null
  BY <1>0, <1>3, <1>4
<1>5. CASE parent[x] # Null
  <2>1. parent[x] \in live /\ parent[x] < x
    BY <1>0, <1>3, <1>5
  <2>2. P(parent[x])
    BY <1>0, <1>2, <2>1
  <2>3. ~rootDisable[parent[x]] /\ ~disable[parent[x]]
    BY <1>3, <1>5 DEF FlagsReach
  <2> QED BY <1>0, <1>3, <2>2, <2>3
<1> QED BY <1>4, <1>5

\* An operation of the EXECUTE or DRAW walk is called on an active base only,
\* whose deletion is not requested, and below no scene that still waits for
\* its children.
THEOREM OperationsAreLegal == Spec => RunsLegally
<1> DEFINE Step == \A b \in live :
       /\ stack = << >> /\ stack' = << b >>
       /\ m_nowLoopProc \in {"EXECUTE", "DRAW"}
       => /\ mLifecycleState[b] = "ACTIVE" /\ ~mDeleteRequested[b]
          /\ \A a \in Lineage(b) \ {b} : ~rootDisable[a]
<1>1. ASSUME IInv, FamilyInv, [Next]_vars PROVE [Step]_vars
  <2> SUFFICES ASSUME NEW b \in live, stack = << >>, stack' = << b >>,
                      m_nowLoopProc \in {"EXECUTE", "DRAW"}
               PROVE  /\ mLifecycleState[b] = "ACTIVE" /\ ~mDeleteRequested[b]
                      /\ \A a \in Lineage(b) \ {b} : ~rootDisable[a]
    OBVIOUS
  <2>1. stack' # stack /\ inLoop
    BY <1>1 DEF IInv, PhaseLegal
  <2>2. WalkPack
    BY <1>1, <2>1 DEF Next, Framework, Return, StartLoop, NextProc, EndLoop, BeginWalk, ConnectProc,
       CreateSucceeded, CreateWaiting, CreateFailed, DeleteSucceeded, PackEnds, EnableScene, Running,
       DeleteRequest, MakeBase, MayCreate, StallMake, Spin, vars
  <2>3. b = next /\ Ready(b)
    BY <2>2 DEF WalkPack
  <2>4. ~mDeleteRequested[b] /\ ~disable[b]
    BY <2>3 DEF Ready
  <2>5. mLifecycleState[b] = "ACTIVE"
    BY <1>1, <2>2, <2>3 DEF WalkPack, IInv, WalkIntact, Walked, ScheduleMatchesState
  <2> QED BY <1>1, <2>4, <2>5, EnabledLineage DEF FamilyInv
<1> QED BY <1>1, FamilyInvariant, PTL DEF Spec, RunsLegally

-----------------------------------------------------------------------------
(* No base joins the list that is being walked.                             *)

\* Where nobody creates during DRAW, no base is being made in that phase.
DrawAlone == m_nowLoopProc = "DRAW" => Makes = {}

\* What the return of an operation leaves of the bases being made.
LEMMA MakesReturn ==
  ASSUME IInv, Return
  PROVE  Makes' \subseteq Makes /\ m_nowLoopProc' = m_nowLoopProc
<1>1. stack # << >> /\ stack' = Pop /\ inLoop' = inLoop /\ m_nowLoopProc' = m_nowLoopProc
  BY DEF Return, CreateSucceeded, CreateWaiting, CreateFailed, DeleteSucceeded, PackEnds,
     EnableScene, Running, loopVars
<1> QED BY <1>1, Popped

LEMMA NextDrawAlone ==
  ASSUME ~DrawCreates, IInv, DrawAlone, [Next]_vars
  PROVE  DrawAlone'
<1> USE DEF DrawAlone
<1>1. CASE StartLoop \/ NextProc \/ EndLoop \/ ConnectProc
  <2>1. stack' = << >>
    BY <1>1 DEF StartLoop, NextProc, WalkDone, BeginWalk, EndLoop, ConnectProc
  <2> QED BY <2>1, MakesIs
<1>2. CASE WalkPack
  <2>1. stack' = << >> \/ stack' = << next >>
    BY <1>2 DEF WalkPack
  <2>2. inLoop'
    BY <1>2 DEF WalkPack
  <2>3. \A i \in 1..Len(<< next >>) : ~(i > 1)
    OBVIOUS
  <2>4. MakesOf(<< next >>, inLoop') = {}
    BY <2>2, <2>3 DEF MakesOf
  <2> QED BY <2>1, <2>4, MakesIs
<1>3. CASE \E p \in live \cup {Null}, prof \in Profiles : MakeBase(p, prof)
  <2>1. m_nowLoopProc' = m_nowLoopProc
    BY <1>3 DEF MakeBase, loopVars
  <2>2. m_nowLoopProc # "DRAW"
    BY <1>3 DEF MakeBase, MayCreate, IInv, PhaseLegal
  <2> QED BY <2>1, <2>2
<1>4. CASE Return
  BY <1>4, MakesReturn
<1>5. CASE (\E x \in live : DeleteRequest(x)) \/ StallMake \/ Spin \/ UNCHANGED vars
  <2>1. stack' = stack /\ inLoop' = inLoop /\ m_nowLoopProc' = m_nowLoopProc
    BY <1>5 DEF DeleteRequest, StallMake, Spin, vars, loopVars
  <2> QED BY <2>1, MakesIs
<1> QED BY <1>1, <1>2, <1>3, <1>4, <1>5 DEF Next, Framework

\* In the four list phases only an operation that returns changes a list.
LEMMA QuietLists ==
  ASSUME IInv, [Next]_vars, inLoop, m_nowLoopProc' = m_nowLoopProc, m_nowLoopProc # "CONNECT"
  PROVE  UNCHANGED listVars \/ CreateSucceeded \/ CreateWaiting \/ DeleteSucceeded
<1>1. ~StartLoop /\ ~EndLoop /\ ~ConnectProc /\ ~NextProc
  BY DEF StartLoop, EndLoop, WalkDone, ConnectProc, NextProc, BeginWalk
<1>2. CASE WalkPack
  BY <1>2 DEF WalkPack
<1>3. CASE \E p \in live \cup {Null}, prof \in Profiles : MakeBase(p, prof)
  BY <1>3 DEF MakeBase
<1>4. CASE Return
  BY <1>4 DEF Return, CreateFailed, PackEnds, EnableScene
<1>5. CASE (\E x \in live : DeleteRequest(x)) \/ StallMake \/ Spin \/ UNCHANGED vars
  BY <1>5 DEF DeleteRequest, StallMake, Spin, vars
<1> QED BY <1>1, <1>2, <1>3, <1>4, <1>5 DEF Next, Framework

\* f_manager.hpp on m_nowLoopProc, where nobody creates during DRAW: the list
\* of the current phase only ever loses bases until the phase is over.
THEOREM WalkedListsOnlyShrink == ~DrawCreates => (Spec => NothingJoinsTheWalk)
<1> DEFINE Shrinks == inLoop /\ m_nowLoopProc' = m_nowLoopProc /\ m_nowLoopProc # "CONNECT"
                        => ToSet(Walked)' \subseteq ToSet(Walked)
<1>1. ASSUME IInv, DrawAlone, [Next]_vars PROVE Shrinks
  <2> SUFFICES ASSUME inLoop, m_nowLoopProc' = m_nowLoopProc, m_nowLoopProc # "CONNECT"
               PROVE  ToSet(Walked)' \subseteq ToSet(Walked)
    OBVIOUS
  <2> USE DEF Walked
  <2>1. /\ m_createManage \in Seq(Bases) /\ Injective(m_createManage)
        /\ m_deleteManage \in Seq(Bases) /\ Injective(m_deleteManage)
    BY <1>1 DEF IInv, TypeOK, ListsInjective
  <2>2. \A b : ToSet(Unlink(m_createManage, b)) \subseteq ToSet(m_createManage)
    BY <2>1, UnlinkIs
  <2>3. \A b : ToSet(Unlink(m_deleteManage, b)) \subseteq ToSet(m_deleteManage)
    BY <2>1, UnlinkIs
  <2>4. CASE UNCHANGED listVars
    BY <2>4 DEF listVars
  <2>5. CASE CreateSucceeded
    <3>1. m_nowLoopProc # "DRAW"
      BY <1>1, <2>5, CreatingTop DEF CreateSucceeded, DrawAlone
    <3>2. m_nowLoopProc = "EXECUTE" => m_executeManage' = m_executeManage
      BY <2>5 DEF CreateSucceeded
    <3>3. m_deleteManage' = m_deleteManage
      BY <2>5 DEF CreateSucceeded
    <3>4. ToSet(m_createManage)' \subseteq ToSet(m_createManage)
      BY <2>2, <2>5 DEF CreateSucceeded
    <3> QED BY <3>1, <3>2, <3>3, <3>4
  <2>6. CASE CreateWaiting
    <3>1. m_nowLoopProc = "CREATE" => m_createManage' = m_createManage
      BY <2>6 DEF CreateWaiting
    <3>2. UNCHANGED << m_executeManage, m_drawManage, m_deleteManage >>
      BY <2>6 DEF CreateWaiting
    <3> QED BY <3>1, <3>2
  <2>7. CASE DeleteSucceeded
    <3>1. UNCHANGED << m_createManage, m_executeManage, m_drawManage >>
      BY <2>7 DEF DeleteSucceeded
    <3>2. ToSet(m_deleteManage)' \subseteq ToSet(m_deleteManage)
      BY <2>3, <2>7 DEF DeleteSucceeded
    <3> QED BY <3>1, <3>2
  <2> QED BY <1>1, <2>4, <2>5, <2>6, <2>7, QuietLists
<1>2. Init => DrawAlone
  BY DEF Init, DrawAlone
<1>3. ASSUME ~DrawCreates PROVE Spec => NothingJoinsTheWalk
  <2>1. IInv /\ DrawAlone /\ [Next]_vars => DrawAlone'
    BY <1>3, NextDrawAlone
  <2>2. IInv /\ DrawAlone /\ [Next]_vars => Shrinks
    BY <1>1
  <2> QED BY <1>2, <2>1, <2>2, InductiveInvariant, PTL DEF Spec, NothingJoinsTheWalk
<1> QED BY <1>3
=============================================================================
