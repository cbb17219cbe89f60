--------------------------- MODULE StateStateProofs ---------------------------
(***************************************************************************)
(* For any states of an enemy: its sub state is the ice, entered once and  *)
(* left before anything else is done to the state under it.                *)
(***************************************************************************)
EXTENDS StateStateMgr, SequenceTheorems, TLAPS

-----------------------------------------------------------------------------
(* The inductive invariant: where the current manager is in what it is     *)
(* doing, told by the innermost tasks of the stack.                         *)

AllTasks == Tasks \cup {Returning} \cup { Changing(s) : s \in States }

Types ==
  /\ currentMgr \in Mgrs
  /\ todo \in Seq(AllTasks)
  /\ mInitFinalizeLock \in [Mgrs -> BOOLEAN]
  /\ mExecutionLock \in [Mgrs -> BOOLEAN]
  /\ mIsValid \in [Mgrs -> BOOLEAN]
  /\ mpNewStateID \in [Mgrs -> States \cup {Null}]
  /\ mpStateID \in [Mgrs -> States \cup {Null}]
  /\ mpState \in [Mgrs -> States \cup {Null}]

On(s, t) == \E i \in 1..Len(s) : s[i] = t
Before(t, s) == s # << >> /\ Head(s) = t

\* What may be left to do: the outermost execution, what changeState has left,
\* what dEn_c::changeState has left, what returnState has left.
Idle(s) == s = << >> \/ \E m \in Mgrs : s = << Task(m, "executing") >>
RunNext(m, s) == s = << Task(m, "run") >>
ChangedNext(m, s) == Before(Task(m, "changed"), s) /\ Idle(Tail(s))
InitNext(m, s) == Before(Task(m, "initialize"), s) /\ ChangedNext(m, Tail(s))
ChangeNext(s) == (\E x \in States : Before(Changing(x), s)) /\ Idle(Tail(s))
ReturnNext(s) == Before(Returning, s) /\ (Idle(Tail(s)) \/ ChangeNext(Tail(s)))

Live(m) == mIsValid[m] /\ ~mInitFinalizeLock[m]
Absent(m) == ~mIsValid[m] /\ ~mInitFinalizeLock[m]
Finalizing(m) == mIsValid[m] /\ mInitFinalizeLock[m]
Settled(m) == IF mpNewStateID[m] # Null THEN Live(m) ELSE Absent(m)

\* Nothing is being changed, the state about to be executed is there.
AtRest(m) ==
  /\ Settled(m)
  /\ \/ Idle(todo)
     \/ Before(Task(m, "execute"), todo) /\ Tail(todo) = << >>
     \/ Before(Task(m, "initialize"), todo) /\ Idle(Tail(todo))
     \/ m = mainMgr /\ ChangeNext(todo)
     \/ /\ mpNewStateID[m] # Null
        /\ \/ Before(Task(m, "initialize"), todo) /\ RunNext(m, Tail(todo))
           \/ RunNext(m, todo)
           \/ ChangedNext(m, todo)

\* The state requested is on its way.
Entering(m) ==
  /\ mpNewStateID[m] # Null
  /\ \/ /\ IF m = mainMgr THEN ~mInitFinalizeLock[m] ELSE Absent(m)
        /\ Before(Task(m, "finalize"), todo) /\ InitNext(m, Tail(todo))
     \/ /\ m = mainMgr /\ Finalizing(m)
        /\ Before(Task(m, "finalizing"), todo) /\ InitNext(m, Tail(todo))
     \/ Absent(m) /\ InitNext(m, todo)
     \/ /\ Initializing(m)
        /\ Before(Task(m, "initializing"), todo) /\ ChangedNext(m, Tail(todo))

\* The sub state is on its way out.
Leaving(m) ==
  /\ m = subMgr
  /\ \/ Live(m) /\ Before(Task(m, "finalize"), todo) /\ ReturnNext(Tail(todo))
     \/ Finalizing(m) /\ Before(Task(m, "finalizing"), todo) /\ ReturnNext(Tail(todo))
     \/ Absent(m) /\ ReturnNext(todo)

\* A sub state is the ice, and stands over a state that nothing is done to
\* and that is not the ice; else there is none.
SubStateOver ==
  IF isSubState
  THEN /\ Settled(mainMgr) /\ mpState[mainMgr] # Ice
       /\ mpNewStateID[subMgr] = Ice
       /\ mpState[subMgr] \in {Ice, Null}
  ELSE Absent(subMgr)

ExecutionLocks ==
  \A m \in Mgrs :
    mExecutionLock[m] <=> On(todo, Task(m, "run")) \/ On(todo, Task(m, "executing"))

SSIInv ==
  /\ Types
  /\ AtRest(currentMgr) \/ Entering(currentMgr) \/ Leaving(currentMgr)
  /\ SubStateOver
  /\ ExecutionLocks
  /\ HolderIsCurrent
  /\ mRefreshStateMethod = [m \in Mgrs |-> FALSE]

-----------------------------------------------------------------------------
(* Stacks.                                                                  *)

LEMMA Managers ==
  /\ Mgrs = {mainMgr, subMgr} /\ mainMgr # subMgr
  /\ Ice \in States /\ Null \notin States /\ Ice # Null
BY MgrAssumption, IceAssumption, StateAssumption

\* A task is known by its manager and its name.
LEMMA TaskIs ==
  ASSUME NEW m, NEW a
  PROVE  /\ Task(m, a).mgr = m /\ Task(m, a).at = a
         /\ Returning = Task(subMgr, "return")
         /\ \A s : Changing(s).at = "change" /\ Changing(s).id = s /\ Changing(s).mgr = mainMgr
         /\ \A n, b : Task(m, a) = Task(n, b) <=> m = n /\ a = b
BY DEF Task, Changing, Returning

LEMMA TaskType ==
  /\ \A m \in Mgrs, a \in Calls \cup Activities : Task(m, a) \in AllTasks
  /\ Returning \in AllTasks
  /\ \A s \in States : Changing(s) \in AllTasks
BY DEF AllTasks, Tasks, Task

LEMMA OnOne ==
  ASSUME NEW a
  PROVE  /\ << a >> # << >> /\ Head(<< a >>) = a /\ Tail(<< a >>) = << >>
         /\ \A x : On(<< a >>, x) <=> x = a
BY DEF On

LEMMA OnNone == \A x : ~On(<< >>, x)
BY DEF On

\* A task is put on a stack.
LEMMA Push ==
  ASSUME NEW T, NEW s \in Seq(T), NEW a \in T
  PROVE  /\ << a >> \o s \in Seq(T) /\ << a >> \o s # << >>
         /\ Head(<< a >> \o s) = a /\ Tail(<< a >> \o s) = s
         /\ \A x : On(<< a >> \o s, x) <=> x = a \/ On(s, x)
<1> DEFINE r == << a >> \o s
<1>1. /\ << a >> \in Seq(T) /\ Len(<< a >>) = 1 /\ << a >>[1] = a
      /\ Len(s) \in Nat
  BY LenProperties
<1>2. /\ r \in Seq(T) /\ Len(r) = 1 + Len(s)
      /\ \A i \in 1..(1 + Len(s)) : r[i] = IF i <= 1 THEN << a >>[i] ELSE s[i - 1]
  BY <1>1, ConcatProperties
<1>3. r # << >> /\ Head(r) = a
  BY <1>1, <1>2, EmptySeq, HeadTailProperties
<1>4. Tail(r) = s
  <2>1. /\ Tail(r) \in Seq(T) /\ Len(Tail(r)) = Len(r) - 1
        /\ \A i \in 1..Len(Tail(r)) : Tail(r)[i] = r[i + 1]
    BY <1>2, <1>3, HeadTailProperties
  <2>2. \A i \in 1..Len(s) : Tail(r)[i] = s[i]
    BY <1>1, <1>2, <2>1
  <2> QED BY <1>1, <1>2, <2>1, <2>2, SeqEqual
<1>5. ASSUME NEW x PROVE On(r, x) <=> x = a \/ On(s, x)
  <2>1. ASSUME NEW i \in 1..Len(s), s[i] = x PROVE On(r, x)
    <3>1. i + 1 \in 1..Len(r) /\ r[i + 1] = x
      BY <1>1, <1>2, <2>1
    <3> QED BY <3>1 DEF On
  <2>2. x = a => On(r, x)
    BY <1>1, <1>2 DEF On
  <2>3. ASSUME NEW i \in 1..Len(r), r[i] = x PROVE x = a \/ On(s, x)
    <3>1. i = 1 \/ (i - 1 \in 1..Len(s) /\ s[i - 1] = x)
      BY <1>1, <1>2, <2>3
    <3> QED BY <1>1, <1>2, <2>3, <3>1 DEF On
  <2> QED BY <2>1, <2>2, <2>3 DEF On
<1> QED BY <1>2, <1>3, <1>4, <1>5

\* A stack that is not empty is its head put on its tail.
LEMMA Pop ==
  ASSUME NEW T, NEW s \in Seq(T), s # << >>
  PROVE  /\ Head(s) \in T /\ Tail(s) \in Seq(T) /\ s = << Head(s) >> \o Tail(s)
         /\ \A x : On(s, x) <=> x = Head(s) \/ On(Tail(s), x)
<1> DEFINE h == Head(s)
           r == Tail(s)
<1>1. h \in T /\ r \in Seq(T)
  BY HeadTailProperties
<1>2. s = << h >> \o r
  <2>1. /\ Len(s) \in Nat /\ Len(s) >= 1 /\ h = s[1]
        /\ Len(r) = Len(s) - 1 /\ \A i \in 1..Len(r) : r[i] = s[i + 1]
    BY EmptySeq, LenProperties, HeadTailProperties
  <2>2. << h >> \in Seq(T) /\ Len(<< h >>) = 1 /\ << h >>[1] = h
    BY <1>1
  <2>3. /\ << h >> \o r \in Seq(T) /\ Len(<< h >> \o r) = Len(s)
        /\ \A i \in 1..Len(s) : (<< h >> \o r)[i] = IF i <= 1 THEN << h >>[i] ELSE r[i - 1]
    BY <1>1, <2>1, <2>2, ConcatProperties
  <2>4. ASSUME NEW i \in 1..Len(s) PROVE s[i] = (<< h >> \o r)[i]
    <3>1. CASE i = 1
      BY <2>1, <2>2, <2>3, <3>1
    <3>2. CASE i # 1
      <4>1. i - 1 \in 1..Len(r) /\ r[i - 1] = s[(i - 1) + 1]
        BY <2>1, <3>2
      <4> QED BY <2>1, <2>3, <3>2, <4>1
    <3> QED BY <3>1, <3>2
  <2> QED BY <2>3, <2>4, SeqEqual
<1> HIDE DEF h, r
<1>3. \A x : On(<< h >> \o r, x) <=> x = h \/ On(r, x)
  BY <1>1, Push
<1> QED BY <1>1, <1>2, <1>3 DEF h, r

\* Tasks put together are put one by one.
LEMMA PushTuple ==
  ASSUME NEW T, NEW x \in T, NEW r \in Seq(T), NEW t \in Seq(T),
         Len(t) = Len(r) + 1, t[1] = x, \A i \in 1..Len(r) : t[i + 1] = r[i]
  PROVE  t = << x >> \o r
<1>1. /\ t # << >> /\ Head(t) = x /\ Tail(t) \in Seq(T) /\ Len(Tail(t)) = Len(r)
      /\ \A i \in 1..Len(r) : Tail(t)[i] = r[i]
  BY EmptySeq, LenProperties, HeadTailProperties
<1>2. Tail(t) = r
  BY <1>1, SeqEqual
<1> QED BY <1>1, <1>2, Pop

LEMMA CatTwo ==
  ASSUME NEW T, NEW s \in Seq(T), NEW a \in T, NEW b \in T
  PROVE  << a, b >> \o s = << a >> \o (<< b >> \o s)
<1> DEFINE p == << a >>
           q == << b >>
           t == << a, b >>
<1>1. p \in Seq(T) /\ q \in Seq(T) /\ t \in Seq(T)
      /\ Len(q) = 1 /\ Len(t) = 2 /\ t[1] = a /\ t[2] = b /\ q[1] = b
  OBVIOUS
<1>2. 1 + 1 = 2 /\ \A i \in 1..1 : i = 1
  OBVIOUS
<1> HIDE DEF q, t
<1>3. Len(t) = Len(q) + 1 /\ \A i \in 1..Len(q) : t[i + 1] = q[i]
  BY <1>1, <1>2
<1>4. t = << a >> \o q
  BY <1>1, <1>3, PushTuple
<1>5. t = p \o q
  BY <1>4
<1> HIDE DEF p
<1>6. (p \o q) \o s = p \o (q \o s)
  BY <1>1, ConcatAssociative, SMTT(60)
<1>7. t \o s = p \o (q \o s)
  BY <1>5, <1>6
<1> QED BY <1>7 DEF p, q, t

LEMMA PushTwo ==
  ASSUME NEW s \in Seq(AllTasks), NEW a \in AllTasks, NEW b \in AllTasks
  PROVE  << a, b >> \o s = << a >> \o (<< b >> \o s)
BY CatTwo

LEMMA PushThree ==
  ASSUME NEW s \in Seq(AllTasks), NEW a \in AllTasks, NEW b \in AllTasks, NEW c \in AllTasks
  PROVE  << a, b, c >> \o s = << a >> \o (<< b, c >> \o s)
<1> DEFINE p == << a >>
           q == << b, c >>
           t == << a, b, c >>
<1>1. p \in Seq(AllTasks) /\ q \in Seq(AllTasks) /\ t \in Seq(AllTasks)
      /\ Len(q) = 2 /\ Len(t) = 3
      /\ t[1] = a /\ t[2] = b /\ t[3] = c /\ q[1] = b /\ q[2] = c
  OBVIOUS
<1>2. 1 + 1 = 2 /\ 2 + 1 = 3 /\ \A i \in 1..2 : i = 1 \/ i = 2
  OBVIOUS
<1> HIDE DEF q, t
<1>3. Len(t) = Len(q) + 1 /\ \A i \in 1..Len(q) : t[i + 1] = q[i]
  BY <1>1, <1>2
<1>4. t = << a >> \o q
  BY <1>1, <1>3, PushTuple
<1>5. t = p \o q
  BY <1>4
<1> HIDE DEF p
<1>6. (p \o q) \o s = p \o (q \o s)
  BY <1>1, ConcatAssociative, SMTT(60)
<1>7. t \o s = p \o (q \o s)
  BY <1>5, <1>6
<1> QED BY <1>7 DEF p, q, t

\* Tasks are put on a stack.
LEMMA PutOne ==
  ASSUME NEW s \in Seq(AllTasks), NEW a \in AllTasks
  PROVE  LET t == << a >> \o s IN
         /\ t \in Seq(AllTasks) /\ Before(a, t) /\ Tail(t) = s
         /\ \A x : On(t, x) <=> x = a \/ On(s, x)
BY Push DEF Before

LEMMA PutTwo ==
  ASSUME NEW s \in Seq(AllTasks), NEW a \in AllTasks, NEW b \in AllTasks
  PROVE  LET t == << a, b >> \o s IN
         /\ t \in Seq(AllTasks) /\ Before(a, t) /\ Tail(t) \in Seq(AllTasks)
         /\ Before(b, Tail(t)) /\ Tail(Tail(t)) = s
         /\ \A x : On(t, x) <=> x = a \/ x = b \/ On(s, x)
<1> DEFINE v == << b >> \o s
           t == << a, b >> \o s
<1>1. v \in Seq(AllTasks) /\ Before(b, v) /\ Tail(v) = s /\ \A x : On(v, x) <=> x = b \/ On(s, x)
  BY PutOne
<1>2. t = << a >> \o v
  BY PushTwo
<1> HIDE DEF v, t
<1>3. /\ t \in Seq(AllTasks) /\ Before(a, t) /\ Tail(t) = v
      /\ \A x : On(t, x) <=> x = a \/ On(v, x)
  BY <1>1, <1>2, PutOne
<1>4. /\ t \in Seq(AllTasks) /\ Before(a, t) /\ Tail(t) \in Seq(AllTasks)
      /\ Before(b, Tail(t)) /\ Tail(Tail(t)) = s
      /\ \A x : On(t, x) <=> x = a \/ x = b \/ On(s, x)
  BY <1>1, <1>3
<1> QED BY <1>4 DEF t

\* What is on the stacks of the invariant.
LEMMA OnShapes ==
  ASSUME NEW s \in Seq(AllTasks), NEW m
  PROVE  \A n, a :
           /\ Idle(s) => (On(s, Task(n, a)) => a = "executing")
           /\ RunNext(m, s) => (On(s, Task(n, a)) <=> n = m /\ a = "run")
           /\ ChangedNext(m, s) => (On(s, Task(n, a)) => a \in {"executing", "changed"})
           /\ InitNext(m, s) =>
                (On(s, Task(n, a)) => a \in {"executing", "changed", "initialize"})
           /\ ChangeNext(s) => (On(s, Task(n, a)) => a \in {"executing", "change"})
           /\ ReturnNext(s) => (On(s, Task(n, a)) => a \in {"executing", "change", "return"})
<1>1. ASSUME NEW r \in Seq(AllTasks), NEW n, NEW a, Idle(r), On(r, Task(n, a))
      PROVE  a = "executing"
  <2>1. PICK k \in Mgrs : r = << Task(k, "executing") >>
    BY <1>1, OnNone DEF Idle
  <2>2. Task(n, a) = Task(k, "executing")
    BY <1>1, <2>1, OnOne
  <2> QED BY <2>2, TaskIs
<1>2. ASSUME NEW r \in Seq(AllTasks), NEW t, Before(t, r)
      PROVE  Tail(r) \in Seq(AllTasks) /\ \A x : On(r, x) <=> x = t \/ On(Tail(r), x)
  BY <1>2, Pop DEF Before
<1>3. ASSUME NEW r \in Seq(AllTasks), ChangedNext(m, r), NEW n, NEW a, On(r, Task(n, a))
      PROVE  a \in {"executing", "changed"}
  <2>1. Before(Task(m, "changed"), r) /\ Idle(Tail(r))
    BY <1>3 DEF ChangedNext
  <2>2. Tail(r) \in Seq(AllTasks)
        /\ (Task(n, a) = Task(m, "changed") \/ On(Tail(r), Task(n, a)))
    BY <1>2, <1>3, <2>1
  <2>3. Task(n, a) = Task(m, "changed") => a = "changed"
    BY TaskIs
  <2> QED BY <1>1, <2>1, <2>2, <2>3
<1>4. ASSUME InitNext(m, s), NEW n, NEW a, On(s, Task(n, a))
      PROVE  a \in {"executing", "changed", "initialize"}
  <2>1. Before(Task(m, "initialize"), s) /\ ChangedNext(m, Tail(s))
    BY <1>4 DEF InitNext
  <2>2. Tail(s) \in Seq(AllTasks)
        /\ (Task(n, a) = Task(m, "initialize") \/ On(Tail(s), Task(n, a)))
    BY <1>2, <1>4, <2>1
  <2>3. Task(n, a) = Task(m, "initialize") => a = "initialize"
    BY TaskIs
  <2> QED BY <1>3, <2>1, <2>2, <2>3
<1>5. ASSUME NEW r \in Seq(AllTasks), ChangeNext(r), NEW n, NEW a, On(r, Task(n, a))
      PROVE  a \in {"executing", "change"}
  <2>1. PICK x \in States : Before(Changing(x), r) /\ Idle(Tail(r))
    BY <1>5 DEF ChangeNext
  <2>2. Tail(r) \in Seq(AllTasks)
        /\ (Task(n, a) = Changing(x) \/ On(Tail(r), Task(n, a)))
    BY <1>2, <1>5, <2>1
  <2>3. Task(n, a) = Changing(x) => a = "change"
    BY TaskIs
  <2> QED BY <1>1, <2>1, <2>2, <2>3
<1>6. ASSUME ReturnNext(s), NEW n, NEW a, On(s, Task(n, a))
      PROVE  a \in {"executing", "change", "return"}
  <2>1. Before(Returning, s) /\ (Idle(Tail(s)) \/ ChangeNext(Tail(s)))
    BY <1>6 DEF ReturnNext
  <2>2. Tail(s) \in Seq(AllTasks)
        /\ (Task(n, a) = Returning \/ On(Tail(s), Task(n, a)))
    BY <1>2, <1>6, <2>1
  <2>3. Task(n, a) = Returning => a = "return"
    BY TaskIs
  <2> QED BY <1>1, <1>5, <2>1, <2>2, <2>3
<1>7. ASSUME RunNext(m, s), NEW n, NEW a
      PROVE  On(s, Task(n, a)) <=> n = m /\ a = "run"
  BY <1>7, OnOne, TaskIs DEF RunNext
<1> QED BY <1>1, <1>3, <1>4, <1>5, <1>6, <1>7

\* The innermost task tells where the current manager is.
LEMMA Positions ==
  ASSUME SSIInv, NEW m
  PROVE  LET r == Tail(todo) IN
    /\ Before(Task(m, "execute"), todo) => m = currentMgr /\ Settled(m) /\ r = << >>
    /\ Before(Task(m, "run"), todo) =>
         m = currentMgr /\ Live(m) /\ mpNewStateID[m] # Null /\ r = << >>
    /\ Before(Task(m, "executing"), todo) => Settled(currentMgr) /\ r = << >>
    /\ Before(Task(m, "changed"), todo) =>
         m = currentMgr /\ Live(m) /\ mpNewStateID[m] # Null /\ Idle(r)
    /\ Before(Task(m, "initialize"), todo) =>
         /\ m = currentMgr
         /\ \/ Settled(m) /\ Idle(r)
            \/ Live(m) /\ mpNewStateID[m] # Null /\ RunNext(m, r)
            \/ Absent(m) /\ mpNewStateID[m] # Null /\ ChangedNext(m, r)
    /\ Before(Task(m, "initializing"), todo) =>
         /\ m = currentMgr /\ mpNewStateID[m] # Null
         /\ Initializing(m) /\ ChangedNext(m, r)
    /\ Before(Task(m, "finalize"), todo) =>
         /\ m = currentMgr /\ ~mInitFinalizeLock[m]
         /\ \/ mpNewStateID[m] # Null /\ InitNext(m, r) /\ (m = subMgr => Absent(m))
            \/ m = subMgr /\ Live(m) /\ ReturnNext(r)
    /\ Before(Task(m, "finalizing"), todo) =>
         /\ m = currentMgr /\ Finalizing(m)
         /\ \/ m = mainMgr /\ mpNewStateID[m] # Null /\ InitNext(m, r)
            \/ m = subMgr /\ ReturnNext(r)
    /\ Before(Returning, todo) =>
         currentMgr = subMgr /\ Absent(subMgr) /\ (Idle(r) \/ ChangeNext(r))
    /\ todo # << >> /\ Head(todo).at = "change" =>
         currentMgr = mainMgr /\ Settled(mainMgr) /\ ChangeNext(todo)
    /\ InEnemy => Settled(currentMgr) /\ Idle(todo)
<1> DEFINE c == currentMgr
<1>0. c \in Mgrs /\ (c = mainMgr \/ c = subMgr) /\ mainMgr # subMgr
  BY Managers DEF SSIInv, Types
<1>1. \/ todo = << >>
      \/ \E n \in Mgrs : Before(Task(n, "executing"), todo) /\ Tail(todo) = << >>
      \/ ~Idle(todo)
  BY OnOne DEF Idle, Before
<1>2. RunNext(c, todo) => Before(Task(c, "run"), todo) /\ Tail(todo) = << >>
  BY OnOne DEF RunNext, Before
<1>3. CASE AtRest(c)
  <2>1. CASE Idle(todo)
    BY <1>0, <1>1, <1>3, <2>1, TaskIs DEF AtRest, Before, InEnemy
  <2>2. CASE Before(Task(c, "execute"), todo) /\ Tail(todo) = << >>
    BY <1>0, <1>3, <2>2, TaskIs DEF AtRest, Before, InEnemy
  <2>3. CASE Before(Task(c, "initialize"), todo) /\ Idle(Tail(todo))
    BY <1>0, <1>3, <2>3, TaskIs DEF AtRest, Before, InEnemy
  <2>4. CASE c = mainMgr /\ ChangeNext(todo)
    BY <1>0, <1>3, <2>4, TaskIs DEF AtRest, Before, InEnemy, ChangeNext
  <2>5. CASE mpNewStateID[c] # Null /\ Before(Task(c, "initialize"), todo) /\ RunNext(c, Tail(todo))
    BY <1>0, <1>3, <2>5, TaskIs DEF AtRest, Before, InEnemy, Settled
  <2>6. CASE mpNewStateID[c] # Null /\ RunNext(c, todo)
    BY <1>0, <1>2, <1>3, <2>6, TaskIs DEF AtRest, Before, InEnemy, Settled
  <2>7. CASE mpNewStateID[c] # Null /\ ChangedNext(c, todo)
    BY <1>0, <1>3, <2>7, TaskIs DEF AtRest, Before, InEnemy, Settled, ChangedNext
  <2> QED BY <1>3, <2>1, <2>2, <2>3, <2>4, <2>5, <2>6, <2>7 DEF AtRest
<1>4. CASE Entering(c)
  BY <1>0, <1>4, TaskIs DEF Entering, Before, InEnemy, InitNext, Absent
<1>5. CASE Leaving(c)
  BY <1>0, <1>5, TaskIs DEF Leaving, Before, InEnemy, ReturnNext, Absent, Live, Finalizing
<1> QED BY <1>3, <1>4, <1>5 DEF SSIInv

-----------------------------------------------------------------------------
(* The steps.  Each keeps the invariant, and what a sub state is over.      *)

Under ==
  isSubState /\ isSubState' =>
    mpState'[mainMgr] = mpState[mainMgr] /\ mIsValid'[mainMgr] = mIsValid[mainMgr]

\* A task is done and replaced by others.
LEMMA Done ==
  ASSUME Types, NEW m \in Mgrs, NEW a \in Calls \cup Activities, NEW ts, Do(m, a, ts)
  PROVE  LET r == Tail(todo) IN
    /\ Before(Task(m, a), todo) /\ r \in Seq(AllTasks) /\ todo' = ts \o r
    /\ \A x : On(todo, x) <=> x = Task(m, a) \/ On(r, x)
<1>1. todo \in Seq(AllTasks) /\ Before(Task(m, a), todo) /\ todo' = ts \o Tail(todo)
  BY DEF Types, Do, Before
<1> QED BY <1>1, Pop DEF Before

LEMMA Popped ==
  ASSUME Types, NEW m \in Mgrs, NEW a \in Calls \cup Activities, Do(m, a, << >>)
  PROVE  LET r == Tail(todo) IN
    /\ Before(Task(m, a), todo) /\ r \in Seq(AllTasks) /\ todo' = r
    /\ \A x : On(todo, x) <=> x = Task(m, a) \/ On(r, x)
BY Done, ConcatEmptySeq

LEMMA Replaced ==
  ASSUME Types, NEW m \in Mgrs, NEW a \in Calls \cup Activities,
         NEW b \in Calls \cup Activities, Do(m, a, << Task(m, b) >>)
  PROVE  LET r == Tail(todo)
             t == Task(m, b)
         IN
    /\ Before(Task(m, a), todo) /\ r \in Seq(AllTasks) /\ todo' = << t >> \o r
    /\ \A x : On(todo, x) <=> x = Task(m, a) \/ On(r, x)
    /\ todo' \in Seq(AllTasks) /\ Before(t, todo') /\ Tail(todo') = r
    /\ \A x : On(todo', x) <=> x = t \/ On(r, x)
<1> DEFINE r == Tail(todo)
           t == Task(m, b)
<1>1. t \in AllTasks
  BY TaskType
<1>2. /\ Before(Task(m, a), todo) /\ r \in Seq(AllTasks) /\ todo' = << t >> \o r
      /\ \A x : On(todo, x) <=> x = Task(m, a) \/ On(r, x)
  BY Done
<1> HIDE DEF r, t
<1>3. LET u == << t >> \o r IN
      /\ u \in Seq(AllTasks) /\ Before(t, u) /\ Tail(u) = r
      /\ \A x : On(u, x) <=> x = t \/ On(r, x)
  BY <1>1, <1>2, PutOne
<1> QED BY <1>2, <1>3 DEF r, t

\* The steps that only take a task off, or put tasks on, and keep the flags.
LEMMA FlagsKept ==
  ASSUME SSIInv, UNCHANGED << flagVars, idVars, mpNewStateID, mRefreshStateMethod, currentMgr >>
  PROVE  /\ SubStateOver' /\ HolderIsCurrent' /\ Under
         /\ mRefreshStateMethod' = [m \in Mgrs |-> FALSE]
         /\ todo' \in Seq(AllTasks) /\ mExecutionLock' \in [Mgrs -> BOOLEAN] => Types'
         /\ \A m : /\ Live(m)' <=> Live(m)
                   /\ Absent(m)' <=> Absent(m)
                   /\ Finalizing(m)' <=> Finalizing(m)
                   /\ Initializing(m)' <=> Initializing(m)
                   /\ Settled(m)' <=> Settled(m)
<1>1. /\ Types' <=> todo' \in Seq(AllTasks) /\ mExecutionLock' \in [Mgrs -> BOOLEAN]
      /\ HolderIsCurrent'
      /\ mRefreshStateMethod' = [m \in Mgrs |-> FALSE]
  BY DEF SSIInv, Types, flagVars, idVars, HolderIsCurrent
<1>2. \A m : /\ Live(m)' <=> Live(m)
             /\ Absent(m)' <=> Absent(m)
             /\ Finalizing(m)' <=> Finalizing(m)
             /\ Initializing(m)' <=> Initializing(m)
             /\ Settled(m)' <=> Settled(m)
  BY DEF flagVars, Live, Absent, Finalizing, Initializing, Settled
<1>3. SubStateOver'
  BY <1>2 DEF SSIInv, SubStateOver, flagVars, idVars, isSubState
<1>4. Under
  BY DEF Under, flagVars, idVars
<1> QED BY <1>1, <1>2, <1>3, <1>4

\* The locks of the executions that no step of their own changes.
LEMMA LocksKept ==
  ASSUME ExecutionLocks, UNCHANGED mExecutionLock,
         \A m \in Mgrs : /\ On(todo, Task(m, "run"))' <=> On(todo, Task(m, "run"))
                         /\ On(todo, Task(m, "executing"))' <=> On(todo, Task(m, "executing"))
  PROVE  ExecutionLocks'
BY DEF ExecutionLocks

LEMMA SkipInitializeInv ==
  ASSUME SSIInv, NEW m \in Mgrs, SkipInitialize(m), UNCHANGED currentMgr
  PROVE  SSIInv' /\ Under
<1> DEFINE r == Tail(todo)
<1>1. /\ Before(Task(m, "initialize"), todo) /\ r \in Seq(AllTasks) /\ todo' = r
      /\ \A x : On(todo, x) <=> x = Task(m, "initialize") \/ On(r, x)
  BY Popped DEF SSIInv, SkipInitialize, Calls
<1>2. ExecutionLocks'
  BY <1>1, LocksKept, TaskIs DEF SSIInv, SkipInitialize
<1>3. m = currentMgr /\ AtRest(m)'
  <2>1. \/ Settled(m) /\ Idle(r)
        \/ Live(m) /\ mpNewStateID[m] # Null /\ RunNext(m, r)
    BY <1>1, Positions DEF SkipInitialize, CanInitialize, Absent
  <2>2. Settled(m)
    BY <2>1 DEF Settled
  <2> QED BY <1>1, <2>1, <2>2, FlagsKept, Positions DEF SkipInitialize, AtRest
<1> QED BY <1>1, <1>2, <1>3, FlagsKept DEF SSIInv, SkipInitialize, Types

LEMMA SkipFinalizeInv ==
  ASSUME SSIInv, NEW m \in Mgrs, SkipFinalize(m), UNCHANGED currentMgr
  PROVE  SSIInv' /\ Under
<1> DEFINE r == Tail(todo)
<1>1. /\ Before(Task(m, "finalize"), todo) /\ r \in Seq(AllTasks) /\ todo' = r
      /\ \A x : On(todo, x) <=> x = Task(m, "finalize") \/ On(r, x)
  BY Popped DEF SSIInv, SkipFinalize, Calls
<1>2. ExecutionLocks'
  BY <1>1, LocksKept, TaskIs DEF SSIInv, SkipFinalize
<1>3. m = currentMgr /\ Entering(m)'
  <2>1. m = currentMgr /\ mpNewStateID[m] # Null /\ InitNext(m, r) /\ Absent(m)
    <3>1. m = subMgr /\ Live(m) /\ ReturnNext(r) => mpNewStateID[m] # Null
      BY <1>1, Positions, Managers DEF SSIInv, SubStateOver, isSubState
    <3> QED BY <1>1, <3>1, Positions, Managers
            DEF SkipFinalize, CanFinalize, Absent, Live
  <2> QED BY <1>1, <2>1, FlagsKept DEF SkipFinalize, Entering
<1> QED BY <1>1, <1>2, <1>3, FlagsKept DEF SSIInv, SkipFinalize, Types

LEMMA ChangedInv ==
  ASSUME SSIInv, NEW m \in Mgrs, Changed(m), UNCHANGED currentMgr
  PROVE  SSIInv' /\ Under
<1> DEFINE r == Tail(todo)
<1>1. /\ Before(Task(m, "changed"), todo) /\ r \in Seq(AllTasks) /\ todo' = r
      /\ \A x : On(todo, x) <=> x = Task(m, "changed") \/ On(r, x)
  BY Popped DEF SSIInv, Changed, Calls
<1>2. ExecutionLocks'
  BY <1>1, LocksKept, TaskIs DEF SSIInv, Changed
<1>3. m = currentMgr /\ AtRest(m)'
  <2>1. m = currentMgr /\ Settled(m) /\ Idle(r)
    BY <1>1, Positions DEF Settled
  <2> QED BY <1>1, <2>1, FlagsKept DEF Changed, AtRest
<1> QED BY <1>1, <1>2, <1>3, FlagsKept DEF SSIInv, Changed, Types

LEMMA SkipExecuteInv ==
  ASSUME SSIInv, NEW m \in Mgrs, SkipExecute(m), UNCHANGED currentMgr
  PROVE  SSIInv' /\ Under
<1> DEFINE r == Tail(todo)
<1>1. /\ Before(Task(m, "execute"), todo) /\ r \in Seq(AllTasks) /\ todo' = r
      /\ \A x : On(todo, x) <=> x = Task(m, "execute") \/ On(r, x)
  BY Popped DEF SSIInv, SkipExecute, Calls
<1>2. ExecutionLocks'
  BY <1>1, LocksKept, TaskIs DEF SSIInv, SkipExecute
<1>3. m = currentMgr /\ AtRest(m)'
  <2>1. m = currentMgr /\ Settled(m) /\ Idle(r)
    BY <1>1, Positions DEF Idle
  <2> QED BY <1>1, <2>1, FlagsKept DEF SkipExecute, AtRest
<1> QED BY <1>1, <1>2, <1>3, FlagsKept DEF SSIInv, SkipExecute, Types

LEMMA StartInitializeInv ==
  ASSUME SSIInv, NEW m \in Mgrs, StartInitialize(m), UNCHANGED currentMgr
  PROVE  SSIInv' /\ Under
<1> DEFINE r == Tail(todo)
           t == Task(m, "initializing")
<1>1. /\ Before(Task(m, "initialize"), todo) /\ r \in Seq(AllTasks)
      /\ \A x : On(todo, x) <=> x = Task(m, "initialize") \/ On(r, x)
      /\ todo' \in Seq(AllTasks) /\ Before(t, todo') /\ Tail(todo') = r
      /\ \A x : On(todo', x) <=> x = t \/ On(r, x)
  <2>1. Do(m, "initialize", << Task(m, "initializing") >>)
    BY DEF StartInitialize
  <2> QED BY <2>1, Replaced DEF SSIInv, Calls, Activities
<1>2. ExecutionLocks'
  BY <1>1, LocksKept, TaskIs DEF SSIInv, StartInitialize
<1>3. m = currentMgr /\ Absent(m) /\ mpNewStateID[m] # Null /\ ChangedNext(m, r)
  BY <1>1, Positions DEF StartInitialize, CanInitialize, Settled, Live, Absent
<1>4. Types' /\ HolderIsCurrent' /\ mRefreshStateMethod' = [n \in Mgrs |-> FALSE]
  BY <1>1 DEF SSIInv, Types, StartInitialize, HolderIsCurrent, CanInitialize
<1>5. Initializing(m)' /\ Entering(m)'
  BY <1>1, <1>3 DEF SSIInv, Types, StartInitialize, Absent, Initializing, Entering
<1>6. SubStateOver' /\ Under
  BY <1>3, Managers DEF SSIInv, Types, StartInitialize, SubStateOver, Under, isSubState,
       Settled, Live, Absent
<1> QED BY <1>2, <1>3, <1>4, <1>5, <1>6 DEF SSIInv

LEMMA InitializeReturnsInv ==
  ASSUME SSIInv, NEW m \in Mgrs, InitializeReturns(m), UNCHANGED currentMgr
  PROVE  SSIInv' /\ Under
<1> DEFINE r == Tail(todo)
<1>1. /\ Before(Task(m, "initializing"), todo) /\ r \in Seq(AllTasks) /\ todo' = r
      /\ \A x : On(todo, x) <=> x = Task(m, "initializing") \/ On(r, x)
  <2>1. Do(m, "initializing", << >>)
    BY DEF InitializeReturns
  <2> QED BY <2>1, Popped DEF SSIInv, Activities
<1>2. ExecutionLocks'
  BY <1>1, LocksKept, TaskIs DEF SSIInv, InitializeReturns
<1>3. m = currentMgr /\ Initializing(m) /\ mpNewStateID[m] # Null /\ ChangedNext(m, r)
  BY <1>1, Positions
<1>4. Types' /\ HolderIsCurrent' /\ mRefreshStateMethod' = [n \in Mgrs |-> FALSE]
  BY <1>1, <1>3 DEF SSIInv, Types, InitializeReturns, HolderIsCurrent, idVars, Initializing
<1>5. AtRest(m)'
  BY <1>1, <1>3 DEF SSIInv, Types, InitializeReturns, AtRest, Settled, Live
<1>6. SubStateOver' /\ Under
  BY <1>3, Managers DEF SSIInv, Types, InitializeReturns, SubStateOver, Under, isSubState,
       Settled, Live, Absent, idVars
<1> QED BY <1>2, <1>3, <1>4, <1>5, <1>6 DEF SSIInv

LEMMA StartFinalizeInv ==
  ASSUME SSIInv, NEW m \in Mgrs, StartFinalize(m), UNCHANGED currentMgr
  PROVE  SSIInv' /\ Under
<1> DEFINE r == Tail(todo)
           t == Task(m, "finalizing")
<1>1. /\ Before(Task(m, "finalize"), todo) /\ r \in Seq(AllTasks)
      /\ \A x : On(todo, x) <=> x = Task(m, "finalize") \/ On(r, x)
      /\ todo' \in Seq(AllTasks) /\ Before(t, todo') /\ Tail(todo') = r
      /\ \A x : On(todo', x) <=> x = t \/ On(r, x)
  <2>1. Do(m, "finalize", << Task(m, "finalizing") >>)
    BY DEF StartFinalize
  <2> QED BY <2>1, Replaced DEF SSIInv, Calls, Activities
<1>2. ExecutionLocks'
  BY <1>1, LocksKept, TaskIs DEF SSIInv, StartFinalize
<1>3. /\ m = currentMgr
      /\ \/ m = mainMgr /\ InitNext(m, r)
         \/ m = subMgr /\ ReturnNext(r)
  BY <1>1, Positions, Managers DEF StartFinalize, CanFinalize, Absent
<1>4. Types' /\ HolderIsCurrent' /\ mRefreshStateMethod' = [n \in Mgrs |-> FALSE]
  BY <1>1 DEF SSIInv, Types, StartFinalize, HolderIsCurrent, CanFinalize
<1>5. Entering(m)' \/ Leaving(m)'
  BY <1>1, <1>3 DEF SSIInv, Types, StartFinalize, CanFinalize, Finalizing, Entering, Leaving
<1>6. SubStateOver' /\ Under
  BY <1>3, Managers DEF SSIInv, Types, StartFinalize, CanFinalize, SubStateOver, Under, isSubState,
       Settled, Live, Absent
<1> QED BY <1>2, <1>3, <1>4, <1>5, <1>6 DEF SSIInv

LEMMA FinalizeReturnsInv ==
  ASSUME SSIInv, NEW m \in Mgrs, FinalizeReturns(m), UNCHANGED currentMgr
  PROVE  SSIInv' /\ Under
<1> DEFINE r == Tail(todo)
<1>1. /\ Before(Task(m, "finalizing"), todo) /\ r \in Seq(AllTasks) /\ todo' = r
      /\ \A x : On(todo, x) <=> x = Task(m, "finalizing") \/ On(r, x)
  <2>1. Do(m, "finalizing", << >>)
    BY DEF FinalizeReturns
  <2> QED BY <2>1, Popped DEF SSIInv, Activities
<1>2. ExecutionLocks'
  BY <1>1, LocksKept, TaskIs DEF SSIInv, FinalizeReturns
<1>3. /\ m = currentMgr /\ Finalizing(m)
      /\ \/ m = mainMgr /\ mpNewStateID[m] # Null /\ InitNext(m, r)
         \/ m = subMgr /\ ReturnNext(r)
  BY <1>1, Positions
<1>4. Types' /\ HolderIsCurrent' /\ mRefreshStateMethod' = [n \in Mgrs |-> FALSE]
  BY <1>1 DEF SSIInv, Types, FinalizeReturns, HolderIsCurrent
<1>5. Entering(m)' \/ Leaving(m)'
  BY <1>1, <1>3 DEF SSIInv, Types, FinalizeReturns, Absent, Entering, Leaving
<1>6. SubStateOver' /\ Under
  BY <1>3, Managers DEF SSIInv, Types, FinalizeReturns, SubStateOver, Under, isSubState,
       Settled, Live, Absent
<1> QED BY <1>2, <1>3, <1>4, <1>5, <1>6 DEF SSIInv

\* A pass when there is no state to execute, and when there is.
LEMMA StartPassInv ==
  ASSUME SSIInv, NEW m \in Mgrs, StartPass(m), UNCHANGED currentMgr
  PROVE  SSIInv' /\ Under
<1> DEFINE r == Tail(todo)
           t == Task(m, "initialize")
           u == Task(m, "run")
<1>1. UNCHANGED << flagVars, idVars, mpNewStateID, mRefreshStateMethod, currentMgr >>
  <2>1. mRefreshStateMethod' = [mRefreshStateMethod EXCEPT ![m] = FALSE]
        /\ UNCHANGED << flagVars, idVars, mpNewStateID, currentMgr >>
    BY DEF StartPass
  <2> QED BY <2>1 DEF SSIInv
<1>2. CASE mpNewStateID[m] = Null
  <2>1. UNCHANGED mExecutionLock /\ Do(m, "execute", << >>)
    BY <1>2 DEF StartPass, Pass
  <2>2. /\ Before(Task(m, "execute"), todo) /\ r \in Seq(AllTasks) /\ todo' = r
        /\ \A x : On(todo, x) <=> x = Task(m, "execute") \/ On(r, x)
    BY <2>1, Popped DEF SSIInv, Calls
  <2>3. m = currentMgr /\ Settled(m) /\ Idle(r)
    BY <2>2, Positions DEF Idle
  <2>4. ExecutionLocks'
    BY <2>1, <2>2, LocksKept, TaskIs DEF SSIInv
  <2>5. AtRest(m)'
    BY <1>1, <2>2, <2>3, FlagsKept DEF AtRest
  <2> QED BY <1>1, <2>1, <2>2, <2>3, <2>4, <2>5, FlagsKept DEF SSIInv, Types
<1>3. CASE mpNewStateID[m] # Null
  <2>1. /\ Do(m, "execute", << t, u >>)
        /\ mExecutionLock' = [mExecutionLock EXCEPT ![m] = TRUE]
    BY <1>3 DEF StartPass, Pass
  <2>2. /\ Before(Task(m, "execute"), todo) /\ r \in Seq(AllTasks) /\ todo' = << t, u >> \o r
        /\ \A x : On(todo, x) <=> x = Task(m, "execute") \/ On(r, x)
    BY <2>1, Done DEF SSIInv, Calls
  <2>3. t \in AllTasks /\ u \in AllTasks
    BY TaskType DEF Calls
  <2>4. m = currentMgr /\ Settled(m) /\ r = << >>
    BY <2>2, Positions
  <2> HIDE DEF t, u, r
  <2>5. LET v == << t, u >> \o r IN
        /\ v \in Seq(AllTasks) /\ Before(t, v) /\ Before(u, Tail(v)) /\ Tail(Tail(v)) = r
        /\ Tail(v) \in Seq(AllTasks)
        /\ \A x : On(v, x) <=> x = t \/ x = u \/ On(r, x)
    BY <2>2, <2>3, PutTwo
  <2>6. /\ todo' \in Seq(AllTasks) /\ Before(t, todo') /\ Before(u, Tail(todo'))
        /\ Tail(todo') \in Seq(AllTasks) /\ Tail(Tail(todo')) = << >>
        /\ \A x : On(todo', x) <=> x = t \/ x = u
    BY <2>2, <2>4, <2>5, OnNone
  <2>7. RunNext(m, Tail(todo'))
    <3>1. Tail(todo') = << u >> \o << >>
      BY <2>6, Pop DEF Before
    <3> QED BY <3>1 DEF RunNext, u
  <2>8. ExecutionLocks'
    <3>1. ASSUME NEW n \in Mgrs
          PROVE  mExecutionLock'[n] <=>
                   On(todo', Task(n, "run")) \/ On(todo', Task(n, "executing"))
      <4>1. /\ On(todo', Task(n, "run")) <=> n = m
            /\ ~On(todo', Task(n, "executing"))
        BY <2>6, TaskIs DEF t, u
      <4>2. /\ ~On(todo, Task(n, "run")) /\ ~On(todo, Task(n, "executing"))
        BY <2>2, <2>4, OnNone, TaskIs
      <4>3. ~mExecutionLock[n]
        BY <4>2 DEF SSIInv, ExecutionLocks
      <4> QED BY <2>1, <4>1, <4>3 DEF SSIInv, Types
    <3> QED BY <3>1 DEF ExecutionLocks
  <2>9. AtRest(m)'
    BY <1>1, <1>3, <2>4, <2>6, <2>7, FlagsKept DEF AtRest, t
  <2> QED BY <1>1, <2>1, <2>4, <2>6, <2>8, <2>9, FlagsKept DEF SSIInv, Types
<1> QED BY <1>2, <1>3

LEMMA RunStateInv ==
  ASSUME SSIInv, NEW m \in Mgrs, RunState(m), UNCHANGED currentMgr
  PROVE  SSIInv' /\ Under
<1> DEFINE r == Tail(todo)
           t == Task(m, "executing")
<1>1. /\ Before(Task(m, "run"), todo) /\ r \in Seq(AllTasks)
      /\ \A x : On(todo, x) <=> x = Task(m, "run") \/ On(r, x)
      /\ todo' \in Seq(AllTasks) /\ Before(t, todo') /\ Tail(todo') = r
      /\ \A x : On(todo', x) <=> x = t \/ On(r, x)
  <2>1. Do(m, "run", << Task(m, "executing") >>)
    BY DEF RunState
  <2> QED BY <2>1, Replaced DEF SSIInv, Calls, Activities
<1>2. m = currentMgr /\ Settled(m) /\ r = << >>
  BY <1>1, Positions DEF Settled
<1>3. ExecutionLocks'
  <2>1. ASSUME NEW n \in Mgrs
        PROVE  mExecutionLock'[n] <=>
                 On(todo', Task(n, "run")) \/ On(todo', Task(n, "executing"))
    BY <1>1, TaskIs DEF SSIInv, ExecutionLocks, RunState
  <2> QED BY <2>1 DEF ExecutionLocks
<1>4. AtRest(m)'
  <2>1. todo' = << t >> \o << >>
    BY <1>1, <1>2, Pop DEF Before
  <2>2. todo' = << t >>
    BY <2>1
  <2> QED BY <1>2, <2>2, FlagsKept DEF AtRest, Idle, RunState
<1> QED BY <1>1, <1>2, <1>3, <1>4, FlagsKept DEF SSIInv, RunState, Types

LEMMA ExecuteReturnsInv ==
  ASSUME SSIInv, NEW m \in Mgrs, ExecuteReturns(m), UNCHANGED currentMgr
  PROVE  SSIInv' /\ Under
<1>1. /\ Before(Task(m, "executing"), todo) /\ Tail(todo) \in Seq(AllTasks) /\ todo' = Tail(todo)
      /\ \A x : On(todo, x) <=> x = Task(m, "executing") \/ On(Tail(todo), x)
  <2>1. Do(m, "executing", << >>)
    BY DEF SSIInv, ExecuteReturns
  <2> QED BY <2>1, Popped DEF SSIInv, Activities
<1>2. Settled(currentMgr) /\ Tail(todo) = << >>
  BY <1>1, Positions
<1>3. todo' = << >> /\ \A x : ~On(todo', x) /\ (On(todo, x) <=> x = Task(m, "executing"))
  BY <1>1, <1>2, OnNone
<1>4. ExecutionLocks'
  <2>1. ASSUME NEW n \in Mgrs
        PROVE  mExecutionLock'[n] <=>
                 On(todo', Task(n, "run")) \/ On(todo', Task(n, "executing"))
    BY <1>3, TaskIs DEF SSIInv, Types, ExecutionLocks, ExecuteReturns
  <2> QED BY <2>1 DEF ExecutionLocks
<1>5. AtRest(currentMgr)'
  BY <1>2, <1>3, FlagsKept DEF AtRest, Idle, ExecuteReturns
<1> QED BY <1>1, <1>3, <1>4, <1>5, FlagsKept DEF SSIInv, ExecuteReturns, Types

\* Where the code of the enemy may call the managers.
LEMMA InEnemyIs ==
  ASSUME SSIInv, InEnemy
  PROVE  /\ todo \in Seq(AllTasks) /\ Idle(todo) /\ Settled(currentMgr)
         /\ currentMgr \in Mgrs /\ (isSubState <=> currentMgr # mainMgr)
         /\ isSubState => Live(subMgr) /\ mpState[subMgr] = Ice /\ isState(Ice) /\ mActive
<1>1. /\ todo \in Seq(AllTasks) /\ Idle(todo) /\ Settled(currentMgr)
      /\ currentMgr \in Mgrs /\ (isSubState <=> currentMgr # mainMgr)
  BY Positions, Managers DEF SSIInv, Types, isSubState
<1>2. ASSUME isSubState
      PROVE  Live(subMgr) /\ mpState[subMgr] = Ice /\ isState(Ice) /\ mActive
  <2>1. currentMgr = subMgr /\ mpNewStateID[subMgr] = Ice /\ mpState[subMgr] \in {Ice, Null}
    BY <1>2 DEF SSIInv, SubStateOver, isSubState
  <2>2. Live(subMgr)
    BY <1>1, <2>1, Managers DEF Settled
  <2>3. mpState[subMgr] = mpStateID[subMgr] /\ mpState[subMgr] # Null
    BY <2>2, Managers DEF SSIInv, HolderIsCurrent, Live
  <2> QED BY <2>1, <2>2, <2>3, Managers DEF isState, mActive, Live
<1> QED BY <1>1, <1>2

\* A call that puts one task on the stack.
LEMMA CalledOne ==
  ASSUME SSIInv, InEnemy, NEW a \in Calls, Call(<< Task(currentMgr, a) >>),
         UNCHANGED mExecutionLock, a # "run"
  PROVE  /\ todo' \in Seq(AllTasks) /\ Before(Task(currentMgr, a), todo') /\ Tail(todo') = todo
         /\ ExecutionLocks'
<1> DEFINE t == Task(currentMgr, a)
<1>1. t \in AllTasks /\ todo \in Seq(AllTasks) /\ todo' = << t >> \o todo
  BY InEnemyIs, TaskType DEF Call
<1>2. \A n, b : b \in {"run", "executing"} => Task(n, b) # t
  BY TaskIs DEF Calls
<1> HIDE DEF t
<1>3. /\ todo' \in Seq(AllTasks) /\ Before(t, todo') /\ Tail(todo') = todo
      /\ \A x : On(todo', x) <=> x = t \/ On(todo, x)
  BY <1>1, PutOne
<1>4. ExecutionLocks'
  BY <1>2, <1>3, LocksKept DEF SSIInv
<1> QED BY <1>3, <1>4 DEF t

LEMMA EnemyExecuteInv ==
  ASSUME SSIInv, EnemyExecute
  PROVE  SSIInv' /\ Under
<1>1. InEnemy /\ todo = << >> /\ Call(<< Task(currentMgr, "execute") >>)
  BY DEF EnemyExecute, ExecuteState, InEnemy
<1>2. UNCHANGED << flagVars, idVars, mpNewStateID, mRefreshStateMethod, currentMgr, mExecutionLock >>
  BY DEF EnemyExecute, ExecuteState
<1>3. /\ todo' \in Seq(AllTasks) /\ Before(Task(currentMgr, "execute"), todo')
      /\ Tail(todo') = << >> /\ ExecutionLocks'
  BY <1>1, <1>2, CalledOne DEF Calls
<1>4. AtRest(currentMgr)'
  BY <1>1, <1>2, <1>3, InEnemyIs, FlagsKept DEF AtRest
<1> QED BY <1>2, <1>3, <1>4, FlagsKept DEF SSIInv, Types

LEMMA EnemyInitializeInv ==
  ASSUME SSIInv, EnemyInitialize
  PROVE  SSIInv' /\ Under
<1>1. InEnemy /\ Call(<< Task(currentMgr, "initialize") >>)
  BY DEF EnemyInitialize, InitializeState
<1>2. UNCHANGED << flagVars, idVars, mpNewStateID, mRefreshStateMethod, currentMgr, mExecutionLock >>
  BY DEF EnemyInitialize, InitializeState
<1>3. /\ todo' \in Seq(AllTasks) /\ Before(Task(currentMgr, "initialize"), todo')
      /\ Tail(todo') = todo /\ ExecutionLocks'
  BY <1>1, <1>2, CalledOne DEF Calls
<1>4. AtRest(currentMgr)'
  BY <1>1, <1>2, <1>3, InEnemyIs, FlagsKept DEF AtRest
<1> QED BY <1>2, <1>3, <1>4, FlagsKept DEF SSIInv, Types

\* The three tasks of changeState are put on a stack.
ChangeTasks(m) == << Task(m, "finalize"), Task(m, "initialize"), Task(m, "changed") >>

LEMMA ChangeTasksPut ==
  ASSUME NEW m \in Mgrs, NEW s \in Seq(AllTasks), Idle(s), todo' = ChangeTasks(m) \o s
  PROVE  /\ todo' \in Seq(AllTasks) /\ Before(Task(m, "finalize"), todo')
         /\ InitNext(m, Tail(todo'))
         /\ \A n : /\ On(todo', Task(n, "run")) <=> On(s, Task(n, "run"))
                   /\ On(todo', Task(n, "executing")) <=> On(s, Task(n, "executing"))
<1> DEFINE a == Task(m, "finalize")
           b == Task(m, "initialize")
           c == Task(m, "changed")
<1>1. a \in AllTasks /\ b \in AllTasks /\ c \in AllTasks
  BY TaskType DEF Calls
<1>2. \A n : /\ Task(n, "run") \notin {a, b, c}
             /\ Task(n, "executing") \notin {a, b, c}
  BY TaskIs
<1>3. todo' = << a, b, c >> \o s
  BY DEF ChangeTasks
<1> HIDE DEF a, b, c
<1> DEFINE u == << b, c >> \o s
<1>4. /\ u \in Seq(AllTasks) /\ Before(b, u) /\ Before(c, Tail(u)) /\ Tail(Tail(u)) = s
      /\ \A x : On(u, x) <=> x = b \/ x = c \/ On(s, x)
  BY <1>1, PutTwo
<1>5. todo' = << a >> \o u
  <2>1. << a, b, c >> \o s = << a >> \o (<< b, c >> \o s)
    BY <1>1, PushThree, SMTT(60)
  <2> QED BY <1>3, <2>1
<1> HIDE DEF u
<1>6. /\ todo' \in Seq(AllTasks) /\ Before(a, todo') /\ Tail(todo') = u
      /\ \A x : On(todo', x) <=> x = a \/ On(u, x)
  BY <1>1, <1>4, <1>5, PutOne
<1>7. InitNext(m, u)
  BY <1>4 DEF InitNext, ChangedNext, b, c
<1> QED BY <1>2, <1>4, <1>6, <1>7 DEF a

LEMMA EnemyChangeInv ==
  ASSUME SSIInv, NEW s \in States, EnemyChange(s)
  PROVE  SSIInv' /\ Under
<1>1. /\ currentMgr = mainMgr /\ currentMgr' = mainMgr /\ Settled(mainMgr)
      /\ todo \in Seq(AllTasks) /\ Idle(todo)
  BY InEnemyIs DEF EnemyChange
<1>2. /\ Call(<< Task(mainMgr, "finalize"), Task(mainMgr, "initialize"), Task(mainMgr, "changed") >>)
      /\ mpNewStateID' = [mpNewStateID EXCEPT ![mainMgr] = s]
      /\ UNCHANGED << flagVars, idVars, mExecutionLock, mRefreshStateMethod >>
  BY <1>1 DEF EnemyChange, ChangeState
<1>3. /\ todo' \in Seq(AllTasks) /\ Before(Task(mainMgr, "finalize"), todo')
      /\ InitNext(mainMgr, Tail(todo'))
      /\ \A n : /\ On(todo', Task(n, "run")) <=> On(todo, Task(n, "run"))
                /\ On(todo', Task(n, "executing")) <=> On(todo, Task(n, "executing"))
  BY <1>1, <1>2, ChangeTasksPut, Managers DEF Call, ChangeTasks
<1>4. ExecutionLocks'
  BY <1>2, <1>3, LocksKept DEF SSIInv
<1>5. Types' /\ HolderIsCurrent' /\ mRefreshStateMethod' = [m \in Mgrs |-> FALSE]
  BY <1>1, <1>2, <1>3, Managers DEF SSIInv, Types, HolderIsCurrent, flagVars, idVars
<1>6. Entering(mainMgr)'
  BY <1>1, <1>2, <1>3, Managers DEF SSIInv, Types, Entering, Settled, Live, Absent, flagVars
<1>7. SubStateOver' /\ Under
  BY <1>1, <1>2, Managers DEF SSIInv, SubStateOver, Under, isSubState, Absent, flagVars
<1> QED BY <1>1, <1>2, <1>4, <1>5, <1>6, <1>7 DEF SSIInv

LEMMA EnemyFreezeInv ==
  ASSUME SSIInv, EnemyFreeze
  PROVE  SSIInv' /\ Under
<1>1. /\ currentMgr = mainMgr /\ currentMgr' = subMgr /\ Settled(mainMgr)
      /\ todo \in Seq(AllTasks) /\ Idle(todo)
  BY InEnemyIs DEF EnemyFreeze
<1>2. /\ Call(<< Task(subMgr, "finalize"), Task(subMgr, "initialize"), Task(subMgr, "changed") >>)
      /\ mpNewStateID' = [mpNewStateID EXCEPT ![subMgr] = Ice]
      /\ UNCHANGED << flagVars, idVars, mExecutionLock, mRefreshStateMethod >>
  BY DEF EnemyFreeze, ChangeState
<1>3. /\ todo' \in Seq(AllTasks) /\ Before(Task(subMgr, "finalize"), todo')
      /\ InitNext(subMgr, Tail(todo'))
      /\ \A n : /\ On(todo', Task(n, "run")) <=> On(todo, Task(n, "run"))
                /\ On(todo', Task(n, "executing")) <=> On(todo, Task(n, "executing"))
  BY <1>1, <1>2, ChangeTasksPut, Managers DEF Call, ChangeTasks
<1>4. ExecutionLocks'
  BY <1>2, <1>3, LocksKept DEF SSIInv
<1>5. Absent(subMgr) /\ mpState[subMgr] = Null /\ mpState[mainMgr] # Ice
  <2>1. Absent(subMgr)
    BY <1>1, Managers DEF SSIInv, SubStateOver, isSubState
  <2>2. mpState[subMgr] = Null
    BY <2>1, Managers DEF SSIInv, HolderIsCurrent, Absent
  <2>3. CASE Live(mainMgr)
    BY <2>1, <2>2, <2>3, Managers DEF EnemyFreeze, mActive, Live
  <2>4. CASE Absent(mainMgr)
    BY <2>1, <2>2, <2>4, Managers DEF SSIInv, HolderIsCurrent, Absent
  <2> QED BY <1>1, <2>1, <2>2, <2>3, <2>4 DEF Settled
<1>6. Types' /\ HolderIsCurrent' /\ mRefreshStateMethod' = [m \in Mgrs |-> FALSE]
  BY <1>1, <1>2, <1>3, Managers DEF SSIInv, Types, HolderIsCurrent, flagVars, idVars
<1>7. Entering(subMgr)'
  BY <1>1, <1>2, <1>3, <1>5, Managers DEF SSIInv, Types, Entering, Absent, flagVars
<1>8. SubStateOver' /\ Under
  BY <1>1, <1>2, <1>5, Managers DEF SSIInv, Types, SubStateOver, Under, isSubState,
       Settled, Live, Absent, flagVars, idVars
<1> QED BY <1>1, <1>2, <1>4, <1>6, <1>7, <1>8 DEF SSIInv

LEMMA EnemyThawInv ==
  ASSUME SSIInv, EnemyThaw
  PROVE  SSIInv' /\ Under
<1> DEFINE a == Task(subMgr, "finalize")
<1>1. /\ currentMgr = subMgr /\ currentMgr' = subMgr /\ Live(subMgr)
      /\ todo \in Seq(AllTasks) /\ Idle(todo) /\ todo' = << a, Returning >> \o todo
  BY InEnemyIs DEF EnemyThaw, isSubState, Call
<1>2. /\ a \in AllTasks /\ Returning \in AllTasks
      /\ \A n : Task(n, "run") \notin {a, Returning} /\ Task(n, "executing") \notin {a, Returning}
  BY TaskIs, TaskType, Managers DEF Calls
<1>3. UNCHANGED << flagVars, idVars, mpNewStateID, mRefreshStateMethod, currentMgr, mExecutionLock >>
  BY DEF EnemyThaw, NothingElse
<1> HIDE DEF a
<1>4. /\ todo' \in Seq(AllTasks) /\ Before(a, todo') /\ ReturnNext(Tail(todo'))
      /\ \A x : On(todo', x) <=> x = a \/ x = Returning \/ On(todo, x)
  <2>1. LET v == << a, Returning >> \o todo IN
        /\ v \in Seq(AllTasks) /\ Before(a, v) /\ Before(Returning, Tail(v)) /\ Tail(Tail(v)) = todo
        /\ \A x : On(v, x) <=> x = a \/ x = Returning \/ On(todo, x)
    BY <1>1, <1>2, PutTwo
  <2> QED BY <1>1, <2>1 DEF ReturnNext
<1>5. ExecutionLocks'
  BY <1>2, <1>3, <1>4, LocksKept DEF SSIInv
<1>6. Leaving(currentMgr)'
  BY <1>1, <1>3, <1>4, FlagsKept DEF Leaving, a
<1> QED BY <1>3, <1>4, <1>5, <1>6, FlagsKept DEF SSIInv, Types

LEMMA EnemyThawAndChangeInv ==
  ASSUME SSIInv, NEW s \in States, EnemyThawAndChange(s)
  PROVE  SSIInv' /\ Under
<1> DEFINE a == Task(subMgr, "finalize")
           c == Changing(s)
<1>1. /\ currentMgr = subMgr /\ currentMgr' = subMgr /\ Live(subMgr)
      /\ todo \in Seq(AllTasks) /\ Idle(todo) /\ todo' = << a, Returning, c >> \o todo
  BY InEnemyIs DEF EnemyThawAndChange, isSubState, Call
<1>2. /\ a \in AllTasks /\ Returning \in AllTasks /\ c \in AllTasks
      /\ \A n : /\ Task(n, "run") \notin {a, Returning, c}
                /\ Task(n, "executing") \notin {a, Returning, c}
  BY TaskIs, TaskType, Managers DEF Calls
<1>3. UNCHANGED << flagVars, idVars, mpNewStateID, mRefreshStateMethod, currentMgr, mExecutionLock >>
  BY DEF EnemyThawAndChange, NothingElse
<1> HIDE DEF a, c
<1> DEFINE u == << Returning, c >> \o todo
<1>4. /\ u \in Seq(AllTasks) /\ Before(Returning, u) /\ Before(c, Tail(u)) /\ Tail(Tail(u)) = todo
      /\ \A x : On(u, x) <=> x = Returning \/ x = c \/ On(todo, x)
  BY <1>1, <1>2, PutTwo
<1>5. todo' = << a >> \o u
  <2>1. << a, Returning, c >> \o todo = << a >> \o (<< Returning, c >> \o todo)
    <3>1. todo \in Seq(AllTasks) /\ a \in AllTasks /\ Returning \in AllTasks /\ c \in AllTasks
      BY <1>1, <1>2
    <3> QED BY ONLY <3>1, PushThree, SMTT(60)
  <2> QED BY <1>1, <2>1
<1> HIDE DEF u
<1>6. /\ todo' \in Seq(AllTasks) /\ Before(a, todo') /\ Tail(todo') = u
      /\ \A x : On(todo', x) <=> x = a \/ On(u, x)
  BY <1>2, <1>4, <1>5, PutOne
<1>7. ReturnNext(u)
  BY <1>1, <1>4 DEF ReturnNext, ChangeNext, c
<1>8. ExecutionLocks'
  BY <1>2, <1>3, <1>4, <1>6, LocksKept DEF SSIInv
<1>9. Leaving(currentMgr)'
  BY <1>1, <1>3, <1>6, <1>7, FlagsKept DEF Leaving, a
<1> QED BY <1>3, <1>6, <1>8, <1>9, FlagsKept DEF SSIInv, Types

LEMMA ReturnEndsInv ==
  ASSUME SSIInv, ReturnEnds
  PROVE  SSIInv' /\ Under
<1> DEFINE r == Tail(todo)
<1>1. /\ Before(Returning, todo) /\ todo' = r /\ currentMgr' = mainMgr
      /\ UNCHANGED << flagVars, idVars, mpNewStateID, mExecutionLock, mRefreshStateMethod >>
  BY DEF ReturnEnds, NothingElse, Before
<1>2. currentMgr = subMgr /\ Absent(subMgr) /\ (Idle(r) \/ ChangeNext(r))
  BY <1>1, Positions
<1>3. Settled(mainMgr)
  BY <1>2 DEF SSIInv, SubStateOver, isSubState
<1>4. r \in Seq(AllTasks) /\ \A x : On(todo, x) <=> x = Returning \/ On(r, x)
  BY <1>1, Pop DEF SSIInv, Types, Before
<1>5. ExecutionLocks'
  BY <1>1, <1>4, LocksKept, TaskIs DEF SSIInv
<1>6. Types' /\ HolderIsCurrent' /\ mRefreshStateMethod' = [m \in Mgrs |-> FALSE]
  BY <1>1, <1>4, Managers DEF SSIInv, Types, HolderIsCurrent, flagVars, idVars
<1>7. AtRest(mainMgr)'
  BY <1>1, <1>2, <1>3 DEF AtRest, Settled, Live, Absent, flagVars
<1>8. SubStateOver' /\ Under
  BY <1>1, <1>2, Managers DEF SubStateOver, Under, isSubState, Absent, flagVars
<1> QED BY <1>1, <1>5, <1>6, <1>7, <1>8 DEF SSIInv

LEMMA ChangeContinuesInv ==
  ASSUME SSIInv, ChangeContinues
  PROVE  SSIInv' /\ Under
<1> DEFINE r == Tail(todo)
<1>1. currentMgr = mainMgr /\ Settled(mainMgr) /\ ChangeNext(todo)
  BY Positions DEF ChangeContinues
<1>2. PICK x \in States : Before(Changing(x), todo)
  BY <1>1 DEF ChangeNext
<1>3. /\ mpNewStateID' = [mpNewStateID EXCEPT ![mainMgr] = x]
      /\ todo' = << Task(mainMgr, "finalize"), Task(mainMgr, "initialize"),
                    Task(mainMgr, "changed") >> \o r
      /\ UNCHANGED << flagVars, idVars, mExecutionLock, mRefreshStateMethod, currentMgr >>
  BY <1>1, <1>2, TaskIs DEF ChangeContinues, Before
<1>4. /\ r \in Seq(AllTasks) /\ Idle(r)
      /\ \A y : On(todo, y) <=> y = Changing(x) \/ On(r, y)
  BY <1>1, <1>2, Pop DEF SSIInv, Types, Before, ChangeNext
<1> HIDE DEF r
<1>5. /\ todo' \in Seq(AllTasks) /\ Before(Task(mainMgr, "finalize"), todo')
      /\ InitNext(mainMgr, Tail(todo'))
      /\ \A n : /\ On(todo', Task(n, "run")) <=> On(r, Task(n, "run"))
                /\ On(todo', Task(n, "executing")) <=> On(r, Task(n, "executing"))
  BY <1>3, <1>4, ChangeTasksPut, Managers DEF ChangeTasks
<1>6. ExecutionLocks'
  <2>1. \A n, a : a \in {"run", "executing"} => Task(n, a) # Changing(x)
    BY TaskIs
  <2> QED BY <1>3, <1>4, <1>5, <2>1, LocksKept DEF SSIInv
<1>7. Types' /\ HolderIsCurrent' /\ mRefreshStateMethod' = [m \in Mgrs |-> FALSE]
  BY <1>1, <1>3, <1>5, Managers DEF SSIInv, Types, HolderIsCurrent, flagVars, idVars
<1>8. Entering(mainMgr)'
  BY <1>1, <1>3, <1>5, Managers DEF SSIInv, Types, Entering, Settled, Live, Absent, flagVars
<1>9. SubStateOver' /\ Under
  BY <1>1, <1>3, Managers DEF SSIInv, SubStateOver, Under, isSubState, Absent, flagVars
<1> QED BY <1>1, <1>3, <1>6, <1>7, <1>8, <1>9 DEF SSIInv

-----------------------------------------------------------------------------
(* The theorems.                                                            *)

LEMMA InitSSIInv == SSInit => SSIInv
<1> SUFFICES ASSUME SSInit PROVE SSIInv
  OBVIOUS
<1>1. Types
  BY Managers DEF SSInit, Init, Types
<1>2. AtRest(currentMgr)
  BY Managers DEF SSInit, Init, AtRest, Settled, Absent, Idle
<1>3. SubStateOver /\ HolderIsCurrent
  BY Managers DEF SSInit, Init, SubStateOver, HolderIsCurrent, Absent, isSubState
<1>4. ExecutionLocks
  BY OnNone DEF SSInit, Init, ExecutionLocks
<1> QED BY <1>1, <1>2, <1>3, <1>4 DEF SSIInv, SSInit, Init

LEMMA StepSSIInv ==
  ASSUME SSIInv, [SSNext]_ssVars
  PROVE  SSIInv' /\ Under
<1>1. CASE UNCHANGED ssVars
  <2>1. UNCHANGED << flagVars, idVars, mpNewStateID, mRefreshStateMethod, currentMgr,
                     mExecutionLock, todo >>
    BY <1>1 DEF ssVars, vars
  <2>2. /\ AtRest(currentMgr)' \/ Entering(currentMgr)' \/ Leaving(currentMgr)'
        /\ ExecutionLocks'
    <3>1. ExecutionLocks'
      BY <2>1 DEF SSIInv, ExecutionLocks, On
    <3> QED BY <2>1, <3>1 DEF SSIInv, AtRest, Entering, Leaving, flagVars, idVars, Live, Absent,
               Finalizing, Settled, Initializing, Idle, Before, RunNext, ChangedNext, InitNext,
               ChangeNext, ReturnNext
  <2> QED BY <2>1, <2>2, FlagsKept DEF SSIInv, Types
<1>2. ASSUME NEW m \in Mgrs, Manager(m) \/ Returns(m), UNCHANGED currentMgr
      PROVE  SSIInv' /\ Under
  BY <1>2, StartInitializeInv, SkipInitializeInv, StartFinalizeInv, SkipFinalizeInv, ChangedInv,
     StartPassInv, SkipExecuteInv, RunStateInv, InitializeReturnsInv, FinalizeReturnsInv,
     ExecuteReturnsInv DEF Manager, Returns
<1>3. ASSUME NEW s \in States, EnemyChange(s) \/ EnemyThawAndChange(s)
      PROVE  SSIInv' /\ Under
  BY <1>3, EnemyChangeInv, EnemyThawAndChangeInv
<1> QED BY <1>1, <1>2, <1>3, EnemyExecuteInv, EnemyInitializeInv, EnemyFreezeInv, EnemyThawInv,
           ReturnEndsInv, ChangeContinuesInv DEF SSNext, Continue

\* The locks are held by the methods on the stack.
LEMMA LocksMatch ==
  ASSUME SSIInv
  PROVE  LocksMatchStack
<1> SUFFICES ASSUME NEW m \in Mgrs
             PROVE  /\ mInitFinalizeLock[m] <=>
                         InProgress(m, IF mIsValid[m] THEN "finalizing" ELSE "initializing")
                    /\ ~InProgress(m, IF mIsValid[m] THEN "initializing" ELSE "finalizing")
                    /\ mExecutionLock[m] <=> InProgress(m, "run") \/ InProgress(m, "executing")
  BY DEF LocksMatchStack
<1>1. \A a : InProgress(m, a) <=> On(todo, Task(m, a))
  BY DEF InProgress, On
<1>2. mExecutionLock[m] <=> InProgress(m, "run") \/ InProgress(m, "executing")
  BY <1>1 DEF SSIInv, ExecutionLocks
<1> DEFINE Holds(a) == On(todo, Task(m, a))
<1>3. /\ Initializing(m) => Holds("initializing")
      /\ Finalizing(m) => Holds("finalizing")
      /\ Holds("initializing") => Initializing(m)
      /\ Holds("finalizing") => Finalizing(m)
  <2> DEFINE c == currentMgr
             r == Tail(todo)
             Free(s) == \A a \in {"initializing", "finalizing"} : ~On(s, Task(m, a))
  <2>1. todo \in Seq(AllTasks) /\ c \in Mgrs
    BY DEF SSIInv, Types
  <2>2. m # c => ~mInitFinalizeLock[m]
    BY <2>1, Managers DEF SSIInv, SubStateOver, isSubState, Settled, Live, Absent
  <2>3. ASSUME NEW t, Before(t, todo)
        PROVE  r \in Seq(AllTasks) /\ \A x : On(todo, x) <=> x = t \/ On(r, x)
    BY <2>1, <2>3, Pop DEF Before
  <2>4. \A s \in Seq(AllTasks) : \/ Idle(s) \/ RunNext(c, s) \/ ChangedNext(c, s) \/ InitNext(c, s)
                                 \/ ChangeNext(s) \/ ReturnNext(s)
                                => Free(s)
    <3>1. SUFFICES ASSUME NEW s \in Seq(AllTasks), NEW a \in {"initializing", "finalizing"},
                          On(s, Task(m, a)),
                          \/ Idle(s) \/ RunNext(c, s) \/ ChangedNext(c, s) \/ InitNext(c, s)
                          \/ ChangeNext(s) \/ ReturnNext(s)
                   PROVE  FALSE
      OBVIOUS
    <3> QED BY <3>1, OnShapes
  <2>5. ASSUME NEW b, Before(Task(c, b), todo), Free(r)
        PROVE  \A a \in {"initializing", "finalizing"} : Holds(a) <=> m = c /\ a = b
    BY <2>3, <2>5, TaskIs
  <2> HIDE DEF Free, Holds
  <2>6. CASE Settled(c)
             /\ \/ Free(todo)
                \/ Free(r) /\ (Before(Task(c, "execute"), todo) \/ Before(Task(c, "initialize"), todo))
    <3>1. ~Holds("initializing") /\ ~Holds("finalizing")
      BY <2>5, <2>6 DEF Free, Holds
    <3>2. ~mInitFinalizeLock[m]
      BY <2>2, <2>6 DEF Settled, Live, Absent
    <3> QED BY <3>1, <3>2 DEF Initializing, Finalizing
  <2>7. CASE AtRest(c)
    <3>1. \/ Free(todo)
          \/ Free(r) /\ (Before(Task(c, "execute"), todo) \/ Before(Task(c, "initialize"), todo))
      BY <2>1, <2>3, <2>4, <2>7, OnNone DEF AtRest, Idle
    <3> QED BY <2>6, <2>7, <3>1 DEF AtRest
  <2>8. CASE Entering(c)
    <3>1. CASE ~mInitFinalizeLock[c] /\ Before(Task(c, "finalize"), todo) /\ InitNext(c, r)
      <4>0. Free(r)
        BY <2>3, <2>4, <3>1
      <4>1. ~Holds("initializing") /\ ~Holds("finalizing")
        BY <2>5, <3>1, <4>0
      <4> QED BY <2>2, <3>1, <4>1 DEF Initializing, Finalizing
    <3>2. CASE Finalizing(c) /\ Before(Task(c, "finalizing"), todo) /\ InitNext(c, r)
      <4>1. ~Holds("initializing") /\ (Holds("finalizing") <=> m = c)
        BY <2>3, <2>4, <2>5, <3>2
      <4> QED BY <2>2, <3>2, <4>1 DEF Initializing, Finalizing
    <3>3. CASE Absent(c) /\ InitNext(c, todo)
      <4>1. ~Holds("initializing") /\ ~Holds("finalizing")
        BY <2>1, <2>4, <3>3 DEF Free, Holds
      <4> QED BY <2>2, <3>3, <4>1 DEF Initializing, Finalizing, Absent
    <3>4. CASE Initializing(c) /\ Before(Task(c, "initializing"), todo) /\ ChangedNext(c, r)
      <4>1. ~Holds("finalizing") /\ (Holds("initializing") <=> m = c)
        BY <2>3, <2>4, <2>5, <3>4
      <4> QED BY <2>2, <3>4, <4>1 DEF Initializing, Finalizing
    <3> QED BY <2>8, <3>1, <3>2, <3>3, <3>4 DEF Entering, Absent
  <2>9. CASE Leaving(c)
    <3>1. CASE Live(c) /\ Before(Task(c, "finalize"), todo) /\ ReturnNext(r)
      <4>0. Free(r)
        BY <2>3, <2>4, <3>1
      <4>1. ~Holds("initializing") /\ ~Holds("finalizing")
        BY <2>5, <3>1, <4>0
      <4> QED BY <2>2, <3>1, <4>1 DEF Initializing, Finalizing, Live
    <3>2. CASE Finalizing(c) /\ Before(Task(c, "finalizing"), todo) /\ ReturnNext(r)
      <4>1. ~Holds("initializing") /\ (Holds("finalizing") <=> m = c)
        BY <2>3, <2>4, <2>5, <3>2
      <4> QED BY <2>2, <3>2, <4>1 DEF Initializing, Finalizing
    <3>3. CASE Absent(c) /\ ReturnNext(todo)
      <4>1. ~Holds("initializing") /\ ~Holds("finalizing")
        BY <2>1, <2>4, <3>3 DEF Free, Holds
      <4> QED BY <2>2, <3>3, <4>1 DEF Initializing, Finalizing, Absent
    <3> QED BY <2>9, <3>1, <3>2, <3>3 DEF Leaving
  <2> QED BY <2>7, <2>8, <2>9 DEF SSIInv
<1> QED BY <1>1, <1>2, <1>3 DEF Initializing, Finalizing, SSIInv, Types

LEMMA SSIInvImplies ==
  ASSUME SSIInv
  PROVE  SSInv
<1>1. SSTypeOK
  BY LocksMatch DEF SSIInv, SSTypeOK, Types, AllTasks
<1>2. ASSUME todo = << >>
      PROVE  /\ isSubState <=> mIsValid[subMgr]
             /\ isSubState => mpState[subMgr] = Ice
             /\ ~(\A m \in Mgrs : mIsValid[m] /\ mpState[m] = Ice)
  <2>1. InEnemy
    BY <1>2 DEF InEnemy
  <2>2. CASE isSubState
    BY <2>1, <2>2, InEnemyIs, Managers DEF SSIInv, SubStateOver, Live
  <2>3. CASE ~isSubState
    BY <2>1, <2>3, Managers DEF SSIInv, SubStateOver, Absent
  <2> QED BY <2>2, <2>3
<1> QED BY <1>1, <1>2 DEF SSInv, SubStateIsIce, FrozenOnce

\* Between executions an enemy is in its sub state exactly while that is live,
\* the sub state is the ice, and the ice is not also the state under it
\* (sStateStateMgr_c::isSubState, dEn_c::hitCallback_Ice).
THEOREM StateStateInvariant == SSSpec => []SSInv
<1>1. SSIInv /\ [SSNext]_ssVars => SSIInv'
  BY StepSSIInv
<1>2. SSIInv => SSInv
  BY SSIInvImplies
<1> QED BY InitSSIInv, <1>1, <1>2, PTL DEF SSSpec

\* No step taken in the sub state disturbs the state that it suspends
\* (sStateStateMgr_c::changeToSubState, returnState).
THEOREM StateKeptTheorem == SSSpec => StateKeptUnderSubState
<1>1. SSIInv /\ [SSNext]_ssVars => SSIInv'
  BY StepSSIInv
<1>2. SSIInv /\ [SSNext]_ssVars =>
        [isSubState /\ isSubState' =>
           mpState'[mainMgr] = mpState[mainMgr] /\ mIsValid'[mainMgr] = mIsValid[mainMgr]]_ssVars
  BY StepSSIInv DEF Under
<1> QED BY InitSSIInv, <1>1, <1>2, PTL DEF SSSpec, StateKeptUnderSubState
=============================================================================
