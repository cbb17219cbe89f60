--------------------------- MODULE StateMethodProofs ---------------------------
(***************************************************************************)
(* For any managers, states and client: the inductive invariant of         *)
(* StateMethod, what follows from it, and that StateMethod implements      *)
(* StateLife.                                                              *)
(***************************************************************************)
EXTENDS StateMethod, SequenceTheorems, TLAPS

-----------------------------------------------------------------------------
(* The call stack.                                                          *)

\* Where the elements of t \o s come from.
LEMMA Cat ==
  ASSUME NEW T, NEW s \in Seq(T), NEW t \in Seq(T)
  PROVE  /\ t \o s \in Seq(T)
         /\ Len(t) \in Nat /\ Len(s) \in Nat /\ Len(t \o s) = Len(t) + Len(s)
         /\ \A i \in 1..Len(t) : (t \o s)[i] = t[i]
         /\ \A i \in (Len(t) + 1)..(Len(t) + Len(s)) :
              i - Len(t) \in 1..Len(s) /\ (t \o s)[i] = s[i - Len(t)]
<1>1. t \o s \in Seq(T) /\ Len(t) \in Nat /\ Len(s) \in Nat /\ Len(t \o s) = Len(t) + Len(s)
  BY ConcatProperties, LenProperties
<1>2. \A i \in 1..(Len(t) + Len(s)) :
        (t \o s)[i] = IF i <= Len(t) THEN t[i] ELSE s[i - Len(t)]
  BY ConcatProperties
<1> QED BY <1>1, <1>2

LEMMA TaskIs ==
  ASSUME NEW m, NEW a
  PROVE  Task(m, a).mgr = m /\ Task(m, a).at = a
BY DEF Task

\* A task is known by its manager and its name.
LEMMA TaskEq ==
  ASSUME NEW t \in Tasks
  PROVE  /\ t.mgr \in Mgrs /\ t.at \in Calls \cup Activities
         /\ \A m, a : t = Task(m, a) <=> t.mgr = m /\ t.at = a
BY DEF Tasks, Task

LEMMA TaskType ==
  ASSUME NEW m \in Mgrs, NEW a \in Calls \cup Activities
  PROVE  Task(m, a) \in Tasks
BY DEF Task, Tasks

LEMMA StackType ==
  ASSUME TypeOK
  PROVE  /\ todo \in Seq(Tasks) /\ Len(todo) \in Nat
         /\ \A i \in 1..Len(todo) : todo[i] \in Tasks
         /\ todo # << >> => Len(todo) >= 1 /\ Head(todo) = todo[1]
         /\ Len(todo) >= 1 => todo # << >>
<1>1. todo \in Seq(Tasks)
  BY DEF TypeOK
<1>2. Len(todo) \in Nat /\ \A i \in 1..Len(todo) : todo[i] \in Tasks
  BY <1>1, LenProperties, ElementOfSeq
<1>3. todo # << >> => Len(todo) >= 1 /\ Head(todo) = todo[1]
  BY <1>1, <1>2, EmptySeq, HeadTailProperties
<1>4. Len(todo) >= 1 => todo # << >>
  BY <1>1, EmptySeq
<1> QED BY <1>1, <1>2, <1>3, <1>4

\* A call puts tasks on top of the stack.
LEMMA Called ==
  ASSUME TypeOK, NEW ts \in Seq(Tasks), Call(ts)
  PROVE  /\ todo' \in Seq(Tasks) /\ Len(ts) \in Nat
         /\ Len(todo') = Len(ts) + Len(todo)
         /\ \A i \in 1..Len(ts) : todo'[i] = ts[i]
         /\ \A i \in (Len(ts) + 1)..Len(todo') :
              i - Len(ts) \in 1..Len(todo) /\ todo'[i] = todo[i - Len(ts)]
BY StackType, Cat DEF Call

\* A task is done and replaced by others.
LEMMA Done ==
  ASSUME TypeOK, NEW m, NEW a, NEW ts \in Seq(Tasks), Do(m, a, ts)
  PROVE  /\ todo' \in Seq(Tasks) /\ Len(ts) \in Nat
         /\ Len(todo) >= 1 /\ todo[1] = Task(m, a)
         /\ Len(todo') = Len(ts) + Len(todo) - 1
         /\ \A i \in 1..Len(ts) : todo'[i] = ts[i]
         /\ \A i \in (Len(ts) + 1)..Len(todo') :
              i - Len(ts) + 1 \in 2..Len(todo) /\ todo'[i] = todo[i - Len(ts) + 1]
<1>1. todo \in Seq(Tasks) /\ todo # << >> /\ todo[1] = Task(m, a) /\ Len(todo) >= 1
      /\ Len(todo) \in Nat
  BY StackType DEF Do
<1>2. /\ Tail(todo) \in Seq(Tasks) /\ Len(Tail(todo)) = Len(todo) - 1
      /\ \A i \in 1..(Len(todo) - 1) : Tail(todo)[i] = todo[i + 1]
  BY <1>1, HeadTailProperties
<1>3. todo' = ts \o Tail(todo)
  BY DEF Do
<1>4. /\ todo' \in Seq(Tasks) /\ Len(ts) \in Nat
      /\ Len(todo') = Len(ts) + (Len(todo) - 1)
      /\ \A i \in 1..Len(ts) : todo'[i] = ts[i]
      /\ \A i \in (Len(ts) + 1)..(Len(ts) + (Len(todo) - 1)) :
           i - Len(ts) \in 1..(Len(todo) - 1) /\ todo'[i] = Tail(todo)[i - Len(ts)]
  BY <1>2, <1>3, Cat
<1>5. ASSUME NEW i \in (Len(ts) + 1)..Len(todo')
      PROVE  i - Len(ts) + 1 \in 2..Len(todo) /\ todo'[i] = todo[i - Len(ts) + 1]
  <2>1. i \in (Len(ts) + 1)..(Len(ts) + (Len(todo) - 1))
    BY <1>4
  <2>2. i - Len(ts) \in 1..(Len(todo) - 1) /\ todo'[i] = Tail(todo)[i - Len(ts)]
    BY <1>4, <2>1
  <2>3. Tail(todo)[i - Len(ts)] = todo[(i - Len(ts)) + 1]
    BY <1>2, <2>2
  <2> QED BY <1>1, <1>4, <2>2, <2>3
<1> QED BY <1>1, <1>4, <1>5

-----------------------------------------------------------------------------
(* What a step does to the tasks in progress.                               *)

\* The tasks that the locks guard.
Guarded == {"initializing", "finalizing", "run", "executing"}

LEMMA ExcludesIs ==
  ASSUME NEW t \in Tasks, NEW u \in Tasks
  PROVE  /\ Excludes(t, u) <=> Excludes(u, t)
         /\ Excludes(t, u) => t.mgr = u.mgr /\ t.at \in Guarded /\ u.at \in Guarded
BY DEF Excludes, Guarded

LEMMA CallGuarded ==
  ASSUME TypeOK, NEW ts \in Seq(Tasks), Call(ts),
         \A i \in 1..Len(ts) : ts[i].at \notin Guarded
  PROVE  /\ \A n \in Mgrs, b \in Guarded : InProgress(n, b)' <=> InProgress(n, b)
         /\ AtMostOnce => AtMostOnce'
<1> DEFINE k == Len(ts)
<1>1. /\ todo \in Seq(Tasks) /\ Len(todo) \in Nat /\ k \in Nat
      /\ \A i \in 1..Len(todo) : todo[i] \in Tasks
      /\ \A i \in 1..k : ts[i] \in Tasks
      /\ Len(todo') = k + Len(todo)
      /\ \A i \in 1..Len(todo') : todo'[i] \in Tasks
      /\ \A i \in 1..k : todo'[i] = ts[i]
      /\ \A i \in (k + 1)..(k + Len(todo)) : i - k \in 1..Len(todo) /\ todo'[i] = todo[i - k]
  BY StackType, Called, ElementOfSeq
<1>2. ASSUME NEW n \in Mgrs, NEW b \in Guarded PROVE InProgress(n, b)' <=> InProgress(n, b)
  <2>1. ASSUME NEW i \in 1..Len(todo), todo[i] = Task(n, b) PROVE InProgress(n, b)'
    <3>1. PICK j \in (k + 1)..(k + Len(todo)) : j - k = i
      <4>1. i + k \in (k + 1)..(k + Len(todo)) /\ (i + k) - k = i
        BY <1>1
      <4> QED BY <4>1
    <3>2. todo'[j] = Task(n, b)
      BY <1>1, <2>1, <3>1
    <3>3. j \in 1..Len(todo')
      BY <1>1
    <3> QED BY <3>2, <3>3 DEF InProgress
  <2>2. ASSUME NEW i \in 1..Len(todo'), todo'[i] = Task(n, b) PROVE InProgress(n, b)
    <3>1. CASE i <= k
      BY <1>1, <2>2, <3>1, TaskIs
    <3>2. CASE i > k
      BY <1>1, <2>2, <3>2 DEF InProgress
    <3> QED BY <1>1, <3>1, <3>2
  <2> QED BY <2>1, <2>2 DEF InProgress
<1>3. ASSUME AtMostOnce, NEW i \in 1..Len(todo'), NEW j \in 1..Len(todo'),
             Excludes(todo'[i], todo'[j])
      PROVE  i = j
  <2>1. CASE i <= k \/ j <= k
    <3>1. todo'[i] \in Tasks /\ todo'[j] \in Tasks
      BY <1>1
    <3>2. todo'[i].at \in Guarded /\ todo'[j].at \in Guarded
      BY <1>3, <3>1, ExcludesIs
    <3> QED BY <1>1, <2>1, <3>2
  <2>2. CASE i > k /\ j > k
    <3>1. i - k \in 1..Len(todo) /\ j - k \in 1..Len(todo)
          /\ todo'[i] = todo[i - k] /\ todo'[j] = todo[j - k]
      BY <1>1, <2>2
    <3>2. i - k = j - k
      BY <1>3, <3>1 DEF AtMostOnce
    <3> QED BY <1>1, <3>2
  <2> QED BY <1>1, <2>1, <2>2
<1>4. AtMostOnce => AtMostOnce'
  BY <1>3 DEF AtMostOnce
<1> QED BY <1>2, <1>4

LEMMA DoGuarded ==
  ASSUME TypeOK, AtMostOnce, NEW m \in Mgrs, NEW a \in Calls \cup Activities,
         NEW ts \in Seq(Tasks), Do(m, a, ts)
  PROVE  /\ InProgress(m, a)
         /\ \A n \in Mgrs, b \in Calls \cup Activities : Task(n, b) # Task(m, a) =>
              (InProgress(n, b)' <=>
                 InProgress(n, b) \/ \E i \in 1..Len(ts) : ts[i] = Task(n, b))
         /\ a \in Guarded =>
              (InProgress(m, a)' <=> \E i \in 1..Len(ts) : ts[i] = Task(m, a))
<1> DEFINE k == Len(ts)
<1>1. /\ todo \in Seq(Tasks) /\ Len(todo) \in Nat /\ k \in Nat
      /\ \A i \in 1..Len(todo) : todo[i] \in Tasks
      /\ Len(todo) >= 1 /\ todo[1] = Task(m, a)
      /\ Len(todo') = k + Len(todo) - 1
      /\ \A i \in 1..k : todo'[i] = ts[i]
      /\ \A i \in (k + 1)..(k + Len(todo) - 1) :
           i - k + 1 \in 2..Len(todo) /\ todo'[i] = todo[i - k + 1]
  BY StackType, Done
<1>2. ASSUME NEW n \in Mgrs, NEW b \in Calls \cup Activities,
             NEW i \in 2..Len(todo), todo[i] = Task(n, b)
      PROVE  InProgress(n, b)'
  <2>1. PICK j \in (k + 1)..(k + Len(todo) - 1) : j - k + 1 = i
    <3>1. i + k - 1 \in (k + 1)..(k + Len(todo) - 1) /\ (i + k - 1) - k + 1 = i
      BY <1>1
    <3> QED BY <3>1
  <2>2. todo'[j] = Task(n, b)
    BY <1>1, <1>2, <2>1
  <2>3. j \in 1..Len(todo')
    BY <1>1
  <2> QED BY <2>2, <2>3 DEF InProgress
<1>3. ASSUME NEW n \in Mgrs, NEW b \in Calls \cup Activities,
             NEW i \in 1..k, ts[i] = Task(n, b)
      PROVE  InProgress(n, b)'
  <2>1. i \in 1..Len(todo') /\ todo'[i] = Task(n, b)
    BY <1>1, <1>3
  <2> QED BY <2>1 DEF InProgress
<1>4. ASSUME NEW n \in Mgrs, NEW b \in Calls \cup Activities,
             NEW i \in 1..Len(todo'), todo'[i] = Task(n, b)
      PROVE  \/ \E j \in 1..k : ts[j] = Task(n, b)
             \/ \E j \in 2..Len(todo) : todo[j] = Task(n, b)
  <2>1. CASE i <= k
    BY <1>1, <1>4, <2>1
  <2>2. CASE i > k
    <3>1. i \in (k + 1)..(k + Len(todo) - 1)
      BY <1>1, <2>2
    <3>2. i - k + 1 \in 2..Len(todo) /\ todo[i - k + 1] = Task(n, b)
      BY <1>1, <1>4, <3>1
    <3> QED BY <3>2
  <2> QED BY <1>1, <2>1, <2>2
<1>5. InProgress(m, a)
  BY <1>1 DEF InProgress
<1>6. ASSUME NEW n \in Mgrs, NEW b \in Calls \cup Activities, Task(n, b) # Task(m, a)
      PROVE  InProgress(n, b)' <=>
               InProgress(n, b) \/ \E i \in 1..k : ts[i] = Task(n, b)
  <2>1. \A i \in 1..Len(todo) : todo[i] = Task(n, b) => i \in 2..Len(todo)
    BY <1>1, <1>6
  <2>2. InProgress(n, b)' => InProgress(n, b) \/ \E i \in 1..k : ts[i] = Task(n, b)
    <3>1. SUFFICES ASSUME NEW i \in 1..Len(todo'), todo'[i] = Task(n, b)
                   PROVE  InProgress(n, b) \/ \E j \in 1..k : ts[j] = Task(n, b)
      BY DEF InProgress
    <3>2. \/ \E j \in 1..k : ts[j] = Task(n, b)
          \/ \E j \in 2..Len(todo) : todo[j] = Task(n, b)
      BY <1>4, <3>1
    <3>3. \A j \in 2..Len(todo) : j \in 1..Len(todo)
      BY <1>1
    <3> QED BY <3>2, <3>3 DEF InProgress
  <2>3. InProgress(n, b) => InProgress(n, b)'
    BY <1>2, <2>1 DEF InProgress
  <2>4. (\E i \in 1..k : ts[i] = Task(n, b)) => InProgress(n, b)'
    BY <1>3
  <2> QED BY <2>2, <2>3, <2>4
<1>7. ASSUME a \in Guarded
      PROVE  InProgress(m, a)' <=> \E i \in 1..k : ts[i] = Task(m, a)
  <2>1. ASSUME NEW j \in 2..Len(todo), todo[j] = Task(m, a) PROVE FALSE
    <3>1. Excludes(todo[1], todo[j])
      BY <1>1, <1>7, <2>1, TaskIs DEF Excludes, Guarded
    <3> QED BY <1>1, <3>1 DEF AtMostOnce
  <2>2. InProgress(m, a)' => \E i \in 1..k : ts[i] = Task(m, a)
    BY <1>4, <2>1 DEF InProgress
  <2> QED BY <1>3, <2>2
<1> QED BY <1>5, <1>6, <1>7

\* New tasks that exclude no other leave every task in progress at most once.
LEMMA DoAtMostOnce ==
  ASSUME TypeOK, AtMostOnce, NEW m \in Mgrs, NEW a \in Calls \cup Activities,
         NEW ts \in Seq(Tasks), Do(m, a, ts),
         \A i, j \in 1..Len(ts) : Excludes(ts[i], ts[j]) => i = j,
         \A i \in 1..Len(ts), j \in 2..Len(todo) : ~Excludes(ts[i], todo[j])
  PROVE  AtMostOnce'
<1> DEFINE k == Len(ts)
<1>1. /\ todo \in Seq(Tasks) /\ Len(todo) \in Nat /\ k \in Nat
      /\ \A i \in 1..Len(todo) : todo[i] \in Tasks
      /\ \A i \in 1..k : ts[i] \in Tasks
      /\ Len(todo) >= 1
      /\ Len(todo') = k + Len(todo) - 1
      /\ \A i \in 1..k : todo'[i] = ts[i]
      /\ \A i \in (k + 1)..(k + Len(todo) - 1) :
           i - k + 1 \in 2..Len(todo) /\ todo'[i] = todo[i - k + 1]
  BY StackType, Done, ElementOfSeq
<1>2. ASSUME NEW i \in 1..Len(todo'), NEW j \in 1..Len(todo'), Excludes(todo'[i], todo'[j])
      PROVE  i = j
  <2>1. CASE i <= k /\ j <= k
    BY <1>1, <1>2, <2>1
  <2>2. CASE i <= k /\ j > k
    <3>1. j \in (k + 1)..(k + Len(todo) - 1) /\ i \in 1..k
      BY <1>1, <2>2
    <3>2. j - k + 1 \in 2..Len(todo) /\ todo'[j] = todo[j - k + 1] /\ todo'[i] = ts[i]
      BY <1>1, <3>1
    <3> QED BY <1>2, <3>1, <3>2
  <2>3. CASE i > k /\ j <= k
    <3>1. i \in (k + 1)..(k + Len(todo) - 1) /\ j \in 1..k
      BY <1>1, <2>3
    <3>2. i - k + 1 \in 2..Len(todo) /\ todo'[i] = todo[i - k + 1] /\ todo'[j] = ts[j]
      BY <1>1, <3>1
    <3>3. todo[i - k + 1] \in Tasks /\ ts[j] \in Tasks
      BY <1>1, <3>1, <3>2
    <3>4. Excludes(ts[j], todo[i - k + 1])
      BY <1>2, <3>2, <3>3, ExcludesIs
    <3> QED BY <3>1, <3>2, <3>4
  <2>4. CASE i > k /\ j > k
    <3>1. i - k + 1 \in 2..Len(todo) /\ todo'[i] = todo[i - k + 1]
          /\ j - k + 1 \in 2..Len(todo) /\ todo'[j] = todo[j - k + 1]
      BY <1>1, <2>4
    <3>2. Excludes(todo[i - k + 1], todo[j - k + 1])
      BY <1>2, <3>1
    <3>3. i - k + 1 \in 1..Len(todo) /\ j - k + 1 \in 1..Len(todo)
      BY <1>1, <3>1
    <3>4. i - k + 1 = j - k + 1
      BY <3>2, <3>3 DEF AtMostOnce
    <3> QED BY <1>1, <3>4
  <2> QED BY <1>1, <2>1, <2>2, <2>3, <2>4
<1> QED BY <1>2 DEF AtMostOnce

\* A state about to be executed stays prepared when anything else is done but
\* the initialisation that prepares it.
LEMMA DoRun ==
  ASSUME TypeOK, RunIsPrepared, NEW m \in Mgrs, NEW a \in Calls \cup Activities,
         a \notin {"initialize", "initializing"},
         NEW ts \in Seq(Tasks), Do(m, a, ts), UNCHANGED mpNewStateID,
         \A i \in 1..Len(ts) : ts[i].at # "run"
  PROVE  RunIsPrepared'
<1> DEFINE k == Len(ts)
<1>1. /\ todo \in Seq(Tasks) /\ Len(todo) \in Nat /\ k \in Nat
      /\ Len(todo) >= 1 /\ todo[1] = Task(m, a)
      /\ Len(todo') = k + Len(todo) - 1
      /\ \A i \in 1..k : todo'[i] = ts[i]
      /\ \A i \in (k + 1)..(k + Len(todo) - 1) :
           i - k + 1 \in 2..Len(todo) /\ todo'[i] = todo[i - k + 1]
  BY StackType, Done
<1>2. SUFFICES ASSUME NEW i \in 1..Len(todo'), todo'[i].at = "run"
               PROVE  /\ mpNewStateID'[todo'[i].mgr] # Null
                      /\ i # 1
                      /\ todo'[i - 1] \in { Task(todo'[i].mgr, "initialize"),
                                            Task(todo'[i].mgr, "initializing") }
  BY DEF RunIsPrepared
<1>3. i > k
  BY <1>1, <1>2
<1>4. PICK j \in 2..Len(todo) : j = i - k + 1 /\ todo'[i] = todo[j]
  BY <1>1, <1>3, SMTT(60)
<1>5. /\ mpNewStateID[todo[j].mgr] # Null
      /\ todo[j - 1] \in { Task(todo[j].mgr, "initialize"), Task(todo[j].mgr, "initializing") }
  BY <1>1, <1>2, <1>4 DEF RunIsPrepared
<1>6. j # 2
  BY <1>1, <1>5, TaskIs
<1>7. i - 1 \in (k + 1)..(k + Len(todo) - 1) /\ (i - 1) - k + 1 = j - 1
  BY <1>1, <1>4, <1>6
<1>8. todo'[i - 1] = todo[j - 1]
  BY <1>1, <1>7
<1> QED BY <1>1, <1>4, <1>5, <1>7, <1>8

LEMMA CallRun ==
  ASSUME TypeOK, RunIsPrepared, NEW ts \in Seq(Tasks), Call(ts),
         \A i \in 1..Len(ts) : ts[i].at # "run",
         \A m \in Mgrs : mpNewStateID[m] # Null => mpNewStateID'[m] # Null
  PROVE  RunIsPrepared'
<1> DEFINE k == Len(ts)
<1>1. /\ todo \in Seq(Tasks) /\ Len(todo) \in Nat /\ k \in Nat
      /\ \A i \in 1..Len(todo) : todo[i] \in Tasks
      /\ Len(todo') = k + Len(todo)
      /\ \A i \in 1..k : todo'[i] = ts[i]
      /\ \A i \in (k + 1)..(k + Len(todo)) : i - k \in 1..Len(todo) /\ todo'[i] = todo[i - k]
  BY StackType, Called
<1>2. SUFFICES ASSUME NEW i \in 1..Len(todo'), todo'[i].at = "run"
               PROVE  /\ mpNewStateID'[todo'[i].mgr] # Null
                      /\ i # 1
                      /\ todo'[i - 1] \in { Task(todo'[i].mgr, "initialize"),
                                            Task(todo'[i].mgr, "initializing") }
  BY DEF RunIsPrepared
<1>3. i > k
  BY <1>1, <1>2
<1>4. PICK j \in 1..Len(todo) : j = i - k /\ todo'[i] = todo[j]
  BY <1>1, <1>3
<1>5. j # 1
  BY <1>1, <1>2, <1>4, StackType DEF Call, InCode, Activities
<1>6. /\ mpNewStateID[todo[j].mgr] # Null /\ todo[j].mgr \in Mgrs
      /\ todo[j - 1] \in { Task(todo[j].mgr, "initialize"), Task(todo[j].mgr, "initializing") }
  BY <1>1, <1>2, <1>4, <1>5, TaskEq DEF RunIsPrepared
<1>7. i - 1 \in (k + 1)..(k + Len(todo)) /\ (i - 1) - k = j - 1
  BY <1>1, <1>4, <1>5
<1>8. todo'[i - 1] = todo[j - 1]
  BY <1>1, <1>7
<1> QED BY <1>1, <1>4, <1>6, <1>7, <1>8

\* A task is done, and nothing is left to do for it.
LEMMA Popped ==
  ASSUME TypeOK, AtMostOnce, NEW m \in Mgrs, NEW a \in Calls \cup Activities,
         Do(m, a, << >>)
  PROVE  /\ InProgress(m, a) /\ AtMostOnce' /\ todo' \in Seq(Tasks)
         /\ \A n \in Mgrs, b \in Guarded :
              InProgress(n, b)' <=> InProgress(n, b) /\ ~(n = m /\ b = a)
<1> DEFINE ts == << >>
<1>1. ts \in Seq(Tasks) /\ Len(ts) = 0
  BY EmptySeq
<1>2. Do(m, a, ts)
  OBVIOUS
<1> HIDE DEF ts
<1>3. todo' \in Seq(Tasks)
  BY <1>1, <1>2, Done
<1>4. AtMostOnce'
  <2>1. \A i \in 1..Len(ts) : FALSE
    BY <1>1
  <2> QED BY <1>1, <1>2, <2>1, DoAtMostOnce
<1>5. /\ InProgress(m, a)
      /\ \A n \in Mgrs, b \in Calls \cup Activities : Task(n, b) # Task(m, a) =>
           (InProgress(n, b)' <=> InProgress(n, b))
      /\ a \in Guarded => ~InProgress(m, a)'
  <2>1. \A i \in 1..Len(ts) : FALSE
    BY <1>1
  <2> QED BY <1>1, <1>2, <2>1, DoGuarded
<1>6. \A n \in Mgrs, b \in Guarded :
        InProgress(n, b)' <=> InProgress(n, b) /\ ~(n = m /\ b = a)
  BY <1>5, TaskIs DEF Guarded, Calls, Activities
<1> QED BY <1>3, <1>4, <1>5, <1>6

\* A task is done, and becomes another.
LEMMA Replaced ==
  ASSUME TypeOK, AtMostOnce, NEW m \in Mgrs, NEW a \in Calls \cup Activities,
         NEW x \in Guarded, a # x, Do(m, a, << Task(m, x) >>),
         \A c \in Guarded : Excludes(Task(m, x), Task(m, c)) /\ c # a => ~InProgress(m, c)
  PROVE  /\ InProgress(m, a) /\ AtMostOnce' /\ todo' \in Seq(Tasks)
         /\ \A n \in Mgrs, b \in Guarded :
              InProgress(n, b)' <=> \/ InProgress(n, b) /\ ~(n = m /\ b = a)
                                    \/ n = m /\ b = x
<1> DEFINE ts == << Task(m, x) >>
<1>0. x \in Calls \cup Activities
  BY DEF Guarded, Calls, Activities
<1>1. Task(m, x) \in Tasks /\ ts \in Seq(Tasks) /\ Len(ts) = 1 /\ ts[1] = Task(m, x)
  BY <1>0, TaskType
<1>2. Do(m, a, ts)
  OBVIOUS
<1> HIDE DEF ts
<1>3. todo' \in Seq(Tasks) /\ Len(todo) >= 1 /\ todo[1] = Task(m, a)
  BY <1>1, <1>2, Done
<1>4. \A i, j \in 1..Len(ts) : i = 1 /\ i = j
  BY <1>1
<1>5. ASSUME NEW i \in 1..Len(ts), NEW j \in 2..Len(todo), Excludes(ts[i], todo[j])
      PROVE  FALSE
  <2>1. j \in 1..Len(todo) /\ todo[j] \in Tasks /\ 1 \in 1..Len(todo) /\ j # 1
    BY <1>3, StackType
  <2>2. ts[i] = Task(m, x)
    BY <1>1, <1>4
  <2>3. PICK c \in Guarded : todo[j] = Task(m, c)
    <3>1. todo[j].mgr = m /\ todo[j].at \in Guarded
      BY <1>1, <1>5, <2>1, <2>2, ExcludesIs, TaskIs
    <3> QED BY <2>1, <3>1, TaskEq
  <2>4. InProgress(m, c)
    BY <2>1, <2>3 DEF InProgress
  <2>5. c = a
    BY <1>5, <2>2, <2>3, <2>4
  <2>6. Excludes(todo[1], todo[j])
    BY <1>3, <2>3, <2>5, TaskIs DEF Excludes, Guarded
  <2> QED BY <2>1, <2>6 DEF AtMostOnce
<1>6. AtMostOnce'
  BY <1>1, <1>2, <1>4, <1>5, DoAtMostOnce
<1>7. \A n, b : (\E i \in 1..Len(ts) : ts[i] = Task(n, b)) <=> n = m /\ b = x
  <2>1. \A n, b : Task(m, x) = Task(n, b) <=> n = m /\ b = x
    BY <1>1, TaskEq, TaskIs
  <2> QED BY <1>1, <2>1, <1>4
<1>8. /\ InProgress(m, a)
      /\ \A n \in Mgrs, b \in Calls \cup Activities : Task(n, b) # Task(m, a) =>
           (InProgress(n, b)' <=> InProgress(n, b) \/ (n = m /\ b = x))
      /\ a \in Guarded => (InProgress(m, a)' <=> a = x)
  BY <1>1, <1>2, <1>7, DoGuarded
<1>9. \A n \in Mgrs, b \in Guarded :
        InProgress(n, b)' <=> \/ InProgress(n, b) /\ ~(n = m /\ b = a)
                              \/ n = m /\ b = x
  <2>1. \A b \in Guarded : b \in Calls \cup Activities
    BY DEF Guarded, Calls, Activities
  <2>2. \A n, b : Task(n, b) = Task(m, a) => n = m /\ b = a
    BY TaskIs
  <2> QED BY <1>8, <2>1, <2>2
<1> QED BY <1>3, <1>6, <1>8, <1>9

-----------------------------------------------------------------------------
(* The invariant is inductive.                                              *)

LEMMA NullIsNoState == \A s \in States : s # Null
BY StateAssumption DEF StateAssumption

LEMMA InitIInv == Init => IInv
<1> SUFFICES ASSUME Init PROVE IInv
  OBVIOUS
<1>1. TypeOK
  BY EmptySeq DEF Init, TypeOK
<1>2. \A i \in 1..Len(todo) : FALSE
  BY EmptySeq DEF Init
<1>3. LocksMatchStack
  BY <1>2 DEF Init, LocksMatchStack, InProgress
<1>4. AtMostOnce /\ RunIsPrepared
  BY <1>2 DEF AtMostOnce, RunIsPrepared
<1>5. HolderIsCurrent /\ CurrentIsRequested
  BY DEF Init, HolderIsCurrent, CurrentIsRequested, Initializing
<1> QED BY <1>1, <1>3, <1>4, <1>5 DEF IInv

\* What a call of a manager has in common.
LEMMA CallIInv ==
  ASSUME IInv, NEW ts \in Seq(Tasks), Call(ts),
         \A i \in 1..Len(ts) : ts[i].at \notin Guarded,
         UNCHANGED << flagVars, idVars, mExecutionLock, mStateChanged >>,
         mRefreshStateMethod' \in [Mgrs -> BOOLEAN],
         \/ UNCHANGED mpNewStateID
         \/ \E m \in Mgrs, s \in States :
              /\ mpNewStateID' = [mpNewStateID EXCEPT ![m] = s]
              /\ Initializing(m) => mpStateID[m] \in LateStates
              /\ Len(ts) >= 1 /\ ts[1] = Task(m, "finalize")
  PROVE  IInv' /\ running' = running
<1>1. /\ TypeOK /\ LocksMatchStack /\ AtMostOnce /\ HolderIsCurrent
      /\ RunIsPrepared /\ CurrentIsRequested
  BY DEF IInv
<1>2. /\ mpNewStateID' \in [Mgrs -> States \cup {Null}]
      /\ \A n \in Mgrs : mpNewStateID[n] # Null => mpNewStateID'[n] # Null
  BY <1>1, NullIsNoState DEF TypeOK
<1>3. todo' \in Seq(Tasks)
  BY <1>1, Called
<1>4. TypeOK'
  BY <1>1, <1>2, <1>3 DEF TypeOK, flagVars, idVars
<1>5. /\ \A n \in Mgrs, b \in Guarded : InProgress(n, b)' <=> InProgress(n, b)
      /\ AtMostOnce'
  BY <1>1, CallGuarded
<1>6. LocksMatchStack'
  BY <1>1, <1>5 DEF LocksMatchStack, Guarded, flagVars
<1>7. HolderIsCurrent'
  BY <1>1, <1>2 DEF HolderIsCurrent, flagVars, idVars
<1>8. RunIsPrepared'
  BY <1>1, <1>2, CallRun DEF Guarded
<1>9. CurrentIsRequested'
  <2>1. \A n \in Mgrs : ~(todo # << >> /\ Head(todo) = Task(n, "finalize"))
    BY TaskIs DEF Call, InCode, Activities
  <2>2. CASE UNCHANGED mpNewStateID
    BY <1>1, <2>1, <2>2 DEF CurrentIsRequested, Initializing, flagVars, idVars
  <2>3. ASSUME NEW m \in Mgrs, NEW s \in States,
               mpNewStateID' = [mpNewStateID EXCEPT ![m] = s],
               Initializing(m) => mpStateID[m] \in LateStates,
               Len(ts) >= 1 /\ ts[1] = Task(m, "finalize")
        PROVE  CurrentIsRequested'
    <3>1. todo' # << >> /\ Head(todo') = Task(m, "finalize")
      <4>1. /\ Len(todo') = Len(ts) + Len(todo) /\ Len(todo) \in Nat /\ Len(ts) \in Nat
            /\ todo'[1] = ts[1]
        BY <1>1, <2>3, Called, StackType
      <4>2. todo' # << >>
        BY <1>3, <2>3, <4>1, EmptySeq
      <4> QED BY <1>3, <2>3, <4>1, <4>2, HeadTailProperties
    <3>2. \A n \in Mgrs : n # m => mpNewStateID'[n] = mpNewStateID[n]
      BY <1>1, <2>3 DEF TypeOK
    <3> QED BY <1>1, <2>1, <2>3, <3>1, <3>2 DEF CurrentIsRequested, Initializing, flagVars, idVars
  <2> QED BY <2>2, <2>3
<1>10. running' = running
  BY <1>5 DEF running, Guarded
<1> QED BY <1>4, <1>5, <1>6, <1>7, <1>8, <1>9, <1>10 DEF IInv

LEMMA GameCodeIInv ==
  ASSUME IInv, NEW m \in Mgrs, GameCode(m)
  PROVE  IInv' /\ running' = running
<1>1. TypeOK
  BY DEF IInv
<1>2. \A a \in {"initialize", "execute", "finalize"} :
        << Task(m, a) >> \in Seq(Tasks) /\ \A i \in 1..Len(<< Task(m, a) >>) :
                                             << Task(m, a) >>[i].at \notin Guarded
  <2>1. \A a \in {"initialize", "execute", "finalize"} :
          Task(m, a) \in Tasks /\ Task(m, a).at \notin Guarded
    BY TaskType, TaskIs DEF Calls, Guarded
  <2> QED BY <2>1
<1>3. mRefreshStateMethod \in [Mgrs -> BOOLEAN]
  BY <1>1 DEF TypeOK
<1>4. CASE InitializeState(m) \/ ExecuteState(m) \/ FinalizeState(m)
  <2>1. UNCHANGED << flagVars, idVars, mExecutionLock, mStateChanged, mRefreshStateMethod, mpNewStateID >>
    BY <1>4 DEF InitializeState, ExecuteState, FinalizeState
  <2>2. PICK a \in {"initialize", "execute", "finalize"} : Call(<< Task(m, a) >>)
    BY <1>4 DEF InitializeState, ExecuteState, FinalizeState
  <2> QED BY <1>2, <1>3, <2>1, <2>2, CallIInv
<1>5. CASE RefreshState(m)
  <2> DEFINE ts == << >>
  <2>1. ts \in Seq(Tasks) /\ \A i \in 1..Len(ts) : FALSE
    BY EmptySeq
  <2>2. /\ Call(ts) /\ mRefreshStateMethod' \in [Mgrs -> BOOLEAN] /\ UNCHANGED mpNewStateID
        /\ UNCHANGED << flagVars, idVars, mExecutionLock, mStateChanged >>
    BY <1>3, <1>5 DEF RefreshState
  <2> HIDE DEF ts
  <2>3. \A i \in 1..Len(ts) : ts[i].at \notin Guarded
    BY <2>1
  <2> QED BY <2>1, <2>2, <2>3, CallIInv
<1>6. ASSUME NEW s \in States, ChangeState(m, s) PROVE IInv' /\ running' = running
  <2> DEFINE ts == << Task(m, "finalize"), Task(m, "initialize"), Task(m, "changed") >>
  <2>1. \A a \in {"finalize", "initialize", "changed"} :
          Task(m, a) \in Tasks /\ Task(m, a).at \notin Guarded
    BY TaskType, TaskIs DEF Calls, Guarded
  <2>2. ts \in Seq(Tasks) /\ Len(ts) = 3 /\ ts[1] = Task(m, "finalize")
        /\ \A i \in 1..Len(ts) : ts[i].at \notin Guarded
    BY <2>1
  <2>3. /\ Call(ts)
        /\ mpNewStateID' = [mpNewStateID EXCEPT ![m] = s]
        /\ Initializing(m) => mpStateID[m] \in LateStates
        /\ UNCHANGED << flagVars, idVars, mExecutionLock, mStateChanged, mRefreshStateMethod >>
    BY <1>6 DEF ChangeState
  <2> HIDE DEF ts
  <2>4. mRefreshStateMethod' \in [Mgrs -> BOOLEAN]
    BY <1>3, <2>3
  <2>5. UNCHANGED << flagVars, idVars, mExecutionLock, mStateChanged >>
    BY <2>3
  <2>6. \E n \in Mgrs, u \in States :
          /\ mpNewStateID' = [mpNewStateID EXCEPT ![n] = u]
          /\ Initializing(n) => mpStateID[n] \in LateStates
          /\ Len(ts) >= 1 /\ ts[1] = Task(n, "finalize")
    <3>1. /\ mpNewStateID' = [mpNewStateID EXCEPT ![m] = s]
          /\ Initializing(m) => mpStateID[m] \in LateStates
          /\ Len(ts) >= 1 /\ ts[1] = Task(m, "finalize")
      BY <2>2, <2>3
    <3> QED BY <3>1, Zenon
  <2> QED BY <2>2, <2>3, <2>4, <2>5, <2>6, CallIInv
<1> QED BY <1>4, <1>5, <1>6 DEF GameCode

\* What a task that ends without effect has in common: its guard was false.
LEMMA PopRun ==
  ASSUME TypeOK, RunIsPrepared, NEW m \in Mgrs, NEW a \in Calls \cup Activities,
         Do(m, a, << >>), UNCHANGED << mpNewStateID, mpState >>,
         mpNewStateID[m] # Null => mpState[m] # Null
  PROVE  RunIsPrepared'
<1>1. /\ Len(todo) \in Nat /\ Len(todo) >= 1 /\ todo[1] = Task(m, a)
      /\ Len(todo') = Len(todo) - 1
      /\ \A i \in 1..Len(todo') : i + 1 \in 2..Len(todo) /\ todo'[i] = todo[i + 1]
  <2> DEFINE ts == << >>
  <2>1. ts \in Seq(Tasks) /\ Len(ts) = 0 /\ Do(m, a, ts)
    BY EmptySeq
  <2> HIDE DEF ts
  <2>2. /\ Len(todo) >= 1 /\ todo[1] = Task(m, a) /\ Len(todo') = Len(ts) + Len(todo) - 1
        /\ \A i \in (Len(ts) + 1)..Len(todo') :
              i - Len(ts) + 1 \in 2..Len(todo) /\ todo'[i] = todo[i - Len(ts) + 1]
    BY <2>1, Done
  <2>3. Len(todo) \in Nat
    BY StackType
  <2> QED BY <2>1, <2>2, <2>3
<1>2. ASSUME NEW i \in 1..Len(todo'), todo'[i].at = "run"
      PROVE  /\ mpNewStateID'[todo'[i].mgr] # Null
             /\ IF i = 1 THEN mpState'[todo'[i].mgr] # Null
                ELSE todo'[i - 1] \in { Task(todo'[i].mgr, "initialize"),
                                        Task(todo'[i].mgr, "initializing") }
  <2>1. /\ i + 1 \in 2..Len(todo) /\ todo'[i] = todo[i + 1]
        /\ mpNewStateID[todo[i + 1].mgr] # Null
        /\ todo[i] \in { Task(todo[i + 1].mgr, "initialize"),
                         Task(todo[i + 1].mgr, "initializing") }
    <3>1. i + 1 \in 2..Len(todo) /\ todo'[i] = todo[i + 1] /\ i + 1 \in 1..Len(todo)
          /\ (i + 1) - 1 = i /\ i + 1 # 1
      BY <1>1
    <3> QED BY <1>2, <3>1 DEF RunIsPrepared
  <2>2. CASE i = 1
    <3>1. todo[i + 1].mgr = m
      BY <1>1, <2>1, <2>2, TaskIs
    <3> QED BY <2>1, <2>2, <3>1
  <2>3. CASE i # 1
    <3>1. i - 1 \in 1..Len(todo') /\ (i - 1) + 1 = i
      BY <1>1, <2>3
    <3>2. todo'[i - 1] = todo[i]
      BY <1>1, <3>1
    <3> QED BY <2>1, <2>3, <3>2
  <2> QED BY <2>2, <2>3
<1> QED BY <1>2 DEF RunIsPrepared

LEMMA PopIInv ==
  ASSUME IInv, NEW m \in Mgrs, NEW a \in Calls \ {"run"}, Do(m, a, << >>),
         UNCHANGED << flagVars, idVars, mpNewStateID, mExecutionLock >>,
         mStateChanged' \in [Mgrs -> BOOLEAN], mRefreshStateMethod' \in [Mgrs -> BOOLEAN],
         a = "initialize" => ~CanInitialize(m),
         a = "finalize" => ~CanFinalize(m)
  PROVE  IInv' /\ running' = running
<1>1. /\ TypeOK /\ LocksMatchStack /\ AtMostOnce /\ HolderIsCurrent
      /\ RunIsPrepared /\ CurrentIsRequested
  BY DEF IInv
<1>2. /\ AtMostOnce' /\ todo' \in Seq(Tasks)
      /\ \A n \in Mgrs, b \in Guarded : InProgress(n, b)' <=> InProgress(n, b)
  <2>1. a \notin Guarded /\ a \in Calls \cup Activities
    BY DEF Guarded, Calls
  <2> QED BY <1>1, <2>1, Popped
<1>3. TypeOK'
  BY <1>1, <1>2 DEF TypeOK, flagVars, idVars
<1>4. LocksMatchStack'
  BY <1>1, <1>2 DEF LocksMatchStack, Guarded, flagVars
<1>5. HolderIsCurrent'
  BY <1>1 DEF HolderIsCurrent, flagVars, idVars
<1>6. RunIsPrepared'
  <2>1. CASE a = "initialize"
    <3>1. mpNewStateID[m] # Null => mpState[m] # Null
      BY <1>1, <2>1 DEF HolderIsCurrent, CanInitialize
    <3> QED BY <1>1, <3>1, PopRun DEF idVars
  <2>2. CASE a # "initialize"
    <3> DEFINE ts == << >>
    <3>1. ts \in Seq(Tasks) /\ \A i \in 1..Len(ts) : FALSE
      BY EmptySeq
    <3>2. Do(m, a, ts) /\ a \in Calls \cup Activities /\ a \notin {"initialize", "initializing"}
      BY <2>2 DEF Calls
    <3> HIDE DEF ts
    <3>3. \A i \in 1..Len(ts) : ts[i].at # "run"
      BY <3>1
    <3> QED BY <1>1, <3>1, <3>2, <3>3, DoRun
  <2> QED BY <2>1, <2>2
<1>7. CurrentIsRequested'
  <2>1. \A n \in Mgrs : todo # << >> /\ Head(todo) = Task(n, "finalize")
                          => n = m /\ a = "finalize"
    BY TaskIs DEF Do
  <2> QED BY <1>1, <2>1 DEF CurrentIsRequested, HolderIsCurrent, Initializing, CanFinalize, flagVars, idVars
<1>8. running' = running
  BY <1>2 DEF running, Guarded
<1> QED BY <1>2, <1>3, <1>4, <1>5, <1>6, <1>7, <1>8 DEF IInv

LEMMA StartInitializeIInv ==
  ASSUME IInv, NEW m \in Mgrs, StartInitialize(m)
  PROVE  IInv' /\ running' = running
<1>1. /\ TypeOK /\ LocksMatchStack /\ AtMostOnce /\ HolderIsCurrent
      /\ RunIsPrepared /\ CurrentIsRequested
  BY DEF IInv
<1>2. /\ CanInitialize(m) /\ Do(m, "initialize", << Task(m, "initializing") >>)
      /\ mInitFinalizeLock' = [mInitFinalizeLock EXCEPT ![m] = TRUE]
      /\ mpStateID' = [mpStateID EXCEPT ![m] = mpNewStateID[m]]
      /\ mpState' = [mpState EXCEPT ![m] = mpNewStateID[m]]
      /\ UNCHANGED << mIsValid, mpOldStateID, mpNewStateID, mExecutionLock, mStateChanged, mRefreshStateMethod >>
  BY DEF StartInitialize
<1>3. /\ AtMostOnce' /\ todo' \in Seq(Tasks)
      /\ \A n \in Mgrs, b \in Guarded :
           InProgress(n, b)' <=> InProgress(n, b) \/ (n = m /\ b = "initializing")
  <2>1. "initialize" \in Calls \cup Activities /\ "initialize" \notin Guarded
        /\ "initializing" \in Guarded
    BY DEF Calls, Guarded
  <2>2. ~InProgress(m, "initializing") /\ ~InProgress(m, "finalizing")
    BY <1>1, <1>2 DEF LocksMatchStack, CanInitialize
  <2>3. \A c \in Guarded : Excludes(Task(m, "initializing"), Task(m, c))
          => c \in {"initializing", "finalizing"}
    BY TaskIs DEF Excludes
  <2> QED BY <1>1, <1>2, <2>1, <2>2, <2>3, Replaced
<1>4. TypeOK'
  BY <1>1, <1>2, <1>3 DEF TypeOK
<1>5. LocksMatchStack'
  <2>1. \A n \in Mgrs :
          /\ n # m => mInitFinalizeLock'[n] = mInitFinalizeLock[n]
          /\ mInitFinalizeLock'[m]
    BY <1>1, <1>2 DEF TypeOK
  <2> QED BY <1>1, <1>2, <1>3, <2>1 DEF LocksMatchStack, Guarded, CanInitialize
<1>6. HolderIsCurrent'
  BY <1>1, <1>2 DEF HolderIsCurrent, CanInitialize, TypeOK
<1>7. RunIsPrepared'
  <2> DEFINE ts == << Task(m, "initializing") >>
  <2>1. ts \in Seq(Tasks) /\ Len(ts) = 1 /\ ts[1] = Task(m, "initializing") /\ Do(m, "initialize", ts)
    BY <1>2, TaskType DEF Activities
  <2> HIDE DEF ts
  <2>2. /\ Len(todo) \in Nat /\ Len(todo') = Len(todo)
        /\ todo[1] = Task(m, "initialize") /\ todo'[1] = Task(m, "initializing")
        /\ \A i \in 2..Len(todo) : todo'[i] = todo[i]
    <3>1. /\ todo[1] = Task(m, "initialize")
          /\ Len(todo') = Len(ts) + Len(todo) - 1
          /\ \A i \in 1..Len(ts) : todo'[i] = ts[i]
          /\ \A i \in (Len(ts) + 1)..Len(todo') :
               i - Len(ts) + 1 \in 2..Len(todo) /\ todo'[i] = todo[i - Len(ts) + 1]
      BY <1>1, <2>1, Done
    <3>2. Len(todo) \in Nat
      BY <1>1, StackType
    <3>3. /\ Len(todo') = Len(todo) /\ todo'[1] = ts[1]
          /\ \A i \in 2..Len(todo) : todo'[i] = todo[i - 1 + 1]
      BY <2>1, <3>1, <3>2
    <3>4. \A i \in 2..Len(todo) : i - 1 + 1 = i
      BY <3>2
    <3> QED BY <2>1, <3>1, <3>2, <3>3, <3>4
  <2>3. ASSUME NEW i \in 1..Len(todo'), todo'[i].at = "run"
        PROVE  /\ mpNewStateID'[todo'[i].mgr] # Null
               /\ i # 1
               /\ todo'[i - 1] \in { Task(todo'[i].mgr, "initialize"),
                                     Task(todo'[i].mgr, "initializing") }
    <3>1. i # 1 /\ i \in 2..Len(todo) /\ i \in 1..Len(todo) /\ todo'[i] = todo[i]
      BY <2>2, <2>3, TaskIs
    <3>2. /\ mpNewStateID[todo[i].mgr] # Null
          /\ todo[i - 1] \in { Task(todo[i].mgr, "initialize"), Task(todo[i].mgr, "initializing") }
      BY <1>1, <2>3, <3>1 DEF RunIsPrepared
    <3>3. CASE i = 2
      <4>1. todo[i].mgr = m
        BY <2>2, <3>2, <3>3, TaskIs
      <4> QED BY <1>2, <2>2, <3>1, <3>2, <3>3, <4>1
    <3>4. CASE i # 2
      <4>1. i - 1 \in 2..Len(todo)
        BY <2>2, <3>1, <3>4
      <4> QED BY <1>2, <2>2, <3>1, <3>2, <4>1
    <3> QED BY <3>3, <3>4
  <2> QED BY <2>3 DEF RunIsPrepared
<1>8. CurrentIsRequested'
  <2>1. \A n \in Mgrs : ~(todo # << >> /\ Head(todo) = Task(n, "finalize"))
    BY <1>2, TaskIs DEF Do
  <2>2. \A n \in Mgrs :
          /\ n # m => /\ mInitFinalizeLock'[n] = mInitFinalizeLock[n]
                      /\ mpStateID'[n] = mpStateID[n]
          /\ mpStateID'[m] = mpNewStateID[m]
    BY <1>1, <1>2 DEF TypeOK
  <2> QED BY <1>1, <1>2, <2>1, <2>2 DEF CurrentIsRequested, Initializing
<1>9. running' = running
  BY <1>3 DEF running, Guarded
<1> QED BY <1>3, <1>4, <1>5, <1>6, <1>7, <1>8, <1>9 DEF IInv

LEMMA InitializeReturnsIInv ==
  ASSUME IInv, NEW m \in Mgrs, InitializeReturns(m)
  PROVE  IInv' /\ running' = running
<1>1. /\ TypeOK /\ LocksMatchStack /\ AtMostOnce /\ HolderIsCurrent
      /\ RunIsPrepared /\ CurrentIsRequested
  BY DEF IInv
<1>2. /\ Do(m, "initializing", << >>)
      /\ mIsValid' = [mIsValid EXCEPT ![m] = TRUE]
      /\ mInitFinalizeLock' = [mInitFinalizeLock EXCEPT ![m] = FALSE]
      /\ UNCHANGED << mpOldStateID, mpStateID, mpState, mpNewStateID, mExecutionLock, mStateChanged, mRefreshStateMethod >>
  BY DEF InitializeReturns, idVars
<1>3. /\ AtMostOnce' /\ todo' \in Seq(Tasks) /\ InProgress(m, "initializing")
      /\ \A n \in Mgrs, b \in Guarded :
           InProgress(n, b)' <=> InProgress(n, b) /\ ~(n = m /\ b = "initializing")
  BY <1>1, <1>2, Popped DEF Activities
<1>4. mInitFinalizeLock[m] /\ ~mIsValid[m] /\ ~InProgress(m, "finalizing")
  BY <1>1, <1>3 DEF LocksMatchStack
<1>5. \A n \in Mgrs :
        /\ n # m => mInitFinalizeLock'[n] = mInitFinalizeLock[n] /\ mIsValid'[n] = mIsValid[n]
        /\ ~mInitFinalizeLock'[m] /\ mIsValid'[m]
  BY <1>1, <1>2 DEF TypeOK
<1>6. TypeOK'
  BY <1>1, <1>2, <1>3 DEF TypeOK
<1>7. LocksMatchStack'
  BY <1>1, <1>2, <1>3, <1>4, <1>5 DEF LocksMatchStack, Guarded
<1>8. HolderIsCurrent'
  BY <1>1, <1>2, <1>4, <1>5 DEF HolderIsCurrent
<1>9. RunIsPrepared'
  BY <1>1, <1>2, <1>4, PopRun DEF HolderIsCurrent, Activities
<1>10. CurrentIsRequested'
  <2>1. \A n \in Mgrs : ~(todo # << >> /\ Head(todo) = Task(n, "finalize"))
    BY <1>2, TaskIs DEF Do
  <2> QED BY <1>1, <1>2, <1>4, <1>5, <2>1 DEF CurrentIsRequested, Initializing
<1>11. running' = running
  BY <1>3 DEF running, Guarded
<1> QED BY <1>3, <1>6, <1>7, <1>8, <1>9, <1>10, <1>11 DEF IInv

LEMMA StartFinalizeIInv ==
  ASSUME IInv, NEW m \in Mgrs, StartFinalize(m)
  PROVE  IInv' /\ running' = running
<1>1. /\ TypeOK /\ LocksMatchStack /\ AtMostOnce /\ HolderIsCurrent
      /\ RunIsPrepared /\ CurrentIsRequested
  BY DEF IInv
<1>2. /\ CanFinalize(m) /\ Do(m, "finalize", << Task(m, "finalizing") >>)
      /\ mInitFinalizeLock' = [mInitFinalizeLock EXCEPT ![m] = TRUE]
      /\ mpOldStateID' = [mpOldStateID EXCEPT ![m] = mpStateID[m]]
      /\ UNCHANGED << mIsValid, mpStateID, mpState, mpNewStateID, mExecutionLock, mStateChanged, mRefreshStateMethod >>
  BY DEF StartFinalize
<1>3. /\ AtMostOnce' /\ todo' \in Seq(Tasks)
      /\ \A n \in Mgrs, b \in Guarded :
           InProgress(n, b)' <=> InProgress(n, b) \/ (n = m /\ b = "finalizing")
  <2>1. "finalize" \in Calls \cup Activities /\ "finalize" \notin Guarded
        /\ "finalizing" \in Guarded
    BY DEF Calls, Guarded
  <2>2. ~InProgress(m, "initializing") /\ ~InProgress(m, "finalizing")
    BY <1>1, <1>2 DEF LocksMatchStack, CanFinalize
  <2>3. \A c \in Guarded : Excludes(Task(m, "finalizing"), Task(m, c))
          => c \in {"initializing", "finalizing"}
    BY TaskIs DEF Excludes
  <2> QED BY <1>1, <1>2, <2>1, <2>2, <2>3, Replaced
<1>4. TypeOK'
  <2>1. mpStateID[m] \in States \cup {Null}
    BY <1>1 DEF TypeOK
  <2> QED BY <1>1, <1>2, <1>3, <2>1 DEF TypeOK
<1>5. \A n \in Mgrs :
        /\ n # m => mInitFinalizeLock'[n] = mInitFinalizeLock[n]
        /\ mInitFinalizeLock'[m]
  BY <1>1, <1>2 DEF TypeOK
<1>6. LocksMatchStack'
  BY <1>1, <1>2, <1>3, <1>5 DEF LocksMatchStack, Guarded, CanFinalize
<1>7. HolderIsCurrent'
  BY <1>1, <1>2, <1>5 DEF HolderIsCurrent, CanFinalize
<1>8. RunIsPrepared'
  <2> DEFINE ts == << Task(m, "finalizing") >>
  <2>1. ts \in Seq(Tasks) /\ Do(m, "finalize", ts) /\ \A i \in 1..Len(ts) : ts[i].at # "run"
    BY <1>2, TaskType, TaskIs DEF Activities
  <2> HIDE DEF ts
  <2> QED BY <1>1, <1>2, <2>1, DoRun DEF Calls
<1>9. CurrentIsRequested'
  <2>1. \A n \in Mgrs : todo # << >> /\ Head(todo) = Task(n, "finalize") => n = m
    BY <1>2, TaskIs DEF Do
  <2> QED BY <1>1, <1>2, <1>5, <2>1 DEF CurrentIsRequested, Initializing, CanFinalize
<1>10. running' = running
  BY <1>3 DEF running, Guarded
<1> QED BY <1>3, <1>4, <1>6, <1>7, <1>8, <1>9, <1>10 DEF IInv

LEMMA FinalizeReturnsIInv ==
  ASSUME IInv, NEW m \in Mgrs, FinalizeReturns(m)
  PROVE  IInv' /\ running' = running
<1>1. /\ TypeOK /\ LocksMatchStack /\ AtMostOnce /\ HolderIsCurrent
      /\ RunIsPrepared /\ CurrentIsRequested
  BY DEF IInv
<1>2. /\ Do(m, "finalizing", << >>)
      /\ mpState' = [mpState EXCEPT ![m] = Null]
      /\ mIsValid' = [mIsValid EXCEPT ![m] = FALSE]
      /\ mInitFinalizeLock' = [mInitFinalizeLock EXCEPT ![m] = FALSE]
      /\ UNCHANGED << mpOldStateID, mpStateID, mpNewStateID, mExecutionLock, mStateChanged, mRefreshStateMethod >>
  BY DEF FinalizeReturns
<1>3. /\ AtMostOnce' /\ todo' \in Seq(Tasks) /\ InProgress(m, "finalizing")
      /\ \A n \in Mgrs, b \in Guarded :
           InProgress(n, b)' <=> InProgress(n, b) /\ ~(n = m /\ b = "finalizing")
  BY <1>1, <1>2, Popped DEF Activities
<1>4. mInitFinalizeLock[m] /\ mIsValid[m] /\ ~InProgress(m, "initializing")
  BY <1>1, <1>3 DEF LocksMatchStack
<1>5. \A n \in Mgrs :
        /\ n # m => /\ mInitFinalizeLock'[n] = mInitFinalizeLock[n]
                    /\ mIsValid'[n] = mIsValid[n] /\ mpState'[n] = mpState[n]
        /\ ~mInitFinalizeLock'[m] /\ ~mIsValid'[m] /\ mpState'[m] = Null
  BY <1>1, <1>2 DEF TypeOK
<1>6. TypeOK'
  BY <1>1, <1>2, <1>3 DEF TypeOK
<1>7. LocksMatchStack'
  BY <1>1, <1>2, <1>3, <1>4, <1>5 DEF LocksMatchStack, Guarded
<1>8. HolderIsCurrent'
  BY <1>1, <1>2, <1>5 DEF HolderIsCurrent
<1>9. RunIsPrepared'
  <2> DEFINE ts == << >>
  <2>1. ts \in Seq(Tasks) /\ Len(ts) = 0 /\ Do(m, "finalizing", ts)
    BY <1>2, EmptySeq
  <2> HIDE DEF ts
  <2>2. \A i \in 1..Len(ts) : ts[i].at # "run"
    BY <2>1
  <2> QED BY <1>1, <1>2, <2>1, <2>2, DoRun DEF Activities
<1>10. CurrentIsRequested'
  <2>1. \A n \in Mgrs : ~(todo # << >> /\ Head(todo) = Task(n, "finalize"))
    BY <1>2, TaskIs DEF Do
  <2> QED BY <1>1, <1>2, <1>5, <2>1 DEF CurrentIsRequested, Initializing
<1>11. running' = running
  BY <1>3 DEF running, Guarded
<1> QED BY <1>3, <1>6, <1>7, <1>8, <1>9, <1>10, <1>11 DEF IInv

LEMMA StartPassIInv ==
  ASSUME IInv, NEW m \in Mgrs, StartPass(m)
  PROVE  IInv' /\ running' = running
<1>1. /\ TypeOK /\ LocksMatchStack /\ AtMostOnce /\ HolderIsCurrent
      /\ RunIsPrepared /\ CurrentIsRequested
  BY DEF IInv
<1>2. /\ ~mExecutionLock[m]
      /\ UNCHANGED << flagVars, idVars, mpNewStateID, mStateChanged >>
      /\ mRefreshStateMethod' \in [Mgrs -> BOOLEAN] /\ mStateChanged' \in [Mgrs -> BOOLEAN]
  BY <1>1 DEF StartPass, TypeOK
<1>3. CASE mpNewStateID[m] = Null
  <2>1. Do(m, "execute", << >>) /\ UNCHANGED mExecutionLock
    BY <1>3 DEF StartPass, Pass
  <2> QED BY <1>2, <2>1, PopIInv DEF Calls
<1>4. CASE mpNewStateID[m] # Null
  <2> DEFINE ts == << Task(m, "initialize"), Task(m, "run") >>
  <2>1. /\ mExecutionLock' = [mExecutionLock EXCEPT ![m] = TRUE]
        /\ Do(m, "execute", ts)
    BY <1>4 DEF StartPass, Pass
  <2>2. /\ ts \in Seq(Tasks) /\ Len(ts) = 2
        /\ ts[1] = Task(m, "initialize") /\ ts[2] = Task(m, "run")
    BY TaskType DEF Calls
  <2> HIDE DEF ts
  <2>3. /\ todo' \in Seq(Tasks) /\ Len(todo) \in Nat /\ Len(todo) >= 1
        /\ todo[1] = Task(m, "execute")
        /\ Len(todo') = Len(todo) + 1
        /\ todo'[1] = Task(m, "initialize") /\ todo'[2] = Task(m, "run")
        /\ \A i \in 3..Len(todo') : i - 1 \in 2..Len(todo) /\ todo'[i] = todo[i - 1]
    <3>1. /\ todo' \in Seq(Tasks)
          /\ Len(todo) >= 1 /\ todo[1] = Task(m, "execute")
          /\ Len(todo') = Len(ts) + Len(todo) - 1
          /\ \A i \in 1..Len(ts) : todo'[i] = ts[i]
          /\ \A i \in (Len(ts) + 1)..Len(todo') :
               i - Len(ts) + 1 \in 2..Len(todo) /\ todo'[i] = todo[i - Len(ts) + 1]
      BY <1>1, <2>1, <2>2, Done
    <3>2. Len(todo) \in Nat
      BY <1>1, StackType
    <3>3. \A i \in 3..Len(todo') : i - 2 + 1 = i - 1
      BY <3>1, <3>2
    <3> QED BY <2>2, <3>1, <3>2, <3>3
  <2>4. ~InProgress(m, "run") /\ ~InProgress(m, "executing")
    BY <1>1, <1>2 DEF LocksMatchStack
  <2>5. AtMostOnce'
    <3>1. \A i, j \in 1..Len(ts) : Excludes(ts[i], ts[j]) => i = j
      <4>1. \A i \in 1..Len(ts) : i = 1 \/ i = 2
        BY <2>2
      <4>2. ~Excludes(ts[1], ts[2]) /\ ~Excludes(ts[2], ts[1])
        BY <2>2, TaskIs DEF Excludes
      <4> QED BY <4>1, <4>2
    <3>2. ASSUME NEW i \in 1..Len(ts), NEW j \in 2..Len(todo), Excludes(ts[i], todo[j])
          PROVE  FALSE
      <4>1. i = 1 \/ i = 2
        BY <2>2
      <4>2. j \in 1..Len(todo) /\ todo[j] \in Tasks
        BY <1>1, <2>3, StackType
      <4>3. todo[j].mgr = m /\ todo[j].at \in {"run", "executing"}
        BY <2>2, <3>2, <4>1, TaskIs DEF Excludes
      <4>4. todo[j] = Task(m, "run") \/ todo[j] = Task(m, "executing")
        BY <4>2, <4>3, TaskEq
      <4> QED BY <2>4, <4>2, <4>4 DEF InProgress
    <3> QED BY <1>1, <2>1, <2>2, <3>1, <3>2, DoAtMostOnce DEF Calls
  <2>6. /\ InProgress(m, "run")'
        /\ \A n \in Mgrs, b \in Guarded :
             ~(n = m /\ b = "run") => (InProgress(n, b)' <=> InProgress(n, b))
    <3>1. InProgress(m, "run")'
      <4>1. 2 \in 1..Len(todo')
        BY <2>3
      <4> QED BY <2>3, <4>1 DEF InProgress
    <3>2. ASSUME NEW n \in Mgrs, NEW b \in Guarded, ~(n = m /\ b = "run")
          PROVE  InProgress(n, b)' <=> InProgress(n, b)
      <4>1. b \in Calls \cup Activities /\ Task(n, b) # Task(m, "execute")
        BY TaskIs DEF Guarded, Calls, Activities
      <4>2. ASSUME NEW i \in 1..Len(ts), ts[i] = Task(n, b) PROVE FALSE
        <5>1. ts[i] = Task(m, "initialize") \/ ts[i] = Task(m, "run")
          BY <2>2
        <5> QED BY <3>2, <4>2, <5>1, TaskIs DEF Guarded
      <4> QED BY <1>1, <2>1, <2>2, <4>1, <4>2, DoGuarded DEF Calls
    <3> QED BY <3>1, <3>2
  <2>7. \A n \in Mgrs : /\ n # m => mExecutionLock'[n] = mExecutionLock[n]
                        /\ mExecutionLock'[m]
    BY <1>1, <2>1 DEF TypeOK
  <2>8. TypeOK'
    BY <1>1, <1>2, <2>1, <2>3 DEF TypeOK, flagVars, idVars
  <2>9. LocksMatchStack'
    BY <1>1, <1>2, <2>6, <2>7 DEF LocksMatchStack, Guarded, flagVars
  <2>10. HolderIsCurrent'
    BY <1>1, <1>2 DEF HolderIsCurrent, flagVars, idVars
  <2>11. RunIsPrepared'
    <3>1. ASSUME NEW i \in 1..Len(todo'), todo'[i].at = "run"
          PROVE  /\ mpNewStateID[todo'[i].mgr] # Null
                 /\ i # 1
                 /\ todo'[i - 1] \in { Task(todo'[i].mgr, "initialize"),
                                       Task(todo'[i].mgr, "initializing") }
      <4>1. i # 1
        BY <2>3, <3>1, TaskIs
      <4>2. CASE i = 2
        BY <1>4, <2>3, <4>2, TaskIs
      <4>3. CASE i # 2
        <5>1. i - 1 \in 2..Len(todo) /\ todo'[i] = todo[i - 1]
              /\ i - 1 \in 1..Len(todo) /\ i - 1 # 1
          BY <2>3, <4>1, <4>3
        <5>2. /\ mpNewStateID[todo[i - 1].mgr] # Null
              /\ todo[i - 1 - 1] \in { Task(todo[i - 1].mgr, "initialize"),
                                       Task(todo[i - 1].mgr, "initializing") }
          BY <1>1, <3>1, <5>1 DEF RunIsPrepared
        <5>3. i # 3
          BY <2>3, <5>2, TaskIs
        <5>4. todo'[i - 1] = todo[i - 1 - 1]
          BY <2>3, <4>1, <4>3, <5>3
        <5> QED BY <4>1, <5>1, <5>2, <5>4
      <4> QED BY <4>2, <4>3
    <3> QED BY <1>2, <3>1 DEF RunIsPrepared
  <2>12. CurrentIsRequested'
    <3>1. \A n \in Mgrs : ~(todo # << >> /\ Head(todo) = Task(n, "finalize"))
      BY <2>1, TaskIs DEF Do
    <3> QED BY <1>1, <1>2, <3>1 DEF CurrentIsRequested, Initializing, flagVars, idVars
  <2>13. running' = running
    BY <2>6 DEF running, Guarded
  <2> QED BY <2>5, <2>8, <2>9, <2>10, <2>11, <2>12, <2>13 DEF IInv
<1> QED BY <1>3, <1>4

LEMMA RunStateIInv ==
  ASSUME IInv, NEW m \in Mgrs, RunState(m)
  PROVE  IInv' /\ m \notin running /\ running' = running \cup {m}
<1>1. /\ TypeOK /\ LocksMatchStack /\ AtMostOnce /\ HolderIsCurrent
      /\ RunIsPrepared /\ CurrentIsRequested
  BY DEF IInv
<1>2. /\ Do(m, "run", << Task(m, "executing") >>)
      /\ UNCHANGED << flagVars, idVars, mpNewStateID, mExecutionLock, mStateChanged, mRefreshStateMethod >>
  BY DEF RunState
<1>3. ~InProgress(m, "executing")
  <2>1. SUFFICES ASSUME NEW i \in 1..Len(todo), todo[i] = Task(m, "executing") PROVE FALSE
    BY DEF InProgress
  <2>2. 1 \in 1..Len(todo) /\ todo[1] = Task(m, "run")
    BY <1>1, <1>2, StackType DEF Do
  <2>3. Excludes(todo[1], todo[i])
    BY <2>1, <2>2, TaskIs DEF Excludes
  <2> QED BY <1>1, <2>1, <2>2, <2>3, TaskIs DEF AtMostOnce
<1>4. /\ InProgress(m, "run") /\ AtMostOnce' /\ todo' \in Seq(Tasks)
      /\ \A n \in Mgrs, b \in Guarded :
           InProgress(n, b)' <=> \/ InProgress(n, b) /\ ~(n = m /\ b = "run")
                                 \/ n = m /\ b = "executing"
  <2>1. "run" \in Calls \cup Activities /\ "executing" \in Guarded
    BY DEF Calls, Guarded
  <2>2. \A c \in Guarded : Excludes(Task(m, "executing"), Task(m, c)) => c \in {"run", "executing"}
    BY TaskIs DEF Excludes
  <2> QED BY <1>1, <1>2, <1>3, <2>1, <2>2, Replaced
<1>5. TypeOK'
  BY <1>1, <1>2, <1>4 DEF TypeOK, flagVars, idVars
<1>6. LocksMatchStack'
  BY <1>1, <1>2, <1>4 DEF LocksMatchStack, Guarded, flagVars
<1>7. HolderIsCurrent'
  BY <1>1, <1>2 DEF HolderIsCurrent, flagVars, idVars
<1>8. RunIsPrepared'
  <2> DEFINE ts == << Task(m, "executing") >>
  <2>1. ts \in Seq(Tasks) /\ Do(m, "run", ts) /\ \A i \in 1..Len(ts) : ts[i].at # "run"
    BY <1>2, TaskType, TaskIs DEF Activities
  <2> HIDE DEF ts
  <2> QED BY <1>1, <1>2, <2>1, DoRun DEF Calls
<1>9. CurrentIsRequested'
  <2>1. \A n \in Mgrs : ~(todo # << >> /\ Head(todo) = Task(n, "finalize"))
    BY <1>2, TaskIs DEF Do
  <2> QED BY <1>1, <1>2, <2>1 DEF CurrentIsRequested, Initializing, flagVars, idVars
<1>10. m \notin running /\ running' = running \cup {m}
  BY <1>3, <1>4 DEF running, Guarded
<1> QED BY <1>4, <1>5, <1>6, <1>7, <1>8, <1>9, <1>10 DEF IInv

LEMMA ExecuteReturnsIInv ==
  ASSUME IInv, NEW m \in Mgrs, ExecuteReturns(m)
  PROVE  IInv' /\ m \in running /\ running' = running \ {m}
<1> DEFINE ts == IF mRefreshStateMethod[m] /\ mStateChanged[m]
                 THEN << Task(m, "execute") >> ELSE << >>
<1>1. /\ TypeOK /\ LocksMatchStack /\ AtMostOnce /\ HolderIsCurrent
      /\ RunIsPrepared /\ CurrentIsRequested
  BY DEF IInv
<1>2. /\ Do(m, "executing", ts)
      /\ mExecutionLock' = [mExecutionLock EXCEPT ![m] = FALSE]
      /\ UNCHANGED << flagVars, idVars, mpNewStateID, mStateChanged, mRefreshStateMethod >>
  BY DEF ExecuteReturns
<1>3. ts \in Seq(Tasks) /\ \A i \in 1..Len(ts) : ts[i] = Task(m, "execute")
  <2>1. << Task(m, "execute") >> \in Seq(Tasks) /\ << >> \in Seq(Tasks)
    BY TaskType, EmptySeq DEF Calls
  <2>2. /\ \A i \in 1..Len(<< Task(m, "execute") >>) : << Task(m, "execute") >>[i] = Task(m, "execute")
        /\ \A i \in 1..Len(<< >>) : FALSE
    OBVIOUS
  <2>3. CASE mRefreshStateMethod[m] /\ mStateChanged[m]
    BY <2>1, <2>2, <2>3
  <2>4. CASE ~(mRefreshStateMethod[m] /\ mStateChanged[m])
    BY <2>1, <2>2, <2>4
  <2> QED BY <2>3, <2>4
<1> HIDE DEF ts
<1>4. \A i \in 1..Len(ts) : ts[i] \in Tasks /\ ts[i].at \notin Guarded /\ ts[i].at # "run"
  BY <1>3, TaskIs, TaskType DEF Calls, Guarded
<1>5. AtMostOnce' /\ todo' \in Seq(Tasks)
  <2>1. todo' \in Seq(Tasks) /\ \A j \in 2..Len(todo) : todo[j] \in Tasks
    BY <1>1, <1>2, <1>3, Done, StackType
  <2>2. \A i, j \in 1..Len(ts) : ~Excludes(ts[i], ts[j])
    BY <1>4, ExcludesIs
  <2>3. \A i \in 1..Len(ts), j \in 2..Len(todo) : ~Excludes(ts[i], todo[j])
    BY <1>4, <2>1, ExcludesIs
  <2> QED BY <1>1, <1>2, <1>3, <2>1, <2>2, <2>3, DoAtMostOnce DEF Activities
<1>6. /\ InProgress(m, "executing")
      /\ \A n \in Mgrs, b \in Guarded :
           InProgress(n, b)' <=> InProgress(n, b) /\ ~(n = m /\ b = "executing")
  <2>1. \A n, b : b \in Guarded => ~\E i \in 1..Len(ts) : ts[i] = Task(n, b)
    BY <1>4, TaskIs
  <2>2. /\ InProgress(m, "executing")
        /\ \A n \in Mgrs, b \in Calls \cup Activities : Task(n, b) # Task(m, "executing") =>
             (InProgress(n, b)' <=>
                InProgress(n, b) \/ \E i \in 1..Len(ts) : ts[i] = Task(n, b))
        /\ "executing" \in Guarded =>
             (InProgress(m, "executing")' <=> \E i \in 1..Len(ts) : ts[i] = Task(m, "executing"))
    BY <1>1, <1>2, <1>3, DoGuarded DEF Activities
  <2>3. ~InProgress(m, "executing")'
    BY <2>1, <2>2 DEF Guarded
  <2>4. ASSUME NEW n \in Mgrs, NEW b \in Guarded, ~(n = m /\ b = "executing")
        PROVE  InProgress(n, b)' <=> InProgress(n, b)
    <3>1. b \in Calls \cup Activities /\ Task(n, b) # Task(m, "executing")
      BY <2>4, TaskIs DEF Guarded, Calls, Activities
    <3> QED BY <2>1, <2>2, <3>1
  <2> QED BY <2>2, <2>3, <2>4
<1>7. ~InProgress(m, "run")
  <2>1. SUFFICES ASSUME NEW i \in 1..Len(todo), todo[i] = Task(m, "run") PROVE FALSE
    BY DEF InProgress
  <2>2. 1 \in 1..Len(todo) /\ todo[1] = Task(m, "executing")
    BY <1>1, <1>2, StackType DEF Do
  <2>3. Excludes(todo[1], todo[i])
    BY <2>1, <2>2, TaskIs DEF Excludes
  <2> QED BY <1>1, <2>1, <2>2, <2>3, TaskIs DEF AtMostOnce
<1>8. \A n \in Mgrs : /\ n # m => mExecutionLock'[n] = mExecutionLock[n]
                      /\ ~mExecutionLock'[m]
  BY <1>1, <1>2 DEF TypeOK
<1>9. TypeOK'
  BY <1>1, <1>2, <1>5 DEF TypeOK, flagVars, idVars
<1>10. LocksMatchStack'
  BY <1>1, <1>2, <1>6, <1>7, <1>8 DEF LocksMatchStack, Guarded, flagVars
<1>11. HolderIsCurrent'
  BY <1>1, <1>2 DEF HolderIsCurrent, flagVars, idVars
<1>12. RunIsPrepared'
  BY <1>1, <1>2, <1>3, <1>4, DoRun DEF Activities
<1>13. CurrentIsRequested'
  <2>1. \A n \in Mgrs : ~(todo # << >> /\ Head(todo) = Task(n, "finalize"))
    BY <1>2, TaskIs DEF Do
  <2> QED BY <1>1, <1>2, <2>1 DEF CurrentIsRequested, Initializing, flagVars, idVars
<1>14. m \in running /\ running' = running \ {m}
  BY <1>6 DEF running, Guarded
<1> QED BY <1>5, <1>9, <1>10, <1>11, <1>12, <1>13, <1>14 DEF IInv

LEMMA StepIInv ==
  ASSUME IInv, [Next]_vars
  PROVE  IInv'
<1>1. TypeOK
  BY DEF IInv
<1>2. mStateChanged \in [Mgrs -> BOOLEAN] /\ mRefreshStateMethod \in [Mgrs -> BOOLEAN]
  BY <1>1 DEF TypeOK
<1>3. ASSUME NEW m \in Mgrs, Manager(m) PROVE IInv'
  <2>1. CASE SkipInitialize(m)
    BY <1>2, <2>1, PopIInv DEF SkipInitialize, Calls
  <2>2. CASE SkipFinalize(m)
    BY <1>2, <2>2, PopIInv DEF SkipFinalize, Calls
  <2>3. CASE Changed(m)
    <3>1. mStateChanged' \in [Mgrs -> BOOLEAN]
      BY <1>2, <2>3 DEF Changed
    <3> QED BY <1>2, <2>3, <3>1, PopIInv DEF Changed, Calls
  <2>4. CASE SkipExecute(m)
    BY <1>2, <2>4, PopIInv DEF SkipExecute, Calls
  <2> QED BY <1>3, <2>1, <2>2, <2>3, <2>4, StartInitializeIInv, StartFinalizeIInv,
             StartPassIInv, RunStateIInv DEF Manager
<1>4. ASSUME NEW m \in Mgrs, Returns(m) PROVE IInv'
  BY <1>4, InitializeReturnsIInv, FinalizeReturnsIInv, ExecuteReturnsIInv DEF Returns
<1>5. CASE UNCHANGED vars
  BY <1>5 DEF IInv, TypeOK, LocksMatchStack, AtMostOnce, HolderIsCurrent, RunIsPrepared,
              CurrentIsRequested, InProgress, Initializing, vars, flagVars, idVars
<1> QED BY <1>3, <1>4, <1>5, GameCodeIInv DEF Next

\* The locks, the call stack and the state holder of every manager agree at
\* every moment, for any managers, states and calls (s_StateMethod.cpp:22-70).
THEOREM StateMethodInvariant == Spec => []IInv
BY InitIInv, StepIInv, PTL DEF Spec

-----------------------------------------------------------------------------
(* What follows.                                                            *)

\* executeStateLocalMethod never follows a null mpState
\* (s_StateMethodUsr_FI.cpp:14-17).
THEOREM ExecutesAStateTheorem == Spec => []ExecutesAState
<1>1. IInv => ExecutesAState
  BY StackType DEF IInv, ExecutesAState, RunIsPrepared
<1> QED BY <1>1, StateMethodInvariant, PTL

\* No request for a state is lost, but those a state's initialize makes
\* (s_StateMethod.cpp:64-70).
THEOREM ChangeTakesEffectTheorem == Spec => []ChangeTakesEffect
<1>1. IInv => ChangeTakesEffect
  <2>1. SUFFICES ASSUME IInv, InCode, NEW m \in Mgrs,
                        mIsValid[m], ~mInitFinalizeLock[m], mpStateID[m] \notin LateStates
                 PROVE  mpStateID[m] = mpNewStateID[m]
    BY DEF ChangeTakesEffect
  <2>2. ~(todo # << >> /\ Head(todo) = Task(m, "finalize"))
    BY <2>1, TaskIs DEF InCode, Activities
  <2> QED BY <2>1, <2>2 DEF IInv, CurrentIsRequested
<1> QED BY <1>1, StateMethodInvariant, PTL

-----------------------------------------------------------------------------
(* The refinement of StateLife.                                             *)

\* The flags tell the phase.
PhaseOf(locked, valid) == IF locked THEN IF valid THEN "leaving" ELSE "entering"
                          ELSE IF valid THEN "live" ELSE "none"

LEMMA PhaseIs ==
  /\ IInv => phase = [n \in Mgrs |-> PhaseOf(mInitFinalizeLock[n], mIsValid[n])]
  /\ IInv' => phase' = [n \in Mgrs |-> PhaseOf(mInitFinalizeLock'[n], mIsValid'[n])]
<1>1. IInv => phase = [n \in Mgrs |-> PhaseOf(mInitFinalizeLock[n], mIsValid[n])]
  BY DEF IInv, LocksMatchStack, phase, PhaseOf
<1>2. IInv' => phase' = [n \in Mgrs |-> PhaseOf(mInitFinalizeLock'[n], mIsValid'[n])]
  BY DEF IInv, LocksMatchStack, phase, PhaseOf
<1> QED BY <1>1, <1>2

\* A step that changes the flags of one manager moves its phase.
LEMMA PhaseMoves ==
  ASSUME IInv, IInv', NEW m \in Mgrs,
         \A n \in Mgrs \ {m} : /\ mInitFinalizeLock'[n] = mInitFinalizeLock[n]
                               /\ mIsValid'[n] = mIsValid[n]
  PROVE  Life!Moves(m, PhaseOf(mInitFinalizeLock[m], mIsValid[m]),
                       PhaseOf(mInitFinalizeLock'[m], mIsValid'[m]))
BY PhaseIs DEF Life!Moves

LEMMA FlagsKept ==
  ASSUME IInv, IInv', UNCHANGED << flagVars, mpState >>, running' = running
  PROVE  UNCHANGED Life!vars
<1>1. phase' = phase
  BY PhaseIs DEF flagVars
<1> QED BY <1>1 DEF Life!vars

LEMMA InitLife == Init => Life!Init
<1> SUFFICES ASSUME Init PROVE Life!Init
  OBVIOUS
<1>1. IInv
  BY InitIInv
<1>2. phase = [n \in Mgrs |-> "none"]
  BY <1>1, PhaseIs DEF Init, PhaseOf
<1>3. running = {}
  BY EmptySeq DEF Init, running, InProgress
<1> QED BY <1>2, <1>3 DEF Life!Init, Init

LEMMA StepLife ==
  ASSUME IInv, [Next]_vars
  PROVE  [Life!Next]_Life!vars
<1>1. IInv' /\ TypeOK /\ HolderIsCurrent
  BY StepIInv DEF IInv
<1>2. ASSUME NEW m \in Mgrs, StartInitialize(m) PROVE Life!Next
  <2>1. /\ ~mInitFinalizeLock[m] /\ ~mIsValid[m] /\ mpNewStateID[m] \in States
        /\ mInitFinalizeLock'[m] /\ ~mIsValid'[m]
        /\ \A n \in Mgrs \ {m} : /\ mInitFinalizeLock'[n] = mInitFinalizeLock[n]
                                 /\ mIsValid'[n] = mIsValid[n]
        /\ mpState' = [mpState EXCEPT ![m] = mpNewStateID[m]]
    BY <1>1, <1>2 DEF StartInitialize, CanInitialize, TypeOK
  <2>2. Life!Moves(m, "none", "entering")
    BY <1>1, <2>1, PhaseMoves DEF PhaseOf
  <2>3. running' = running
    BY <1>2, StartInitializeIInv
  <2>4. Life!Enter(m, mpNewStateID[m])
    BY <2>1, <2>2, <2>3 DEF Life!Enter
  <2> QED BY <2>1, <2>4 DEF Life!Next
<1>3. ASSUME NEW m \in Mgrs, InitializeReturns(m) PROVE Life!Next
  <2>1. /\ mInitFinalizeLock[m] /\ ~mIsValid[m]
        /\ ~mInitFinalizeLock'[m] /\ mIsValid'[m]
        /\ \A n \in Mgrs \ {m} : /\ mInitFinalizeLock'[n] = mInitFinalizeLock[n]
                                 /\ mIsValid'[n] = mIsValid[n]
        /\ mpState' = mpState
    <3>1. InProgress(m, "initializing")
      BY <1>1, <1>3, StackType DEF InitializeReturns, Do, InProgress
    <3>2. mInitFinalizeLock[m] /\ ~mIsValid[m]
      BY <3>1 DEF IInv, LocksMatchStack
    <3> QED BY <1>1, <1>3, <3>2 DEF InitializeReturns, TypeOK, idVars
  <2>2. Life!Moves(m, "entering", "live")
    BY <1>1, <2>1, PhaseMoves DEF PhaseOf
  <2>3. running' = running
    BY <1>3, InitializeReturnsIInv
  <2> QED BY <2>1, <2>2, <2>3 DEF Life!Next, Life!Entered
<1>4. ASSUME NEW m \in Mgrs, StartFinalize(m) PROVE Life!Next
  <2>1. /\ ~mInitFinalizeLock[m] /\ mIsValid[m]
        /\ mInitFinalizeLock'[m] /\ mIsValid'[m]
        /\ \A n \in Mgrs \ {m} : /\ mInitFinalizeLock'[n] = mInitFinalizeLock[n]
                                 /\ mIsValid'[n] = mIsValid[n]
        /\ mpState' = mpState
    BY <1>1, <1>4 DEF StartFinalize, CanFinalize, TypeOK
  <2>2. Life!Moves(m, "live", "leaving")
    BY <1>1, <2>1, PhaseMoves DEF PhaseOf
  <2>3. running' = running
    BY <1>4, StartFinalizeIInv
  <2> QED BY <2>1, <2>2, <2>3 DEF Life!Next, Life!Leave
<1>5. ASSUME NEW m \in Mgrs, FinalizeReturns(m) PROVE Life!Next
  <2>1. /\ mInitFinalizeLock[m] /\ mIsValid[m]
        /\ ~mInitFinalizeLock'[m] /\ ~mIsValid'[m]
        /\ \A n \in Mgrs \ {m} : /\ mInitFinalizeLock'[n] = mInitFinalizeLock[n]
                                 /\ mIsValid'[n] = mIsValid[n]
        /\ mpState' = [mpState EXCEPT ![m] = Null]
    <3>1. InProgress(m, "finalizing")
      BY <1>1, <1>5, StackType DEF FinalizeReturns, Do, InProgress
    <3>2. mInitFinalizeLock[m] /\ mIsValid[m]
      BY <3>1 DEF IInv, LocksMatchStack
    <3> QED BY <1>1, <1>5, <3>2 DEF FinalizeReturns, TypeOK
  <2>2. Life!Moves(m, "leaving", "none")
    BY <1>1, <2>1, PhaseMoves DEF PhaseOf
  <2>3. running' = running
    BY <1>5, FinalizeReturnsIInv
  <2> QED BY <2>1, <2>2, <2>3 DEF Life!Next, Life!Left
<1>6. ASSUME NEW m \in Mgrs, RunState(m) PROVE Life!Next
  <2>1. m \notin running /\ running' = running \cup {m}
    BY <1>6, RunStateIInv
  <2>2. phase' = phase /\ mpState' = mpState /\ phase[m] # "none"
    BY <1>1, <1>6, PhaseIs DEF RunState, HolderIsCurrent, PhaseOf, flagVars, idVars
  <2> QED BY <2>1, <2>2 DEF Life!Next, Life!Run
<1>7. ASSUME NEW m \in Mgrs, ExecuteReturns(m) PROVE Life!Next
  <2>1. m \in running /\ running' = running \ {m}
    BY <1>7, ExecuteReturnsIInv
  <2>2. phase' = phase /\ mpState' = mpState
    BY <1>1, <1>7, PhaseIs DEF ExecuteReturns, flagVars, idVars
  <2> QED BY <2>1, <2>2 DEF Life!Next, Life!Stop
<1>8. ASSUME NEW m \in Mgrs, GameCode(m) PROVE UNCHANGED Life!vars
  <2>1. UNCHANGED << flagVars, mpState >>
    BY <1>8 DEF GameCode, InitializeState, ExecuteState, FinalizeState, RefreshState,
                ChangeState, idVars
  <2> QED BY <1>1, <1>8, <2>1, GameCodeIInv, FlagsKept
<1>9. ASSUME NEW m \in Mgrs, \/ SkipInitialize(m) \/ SkipFinalize(m) \/ Changed(m)
                             \/ SkipExecute(m) \/ StartPass(m)
      PROVE  UNCHANGED Life!vars
  <2>1. UNCHANGED << flagVars, mpState >>
    BY <1>9 DEF SkipInitialize, SkipFinalize, Changed, SkipExecute, StartPass, idVars
  <2>2. running' = running
    <3>1. CASE StartPass(m)
      BY <3>1, StartPassIInv
    <3>2. CASE ~StartPass(m)
      <4>1. PICK a \in Calls \ {"run"} : Do(m, a, << >>)
        BY <1>9, <3>2 DEF SkipInitialize, SkipFinalize, Changed, SkipExecute, Calls
      <4>2. \A n \in Mgrs : InProgress(n, "executing")' <=> InProgress(n, "executing")
        BY <1>1, <4>1, Popped DEF IInv, Calls, Guarded
      <4> QED BY <4>2 DEF running
    <3> QED BY <3>1, <3>2
  <2> QED BY <1>1, <2>1, <2>2, FlagsKept
<1>10. CASE UNCHANGED vars
  <2>1. running' = running
    BY <1>10 DEF running, InProgress, vars
  <2> QED BY <1>1, <1>10, <2>1, FlagsKept DEF vars, idVars
<1> QED BY <1>2, <1>3, <1>4, <1>5, <1>6, <1>7, <1>8, <1>9, <1>10 DEF Next, Manager, Returns

\* Whatever the methods of the states call, states are initialised and
\* finalised in turn and executed only when there is one, never inside
\* themselves (s_StateMethod.cpp:22-70, s_StateMethodUsr_FI.cpp:8-27).
THEOREM StateLifeTheorem == Spec => ImplementsStateLife
<1>1. IInv /\ [Next]_vars => [Life!Next]_Life!vars
  BY StepLife
<1>2. Spec => Life!Spec
  BY <1>1, InitLife, StateMethodInvariant, PTL DEF Spec, Life!Spec
<1> QED BY <1>2 DEF ImplementsStateLife

=============================================================================
