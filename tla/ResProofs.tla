------------------------------- MODULE ResProofs -------------------------------
(***************************************************************************)
(* The resource manager's invariant, and that it implements Archives if    *)
(* its callers release no archive that is being loaded.                    *)
(***************************************************************************)
EXTENDS Res, WellFoundedInduction, TLAPS

\* The first holder of a set is one of them.
LEMMA FirstIsIn ==
  ASSUME NEW S \in SUBSET Arcs, S # {}
  PROVE  FirstIn(S) \in S
<1>1. S \in SUBSET Nat
  BY ResAssumption DEF Arcs
<1>2. PICK m \in S : \A n \in S : ~(<< n, m >> \in OpToRel(<, Nat))
  BY <1>1, NatLessThanWellFounded, WFMin
<1>3. \A n \in S : m <= n
  <2>1. \A n \in S : ~(n < m)
    BY <1>1, <1>2 DEF OpToRel
  <2> QED BY <1>1, <2>1
<1> QED BY <1>3 DEF FirstIn

\* The holder that setRes and deleteRes find, and the one that a new archive
\* is given.
LEMMA FoundHolder ==
  ASSUME NEW n \in Names, Holders(n) # {}
  PROVE  FirstIn(Holders(n)) \in Arcs /\ infos[FirstIn(Holders(n))].refs > 0
         /\ infos[FirstIn(Holders(n))].name = n
BY FirstIsIn DEF Holders
LEMMA UnusedHolder ==
  ASSUME Unused # {}
  PROVE  FirstIn(Unused) \in Arcs /\ infos[FirstIn(Unused)].refs = 0
BY FirstIsIn DEF Unused

\* What the operations write into a holder.
LEMMA NewIs ==
  ASSUME NEW info \in Infos, NEW n \in Names
  PROVE  LET new == [info EXCEPT !.name = n, !.refs = 1, !.cmd = "pending"]
         IN  /\ new \in Infos
             /\ new.name = n /\ new.refs = 1 /\ new.cmd = "pending"
             /\ new.archive = info.archive
BY DEF Infos, Commands

LEMMA AgainIs ==
  ASSUME NEW info \in Infos
  PROVE  LET new == [info EXCEPT !.refs = @ + 1]
         IN  /\ new \in Infos
             /\ new.name = info.name /\ new.refs = info.refs + 1
             /\ new.cmd = info.cmd /\ new.archive = info.archive
BY DEF Infos

LEMMA DoneIs ==
  ASSUME NEW info \in Infos, NEW result \in Commands
  PROVE  LET new == [info EXCEPT !.cmd = result]
         IN  /\ new \in Infos
             /\ new.name = info.name /\ new.refs = info.refs
             /\ new.cmd = result /\ new.archive = info.archive
BY DEF Infos

LEMMA CleanupIs ==
  ASSUME NEW info \in Infos
  PROVE  LET clean == Cleanup(info)
         IN  /\ clean \in Infos
             /\ clean.name = info.name /\ clean.refs = info.refs
             /\ info.cmd # "pending" => clean.cmd = "none" /\ clean.archive = None
             /\ info.cmd = "pending" => clean = info
BY DEF Cleanup, Infos, Commands

LEMMA RefusedIs ==
  ASSUME NEW info \in Infos
  PROVE  LET new == Cleanup([info EXCEPT !.cmd = "none"])
         IN  /\ new \in Infos
             /\ new.name = info.name /\ new.refs = info.refs
             /\ new.cmd = "none" /\ new.archive = None
<1>1. [info EXCEPT !.cmd = "none"] \in Infos
  BY DEF Infos, Commands
<1>2. LET new == [info EXCEPT !.cmd = "none"]
      IN  new.name = info.name /\ new.refs = info.refs /\ new.cmd = "none"
  BY DEF Infos
<1> QED BY <1>1, <1>2, CleanupIs

LEMMA ReleasedIs ==
  ASSUME NEW info \in Infos, info.refs > 0
  PROVE  LET left == Released(info)
         IN  /\ left \in Infos
             /\ left.name = info.name /\ left.refs = info.refs - 1
             /\ info.refs = 1 /\ info.cmd # "pending" => left.cmd = "none" /\ left.archive = None
             /\ info.refs # 1 \/ info.cmd = "pending" =>
                  left.cmd = info.cmd /\ left.archive = info.archive
<1> DEFINE less == [info EXCEPT !.refs = @ - 1]  zero == [info EXCEPT !.refs = 0]
<1>1. info.refs \in Nat
  BY DEF Infos
<1>2. /\ less \in Infos /\ less.name = info.name /\ less.refs = info.refs - 1
      /\ less.cmd = info.cmd /\ less.archive = info.archive
  BY <1>1 DEF Infos
<1>3. /\ zero \in Infos /\ zero.name = info.name /\ zero.refs = 0
      /\ zero.cmd = info.cmd /\ zero.archive = info.archive
  BY DEF Infos
<1>4. CASE info.refs = 1
  <2>1. Released(info) = Cleanup(zero)
    BY <1>4 DEF Released
  <2> HIDE DEF zero
  <2> QED BY <1>3, <1>4, <2>1, CleanupIs
<1>5. CASE info.refs # 1
  BY <1>2, <1>5 DEF Released
<1> QED BY <1>4, <1>5

LEMMA TakeArchiveIs ==
  ASSUME NEW info \in Infos
  PROVE  LET new == TakeArchive(info)
         IN  /\ new \in Infos
             /\ new.name = info.name /\ new.refs = info.refs
             /\ info.archive # None \/ info.cmd = "none" => new = info
             /\ info.archive = None /\ info.cmd # "none" =>
                  new.cmd = "none"
                  /\ new.archive = IF info.cmd = "loaded" THEN info.name ELSE None
<1> DEFINE taken == IF info.cmd = "loaded" THEN info.name ELSE None
<1>1. taken \in Names \cup {None}
  BY DEF Infos
<1> HIDE DEF taken
<1>2. LET new == [info EXCEPT !.cmd = "none", !.archive = taken]
      IN  /\ new \in Infos /\ new.name = info.name /\ new.refs = info.refs
          /\ new.cmd = "none" /\ new.archive = taken
  BY <1>1 DEF Infos, Commands
<1>3. CASE info.archive # None \/ info.cmd = "none"
  BY <1>3 DEF TakeArchive
<1>4. CASE ~(info.archive # None \/ info.cmd = "none")
  <2>1. TakeArchive(info) = [info EXCEPT !.cmd = "none", !.archive = taken]
    BY <1>4 DEF TakeArchive, taken
  <2> QED BY <1>2, <1>4, <2>1 DEF taken
<1> QED BY <1>3, <1>4

\* A look of syncAllRes changes at most the holder it looks at.
LEMMA Visit ==
  ASSUME TypeOK, SyncVisit
  PROVE  /\ sync \in Arcs /\ held' = held /\ sync' \in 0 .. NumArcs /\ synced' \in BOOLEAN
         /\ \/ InProgress(infos[sync]) /\ sync' = 0 /\ synced' = FALSE /\ infos' = infos
            \/ /\ ~InProgress(infos[sync])
               /\ infos' = [infos EXCEPT ![sync] = TakeArchive(@)]
               /\ sync' = IF sync = NumArcs THEN 0 ELSE sync + 1
               /\ synced' = (synced \/ sync = NumArcs)
<1>1. sync \in Arcs /\ held' = held
  BY ResAssumption DEF SyncVisit, TypeOK, Arcs
<1>2. CASE InProgress(infos[sync])
  <2>1. sync' = 0 /\ synced' = FALSE /\ infos' = infos
    BY <1>2 DEF SyncVisit
  <2>2. sync' \in 0 .. NumArcs
    BY <2>1, ResAssumption
  <2> QED BY <1>1, <1>2, <2>1, <2>2
<1>3. CASE ~InProgress(infos[sync])
  <2>1. /\ infos' = [infos EXCEPT ![sync] = TakeArchive(@)]
        /\ sync' = IF sync = NumArcs THEN 0 ELSE sync + 1
        /\ synced' = (synced \/ sync = NumArcs)
    BY <1>3 DEF SyncVisit
  <2>2. sync' \in 0 .. NumArcs
    BY <1>1, <2>1, ResAssumption DEF Arcs
  <2>3. synced' \in BOOLEAN
    BY <2>1
  <2> QED BY <1>1, <1>3, <2>1, <2>2, <2>3
<1> QED BY <1>2, <1>3

\* Type correctness.
LEMMA TypePreserved ==
  ASSUME TypeOK, [Next]_vars
  PROVE  TypeOK'
<1> USE ResAssumption DEF TypeOK
<1>1. CASE UNCHANGED vars
  BY <1>1 DEF vars
<1>2. ASSUME NEW n \in Names, SetResAgain(n) PROVE TypeOK'
  <2> DEFINE i == FirstIn(Holders(n))  new == [infos[i] EXCEPT !.refs = @ + 1]
  <2>1. i \in Arcs
    BY <1>2, FoundHolder DEF SetResAgain
  <2>2. new \in Infos
    BY <2>1, AgainIs
  <2>3. infos' = [infos EXCEPT ![i] = new]
    BY <1>2 DEF SetResAgain
  <2>4. held' \in [Names -> Nat]
    BY <1>2 DEF SetResAgain
  <2> QED BY <1>2, <2>1, <2>2, <2>3, <2>4 DEF SetResAgain
<1>3. ASSUME NEW n \in Names, SetResNew(n) PROVE TypeOK'
  <2> DEFINE i == FirstIn(Unused)
             new == [infos[i] EXCEPT !.name = n, !.refs = 1, !.cmd = "pending"]
  <2>1. i \in Arcs
    BY <1>3, UnusedHolder DEF SetResNew
  <2>2. new \in Infos
    BY <2>1, NewIs
  <2>3. infos' = [infos EXCEPT ![i] = new]
    BY <1>3 DEF SetResNew
  <2>4. held' \in [Names -> Nat]
    BY <1>3 DEF SetResNew
  <2> HIDE DEF i, new
  <2> QED BY <1>3, <2>1, <2>2, <2>3, <2>4 DEF SetResNew
<1>4. ASSUME NEW n \in Names, SetResFails(n) PROVE TypeOK'
  BY <1>4, UnusedHolder, RefusedIs DEF SetResFails
<1>5. ASSUME NEW n \in Names, DeleteRes(n) PROVE TypeOK'
  <2> DEFINE i == FirstIn(Holders(n))
  <2>1. i \in Arcs /\ infos[i].refs > 0
    BY <1>5, FoundHolder DEF DeleteRes
  <2>2. Released(infos[i]) \in Infos
    BY <2>1, ReleasedIs
  <2>3. held' \in [Names -> Nat]
    BY <1>5 DEF DeleteRes
  <2> QED BY <1>5, <2>1, <2>2, <2>3 DEF DeleteRes
<1>6. ASSUME NEW i \in Arcs, DvdDone(i) PROVE TypeOK'
  <2>1. PICK result \in {"loaded", "failed"} : infos' = [infos EXCEPT ![i].cmd = result]
    BY <1>6 DEF DvdDone
  <2>2. [infos[i] EXCEPT !.cmd = result] \in Infos
    BY DoneIs DEF Commands
  <2> QED BY <1>6, <2>1, <2>2 DEF DvdDone
<1>7. CASE SyncStarts
  BY <1>7 DEF SyncStarts
<1>8. CASE SyncVisit
  <2>1. TakeArchive(infos[sync]) \in Infos
    BY <1>8, Visit, TakeArchiveIs
  <2> QED BY <1>8, <2>1, Visit
<1> QED BY <1>1, <1>2, <1>3, <1>4, <1>5, <1>6, <1>7, <1>8 DEF Next

-----------------------------------------------------------------------------
\* A step that leaves names and counters alone leaves the count right.
LEMMA SameUsers ==
  ASSUME CountsItsUsers, held' = held,
         \A i \in Arcs : infos'[i].refs = infos[i].refs /\ infos'[i].name = infos[i].name
  PROVE  CountsItsUsers'
<1>1. \A n \in Names : Holders(n)' = Holders(n)
  BY DEF Holders
<1>2. \A n \in Names : \A i \in Holders(n) : i \in Arcs
  BY DEF Holders
<1> QED BY <1>1, <1>2 DEF CountsItsUsers

\* Every operation keeps one holder for an archive and the number of its
\* users in it.
LEMMA CountPreserved ==
  ASSUME TypeOK, CountsItsUsers, [Next]_vars
  PROVE  CountsItsUsers'
<1> USE ResAssumption DEF TypeOK
<1>1. CASE UNCHANGED vars
  BY <1>1, SameUsers DEF vars
<1>2. ASSUME NEW n \in Names, SetResAgain(n) PROVE CountsItsUsers'
  <2> DEFINE i == FirstIn(Holders(n))
  <2>1. i \in Arcs /\ i \in Holders(n) /\ infos[i].refs > 0 /\ infos[i].name = n
    BY <1>2, FoundHolder DEF SetResAgain, Holders
  <2>2. infos' = [infos EXCEPT ![i].refs = @ + 1] /\ held' = [held EXCEPT ![n] = @ + 1]
    BY <1>2 DEF SetResAgain
  <2>3. \A j \in Arcs : /\ infos'[j].name = infos[j].name
                        /\ infos'[j].refs = IF j = i THEN infos[j].refs + 1 ELSE infos[j].refs
    <3> DEFINE new == [infos[i] EXCEPT !.refs = @ + 1]
    <3>1. new.name = infos[i].name /\ new.refs = infos[i].refs + 1
      BY <2>1, AgainIs
    <3>2. infos' = [infos EXCEPT ![i] = new]
      BY <2>2
    <3> HIDE DEF new
    <3> QED BY <2>1, <3>1, <3>2
  <2>4. \A m \in Names : Holders(m)' = Holders(m)
    <3>1. infos[i].refs + 1 > 0
      BY <2>1 DEF Infos
    <3> HIDE DEF i
    <3> QED BY <2>1, <2>3, <3>1 DEF Holders
  <2>5. infos[i].refs = held[n] /\ \A j \in Holders(n) : j = i
    BY <2>1 DEF CountsItsUsers
  <2>6. \A m \in Names \ {n} : i \notin Holders(m)
    BY <2>1 DEF Holders
  <2>7. \A m \in Names : \A j, k \in Holders(m)' : j = k
    BY <2>4 DEF CountsItsUsers
  <2>8. \A m \in Names : held'[m] > 0 <=> Holders(m)' # {}
    BY <2>1, <2>2, <2>4, <2>5 DEF CountsItsUsers
  <2>9. ASSUME NEW m \in Names, NEW j \in Holders(m) PROVE infos'[j].refs = held'[m]
    <3>1. j \in Arcs
      BY DEF Holders
    <3> QED BY <2>1, <2>2, <2>3, <2>5, <2>6, <2>9, <3>1 DEF CountsItsUsers
  <2> QED BY <2>4, <2>7, <2>8, <2>9 DEF CountsItsUsers
<1>3. ASSUME NEW n \in Names, SetResNew(n) PROVE CountsItsUsers'
  <2> DEFINE i == FirstIn(Unused)
  <2>1. i \in Arcs /\ infos[i].refs = 0
    BY <1>3, UnusedHolder DEF SetResNew
  <2>2. infos' = [infos EXCEPT ![i] = [@ EXCEPT !.name = n, !.refs = 1, !.cmd = "pending"]]
        /\ held' = [held EXCEPT ![n] = @ + 1]
    BY <1>3 DEF SetResNew
  <2>3. \A j \in Arcs : /\ infos'[j].name = IF j = i THEN n ELSE infos[j].name
                        /\ infos'[j].refs = IF j = i THEN 1 ELSE infos[j].refs
    <3> DEFINE new == [infos[i] EXCEPT !.name = n, !.refs = 1, !.cmd = "pending"]
    <3>1. infos[i] \in Infos
      BY <2>1
    <3>2. new.name = n /\ new.refs = 1
      BY <3>1, NewIs
    <3>3. infos' = [infos EXCEPT ![i] = new]
      BY <2>2
    <3> HIDE DEF new, i
    <3> QED BY <2>1, <3>2, <3>3
  <2>4. Holders(n) = {} /\ held[n] = 0
    BY <1>3 DEF SetResNew, CountsItsUsers
  <2>5. Holders(n)' = {i}
    BY <2>1, <2>3, <2>4 DEF Holders
  <2>6. \A m \in Names \ {n} : Holders(m)' = Holders(m)
    BY <2>1, <2>3 DEF Holders
  <2>7. \A m \in Names \ {n} : \A j \in Holders(m) : j \in Arcs /\ j # i
    BY <2>1 DEF Holders
  <2>8. ASSUME NEW m \in Names
        PROVE  /\ \A j, k \in Holders(m)' : j = k
               /\ held'[m] > 0 <=> Holders(m)' # {}
               /\ \A j \in Holders(m)' : infos'[j].refs = held'[m]
    <3>1. CASE m = n
      BY <2>1, <2>2, <2>3, <2>4, <2>5, <3>1
    <3>2. CASE m # n
      BY <2>2, <2>3, <2>6, <2>7, <3>2 DEF CountsItsUsers
    <3> QED BY <3>1, <3>2
  <2> QED BY <2>8 DEF CountsItsUsers
<1>4. ASSUME NEW n \in Names, SetResFails(n) PROVE CountsItsUsers'
  <2> DEFINE i == FirstIn(Unused)
  <2>1. i \in Arcs
    BY <1>4, UnusedHolder DEF SetResFails
  <2>2. infos' = [infos EXCEPT ![i] = Cleanup([@ EXCEPT !.cmd = "none"])] /\ held' = held
    BY <1>4 DEF SetResFails
  <2>3. \A j \in Arcs : infos'[j].refs = infos[j].refs /\ infos'[j].name = infos[j].name
    BY <2>1, <2>2, RefusedIs
  <2> QED BY <2>2, <2>3, SameUsers
<1>5. ASSUME NEW n \in Names, DeleteRes(n) PROVE CountsItsUsers'
  <2> DEFINE i == FirstIn(Holders(n))
  <2>1. i \in Arcs /\ i \in Holders(n) /\ infos[i].refs > 0 /\ infos[i].name = n
    BY <1>5, FoundHolder DEF DeleteRes, Holders
  <2>2. infos' = [infos EXCEPT ![i] = Released(@)] /\ held' = [held EXCEPT ![n] = @ - 1]
    BY <1>5 DEF DeleteRes
  <2>3. \A j \in Arcs : /\ infos'[j].name = infos[j].name
                        /\ infos'[j].refs = IF j = i THEN infos[j].refs - 1 ELSE infos[j].refs
    BY <2>1, <2>2, ReleasedIs
  <2>4. infos[i].refs = held[n] /\ Holders(n) = {i}
    BY <2>1 DEF CountsItsUsers
  <2>5. Holders(n)' = IF held[n] = 1 THEN {} ELSE {i}
    BY <2>1, <2>3, <2>4 DEF Holders
  <2>6. \A m \in Names \ {n} : Holders(m)' = Holders(m)
    BY <2>1, <2>3 DEF Holders
  <2>7. \A m \in Names \ {n} : \A j \in Holders(m) : j \in Arcs /\ j # i
    BY <2>1 DEF Holders
  <2>8. ASSUME NEW m \in Names
        PROVE  /\ \A j, k \in Holders(m)' : j = k
               /\ held'[m] > 0 <=> Holders(m)' # {}
               /\ \A j \in Holders(m)' : infos'[j].refs = held'[m]
    <3>1. CASE m = n
      <4>1. held'[m] = held[n] - 1 /\ held[n] \in Nat /\ held[n] > 0
        BY <2>1, <2>2, <2>4, <3>1
      <4>2. infos'[i].refs = held'[m]
        BY <2>1, <2>3, <2>4, <4>1
      <4>3. CASE held[n] = 1
        BY <2>5, <3>1, <4>1, <4>3
      <4>4. CASE held[n] # 1
        BY <2>5, <3>1, <4>1, <4>2, <4>4
      <4> QED BY <4>3, <4>4
    <3>2. CASE m # n
      BY <2>2, <2>3, <2>6, <2>7, <3>2 DEF CountsItsUsers
    <3> QED BY <3>1, <3>2
  <2> QED BY <2>8 DEF CountsItsUsers
<1>6. ASSUME NEW i \in Arcs, DvdDone(i) PROVE CountsItsUsers'
  <2>1. held' = held
    BY <1>6 DEF DvdDone
  <2>2. \A j \in Arcs : infos'[j].refs = infos[j].refs /\ infos'[j].name = infos[j].name
    BY <1>6 DEF DvdDone
  <2> QED BY <2>1, <2>2, SameUsers
<1>7. CASE SyncStarts
  BY <1>7, SameUsers DEF SyncStarts
<1>8. CASE SyncVisit
  <2>1. held' = held
    BY <1>8 DEF SyncVisit
  <2>2. \A j \in Arcs : infos'[j].refs = infos[j].refs /\ infos'[j].name = infos[j].name
    <3>1. sync \in Arcs /\ infos' \in {infos, [infos EXCEPT ![sync] = TakeArchive(@)]}
      BY <1>8, Visit
    <3>2. TakeArchive(infos[sync]).refs = infos[sync].refs
          /\ TakeArchive(infos[sync]).name = infos[sync].name
      BY <3>1, TakeArchiveIs
    <3> QED BY <3>1, <3>2
  <2> QED BY <2>1, <2>2, SameUsers
<1> QED BY <1>1, <1>2, <1>3, <1>4, <1>5, <1>6, <1>7, <1>8 DEF Next

-----------------------------------------------------------------------------
(* While no archive is released that is being loaded.                      *)
CleanHolders == OwnArchive /\ NothingLeftOver /\ SyncedIsLoaded

\* What these three say of one holder.
Clean(info) ==
  /\ info.refs > 0 /\ info.archive # None => info.archive = info.name
  /\ info.refs = 0 \/ info.archive # None => info.cmd = "none"
  /\ info.refs = 0 => info.archive = None

LEMMA CleanIs ==
  CleanHolders <=> (\A i \in Arcs : Clean(infos[i])) /\ SyncedIsLoaded
BY DEF CleanHolders, Clean, OwnArchive, NothingLeftOver

\* A step that changes one holder, and leaves it clean and as far loaded.
LEMMA OneHolder ==
  ASSUME TypeOK, CleanHolders, NEW i \in Arcs, NEW new \in Infos,
         infos' = [infos EXCEPT ![i] = new], Clean(new),
         sync' = sync, synced' => synced,
         synced' \/ i < sync => new.cmd = "none" \/ new.cmd = infos[i].cmd
  PROVE  CleanHolders'
<1>1. \A j \in Arcs : infos'[j] = IF j = i THEN new ELSE infos[j]
  BY DEF TypeOK
<1>2. \A j \in Arcs : Clean(infos'[j])
  BY <1>1, CleanIs
<1>3. SyncedIsLoaded'
  BY <1>1 DEF CleanHolders, SyncedIsLoaded
<1>4. Clean(infos[i])' <=> Clean(infos'[i])
  BY DEF Clean
<1> QED BY <1>2, <1>3 DEF CleanHolders, Clean, OwnArchive, NothingLeftOver

LEMMA CleanPreserved ==
  ASSUME TypeOK, CleanHolders, ~ReleaseLoading, [Next]_vars
  PROVE  CleanHolders'
<1> USE ResAssumption DEF TypeOK
<1>1. CASE UNCHANGED vars
  BY <1>1 DEF vars, CleanHolders, OwnArchive, NothingLeftOver, SyncedIsLoaded
<1>2. ASSUME NEW n \in Names, SetResAgain(n) PROVE CleanHolders'
  <2> DEFINE i == FirstIn(Holders(n))  new == [infos[i] EXCEPT !.refs = @ + 1]
  <2>1. i \in Arcs /\ infos[i] \in Infos /\ infos[i].refs > 0
    BY <1>2, FoundHolder DEF SetResAgain
  <2>2. infos' = [infos EXCEPT ![i] = new] /\ sync' = sync /\ synced' = synced
    BY <1>2 DEF SetResAgain
  <2>3. /\ new \in Infos /\ new.name = infos[i].name /\ new.refs = infos[i].refs + 1
        /\ new.cmd = infos[i].cmd /\ new.archive = infos[i].archive
    BY <2>1, AgainIs
  <2>4. Clean(infos[i]) /\ infos[i].refs \in Nat
    BY <2>1, CleanIs DEF Infos
  <2> HIDE DEF i, new
  <2>5. Clean(new)
    BY <2>1, <2>3, <2>4 DEF Clean
  <2> QED BY <2>1, <2>2, <2>3, <2>5, OneHolder
<1>3. ASSUME NEW n \in Names, SetResNew(n) PROVE CleanHolders'
  <2> DEFINE i == FirstIn(Unused)
             new == [infos[i] EXCEPT !.name = n, !.refs = 1, !.cmd = "pending"]
  <2>1. i \in Arcs /\ infos[i] \in Infos /\ infos[i].refs = 0 /\ sync = 0
    BY <1>3, UnusedHolder DEF SetResNew
  <2>2. infos' = [infos EXCEPT ![i] = new] /\ sync' = sync /\ synced' = FALSE
    BY <1>3 DEF SetResNew
  <2>3. /\ new \in Infos /\ new.name = n /\ new.refs = 1
        /\ new.cmd = "pending" /\ new.archive = infos[i].archive
    <3>1. infos[i] \in Infos
      BY <2>1
    <3> HIDE DEF i
    <3> QED BY <3>1, NewIs
  <2>4. infos[i].archive = None
    BY <2>1, CleanIs DEF Clean
  <2> HIDE DEF i, new
  <2>5. Clean(new) /\ ~(i < sync)
    BY <2>1, <2>3, <2>4 DEF Clean, Arcs
  <2> QED BY <2>1, <2>2, <2>3, <2>5, OneHolder
<1>4. ASSUME NEW n \in Names, SetResFails(n) PROVE CleanHolders'
  <2> DEFINE i == FirstIn(Unused)  new == Cleanup([infos[i] EXCEPT !.cmd = "none"])
  <2>1. i \in Arcs /\ infos[i] \in Infos
    BY <1>4, UnusedHolder DEF SetResFails
  <2>2. infos' = [infos EXCEPT ![i] = new] /\ sync' = sync /\ synced' = synced
    BY <1>4 DEF SetResFails
  <2>3. new \in Infos /\ new.cmd = "none" /\ new.archive = None
    BY <2>1, RefusedIs
  <2> HIDE DEF i, new
  <2>4. Clean(new)
    BY <2>3 DEF Clean
  <2> QED BY <2>1, <2>2, <2>3, <2>4, OneHolder
<1>5. ASSUME NEW n \in Names, DeleteRes(n) PROVE CleanHolders'
  <2> DEFINE i == FirstIn(Holders(n))  new == Released(infos[i])
  <2>1. i \in Arcs /\ infos[i] \in Infos /\ infos[i].refs > 0
    BY <1>5, FoundHolder DEF DeleteRes
  <2>2. infos' = [infos EXCEPT ![i] = new] /\ sync' = sync /\ synced' = synced
    BY <1>5 DEF DeleteRes
  <2>3. infos[i].refs > 1 \/ infos[i].cmd # "pending"
    BY <1>5 DEF DeleteRes, MayRelease
  <2>4. Clean(infos[i]) /\ infos[i].refs \in Nat
    BY <2>1, CleanIs DEF Infos
  <2>5. /\ new \in Infos
        /\ new.name = infos[i].name /\ new.refs = infos[i].refs - 1
        /\ infos[i].refs = 1 => new.cmd = "none" /\ new.archive = None
        /\ infos[i].refs # 1 => new.cmd = infos[i].cmd /\ new.archive = infos[i].archive
    BY <2>1, <2>3, ReleasedIs
  <2> HIDE DEF i, new
  <2>6. Clean(new) /\ (new.cmd = "none" \/ new.cmd = infos[i].cmd)
    BY <2>1, <2>4, <2>5 DEF Clean
  <2> QED BY <2>1, <2>2, <2>5, <2>6, OneHolder
<1>6. ASSUME NEW i \in Arcs, DvdDone(i) PROVE CleanHolders'
  <2>1. PICK result \in {"loaded", "failed"} : infos' = [infos EXCEPT ![i].cmd = result]
    BY <1>6 DEF DvdDone
  <2> DEFINE new == [infos[i] EXCEPT !.cmd = result]
  <2>2. infos' = [infos EXCEPT ![i] = new] /\ sync' = sync /\ synced' = synced
    BY <1>6, <2>1 DEF DvdDone
  <2>3. infos[i] \in Infos /\ Clean(infos[i]) /\ infos[i].cmd = "pending"
    BY <1>6, CleanIs DEF DvdDone
  <2>4. /\ new \in Infos /\ new.name = infos[i].name /\ new.refs = infos[i].refs
        /\ new.cmd = result /\ new.archive = infos[i].archive
    <3>1. infos[i] \in Infos /\ result \in Commands
      BY <2>3 DEF Commands
    <3> QED BY <3>1, DoneIs
  <2>5. ~(synced \/ i < sync)
    BY <2>3 DEF CleanHolders, SyncedIsLoaded
  <2> HIDE DEF new
  <2>6. Clean(new)
    BY <2>3, <2>4 DEF Clean
  <2> QED BY <2>2, <2>4, <2>5, <2>6, OneHolder
<1>7. CASE SyncStarts
  <2>1. infos' = infos /\ sync' = 1 /\ synced' = synced
    BY <1>7 DEF SyncStarts
  <2>2. SyncedIsLoaded'
    BY <2>1 DEF CleanHolders, SyncedIsLoaded, Arcs
  <2> QED BY <2>1, <2>2 DEF CleanHolders, OwnArchive, NothingLeftOver
<1>8. CASE SyncVisit
  <2>1. sync \in Arcs /\ infos[sync] \in Infos
    BY <1>8, Visit
  <2>2. CASE InProgress(infos[sync])
    <3>1. infos' = infos /\ sync' = 0 /\ synced' = FALSE
      BY <1>8, <2>2, Visit
    <3>2. SyncedIsLoaded'
      BY <3>1 DEF SyncedIsLoaded, Arcs
    <3> QED BY <3>1, <3>2 DEF CleanHolders, OwnArchive, NothingLeftOver
  <2>3. CASE ~InProgress(infos[sync])
    <3> DEFINE new == TakeArchive(infos[sync])
    <3>1. /\ infos' = [infos EXCEPT ![sync] = new]
          /\ sync' = IF sync = NumArcs THEN 0 ELSE sync + 1
          /\ synced' = (synced \/ sync = NumArcs)
      BY <1>8, <2>3, Visit
    <3>2. Clean(infos[sync])
      BY <2>1, CleanIs
    <3>3. /\ new \in Infos /\ new.name = infos[sync].name /\ new.refs = infos[sync].refs
          /\ infos[sync].archive # None \/ infos[sync].cmd = "none" => new = infos[sync]
          /\ infos[sync].archive = None /\ infos[sync].cmd # "none" =>
               new.cmd = "none" /\ new.archive \in {None, infos[sync].name}
      BY <2>1, TakeArchiveIs
    <3> HIDE DEF new
    <3>4. new.cmd = "none" /\ Clean(new)
      BY <3>2, <3>3 DEF Clean
    <3>5. \A j \in Arcs : infos'[j] = IF j = sync THEN new ELSE infos[j]
      BY <3>1
    <3>6. \A j \in Arcs : Clean(infos'[j])
      BY <3>4, <3>5, CleanIs
    <3>7. \A j \in Arcs : j < sync => infos[j].cmd = "none"
      BY DEF CleanHolders, SyncedIsLoaded
    <3>8. ASSUME NEW j \in Arcs, synced' \/ j < sync' PROVE infos'[j].cmd = "none"
      <4>1. CASE synced
        BY <3>4, <3>5, <4>1 DEF CleanHolders, SyncedIsLoaded
      <4>2. CASE ~synced
        <5>1. j <= sync
          BY <2>1, <3>1, <3>8, <4>2 DEF Arcs
        <5>2. j = sync \/ j < sync
          BY <2>1, <5>1 DEF Arcs
        <5> QED BY <3>4, <3>5, <3>7, <5>2
      <4> QED BY <4>1, <4>2
    <3>9. SyncedIsLoaded'
      BY <3>8 DEF SyncedIsLoaded
    <3> QED BY <3>6, <3>9 DEF CleanHolders, Clean, OwnArchive, NothingLeftOver
  <2> QED BY <2>2, <2>3
<1> QED BY <1>1, <1>2, <1>3, <1>4, <1>5, <1>6, <1>7, <1>8 DEF Next

-----------------------------------------------------------------------------
\* The invariant of the resource manager: one holder per archive, with the
\* number of its users; and, while no archive is released that is being
\* loaded, what getRes finds under a name is the archive of that name, unused
\* holders are empty, and syncAllRes returns false only when all is loaded.
THEOREM ResInvariant == Spec => []ResInv
<1> DEFINE Inv == TypeOK /\ CountsItsUsers /\ (~ReleaseLoading => CleanHolders)
<1>1. Init => Inv
  <2> SUFFICES ASSUME Init PROVE Inv
    OBVIOUS
  <2>1. Empty \in Infos
    BY DEF Empty, Infos, Commands
  <2>2. TypeOK
    BY <2>1, ResAssumption DEF Init, TypeOK
  <2>3. \A n \in Names : Holders(n) = {}
    <3>1. \A i \in Arcs : infos[i].refs = 0
      BY DEF Init, Empty
    <3> QED BY <3>1 DEF Holders
  <2>4. CountsItsUsers
    BY <2>3 DEF Init, CountsItsUsers
  <2>5. CleanHolders
    BY DEF Init, CleanHolders, OwnArchive, NothingLeftOver, SyncedIsLoaded, Empty
  <2> QED BY <2>2, <2>4, <2>5
<1>2. Inv /\ [Next]_vars => Inv'
  <2>1. TypeOK /\ CountsItsUsers /\ [Next]_vars => TypeOK' /\ CountsItsUsers'
    BY TypePreserved, CountPreserved
  <2>2. TypeOK /\ CleanHolders /\ ~ReleaseLoading /\ [Next]_vars => CleanHolders'
    BY CleanPreserved
  <2> QED BY <2>1, <2>2
<1>3. Inv => ResInv
  BY DEF ResInv, CleanHolders
<1> QED BY <1>1, <1>2, <1>3, PTL DEF Spec

-----------------------------------------------------------------------------
(* The refinement.                                                         *)

LEMMA SameStatus ==
  ASSUME NEW n \in Names, Holders(n)' = Holders(n),
         \A i \in Holders(n) : StatusOf(infos'[i]) = StatusOf(infos[i])
  PROVE  Status(n)' = Status(n)
<1>1. CASE Holders(n) = {}
  BY <1>1 DEF Status
<1>2. CASE Holders(n) # {}
  <2>1. FirstIn(Holders(n)) \in Holders(n)
    BY <1>2, FirstIsIn DEF Holders
  <2>2. Status(n)' = StatusOf(infos'[FirstIn(Holders(n))])
    BY <1>2 DEF Status, StatusOf
  <2> QED BY <1>2, <2>1, <2>2 DEF Status
<1> QED BY <1>1, <1>2

LEMMA SoleHolder ==
  ASSUME NEW n \in Names, NEW i \in Arcs
  PROVE  /\ Holders(n) = {i} => Status(n) = StatusOf(infos[i])
         /\ Holders(n)' = {i} => Status(n)' = StatusOf(infos'[i])
<1>1. FirstIn({i}) = i
  BY FirstIsIn
<1> QED BY <1>1 DEF Status, StatusOf

\* A step of the users or of the threads changes one holder, and the status
\* of the archive in it at most.
LEMMA OthersKeepStatus ==
  ASSUME TypeOK, NEW i \in Arcs, NEW new \in Infos, infos' = [infos EXCEPT ![i] = new],
         NEW n \in Names, i \notin Holders(n), new.refs = 0 \/ new.name # n
  PROVE  Status(n)' = Status(n)
<1>1. \A j \in Arcs : infos'[j] = IF j = i THEN new ELSE infos[j]
  BY DEF TypeOK
<1>2. Holders(n)' = Holders(n)
  BY <1>1 DEF Holders
<1>3. \A j \in Holders(n) : StatusOf(infos'[j]) = StatusOf(infos[j])
  BY <1>1 DEF Holders
<1> QED BY <1>2, <1>3, SameStatus

\* The same, if the archive in it stays there with its status.
LEMMA AllKeepStatus ==
  ASSUME TypeOK, NEW i \in Arcs, NEW new \in Infos, infos' = [infos EXCEPT ![i] = new],
         new.name = infos[i].name, new.refs > 0 <=> infos[i].refs > 0,
         infos[i].refs > 0 => StatusOf(new) = StatusOf(infos[i]), NEW n \in Names
  PROVE  Status(n)' = Status(n)
<1>1. \A j \in Arcs : infos'[j] = IF j = i THEN new ELSE infos[j]
  BY DEF TypeOK
<1>2. Holders(n)' = Holders(n)
  BY <1>1 DEF Holders
<1>3. \A j \in Holders(n) : StatusOf(infos'[j]) = StatusOf(infos[j])
  BY <1>1 DEF Holders
<1> QED BY <1>2, <1>3, SameStatus

LEMMA StepRefines ==
  ASSUME TypeOK, CountsItsUsers, CleanHolders, ~ReleaseLoading, [Next]_vars
  PROVE  [A!Next]_(A!vars)
<1> USE ResAssumption DEF TypeOK
<1> DEFINE Still == held' = held /\ \A m \in Names : Status(m)' = Status(m)
<1>0. Still => UNCHANGED A!vars
  BY DEF A!vars
<1>1. CASE UNCHANGED vars
  <2>1. Holders(0)' = Holders(0) /\ \A m \in Names : Holders(m)' = Holders(m)
    BY <1>1 DEF vars, Holders
  <2> QED BY <1>0, <1>1, <2>1, SameStatus DEF vars
<1>2. ASSUME NEW n \in Names, SetResAgain(n) PROVE A!Next
  <2> DEFINE i == FirstIn(Holders(n))  new == [infos[i] EXCEPT !.refs = @ + 1]
  <2>1. i \in Arcs /\ infos[i] \in Infos /\ infos[i].refs > 0 /\ infos[i].refs \in Nat
    BY <1>2, FoundHolder DEF SetResAgain, Infos
  <2>2. infos' = [infos EXCEPT ![i] = new] /\ held' = [held EXCEPT ![n] = @ + 1]
    BY <1>2 DEF SetResAgain
  <2>3. /\ new \in Infos /\ new.name = infos[i].name /\ new.refs = infos[i].refs + 1
        /\ new.cmd = infos[i].cmd /\ new.archive = infos[i].archive
    BY <2>1, AgainIs
  <2>4. held[n] # 0
    BY <1>2 DEF SetResAgain, CountsItsUsers
  <2> HIDE DEF i, new
  <2>5. new.refs > 0 /\ StatusOf(new) = StatusOf(infos[i])
    BY <2>1, <2>3 DEF StatusOf
  <2>6. \A m \in Names : Status(m)' = Status(m)
    BY <2>1, <2>2, <2>3, <2>5, AllKeepStatus
  <2>7. A!Request(n)
    BY <2>2, <2>4, <2>6 DEF A!Request
  <2> QED BY <2>7 DEF A!Next
<1>3. ASSUME NEW n \in Names, SetResNew(n) PROVE A!Next
  <2> DEFINE i == FirstIn(Unused)
             new == [infos[i] EXCEPT !.name = n, !.refs = 1, !.cmd = "pending"]
  <2>1. i \in Arcs /\ infos[i] \in Infos /\ infos[i].refs = 0
    BY <1>3, UnusedHolder DEF SetResNew
  <2>2. infos' = [infos EXCEPT ![i] = new] /\ held' = [held EXCEPT ![n] = @ + 1]
    BY <1>3 DEF SetResNew
  <2>3. Holders(n) = {} /\ held[n] = 0
    BY <1>3 DEF SetResNew, CountsItsUsers
  <2> HIDE DEF i
  <2>4. /\ new \in Infos /\ new.name = n /\ new.refs = 1
        /\ new.cmd = "pending" /\ new.archive = infos[i].archive
    <3>1. infos[i] \in Infos
      BY <2>1
    <3> QED BY <3>1, NewIs
  <2> HIDE DEF new
  <2>5. StatusOf(new) = "loading"
    BY <2>1, <2>4, CleanIs DEF Clean, StatusOf
  <2>6. \A j \in Arcs : infos'[j] = IF j = i THEN new ELSE infos[j]
    BY <2>1, <2>2
  <2>7. Holders(n)' = {i}
    BY <2>1, <2>3, <2>4, <2>6 DEF Holders
  <2>8. Status(n)' = "loading"
    BY <2>1, <2>5, <2>6, <2>7, SoleHolder
  <2>9. \A m \in Names \ {n} : Status(m)' = Status(m)
    <3>1. \A m \in Names : i \notin Holders(m)
      BY <2>1 DEF Holders
    <3> QED BY <2>1, <2>2, <2>4, <3>1, OthersKeepStatus
  <2>10. A!Request(n)
    BY <2>2, <2>3, <2>8, <2>9 DEF A!Request
  <2> QED BY <2>10 DEF A!Next
<1>4. ASSUME NEW n \in Names, SetResFails(n) PROVE Still
  <2> DEFINE i == FirstIn(Unused)  new == Cleanup([infos[i] EXCEPT !.cmd = "none"])
  <2>1. i \in Arcs /\ infos[i] \in Infos /\ infos[i].refs = 0
    BY <1>4, UnusedHolder DEF SetResFails
  <2>2. infos' = [infos EXCEPT ![i] = new] /\ held' = held
    BY <1>4 DEF SetResFails
  <2>3. new \in Infos /\ new.name = infos[i].name /\ new.refs = infos[i].refs
    BY <2>1, RefusedIs
  <2> HIDE DEF i, new
  <2>4. ~(infos[i].refs > 0) /\ ~(new.refs > 0)
    BY <2>1, <2>3
  <2>5. \A m \in Names : Status(m)' = Status(m)
    BY <2>1, <2>2, <2>3, <2>4, AllKeepStatus
  <2> QED BY <2>2, <2>5
<1>5. ASSUME NEW n \in Names, DeleteRes(n) PROVE A!Next
  <2> DEFINE i == FirstIn(Holders(n))  new == Released(infos[i])
  <2>1. /\ i \in Arcs /\ infos[i] \in Infos /\ infos[i].refs > 0 /\ infos[i].refs \in Nat
        /\ infos[i].name = n
    BY <1>5, FoundHolder DEF DeleteRes, Infos
  <2>2. infos' = [infos EXCEPT ![i] = new] /\ held' = [held EXCEPT ![n] = @ - 1] /\ held[n] > 0
    BY <1>5 DEF DeleteRes
  <2>3. i \in Holders(n)
    BY <2>1 DEF Holders
  <2>4. infos[i].refs = held[n] /\ Holders(n) = {i}
    BY <2>3 DEF CountsItsUsers
  <2>5. /\ new \in Infos
        /\ new.name = infos[i].name /\ new.refs = infos[i].refs - 1
        /\ infos[i].refs # 1 => new.cmd = infos[i].cmd /\ new.archive = infos[i].archive
    BY <2>1, ReleasedIs
  <2> HIDE DEF i, new
  <2>6. \A j \in Arcs : infos'[j] = IF j = i THEN new ELSE infos[j]
    BY <2>1, <2>2
  <2>7. \A m \in Names \ {n} : Status(m)' = Status(m)
    <3>1. \A m \in Names \ {n} : i \notin Holders(m) /\ new.name # m
      BY <2>1, <2>5 DEF Holders
    <3> QED BY <2>1, <2>2, <2>5, <3>1, OthersKeepStatus
  <2>8. CASE held[n] = 1
    <3>1. Holders(n)' = {}
      BY <2>1, <2>4, <2>5, <2>6, <2>8 DEF Holders
    <3>2. Status(n)' = "absent"
      BY <3>1 DEF Status
    <3>3. A!Release(n)
      BY <2>2, <2>7, <2>8, <3>2 DEF A!Release
    <3> QED BY <3>3 DEF A!Next
  <2>9. CASE held[n] # 1
    <3>1. new.refs > 0 /\ StatusOf(new) = StatusOf(infos[i])
      BY <2>1, <2>4, <2>5, <2>9 DEF StatusOf
    <3>2. Status(n)' = Status(n)
      BY <2>1, <2>2, <2>5, <3>1, AllKeepStatus
    <3>3. A!Release(n)
      BY <2>2, <2>7, <2>9, <3>2 DEF A!Release
    <3> QED BY <3>3 DEF A!Next
  <2> QED BY <2>8, <2>9
<1>6. ASSUME NEW i \in Arcs, DvdDone(i) PROVE Still
  <2>1. PICK result \in {"loaded", "failed"} : infos' = [infos EXCEPT ![i].cmd = result]
    BY <1>6 DEF DvdDone
  <2> DEFINE new == [infos[i] EXCEPT !.cmd = result]
  <2>2. infos' = [infos EXCEPT ![i] = new] /\ held' = held /\ infos[i].cmd = "pending"
    BY <1>6, <2>1 DEF DvdDone
  <2>3. infos[i] \in Infos /\ result \in Commands
    BY DEF Commands
  <2>4. /\ new \in Infos /\ new.name = infos[i].name /\ new.refs = infos[i].refs
        /\ new.cmd = result /\ new.archive = infos[i].archive
    BY <2>3, DoneIs
  <2> HIDE DEF new
  <2>5. StatusOf(new) = StatusOf(infos[i])
    BY <2>2, <2>4 DEF StatusOf
  <2> QED BY <2>2, <2>4, <2>5, AllKeepStatus
<1>7. CASE SyncStarts
  <2>1. infos' = infos /\ held' = held
    BY <1>7 DEF SyncStarts
  <2>2. \A m \in Names : Holders(m)' = Holders(m)
    BY <2>1 DEF Holders
  <2> QED BY <1>0, <2>1, <2>2, SameStatus
<1>8. CASE SyncVisit
  <2>1. sync \in Arcs /\ infos[sync] \in Infos /\ held' = held
    BY <1>8, Visit
  <2>2. CASE infos' = infos
    <3>1. \A m \in Names : Holders(m)' = Holders(m)
      BY <2>2 DEF Holders
    <3> QED BY <1>0, <2>1, <2>2, <3>1, SameStatus
  <2>3. CASE infos' = [infos EXCEPT ![sync] = TakeArchive(@)] /\ ~InProgress(infos[sync])
    <3> DEFINE new == TakeArchive(infos[sync])
    <3>1. /\ new \in Infos /\ new.name = infos[sync].name /\ new.refs = infos[sync].refs
          /\ infos[sync].archive # None \/ infos[sync].cmd = "none" => new = infos[sync]
          /\ infos[sync].archive = None /\ infos[sync].cmd # "none" =>
               new.cmd = "none" /\ new.archive \in {None, infos[sync].name}
      BY <2>1, TakeArchiveIs
    <3> HIDE DEF new
    <3>2. infos' = [infos EXCEPT ![sync] = new]
      BY <2>3 DEF new
    <3>3. CASE infos[sync].archive # None \/ infos[sync].cmd = "none"
      <4>1. StatusOf(new) = StatusOf(infos[sync])
        BY <3>1, <3>3
      <4>2. \A m \in Names : Status(m)' = Status(m)
        BY <2>1, <3>1, <3>2, <4>1, AllKeepStatus
      <4> QED BY <1>0, <2>1, <4>2
    <3>4. CASE ~(infos[sync].archive # None \/ infos[sync].cmd = "none")
      <4>1. CASE \E n \in Names : sync \in Holders(n)
        <5>1. PICK n \in Names : sync \in Holders(n)
          BY <4>1
        <5>2. infos[sync].name = n /\ infos[sync].refs > 0 /\ Holders(n) = {sync}
          <6>1. infos[sync].name = n /\ infos[sync].refs > 0
            BY <5>1 DEF Holders
          <6>2. \A j \in Holders(n) : j = sync
            BY <5>1 DEF CountsItsUsers
          <6> QED BY <5>1, <6>1, <6>2
        <5>3. \A j \in Arcs : infos'[j] = IF j = sync THEN new ELSE infos[j]
          BY <2>1, <3>2
        <5>4. Holders(n)' = {sync}
          BY <2>1, <3>1, <5>2, <5>3 DEF Holders
        <5>5. Status(n) = "loading"
          BY <2>1, <3>4, <5>2, SoleHolder DEF StatusOf
        <5>6. StatusOf(new) \in {"loaded", "failed"}
          BY <3>1, <3>4 DEF StatusOf
        <5>7. Status(n)' \in {"loaded", "failed"}
          BY <2>1, <5>3, <5>4, <5>6, SoleHolder
        <5>8. \A m \in Names \ {n} : Status(m)' = Status(m)
          <6>1. \A m \in Names \ {n} : sync \notin Holders(m) /\ new.name # m
            BY <3>1, <5>2 DEF Holders
          <6> QED BY <2>1, <3>1, <3>2, <6>1, OthersKeepStatus
        <5>9. A!Finish(n)
          BY <2>1, <5>5, <5>7, <5>8 DEF A!Finish
        <5> QED BY <5>9 DEF A!Next
      <4>2. CASE ~ \E n \in Names : sync \in Holders(n)
        <5>1. \A m \in Names : sync \notin Holders(m) /\ (new.refs = 0 \/ new.name # m)
          BY <2>1, <3>1, <4>2 DEF Holders, Infos
        <5>2. \A m \in Names : Status(m)' = Status(m)
          BY <2>1, <3>1, <3>2, <5>1, OthersKeepStatus
        <5> QED BY <1>0, <2>1, <5>2
      <4> QED BY <4>1, <4>2
    <3> QED BY <3>3, <3>4
  <2> QED BY <1>8, <2>2, <2>3, Visit
<1> QED BY <1>0, <1>1, <1>2, <1>3, <1>4, <1>5, <1>6, <1>7, <1>8 DEF Next

\* If no archive is released that is being loaded, the manager keeps the
\* promise of Archives for any number of archives, holders and users.
THEOREM ResImplementsArchives ==
  ASSUME ~ReleaseLoading
  PROVE  Spec => ImplementsArchives
<1>1. Init => A!Init
  <2> SUFFICES ASSUME Init PROVE A!Init
    OBVIOUS
  <2>1. \A n \in Names : Holders(n) = {}
    <3>1. \A i \in Arcs : infos[i].refs = 0
      BY DEF Init, Empty
    <3> QED BY <3>1 DEF Holders
  <2>2. \A n \in Names : Status(n) = "absent"
    BY <2>1 DEF Status
  <2> QED BY <2>2 DEF Init, A!Init
<1>2. ResInv /\ [Next]_vars => [A!Next]_(A!vars)
  BY StepRefines DEF ResInv, CleanHolders
<1>3. Spec => []ResInv
  BY ResInvariant
<1> QED BY <1>1, <1>2, <1>3, PTL DEF Spec, ImplementsArchives, A!Spec
=============================================================================
