---------------------------------- MODULE Res ----------------------------------
(***************************************************************************)
(* The resource manager (dRes_c): archives in an array of holders, counted *)
(* by their users, loaded by the thread of the DVD.                        *)
(*                                                                         *)
(* The manager's functions are called on the game's thread; syncAllRes     *)
(* looks at one holder after the other, and the DVD thread may finish any  *)
(* command between two of its looks.  External: the command                *)
(* (mDvd_mountMemArchive_c), which sets mDone when it has loaded its       *)
(* archive or failed to.  What is done with the files of a loaded archive  *)
(* is left out, and so is the heap for it.                                 *)
(*                                                                         *)
(* Callers release what they hold and nothing else.                        *)
(***************************************************************************)
EXTENDS Integers

CONSTANTS
  Names,           \* the archives
  None,
  NumArcs,         \* mNumArcs
  MaxHolders,      \* bound: how often one archive is held
  ReleaseLoading   \* whether callers release an archive that is being loaded

ASSUME ResAssumption ==
  /\ None \notin Names
  /\ NumArcs \in Nat \ {0} /\ MaxHolders \in Nat /\ ReleaseLoading \in BOOLEAN

VARIABLES
  infos,     \* mpArcInfos
  sync,      \* the holder syncAllRes looks at next, 0 outside of its calls
  held,      \* how many callers hold each archive
  synced     \* the last syncAllRes has returned false, and no request followed

vars == << infos, sync, held, synced >>

\* A command is in progress, or done with an archive or without.  Its file is
\* that of the holder's name: set() writes both.
Arcs == 1 .. NumArcs
Commands == {"none", "pending", "loaded", "failed"}
Infos == [name : Names \cup {None}, refs : Nat, cmd : Commands, archive : Names \cup {None}]
Empty == [name |-> None, refs |-> 0, cmd |-> "none", archive |-> None]

Init ==
  /\ infos = [i \in Arcs |-> Empty] /\ sync = 0
  /\ held = [n \in Names |-> 0] /\ synced = TRUE

FirstIn(S) == CHOOSE i \in S : \A j \in S : i <= j

\* getResInfo(n) and newResInfo() are the first of these.

\* Mutant: the name alone decides.
HoldersByName(n) == {i \in Arcs : infos[i].name = n}

Holders(n) == {i \in Arcs : infos[i].refs > 0 /\ infos[i].name = n}
Unused == {i \in Arcs : infos[i].refs = 0}

\* info_c::cleanup does nothing while the command is in progress.
Cleanup(info) ==
  IF info.cmd = "pending" THEN info ELSE [info EXCEPT !.cmd = "none", !.archive = None]

-----------------------------------------------------------------------------
(* setRes of an archive that is there, of a new one, and of one for which  *)
(* no command can be made.  Without a holder to use it returns false.      *)
SetResAgain(n) ==
  /\ sync = 0 /\ Holders(n) # {} /\ held[n] < MaxHolders
  /\ infos' = [infos EXCEPT ![FirstIn(Holders(n))].refs = @ + 1]
  /\ held' = [held EXCEPT ![n] = @ + 1]
  /\ UNCHANGED << sync, synced >>

SetResNew(n) ==
  /\ sync = 0 /\ Holders(n) = {} /\ held[n] < MaxHolders /\ Unused # {}
  /\ infos' = [infos EXCEPT ![FirstIn(Unused)] =
                 [@ EXCEPT !.name = n, !.refs = 1, !.cmd = "pending"]]
  /\ held' = [held EXCEPT ![n] = @ + 1]
  /\ synced' = FALSE
  /\ UNCHANGED sync

SetResFails(n) ==
  /\ sync = 0 /\ Holders(n) = {} /\ Unused # {}
  /\ infos' = [infos EXCEPT ![FirstIn(Unused)] = Cleanup([@ EXCEPT !.cmd = "none"])]
  /\ UNCHANGED << sync, held, synced >>

(* deleteRes.                                                              *)
MayRelease(info) == ReleaseLoading \/ info.refs > 1 \/ info.cmd # "pending"

\* Mutant: the last user leaves the archive where it is.
ReleasedOnly(info) == [info EXCEPT !.refs = @ - 1]

Released(info) ==
  IF info.refs = 1 THEN Cleanup([info EXCEPT !.refs = 0]) ELSE [info EXCEPT !.refs = @ - 1]

DeleteRes(n) ==
  /\ sync = 0 /\ held[n] > 0 /\ Holders(n) # {}
  /\ LET i == FirstIn(Holders(n)) IN
       MayRelease(infos[i]) /\ infos' = [infos EXCEPT ![i] = Released(@)]
  /\ held' = [held EXCEPT ![n] = @ - 1]
  /\ UNCHANGED << sync, synced >>

\* The DVD thread.
DvdDone(i) ==
  /\ infos[i].cmd = "pending"
  /\ \E result \in {"loaded", "failed"} : infos' = [infos EXCEPT ![i].cmd = result]
  /\ UNCHANGED << sync, held, synced >>

-----------------------------------------------------------------------------
(* syncAllRes.  It ends at the first command in progress.                  *)
SyncStarts == sync = 0 /\ sync' = 1 /\ UNCHANGED << infos, held, synced >>

\* info_c::setRes: with an archive there is nothing to do.

\* Mutant: a failed command is waited for.
InProgressOrFailed(info) == info.cmd \in {"pending", "failed"} /\ info.archive = None

InProgress(info) == info.cmd = "pending" /\ info.archive = None
TakeArchive(info) ==
  IF info.archive # None \/ info.cmd = "none" THEN info
  ELSE [info EXCEPT !.cmd = "none", !.archive = IF info.cmd = "loaded" THEN info.name ELSE None]

SyncVisit ==
  /\ sync # 0 /\ UNCHANGED held
  /\ IF InProgress(infos[sync])
       THEN sync' = 0 /\ synced' = FALSE /\ UNCHANGED infos
       ELSE /\ infos' = [infos EXCEPT ![sync] = TakeArchive(@)]
            /\ sync' = IF sync = NumArcs THEN 0 ELSE sync + 1
            /\ synced' = (synced \/ sync = NumArcs)

-----------------------------------------------------------------------------
Next ==
  \/ \E n \in Names : SetResAgain(n) \/ SetResNew(n) \/ SetResFails(n) \/ DeleteRes(n)
  \/ \E i \in Arcs : DvdDone(i)
  \/ SyncStarts \/ SyncVisit

Spec == Init /\ [][Next]_vars

\* The DVD thread goes on, and callers go on waiting with syncAllRes.
Fairness ==
  /\ WF_vars(SyncStarts) /\ WF_vars(SyncVisit) /\ \A i \in Arcs : WF_vars(DvdDone(i))
FairSpec == Spec /\ Fairness
-----------------------------------------------------------------------------
TypeOK ==
  /\ infos \in [Arcs -> Infos]
  /\ sync \in 0 .. NumArcs /\ held \in [Names -> Nat] /\ synced \in BOOLEAN

\* An archive has one holder, which counts its users.
CountsItsUsers ==
  /\ \A n \in Names : \A i, j \in Holders(n) : i = j
  /\ \A n \in Names : held[n] > 0 <=> Holders(n) # {}
  /\ \A n \in Names : \A i \in Holders(n) : infos[i].refs = held[n]

\* What getRes finds under a name is the archive of that name (d_res.hpp:
\* getArchive returns null if the archive has not yet been loaded).
OwnArchive ==
  \A i \in Arcs : infos[i].refs > 0 /\ infos[i].archive # None =>
     infos[i].archive = infos[i].name

\* A holder without users holds nothing, one with an archive has no command.
NothingLeftOver ==
  \A i \in Arcs : infos[i].refs = 0 \/ infos[i].archive # None =>
     infos[i].cmd = "none" /\ (infos[i].refs = 0 => infos[i].archive = None)

\* When syncAllRes has returned false, nothing that was asked for before is
\* still missing; inside of it, nothing it has passed is.
SyncedIsLoaded ==
  \A i \in Arcs : synced \/ i < sync => infos[i].cmd = "none"

ResInv ==
  /\ TypeOK /\ CountsItsUsers
  /\ ~ReleaseLoading => OwnArchive /\ NothingLeftOver /\ SyncedIsLoaded

(* Res implements Archives.                                                *)
StatusOf(info) ==
  IF info.archive # None THEN "loaded" ELSE IF info.cmd = "none" THEN "failed" ELSE "loading"
Status(n) ==
  IF Holders(n) = {} THEN "absent" ELSE StatusOf(infos[FirstIn(Holders(n))])
A == INSTANCE Archives WITH status <- [n \in Names |-> Status(n)]
ImplementsArchives == A!Spec

\* Who waits with syncAllRes is not kept waiting, unless new requests keep
\* coming: it returns false in the end, whatever loads and fails.
WaitingEnds == []<><<\E n \in Names : SetResNew(n)>>_vars \/ []<>synced
=============================================================================
