------------------------------- MODULE Archives -------------------------------
(***************************************************************************)
(* What the resource manager promises to its callers, with no holders,     *)
(* commands or walks: an archive that somebody holds is loaded once, and   *)
(* stays, the same for all, until the last one releases it; an archive     *)
(* that nobody holds is not there.  Res implements this specification if   *)
(* its callers release no archive that is still being loaded.              *)
(***************************************************************************)
EXTENDS Naturals

CONSTANT Names
VARIABLES
  held,      \* how many callers hold each archive
  status     \* what has become of each archive

vars == << held, status >>

Init == held = [n \in Names |-> 0] /\ status = [n \in Names |-> "absent"]

\* A request may be refused, which changes nothing.
Request(n) ==
  /\ held' = [held EXCEPT ![n] = @ + 1]
  /\ status' = [status EXCEPT ![n] = IF held[n] = 0 THEN "loading" ELSE @]

Finish(n) ==
  /\ status[n] = "loading"
  /\ \E result \in {"loaded", "failed"} : status' = [status EXCEPT ![n] = result]
  /\ UNCHANGED held

Release(n) ==
  /\ held[n] > 0
  /\ held' = [held EXCEPT ![n] = @ - 1]
  /\ status' = [status EXCEPT ![n] = IF held[n] = 1 THEN "absent" ELSE @]

Next == \E n \in Names : Request(n) \/ Finish(n) \/ Release(n)

Spec == Init /\ [][Next]_vars
=============================================================================
