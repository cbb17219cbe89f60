----------------------------- MODULE SceneChange -----------------------------
(***************************************************************************)
(* What the scene changes of the game promise to the player, with no       *)
(* frames, faders or processes: there is at most one scene; it goes only   *)
(* for a successor, behind a black screen; the successor is the one that   *)
(* was asked for first; and the screen never shows a scene that is still   *)
(* being prepared.  Scene implements this specification.                   *)
(***************************************************************************)
CONSTANTS Scenes, None

VARIABLES
  on,        \* the scene there is, or None
  wanted,    \* the scene that was asked for, or None
  prepared,  \* whether the scene there is has been prepared
  dark       \* whether the screen is black

vars == << on, wanted, prepared, dark >>

Init == on = None /\ wanted \in Scenes /\ prepared = FALSE /\ dark = TRUE

\* The scene runs: it is prepared, the screen goes black or shows it, and
\* somebody may ask for a successor.
Play ==
  /\ on' = on
  /\ wanted' = wanted \/ wanted = None
  /\ on = None => prepared' = prepared
  /\ dark /\ ~dark' => on # None /\ prepared

\* The scene goes, and the one that is wanted comes, on a black screen.
Leave == on # None /\ wanted # None /\ dark /\ on' = None
         /\ prepared' = FALSE /\ UNCHANGED << wanted, dark >>
Enter == on = None /\ wanted # None /\ dark /\ on' = wanted
         /\ wanted' = None /\ UNCHANGED << prepared, dark >>

Next == wanted' \in Scenes \cup {None} /\ (Play \/ Leave \/ Enter)

Spec == Init /\ [][Next]_vars
=============================================================================
