------------------------------- MODULE StateLife -------------------------------
(***************************************************************************)
(* What a state manager promises to the code of the states, with no locks  *)
(* and no pending requests: a state is initialised, then live, then        *)
(* finalised, one state at a time; its execute operation is never run on a *)
(* manager that has no state, nor inside itself.  StateMethod implements   *)
(* this specification.                                                     *)
(***************************************************************************)
CONSTANTS Mgrs, States, Null

VARIABLES
  phase,      \* where each manager is in the life of its state
  current,    \* the state it lives, or Null
  running     \* the managers whose state's execute operation is in progress

vars == << phase, current, running >>

Init ==
  /\ phase = [m \in Mgrs |-> "none"]
  /\ current = [m \in Mgrs |-> Null]
  /\ running = {}

Moves(m, from, to) == phase[m] = from /\ phase' = [phase EXCEPT ![m] = to]

\* The state's initialize operation starts, and returns.
Enter(m, s) ==
  /\ Moves(m, "none", "entering")
  /\ current' = [current EXCEPT ![m] = s]
  /\ UNCHANGED running
Entered(m) == Moves(m, "entering", "live") /\ UNCHANGED << current, running >>

\* The finalize operation of the same state starts, and returns.
Leave(m) == Moves(m, "live", "leaving") /\ UNCHANGED << current, running >>
Left(m) ==
  /\ Moves(m, "leaving", "none")
  /\ current' = [current EXCEPT ![m] = Null]
  /\ UNCHANGED running

\* The execute operation starts, and returns.
Run(m) ==
  /\ phase[m] # "none" /\ m \notin running
  /\ running' = running \cup {m}
  /\ UNCHANGED << phase, current >>
Stop(m) == m \in running /\ running' = running \ {m} /\ UNCHANGED << phase, current >>

Next ==
  \E m \in Mgrs :
    \/ \E s \in States : Enter(m, s)
    \/ Entered(m) \/ Leave(m) \/ Left(m) \/ Run(m) \/ Stop(m)

Spec == Init /\ [][Next]_vars
=============================================================================
