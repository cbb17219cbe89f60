---------------------------- MODULE BaseLifecycle ----------------------------
(***************************************************************************)
(* What the process framework promises to game code, with no lists, flags, *)
(* deferrals or phases: the life of a base, and when its operations may    *)
(* run.  FBase implements this specification.                              *)
(***************************************************************************)
EXTENDS Integers, Sequences

CONSTANTS Bases, Null

VARIABLES
  stage,     \* where each base is in its life
  kin,       \* each base's parent, or Null
  calls      \* the operations in progress, innermost last: [base, op]

vars == << stage, kin, calls >>

Stages == {"unborn", "CREATING", "ACTIVE", "DELETING", "destroyed"}
Alive(b) == stage[b] \in {"CREATING", "ACTIVE", "DELETING"}
Childless(b) == \A c \in Bases : Alive(c) => kin[c] # b

Init ==
  /\ stage = [b \in Bases |-> "unborn"]
  /\ kin = [b \in Bases |-> Null]
  /\ calls = << >>

\* A base is born under a living parent that is not just being deleted, and
\* its first create operation runs at once, inside whatever is in progress.
Construct(b, p) ==
  /\ stage[b] = "unborn"
  /\ p # Null => Alive(p) /\ (calls # << >> => calls[1] # [base |-> p, op |-> "DELETE"])
  /\ stage' = [stage EXCEPT ![b] = "CREATING"]
  /\ kin' = [kin EXCEPT ![b] = p]
  /\ calls' = Append(calls, [base |-> b, op |-> "CREATE"])

\* The framework runs one operation at a time, each only in the stage it
\* belongs to, and a base's deletion only when it has no children left.
Call(b, op) ==
  /\ calls = << >>
  /\ \/ op = "CREATE" /\ stage[b] = "CREATING"
     \/ op \in {"EXECUTE", "DRAW"} /\ stage[b] = "ACTIVE"
     \/ op = "DELETE" /\ stage[b] = "DELETING" /\ Childless(b)
  /\ calls' = << [base |-> b, op |-> op] >>
  /\ UNCHANGED << stage, kin >>

\* The innermost operation returns; a create operation may make its base
\* active and a delete operation may destroy it.
Return ==
  LET c == calls[Len(calls)] IN
  /\ calls # << >>
  /\ calls' = SubSeq(calls, 1, Len(calls) - 1)
  /\ \/ UNCHANGED stage
     \/ c.op = "CREATE" /\ stage' = [stage EXCEPT ![c.base] = "ACTIVE"]
     \/ c.op = "DELETE" /\ stage' = [stage EXCEPT ![c.base] = "destroyed"]
  /\ UNCHANGED kin

\* Between operations only: a created base becomes active, and a base whose
\* deletion was requested leaves the execution cycle.
Settle(b) ==
  /\ calls = << >>
  /\ \/ stage[b] = "CREATING" /\ stage' = [stage EXCEPT ![b] = "ACTIVE"]
     \/ stage[b] \in {"CREATING", "ACTIVE"} /\ stage' = [stage EXCEPT ![b] = "DELETING"]
  /\ UNCHANGED << kin, calls >>

Next ==
  \/ \E b \in Bases, p \in Bases \cup {Null} : Construct(b, p)
  \/ \E b \in Bases, op \in {"CREATE", "EXECUTE", "DRAW", "DELETE"} : Call(b, op)
  \/ Return
  \/ \E b \in Bases : Settle(b)

Spec == Init /\ [][Next]_vars
=============================================================================
