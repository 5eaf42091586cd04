------------------------------- MODULE GoalOrder -------------------------------
(***************************************************************************)
(* What Brain promises of the goals of one request, whatever the order in  *)
(* which tools and models answer: a goal runs once, and only after all it  *)
(* depends on has succeeded, or ended if the goal is a synthesis; a goal   *)
(* is left out only if something it depends on did not succeed; and what   *)
(* has ended stays as it is.                                               *)
(***************************************************************************)
CONSTANTS
  Goal,      \* the goals of the request
  DependsOn, \* pairs of a goal and one that it depends on
  Synthesis  \* the goals that run even after failures

VARIABLE
  state      \* per goal

deps(g) == {d \in Goal : <<g, d>> \in DependsOn}

Final == {"succeeded", "failed", "skipped"}

Init == state = [g \in Goal |-> "waiting"]

Leave(g, from, to) == state[g] = from /\ state' = [state EXCEPT ![g] = to]

Start(g) ==
  /\ \A d \in deps(g) : state[d] \in IF g \in Synthesis THEN Final ELSE {"succeeded"}
  /\ Leave(g, "waiting", "running")

Finish(g, s) == Leave(g, "running", s)

(* The inputs of the goal cannot be made from the results it depends on. *)
Refuse(g) ==
  /\ \A d \in deps(g) : state[d] = "succeeded"
  /\ Leave(g, "waiting", "failed")

Skip(g) ==
  /\ \E d \in deps(g) : state[d] \in {"failed", "skipped"}
  /\ Leave(g, "waiting", "skipped")

Next ==
  \E g \in Goal :
    \/ Start(g) \/ Refuse(g) \/ Skip(g)
    \/ \E s \in {"succeeded", "failed"} : Finish(g, s)

Spec == Init /\ [][Next]_state
=============================================================================
