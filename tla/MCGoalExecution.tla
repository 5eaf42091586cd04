---------------------------- MODULE MCGoalExecution ----------------------------
(* Instances of GoalExecution for TLC. *)
EXTENDS GoalExecution

CONSTANTS g1, g2, g3, o1, s1, write, work, m1, m2

(* A chain and two other goals, and the synthesis of all. *)
Fork == {<<g3, g1>>, <<s1, g3>>, <<s1, g2>>, <<s1, o1>>}

(* Every tool asks for the same operation in the same workspace. *)
OneKey == [c \in Call |-> write]
OneWorkspace == [k \in Key |-> work]
Apart == [w \in Workspace |-> {w}]

(* The remembered model comes back first in the chain. *)
Models == <<m1, m2>>
=============================================================================
