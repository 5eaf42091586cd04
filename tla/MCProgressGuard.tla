----------------------------- MODULE MCProgressGuard -----------------------------
(* Instances of ProgressGuard for TLC. *)
EXTENDS ProgressGuard, TLC

CONSTANTS e1, e2, e3, coding, system, none

(* A process that has a console, and one that has none. *)
Consoles == {<<"console">>, <<>>}

Console == {<<"console">>}

(* Three executions, one of them of the tool that reports progress ... *)
Three == {[t \in Thread |-> IF t = e1 THEN coding ELSE system]}

(* ... or two, both of that tool. *)
Two == {[t \in Thread |-> IF t = u THEN none ELSE coding] : u \in Thread \ {e1}}

TwoOrThree == Two \cup Three

Executions == Permutations(Thread \ {e1})
=============================================================================
