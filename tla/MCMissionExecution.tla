-------------------------- MODULE MCMissionExecution --------------------------
(* Instances of MissionExecution for TLC. *)
EXTENDS MissionExecution, TLC

CONSTANTS t1, t2, t3, l1, l2

(* t2 depends on t1. *)
Chain == {<<t2, t1>>}

(* t2 and t3 depend on t1. *)
Fork == {<<t2, t1>>, <<t3, t1>>}

(* Loops are interchangeable; used only where no liveness is checked. *)
LoopSymmetry == Permutations(Loop)
=============================================================================
