---------------------------- MODULE MCCrashRecovery ----------------------------
(* Instances of CrashRecovery for TLC. *)
EXTENDS CrashRecovery

CONSTANTS t1, t2, l1

(* t2 depends on t1. *)
Chain == {<<t2, t1>>}
=============================================================================
