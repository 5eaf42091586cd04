------------------------------- MODULE Contracts -------------------------------
(***************************************************************************)
(* The state machines of autonomous execution: the statuses of missions,   *)
(* tasks, workers, executions and checkpoints, and the transition tables   *)
(* that the managers consult before they write a row                       *)
(* (src/parika/core/autonomous/contracts.py).                              *)
(*                                                                         *)
(* A table only says what a manager may ask for.  Several writers do not   *)
(* consult it: the executor's claim, the creation of a task, a retry,      *)
(* startup recovery and the request thread that admits a mission.          *)
(***************************************************************************)

MissionStatus ==
  {"created", "planning", "running", "waiting", "paused", "blocked",
   "needs_approval", "failed", "cancelled", "completed"}

MissionEnded == {"failed", "cancelled", "completed"}

TaskStatus ==
  {"created", "scheduled", "running", "waiting_for_dependency",
   "waiting_for_resource", "waiting_for_approval", "ready", "paused", "blocked",
   "completed", "failed", "retrying", "cancelled", "recovering"}

TaskEnded == {"completed", "cancelled"}

WorkerStatus ==
  {"spawned", "starting", "running", "pausing", "paused", "resuming",
   "cancelling", "cancelled", "completing", "completed", "failing", "failed",
   "crashed", "recovering"}

ExecutionStatus ==
  {"created", "started", "running", "checkpointing", "completed", "failed",
   "cancelled", "timed_out"}

CheckpointStatus ==
  {"creating", "valid", "available", "restoring", "restored", "invalid",
   "invalidated"}

-----------------------------------------------------------------------------
(* Every status that is not final may be cancelled or may fail. *)
MissionSuccessors(from) ==
  LET abort == {"cancelled", "failed"}
  IN  CASE from = "created"  -> abort \cup {"planning"}
        [] from = "planning" -> abort \cup {"running"}
        [] from = "running"  -> abort \cup {"waiting", "paused", "blocked",
                                            "needs_approval", "completed"}
        [] from \in {"waiting", "paused", "blocked", "needs_approval"} ->
                                abort \cup {"running"}
        [] OTHER             -> {}

TaskSuccessors(from) ==
  LET abort == {"cancelled", "failed"}
      waits == {"waiting_for_dependency", "waiting_for_resource",
                "waiting_for_approval"}
  IN  CASE from = "created"   -> abort \cup {"scheduled"}
        [] from = "running"   -> abort \cup waits \cup
                                   {"paused", "blocked", "completed"}
        [] from \in waits     -> abort \cup {"ready"}
        [] from \in {"scheduled", "ready", "paused", "blocked", "retrying",
                     "recovering"} -> abort \cup {"running"}
        [] from = "failed"    -> {"retrying", "cancelled"}
        [] OTHER              -> {}

WorkerSuccessors(from) ==
  CASE from = "spawned"    -> {"starting", "cancelled", "failed"}
    [] from = "starting"   -> {"running", "failed", "cancelled"}
    [] from = "running"    -> {"pausing", "cancelling", "completing", "failing",
                               "crashed"}
    [] from = "pausing"    -> {"paused", "failed"}
    [] from = "paused"     -> {"resuming", "cancelling", "failed"}
    [] from = "resuming"   -> {"running", "failed"}
    [] from = "cancelling" -> {"cancelled", "failed"}
    [] from = "completing" -> {"completed", "failed"}
    [] from = "failing"    -> {"failed"}
    [] from = "crashed"    -> {"recovering", "failed"}
    [] from = "recovering" -> {"running", "failed"}
    [] OTHER               -> {}

CheckpointSuccessors(from) ==
  CASE from = "creating"  -> {"valid", "invalid"}
    [] from = "valid"     -> {"available", "invalid"}
    [] from = "available" -> {"restoring", "invalidated"}
    [] from = "restoring" -> {"restored", "invalid"}
    [] from = "restored"  -> {"invalidated"}
    [] OTHER              -> {}

validate_mission_transition(from, to) == to \in MissionSuccessors(from)
validate_task_transition(from, to) == to \in TaskSuccessors(from)
validate_worker_transition(from, to) == to \in WorkerSuccessors(from)
validate_checkpoint_transition(from, to) == to \in CheckpointSuccessors(from)
=============================================================================
