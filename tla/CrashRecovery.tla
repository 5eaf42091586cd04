----------------------------- MODULE CrashRecovery -----------------------------
(***************************************************************************)
(* The mission of MissionExecution on a server that may crash between any  *)
(* two commits and that runs startup recovery before its executor           *)
(* (RecoveryCoordinator.recover, called by AutonomousRuntime.start; src/    *)
(* parika/core/autonomous/recovery_coordinator.py), with the checkpoints    *)
(* that recovery restarts from (CheckpointManager,                          *)
(* src/parika/core/autonomous/checkpoint_manager.py).                       *)
(*                                                                         *)
(* A crash keeps the rows and loses the rest: the request and the client   *)
(* are gone, the loops start over.  Recovery runs alone, but a crash can   *)
(* cut it short after any of its commits.                                  *)
(***************************************************************************)
EXTENDS MissionExecution, FiniteSets

CONSTANTS
  MaxCrashes,      \* bound: crashes of the server
  Checkpointed,    \* bound: the tasks that checkpoints are made of
  MaxCheckpoints   \* bound: checkpoints made of one of them

ASSUME RecoveryAssumption ==
  /\ MaxCrashes \in Nat
  /\ Checkpointed \subseteq Task
  /\ MaxCheckpoints \in Nat

VARIABLES
  recovery,    \* the next statement of recover(), "off" once the server is up
  unrecovered, \* the tasks of the mission that recover() has yet to look at
  restoring,   \* the task and the index of the checkpoint that it restores
  checkpoint,  \* per task, its checkpoints in the order of their creation
  creating,    \* the task that a checkpoint is being made of
  crashes      \* crashes so far

recovering == <<recovery, unrecovered, restoring>>
allvars    == <<vars, recovering, checkpoint, creating, crashes>>

RecoveryInit ==
  /\ Init
  /\ recovery = "off"
  /\ unrecovered = {}
  /\ restoring = <<>>
  /\ checkpoint = [t \in Task |-> <<>>]
  /\ creating = NoTask
  /\ crashes = 0
-----------------------------------------------------------------------------
(***************************************************************************)
(* The crash, and the start that follows it.                               *)
(***************************************************************************)
(* Mutant: the set of active tasks outlives the process. *)
Crash_KeepActive ==
  /\ crashes < MaxCrashes
  /\ mission # "none"
  /\ crashes' = crashes + 1
  /\ recovery' = "detect"
  /\ unrecovered' = {}
  /\ restoring' = <<>>
  /\ creating' = NoTask
  /\ pc' = [th \in Thread |-> IF th = "session" THEN "error" ELSE "idle"]
  /\ cur' = [th \in Thread |-> NoTask]
  /\ row' = [th \in Thread |-> NoRow]
  /\ todo' = [th \in Thread |-> {}]
  /\ step' = [l \in Loop |-> 0]
  /\ subscribed' = FALSE /\ signalled' = FALSE
  /\ UNCHANGED <<rows, active, outcome, calls, checkpoint>>

Crash ==
  /\ crashes < MaxCrashes
  /\ mission # "none"
  /\ crashes' = crashes + 1
  /\ recovery' = "detect"
  /\ unrecovered' = {}
  /\ restoring' = <<>>
  /\ creating' = NoTask
  /\ active' = {}
  /\ pc' = [th \in Thread |-> IF th = "session" THEN "error" ELSE "idle"]
  /\ cur' = [th \in Thread |-> NoTask]
  /\ row' = [th \in Thread |-> NoRow]
  /\ todo' = [th \in Thread |-> {}]
  /\ step' = [l \in Loop |-> 0]
  /\ subscribed' = FALSE /\ signalled' = FALSE
  /\ UNCHANGED <<rows, outcome, calls, checkpoint>>

(* The missions that list_active finds are those that have not ended.  A   *)
(* worker whose row is RUNNING has never had a heartbeat, so it counts as  *)
(* crashed; but the row that list_by_status returns has no to_model(), the *)
(* call raises before anything is written and recover() gives up.          *)
DetectCrashedWorkers ==
  LET running == {t \in Task : \E i \in 1 .. Len(attempt[t]) :
                                 attempt[t][i].worker = "running"}
  IN  /\ recovery = "detect"
      /\ recovery' = "tasks"
      /\ unrecovered' = IF running # {} \/ mission \in MissionEnded
                          THEN {} ELSE list_by_mission
      /\ UNCHANGED <<vars, restoring, checkpoint, creating, crashes>>

(* The executor starts when recover() returns, whatever it returns. *)
StartExecutor ==
  /\ recovery = "tasks"
  /\ unrecovered = {}
  /\ recovery' = "off"
  /\ UNCHANGED <<vars, unrecovered, restoring, checkpoint, creating, crashes>>
-----------------------------------------------------------------------------
(***************************************************************************)
(* RecoveryCoordinator._recover_mission, one task after the other.         *)
(***************************************************************************)
Available(t) == {i \in 1 .. Len(checkpoint[t]) : checkpoint[t][i].status = "available"}

(* The AVAILABLE checkpoint with the highest version. *)
get_latest_for_task(t) ==
  CHOOSE i \in Available(t) :
    \A j \in Available(t) : checkpoint[t][j].version <= checkpoint[t][i].version

HasActiveWorker(t) ==
  \E i \in 1 .. Len(attempt[t]) :
    attempt[t][i].worker \in {"running", "starting", "paused"}

(* recover() writes a row from the copy it has read of it. *)
RecoverTo(t, r, status) ==
  /\ recovery = "tasks"
  /\ t \in unrecovered
  /\ unrecovered' = unrecovered \ {t}
  /\ Become(t, r, status)
  /\ UNCHANGED <<mission, dep, attempt, active, control, waiter, calls, recovery,
                 restoring, checkpoint, creating, crashes>>

(* A FAILED task with retries left becomes RETRYING; the retry was counted *)
(* when the task failed.                                                   *)
RecoverFailed(t) ==
  /\ task[t].status = "failed"
  /\ task[t].retries < MaxRetries
  /\ RecoverTo(t, task[t], "retrying")

(* Mutant: a task whose worker is gone is simply executed again. *)
RecoverRunning_Ready(t) ==
  /\ task[t].status = "running"
  /\ ~HasActiveWorker(t)
  /\ Available(t) = {}
  /\ RecoverTo(t, task[t], "ready")

(* Mutant: a COMPLETED task is not skipped. *)
RecoverRunning_Ended(t) ==
  /\ task[t].status \in {"running", "completed"}
  /\ ~HasActiveWorker(t)
  /\ Available(t) = {}
  /\ IF task[t].retries < MaxRetries
       THEN RecoverTo(t, [task[t] EXCEPT !.retries = @ + 1], "retrying")
       ELSE RecoverTo(t, task[t], "failed")

(* A RUNNING task without an active worker and without a checkpoint uses   *)
(* one of its retries, or fails.                                           *)
RecoverRunning(t) ==
  /\ task[t].status = "running"
  /\ ~HasActiveWorker(t)
  /\ Available(t) = {}
  /\ IF task[t].retries < MaxRetries
       THEN RecoverTo(t, [task[t] EXCEPT !.retries = @ + 1], "retrying")
       ELSE RecoverTo(t, task[t], "failed")

(* Mutant: the index after that of the latest checkpoint. *)
RestartFromCheckpoint_Next(t) ==
  /\ recovery = "tasks"
  /\ t \in unrecovered
  /\ task[t].status = "running"
  /\ ~HasActiveWorker(t)
  /\ Available(t) # {}
  /\ Become(t, task[t], "recovering")
  /\ recovery' = "restore"
  /\ restoring' = <<t, get_latest_for_task(t) + 1>>
  /\ unrecovered' = unrecovered \ {t}
  /\ UNCHANGED <<mission, dep, attempt, active, control, waiter, calls, checkpoint,
                 creating, crashes>>

(* With a checkpoint it is RECOVERING while the checkpoint is restored and *)
(* READY then.                                                             *)
RestartFromCheckpoint(t) ==
  /\ recovery = "tasks"
  /\ t \in unrecovered
  /\ task[t].status = "running"
  /\ ~HasActiveWorker(t)
  /\ Available(t) # {}
  /\ Become(t, task[t], "recovering")
  /\ recovery' = "restore"
  /\ restoring' = <<t, get_latest_for_task(t)>>
  /\ unrecovered' = unrecovered \ {t}
  /\ UNCHANGED <<mission, dep, attempt, active, control, waiter, calls, checkpoint,
                 creating, crashes>>

SetCheckpoint(t, i, status) ==
  checkpoint' = [checkpoint EXCEPT ![t][i].status = status]

(* CheckpointManager.restore. *)
Restore ==
  /\ \/ /\ recovery = "restore"
        /\ SetCheckpoint(restoring[1], restoring[2], "restoring")
        /\ recovery' = "restored"
     \/ /\ recovery = "restored"
        /\ SetCheckpoint(restoring[1], restoring[2], "restored")
        /\ recovery' = "ready"
  /\ UNCHANGED <<vars, unrecovered, restoring, creating, crashes>>

(* Mutant: a task that starts over from a checkpoint uses a retry, too. *)
RestoredReady_Count ==
  LET r == task[restoring[1]]
  IN  /\ recovery = "ready"
      /\ Become(restoring[1],
                [r EXCEPT !.retries = IF @ < MaxRetries THEN @ + 1 ELSE @], "ready")
      /\ recovery' = "tasks"
      /\ restoring' = <<>>
      /\ UNCHANGED <<mission, dep, attempt, active, control, waiter, calls, unrecovered,
                     checkpoint, creating, crashes>>

RestoredReady ==
  /\ recovery = "ready"
  /\ Become(restoring[1], task[restoring[1]], "ready")
  /\ recovery' = "tasks"
  /\ restoring' = <<>>
  /\ UNCHANGED <<mission, dep, attempt, active, control, waiter, calls, unrecovered,
                 checkpoint, creating, crashes>>

(* Mutant: whatever a task waits for, it starts over READY. *)
RecoverWaiting_Unchecked(t) ==
  /\ task[t].status = "waiting_for_dependency"
  /\ RecoverTo(t, task[t], "ready")

(* A WAITING_FOR_DEPENDENCY task without unsatisfied dependency rows, which *)
(* here means without any, becomes READY: a crash has cut its creation     *)
(* short, or it is a goal whose dependency row was refused.                *)
RecoverWaiting(t) ==
  /\ task[t].status = "waiting_for_dependency"
  /\ are_all_dependencies_satisfied(t)
  /\ RecoverTo(t, task[t], "ready")

(* Every other task is left as it is: COMPLETED and CANCELLED ones, FAILED *)
(* ones without retries, those that wait or are PAUSED, and also CREATED,  *)
(* SCHEDULED, READY, RETRYING and RECOVERING ones.                         *)
LeaveTask(t) ==
  /\ recovery = "tasks"
  /\ t \in unrecovered
  /\ ~ \/ task[t].status = "failed" /\ task[t].retries < MaxRetries
       \/ task[t].status = "running" /\ ~HasActiveWorker(t)
       \/ task[t].status = "waiting_for_dependency" /\ are_all_dependencies_satisfied(t)
  /\ unrecovered' = unrecovered \ {t}
  /\ UNCHANGED <<vars, recovery, restoring, checkpoint, creating, crashes>>
-----------------------------------------------------------------------------
(***************************************************************************)
(* A caller that makes checkpoints of a task at work (CheckpointManager    *)
(* has no caller in the source).                                           *)
(***************************************************************************)

(* Mutant: the new checkpoint takes the version of the latest one. *)
NextVersion_Same(t) ==
  IF Available(t) = {} THEN 1 ELSE checkpoint[t][get_latest_for_task(t)].version

NextVersion(t) ==
  IF Available(t) = {} THEN 1 ELSE checkpoint[t][get_latest_for_task(t)].version + 1

CreateCheckpoint(t) ==
  /\ recovery = "off"
  /\ t \in Checkpointed
  /\ creating = NoTask
  /\ WorkedOn(t)
  /\ attempt[t] # <<>>
  /\ Len(checkpoint[t]) < MaxCheckpoints
  /\ checkpoint' = [checkpoint EXCEPT ![t] =
                      Append(@, [version |-> NextVersion(t), status |-> "creating"])]
  /\ creating' = t
  /\ UNCHANGED <<vars, recovering, crashes>>

(* _validate_checkpoint: CREATING, VALID, AVAILABLE. *)
ValidateCheckpoint ==
  LET n == Len(checkpoint[creating])
  IN  /\ creating # NoTask
      /\ \/ /\ checkpoint[creating][n].status = "creating"
            /\ SetCheckpoint(creating, n, "valid")
            /\ UNCHANGED creating
         \/ /\ checkpoint[creating][n].status = "valid"
            /\ SetCheckpoint(creating, n, "available")
            /\ creating' = NoTask
      /\ UNCHANGED <<vars, recovering, crashes>>

invalidate_old_checkpoints(t, keep_version) ==
  LET old == {i \in Available(t) : checkpoint[t][i].version < keep_version}
  IN  /\ recovery = "off"
      /\ creating = NoTask
      /\ old # {}
      /\ checkpoint' = [checkpoint EXCEPT ![t] =
                          [i \in 1 .. Len(@) |->
                             IF i \in old THEN [@[i] EXCEPT !.status = "invalidated"]
                                          ELSE @[i]]]
      /\ UNCHANGED <<vars, recovering, creating, crashes>>
-----------------------------------------------------------------------------
(* While the server is up it does what MissionExecution says. *)
ServerUp ==
  /\ recovery = "off"
  /\ UNCHANGED <<recovering, checkpoint, creating, crashes>>

RecoveryStep ==
  \/ DetectCrashedWorkers
  \/ \E t \in Task : RecoverFailed(t)
  \/ \E t \in Task : RecoverRunning(t)
  \/ \E t \in Task : RestartFromCheckpoint(t)
  \/ Restore
  \/ RestoredReady
  \/ \E t \in Task : RecoverWaiting(t)
  \/ \E t \in Task : LeaveTask(t)
  \/ StartExecutor

CheckpointStep ==
  \/ \E t \in Task : CreateCheckpoint(t)
  \/ ValidateCheckpoint
  \/ \E t \in Task, v \in 1 .. MaxCheckpoints : invalidate_old_checkpoints(t, v)

RecoveryNext ==
  \/ ServerUp /\ Next
  \/ Crash
  \/ RecoveryStep
  \/ CheckpointStep

RecoverySpec == RecoveryInit /\ [][RecoveryNext]_allvars

(* As in MissionExecution; recovery, which has no other thread to wait     *)
(* for, takes its next step.                                               *)
RecoveryFairSpec ==
  /\ RecoverySpec
  /\ WF_allvars(ServerUp /\ SessionStep)
  /\ \A l \in Loop : WF_allvars(ServerUp /\ LoopStep(l))
  /\ WF_allvars(RecoveryStep)
-----------------------------------------------------------------------------
(***************************************************************************)
(* Properties.                                                             *)
(***************************************************************************)
CheckpointRow == [version : 1 .. MaxCheckpoints, status : CheckpointStatus]

(* The state has its types; in particular no restart takes retry_count     *)
(* past max_retries.                                                       *)
RecoveryTypeOK ==
  /\ TypeOK
  /\ recovery \in {"off", "detect", "tasks", "restore", "restored", "ready"}
  /\ unrecovered \subseteq Task
  /\ restoring = <<>> \/ restoring \in Task \X (1 .. MaxCheckpoints)
  /\ \A t \in Task : /\ Len(checkpoint[t]) <= MaxCheckpoints
                     /\ \A i \in 1 .. Len(checkpoint[t]) :
                          checkpoint[t][i] \in CheckpointRow
  /\ creating \in Task \cup {NoTask}
  /\ crashes \in 0 .. MaxCrashes

(* What has been done is not done again: across crashes and restarts the   *)
(* row of a COMPLETED task does not change and it is not executed again.   *)
(* Like the two that follow, of a task without dependencies: the second    *)
(* pass of the admission may overwrite the row of another one.             *)
CompletedSurvivesCrash ==
  [][\A t \in Task : Independent(t) /\ task[t].status = "completed" =>
       task'[t] = task[t] /\ attempt'[t] = attempt[t]]_allvars

(* An execution that a crash may have interrupted is repeated only from a  *)
(* checkpoint: without a retry by a client a task has one execution more   *)
(* than checkpoints that were restored for it.                             *)
RepeatedFromCheckpoint ==
  \A t \in Task :
    Independent(t) =>
      Len(attempt[t]) <= 1 + Cardinality({i \in 1 .. Len(checkpoint[t]) :
                                            checkpoint[t][i].status = "restored"})

(* Of two AVAILABLE checkpoints of a task the one made later has the       *)
(* higher version, so that recovery restarts from the newest, although the *)
(* numbering starts over when none is left AVAILABLE.                      *)
NewestIsLatest ==
  \A t \in Task : \A i, j \in Available(t) :
    i < j => checkpoint[t][i].version < checkpoint[t][j].version

(* Every crash uses up at most one retry of a task, and so does every      *)
(* execution that fails: a task never loses retries for nothing.  In       *)
(* particular the recovery of a FAILED task, whose failure has been        *)
(* counted, counts nothing (RecoveredFailureCounted says the contrary).    *)
CrashCostsOneRetry ==
  [][\A t \in Task :
       Independent(t) /\ task'[t].retries # task[t].retries =>
         /\ task'[t].retries = task[t].retries + 1
         /\ task[t].status = "running"]_allvars

(* A task that create() made to depend on others is neither offered nor    *)
(* executed while one of its dependency rows waits, wherever a crash cuts  *)
(* its creation short and recovery goes over it.                           *)
RecordedDependencyHolds ==
  \A e \in DependsOn :
    dep[e] = "waiting" => task[e[1]].status # "ready" /\ attempt[e[1]] = <<>>

(* A READY task that a crash finds waiting for a loop is claimed after the *)
(* restart.                                                                *)
ReadySurvivesCrash ==
  \A t \in Task : task[t].status = "ready" ~> task[t].status # "ready"

(* Recovery that makes a FAILED task RETRYING counts a retry               *)
(* (tests/core/autonomous/test_recovery.py,                                *)
(* test_recover_failed_task_with_retries: a task FAILED with retry_count 1 *)
(* has "assert updated_task["task"].retry_count == 2").                    *)
RecoveredFailureCounted ==
  [][\A t \in Task :
       recovery = "tasks" /\ task[t].status = "failed" /\ task'[t].status = "retrying"
         => task'[t].retries = task[t].retries + 1]_allvars

(* A task that was RUNNING when the server crashed, and of which there is  *)
(* an AVAILABLE checkpoint, does not stay RUNNING                          *)
(* (tests/core/autonomous/test_recovery.py,                                *)
(* test_recover_running_task_with_checkpoint: its status becomes "ready"). *)
RunningTaskRecovered ==
  \A t \in Task :
    (/\ recovery = "detect" /\ mission = "running"
     /\ task[t].status = "running" /\ Available(t) # {})
      ~> task[t].status # "running"
=============================================================================
