------------------------------ MODULE TaskManager ------------------------------
(***************************************************************************)
(* The in-memory TaskManager (src/parika/core/task_manager/                *)
(* task_manager.py).  Every operation is one critical section of its lock, *)
(* but execute(), which releases it while the capability runs and takes it *)
(* again to write the end.                                                 *)
(***************************************************************************)
EXTENDS Naturals

CONSTANT Task   \* the tasks that are ever created

VARIABLES
  tasks,    \* the registered tasks
  status,   \* per task, its status, "none" until it is created
  inflight  \* per task, the calls of execute() that run its capability

taskvars == <<tasks, status, inflight>>

Ended == {"completed", "failed", "cancelled"}

TaskInit ==
  /\ tasks = {}
  /\ status = [t \in Task |-> "none"]
  /\ inflight = [t \in Task |-> 0]

create(t) ==
  /\ status[t] = "none"
  /\ tasks' = tasks \cup {t}
  /\ status' = [status EXCEPT ![t] = "pending"]
  /\ UNCHANGED inflight

(* _guard_startable: a FAILED task may be executed again. *)
Startable(t) == status[t] \notin {"running", "completed", "cancelled", "paused"}

(* execute(), first critical section.  retry() ends with a call of it. *)
Start(t) ==
  /\ t \in tasks
  /\ Startable(t)
  /\ status' = [status EXCEPT ![t] = "running"]
  /\ inflight' = [inflight EXCEPT ![t] = @ + 1]
  /\ UNCHANGED tasks

(* execute(), second critical section: _complete or _fail, whatever has *)
(* happened to the task since.                                          *)
End(t, s) ==
  /\ inflight[t] > 0
  /\ status' = [status EXCEPT ![t] = s]
  /\ inflight' = [inflight EXCEPT ![t] = @ - 1]
  /\ UNCHANGED tasks

(* Mutant: the response is stored, the status is not written. *)
Complete_NoStatus(t) == End(t, status[t])

Complete(t) == End(t, "completed")
Fail(t)     == End(t, "failed")

Move(t, from, to) ==
  /\ t \in tasks
  /\ status[t] \in from
  /\ status' = [status EXCEPT ![t] = to]
  /\ UNCHANGED <<tasks, inflight>>

(* retry(), its critical section. *)
Reset(t)  == Move(t, {"failed"}, "pending")
pause(t)  == Move(t, {"running"}, "paused")
resume(t) == Move(t, {"paused"}, "running")
cancel(t) == Move(t, {"pending", "running", "paused", "failed"}, "cancelled")

remove(t) ==
  /\ t \in tasks
  /\ tasks' = tasks \ {t}
  /\ UNCHANGED <<status, inflight>>

TaskNext ==
  \E t \in Task :
    \/ create(t) \/ Start(t) \/ Complete(t) \/ Fail(t)
    \/ Reset(t) \/ pause(t) \/ resume(t) \/ cancel(t) \/ remove(t)

TaskSpec == TaskInit /\ [][TaskNext]_taskvars
-----------------------------------------------------------------------------
TaskTypeOK ==
  /\ tasks \in SUBSET Task
  /\ status \in [Task -> {"none", "pending", "running", "paused"} \cup Ended]
  /\ inflight \in [Task -> Nat]

(* However execute, retry, pause, resume, cancel and remove interleave, the *)
(* capability of a task is never run twice at the same time.                *)
ExclusiveExecution == \A t \in Task : inflight[t] <= 1
=============================================================================
