--------------------------- MODULE MissionExecution ---------------------------
(***************************************************************************)
(* One mission of the autonomous runtime, from the request that admits it  *)
(* to the event that ends it.                                              *)
(*                                                                         *)
(* Three kinds of threads of one server process share the database:        *)
(*                                                                         *)
(*  - "session": the chat request that creates the mission and its tasks,  *)
(*    makes dependents wait, starts the mission and waits for it           *)
(*    (ChatSession._submit_autonomous, src/parika/interfaces/session.py);  *)
(*  - the executor loops, each of which claims a READY task and drives it  *)
(*    to its end (AutonomousExecutor, src/parika/core/autonomous/          *)
(*    executor.py); the code runs one, and a second when stop() gives up   *)
(*    waiting for a loop that start() then runs beside;                    *)
(*  - "client": a caller of the managers' public operations (create with   *)
(*    dependencies, cancel, pause, resume, start, schedule, retry).        *)
(*                                                                         *)
(* Each repository call is one committed transaction, and one action here. *)
(* A manager's operation is a read, a validation of what was read and a    *)
(* write of the whole row, so it takes two actions, with every other       *)
(* thread's actions between them.                                          *)
(***************************************************************************)
EXTENDS Contracts, Naturals, Sequences

CONSTANTS
  Task,             \* the mission's tasks
  Added,            \* those that the client adds to it; the others are the
                    \* goals of the request
  DependsOn,        \* pairs <<t, d>>: t lists d in its depends_on
  MultiStep,        \* the tasks whose metadata holds an execution plan
  Steps,            \* the number of steps of such a plan
  Loop,             \* the executor loops that are alive
  MaxRetries,       \* max_retries of every task
  ClientTaskOp,     \* the statuses the client asks the task manager for
  ClientMissionOp,  \* the statuses the client asks the mission manager for
  MaxCalls,         \* bound: calls the client makes
  NoTask            \* no task

Thread == Loop \cup {"session", "client"}

ASSUME ConstantsAssumption ==
  /\ DependsOn \subseteq Task \X Task
  /\ \A t \in Task : <<t, t>> \notin DependsOn
  /\ Added \subseteq Task
  /\ \A t \in Added : \E e \in DependsOn : e[1] = t
  /\ \A e \in DependsOn : e[1] \notin Added => e[2] \notin Added
  /\ MultiStep \subseteq Task
  /\ Steps \in Nat \ {0}
  /\ MaxRetries \in Nat
  /\ MaxCalls \in Nat
  /\ ClientTaskOp \subseteq {"scheduled", "running", "paused", "cancelled",
                             "retrying"}
  /\ ClientMissionOp \subseteq {"running", "paused", "cancelled"}
  /\ NoTask \notin Task
  /\ "session" \notin Loop /\ "client" \notin Loop

VARIABLES
  mission,     \* status of the mission's row, "none" before it is created
  task,        \* the task rows: status and retry_count
  dep,         \* status of the task_dependency row of each pair, or "none"
  attempt,     \* per task, its executions in order, each with its worker
  active,      \* AutonomousExecutor._active_tasks
  pc,          \* the next statement of each thread
  cur,         \* the task a thread is working on
  row,         \* the task row a thread has read
  todo,        \* the tasks a thread has yet to visit in the list it iterates
  step,        \* steps of the execution plan a loop has done
  subscribed,  \* wait_for_completion has subscribed to the mission's events
  signalled,   \* its completion_event is set
  outcome,     \* the mission status the request ends with
  calls        \* calls the client has made

rows    == <<mission, task, dep, attempt>>
control == <<pc, cur, row, todo, step>>
waiter  == <<subscribed, signalled, outcome>>
vars    == <<rows, active, control, waiter, calls>>

NoRow == [status |-> "none", retries |-> 0]

Goal == Task \ Added

Independent(t) == \A e \in DependsOn : e[1] # t
-----------------------------------------------------------------------------
(* What a thread does to its own control state. *)

Goto(th, label) == pc' = [pc EXCEPT ![th] = label]

At(th, label) == pc[th] = label

Become(t, r, status) == task' = [task EXCEPT ![t] = [r EXCEPT !.status = status]]

(* Every task but those whose creation has not begun is in the mission's   *)
(* list.                                                                   *)
list_by_mission == {t \in Task : task[t].status # "none"}

(* get(), then validate_task_transition on what was read. *)
ReadTask(th, t, to, ok, refused) ==
  /\ row' = [row EXCEPT ![th] = task[t]]
  /\ IF validate_task_transition(task[t].status, to)
       THEN Goto(th, ok) ELSE Goto(th, refused)

ReadMission(th, to, ok, refused) ==
  IF validate_mission_transition(mission, to)
    THEN Goto(th, ok) ELSE Goto(th, refused)
-----------------------------------------------------------------------------
Init ==
  /\ mission = "none"
  /\ task = [t \in Task |-> NoRow]
  /\ dep = [e \in DependsOn |-> "none"]
  /\ attempt = [t \in Task |-> <<>>]
  /\ active = {}
  /\ pc = [th \in Thread |-> IF th = "session" THEN "create" ELSE "idle"]
  /\ cur = [th \in Thread |-> NoTask]
  /\ row = [th \in Thread |-> NoRow]
  /\ todo = [th \in Thread |-> {}]
  /\ step = [l \in Loop |-> 0]
  /\ subscribed = FALSE /\ signalled = FALSE /\ outcome = "none"
  /\ calls = 0
-----------------------------------------------------------------------------
(***************************************************************************)
(* The request thread: admission.                                          *)
(***************************************************************************)

(* MissionManager.create. *)
CreateMission ==
  /\ At("session", "create")
  /\ mission' = "created"
  /\ Goto("session", "tasks")
  /\ UNCHANGED <<task, dep, attempt, active, cur, row, todo, step, waiter, calls>>

(* First pass.  The goals come in any order, and every task is created     *)
(* without dependencies: AutonomousTaskManager.create commits the row      *)
(* CREATED, then SCHEDULED, then READY, from its own object.               *)
CreateTask(t) ==
  /\ At("session", "tasks")
  /\ t \in Goal
  /\ task[t].status = "none"
  /\ Become(t, NoRow, "created")
  /\ cur' = [cur EXCEPT !["session"] = t]
  /\ Goto("session", "schedule")
  /\ UNCHANGED <<mission, dep, attempt, active, row, todo, step, waiter, calls>>

(* Mutant: the row is READY one commit too early. *)
ScheduleCreated_Ready ==
  /\ At("session", "schedule")
  /\ Become(cur["session"], NoRow, "ready")
  /\ Goto("session", "ready")
  /\ UNCHANGED <<mission, dep, attempt, active, cur, row, todo, step, waiter, calls>>

ScheduleCreated ==
  /\ At("session", "schedule")
  /\ Become(cur["session"], NoRow, "scheduled")
  /\ Goto("session", "ready")
  /\ UNCHANGED <<mission, dep, attempt, active, cur, row, todo, step, waiter, calls>>

ReadyCreated ==
  /\ At("session", "ready")
  /\ Become(cur["session"], NoRow, "ready")
  /\ Goto("session", "tasks")
  /\ UNCHANGED <<mission, dep, attempt, active, cur, row, todo, step, waiter, calls>>

FirstPassDone ==
  /\ At("session", "tasks")
  /\ Goal \subseteq list_by_mission
  /\ todo' = [todo EXCEPT !["session"] = {t \in Goal : ~Independent(t)}]
  /\ Goto("session", "dependencies")
  /\ UNCHANGED <<rows, active, cur, row, step, waiter, calls>>

(* Second pass: a task with dependencies is read and overwritten with      *)
(* status WAITING_FOR_DEPENDENCY (AutonomousTaskManager.update validates   *)
(* nothing).  The insert of its first dependency row then raises: the id   *)
(* "dep_<task>_<task>" that the request makes of two ids of 32 characters  *)
(* does not fit its column of 64, so that the admission of a request whose *)
(* goals depend on each other ends here, in the except branch.             *)
SecondPassRead(t) ==
  /\ At("session", "dependencies")
  /\ t \in todo["session"]
  /\ cur' = [cur EXCEPT !["session"] = t]
  /\ row' = [row EXCEPT !["session"] = task[t]]
  /\ Goto("session", "wait_for_dependency")
  /\ UNCHANGED <<rows, active, todo, step, waiter, calls>>

SecondPassWrite ==
  /\ At("session", "wait_for_dependency")
  /\ Become(cur["session"], row["session"], "waiting_for_dependency")
  /\ Goto("session", "error")
  /\ UNCHANGED <<mission, dep, attempt, active, cur, row, todo, step, waiter, calls>>

(* MissionManager.plan and start.  A refusal raises, which ends the        *)
(* request and leaves the mission and its tasks as they are.               *)
PlanRead ==
  /\ At("session", "dependencies")
  /\ todo["session"] = {}
  /\ ReadMission("session", "planning", "plan", "error")
  /\ UNCHANGED <<rows, active, cur, row, todo, step, waiter, calls>>

PlanWrite ==
  /\ At("session", "plan")
  /\ mission' = "planning"
  /\ Goto("session", "start_read")
  /\ UNCHANGED <<task, dep, attempt, active, cur, row, todo, step, waiter, calls>>

StartRead ==
  /\ At("session", "start_read")
  /\ ReadMission("session", "running", "start", "error")
  /\ UNCHANGED <<rows, active, cur, row, todo, step, waiter, calls>>

StartWrite ==
  /\ At("session", "start")
  /\ mission' = "running"
  /\ Goto("session", "wait")
  /\ UNCHANGED <<task, dep, attempt, active, cur, row, todo, step, waiter, calls>>

(* A repository call of the admission may raise: the except branch only    *)
(* answers the user.                                                       *)
AdmissionFails ==
  /\ pc["session"] \in {"tasks", "schedule", "ready", "dependencies",
                        "wait_for_dependency", "plan", "start_read", "start"}
  /\ Goto("session", "error")
  /\ UNCHANGED <<rows, active, cur, row, todo, step, waiter, calls>>
-----------------------------------------------------------------------------
(* Mutant: an event is taken for a completion and the row not read again. *)
Report_TrustEvent ==
  /\ outcome' = IF signalled THEN "completed" ELSE mission
  /\ subscribed' = FALSE
  /\ UNCHANGED signalled
  /\ Goto("session", "done")

(***************************************************************************)
(* The request thread: MissionManager.wait_for_completion reads the row,   *)
(* subscribes, reads it again and then waits for the event.                *)
(***************************************************************************)
Report ==
  /\ outcome' = mission
  /\ subscribed' = FALSE
  /\ UNCHANGED signalled
  /\ Goto("session", "done")

WaitRead ==
  /\ At("session", "wait")
  /\ IF mission \in MissionEnded
       THEN Report
       ELSE Goto("session", "subscribe") /\ UNCHANGED waiter
  /\ UNCHANGED <<rows, active, cur, row, todo, step, calls>>

Subscribe ==
  /\ At("session", "subscribe")
  /\ subscribed' = TRUE
  /\ Goto("session", "recheck")
  /\ UNCHANGED <<rows, active, cur, row, todo, step, signalled, outcome, calls>>

(* Mutant: the row is not read again after the subscription. *)
Recheck_Skipped ==
  /\ At("session", "recheck")
  /\ Goto("session", "waiting")
  /\ UNCHANGED <<rows, active, cur, row, todo, step, waiter, calls>>

Recheck ==
  /\ At("session", "recheck")
  /\ IF mission \in MissionEnded
       THEN Report
       ELSE Goto("session", "waiting") /\ UNCHANGED waiter
  /\ UNCHANGED <<rows, active, cur, row, todo, step, calls>>

Woken ==
  /\ At("session", "waiting")
  /\ signalled
  /\ Goto("session", "answer")
  /\ UNCHANGED <<rows, active, cur, row, todo, step, waiter, calls>>

WaitTimeout ==
  /\ At("session", "waiting")
  /\ ~signalled
  /\ Goto("session", "answer")
  /\ UNCHANGED <<rows, active, cur, row, todo, step, waiter, calls>>

Answer ==
  /\ At("session", "answer")
  /\ Report
  /\ UNCHANGED <<rows, active, cur, row, todo, step, calls>>
-----------------------------------------------------------------------------
(***************************************************************************)
(* An executor loop: claim.                                                *)
(***************************************************************************)

(* _claim_next_task lists the READY rows and passes over its own active    *)
(* tasks; the rows come back in no stated order.                           *)
SelectTask(l, t) ==
  /\ At(l, "idle")
  /\ task[t].status = "ready"
  /\ t \notin active
  /\ cur' = [cur EXCEPT ![l] = t]
  /\ Goto(l, "claim")
  /\ UNCHANGED <<rows, active, row, todo, step, waiter, calls>>

(* Mutant: the UPDATE has no condition on the status. *)
ClaimTask_Unconditional(l) ==
  /\ At(l, "claim")
  /\ Become(cur[l], task[cur[l]], "running")
  /\ Goto(l, "register")
  /\ UNCHANGED <<mission, dep, attempt, active, cur, row, todo, step, waiter, calls>>

(* Mutant: the task is taken by a SELECT, and its row left READY. *)
ClaimTask_SelectOnly(l) ==
  LET t == cur[l]
  IN  /\ At(l, "claim")
      /\ IF task[t].status = "ready"
           THEN Goto(l, "register") /\ UNCHANGED cur
           ELSE /\ cur' = [cur EXCEPT ![l] = NoTask]
                /\ Goto(l, "idle")
      /\ UNCHANGED <<rows, active, row, todo, step, waiter, calls>>

(* claim_ready_task: one conditional UPDATE, which returns no row when the *)
(* task is no longer READY.                                                *)
ClaimTask(l) ==
  LET t == cur[l]
  IN  /\ At(l, "claim")
      /\ IF task[t].status = "ready"
           THEN /\ Become(t, task[t], "running")
                /\ Goto(l, "register")
                /\ UNCHANGED cur
           ELSE /\ cur' = [cur EXCEPT ![l] = NoTask]
                /\ Goto(l, "idle")
                /\ UNCHANGED task
      /\ UNCHANGED <<mission, dep, attempt, active, row, todo, step, waiter, calls>>

RegisterActive(l) ==
  /\ At(l, "register")
  /\ active' = active \cup {cur[l]}
  /\ step' = [step EXCEPT ![l] = 0]
  /\ Goto(l, IF cur[l] \in MultiStep THEN "step" ELSE "prepare")
  /\ UNCHANGED <<rows, cur, row, todo, waiter, calls>>

(* Mutant: the id stays in the set of active tasks. *)
DiscardActive_Leak(l) ==
  /\ At(l, "discard")
  /\ cur' = [cur EXCEPT ![l] = NoTask]
  /\ row' = [row EXCEPT ![l] = NoRow]
  /\ Goto(l, "idle")
  /\ UNCHANGED <<rows, active, todo, step, waiter, calls>>

(* The finally of _execute_task_async. *)
DiscardActive(l) ==
  /\ At(l, "discard")
  /\ active' = active \ {cur[l]}
  /\ cur' = [cur EXCEPT ![l] = NoTask]
  /\ row' = [row EXCEPT ![l] = NoRow]
  /\ Goto(l, "idle")
  /\ UNCHANGED <<rows, todo, step, waiter, calls>>
-----------------------------------------------------------------------------
(***************************************************************************)
(* An executor loop: a single capability, run by a worker.                 *)
(***************************************************************************)

(* Mutant: a refusal returns without failing the task. *)
Prepare_Return(l) ==
  /\ At(l, "prepare")
  /\ \/ Goto(l, "spawn_execution")
     \/ Goto(l, "discard")
  /\ UNCHANGED <<rows, active, cur, row, todo, step, waiter, calls>>

(* Authorization, budget, skill, implementation, strategy and environment: *)
(* all may refuse (_fail_task) or raise (the except of                     *)
(* _execute_task_async), and either only fails the task.                   *)
Prepare(l) ==
  /\ At(l, "prepare")
  /\ \/ Goto(l, "spawn_execution")
     \/ Goto(l, "fail_only_read")
  /\ UNCHANGED <<rows, active, cur, row, todo, step, waiter, calls>>

(* WorkerManager.spawn: the execution row, then the worker row, then the   *)
(* execution's worker_id, which nothing reads and the model leaves out.    *)
SpawnExecution(l) ==
  /\ At(l, "spawn_execution")
  /\ attempt' = [attempt EXCEPT ![cur[l]] =
                   Append(@, [execution |-> "created", worker |-> "none"])]
  /\ Goto(l, "spawn_worker")
  /\ UNCHANGED <<mission, task, dep, active, cur, row, todo, step, waiter, calls>>

Attempt(t) == attempt[t][Len(attempt[t])]

SetAttempt(t, field, status) ==
  attempt' = [attempt EXCEPT ![t][Len(attempt[t])][field] = status]

(* One committed update of the worker's row or of its execution's row. *)
WorkerUpdate(l, at, field, status, next) ==
  /\ At(l, at)
  /\ SetAttempt(cur[l], field, status)
  /\ Goto(l, next)
  /\ UNCHANGED <<mission, task, dep, active, cur, row, todo, step, waiter, calls>>

(* WorkerManager reads the worker and returns None, changing nothing, when *)
(* the table forbids the transition.                                       *)
WorkerValidated(l, at, status, next, refused) ==
  /\ At(l, at)
  /\ IF validate_worker_transition(Attempt(cur[l]).worker, status)
       THEN WorkerUpdate(l, at, "worker", status, next)
       ELSE /\ Goto(l, refused)
            /\ UNCHANGED <<rows, active, cur, row, todo, step, waiter, calls>>

SpawnWorker(l) == WorkerUpdate(l, "spawn_worker", "worker", "spawned", "starting")

(* WorkerManager.start. *)
WorkerStart(l) ==
  \/ WorkerValidated(l, "starting", "starting", "started", "dispatch")
  \/ WorkerUpdate(l, "started", "worker", "running", "execution_running")
  \/ WorkerUpdate(l, "execution_running", "execution", "running", "dispatch")

(* Mutant: a failure does not fail the worker. *)
Dispatch_KeepWorker(l) ==
  /\ At(l, "dispatch")
  /\ \/ Goto(l, "completing")
     \/ Goto(l, "fallback")
  /\ UNCHANGED <<rows, active, cur, row, todo, step, waiter, calls>>

(* The backend answers: success, or a failure or an exception. *)
Dispatch(l) ==
  /\ At(l, "dispatch")
  /\ \/ Goto(l, "completing")
     \/ Goto(l, "failing")
  /\ UNCHANGED <<rows, active, cur, row, todo, step, waiter, calls>>

(* WorkerManager.complete, then the task. *)
WorkerComplete(l) ==
  \/ WorkerValidated(l, "completing", "completing", "completed", "complete_read")
  \/ WorkerUpdate(l, "completed", "worker", "completed", "execution_completed")
  \/ WorkerUpdate(l, "execution_completed", "execution", "completed",
                  "complete_read")

(* WorkerManager.fail, then _handle_task_failure. *)
WorkerFail(l) ==
  \/ WorkerValidated(l, "failing", "failing", "failed", "fallback")
  \/ WorkerUpdate(l, "failed", "worker", "failed", "execution_failed")
  \/ WorkerUpdate(l, "execution_failed", "execution", "failed", "fallback")

(* Mutant: the mission is failed and its task is not. *)
TryFallback_MissionOnly(l) ==
  /\ At(l, "fallback")
  /\ \/ Goto(l, "fail_only_read")
     \/ Goto(l, "mission_fail_read")
  /\ UNCHANGED <<rows, active, cur, row, todo, step, waiter, calls>>

(* _handle_task_failure: when a fallback strategy exists the task is only  *)
(* failed; when none does, the mission fails with it.                      *)
TryFallback(l) ==
  /\ At(l, "fallback")
  /\ \/ Goto(l, "fail_only_read")
     \/ Goto(l, "fail_read")
  /\ UNCHANGED <<rows, active, cur, row, todo, step, waiter, calls>>
-----------------------------------------------------------------------------
(***************************************************************************)
(* An executor loop: a plan of several steps, without a worker.            *)
(***************************************************************************)

(* A step fails, or its progress is written: update_progress reads the row *)
(* and writes all of it back, its status included.                         *)
PlanStep(l) ==
  /\ At(l, "step")
  /\ \/ Goto(l, "progress_read")
     \/ Goto(l, "fail_only_read")
  /\ UNCHANGED <<rows, active, cur, row, todo, step, waiter, calls>>

ProgressRead(l) ==
  /\ At(l, "progress_read")
  /\ row' = [row EXCEPT ![l] = task[cur[l]]]
  /\ Goto(l, "progress_write")
  /\ UNCHANGED <<rows, active, cur, todo, step, waiter, calls>>

(* Mutant: the last step is taken for the one before it. *)
ProgressWrite_OffByOne(l) ==
  /\ At(l, "progress_write")
  /\ Become(cur[l], row[l], row[l].status)
  /\ step' = [step EXCEPT ![l] = @ + 1]
  /\ Goto(l, IF step[l] = Steps THEN "complete_read" ELSE "step")
  /\ UNCHANGED <<mission, dep, attempt, active, cur, row, todo, waiter, calls>>

ProgressWrite(l) ==
  /\ At(l, "progress_write")
  /\ Become(cur[l], row[l], row[l].status)
  /\ step' = [step EXCEPT ![l] = @ + 1]
  /\ Goto(l, IF step[l] + 1 = Steps THEN "complete_read" ELSE "step")
  /\ UNCHANGED <<mission, dep, attempt, active, cur, row, todo, waiter, calls>>
-----------------------------------------------------------------------------
(***************************************************************************)
(* An executor loop: AutonomousTaskManager.complete and fail.              *)
(***************************************************************************)
CompleteRead(l) ==
  /\ At(l, "complete_read")
  /\ ReadTask(l, cur[l], "completed", "complete_write", "list")
  /\ UNCHANGED <<rows, active, cur, todo, step, waiter, calls>>

(* Mutant: the row is written back with the status it had. *)
CompleteWrite_KeepStatus(l) ==
  /\ At(l, "complete_write")
  /\ Become(cur[l], row[l], row[l].status)
  /\ Goto(l, "dependents")
  /\ UNCHANGED <<mission, dep, attempt, active, cur, row, todo, step, waiter, calls>>

CompleteWrite(l) ==
  /\ At(l, "complete_write")
  /\ Become(cur[l], row[l], "completed")
  /\ Goto(l, "dependents")
  /\ UNCHANGED <<mission, dep, attempt, active, cur, row, todo, step, waiter, calls>>

(* _check_dependent_tasks: the dependency rows that name the completed     *)
(* task, then for each dependent whether any of its own rows is still      *)
(* unsatisfied.                                                            *)
ListDependents(l) ==
  /\ At(l, "dependents")
  /\ todo' = [todo EXCEPT ![l] = {t \in Task : /\ <<t, cur[l]>> \in DependsOn
                                               /\ dep[<<t, cur[l]>>] # "none"}]
  /\ Goto(l, "promote")
  /\ UNCHANGED <<rows, active, cur, row, step, waiter, calls>>

are_all_dependencies_satisfied(t) ==
  \A e \in DependsOn : e[1] = t => dep[e] \in {"none", "satisfied"}

(* Mutant: the dependency row is marked before the dependent is asked for  *)
(* unsatisfied rows.                                                       *)
PromoteDependent_MarkFirst(l, t) ==
  /\ At(l, "promote")
  /\ t \in todo[l]
  /\ todo' = [todo EXCEPT ![l] = @ \ {t}]
  /\ dep' = [dep EXCEPT ![<<t, cur[l]>>] = "satisfied"]
  /\ IF task[t].status = "waiting_for_dependency"
       THEN Become(t, task[t], "ready")
       ELSE UNCHANGED task
  /\ UNCHANGED <<mission, attempt, active, pc, cur, row, step, waiter, calls>>

(* The dependency row is marked only when no row of the dependent, this    *)
(* one included, is left unsatisfied.  (The two commits of the branch are  *)
(* one action here; NothingIsSatisfied says that it is never taken.)       *)
PromoteDependent(l, t) ==
  /\ At(l, "promote")
  /\ t \in todo[l]
  /\ todo' = [todo EXCEPT ![l] = @ \ {t}]
  /\ IF are_all_dependencies_satisfied(t)
       THEN /\ dep' = [dep EXCEPT ![<<t, cur[l]>>] = "satisfied"]
            /\ IF task[t].status = "waiting_for_dependency"
                 THEN Become(t, task[t], "ready")
                 ELSE UNCHANGED task
       ELSE UNCHANGED <<dep, task>>
  /\ UNCHANGED <<mission, attempt, active, pc, cur, row, step, waiter, calls>>

(* Mutant: the mission is not looked at. *)
DependentsDone_NoCheck(l) ==
  /\ At(l, "promote")
  /\ todo[l] = {}
  /\ Goto(l, "discard")
  /\ UNCHANGED <<rows, active, cur, row, todo, step, waiter, calls>>

DependentsDone(l) ==
  /\ At(l, "promote")
  /\ todo[l] = {}
  /\ Goto(l, "list")
  /\ UNCHANGED <<rows, active, cur, row, todo, step, waiter, calls>>

(* fail() from _fail_task, _handle_step_failure and the outer except       *)
(* ("fail_only"), or from _handle_task_failure without a fallback.         *)
FailRead(l) ==
  /\ \/ /\ At(l, "fail_only_read")
        /\ ReadTask(l, cur[l], "failed", "fail_only", "discard")
     \/ /\ At(l, "fail_read")
        /\ ReadTask(l, cur[l], "failed", "fail", "discard")
  /\ UNCHANGED <<rows, active, cur, todo, step, waiter, calls>>

(* Mutant: the retry is not counted. *)
CountRetry_Never(r) == r

(* A failure that leaves the task a retry consumes it. *)
CountRetry(r) ==
  [r EXCEPT !.retries = IF @ < MaxRetries THEN @ + 1 ELSE @]

FailWrite(l) ==
  /\ \/ At(l, "fail_only") /\ Goto(l, "discard")
     \/ At(l, "fail") /\ Goto(l, "mission_fail_read")
  /\ Become(cur[l], CountRetry(row[l]), "failed")
  /\ UNCHANGED <<mission, dep, attempt, active, cur, row, todo, step, waiter, calls>>
-----------------------------------------------------------------------------
(***************************************************************************)
(* An executor loop: the mission.                                          *)
(***************************************************************************)

(* _check_mission_completion. *)
ListTasks(l) ==
  /\ At(l, "list")
  /\ Goto(l, IF \A t \in list_by_mission : task[t].status = "completed"
               THEN "mission_complete_read" ELSE "discard")
  /\ UNCHANGED <<rows, active, cur, row, todo, step, waiter, calls>>

MissionRead(l) ==
  /\ \/ /\ At(l, "mission_complete_read")
        /\ ReadMission(l, "completed", "mission_complete", "discard")
     \/ /\ At(l, "mission_fail_read")
        /\ ReadMission(l, "failed", "mission_fail", "discard")
  /\ UNCHANGED <<rows, active, cur, row, todo, step, waiter, calls>>

MissionWrite(l) ==
  /\ \/ At(l, "mission_complete") /\ mission' = "completed"
     \/ At(l, "mission_fail") /\ mission' = "failed"
  /\ Goto(l, "publish")
  /\ UNCHANGED <<task, dep, attempt, active, cur, row, todo, step, waiter, calls>>

(* EventBus.publish runs the subscribers in the publishing thread. *)
Notify ==
  /\ signalled' = (signalled \/ subscribed)
  /\ UNCHANGED <<subscribed, outcome>>

PublishEnd(l) ==
  /\ At(l, "publish")
  /\ Notify
  /\ Goto(l, "discard")
  /\ UNCHANGED <<rows, active, cur, row, todo, step, calls>>
-----------------------------------------------------------------------------
(***************************************************************************)
(* A caller of the managers.  Its next statement is the status it is about *)
(* to write, to the row of cur["client"] or, with no task, to the mission. *)
(***************************************************************************)

(* Mutant: retry() does not look at the status. *)
ClientMay_AnyRetry(to, r) ==
  IF to = "retrying" THEN r.retries < MaxRetries /\ r.status # "none"
                     ELSE validate_task_transition(r.status, to)

(* retry() refuses a task that is not FAILED or has used its retries. *)
ClientMay(to, r) ==
  /\ validate_task_transition(r.status, to)
  /\ to = "retrying" => r.retries < MaxRetries

ClientTaskRead(to, t) ==
  /\ At("client", "idle")
  /\ calls < MaxCalls
  /\ calls' = calls + 1
  /\ ClientMay(to, task[t])
  /\ cur' = [cur EXCEPT !["client"] = t]
  /\ row' = [row EXCEPT !["client"] = task[t]]
  /\ Goto("client", to)
  /\ UNCHANGED <<rows, active, todo, step, waiter>>

(* retry() writes RETRYING and then READY. *)
ClientTaskWrite ==
  LET t == cur["client"]
      to == pc["client"]
  IN  /\ to \in ClientTaskOp \cup {"ready"}
      /\ t # NoTask
      /\ Become(t, row["client"], to)
      /\ IF to = "retrying"
           THEN Goto("client", "ready") /\ UNCHANGED <<cur, row>>
           ELSE /\ Goto("client", "idle")
                /\ cur' = [cur EXCEPT !["client"] = NoTask]
                /\ row' = [row EXCEPT !["client"] = NoRow]
      /\ UNCHANGED <<mission, dep, attempt, active, todo, step, waiter, calls>>

(* create() with depends_on, of tasks that exist: the row, which waits     *)
(* from the start, and then one dependency row after the other.  (No       *)
(* caller in the source names dependencies.)                               *)
ClientCreate(t) ==
  /\ At("client", "idle")
  /\ calls < MaxCalls
  /\ calls' = calls + 1
  /\ mission # "none"
  /\ t \in Added
  /\ task[t].status = "none"
  /\ \A e \in DependsOn : e[1] = t => task[e[2]].status # "none"
  /\ Become(t, NoRow, "waiting_for_dependency")
  /\ cur' = [cur EXCEPT !["client"] = t]
  /\ Goto("client", "create_dependency")
  /\ UNCHANGED <<mission, dep, attempt, active, row, todo, step, waiter>>

CreateDependency(e) ==
  LET left == {d \in DependsOn : d[1] = cur["client"] /\ dep[d] = "none"}
  IN  /\ At("client", "create_dependency")
      /\ e \in left
      /\ dep' = [dep EXCEPT ![e] = "waiting"]
      /\ IF left = {e}
           THEN /\ Goto("client", "idle")
                /\ cur' = [cur EXCEPT !["client"] = NoTask]
           ELSE UNCHANGED <<pc, cur>>
      /\ UNCHANGED <<mission, task, attempt, active, row, todo, step, waiter, calls>>

ClientMissionRead(to) ==
  /\ At("client", "idle")
  /\ calls < MaxCalls
  /\ calls' = calls + 1
  /\ validate_mission_transition(mission, to)
  /\ Goto("client", to)
  /\ UNCHANGED <<rows, active, cur, row, todo, step, waiter>>

ClientMissionWrite ==
  LET to == pc["client"]
  IN  /\ to \in ClientMissionOp
      /\ cur["client"] = NoTask
      /\ mission' = to
      /\ Goto("client", IF to = "cancelled" THEN "publish" ELSE "idle")
      /\ UNCHANGED <<task, dep, attempt, active, cur, row, todo, step, waiter, calls>>

ClientPublish ==
  /\ At("client", "publish")
  /\ Notify
  /\ Goto("client", "idle")
  /\ UNCHANGED <<rows, active, cur, row, todo, step, calls>>
-----------------------------------------------------------------------------
SessionStep ==
  \/ CreateMission
  \/ \E t \in Task : CreateTask(t)
  \/ ScheduleCreated
  \/ ReadyCreated
  \/ FirstPassDone
  \/ \E t \in Task : SecondPassRead(t)
  \/ SecondPassWrite
  \/ PlanRead
  \/ PlanWrite
  \/ StartRead
  \/ StartWrite
  \/ WaitRead
  \/ Subscribe
  \/ Recheck
  \/ Woken
  \/ Answer

LoopStep(l) ==
  \/ \E t \in Task : SelectTask(l, t)
  \/ ClaimTask(l)
  \/ RegisterActive(l)
  \/ Prepare(l)
  \/ SpawnExecution(l)
  \/ SpawnWorker(l)
  \/ WorkerStart(l)
  \/ Dispatch(l)
  \/ WorkerComplete(l)
  \/ WorkerFail(l)
  \/ TryFallback(l)
  \/ PlanStep(l)
  \/ ProgressRead(l)
  \/ ProgressWrite(l)
  \/ CompleteRead(l)
  \/ CompleteWrite(l)
  \/ ListDependents(l)
  \/ \E t \in Task : PromoteDependent(l, t)
  \/ DependentsDone(l)
  \/ FailRead(l)
  \/ FailWrite(l)
  \/ ListTasks(l)
  \/ MissionRead(l)
  \/ MissionWrite(l)
  \/ PublishEnd(l)
  \/ DiscardActive(l)

ClientCall ==
  \/ \E t \in Task : ClientCreate(t)
  \/ \E to \in ClientTaskOp, t \in Task : ClientTaskRead(to, t)
  \/ \E to \in ClientMissionOp : ClientMissionRead(to)

ClientStep ==
  \/ ClientTaskWrite
  \/ \E e \in DependsOn : CreateDependency(e)
  \/ ClientMissionWrite
  \/ ClientPublish

Next ==
  \/ SessionStep
  \/ AdmissionFails
  \/ WaitTimeout
  \/ \E l \in Loop : LoopStep(l)
  \/ ClientCall
  \/ ClientStep

(* Threads are scheduled fairly and every backend call answers; a call     *)
(* that raises, a timeout and a new call of the client need never happen.  *)
Fairness ==
  /\ WF_vars(SessionStep)
  /\ \A l \in Loop : WF_vars(LoopStep(l))
  /\ WF_vars(ClientStep)

Spec == Init /\ [][Next]_vars
FairSpec == Spec /\ Fairness
-----------------------------------------------------------------------------
(***************************************************************************)
(* Properties.                                                             *)
(***************************************************************************)
SettlePC == {"dependents", "promote", "list", "mission_complete_read",
             "mission_complete", "mission_fail_read", "mission_fail", "publish",
             "discard"}

WorkPC == {"register", "prepare", "spawn_execution", "spawn_worker", "starting",
           "started", "execution_running", "dispatch", "completing", "completed",
           "execution_completed", "failing", "failed", "execution_failed",
           "fallback", "step", "progress_read", "progress_write",
           "complete_read", "complete_write", "fail_only_read", "fail_only",
           "fail_read", "fail"}

LoopPC == {"idle", "claim"} \cup WorkPC \cup SettlePC

SessionPC == {"create", "tasks", "schedule", "ready", "dependencies",
              "wait_for_dependency", "plan", "start_read", "start",
              "wait", "subscribe", "recheck", "waiting", "answer", "done",
              "error"}

ClientPC == {"idle", "create_dependency", "ready", "publish"}
              \cup ClientTaskOp \cup ClientMissionOp

TaskRow == [status : TaskStatus \cup {"none"}, retries : 0 .. MaxRetries]

AttemptRow == [execution : ExecutionStatus, worker : WorkerStatus \cup {"none"}]

PlanPC == {"step", "progress_read", "progress_write"}

(* Every thread is at a statement of its own; a loop that is not idle has  *)
(* a task, and inside a plan it has a step left to do.                     *)
PCOK ==
  /\ pc \in [Thread -> LoopPC \cup SessionPC \cup ClientPC]
  /\ pc["session"] \in SessionPC
  /\ pc["client"] \in ClientPC
  /\ \A l \in Loop : pc[l] \in LoopPC
  /\ step \in [Loop -> 0 .. Steps]
  /\ \A l \in Loop : pc[l] \in PlanPC => step[l] < Steps
  /\ cur \in [Thread -> Task \cup {NoTask}]
  /\ \A l \in Loop : pc[l] # "idle" => cur[l] \in Task

(* The state has its types; retry_count never exceeds max_retries, in the  *)
(* rows and in the copies that threads hold of them.                       *)
TypeOK ==
  /\ mission \in MissionStatus \cup {"none"}
  /\ task \in [Task -> TaskRow]
  /\ dep \in [DependsOn -> {"none", "waiting", "satisfied"}]
  /\ attempt \in [Task -> Seq(AttemptRow)]
  /\ active \subseteq Task
  /\ PCOK
  /\ row \in [Thread -> TaskRow]
  /\ todo \in [Thread -> SUBSET Task]
  /\ subscribed \in BOOLEAN /\ signalled \in BOOLEAN
  /\ outcome \in MissionStatus \cup {"none"}
  /\ calls \in 0 .. MaxCalls

(* A loop is at work on its task from its claim to the write that ends the *)
(* execution.                                                              *)
Working(l) == pc[l] \in WorkPC

(* No two loops are at work on one task, whatever stale rows the request   *)
(* thread and a client write back meanwhile: claim_ready_task gives a task *)
(* to one loop, and nothing makes the row READY again while it works.      *)
ExclusiveWork ==
  \A l, m \in Loop :
    Working(l) /\ Working(m) /\ cur[l] = cur[m] => l = m

(* The queue that the READY rows and the loops at work make up. *)
Offered == {t \in Task : task[t].status = "ready"}

Work == [l \in Loop |-> IF Working(l) THEN cur[l] ELSE NoTask]

Queue == INSTANCE TaskQueue WITH offered <- Offered, work <- Work

(* However the request thread, the loops and a client interleave their     *)
(* reads and stale writes, what happens to the READY rows is a behaviour   *)
(* of TaskQueue: a claim takes a task off the queue and gives it to one    *)
(* loop in one step, a loop ends its task before it takes another, and no  *)
(* step offers a task that is still at work.                               *)
ImplementsQueue == Queue!Spec

(* A row is READY only while nobody works on its task, so that a claim     *)
(* never starts a second execution of a capability that is under way.      *)
ReadyIsIdle ==
  \A l \in Loop : Working(l) => task[cur[l]].status # "ready"

(* Each retry that the client is granted consumed one of max_retries when  *)
(* its failure was written, so a task is executed at most max_retries      *)
(* times (once, when it is not to be retried), and not max_retries + 1.    *)
(* Only of a task without dependencies: the second pass of the admission   *)
(* may write back the retry_count that it read before the task failed.     *)
AttemptsAllowed == IF MaxRetries = 0 THEN 1 ELSE MaxRetries

AttemptsBounded ==
  \A t \in Task : Independent(t) => Len(attempt[t]) <= AttemptsAllowed

(* A task that a client retries is executed again, even when the retry     *)
(* comes while the loop that failed it has yet to forget it.               *)
RetriedTaskRuns ==
  \A t \in Task :
    task[t].status = "ready" ~> task[t].status # "ready"

WorkerLive == {"spawned", "starting", "running", "completing", "failing"}

(* A worker whose row says that it is alive is driven by a loop that works *)
(* on its task, and an execution begins only when the worker of the        *)
(* execution before it has ended: the attempts of a task never overlap.    *)
WorkersHaveLoops ==
  \A t \in Task : \A i \in 1 .. Len(attempt[t]) :
    attempt[t][i].worker \in WorkerLive =>
      i = Len(attempt[t]) /\ \E l \in Loop : Working(l) /\ cur[l] = t

(* When its worker has completed and no loop is at work on it any more, a  *)
(* task without dependencies is COMPLETED: the result of a capability that *)
(* ran is not lost between the worker's row and the task's.                *)
CompletedWorkIsRecorded ==
  \A t \in Task :
    /\ Independent(t)
    /\ \E i \in 1 .. Len(attempt[t]) : attempt[t][i].worker = "completed"
    /\ \A l \in Loop : ~(Working(l) /\ cur[l] = t)
    => task[t].status = "completed"

(* A FAILED mission has a task that FAILED: mission.fail is only reached   *)
(* from the failure of one of its tasks.                                   *)
FailedMissionHasCause ==
  mission = "failed" => \E t \in Task : task[t].status = "failed"

(* An ending that the request reports to the user is the mission's ending: *)
(* once wait_for_completion has returned a final status the row keeps it.  *)
ReportIsFinal == outcome \in MissionEnded => mission = outcome

(* COMPLETED and CANCELLED are final for a task (contracts.py,             *)
(* validate_task_transition: "Terminal"), of tasks without dependencies:   *)
(* the second pass of the admission may overwrite the row of another one   *)
(* that has ended.                                                         *)
EndedTaskStays ==
  [][\A t \in Task : Independent(t) /\ task[t].status \in TaskEnded =>
       task'[t] = task[t]]_vars

(* FAILED, CANCELLED and COMPLETED are final for a mission                 *)
(* (contracts.py, validate_mission_transition: "Terminal").                *)
EndedMissionStays ==
  [][(mission \in MissionEnded) => (mission' = mission)]_vars

(* A COMPLETED mission has only COMPLETED tasks (executor.py,              *)
(* _check_mission_completion: "Check if all tasks for a mission are        *)
(* complete, and complete the mission if so").                             *)
CompletedMissionIsDone ==
  mission = "completed" => \A t \in list_by_mission : task[t].status = "completed"

(* A loop that has claimed a task finds the tasks it depends on COMPLETED  *)
(* (repository, list_ready_to_run: "tasks that are READY to execute        *)
(* (dependencies satisfied)").                                             *)
ClaimedAfterDependencies ==
  \A l \in Loop : \A e \in DependsOn :
    At(l, "register") /\ cur[l] = e[1] => task[e[2]].status = "completed"

(* No dependency row is ever marked satisfied: _check_dependent_tasks asks *)
(* whether a dependent has unsatisfied rows before it marks the one that   *)
(* the completed task satisfies.                                           *)
NothingIsSatisfied == \A e \in DependsOn : dep[e] # "satisfied"

(* A READY task is eventually executed to its end.                         *)
ReadyTaskEnds ==
  \A t \in Task :
    task[t].status = "ready" ~> task[t].status \in {"completed", "failed"}

(* A mission that is RUNNING before its last task is COMPLETED ends, or    *)
(* one of its tasks has failed.                                            *)
MissionResolves ==
  (mission = "running" /\ \E t \in Task : task[t].status # "completed") ~>
    (mission \in MissionEnded \/ \E t \in Task : task[t].status = "failed")

(* A request that waits for a mission that has ended goes on without the   *)
(* help of its timeout, however the mission's end, its event, the          *)
(* subscription and the second read interleave.                            *)
WaiterIsWoken ==
  (pc["session"] \in {"subscribe", "recheck", "waiting"} /\
     mission \in MissionEnded)
    ~> pc["session"] = "done"

(* A task that waits for others, with a row for each, becomes READY when   *)
(* the loop that completed the last of them comes to look for its          *)
(* dependents (task_manager.py, create: "Dependent tasks remain            *)
(* WAITING_FOR_DEPENDENCY until _check_dependent_tasks promotes them").    *)
DependentsPromoted ==
  \A t \in Task :
    (/\ task[t].status = "waiting_for_dependency"
     /\ \A e \in DependsOn : e[1] = t => /\ dep[e] = "waiting"
                                         /\ task[e[2]].status = "completed"
     /\ \E l \in Loop : At(l, "dependents") /\ <<t, cur[l]>> \in DependsOn)
      ~> task[t].status # "waiting_for_dependency"

(* A mission all of whose tasks are COMPLETED is COMPLETED in the end, if  *)
(* its admission gets as far as starting it (executor.py,                  *)
(* _check_mission_completion).                                             *)
DoneMissionCompletes ==
  (mission = "running" /\ \A t \in Task : task[t].status = "completed")
    ~> mission = "completed"

(* A FAILED task with retries left is executed again (contracts.py,        *)
(* AutonomousTaskStatus: "FAILED -> RETRYING -> RUNNING (if retries        *)
(* remain)").                                                              *)
FailedTaskRetried ==
  \A t \in Task :
    (task[t].status = "failed" /\ task[t].retries < MaxRetries)
      ~> task[t].status # "failed"
-----------------------------------------------------------------------------
(***************************************************************************)
(* Why ExclusiveWork and ReadyIsIdle hold: the inductive invariant.  Three *)
(* threads may be about to make a row READY without looking at it (the     *)
(* request thread, a retrying client, a loop that promotes a dependent);   *)
(* the invariant says what keeps each of them off a task at work.          *)
(***************************************************************************)
Busy == {"running", "waiting_for_dependency", "paused", "cancelled", "scheduled"}

WorkedOn(t) == \E l \in Loop : Working(l) /\ cur[l] = t

Creating(t) == pc["session"] \in {"schedule", "ready"} /\ cur["session"] = t

Retrying(t) == pc["client"] \in {"retrying", "ready"} /\ cur["client"] = t

(* The row of a task at work has a status that only stale writers give it, *)
(* and so has the copy that update_progress is about to write back.        *)
RowAtWork ==
  \A l \in Loop :
    Working(l) => /\ task[cur[l]].status \in Busy
                  /\ pc[l] = "progress_write" => row[l].status \in Busy

(* A task whose creation is not over is neither at work nor retried. *)
RowInCreation ==
  \A t \in Task :
    Creating(t) => /\ task[t].status \in {"created"} \cup (Busy \ {"waiting_for_dependency"})
                   /\ ~WorkedOn(t)
                   /\ ~Retrying(t)

(* A task that a client is retrying is not at work, and is not claimed     *)
(* before the client has made it READY.                                    *)
RowInRetry ==
  \A t \in Task :
    Retrying(t) => /\ task[t].status \in {"failed", "retrying",
                                          "waiting_for_dependency"}
                   /\ ~WorkedOn(t)

(* The dependents that a loop has listed have a row that waits for its     *)
(* task.                                                                   *)
DependentsWait ==
  \A l \in Loop : \A t \in todo[l] :
    pc[l] = "promote" => /\ <<t, cur[l]>> \in DependsOn
                         /\ dep[<<t, cur[l]>>] = "waiting"

WorkInv ==
  /\ TypeOK
  /\ NothingIsSatisfied
  /\ DependentsWait
  /\ ExclusiveWork
  /\ RowAtWork
  /\ RowInCreation
  /\ RowInRetry
=============================================================================
