----------------------------- MODULE GoalExecution -----------------------------
(***************************************************************************)
(* One request of Brain.handle (src/parika/core/brain/brain.py): the       *)
(* supervisor _supervise_async, one coroutine _execute_goal_async per goal *)
(* on the same event loop, and the worker threads that execute the goals'  *)
(* tasks.  A task calls a tool that asks WorkspacePermission, or a chat    *)
(* model by way of ProviderFallback, or anything else.                     *)
(*                                                                         *)
(* The event loop runs one thing at a time: while the supervisor is between *)
(* two awaits no coroutine moves, but the worker threads do.               *)
(*                                                                         *)
(* A goal and its task have one name: there is one attempt per goal.  Goal *)
(* recovery asks a model by calling handle() inside the running loop, where *)
(* asyncio.run() raises; the recovery gives up and the first failure stands. *)
(***************************************************************************)
EXTENDS TaskManager, WorkspacePermission, ProviderFallback, FiniteSets

CONSTANTS
  DependsOn, \* pairs of a goal and one that it depends on
  Synthesis, \* the goals for which _is_synthesis_goal holds
  Limit      \* max_concurrent_goals, or 1 when the mode is "sequential"

Goal == Task

(* Planner.plan refuses unknown dependencies and cycles. *)
ASSUME GoalAssumption ==
  /\ Call \subseteq Goal
  /\ Chat \subseteq Goal \ Call
  /\ Synthesis \subseteq Goal
  /\ DependsOn \subseteq Goal \X Goal
  /\ \A S \in (SUBSET Goal) \ {{}} : \E g \in S : \A d \in S : <<g, d>> \notin DependsOn
  /\ Limit \in Nat \ {0}

VARIABLES
  supervisor,    \* the next statement of _supervise_async
  pending_goals, \* goals that have neither started nor ended
  ready_goals,   \* those of them whose dependencies have succeeded
  running,       \* goals with a coroutine
  completed,     \* goals that have a result
  failed,        \* those of them that did not succeed
  result,        \* per goal, its GoalResult
  arrived,       \* the goals that asyncio.wait returned, not yet looked at
  unchecked,     \* the pending goals that a result may have made ready
  coroutine      \* per goal, where _execute_goal_async is

supervision == <<supervisor, pending_goals, ready_goals, running, completed,
                 failed, result, arrived, unchecked, coroutine>>
goalvars    == <<supervision, taskvars, permission, fallback>>
outside     == <<taskvars, permission, fallback>>

deps(g) == {d \in Goal : <<g, d>> \in DependsOn}

GoalInit ==
  /\ TaskInit /\ PermissionInit /\ FallbackInit
  /\ supervisor = "start"
  /\ pending_goals = Goal
  /\ ready_goals = {g \in Goal : deps(g) = {}}
  /\ running = {} /\ completed = {} /\ failed = {}
  /\ result = [g \in Goal |-> "none"]
  /\ arrived = {} /\ unchecked = {}
  /\ coroutine = [g \in Goal |-> "none"]
-----------------------------------------------------------------------------
(***************************************************************************)
(* The supervisor: start what is ready.                                    *)
(***************************************************************************)
Spawn(g) ==
  /\ running' = running \cup {g}
  /\ coroutine' = [coroutine EXCEPT ![g] = "created"]
  /\ pending_goals' = pending_goals \ {g}

(* Mutant: a goal that ends without coroutine is not counted as failed. *)
Settle_NotFailed(g, r) ==
  /\ result' = [result EXCEPT ![g] = r]
  /\ completed' = completed \cup {g}
  /\ pending_goals' = pending_goals \ {g}
  /\ UNCHANGED failed

(* A goal without coroutine gets the result r. *)
Settle(g, r) ==
  /\ result' = [result EXCEPT ![g] = r]
  /\ completed' = completed \cup {g}
  /\ failed' = failed \cup {g}
  /\ pending_goals' = pending_goals \ {g}

(* Mutant: the concurrency limit admits one goal too many. *)
MayStart_OneMore(g) ==
  supervisor = "start" /\ g \in ready_goals /\ Cardinality(running) <= Limit

MayStart(g) ==
  supervisor = "start" /\ g \in ready_goals /\ Cardinality(running) < Limit

StartReady(g) ==
  /\ MayStart(g)
  /\ ready_goals' = ready_goals \ {g}
  /\ Spawn(g)
  /\ UNCHANGED <<supervisor, completed, failed, result, arrived, unchecked, outside>>

(* The references to results in the inputs cannot be resolved (or a brace *)
(* of an input has no match).                                             *)
RefuseReady(g) ==
  /\ MayStart(g)
  /\ g \notin Synthesis
  /\ ready_goals' = ready_goals \ {g}
  /\ Settle(g, "failed")
  /\ UNCHANGED <<supervisor, running, arrived, unchecked, coroutine, outside>>

NoneMayStart == supervisor = "start" /\ \A g \in Goal : ~MayStart(g)

Await ==
  /\ NoneMayStart
  /\ running # {}
  /\ supervisor' = "wait"
  /\ UNCHANGED <<pending_goals, ready_goals, running, completed, failed, result,
                 arrived, unchecked, coroutine, outside>>

Break ==
  /\ NoneMayStart
  /\ running = {}
  /\ supervisor' = "assemble"
  /\ UNCHANGED <<pending_goals, ready_goals, running, completed, failed, result,
                 arrived, unchecked, coroutine, outside>>
-----------------------------------------------------------------------------
(***************************************************************************)
(* The supervisor: asyncio.wait has returned.                              *)
(***************************************************************************)
(* Mutant: the goals that asyncio.wait returned as pending are processed too. *)
Finished_All == running

Finished == {g \in running : coroutine[g] \in {"succeeded", "failed"}}

Arrive ==
  /\ supervisor = "wait"
  /\ Finished # {}
  /\ arrived' = Finished
  /\ supervisor' = "process"
  /\ UNCHANGED <<pending_goals, ready_goals, running, completed, failed, result,
                 unchecked, coroutine, outside>>

Process(g) ==
  /\ supervisor = "process"
  /\ g \in arrived
  /\ arrived' = arrived \ {g}
  /\ running' = running \ {g}
  /\ result' = [result EXCEPT ![g] = coroutine[g]]
  /\ completed' = completed \cup {g}
  /\ failed' = IF coroutine[g] = "failed" THEN failed \cup {g} ELSE failed
  /\ unchecked' = pending_goals
  /\ supervisor' = "check"
  /\ UNCHANGED <<pending_goals, ready_goals, coroutine, outside>>

(* The pending goals are looked at in the order of a set of strings. *)
Checking(h) ==
  /\ supervisor = "check"
  /\ h \in unchecked
  /\ unchecked' = unchecked \ {h}

(* Mutant: one dependency that has ended is enough. *)
Unblocked_Any(h) == h \notin ready_goals /\ deps(h) \cap completed # {}

Unblocked(h) == h \notin ready_goals /\ deps(h) \subseteq completed

NotUnblocked(h) ==
  /\ Checking(h)
  /\ ~Unblocked(h)
  /\ UNCHANGED <<supervisor, pending_goals, ready_goals, running, completed, failed,
                 result, arrived, coroutine, outside>>

MakeReady(h) ==
  /\ Checking(h)
  /\ Unblocked(h)
  /\ deps(h) \cap failed = {}
  /\ ready_goals' = ready_goals \cup {h}
  /\ UNCHANGED <<supervisor, pending_goals, running, completed, failed, result,
                 arrived, coroutine, outside>>

SkipGoal(h) ==
  /\ Checking(h)
  /\ Unblocked(h)
  /\ deps(h) \cap failed # {}
  /\ h \notin Synthesis
  /\ Settle(h, "skipped")
  /\ UNCHANGED <<supervisor, ready_goals, running, arrived, coroutine, outside>>

(* Without a look at the limit. *)
StartSynthesis(h) ==
  /\ Checking(h)
  /\ Unblocked(h)
  /\ deps(h) \cap failed # {}
  /\ h \in Synthesis
  /\ Spawn(h)
  /\ UNCHANGED <<supervisor, ready_goals, completed, failed, result, arrived, outside>>

Checked ==
  /\ supervisor = "check"
  /\ unchecked = {}
  /\ supervisor' = IF arrived = {} THEN "start" ELSE "process"
  /\ UNCHANGED <<pending_goals, ready_goals, running, completed, failed, result,
                 arrived, unchecked, coroutine, outside>>
-----------------------------------------------------------------------------
(***************************************************************************)
(* The supervisor: the results, in the order of the plan.                  *)
(***************************************************************************)
(* "Execution incomplete". *)
LeaveOut(g) ==
  /\ supervisor = "assemble"
  /\ result[g] = "none"
  /\ \A d \in deps(g) : result[d] # "none"
  /\ result' = [result EXCEPT ![g] = "incomplete"]
  /\ UNCHANGED <<supervisor, pending_goals, ready_goals, running, completed, failed,
                 arrived, unchecked, coroutine, outside>>

Return ==
  /\ supervisor = "assemble"
  /\ \A g \in Goal : result[g] # "none"
  /\ supervisor' = "end"
  /\ UNCHANGED <<pending_goals, ready_goals, running, completed, failed, result,
                 arrived, unchecked, coroutine, outside>>

Supervise ==
  \/ Await \/ Break \/ Arrive \/ Checked \/ Return
  \/ \E g \in Goal :
       \/ StartReady(g) \/ RefuseReady(g) \/ Process(g) \/ LeaveOut(g)
       \/ NotUnblocked(g) \/ MakeReady(g) \/ SkipGoal(g) \/ StartSynthesis(g)
-----------------------------------------------------------------------------
(***************************************************************************)
(* The coroutine of a goal, when the supervisor awaits: it creates the     *)
(* task, hands it to a worker thread and takes the end back.               *)
(***************************************************************************)
Step(g, from, to) ==
  /\ supervisor = "wait"
  /\ coroutine[g] = from
  /\ coroutine' = [coroutine EXCEPT ![g] = to]
  /\ UNCHANGED <<supervisor, pending_goals, ready_goals, running, completed, failed,
                 result, arrived, unchecked, permission, fallback>>

CreateTask(g) == Step(g, "created", "awaiting") /\ create(g)

(* Mutant: whatever has ended has succeeded. *)
Succeeded_Ended(g) == status[g] \in Ended

(* GoalResult.succeeded is read off the status of the task. *)
Succeeded(g) == status[g] = "completed"

Resume(g) ==
  /\ status[g] \in Ended
  /\ Step(g, "awaiting", IF Succeeded(g) THEN "succeeded" ELSE "failed")
  /\ UNCHANGED taskvars

(***************************************************************************)
(* The worker thread: TaskManager.execute and what the capability does.    *)
(***************************************************************************)
Execute(g) ==
  /\ coroutine[g] = "awaiting"
  /\ Start(g)
  /\ status[g] = "pending"
  /\ UNCHANGED <<supervision, permission, fallback>>

(* A tool that needs the path asks for permission first ... *)
AskPermission(g) ==
  /\ status[g] = "running"
  /\ Enter(g) \/ Proceed(g)
  /\ UNCHANGED <<supervision, taskvars, fallback>>

UserAnswers(g) ==
  /\ status[g] = "running"
  /\ Prompted(g)
  /\ UNCHANGED <<supervision, taskvars, fallback>>

(* Mutant: the tool does not look at the decision. *)
ToolEnds_Unasked(g) ==
  /\ g \in Call
  /\ status[g] = "running"
  /\ at[g] = "done"
  /\ Fail(g) \/ Complete(g)
  /\ UNCHANGED <<supervision, permission, fallback>>

(* ... and raises if it is refused (PathNotAllowedError). *)
ToolEnds(g) ==
  /\ g \in Call
  /\ status[g] = "running"
  /\ at[g] = "done"
  /\ \/ Fail(g)
     \/ decision[g] /\ Complete(g)
  /\ UNCHANGED <<supervision, permission, fallback>>

ChatAsks(g) ==
  /\ status[g] = "running"
  /\ Ask(g)
  /\ UNCHANGED <<supervision, taskvars, permission>>

ChatEnds(g) ==
  /\ g \in Chat
  /\ status[g] = "running"
  /\ \/ AnswerLink(g) /\ Complete(g)
     \/ RefuseLink(g) /\ Fail(g)
     \/ Exhausted(g) /\ Fail(g) /\ UNCHANGED fallback
  /\ UNCHANGED <<supervision, permission>>

OtherEnds(g) ==
  /\ g \notin Call \cup Chat
  /\ status[g] = "running"
  /\ Complete(g) \/ Fail(g)
  /\ UNCHANGED <<supervision, permission, fallback>>

Work(g) ==
  \/ CreateTask(g) \/ Resume(g) \/ Execute(g) \/ OtherEnds(g)
  \/ g \in Call /\ (AskPermission(g) \/ ToolEnds(g))
  \/ g \in Chat /\ (ChatAsks(g) \/ ChatEnds(g))

GoalNext ==
  \/ Supervise
  \/ \E g \in Goal : Work(g)
  \/ \E g \in Call : UserAnswers(g)

GoalSpec == GoalInit /\ [][GoalNext]_goalvars

(* The event loop and the threads are scheduled, tools and models return,  *)
(* and the user answers every prompt.                                      *)
GoalFairness ==
  /\ WF_goalvars(Supervise)
  /\ \A g \in Goal : WF_goalvars(Work(g))
  /\ \A g \in Call : WF_goalvars(UserAnswers(g))

GoalFairSpec == GoalSpec /\ GoalFairness
-----------------------------------------------------------------------------
Left == {"skipped", "incomplete"}

GoalTypeOK ==
  /\ TaskTypeOK /\ PermissionTypeOK /\ FallbackTypeOK
  /\ supervisor \in {"start", "wait", "process", "check", "assemble", "end"}
  /\ {pending_goals, ready_goals, running, completed, failed, arrived, unchecked}
       \subseteq SUBSET Goal
  /\ result \in [Goal -> {"none", "succeeded", "failed"} \cup Left]
  /\ coroutine \in [Goal -> {"none", "created", "awaiting", "succeeded", "failed"}]

(* The supervisor's bookkeeping, seen as the state of each goal. *)
state ==
  [g \in Goal |->
     IF result[g] \in Left THEN "skipped"
     ELSE IF result[g] # "none" THEN result[g]
     ELSE IF g \in running THEN "running" ELSE "waiting"]

order == INSTANCE GoalOrder

(* Brain supervises a request as GoalOrder promises, though results arrive *)
(* several at a time and in any order, a goal may fail before it has a     *)
(* coroutine, and goals are looked at in no particular order.              *)
ImplementsOrder == order!Spec

(* No task is created before everything that its goal depends on has ended *)
(* in TaskManager, and completed unless the goal is a synthesis: the       *)
(* supervisor's sets are not ahead of the worker threads.                  *)
RunsAfterDependencies ==
  \A g \in Goal : status[g] # "none" =>
    \A d \in deps(g) :
      \/ status[d] = "completed"
      \/ g \in Synthesis /\ (status[d] = "failed" \/ (status[d] = "none" /\ d \in failed))

(* A result says what became of the task: what succeeded was completed, and *)
(* what was skipped or left out never had a task.                           *)
ResultsAreTrue ==
  \A g \in Goal :
    /\ result[g] = "succeeded" <=> (status[g] = "completed" /\ g \in completed)
    /\ result[g] \in Left => status[g] = "none"

(* At most Limit goals have a coroutine, although a synthesis is started   *)
(* without a look at the limit, as long as a request has one synthesis.    *)
LimitRespected ==
  (\A s, t \in Synthesis : s = t) => Cardinality(running) <= Limit

(* A tool that needs permission completes only with the consent of the     *)
(* user, given to itself, to the call it waited for, or kept from earlier. *)
WrittenWithConsent ==
  \A g \in Call : status[g] = "completed" => \E l \in Call : Covers(l, g)

(* A chat fails only when no model is left to be asked, or when one of the *)
(* chain refuses the credentials.                                          *)
NoModelLeftOut == \A c \in Chat : status[c] = "failed" => AllAsked(c) \/ AuthRefused(c)

(* Every request is answered: no order of results, refusals, failures,     *)
(* skipped goals and waits for a prompt leaves handle() waiting.           *)
RequestAnswered == <>(supervisor = "end")

(* "A synthesis goal should execute even with failed dependencies". *)
SynthesisExecutes ==
  supervisor = "end" => \A g \in Synthesis : result[g] \in {"succeeded", "failed"}
=============================================================================
