-------------------------- MODULE GoalExecutionProofs --------------------------
(***************************************************************************)
(* For every set of goals, every acyclic dependency relation and every     *)
(* limit: Brain supervises a request as GoalOrder promises, each result    *)
(* says what became of the task, and what a tool did the user consented to. *)
(*                                                                         *)
(* Books relates the sets that the supervisor keeps to each other and to   *)
(* the coroutines; Tasks relates the coroutines to TaskManager.            *)
(***************************************************************************)
EXTENDS GoalExecution, WorkspacePermissionProofs, FiniteSetTheorems

-----------------------------------------------------------------------------
(***************************************************************************)
(* TaskManager on its own: the capability of a task is executed by one     *)
(* call at a time, for every set of tasks and every order of its           *)
(* operations.                                                             *)
(***************************************************************************)
(* A call of execute() in flight is seen in the status of its task: running *)
(* or paused as long as nobody has cancelled it, cancelled otherwise.  None  *)
(* of these statuses can be executed or retried.                            *)
FlightIsVisible ==
  \A t \in Task :
    \/ inflight[t] = 0 /\ status[t] \notin {"running", "paused"}
    \/ inflight[t] = 1 /\ status[t] \in {"running", "paused", "cancelled"}

TaskInv == TaskTypeOK /\ FlightIsVisible

LEMMA TaskInvInit == TaskInit => TaskInv
BY DEF TaskInit, TaskInv, TaskTypeOK, FlightIsVisible, Ended

LEMMA TaskInvNext == TaskInv /\ [TaskNext]_taskvars => TaskInv'
<1> SUFFICES ASSUME TaskInv, [TaskNext]_taskvars PROVE TaskInv'
  OBVIOUS
<1> USE DEF TaskInv, TaskTypeOK, FlightIsVisible, Ended
<1>1. ASSUME NEW t \in Task, create(t) PROVE TaskInv'
  BY <1>1 DEF create
<1>2. ASSUME NEW t \in Task, Start(t) PROVE TaskInv'
  BY <1>2 DEF Start, Startable
<1>3. ASSUME NEW t \in Task, Complete(t) PROVE TaskInv'
  BY <1>3 DEF Complete, End
<1>4. ASSUME NEW t \in Task, Fail(t) PROVE TaskInv'
  BY <1>4 DEF Fail, End
<1>5. ASSUME NEW t \in Task, Reset(t) PROVE TaskInv'
  BY <1>5 DEF Reset, Move
<1>6. ASSUME NEW t \in Task, pause(t) PROVE TaskInv'
  BY <1>6 DEF pause, Move
<1>7. ASSUME NEW t \in Task, resume(t) PROVE TaskInv'
  BY <1>7 DEF resume, Move
<1>8. ASSUME NEW t \in Task, cancel(t) PROVE TaskInv'
  BY <1>8 DEF cancel, Move
<1>9. ASSUME NEW t \in Task, remove(t) PROVE TaskInv'
  BY <1>9 DEF remove
<1>10. CASE UNCHANGED taskvars
  BY <1>10 DEF taskvars
<1> QED
  BY <1>1, <1>2, <1>3, <1>4, <1>5, <1>6, <1>7, <1>8, <1>9, <1>10 DEF TaskNext

(* However its operations interleave, TaskManager runs the capability of a *)
(* task at most once at a time.                                             *)
THEOREM OneExecution == TaskSpec => []ExclusiveExecution
<1>1. TaskInv => ExclusiveExecution
  <2> SUFFICES ASSUME TaskInv, NEW t \in Task PROVE inflight[t] <= 1
    BY DEF ExclusiveExecution
  <2>1. inflight[t] = 0 \/ inflight[t] = 1
    BY DEF TaskInv, FlightIsVisible
  <2> QED
    BY <2>1
<1> QED
  BY TaskInvInit, TaskInvNext, <1>1, PTL DEF TaskSpec
-----------------------------------------------------------------------------
Supervised ==
  /\ supervisor \in {"start", "wait", "process", "check", "assemble", "end"}
  /\ pending_goals \in SUBSET Goal
  /\ ready_goals \in SUBSET Goal
  /\ running \in SUBSET Goal
  /\ completed \in SUBSET Goal
  /\ failed \in SUBSET Goal
  /\ arrived \in SUBSET Goal
  /\ unchecked \in SUBSET Goal
  /\ result \in [Goal -> {"none", "succeeded", "failed"} \cup Left]
  /\ coroutine \in [Goal -> {"none", "created", "awaiting", "succeeded", "failed"}]

(* Where a goal is. *)
Sorted ==
  /\ \A g \in Goal : g \in pending_goals \/ g \in running \/ g \in completed
  /\ pending_goals \cap running = {}
  /\ pending_goals \cap completed = {}
  /\ running \cap completed = {}
  /\ ready_goals \subseteq pending_goals
  /\ unchecked \subseteq pending_goals
  /\ arrived \subseteq Finished
  /\ failed \subseteq completed

(* What its coroutine and its result are there. *)
Recorded ==
  \A g \in Goal :
    /\ g \in pending_goals => coroutine[g] = "none" /\ result[g] \in {"none", "incomplete"}
    /\ g \in running => coroutine[g] # "none" /\ result[g] = "none"
    /\ g \in completed =>
         \/ coroutine[g] \in {"succeeded", "failed"} /\ result[g] = coroutine[g]
         \/ coroutine[g] = "none" /\ result[g] \in {"failed", "skipped"}
    /\ g \in completed => (g \in failed <=> result[g] # "succeeded")
    /\ result[g] = "incomplete" => supervisor \in {"assemble", "end"}

(* What is ready or has started was not blocked ... *)
Fit(g) == deps(g) \subseteq completed /\ (g \in Synthesis \/ deps(g) \cap failed = {})

Started ==
  /\ \A g \in ready_goals : deps(g) \subseteq completed \ failed
  /\ \A g \in Goal : coroutine[g] # "none" => Fit(g)

(* ... and what is not ready is blocked, once it has been looked at. *)
Blocked ==
  /\ \A g \in pending_goals \ (ready_goals \cup unchecked) :
       ~(deps(g) \subseteq completed \ failed)
  /\ supervisor # "check" => unchecked = {}
  /\ supervisor \in {"assemble", "end"} => running = {} /\ ready_goals = {}

Books == Supervised /\ Sorted /\ Recorded /\ Started /\ Blocked

LEMMA BooksInit == GoalInit => Books
  BY DEF GoalInit, Books, Supervised, Sorted, Recorded, Started, Blocked, Finished, Left

(* A coroutine or a worker thread moves: the books stay, and a coroutine    *)
(* that exists goes on from its creation to its end.                        *)
LEMMA WorkKeeps ==
  ASSUME NEW g \in Goal, Work(g) \/ (g \in Call /\ UserAnswers(g)), Books
  PROVE  /\ UNCHANGED <<supervisor, pending_goals, ready_goals, running, completed,
                        failed, result, arrived, unchecked>>
         /\ \/ coroutine' = coroutine
            \/ /\ coroutine[g] \in {"created", "awaiting"}
               /\ \E s \in {"awaiting", "succeeded", "failed"} :
                    coroutine' = [coroutine EXCEPT ![g] = s]
  BY DEF Work, CreateTask, Resume, Execute, OtherEnds, AskPermission, ToolEnds, ChatAsks,
         ChatEnds, UserAnswers, Step, supervision, Succeeded

LEMMA BooksWork ==
  ASSUME NEW g \in Goal, Work(g) \/ (g \in Call /\ UserAnswers(g)), Books
  PROVE  Books'
<1>1. CASE coroutine' = coroutine
  BY <1>1, WorkKeeps DEF Books, Supervised, Sorted, Recorded, Started, Blocked, Finished,
     Fit
<1>2. ASSUME coroutine[g] \in {"created", "awaiting"},
             NEW s \in {"awaiting", "succeeded", "failed"},
             coroutine' = [coroutine EXCEPT ![g] = s]
      PROVE  Books'
  <2>1. UNCHANGED <<supervisor, pending_goals, ready_goals, running, completed, failed,
                    result, arrived, unchecked>>
    BY WorkKeeps
  <2>2. Supervised'  BY <1>2, <2>1 DEF Books, Supervised
  <2>3. Sorted'  BY <1>2, <2>1 DEF Books, Supervised, Sorted, Finished
  <2>4. Recorded'  BY <1>2, <2>1 DEF Books, Supervised, Sorted, Recorded
  <2>5. Started'  BY <1>2, <2>1 DEF Books, Supervised, Started, Fit
  <2>6. Blocked'  BY <2>1 DEF Books, Blocked
  <2> QED  BY <2>2, <2>3, <2>4, <2>5, <2>6 DEF Books
<1> QED  BY <1>1, <1>2, WorkKeeps

LEMMA BooksSupervise ==
  ASSUME Supervise, Books
  PROVE  Books'
<1> USE DEF Books, Supervised, Sorted, Recorded, Started, Blocked, Fit, Finished,
           Left
<1>1. CASE Await  BY <1>1 DEF Await, NoneMayStart
<1>2. CASE Break
  <2>1. running = {} /\ ready_goals = {}
    <3>1. Cardinality(running) < Limit
      BY <1>2, FS_EmptySet, GoalAssumption DEF Break
    <3> QED  BY <1>2, <3>1 DEF Break, NoneMayStart, MayStart
  <2> QED  BY <1>2, <2>1 DEF Break, NoneMayStart
<1>3. CASE Arrive  BY <1>3 DEF Arrive
<1>4. CASE Checked  BY <1>4 DEF Checked
<1>5. CASE Return  BY <1>5 DEF Return
<1>6. ASSUME NEW g \in Goal, StartReady(g) PROVE Books'
  BY <1>6 DEF StartReady, MayStart, Spawn
<1>7. ASSUME NEW g \in Goal, RefuseReady(g) PROVE Books'
  BY <1>7 DEF RefuseReady, MayStart, Settle
<1>8. ASSUME NEW g \in Goal, Process(g) PROVE Books'
  BY <1>8 DEF Process
<1>9. ASSUME NEW g \in Goal, LeaveOut(g) PROVE Books'
  BY <1>9 DEF LeaveOut
<1>10. ASSUME NEW g \in Goal, NotUnblocked(g) PROVE Books'
  BY <1>10 DEF NotUnblocked, Checking, Unblocked
<1>11. ASSUME NEW g \in Goal, MakeReady(g) PROVE Books'
  BY <1>11 DEF MakeReady, Checking, Unblocked
<1>12. ASSUME NEW g \in Goal, SkipGoal(g) PROVE Books'
  BY <1>12 DEF SkipGoal, Checking, Unblocked, Settle
<1>13. ASSUME NEW g \in Goal, StartSynthesis(g) PROVE Books'
  BY <1>13 DEF StartSynthesis, Checking, Unblocked, Spawn
<1> QED
  BY <1>1, <1>2, <1>3, <1>4, <1>5, <1>6, <1>7, <1>8, <1>9, <1>10, <1>11, <1>12, <1>13
     DEF Supervise

LEMMA BooksStep ==
  ASSUME Books, [GoalNext]_goalvars
  PROVE  Books'
<1>1. CASE UNCHANGED goalvars
  BY <1>1 DEF goalvars, supervision, Books, Supervised, Sorted, Recorded, Started, Blocked,
     Fit, Finished
<1> QED  BY <1>1, BooksWork, BooksSupervise, GoalAssumption DEF GoalNext

LEMMA BooksInductive == GoalSpec => []Books
  BY BooksInit, BooksStep, PTL DEF GoalSpec
-----------------------------------------------------------------------------
(***************************************************************************)
(* Brain implements GoalOrder.                                             *)
(***************************************************************************)
LEMMA StateType ==
  ASSUME Books
  PROVE  /\ state \in [Goal -> {"waiting", "running"} \cup order!Final]
         /\ \A g \in Goal :
              /\ g \in pending_goals /\ result[g] = "none" => state[g] = "waiting"
              /\ g \in running => state[g] = "running"
              /\ g \in completed => state[g] \in order!Final
              /\ g \in completed \ failed => state[g] = "succeeded"
              /\ g \in failed => state[g] \in {"failed", "skipped"}
  BY DEF Books, Supervised, Sorted, Recorded, Left, state, order!Final

LEMMA OrderInit == GoalInit => order!Init
  BY DEF GoalInit, order!Init, state, Left

LEMMA SameDeps == \A g \in Goal : order!deps(g) = deps(g)
  BY DEF deps, order!deps

LEMMA OrderWork ==
  ASSUME NEW g \in Goal, Work(g) \/ (g \in Call /\ UserAnswers(g)), Books
  PROVE  state' = state
  BY WorkKeeps DEF state

LEMMA OrderSupervise ==
  ASSUME Supervise, Books
  PROVE  order!Next \/ state' = state
<1> USE DEF Left
<1>1. CASE Await \/ Break \/ Arrive \/ Checked \/ Return
  BY <1>1 DEF Await, Break, Arrive, Checked, Return, state
<1>2. ASSUME NEW g \in Goal, NotUnblocked(g) \/ MakeReady(g)
      PROVE  state' = state
  BY <1>2 DEF NotUnblocked, MakeReady, state
<1>3. ASSUME NEW g \in Goal, StartReady(g)
      PROVE  order!Start(g)
  <2>1. g \in pending_goals /\ result[g] = "none" /\ deps(g) \subseteq completed \ failed
    BY <1>3 DEF StartReady, MayStart, Books, Sorted, Recorded, Started, Supervised
  <2>2. state' = [state EXCEPT ![g] = "running"]
    BY <1>3, <2>1 DEF StartReady, Spawn, state
  <2>3. \A d \in deps(g) : state[d] = "succeeded"
    BY <2>1, StateType DEF deps
  <2> QED
    BY <2>1, <2>2, <2>3, StateType, SameDeps DEF order!Start, order!Leave, order!Final
<1>4. ASSUME NEW g \in Goal, RefuseReady(g)
      PROVE  order!Refuse(g)
  <2>1. g \in pending_goals /\ result[g] = "none" /\ deps(g) \subseteq completed \ failed
    BY <1>4 DEF RefuseReady, MayStart, Books, Sorted, Recorded, Started, Supervised
  <2>2. state' = [state EXCEPT ![g] = "failed"]
    BY <1>4, <2>1 DEF RefuseReady, Settle, state, Books, Supervised
  <2>3. \A d \in deps(g) : state[d] = "succeeded"
    BY <2>1, StateType DEF deps
  <2> QED  BY <2>1, <2>2, <2>3, StateType, SameDeps DEF order!Refuse, order!Leave
<1>5. ASSUME NEW g \in Goal, Process(g)
      PROVE  \E s \in {"succeeded", "failed"} : order!Finish(g, s)
  <2>1. g \in running /\ coroutine[g] \in {"succeeded", "failed"}
    BY <1>5 DEF Process, Books, Sorted, Finished
  <2>2. state' = [state EXCEPT ![g] = coroutine[g]]
    BY <1>5, <2>1 DEF Process, state, Books, Supervised
  <2> QED  BY <2>1, <2>2, StateType DEF order!Finish, order!Leave
<1>6. ASSUME NEW g \in Goal, SkipGoal(g)
      PROVE  order!Skip(g)
  <2>1. /\ g \in pending_goals /\ result[g] = "none"
        /\ \E d \in deps(g) : d \in failed
    BY <1>6 DEF SkipGoal, Checking, Books, Sorted, Recorded, Supervised
  <2>2. state' = [state EXCEPT ![g] = "skipped"]
    BY <1>6, <2>1 DEF SkipGoal, Settle, state, Books, Supervised
  <2>3. \E d \in deps(g) : state[d] \in {"failed", "skipped"}
    BY <2>1, StateType DEF deps
  <2> QED  BY <2>1, <2>2, <2>3, StateType, SameDeps DEF order!Skip, order!Leave
<1>7. ASSUME NEW g \in Goal, StartSynthesis(g)
      PROVE  order!Start(g)
  <2>1. /\ g \in pending_goals /\ result[g] = "none" /\ g \in Synthesis
        /\ deps(g) \subseteq completed
    BY <1>7 DEF StartSynthesis, Checking, Unblocked, Books, Sorted, Recorded, Supervised
  <2>2. state' = [state EXCEPT ![g] = "running"]
    BY <1>7, <2>1 DEF StartSynthesis, Spawn, state
  <2>3. \A d \in deps(g) : state[d] \in order!Final
    BY <2>1, StateType DEF deps
  <2> QED
    BY <2>1, <2>2, <2>3, StateType, SameDeps DEF order!Start, order!Leave
<1>8. ASSUME NEW g \in Goal, LeaveOut(g)
      PROVE  order!Skip(g)
  <2>1. /\ supervisor = "assemble" /\ result[g] = "none"
        /\ result' = [result EXCEPT ![g] = "incomplete"] /\ running' = running
        /\ \A d \in deps(g) : result[d] # "none"
    BY <1>8 DEF LeaveOut
  <2>2. g \in pending_goals
    BY <2>1 DEF Books, Sorted, Recorded, Blocked
  <2>3. ~(deps(g) \subseteq completed \ failed)
    BY <2>1, <2>2 DEF Books, Blocked
  <2>4. PICK d \in deps(g) : d \notin completed \/ d \in failed
    BY <2>3
  <2>5. d \in Goal
    BY DEF deps
  <2>6. state[d] \in {"failed", "skipped"}
    <3>1. CASE d \in failed
      BY <3>1, <2>5, StateType
    <3>2. CASE d \notin completed
      <4>1. d \in pending_goals
        BY <3>2, <2>1, <2>5 DEF Books, Sorted, Blocked
      <4>2. result[d] = "incomplete"
        BY <4>1, <2>1, <2>5 DEF Books, Recorded
      <4> QED  BY <4>2, <2>5 DEF state
    <3> QED  BY <2>4, <3>1, <3>2
  <2>7. state' = [state EXCEPT ![g] = "skipped"]
    BY <2>1 DEF state, Books, Supervised
  <2> QED  BY <2>1, <2>2, <2>6, <2>7, StateType, SameDeps DEF order!Skip, order!Leave
<1> QED
  BY <1>1, <1>2, <1>3, <1>4, <1>5, <1>6, <1>7, <1>8 DEF Supervise, order!Next

LEMMA OrderStep ==
  ASSUME Books, [GoalNext]_goalvars
  PROVE  [order!Next]_state
<1>1. CASE UNCHANGED goalvars
  BY <1>1 DEF goalvars, supervision, state
<1> QED  BY <1>1, OrderWork, OrderSupervise, GoalAssumption DEF GoalNext

(* However the results of a request arrive, the supervisor starts, skips,  *)
(* fails and leaves out goals only as GoalOrder allows.                     *)
THEOREM OrderImplemented == GoalSpec => ImplementsOrder
  BY OrderInit, BooksInductive, OrderStep, PTL DEF GoalSpec, ImplementsOrder, order!Spec
-----------------------------------------------------------------------------
(***************************************************************************)
(* The components inside a request take only their own steps.              *)
(***************************************************************************)
LEMMA ComponentSteps ==
  ASSUME [GoalNext]_goalvars
  PROVE  [PermissionNext]_permission /\ [TaskNext]_taskvars
<1>1. CASE Supervise
  BY <1>1 DEF Supervise, Await, Break, Arrive, Checked, Return, StartReady, RefuseReady,
     Process, LeaveOut, NotUnblocked, MakeReady, SkipGoal, StartSynthesis, outside
<1>2. ASSUME NEW g \in Goal, Work(g)
      PROVE  [PermissionNext]_permission /\ [TaskNext]_taskvars
  <2>1. CASE CreateTask(g) \/ Resume(g) \/ Execute(g)
    BY <2>1 DEF CreateTask, Resume, Execute, Step, TaskNext, Goal
  <2>2. CASE OtherEnds(g) \/ ToolEnds(g) \/ ChatEnds(g)
    BY <2>2 DEF OtherEnds, ToolEnds, ChatEnds, TaskNext, Goal
  <2>3. CASE g \in Call /\ AskPermission(g)
    BY <2>3 DEF AskPermission, PermissionNext
  <2>4. CASE ChatAsks(g)
    BY <2>4 DEF ChatAsks
  <2> QED  BY <1>2, <2>1, <2>2, <2>3, <2>4 DEF Work
<1>3. ASSUME NEW g \in Call, UserAnswers(g)
      PROVE  [PermissionNext]_permission /\ [TaskNext]_taskvars
  BY <1>3 DEF UserAnswers, PermissionNext
<1>4. CASE UNCHANGED goalvars
  BY <1>4 DEF goalvars
<1> QED  BY <1>1, <1>2, <1>3, <1>4 DEF GoalNext

LEMMA ComponentsInductive == GoalSpec => [](PermissionInv /\ TaskInv)
<1>1. GoalInit => PermissionInv /\ TaskInv
  BY PermissionInvInit, TaskInvInit DEF GoalInit
<1>2. PermissionInv /\ TaskInv /\ [GoalNext]_goalvars => (PermissionInv /\ TaskInv)'
  BY ComponentSteps, PermissionInvStep, TaskInvNext
<1> QED  BY <1>1, <1>2, PTL DEF GoalSpec

(* In a request too, overlapping tools show one prompt for one operation. *)
THEOREM RequestSharesPrompts == GoalSpec => []OnePrompt
  BY ComponentsInductive, OneLeader, PTL DEF PermissionInv

(* In a request too, what is refused the user has denied. *)
THEOREM RequestRefusesByUser == GoalSpec => []RefusedByUser
  BY ComponentsInductive, PTL DEF PermissionInv
-----------------------------------------------------------------------------
(***************************************************************************)
(* The coroutines and the tasks.                                           *)
(***************************************************************************)
Tasks ==
  \A g \in Goal :
    /\ status[g] \in {"none", "pending", "running", "completed", "failed"}
    /\ coroutine[g] \in {"none", "created"} => status[g] = "none"
    /\ coroutine[g] = "awaiting" => status[g] # "none"
    /\ coroutine[g] = "succeeded" => status[g] = "completed"
    /\ coroutine[g] = "failed" => status[g] = "failed"

(* What a tool that has completed was told. *)
Consented ==
  \A g \in Call : status[g] = "completed" => at[g] = "done" /\ decision[g]

TasksInv == Books /\ PermissionInv /\ TaskInv /\ Tasks /\ Consented

LEMMA TasksSupervise ==
  ASSUME Supervise, TasksInv
  PROVE  Tasks' /\ Consented'
<1> USE DEF TasksInv, Books, Supervised, Sorted, Recorded, Tasks, Consented, outside,
           taskvars, permission
<1>1. ASSUME NEW g \in Goal, StartReady(g) \/ StartSynthesis(g)
      PROVE  Tasks' /\ Consented'
  BY <1>1, GoalAssumption DEF StartReady, StartSynthesis, MayStart, Checking, Spawn
<1>2. CASE Await \/ Break \/ Arrive \/ Checked \/ Return
  BY <1>2 DEF Await, Break, Arrive, Checked, Return
<1>3. ASSUME NEW g \in Goal,
             \/ RefuseReady(g) \/ Process(g) \/ LeaveOut(g)
             \/ NotUnblocked(g) \/ MakeReady(g) \/ SkipGoal(g)
      PROVE  Tasks' /\ Consented'
  BY <1>3 DEF RefuseReady, Process, LeaveOut, NotUnblocked, MakeReady, SkipGoal
<1> QED  BY <1>1, <1>2, <1>3 DEF Supervise

(* The end of check() is final. *)
LEMMA DecisionStands ==
  ASSUME PermissionInv, [PermissionNext]_permission, NEW g \in Call, at[g] = "done"
  PROVE  at'[g] = "done" /\ decision'[g] = decision[g]
<1> USE DEF PermissionInv, Kernel, PermissionTypeOK
<1>1. ASSUME NEW c \in Call, Enter(c)  PROVE at'[g] = "done" /\ decision'[g] = decision[g]
  BY <1>1 DEF Enter, IsTrusted, NotTrusted, Goto, Decide
<1>2. ASSUME NEW c \in Call, Prompted(c)
      PROVE  at'[g] = "done" /\ decision'[g] = decision[g]
  BY <1>2 DEF Prompted, Answer, Goto, Decide
<1>3. ASSUME NEW c \in Call, Proceed(c)
      PROVE  at'[g] = "done" /\ decision'[g] = decision[g]
  BY <1>3 DEF Proceed, Contains, CheckGrant, Lead, Follow, Revoke, Grant, Trust, Pop,
     SetEvent, Wake, Goto, Decide
<1> QED  BY <1>1, <1>2, <1>3 DEF PermissionNext, permission

LEMMA TasksWork ==
  ASSUME NEW g \in Goal, Work(g) \/ (g \in Call /\ UserAnswers(g)), TasksInv,
         [PermissionNext]_permission
  PROVE  Tasks' /\ Consented'
<1> USE DEF TasksInv, Books, Supervised, Tasks, TaskInv, TaskTypeOK, Ended, Goal
<1>1. \A c \in Call : at[c] = "done" => at'[c] = "done" /\ decision'[c] = decision[c]
  BY DecisionStands
<1>2. CASE CreateTask(g)
  BY <1>1, <1>2, GoalAssumption DEF CreateTask, Step, create, Consented
<1>3. CASE Resume(g)
  BY <1>1, <1>3 DEF Resume, Step, Succeeded, taskvars, Consented
<1>4. CASE Execute(g)
  BY <1>1, <1>4, GoalAssumption DEF Execute, Start, supervision, Consented
<1>5. CASE ToolEnds(g)
  BY <1>1, <1>5, GoalAssumption DEF ToolEnds, Complete, Fail, End, supervision, Consented
<1>6. CASE OtherEnds(g) \/ ChatEnds(g)
  <2>1. g \notin Call
    BY <1>6, GoalAssumption DEF OtherEnds, ChatEnds
  <2>2. /\ status[g] = "running" /\ coroutine' = coroutine
        /\ \E s \in {"completed", "failed"} : status' = [status EXCEPT ![g] = s]
    BY <1>6 DEF OtherEnds, ChatEnds, Complete, Fail, End, supervision
  <2> QED  BY <1>1, <2>1, <2>2, GoalAssumption DEF Consented
<1>7. CASE AskPermission(g) \/ UserAnswers(g) \/ ChatAsks(g)
  BY <1>1, <1>7 DEF AskPermission, UserAnswers, ChatAsks, supervision, taskvars, Consented
<1> QED  BY <1>2, <1>3, <1>4, <1>5, <1>6, <1>7 DEF Work

LEMMA TasksInductive == GoalSpec => []TasksInv
<1>1. GoalInit => Tasks /\ Consented
  BY GoalAssumption DEF GoalInit, TaskInit, Tasks, Consented, Goal
<1>2. TasksInv /\ [GoalNext]_goalvars => Tasks' /\ Consented'
  <2> SUFFICES ASSUME TasksInv, [GoalNext]_goalvars  PROVE Tasks' /\ Consented'
    OBVIOUS
  <2>1. CASE UNCHANGED goalvars
    BY <2>1 DEF TasksInv, Tasks, Consented, goalvars, supervision, taskvars, permission
  <2> QED
    BY <2>1, TasksSupervise, TasksWork, ComponentSteps, GoalAssumption DEF GoalNext
<1> QED
  BY <1>1, <1>2, BooksInductive, ComponentsInductive, PTL DEF GoalSpec, TasksInv

(* No task is created before all that its goal depends on has ended, and   *)
(* completed unless the goal is a synthesis.                                *)
THEOREM DependenciesFirst == GoalSpec => []RunsAfterDependencies
<1>1. TasksInv => RunsAfterDependencies
  <2> SUFFICES ASSUME TasksInv, NEW g \in Goal, status[g] # "none", NEW d \in deps(g)
               PROVE  \/ status[d] = "completed"
                      \/ /\ g \in Synthesis
                         /\ status[d] = "failed" \/ (status[d] = "none" /\ d \in failed)
    BY DEF RunsAfterDependencies
  <2>1. coroutine[g] # "none"
    BY DEF TasksInv, Tasks
  <2>2. d \in completed /\ (d \in failed => g \in Synthesis)
    BY <2>1 DEF TasksInv, Books, Started, Fit
  <2>3. d \in Goal
    BY DEF deps
  <2> QED  BY <2>2, <2>3 DEF TasksInv, Tasks, Books, Recorded
<1> QED  BY <1>1, TasksInductive, PTL

(* A result says what became of the task. *)
THEOREM ResultsTrue == GoalSpec => []ResultsAreTrue
<1>1. TasksInv => ResultsAreTrue
  BY DEF TasksInv, Tasks, Books, Sorted, Recorded, ResultsAreTrue, Left
<1> QED  BY <1>1, TasksInductive, PTL

(* What a tool that needs permission has done, the user consented to. *)
THEOREM ConsentForWrites == GoalSpec => []WrittenWithConsent
<1>1. TasksInv => WrittenWithConsent
  BY DEF TasksInv, Consented, PermissionInv, AuthorizedByUser, WrittenWithConsent
<1> QED  BY <1>1, TasksInductive, PTL
-----------------------------------------------------------------------------
(***************************************************************************)
(* The concurrency limit.                                                  *)
(***************************************************************************)
OneSynthesis == \A s, t \in Synthesis : s = t

(* While a synthesis may still be started, one place is free: that of the  *)
(* goal whose result is being looked at.                                    *)
Bounded ==
  /\ IsFiniteSet(running)
  /\ OneSynthesis =>
       /\ Cardinality(running) <= Limit
       /\ supervisor = "check" /\ Synthesis \cap pending_goals # {} =>
            Cardinality(running) < Limit

LEMMA BoundedSupervise ==
  ASSUME Supervise, Books, Bounded
  PROVE  Bounded'
<1> USE GoalAssumption DEF Bounded
<1>1. Cardinality(running) \in Nat
  BY FS_CardinalityType
<1>2. \A g \in Goal \ running :
        /\ IsFiniteSet(running \cup {g})
        /\ Cardinality(running \cup {g}) = Cardinality(running) + 1
  BY FS_AddElement
<1>3. \A g \in running :
        /\ IsFiniteSet(running \ {g})
        /\ Cardinality(running \ {g}) = Cardinality(running) - 1
  BY FS_RemoveElement
<1>4. CASE Await \/ Break \/ Arrive \/ Checked \/ Return
  BY <1>1, <1>4 DEF Await, Break, Arrive, Checked, Return
<1>5. ASSUME NEW g \in Goal, StartReady(g)  PROVE Bounded'
  <2>1. g \notin running
    BY <1>5 DEF StartReady, MayStart, Books, Sorted
  <2> QED  BY <1>1, <1>2, <1>5, <2>1 DEF StartReady, MayStart, Spawn
<1>6. ASSUME NEW g \in Goal,
             RefuseReady(g) \/ LeaveOut(g) \/ NotUnblocked(g) \/ MakeReady(g) \/ SkipGoal(g)
      PROVE  Bounded'
  BY <1>1, <1>6
     DEF RefuseReady, MayStart, LeaveOut, NotUnblocked, MakeReady, SkipGoal, Settle
<1>7. ASSUME NEW g \in Goal, Process(g)  PROVE Bounded'
  <2>1. g \in running
    BY <1>7 DEF Process, Books, Sorted, Finished
  <2> QED  BY <1>1, <1>3, <1>7, <2>1 DEF Process
<1>8. ASSUME NEW g \in Goal, StartSynthesis(g)  PROVE Bounded'
  <2>1. /\ g \in Synthesis /\ g \in pending_goals /\ g \notin running
        /\ supervisor = "check"
    BY <1>8 DEF StartSynthesis, Checking, Books, Sorted
  <2>2. OneSynthesis => Synthesis \cap pending_goals' = {}
    BY <1>8, <2>1 DEF StartSynthesis, Spawn, OneSynthesis
  <2>3. OneSynthesis => Cardinality(running) < Limit
    BY <2>1
  <2> QED  BY <1>1, <1>2, <1>8, <2>1, <2>2, <2>3 DEF StartSynthesis, Spawn
<1> QED  BY <1>4, <1>5, <1>6, <1>7, <1>8 DEF Supervise

(* A request with one synthesis goal never has more coroutines than the    *)
(* limit, although the synthesis is started without a look at it.           *)
THEOREM LimitHolds == GoalSpec => []LimitRespected
<1>1. GoalInit => Bounded
  BY FS_EmptySet, GoalAssumption DEF GoalInit, Bounded
<1>2. Books /\ Bounded /\ [GoalNext]_goalvars => Bounded'
  <2> SUFFICES ASSUME Books, Bounded, [GoalNext]_goalvars  PROVE Bounded'
    OBVIOUS
  <2>1. CASE UNCHANGED goalvars
    BY <2>1 DEF goalvars, supervision, Bounded
  <2>2. ASSUME NEW g \in Goal, Work(g) \/ (g \in Call /\ UserAnswers(g))  PROVE Bounded'
    BY <2>2, WorkKeeps DEF Bounded
  <2> QED  BY <2>1, <2>2, BoundedSupervise, GoalAssumption DEF GoalNext
<1>3. Bounded => LimitRespected
  BY DEF Bounded, LimitRespected, OneSynthesis
<1> QED  BY <1>1, <1>2, <1>3, BooksInductive, PTL DEF GoalSpec
=============================================================================
