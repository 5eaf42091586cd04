---------------------------- MODULE TaskLifeProofs ----------------------------
(***************************************************************************)
(* What the threads do to a task, for every number of loops and goals.     *)
(*                                                                         *)
(* First the READY rows: they and the loops at work are a TaskQueue,       *)
(* whatever the client calls.  Then a task without dependencies that no    *)
(* client touches: its row and its attempts only change in the few ways    *)
(* that Effect lists, from which it follows that its end is final and that *)
(* the end of its worker is recorded, and, when all tasks are such, that a *)
(* FAILED mission has a FAILED task.                                       *)
(***************************************************************************)
EXTENDS ExclusiveWorkProofs

-----------------------------------------------------------------------------
(***************************************************************************)
(* The queue.  A step of the request thread or of a client leaves the      *)
(* loops alone and changes at most one row: it offers a task, withdraws    *)
(* one or does nothing to the queue.  A step of a loop takes a task (a     *)
(* claim that finds the row READY), ends its work or does nothing to the   *)
(* queue.  That an offered task is not at work is WorkInv of the state     *)
(* after the step.                                                         *)
(***************************************************************************)
(* The queue that WorkInv's state stands for. *)
LEMMA QueueState ==
  ASSUME WorkInv
  PROVE  /\ \A l \in Loop : Working(l) => cur[l] \in Task /\ Work[l] = cur[l]
         /\ \A l \in Loop : ~Working(l) => Work[l] = NoTask
         /\ \A l \in Loop : Work[l] # NoTask => Working(l)
         /\ \A l \in Loop : Work[l] \notin Offered
<1>1. \A l \in Loop : Working(l) => cur[l] \in Task
  BY DEF Working, WorkPC, WorkInv, TypeOK, PCOK
<1>2. \A l \in Loop : Work[l] = IF Working(l) THEN cur[l] ELSE NoTask
  BY DEF Work
<1>3. \A l \in Loop : Working(l) => task[cur[l]].status # "ready"
  BY DEF WorkInv, RowAtWork, Busy
<1>4. NoTask \notin Task
  BY ConstantsAssumption
<1> QED
  BY <1>1, <1>2, <1>3, <1>4 DEF Offered

(* The queue stutters when no loop's work and no row's readiness changes.  *)
LEMMA QueueStutters ==
  ASSUME \A l \in Loop : (Working(l)' <=> Working(l)) /\ (Working(l) => cur'[l] = cur[l]),
         \A u \in Task : task'[u].status = "ready" <=> task[u].status = "ready"
  PROVE  UNCHANGED Queue!vars
<1>1. Offered' = Offered
  BY DEF Offered
<1>2. Work' = Work
  BY DEF Work
<1> QED
  BY <1>1, <1>2 DEF Queue!vars

(* Become writes one row, or none when it is given no task. *)
LEMMA AtMostOneRow ==
  ASSUME TypeOK, NEW t, NEW r \in TaskRow, NEW status, Become(t, r, status)
  PROVE  \/ UNCHANGED task
         \/ t \in Task /\ \A u \in Task \ {t} : task'[u] = task[u]
<1> DEFINE R == [r EXCEPT !.status = status]
<1>a. task' = [task EXCEPT ![t] = R]
  BY DEF Become
<1>b. DOMAIN task = Task
  BY DEF TypeOK
<1> HIDE DEF R
<1>1. CASE t \in Task
  BY <1>1, <1>a, <1>b
<1>2. CASE t \notin Task
  BY <1>2, BecomeNothing
<1> QED
  BY <1>1, <1>2

(* A thread that is not a loop writes at most one row.  If this makes the  *)
(* row READY, nobody works on its task in the state that results.          *)
LEMMA OthersOffer ==
  ASSUME WorkInv, WorkInv',
         \A l \in Loop : pc'[l] = pc[l] /\ cur'[l] = cur[l],
         \/ UNCHANGED task
         \/ \E t \in Task : \A u \in Task \ {t} : task'[u] = task[u]
  PROVE  [Queue!Next]_(Queue!vars)
<1>1. \A l \in Loop : (Working(l)' <=> Working(l)) /\ (Working(l) => cur'[l] = cur[l])
  BY DEF Working
<1>2. CASE UNCHANGED task
  BY <1>1, <1>2, QueueStutters
<1>3. ASSUME NEW t \in Task, \A u \in Task \ {t} : task'[u] = task[u]
      PROVE  [Queue!Next]_(Queue!vars)
  <2>1. UNCHANGED Work
    BY <1>1 DEF Work
  <2>2. CASE task[t].status # "ready" /\ task'[t].status = "ready"
    <3>1. Offered' = Offered \cup {t} /\ t \notin Offered
      BY <1>3, <2>2 DEF Offered
    <3>2. \A l \in Loop : Working(l) => cur[l] # t
      BY <1>1, <2>2 DEF WorkInv, RowAtWork, Busy
    <3>3. \A l \in Loop : Work[l] # t
      BY <3>2, ConstantsAssumption DEF Work
    <3> QED
      BY <2>1, <3>1, <3>3 DEF Queue!Next, Queue!Offer, Queue!Idle
  <2>3. CASE task[t].status = "ready" /\ task'[t].status # "ready"
    <3>1. Offered' = Offered \ {t} /\ t \in Offered
      BY <1>3, <2>3 DEF Offered
    <3> QED
      BY <2>1, <3>1 DEF Queue!Next, Queue!Withdraw
  <2>4. CASE task[t].status = "ready" <=> task'[t].status = "ready"
    BY <1>1, <1>3, <2>4, QueueStutters
  <2> QED
    BY <2>2, <2>3, <2>4
<1> QED
  BY <1>2, <1>3

-----------------------------------------------------------------------------
(* A loop goes on with its task or ends its work, and makes no row READY.  *)
LEMMA LoopFinishes ==
  ASSUME WorkInv, NEW l \in Loop,
         \A m \in Loop \ {l} : pc'[m] = pc[m] /\ cur'[m] = cur[m],
         Working(l)' => Working(l) /\ cur'[l] = cur[l],
         \A u \in Task : task'[u].status = "ready" <=> task[u].status = "ready"
  PROVE  [Queue!Next]_(Queue!vars)
<1>1. \A m \in Loop \ {l} : (Working(m)' <=> Working(m)) /\ cur'[m] = cur[m]
  BY DEF Working
<1>2. CASE Working(l)' \/ ~Working(l)
  BY <1>1, <1>2, QueueStutters
<1>3. CASE ~Working(l)' /\ Working(l)
  <2>1. Offered' = Offered
    BY DEF Offered
  <2>2. Work' = [Work EXCEPT ![l] = NoTask]
    BY <1>1, <1>3 DEF Work
  <2>3. Work[l] # NoTask
    BY <1>3, QueueState, ConstantsAssumption
  <2> QED
    BY <2>1, <2>2, <2>3 DEF Queue!Next, Queue!Finish
<1> QED
  BY <1>2, <1>3

(* A claim that finds the row READY takes the task off the queue.          *)
LEMMA ClaimTakes ==
  ASSUME WorkInv, NEW l \in Loop, ClaimTask(l)
  PROVE  [Queue!Next]_(Queue!vars)
<1> DEFINE t == cur[l]
<1>1. /\ pc[l] = "claim" /\ t \in Task /\ l \in Thread
      /\ DOMAIN cur = Thread /\ Loop \subseteq Thread
  BY DEF ClaimTask, At, WorkInv, TypeOK, PCOK, Thread
<1>2. ~Working(l)
  BY <1>1 DEF Working, WorkPC
<1>3. CASE task[t].status # "ready"
  <2>1. Goto(l, "idle") /\ UNCHANGED task /\ cur' = [cur EXCEPT ![l] = NoTask]
    BY <1>3 DEF ClaimTask
  <2>2. \A m \in Loop \ {l} : pc'[m] = pc[m] /\ cur'[m] = cur[m]
    BY <1>1, <2>1, ThreadFacts DEF WorkInv
  <2>3. ~Working(l)'
    BY <1>1, <2>1, ThreadFacts DEF WorkInv, Working, WorkPC
  <2> QED
    BY <2>1, <2>2, <2>3, LoopFinishes
<1>4. CASE task[t].status = "ready"
  <2>1. Become(t, task[t], "running") /\ Goto(l, "register") /\ UNCHANGED cur
    BY <1>4 DEF ClaimTask
  <2>2. /\ task'[t].status = "running"
        /\ \A u \in Task \ {t} : task'[u] = task[u]
    <3>1. task[t] \in TaskRow
      BY <1>1 DEF WorkInv, TypeOK
    <3> QED
      BY <1>1, <2>1, <3>1, BecomeStatus DEF WorkInv
  <2>3. pc'[l] = "register" /\ \A m \in Loop \ {l} : pc'[m] = pc[m]
    BY <1>1, <2>1, ThreadFacts DEF WorkInv
  <2>4. Working(l)' /\ \A m \in Loop \ {l} : Working(m)' <=> Working(m)
    BY <2>3 DEF Working, WorkPC
  <2>5. t \in Offered /\ Offered' = Offered \ {t}
    BY <1>1, <1>4, <2>2 DEF Offered
  <2>6. Work[l] = NoTask /\ Work' = [Work EXCEPT ![l] = t]
    BY <1>2, <2>1, <2>4 DEF Work
  <2> QED
    BY <1>1, <2>5, <2>6 DEF Queue!Next, Queue!Take
<1> QED
  BY <1>3, <1>4

(* The other steps of a loop.  Those that write a row write that of the    *)
(* task it works on, which is Busy before and is not made READY.           *)
LEMMA LoopImplements ==
  ASSUME WorkInv, WorkInv', NEW l \in Loop, LoopStep(l)
  PROVE  [Queue!Next]_(Queue!vars)
<1> USE DEF rows, control
<1>a. /\ l \in Thread /\ Loop \subseteq Thread /\ DOMAIN cur = Thread
      /\ DOMAIN pc = Thread
      /\ Working(l) => cur[l] \in Task /\ task[cur[l]].status # "ready"
      /\ row[l] \in TaskRow
  BY ThreadFacts, QueueState DEF WorkInv, TypeOK, PCOK, RowAtWork, Busy
<1>1. CASE ClaimTask(l)
  BY <1>1, ClaimTakes
<1>2. CASE \/ RegisterActive(l) \/ Prepare(l) \/ SpawnExecution(l) \/ SpawnWorker(l)
           \/ WorkerStart(l) \/ Dispatch(l) \/ WorkerComplete(l) \/ WorkerFail(l)
           \/ TryFallback(l) \/ PlanStep(l) \/ ProgressRead(l) \/ CompleteRead(l)
           \/ FailRead(l)
  <2>1. /\ \E label : Goto(l, label)
        /\ Working(l)
        /\ UNCHANGED <<task, cur>>
    BY <1>2
       DEF RegisterActive, Prepare, SpawnExecution, SpawnWorker, WorkerStart, Dispatch,
           WorkerComplete, WorkerFail, TryFallback, PlanStep, ProgressRead,
           CompleteRead, FailRead, ReadTask, WorkerUpdate, WorkerValidated, At,
           Working, WorkPC
  <2>2. \A m \in Loop \ {l} : pc'[m] = pc[m]
    BY <1>a, <2>1 DEF Goto
  <2> QED
    BY <2>1, <2>2, LoopFinishes
<1>3. CASE \/ ListDependents(l) \/ DependentsDone(l) \/ ListTasks(l) \/ MissionRead(l)
           \/ MissionWrite(l) \/ PublishEnd(l)
  <2>1. /\ \E label \in SettlePC : Goto(l, label)
        /\ UNCHANGED <<task, cur>>
    BY <1>3
       DEF ListDependents, DependentsDone, ListTasks, MissionRead, MissionWrite,
           PublishEnd, ReadMission, SettlePC
  <2>2. pc'[l] \in SettlePC /\ \A m \in Loop \ {l} : pc'[m] = pc[m]
    BY <1>a, <2>1 DEF Goto
  <2>3. ~Working(l)'
    BY <2>2 DEF Working, WorkPC, SettlePC
  <2> QED
    BY <2>1, <2>2, <2>3, LoopFinishes
<1>4. CASE DiscardActive(l) \/ \E t \in Task : SelectTask(l, t)
  <2>1. /\ \E label \in {"idle", "claim"} : Goto(l, label)
        /\ \E t : cur' = [cur EXCEPT ![l] = t]
        /\ UNCHANGED task
    BY <1>4 DEF DiscardActive, SelectTask
  <2>2. /\ pc'[l] \in {"idle", "claim"}
        /\ \A m \in Loop \ {l} : pc'[m] = pc[m] /\ cur'[m] = cur[m]
    BY <1>a, <2>1 DEF Goto
  <2>3. ~Working(l)'
    BY <2>2 DEF Working, WorkPC
  <2> QED
    BY <2>1, <2>2, <2>3, LoopFinishes
<1>5. ASSUME NEW t \in Task, PromoteDependent(l, t)
      PROVE  [Queue!Next]_(Queue!vars)
  <2>1. ~are_all_dependencies_satisfied(t)
    BY <1>5 DEF PromoteDependent, At, WorkInv, DependentsWait,
                are_all_dependencies_satisfied
  <2>2. UNCHANGED <<task, pc, cur>>
    BY <1>5, <2>1 DEF PromoteDependent
  <2> QED
    BY <2>2, LoopFinishes DEF Working
<1>6. CASE ProgressWrite(l) \/ CompleteWrite(l) \/ FailWrite(l)
  <2>1. /\ \E label : Goto(l, label)
        /\ Working(l)
        /\ UNCHANGED cur
    BY <1>6 DEF ProgressWrite, CompleteWrite, FailWrite, At, Working, WorkPC
  <2>2. \E r \in TaskRow, status \in Busy \cup {"completed", "failed"} :
          Become(cur[l], r, status)
    <3>1. CASE ProgressWrite(l)
      BY <1>a, <2>1, <3>1 DEF ProgressWrite, At, WorkInv, RowAtWork
    <3>2. CASE CompleteWrite(l)
      BY <1>a, <3>2 DEF CompleteWrite
    <3>3. CASE FailWrite(l)
      <4>1. CountRetry(row[l]) \in TaskRow
        BY <1>a, ConstantsAssumption DEF CountRetry, TaskRow
      <4> QED
        BY <3>3, <4>1 DEF FailWrite
    <3> QED
      BY <1>6, <3>1, <3>2, <3>3
  <2>3. \A u \in Task : task'[u].status = "ready" <=> task[u].status = "ready"
    <3>1. PICK r \in TaskRow, status \in Busy \cup {"completed", "failed"} :
            Become(cur[l], r, status)
      BY <2>2
    <3>2. /\ task'[cur[l]].status = status
          /\ \A u \in Task \ {cur[l]} : task'[u] = task[u]
      BY <1>a, <2>1, <3>1, BecomeStatus DEF WorkInv
    <3>3. status # "ready"
      BY DEF Busy
    <3> QED
      BY <1>a, <2>1, <3>2, <3>3
  <2>4. \A m \in Loop \ {l} : pc'[m] = pc[m]
    BY <1>a, <2>1 DEF Goto
  <2> QED
    BY <2>1, <2>3, <2>4, LoopFinishes
<1> QED
  BY <1>1, <1>2, <1>3, <1>4, <1>5, <1>6 DEF LoopStep

-----------------------------------------------------------------------------
(* The request thread and the client leave the loops alone and write at    *)
(* most one row.                                                           *)
LEMMA SessionImplements ==
  ASSUME WorkInv, WorkInv', SessionStep \/ AdmissionFails \/ WaitTimeout
  PROVE  [Queue!Next]_(Queue!vars)
<1> USE DEF rows, control
<1>a. /\ DOMAIN cur = Thread /\ DOMAIN pc = Thread /\ Loop \subseteq Thread
      /\ "session" \notin Loop /\ row["session"] \in TaskRow /\ TypeOK
  BY ThreadFacts DEF WorkInv, TypeOK, PCOK
<1>1. \A l \in Loop : pc'[l] = pc[l] /\ cur'[l] = cur[l]
  <2>1. \A l \in Loop : pc'[l] = pc[l]
    BY <1>a
       DEF SessionStep, CreateMission, CreateTask, ScheduleCreated, ReadyCreated,
           FirstPassDone, SecondPassRead, SecondPassWrite, PlanRead,
           PlanWrite, StartRead, StartWrite, WaitRead, Subscribe, Recheck, Woken,
           Answer, Report, ReadMission, Goto, AdmissionFails, WaitTimeout
  <2>2. \A l \in Loop : cur'[l] = cur[l]
    BY <1>a
       DEF SessionStep, CreateMission, CreateTask, ScheduleCreated, ReadyCreated,
           FirstPassDone, SecondPassRead, SecondPassWrite, PlanRead,
           PlanWrite, StartRead, StartWrite, WaitRead, Subscribe, Recheck, Woken,
           Answer, AdmissionFails, WaitTimeout
  <2> QED
    BY <2>1, <2>2
<1>2. \/ UNCHANGED task
      \/ \E t, status : \E r \in TaskRow : Become(t, r, status)
  BY <1>a, NoRowType
     DEF SessionStep, CreateMission, CreateTask, ScheduleCreated, ReadyCreated,
         FirstPassDone, SecondPassRead, SecondPassWrite, PlanRead,
         PlanWrite, StartRead, StartWrite, WaitRead, Subscribe, Recheck, Woken,
         Answer, AdmissionFails, WaitTimeout
<1> QED
  BY <1>a, <1>1, <1>2, AtMostOneRow, OthersOffer

LEMMA ClientImplements ==
  ASSUME WorkInv, WorkInv', ClientCall \/ ClientStep
  PROVE  [Queue!Next]_(Queue!vars)
<1> USE DEF rows, control
<1>a. /\ DOMAIN cur = Thread /\ DOMAIN pc = Thread /\ Loop \subseteq Thread
      /\ "client" \notin Loop /\ row["client"] \in TaskRow /\ TypeOK
  BY ThreadFacts DEF WorkInv, TypeOK, PCOK
<1>1. \A l \in Loop : pc'[l] = pc[l] /\ cur'[l] = cur[l]
  BY <1>a
     DEF ClientCall, ClientStep, ClientTaskRead, ClientMissionRead, ClientCreate,
         ClientTaskWrite, CreateDependency, ClientMissionWrite, ClientPublish, Goto
<1>2. \/ UNCHANGED task
      \/ \E t, status : \E r \in TaskRow : Become(t, r, status)
  BY <1>a, NoRowType
     DEF ClientCall, ClientStep, ClientTaskRead, ClientMissionRead, ClientCreate,
         ClientTaskWrite, CreateDependency, ClientMissionWrite, ClientPublish
<1> QED
  BY <1>a, <1>1, <1>2, AtMostOneRow, OthersOffer

-----------------------------------------------------------------------------
LEMMA QueueInit == Init => Queue!Init
<1> SUFFICES ASSUME Init PROVE Queue!Init
  OBVIOUS
<1>1. Offered = {}
  BY DEF Init, NoRow, Offered
<1>2. \A l \in Loop : ~Working(l)
  BY ConstantsAssumption DEF Init, Thread, Working, WorkPC
<1> QED
  BY <1>1, <1>2 DEF Queue!Init, Work

LEMMA QueueNext == WorkInv /\ WorkInv' /\ [Next]_vars => [Queue!Next]_(Queue!vars)
<1> SUFFICES ASSUME WorkInv, WorkInv', [Next]_vars PROVE [Queue!Next]_(Queue!vars)
  OBVIOUS
<1>1. CASE UNCHANGED vars
  BY <1>1, QueueStutters DEF vars, rows, control, Working
<1>2. CASE Next
  BY <1>2, LoopImplements, SessionImplements, ClientImplements DEF Next
<1> QED
  BY <1>1, <1>2

(* For every number of loops, goals and client calls, the READY rows and   *)
(* the loops at work behave as a TaskQueue: a claim is one atomic hand-over *)
(* of a task to one loop, and a task is offered only when nobody works on  *)
(* it, although every writer writes whole rows from stale copies.          *)
THEOREM QueueImplemented == Spec => ImplementsQueue
<1>1. Spec => []WorkInv
  BY WorkInit, WorkNext, PTL DEF Spec
<1> QED
  BY <1>1, QueueInit, QueueNext, PTL DEF Spec, ImplementsQueue, Queue!Spec
-----------------------------------------------------------------------------
(***************************************************************************)
(* The life of a task t that depends on no other, when no client writes    *)
(* task rows.                                                              *)
(***************************************************************************)
Drives(l, t) == Working(l) /\ cur[l] = t

(* Where a loop is about to write back the row that it has read. *)
HeldPC == {"progress_write", "fail_only", "fail", "complete_write"}

(* Where the worker's end has been written and the task's has not. *)
RecordingPC == {"execution_completed", "complete_read", "complete_write"}

Fresh == {"none", "created", "scheduled"}

(* The loop that drives t is its only writer: the row is RUNNING, and the  *)
(* copy that the loop is about to write back is still the row.             *)
Steady(t) ==
  /\ \A l \in Loop : Drives(l, t) =>
       /\ task[t].status = "running"
       /\ pc[l] \in HeldPC => row[l] = task[t]
  /\ Creating(t) => task[t].status \in Fresh
  /\ task[t].status \in Fresh => task[t].retries = 0 /\ attempt[t] = <<>>

LifeInv ==
  /\ SecondPassInv
  /\ pc["client"] # "ready"
  /\ \A t \in Task : Independent(t) => Steady(t)

(* What a step does to t: nothing, ... *)
Rests(t) ==
  /\ task'[t] = task[t] /\ attempt'[t] = attempt[t]
  /\ \A l \in Loop :
       /\ Drives(l, t)' <=> Drives(l, t)
       /\ Drives(l, t) =>
            /\ pc'[l] \in UnspawnedPC => pc[l] \in UnspawnedPC
            /\ pc[l] \in RecordingPC => pc'[l] \in RecordingPC
            /\ pc'[l] \in HeldPC => row'[l] = task[t]

(* ... a commit of its creation, ... *)
Created(t) ==
  /\ task[t].status \in Fresh
  /\ \E s \in {"created", "scheduled", "ready"} : task'[t] = [NoRow EXCEPT !.status = s]
  /\ attempt'[t] = attempt[t]
  /\ \A l \in Loop : ~Drives(l, t)'

(* ... a claim, ... *)
Claimed(l, t) ==
  /\ task[t].status = "ready"
  /\ task'[t] = [task[t] EXCEPT !.status = "running"]
  /\ attempt'[t] = attempt[t]
  /\ \A m \in Loop : ~Drives(m, t)
  /\ Drives(l, t)' /\ pc'[l] = "register"

(* ... the beginning of an attempt, ... *)
Spawned(l, t) ==
  /\ Drives(l, t) /\ pc[l] = "spawn_execution"
  /\ Drives(l, t)' /\ pc'[l] = "spawn_worker"
  /\ task'[t] = task[t]
  /\ attempt'[t] = Append(attempt[t], [execution |-> "created", worker |-> "none"])

(* ... an update of its worker or its execution, ... *)
Updated(l, t) ==
  /\ Drives(l, t)
  /\ Drives(l, t)' /\ pc'[l] \notin UnspawnedPC \cup HeldPC
  /\ pc[l] \in RecordingPC => pc'[l] \in RecordingPC
  /\ task'[t] = task[t]
  /\ \E field, status :
       /\ attempt'[t] = [attempt[t] EXCEPT ![Len(attempt[t])][field] = status]
       /\ field = "worker" /\ status = "completed" => pc'[l] \in RecordingPC

(* ... or its end. *)
Completed(l, t) ==
  /\ Drives(l, t) /\ ~Working(l)'
  /\ task'[t] = [task[t] EXCEPT !.status = "completed"]
  /\ attempt'[t] = attempt[t]

Failed(l, t) ==
  /\ Drives(l, t) /\ pc[l] \in {"fail_only", "fail"} /\ ~Working(l)'
  /\ task'[t] = [CountRetry(task[t]) EXCEPT !.status = "failed"]
  /\ attempt'[t] = attempt[t]

Effect(t) ==
  \/ Rests(t)
  \/ Created(t)
  \/ \E l \in Loop : \/ Claimed(l, t) \/ Spawned(l, t) \/ Updated(l, t)
                     \/ Completed(l, t) \/ Failed(l, t)

LEMMA BecomeRow ==
  ASSUME TypeOK, NEW t \in Task, NEW r, NEW status, Become(t, r, status)
  PROVE  /\ task'[t] = [r EXCEPT !.status = status]
         /\ \A u \in Task \ {t} : task'[u] = task[u]
<1> DEFINE R == [r EXCEPT !.status = status]
<1>1. task' = [task EXCEPT ![t] = R] /\ DOMAIN task = Task
  BY DEF Become, TypeOK
<1> HIDE DEF R
<1>2. task'[t] = R /\ \A u \in Task \ {t} : task'[u] = task[u]
  BY <1>1
<1> QED
  BY <1>2 DEF R

(* The last attempt's update leaves no trace in the other tasks. *)
LEMMA AttemptElsewhere ==
  ASSUME TypeOK, NEW t \in Task, NEW u \in Task
  PROVE  /\ \A field, status : SetAttempt(u, field, status) =>
              attempt'[t] = IF t = u
                              THEN [attempt[t] EXCEPT ![Len(attempt[t])][field] = status]
                              ELSE attempt[t]
<1> SUFFICES ASSUME NEW field, NEW status, SetAttempt(u, field, status)
             PROVE  attempt'[t] = IF t = u
                              THEN [attempt[t] EXCEPT ![Len(attempt[t])][field] = status]
                              ELSE attempt[t]
  OBVIOUS
<1> DEFINE R == [attempt[u] EXCEPT ![Len(attempt[u])][field] = status]
<1>1. attempt' = [attempt EXCEPT ![u] = R]
  BY DEF SetAttempt
<1>2. DOMAIN attempt = Task
  BY DEF TypeOK
<1> HIDE DEF R
<1>3. attempt'[t] = IF t = u THEN R ELSE attempt[t]
  BY <1>1, <1>2
<1> QED
  BY <1>3 DEF R

(* The steps of a loop. *)
LEMMA LoopEffect ==
  ASSUME WorkInv, WorkInv', NEW l \in Loop, LoopStep(l),
         NEW t \in Task, Independent(t), Steady(t)
  PROVE  Effect(t) /\ (Creating(t)' <=> Creating(t))
<1> USE DEF rows, control
<1>a. /\ TypeOK /\ Loop \subseteq Thread /\ l \in Thread
      /\ DOMAIN cur = Thread /\ DOMAIN row = Thread
      /\ Working(l) => cur[l] \in Task
      /\ "session" \in Thread \ {l}
  BY ThreadFacts DEF WorkInv, TypeOK, PCOK, Working, WorkPC
<1>b. /\ \A o \in Thread \ {l} : pc'[o] = pc[o] /\ cur'[o] = cur[o] /\ row'[o] = row[o]
      /\ \A label : Goto(l, label) => pc'[l] = label
  BY <1>a, LoopFrame, ThreadFacts
<1>c. Creating(t)' <=> Creating(t)
  BY <1>a, <1>b DEF Creating
<1>d. ASSUME task'[t] = task[t], attempt'[t] = attempt[t],
             Drives(l, t)' <=> Drives(l, t),
             Drives(l, t) => /\ pc'[l] \in UnspawnedPC => pc[l] \in UnspawnedPC
                             /\ pc[l] \in RecordingPC => pc'[l] \in RecordingPC
                             /\ pc'[l] \in HeldPC => row'[l] = task[t]
      PROVE  Effect(t)
  <2>1. ASSUME NEW m \in Loop \ {l}
        PROVE  /\ Drives(m, t)' <=> Drives(m, t)
               /\ pc'[m] = pc[m]
               /\ Drives(m, t) => (pc'[m] \in HeldPC => row'[m] = task[t])
    BY <1>a, <1>b, <2>1 DEF Drives, Working, Steady
  <2> QED
    BY <1>d, <2>1 DEF Effect, Rests
<1>e. Drives(l, t) => /\ task[t].status = "running"
                      /\ pc[l] \in HeldPC => row[l] = task[t]
  BY DEF Steady
<1>1. CASE \/ RegisterActive(l) \/ Prepare(l) \/ Dispatch(l) \/ TryFallback(l)
           \/ PlanStep(l)
  <2>1. /\ Working(l) /\ UNCHANGED <<task, attempt, cur>>
        /\ pc[l] \notin RecordingPC
    BY <1>1 DEF RegisterActive, Prepare, Dispatch, TryFallback, PlanStep, At, Working,
                WorkPC, RecordingPC
  <2>2. /\ Working(l)' /\ pc'[l] \notin HeldPC
        /\ pc'[l] \in UnspawnedPC => pc[l] \in UnspawnedPC
    BY <1>1, <1>b DEF RegisterActive, Prepare, Dispatch, TryFallback, PlanStep, At,
                      Working, WorkPC, HeldPC, UnspawnedPC
  <2> QED
    BY <1>c, <1>d, <2>1, <2>2 DEF Drives
<1>2. CASE ProgressRead(l) \/ CompleteRead(l) \/ FailRead(l)
  <2>1. /\ Working(l) /\ UNCHANGED <<task, attempt, cur>>
        /\ row' = [row EXCEPT ![l] = task[cur[l]]]
    BY <1>2 DEF ProgressRead, CompleteRead, FailRead, ReadTask, At, Working, WorkPC
  <2>2. CASE ~Drives(l, t)
    BY <1>c, <1>d, <2>1, <2>2 DEF Drives
  <2>3. CASE Drives(l, t)
    <3>1. task[cur[l]].status = "running"
      BY <1>e, <2>3 DEF Drives
    <3>2. /\ validate_task_transition(task[cur[l]].status, "completed")
          /\ validate_task_transition(task[cur[l]].status, "failed")
      BY <3>1 DEF validate_task_transition, TaskSuccessors
    <3>3. /\ Working(l)' /\ pc'[l] \notin UnspawnedPC
          /\ pc[l] \in RecordingPC => pc'[l] \in RecordingPC
      BY <1>2, <1>b, <3>2 DEF ProgressRead, CompleteRead, FailRead, ReadTask, At,
                              Working, WorkPC, UnspawnedPC, RecordingPC
    <3>4. row'[l] = task[t]
      BY <1>a, <2>1, <2>3 DEF Drives
    <3> QED
      BY <1>c, <1>d, <2>1, <2>3, <3>3, <3>4 DEF Drives
  <2> QED
    BY <2>2, <2>3
<1>3. CASE ProgressWrite(l)
  <2>1. /\ Working(l) /\ UNCHANGED <<attempt, cur>> /\ pc[l] = "progress_write"
        /\ Become(cur[l], row[l], row[l].status)
        /\ \/ Goto(l, "complete_read")
           \/ Goto(l, "step")
    BY <1>3 DEF ProgressWrite, At, Working, WorkPC
  <2>2. /\ Working(l)' /\ pc'[l] \notin UnspawnedPC \cup HeldPC
        /\ pc[l] \notin RecordingPC
    BY <1>b, <2>1 DEF Working, WorkPC, UnspawnedPC, HeldPC, RecordingPC
  <2>3. task'[t] = task[t]
    <3>1. CASE t # cur[l]
      BY <1>a, <2>1, <3>1, BecomeRow
    <3>2. CASE t = cur[l]
      <4>1. row[l] = task[t]
        BY <1>e, <2>1, <3>2 DEF Drives, HeldPC
      <4>2. task'[t] = [row[l] EXCEPT !.status = row[l].status]
        BY <1>a, <2>1, <3>2, BecomeRow
      <4>3. task[t] \in TaskRow
        BY <1>a DEF TypeOK
      <4> QED
        BY <4>1, <4>2, <4>3 DEF TaskRow
    <3> QED
      BY <3>1, <3>2
  <2> QED
    BY <1>c, <1>d, <2>1, <2>2, <2>3 DEF Drives
<1>4. CASE CompleteWrite(l) \/ FailWrite(l)
  <2>1. /\ Working(l) /\ UNCHANGED <<attempt, cur>> /\ pc[l] \in HeldPC
        /\ \/ CompleteWrite(l) /\ Become(cur[l], row[l], "completed")
           \/ /\ pc[l] \in {"fail_only", "fail"}
              /\ Become(cur[l], CountRetry(row[l]), "failed")
    BY <1>4 DEF CompleteWrite, FailWrite, At, Working, WorkPC, HeldPC
  <2>2. ~Working(l)'
    BY <1>4, <1>b DEF CompleteWrite, FailWrite, Working, WorkPC
  <2>3. CASE t # cur[l]
    <3>1. task'[t] = task[t]
      BY <1>a, <2>1, <2>3, BecomeRow
    <3> QED
      BY <1>c, <1>d, <2>1, <2>2, <2>3, <3>1 DEF Drives
  <2>4. CASE t = cur[l]
    <3>1. Drives(l, t) /\ row[l] = task[t]
      BY <1>e, <2>1, <2>4 DEF Drives
    <3>2. \/ task'[t] = [task[t] EXCEPT !.status = "completed"]
          \/ /\ pc[l] \in {"fail_only", "fail"}
             /\ task'[t] = [CountRetry(task[t]) EXCEPT !.status = "failed"]
      BY <1>a, <2>1, <2>4, <3>1, BecomeRow
    <3> QED
      BY <1>c, <2>1, <2>2, <3>1, <3>2 DEF Effect, Completed, Failed
  <2> QED
    BY <2>3, <2>4
<1>5. CASE SpawnExecution(l)
  <2>1. /\ Working(l) /\ pc[l] = "spawn_execution" /\ UNCHANGED <<task, cur>>
        /\ attempt' = [attempt EXCEPT ![cur[l]] =
                         Append(@, [execution |-> "created", worker |-> "none"])]
    BY <1>5 DEF SpawnExecution, At, Working, WorkPC
  <2>2. pc'[l] = "spawn_worker" /\ Working(l)'
    BY <1>5, <1>b DEF SpawnExecution, Working, WorkPC
  <2>3. attempt'[t] = IF t = cur[l]
                        THEN Append(attempt[t], [execution |-> "created", worker |-> "none"])
                        ELSE attempt[t]
    BY <1>a, <2>1 DEF TypeOK
  <2> QED
    BY <1>c, <1>d, <2>1, <2>2, <2>3 DEF Drives, Effect, Spawned
<1>6. CASE SpawnWorker(l) \/ WorkerStart(l) \/ WorkerComplete(l) \/ WorkerFail(l)
  <2>1. /\ Working(l) /\ UNCHANGED <<task, cur>>
        /\ \/ UNCHANGED attempt
           \/ \E field, status : SetAttempt(cur[l], field, status)
    BY <1>6 DEF SpawnWorker, WorkerStart, WorkerComplete, WorkerFail, WorkerUpdate,
                WorkerValidated, At, Working, WorkPC
  <2>2. /\ Working(l)' /\ pc'[l] \notin UnspawnedPC \cup HeldPC
        /\ pc[l] \in RecordingPC => pc'[l] \in RecordingPC
    BY <1>6, <1>b DEF SpawnWorker, WorkerStart, WorkerComplete, WorkerFail, WorkerUpdate,
                WorkerValidated, At, Working, WorkPC, UnspawnedPC, HeldPC, RecordingPC
  <2>3. CASE UNCHANGED attempt
    BY <1>c, <1>d, <2>1, <2>2, <2>3 DEF Drives
  <2>4. ASSUME ~UNCHANGED attempt
        PROVE  \E field, status :
                 /\ SetAttempt(cur[l], field, status)
                 /\ field = "worker" /\ status = "completed" => pc'[l] \in RecordingPC
    BY <1>6, <1>b, <2>4 DEF SpawnWorker, WorkerStart, WorkerComplete, WorkerFail,
                WorkerUpdate, WorkerValidated, RecordingPC
  <2>5. ASSUME ~UNCHANGED attempt PROVE Effect(t)
    <3>1. PICK field, status :
            /\ SetAttempt(cur[l], field, status)
            /\ field = "worker" /\ status = "completed" => pc'[l] \in RecordingPC
      BY <2>4, <2>5
    <3>2. CASE t # cur[l]
      <4>1. attempt'[t] = attempt[t]
        BY <1>a, <2>1, <3>1, <3>2, AttemptElsewhere
      <4>2. task'[t] = task[t] /\ ~Drives(l, t) /\ ~Drives(l, t)'
        BY <2>1, <3>2 DEF Drives
      <4> QED
        BY <1>d, <4>1, <4>2
    <3>3. CASE t = cur[l]
      <4>0. SetAttempt(t, field, status)
        BY <3>1, <3>3
      <4>1. attempt'[t] = [attempt[t] EXCEPT ![Len(attempt[t])][field] = status]
        BY <1>a, <4>0, AttemptElsewhere, Zenon
      <4>2. \E f, s :
              /\ attempt'[t] = [attempt[t] EXCEPT ![Len(attempt[t])][f] = s]
              /\ f = "worker" /\ s = "completed" => pc'[l] \in RecordingPC
        BY <3>1, <4>1, Zenon
      <4>3. /\ Drives(l, t) /\ Drives(l, t)' /\ task'[t] = task[t]
        BY <2>1, <2>2, <3>3 DEF Drives
      <4>4. Updated(l, t)
        BY <2>2, <4>2, <4>3, Zenon DEF Updated
      <4> QED
        BY <4>4 DEF Effect
    <3> QED
      BY <3>2, <3>3
  <2> QED
    BY <1>c, <2>3, <2>5
<1>7. CASE ClaimTask(l)
  <2>1. ~Working(l) /\ pc[l] = "claim" /\ cur[l] \in Task /\ UNCHANGED attempt
    BY <1>7 DEF ClaimTask, At, Working, WorkPC, WorkInv, TypeOK, PCOK
  <2>2. CASE task[cur[l]].status # "ready"
    <3>1. UNCHANGED task /\ pc'[l] = "idle"
      BY <1>7, <1>b, <2>2 DEF ClaimTask
    <3>2. ~Working(l)'
      BY <3>1 DEF Working, WorkPC
    <3> QED
      BY <1>c, <1>d, <2>1, <3>1, <3>2 DEF Drives
  <2>3. CASE task[cur[l]].status = "ready"
    <3>1. /\ Become(cur[l], task[cur[l]], "running") /\ UNCHANGED cur
          /\ pc'[l] = "register"
      BY <1>7, <1>b, <2>3 DEF ClaimTask
    <3>2. CASE t # cur[l]
      <4>1. task'[t] = task[t]
        BY <1>a, <2>1, <3>1, <3>2, BecomeRow
      <4> QED
        BY <1>c, <1>d, <2>1, <3>1, <3>2, <4>1 DEF Drives
    <3>3. CASE t = cur[l]
      <4>1. task'[t] = [task[t] EXCEPT !.status = "running"]
        BY <1>a, <2>1, <3>1, <3>3, BecomeRow
      <4>2. \A m \in Loop : ~Drives(m, t)
        BY <2>3, <3>3 DEF Drives, WorkInv, RowAtWork, Busy
      <4>3. Drives(l, t)'
        BY <3>1, <3>3 DEF Drives, Working, WorkPC
      <4> QED
        BY <1>c, <2>1, <2>3, <3>1, <3>3, <4>1, <4>2, <4>3 DEF Effect, Claimed
    <3> QED
      BY <3>2, <3>3
  <2> QED
    BY <2>2, <2>3
<1>8. CASE (\E u \in Task : SelectTask(l, u)) \/ DiscardActive(l)
           \/ ListDependents(l) \/ DependentsDone(l) \/ ListTasks(l) \/ MissionRead(l)
           \/ MissionWrite(l) \/ PublishEnd(l)
  <2>1. \E label \in SettlePC \cup {"claim", "idle"} : Goto(l, label)
    BY <1>8 DEF SelectTask, DiscardActive, ListDependents, DependentsDone, ListTasks,
                MissionRead, ReadMission, MissionWrite, PublishEnd, SettlePC
  <2>2. UNCHANGED <<task, attempt>> /\ pc[l] \in SettlePC \cup {"idle"}
    BY <1>8 DEF SelectTask, DiscardActive, ListDependents, DependentsDone, ListTasks,
                MissionRead, MissionWrite, PublishEnd, At, SettlePC
  <2>3. ~Working(l)' /\ ~Working(l)
    BY <1>b, <2>1, <2>2 DEF Working, WorkPC, SettlePC
  <2> QED
    BY <1>c, <1>d, <2>2, <2>3 DEF Drives
<1>9. ASSUME NEW u \in Task, PromoteDependent(l, u)
      PROVE  Effect(t) /\ (Creating(t)' <=> Creating(t))
  <2>1. ~are_all_dependencies_satisfied(u)
    BY <1>9 DEF PromoteDependent, At, WorkInv, DependentsWait,
                are_all_dependencies_satisfied
  <2>2. UNCHANGED <<task, attempt, pc, cur>> /\ ~Working(l)
    BY <1>9, <2>1 DEF PromoteDependent, At, Working, WorkPC
  <2>3. ~Working(l)'
    BY <2>2 DEF Working
  <2> QED
    BY <1>c, <1>d, <2>2, <2>3 DEF Drives
<1> QED
  BY <1>1, <1>2, <1>3, <1>4, <1>5, <1>6, <1>7, <1>8, <1>9 DEF LoopStep

(* A step that leaves t and the loops alone. *)
LEMMA OthersRest ==
  ASSUME NEW t \in Task, Steady(t), task'[t] = task[t], attempt'[t] = attempt[t],
         \A l \in Loop : pc'[l] = pc[l] /\ cur'[l] = cur[l] /\ row'[l] = row[l]
  PROVE  Effect(t)
<1>1. \A l \in Loop : Drives(l, t)' <=> Drives(l, t)
  BY DEF Drives, Working
<1> QED
  BY <1>1 DEF Effect, Rests, Steady

(* The steps of the request thread: the creation of t, and what the second *)
(* pass does to the tasks that depend on others.                           *)
LEMMA SessionEffect ==
  ASSUME WorkInv, SecondPassInv, SessionStep \/ AdmissionFails \/ WaitTimeout,
         NEW t \in Task, Independent(t), Steady(t)
  PROVE  Effect(t) /\ (Creating(t)' => task'[t].status \in Fresh)
<1> USE DEF rows, control
<1>a. /\ TypeOK /\ Loop \subseteq Thread \ {"session"} /\ "session" \in Thread
      /\ DOMAIN cur = Thread /\ DOMAIN row = Thread /\ DOMAIN pc = Thread
      /\ \A label : Goto("session", label) => pc'["session"] = label
  BY ThreadFacts DEF WorkInv, TypeOK, PCOK
<1>b. UNCHANGED attempt
  BY DEF SessionStep, CreateMission, CreateTask, ScheduleCreated, ReadyCreated,
         FirstPassDone, SecondPassRead, SecondPassWrite, PlanRead,
         PlanWrite, StartRead, StartWrite, WaitRead, Subscribe, Recheck, Woken,
         Answer, AdmissionFails, WaitTimeout
<1>c. \A l \in Loop : pc'[l] = pc[l] /\ cur'[l] = cur[l] /\ row'[l] = row[l]
  <2>1. UNCHANGED pc \/ \E label : pc' = [pc EXCEPT !["session"] = label]
    BY DEF SessionStep, CreateMission, CreateTask, ScheduleCreated, ReadyCreated,
         FirstPassDone, SecondPassRead, SecondPassWrite, PlanRead,
         PlanWrite, StartRead, StartWrite, ReadMission, WaitRead, Subscribe, Recheck,
         Woken, Answer, Report, AdmissionFails, WaitTimeout, Goto
  <2>2. UNCHANGED cur \/ \E u : cur' = [cur EXCEPT !["session"] = u]
    BY DEF SessionStep, CreateMission, CreateTask, ScheduleCreated, ReadyCreated,
         FirstPassDone, SecondPassRead, SecondPassWrite, PlanRead,
         PlanWrite, StartRead, StartWrite, WaitRead, Subscribe, Recheck,
         Woken, Answer, AdmissionFails, WaitTimeout
  <2>3. UNCHANGED row \/ \E r : row' = [row EXCEPT !["session"] = r]
    BY DEF SessionStep, CreateMission, CreateTask, ScheduleCreated, ReadyCreated,
         FirstPassDone, SecondPassRead, SecondPassWrite, PlanRead,
         PlanWrite, StartRead, StartWrite, WaitRead, Subscribe, Recheck,
         Woken, Answer, AdmissionFails, WaitTimeout
  <2> QED
    BY <1>a, <2>1, <2>2, <2>3
<1>d. ASSUME task'[t] = task[t], Creating(t)' => Creating(t)
      PROVE  Effect(t) /\ (Creating(t)' => task'[t].status \in Fresh)
  BY <1>b, <1>c, <1>d, OthersRest DEF Steady
<1>e. ASSUME NEW s \in {"created", "scheduled", "ready"}, Become(t, NoRow, s),
             task[t].status \in Fresh, s = "ready" => ~Creating(t)'
      PROVE  Effect(t) /\ (Creating(t)' => task'[t].status \in Fresh)
  <2>1. task'[t] = [NoRow EXCEPT !.status = s]
    BY <1>a, <1>e, BecomeRow
  <2>2. task'[t].status = s
    BY <2>1 DEF NoRow
  <2>3. \A l \in Loop : ~Drives(l, t)'
    BY <1>c, <1>e DEF Steady, Drives, Working, Fresh
  <2>4. Created(t)
    BY <1>b, <1>e, <2>1, <2>3 DEF Created
  <2> QED
    BY <1>e, <2>2, <2>4 DEF Effect, Fresh
<1>1. ASSUME NEW u \in Task, CreateTask(u)
      PROVE  Effect(t) /\ (Creating(t)' => task'[t].status \in Fresh)
  <2>1. task[u].status = "none" /\ Become(u, NoRow, "created") /\ cur'["session"] = u
    BY <1>1, <1>a DEF CreateTask
  <2>2. CASE t = u
    BY <1>e, <2>1, <2>2 DEF Fresh
  <2>3. CASE t # u
    <3>1. task'[t] = task[t]
      BY <1>a, <2>1, <2>3, BecomeRow
    <3> QED
      BY <1>d, <2>1, <2>3, <3>1 DEF Creating
  <2> QED
    BY <2>2, <2>3
<1>2. CASE ScheduleCreated \/ ReadyCreated
  <2>1. /\ pc["session"] \in {"schedule", "ready"} /\ UNCHANGED cur
        /\ \/ Become(cur["session"], NoRow, "scheduled")
           \/ Become(cur["session"], NoRow, "ready") /\ pc'["session"] = "tasks"
    BY <1>2, <1>a DEF ScheduleCreated, ReadyCreated, At
  <2>2. CASE t = cur["session"]
    BY <1>e, <2>1, <2>2 DEF Creating, Steady
  <2>3. CASE t # cur["session"]
    <3>1. task'[t] = task[t]
      BY <1>a, <2>1, <2>3 DEF Become, TypeOK
    <3> QED
      BY <1>d, <2>1, <2>3, <3>1 DEF Creating
  <2> QED
    BY <2>2, <2>3
<1>3. CASE SecondPassWrite
  <2>1. /\ pc["session"] = "wait_for_dependency" /\ pc'["session"] = "error"
        /\ Become(cur["session"], row["session"], "waiting_for_dependency")
    BY <1>3, <1>a DEF SecondPassWrite, At
  <2>2. t # cur["session"]
    BY <2>1 DEF SecondPassInv
  <2>3. task'[t] = task[t]
    BY <1>a, <2>1, <2>2 DEF Become, TypeOK
  <2> QED
    BY <1>d, <2>1, <2>3 DEF Creating
<1>4. CASE \/ CreateMission \/ FirstPassDone \/ (\E u \in Task : SecondPassRead(u))
           \/ PlanRead \/ PlanWrite
           \/ StartRead \/ StartWrite \/ WaitRead \/ Subscribe \/ Recheck \/ Woken
           \/ Answer \/ AdmissionFails \/ WaitTimeout
  <2>1. UNCHANGED task
    BY <1>4 DEF CreateMission, FirstPassDone, SecondPassRead, PlanRead,
         PlanWrite, StartRead, StartWrite, WaitRead, Subscribe, Recheck, Woken,
         Answer, AdmissionFails, WaitTimeout
  <2>2. (UNCHANGED pc /\ UNCHANGED cur) \/ pc'["session"] \notin {"schedule", "ready"}
    BY <1>4, <1>a
       DEF CreateMission, FirstPassDone, SecondPassRead, PlanRead,
         PlanWrite, StartRead, StartWrite, ReadMission, WaitRead, Subscribe, Recheck,
         Woken, Answer, Report, AdmissionFails, WaitTimeout
  <2> QED
    BY <1>d, <2>1, <2>2 DEF Creating
<1> QED
  BY <1>1, <1>2, <1>3, <1>4 DEF SessionStep

(* A client that has no task operation leaves the tasks without            *)
(* dependencies alone: those it adds have some.                            *)
LEMMA ClientSteps ==
  ASSUME ClientTaskOp = {}, TypeOK, pc["client"] # "ready", ClientCall \/ ClientStep
  PROVE  /\ UNCHANGED <<attempt, row>>
         /\ \A t \in Task : Independent(t) => task'[t] = task[t]
         /\ UNCHANGED cur \/ \E u : cur' = [cur EXCEPT !["client"] = u]
         /\ UNCHANGED pc \/ \E label : pc' = [pc EXCEPT !["client"] = label]
         /\ pc'["client"] # "ready"
<1> USE DEF rows, control
<1>a. /\ "client" \in Thread /\ DOMAIN pc = Thread
      /\ \A label : Goto("client", label) => pc'["client"] = label
  BY ThreadFacts DEF TypeOK, PCOK
<1>1. ASSUME NEW u \in Task, ClientCreate(u)
      PROVE  \A t \in Task : Independent(t) => task'[t] = task[t]
  <2>1. u \in Added /\ Become(u, NoRow, "waiting_for_dependency")
    BY <1>1 DEF ClientCreate
  <2>2. ~Independent(u)
    BY <2>1, ConstantsAssumption DEF Independent
  <2> QED
    BY <2>1, <2>2, NoRowType, BecomeStatus
<1>2. /\ UNCHANGED <<attempt, row>>
      /\ UNCHANGED task \/ \E u \in Task : ClientCreate(u)
      /\ UNCHANGED cur \/ \E u : cur' = [cur EXCEPT !["client"] = u]
      /\ UNCHANGED pc \/ \E label \in {"idle", "publish", "create_dependency"}
                                      \cup ClientMissionOp : Goto("client", label)
  BY DEF ClientCall, ClientTaskRead, ClientMissionRead, ClientCreate, ClientStep,
         ClientTaskWrite, CreateDependency, ClientMissionWrite, ClientPublish
<1>3. pc'["client"] # "ready"
  BY <1>a, <1>2, ConstantsAssumption
<1> QED
  BY <1>1, <1>2, <1>3 DEF Goto

LEMMA ClientEffect ==
  ASSUME ClientTaskOp = {}, WorkInv, pc["client"] # "ready", ClientCall \/ ClientStep,
         NEW t \in Task, Independent(t), Steady(t)
  PROVE  Effect(t) /\ (Creating(t)' => task'[t].status \in Fresh)
<1>a. /\ Loop \subseteq Thread \ {"client"} /\ "client" \in Thread
      /\ "session" \in Thread \ {"client"}
      /\ DOMAIN pc = Thread /\ DOMAIN cur = Thread /\ TypeOK
  BY ThreadFacts DEF WorkInv, TypeOK, PCOK
<1>1. /\ UNCHANGED <<attempt, row>> /\ task'[t] = task[t]
      /\ \A o \in Thread \ {"client"} : pc'[o] = pc[o] /\ cur'[o] = cur[o]
  BY <1>a, ClientSteps
<1>2. Effect(t)
  BY <1>a, <1>1, OthersRest
<1>3. Creating(t)' <=> Creating(t)
  BY <1>a, <1>1 DEF Creating
<1> QED
  BY <1>1, <1>2, <1>3 DEF Steady

(* What happens to t leaves it steady. *)
LEMMA SteadyStep ==
  ASSUME WorkInv, WorkInv', NEW t \in Task, Steady(t), Effect(t),
         Creating(t)' => task'[t].status \in Fresh
  PROVE  Steady(t)'
<1>1. \A l, m \in Loop : Drives(l, t)' /\ Drives(m, t)' => l = m
  BY DEF WorkInv, ExclusiveWork, Drives
<1>2. CASE Rests(t)
  BY <1>2 DEF Rests, Steady
<1>3. CASE Created(t)
  <2>1. /\ task'[t].retries = 0
        /\ attempt'[t] = <<>>
    BY <1>3 DEF Created, Steady, NoRow
  <2> QED
    BY <1>3, <2>1 DEF Created, Steady
<1>4. ASSUME NEW l \in Loop, Claimed(l, t) PROVE Steady(t)'
  <2>1. task'[t].status = "running"
    BY <1>4 DEF Claimed, WorkInv, TypeOK, TaskRow
  <2>2. \A m \in Loop : Drives(m, t)' => pc'[m] \notin HeldPC
    BY <1>1, <1>4 DEF Claimed, HeldPC
  <2> QED
    BY <2>1, <2>2 DEF Steady, Fresh
<1>5. ASSUME NEW l \in Loop, Spawned(l, t) \/ Updated(l, t) PROVE Steady(t)'
  <2>1. task'[t].status = "running"
    BY <1>5 DEF Spawned, Updated, Steady
  <2>2. \A m \in Loop : Drives(m, t)' => pc'[m] \notin HeldPC
    BY <1>1, <1>5 DEF Spawned, Updated, HeldPC
  <2> QED
    BY <2>1, <2>2 DEF Steady, Fresh
<1>6. ASSUME NEW l \in Loop, Completed(l, t) \/ Failed(l, t) PROVE Steady(t)'
  <2>1. task'[t].status \in {"completed", "failed"}
    BY <1>6 DEF Completed, Failed, CountRetry, WorkInv, TypeOK, TaskRow
  <2>2. \A m \in Loop : ~Drives(m, t)'
    <3>1. ASSUME NEW m \in Loop, Drives(m, t)' PROVE FALSE
      <4>1. task'[t].status \in Busy
        BY <3>1 DEF WorkInv, RowAtWork, Drives
      <4> QED
        BY <2>1, <4>1 DEF Busy
    <3> QED
      BY <3>1
  <2>3. ~Creating(t)'
    <3>1. CASE Creating(t)'
      BY <2>1, <3>1 DEF Fresh
    <3> QED
      BY <3>1
  <2> QED
    BY <2>1, <2>2, <2>3 DEF Steady, Fresh
<1> QED
  BY <1>2, <1>3, <1>4, <1>5, <1>6 DEF Effect

LEMMA LifeInit == Init => LifeInv
<1> SUFFICES ASSUME Init PROVE LifeInv
  OBVIOUS
<1>1. /\ todo["session"] = {} /\ pc["session"] = "create" /\ pc["client"] = "idle"
      /\ \A l \in Loop : pc[l] = "idle"
  BY ConstantsAssumption DEF Init, Thread
<1>2. \A t \in Task : /\ task[t].status = "none" /\ task[t].retries = 0
                      /\ attempt[t] = <<>>
  BY DEF Init, NoRow
<1>3. \A l \in Loop : ~Working(l)
  BY <1>1 DEF Working, WorkPC
<1> QED
  BY <1>1, <1>2, <1>3 DEF LifeInv, SecondPassInv, Steady, Drives, Creating

LEMMA LifeStep ==
  ASSUME ClientTaskOp = {}, WorkInv, WorkInv', LifeInv, [Next]_vars
  PROVE  LifeInv' /\ \A t \in Task : Independent(t) => Effect(t)
<1>a. TypeOK
  BY DEF WorkInv
<1>1. SecondPassInv'
  BY <1>a, SecondPassStep DEF LifeInv
<1>2. ASSUME NEW t \in Task, Independent(t)
      PROVE  Effect(t) /\ (Creating(t)' => task'[t].status \in Fresh)
  <2>1. Steady(t)
    BY <1>2 DEF LifeInv
  <2>2. CASE UNCHANGED vars
    <3>1. Effect(t)
      BY <2>1, <2>2, OthersRest DEF vars, rows, control
    <3> QED
      BY <2>1, <2>2, <3>1 DEF vars, rows, control, Steady, Creating
  <2>3. CASE SessionStep \/ AdmissionFails \/ WaitTimeout
    BY <1>2, <2>1, <2>3, SessionEffect DEF LifeInv
  <2>4. CASE \E l \in Loop : LoopStep(l)
    <3>1. Effect(t) /\ (Creating(t)' <=> Creating(t))
      BY <1>2, <2>1, <2>4, LoopEffect
    <3>2. Creating(t) => ~WorkedOn(t)
      BY DEF WorkInv, RowInCreation
    <3>3. Creating(t) => task'[t].status \in Fresh
      <4> SUFFICES ASSUME Creating(t) PROVE task'[t].status \in Fresh
        OBVIOUS
      <4>1. task[t].status \in Fresh /\ \A l \in Loop : ~Drives(l, t) /\ ~Drives(l, t)'
        BY <2>1, <3>1, <3>2 DEF Steady, WorkedOn, Drives, WorkInv, RowInCreation
      <4>2. Rests(t) \/ Created(t)
        BY <3>1, <4>1 DEF Effect, Claimed, Spawned, Updated, Completed, Failed
      <4>3. CASE Rests(t)
        BY <4>1, <4>3 DEF Rests
      <4>4. CASE Created(t)
        <5>1. Creating(t)'
          BY <3>1
        <5>2. task'[t].status \in {"created", "scheduled", "ready"}
          BY <4>4 DEF Created, NoRow
        <5>3. task'[t].status # "ready"
          BY <5>1 DEF WorkInv, RowInCreation, Busy
        <5> QED
          BY <5>2, <5>3 DEF Fresh
      <4> QED
        BY <4>2, <4>3, <4>4
    <3> QED
      BY <3>1, <3>3
  <2>5. CASE ClientCall \/ ClientStep
    BY <1>2, <2>1, <2>5, ClientEffect DEF LifeInv
  <2> QED
    BY <2>2, <2>3, <2>4, <2>5 DEF Next
<1>3. \A t \in Task : Independent(t) => Steady(t)'
  BY <1>2, SteadyStep DEF LifeInv
<1>4. pc'["client"] # "ready"
  <2>a. /\ Loop \subseteq Thread \ {"client"}
        /\ "client" \in Thread \ {"session"} /\ DOMAIN pc = Thread
        /\ \A label : Goto("client", label) => pc'["client"] = label
    BY <1>a, ThreadFacts DEF TypeOK, PCOK
  <2>1. CASE ClientCall \/ ClientStep
    BY <1>a, <2>1, ClientSteps DEF LifeInv
  <2>2. CASE \E l \in Loop : LoopStep(l)
    BY <1>a, <2>a, <2>2, LoopFrame DEF LifeInv
  <2>3. CASE SessionStep \/ AdmissionFails \/ WaitTimeout
    <3>1. UNCHANGED pc \/ \E label : pc' = [pc EXCEPT !["session"] = label]
      BY <2>3 DEF SessionStep, CreateMission, CreateTask, ScheduleCreated, ReadyCreated,
         FirstPassDone, SecondPassRead, SecondPassWrite, PlanRead,
         PlanWrite, StartRead, StartWrite, ReadMission, WaitRead, Subscribe, Recheck,
         Woken, Answer, Report, AdmissionFails, WaitTimeout, Goto
    <3> QED
      BY <2>a, <3>1 DEF LifeInv
  <2>4. CASE UNCHANGED vars
    BY <2>4 DEF vars, control, LifeInv
  <2> QED
    BY <2>1, <2>2, <2>3, <2>4 DEF Next
<1> QED
  BY <1>1, <1>2, <1>3, <1>4 DEF LifeInv, Independent

LEMMA LifeInductive ==
  ASSUME ClientTaskOp = {}
  PROVE  Spec => [](WorkInv /\ LifeInv)
<1>1. Spec => []WorkInv
  BY WorkInit, WorkNext, PTL DEF Spec
<1>2. WorkInv /\ WorkInv' /\ LifeInv /\ [Next]_vars => LifeInv'
  BY LifeStep
<1> QED
  BY <1>1, <1>2, LifeInit, PTL DEF Spec

(* What has ended, or failed, stays as it is. *)
LEMMA EndIsFinal ==
  ASSUME NEW t \in Task, Steady(t), Effect(t),
         task[t].status \in TaskEnded \cup {"failed"}
  PROVE  Rests(t)
  BY DEF Effect, Created, Claimed, Spawned, Updated, Completed, Failed, Steady, Fresh,
         TaskEnded

(* For every number of loops and tasks: the row of a task without          *)
(* dependencies never changes once it is COMPLETED or CANCELLED.           *)
THEOREM EndedTasksAreFinal ==
  ASSUME ClientTaskOp = {}
  PROVE  Spec => EndedTaskStays
<1>1. WorkInv /\ WorkInv' /\ LifeInv /\ [Next]_vars =>
        [\A t \in Task : Independent(t) /\ task[t].status \in TaskEnded =>
           task'[t] = task[t]]_vars
  <2> SUFFICES ASSUME WorkInv, WorkInv', LifeInv, [Next]_vars, NEW t \in Task,
                      Independent(t), task[t].status \in TaskEnded
               PROVE  task'[t] = task[t]
    OBVIOUS
  <2>1. Effect(t) /\ Steady(t)
    BY LifeStep DEF LifeInv
  <2> QED
    BY <2>1, EndIsFinal DEF Rests
<1> QED
  BY <1>1, LifeInductive, PTL DEF Spec, EndedTaskStays

-----------------------------------------------------------------------------
(* From the write of the worker's end to the write of the task's, a loop   *)
(* is on its way.                                                          *)
Recorded(t) ==
  (\E i \in 1 .. Len(attempt[t]) : attempt[t][i].worker = "completed") =>
     \/ task[t].status = "completed"
     \/ \E l \in Loop : Drives(l, t) /\ pc[l] \in RecordingPC

LEMMA RecordedStep ==
  ASSUME WorkInv, WorkInv', NEW t \in Task, Steady(t), Effect(t), Recorded(t)
  PROVE  Recorded(t)'
<1>a. /\ attempt[t] \in Seq(AttemptRow) /\ Len(attempt[t]) \in Nat
      /\ task[t] \in TaskRow
  BY DEF WorkInv, TypeOK
<1>b. \A l, m \in Loop : Drives(l, t) /\ Drives(m, t) => l = m
  BY DEF WorkInv, ExclusiveWork, Drives
<1>1. CASE Rests(t)
  BY <1>1 DEF Rests, Recorded
<1>2. CASE Created(t)
  BY <1>2 DEF Created, Steady, Recorded
<1>3. ASSUME NEW l \in Loop, Claimed(l, t) PROVE Recorded(t)'
  <2>1. ~ \E i \in 1 .. Len(attempt[t]) : attempt[t][i].worker = "completed"
    BY <1>3 DEF Claimed, Recorded
  <2> QED
    BY <1>3, <2>1 DEF Claimed, Recorded
<1>4. ASSUME NEW l \in Loop, Spawned(l, t) PROVE Recorded(t)'
  <2>1. ~ \E i \in 1 .. Len(attempt[t]) : attempt[t][i].worker = "completed"
    BY <1>4, <1>b DEF Spawned, Recorded, Steady, RecordingPC
  <2> DEFINE new == [execution |-> "created", worker |-> "none"]
  <2>2. attempt'[t] = Append(attempt[t], new)
    BY <1>4 DEF Spawned
  <2>3. \A i \in 1 .. Len(attempt'[t]) :
          attempt'[t][i] = new \/ (i \in 1 .. Len(attempt[t]) /\ attempt'[t][i] = attempt[t][i])
    <3> HIDE DEF new
    <3> QED
      BY <1>a, <2>2
  <2>4. new.worker # "completed"
    OBVIOUS
  <2> QED
    BY <2>1, <2>3, <2>4 DEF Recorded
<1>5. ASSUME NEW l \in Loop, Updated(l, t) PROVE Recorded(t)'
  <2>1. CASE pc'[l] \in RecordingPC
    BY <1>5, <2>1 DEF Updated, Recorded
  <2>2. CASE pc'[l] \notin RecordingPC
    <3>1. pc[l] \notin RecordingPC
      BY <1>5, <2>2 DEF Updated
    <3>2. ~ \E i \in 1 .. Len(attempt[t]) : attempt[t][i].worker = "completed"
      BY <1>5, <1>b, <3>1 DEF Updated, Recorded, Steady
    <3>3. PICK field, status :
            /\ attempt'[t] = [attempt[t] EXCEPT ![Len(attempt[t])][field] = status]
            /\ field = "worker" /\ status = "completed" => pc'[l] \in RecordingPC
      BY <1>5, Zenon DEF Updated
    <3> DEFINE n == Len(attempt[t])
               R == [attempt[t][n] EXCEPT ![field] = status]
    <3>4. ASSUME n \in 1 .. Len(attempt[t]) PROVE R.worker # "completed"
      BY <1>a, <2>2, <3>2, <3>3, <3>4 DEF AttemptRow
    <3>5. /\ DOMAIN attempt'[t] = 1 .. n
          /\ \A i \in 1 .. n : attempt'[t][i] = IF i = n THEN R ELSE attempt[t][i]
      <4>1. attempt'[t] = [attempt[t] EXCEPT ![n] = R]
        BY <3>3
      <4>2. DOMAIN attempt[t] = 1 .. n
        BY <1>a
      <4> HIDE DEF n, R
      <4> QED
        BY <4>1, <4>2
    <3>6. Len(attempt'[t]) = n
      <4>1. attempt'[t] \in Seq(AttemptRow)
        BY DEF WorkInv, TypeOK
      <4> QED
        BY <1>a, <3>5, <4>1
    <3> HIDE DEF R
    <3> QED
      BY <3>2, <3>4, <3>5, <3>6 DEF Recorded
  <2> QED
    BY <2>1, <2>2
<1>6. ASSUME NEW l \in Loop, Completed(l, t) PROVE Recorded(t)'
  <2>1. task'[t].status = "completed"
    BY <1>6, <1>a DEF Completed, TaskRow
  <2> QED
    BY <2>1 DEF Recorded
<1>7. ASSUME NEW l \in Loop, Failed(l, t) PROVE Recorded(t)'
  <2>1. ~ \E i \in 1 .. Len(attempt[t]) : attempt[t][i].worker = "completed"
    BY <1>7, <1>b DEF Failed, Recorded, Steady, RecordingPC
  <2> QED
    BY <1>7, <2>1 DEF Failed, Recorded
<1> QED
  BY <1>1, <1>2, <1>3, <1>4, <1>5, <1>6, <1>7 DEF Effect

(* For every number of loops and tasks: when the worker of a task without  *)
(* dependencies has completed and no loop is at work on it any more, its   *)
(* row is COMPLETED.                                                       *)
THEOREM CompletionIsRecorded ==
  ASSUME ClientTaskOp = {}
  PROVE  Spec => []CompletedWorkIsRecorded
<1> DEFINE RecordedInv == \A t \in Task : Independent(t) => Recorded(t)
<1>1. Init => RecordedInv
  BY DEF Init, Recorded
<1>2. WorkInv /\ WorkInv' /\ LifeInv /\ RecordedInv /\ [Next]_vars => RecordedInv'
  <2> SUFFICES ASSUME WorkInv, WorkInv', LifeInv, RecordedInv, [Next]_vars,
                      NEW t \in Task, Independent(t)
               PROVE  Recorded(t)'
    BY DEF Independent
  <2>1. Effect(t) /\ Steady(t)
    BY LifeStep DEF LifeInv
  <2> QED
    BY <2>1, RecordedStep
<1>3. RecordedInv => CompletedWorkIsRecorded
  BY DEF Recorded, CompletedWorkIsRecorded, Drives
<1> HIDE DEF RecordedInv
<1> QED
  BY <1>1, <1>2, <1>3, LifeInductive, PTL DEF Spec

-----------------------------------------------------------------------------
(***************************************************************************)
(* The mission's row.                                                      *)
(***************************************************************************)
FailingPC == {"mission_fail_read", "mission_fail"}

(* Who writes the mission's row, and what. *)
LEMMA MissionWriters ==
  ASSUME TypeOK, [Next]_vars
  PROVE  \/ UNCHANGED mission
         \/ /\ pc["session"] \in {"create", "plan", "start"}
            /\ mission' \in {"created", "planning", "running"}
         \/ pc["client"] \in ClientMissionOp /\ mission' \in ClientMissionOp
         \/ \E l \in Loop : \/ pc[l] = "mission_complete" /\ mission' = "completed"
                            \/ pc[l] = "mission_fail" /\ mission' = "failed"
<1> USE DEF rows, vars
<1>1. CASE SessionStep \/ AdmissionFails \/ WaitTimeout
  BY <1>1 DEF SessionStep, CreateMission, CreateTask, ScheduleCreated, ReadyCreated,
         FirstPassDone, SecondPassRead, SecondPassWrite, PlanRead,
         PlanWrite, StartRead, StartWrite, WaitRead, Subscribe, Recheck, Woken,
         Answer, AdmissionFails, WaitTimeout, At
<1>2. ASSUME NEW l \in Loop, LoopStep(l)
      PROVE  \/ UNCHANGED mission
             \/ pc[l] = "mission_complete" /\ mission' = "completed"
             \/ pc[l] = "mission_fail" /\ mission' = "failed"
  BY <1>2 DEF LoopStep, SelectTask, ClaimTask, RegisterActive, Prepare, SpawnExecution,
         SpawnWorker, WorkerStart, WorkerUpdate, WorkerValidated, Dispatch,
         WorkerComplete, WorkerFail, TryFallback, PlanStep, ProgressRead,
         ProgressWrite, CompleteRead, CompleteWrite, ListDependents,
         PromoteDependent, DependentsDone, FailRead, FailWrite, ListTasks,
         MissionRead, MissionWrite, PublishEnd, DiscardActive, At
<1>3. CASE ClientCall \/ ClientStep
  BY <1>3 DEF ClientCall, ClientStep, ClientTaskRead, ClientMissionRead,
         ClientCreate, ClientTaskWrite, CreateDependency, ClientMissionWrite,
         ClientPublish
<1> QED
  BY <1>1, <1>2, <1>3 DEF Next

(* A loop comes to mission.fail only by failing its task. *)
LEMMA FailsItsTask ==
  ASSUME WorkInv, NEW l \in Loop, LoopStep(l), pc'[l] \in FailingPC
  PROVE  cur'[l] = cur[l] /\ (pc[l] \in FailingPC \/ task'[cur[l]].status = "failed")
<1> USE DEF rows, control
<1>a. /\ TypeOK /\ l \in Thread
      /\ \A label : Goto(l, label) => pc'[l] = label
  BY ThreadFacts DEF WorkInv
<1>1. CASE FailWrite(l)
  <2>1. /\ Become(cur[l], CountRetry(row[l]), "failed") /\ UNCHANGED cur
        /\ cur[l] \in Task /\ row[l] \in TaskRow
    BY <1>1, <1>a DEF FailWrite, At, TypeOK, PCOK
  <2>2. CountRetry(row[l]) \in TaskRow
    BY <2>1, ConstantsAssumption DEF CountRetry, TaskRow
  <2> QED
    BY <1>a, <2>1, <2>2, BecomeStatus
<1>2. CASE ListTasks(l) \/ MissionRead(l) \/ MissionWrite(l) \/ PublishEnd(l)
           \/ ListDependents(l) \/ DependentsDone(l)
  BY <1>2, <1>a DEF ListTasks, MissionRead, ReadMission, MissionWrite, PublishEnd,
     ListDependents, DependentsDone, At, FailingPC
<1>3. CASE \/ (\E t \in Task : SelectTask(l, t)) \/ ClaimTask(l) \/ DiscardActive(l)
           \/ RegisterActive(l) \/ Prepare(l) \/ SpawnExecution(l) \/ SpawnWorker(l)
           \/ WorkerStart(l) \/ Dispatch(l) \/ WorkerComplete(l) \/ WorkerFail(l)
           \/ TryFallback(l) \/ PlanStep(l) \/ ProgressRead(l) \/ ProgressWrite(l)
           \/ CompleteRead(l) \/ CompleteWrite(l) \/ FailRead(l)
  BY <1>3, <1>a DEF SelectTask, ClaimTask, DiscardActive, RegisterActive, Prepare,
     SpawnExecution, SpawnWorker, WorkerStart, WorkerUpdate, WorkerValidated, Dispatch,
     WorkerComplete, WorkerFail, TryFallback, PlanStep, ProgressRead, ProgressWrite,
     CompleteRead, CompleteWrite, FailRead, ReadTask, FailingPC
<1>4. CASE \E t \in Task : PromoteDependent(l, t)
  BY <1>4 DEF PromoteDependent, At, FailingPC
<1> QED
  BY <1>1, <1>2, <1>3, <1>4 DEF LoopStep

FailureHasCause ==
  /\ FailedMissionHasCause
  /\ \A l \in Loop : pc[l] \in FailingPC => task[cur[l]].status = "failed"

(* For every number of loops and tasks, when no task depends on another    *)
(* and no client calls the task manager: a FAILED mission has a FAILED     *)
(* task.                                                                   *)
THEOREM FailedMissionCaused ==
  ASSUME ClientTaskOp = {}, DependsOn = {}
  PROVE  Spec => []FailedMissionHasCause
<1>1. Init => FailureHasCause
  BY ConstantsAssumption
     DEF Init, Thread, FailureHasCause, FailedMissionHasCause, FailingPC
<1>2. WorkInv /\ WorkInv' /\ LifeInv /\ FailureHasCause /\ [Next]_vars => FailureHasCause'
  <2> SUFFICES ASSUME WorkInv, WorkInv', LifeInv, FailureHasCause, [Next]_vars
               PROVE  FailureHasCause'
    OBVIOUS
  <2>a. /\ TypeOK /\ Loop \subseteq Thread
        /\ "session" \in Thread \ Loop /\ "client" \in Thread \ Loop
        /\ \A l \in Loop : pc[l] \in FailingPC => cur[l] \in Task
    BY ThreadFacts DEF WorkInv, TypeOK, PCOK, FailingPC
  <2>1. \A t \in Task : task[t].status = "failed" => task'[t].status = "failed"
    <3> SUFFICES ASSUME NEW t \in Task, task[t].status = "failed"
                 PROVE  task'[t].status = "failed"
      OBVIOUS
    <3>1. Effect(t) /\ Steady(t)
      BY LifeStep DEF LifeInv, Independent
    <3> QED
      BY <3>1, EndIsFinal DEF Rests
  <2>2. FailedMissionHasCause'
    <3>1. mission' = "failed" =>
            mission = "failed" \/ \E l \in Loop : pc[l] \in FailingPC
      BY <2>a, MissionWriters, ConstantsAssumption DEF FailingPC
    <3> QED
      BY <2>a, <2>1, <3>1 DEF FailureHasCause, FailedMissionHasCause
  <2>3. ASSUME NEW l \in Loop, pc'[l] \in FailingPC
        PROVE  task'[cur'[l]].status = "failed"
    <3>1. CASE LoopStep(l)
      BY <2>a, <2>1, <2>3, <3>1, FailsItsTask DEF FailureHasCause
    <3>2. CASE pc'[l] = pc[l] /\ cur'[l] = cur[l]
      BY <2>a, <2>1, <2>3, <3>2 DEF FailureHasCause
    <3>3. ASSUME ~LoopStep(l) PROVE pc'[l] = pc[l] /\ cur'[l] = cur[l]
      <4>1. CASE \E m \in Loop : LoopStep(m)
        BY <2>a, <3>3, <4>1, LoopFrame
      <4>2. CASE UNCHANGED vars
        BY <4>2 DEF vars, control
      <4>3. CASE ClientCall \/ ClientStep
        <5>1. /\ UNCHANGED pc \/ \E label : pc' = [pc EXCEPT !["client"] = label]
              /\ UNCHANGED cur \/ \E u : cur' = [cur EXCEPT !["client"] = u]
          BY <4>3 DEF ClientCall, ClientTaskRead, ClientMissionRead, ClientCreate,
             ClientStep, ClientTaskWrite, CreateDependency, ClientMissionWrite,
             ClientPublish, Goto
        <5> QED
          BY <2>a, <5>1 DEF TypeOK, PCOK
      <4>4. CASE SessionStep \/ AdmissionFails \/ WaitTimeout
        <5>1. UNCHANGED pc \/ \E label : pc' = [pc EXCEPT !["session"] = label]
          BY <4>4 DEF SessionStep, CreateMission, CreateTask, ScheduleCreated,
             ReadyCreated, FirstPassDone, SecondPassRead, SecondPassWrite,
             PlanRead, PlanWrite, StartRead, StartWrite, ReadMission, WaitRead,
             Subscribe, Recheck, Woken, Answer, Report, AdmissionFails, WaitTimeout, Goto
        <5>2. UNCHANGED cur \/ \E u : cur' = [cur EXCEPT !["session"] = u]
          BY <4>4 DEF SessionStep, CreateMission, CreateTask, ScheduleCreated,
             ReadyCreated, FirstPassDone, SecondPassRead, SecondPassWrite,
             PlanRead, PlanWrite, StartRead, StartWrite, WaitRead, Subscribe, Recheck,
             Woken, Answer, AdmissionFails, WaitTimeout, rows, control
        <5> QED
          BY <2>a, <5>1, <5>2 DEF TypeOK, PCOK
      <4> QED
        BY <4>1, <4>2, <4>3, <4>4 DEF Next
    <3> QED
      BY <3>1, <3>2, <3>3
  <2> QED
    BY <2>2, <2>3 DEF FailureHasCause
<1>3. FailureHasCause => FailedMissionHasCause
  BY DEF FailureHasCause
<1> QED
  BY <1>1, <1>2, <1>3, LifeInductive, PTL DEF Spec

-----------------------------------------------------------------------------
(* Before it writes the mission's row a loop has read it. *)
LEMMA ReadsMissionFirst ==
  ASSUME TypeOK, NEW l \in Loop, LoopStep(l),
         pc'[l] \in {"mission_complete", "mission_fail"}
  PROVE  MissionRead(l)
<1> USE DEF rows, control
<1>a. \A label : Goto(l, label) => pc'[l] = label
  BY ThreadFacts
<1>1. CASE ListTasks(l) \/ MissionWrite(l) \/ PublishEnd(l)
           \/ ListDependents(l) \/ DependentsDone(l)
  BY <1>1, <1>a DEF ListTasks, MissionWrite, PublishEnd, ListDependents, DependentsDone
<1>2. CASE \/ (\E t \in Task : SelectTask(l, t)) \/ ClaimTask(l) \/ DiscardActive(l)
           \/ RegisterActive(l) \/ Prepare(l) \/ SpawnExecution(l) \/ SpawnWorker(l)
           \/ WorkerStart(l) \/ Dispatch(l) \/ WorkerComplete(l) \/ WorkerFail(l)
           \/ TryFallback(l) \/ PlanStep(l) \/ ProgressRead(l) \/ ProgressWrite(l)
           \/ CompleteRead(l) \/ CompleteWrite(l) \/ FailRead(l) \/ FailWrite(l)
  BY <1>2, <1>a DEF SelectTask, ClaimTask, DiscardActive, RegisterActive, Prepare,
     SpawnExecution, SpawnWorker, WorkerStart, WorkerUpdate, WorkerValidated, Dispatch,
     WorkerComplete, WorkerFail, TryFallback, PlanStep, ProgressRead, ProgressWrite,
     CompleteRead, CompleteWrite, FailRead, FailWrite, ReadTask
<1>3. CASE \E t \in Task : PromoteDependent(l, t)
  BY <1>3 DEF PromoteDependent, At
<1> QED
  BY <1>1, <1>2, <1>3 DEF LoopStep

(* The reported ending is the mission's, and no writer of the mission is   *)
(* left that has not looked at it since: the request is done, and the loop *)
(* that is about to end the mission has seen that it had not ended.        *)
ReportStands ==
  /\ outcome \in MissionEnded => mission = outcome /\ pc["session"] = "done"
  /\ \A l \in Loop :
       pc[l] \in {"mission_complete", "mission_fail"} => mission \notin MissionEnded

(* With one executor loop and no client that writes the mission: once a    *)
(* request has reported an ending of its mission, the row keeps it.        *)
THEOREM ReportedEndingStays ==
  ASSUME \A l, m \in Loop : l = m, ClientMissionOp = {}
  PROVE  Spec => []ReportIsFinal
<1>1. Init => ReportStands
  BY ConstantsAssumption DEF Init, Thread, ReportStands, MissionEnded
<1>2. TypeOK /\ ReportStands /\ [Next]_vars => ReportStands'
  <2> SUFFICES ASSUME TypeOK, ReportStands, [Next]_vars PROVE ReportStands'
    OBVIOUS
  <2> USE DEF rows, waiter
  <2>a. /\ Loop \subseteq Thread \ {"session", "client"}
        /\ "session" \in Thread /\ "client" \in Thread \ {"session"}
        /\ DOMAIN pc = Thread
        /\ \A th \in Thread : \A label :
             Goto(th, label) => /\ pc'[th] = label
                                /\ \A o \in Thread \ {th} : pc'[o] = pc[o]
    BY ThreadFacts DEF TypeOK, PCOK
  <2>1. CASE SessionStep \/ AdmissionFails \/ WaitTimeout
    <3>1. /\ \A l \in Loop : pc'[l] = pc[l]
          /\ pc["session"] # "done"
      <4>1. UNCHANGED pc \/ \E label : pc' = [pc EXCEPT !["session"] = label]
        BY <2>1 DEF SessionStep, CreateMission, CreateTask, ScheduleCreated,
           ReadyCreated, FirstPassDone, SecondPassRead, SecondPassWrite,
           PlanRead, PlanWrite, StartRead, StartWrite, ReadMission, WaitRead,
           Subscribe, Recheck, Woken, Answer, Report, AdmissionFails, WaitTimeout, Goto
      <4>2. pc["session"] # "done"
        BY <2>1 DEF SessionStep, CreateMission, CreateTask, ScheduleCreated,
           ReadyCreated, FirstPassDone, SecondPassRead, SecondPassWrite,
           PlanRead, PlanWrite, StartRead, StartWrite, WaitRead,
           Subscribe, Recheck, Woken, Answer, AdmissionFails, WaitTimeout, At
      <4> QED
        BY <2>a, <4>1, <4>2
    <3>2. outcome \notin MissionEnded
      BY <3>1 DEF ReportStands
    <3>3. mission' = mission \/ mission' \notin MissionEnded
      BY <2>1 DEF SessionStep, CreateMission, CreateTask, ScheduleCreated,
           ReadyCreated, FirstPassDone, SecondPassRead, SecondPassWrite,
           PlanRead, PlanWrite, StartRead, StartWrite, WaitRead,
           Subscribe, Recheck, Woken, Answer, AdmissionFails, WaitTimeout, MissionEnded
    <3>4. \/ UNCHANGED outcome
          \/ outcome' = mission /\ mission' = mission /\ Goto("session", "done")
      BY <2>1 DEF SessionStep, CreateMission, CreateTask, ScheduleCreated,
           ReadyCreated, FirstPassDone, SecondPassRead, SecondPassWrite,
           PlanRead, PlanWrite, StartRead, StartWrite, WaitRead, Report,
           Subscribe, Recheck, Woken, Answer, AdmissionFails, WaitTimeout
    <3> QED
      BY <2>a, <3>1, <3>2, <3>3, <3>4 DEF ReportStands
  <2>2. ASSUME NEW l \in Loop, LoopStep(l) PROVE ReportStands'
    <3>1. /\ UNCHANGED outcome /\ pc'["session"] = pc["session"]
          /\ \A m \in Loop : m = l
      <4>1. UNCHANGED outcome
        BY <2>2
         DEF LoopStep, SelectTask, ClaimTask, RegisterActive, Prepare, SpawnExecution,
         SpawnWorker, WorkerStart, WorkerUpdate, WorkerValidated, Dispatch,
         WorkerComplete, WorkerFail, TryFallback, PlanStep, ProgressRead,
         ProgressWrite, CompleteRead, CompleteWrite, ListDependents,
         PromoteDependent, DependentsDone, FailRead, FailWrite, ListTasks,
         MissionRead, MissionWrite, PublishEnd, Notify, DiscardActive
      <4>2. pc'["session"] = pc["session"]
        BY <2>2, <2>a, LoopFrame
      <4> QED
        BY <4>1, <4>2
    <3>2. CASE MissionWrite(l)
      <4>1. pc[l] \in {"mission_complete", "mission_fail"} /\ pc'[l] = "publish"
        BY <2>a, <3>2 DEF MissionWrite, At
      <4> QED
        BY <3>1, <4>1 DEF ReportStands
    <3>3. CASE MissionRead(l)
      <4>1. UNCHANGED mission
        BY <3>3 DEF MissionRead
      <4>2. pc'[l] \in {"mission_complete", "mission_fail"} => mission \notin MissionEnded
        BY <2>a, <3>3 DEF MissionRead, ReadMission, validate_mission_transition,
           MissionSuccessors, MissionEnded
      <4> QED
        BY <3>1, <4>1, <4>2 DEF ReportStands
    <3>4. CASE ~MissionWrite(l) /\ ~MissionRead(l)
      <4>1. UNCHANGED mission
        BY <2>2, <3>4
         DEF LoopStep, SelectTask, ClaimTask, RegisterActive, Prepare, SpawnExecution,
         SpawnWorker, WorkerStart, WorkerUpdate, WorkerValidated, Dispatch,
         WorkerComplete, WorkerFail, TryFallback, PlanStep, ProgressRead,
         ProgressWrite, CompleteRead, CompleteWrite, ListDependents,
         PromoteDependent, DependentsDone, FailRead, FailWrite, ListTasks,
         PublishEnd, DiscardActive
      <4>2. pc'[l] \notin {"mission_complete", "mission_fail"}
        BY <2>2, <3>4, ReadsMissionFirst
      <4> QED
        BY <3>1, <4>1, <4>2 DEF ReportStands
    <3> QED
      BY <3>2, <3>3, <3>4
  <2>3. CASE ClientCall \/ ClientStep
    <3>1. /\ UNCHANGED <<outcome, mission>>
          /\ UNCHANGED pc \/ \E label : pc' = [pc EXCEPT !["client"] = label]
      BY <2>3 DEF ClientCall, ClientStep, ClientTaskRead, ClientMissionRead,
         ClientCreate, ClientTaskWrite, CreateDependency, ClientMissionWrite,
         ClientPublish, Notify, Goto
    <3>2. \A o \in Thread \ {"client"} : pc'[o] = pc[o]
      BY <2>a, <3>1
    <3> QED
      BY <2>a, <3>1, <3>2 DEF ReportStands
  <2>4. CASE UNCHANGED vars
    BY <2>4 DEF vars, control, ReportStands
  <2> QED
    BY <2>1, <2>2, <2>3, <2>4 DEF Next
<1>3. ReportStands => ReportIsFinal
  BY DEF ReportStands, ReportIsFinal
<1> QED
  BY <1>1, <1>2, <1>3, TypeCorrect, PTL DEF Spec
=============================================================================
