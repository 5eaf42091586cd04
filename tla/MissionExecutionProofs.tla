------------------------- MODULE MissionExecutionProofs -------------------------
(***************************************************************************)
(* For every set of goals, dependencies, plans, loops and client calls: the *)
(* state has its types, and no two executor loops work on one task.        *)
(***************************************************************************)
EXTENDS MissionExecution, TLAPS

-----------------------------------------------------------------------------
(* A helper that writes one task row keeps the rows typed. *)
LEMMA BecomeType ==
  ASSUME task \in [Task -> TaskRow], NEW t, NEW r \in TaskRow,
         NEW status \in TaskStatus \cup {"none"}, Become(t, r, status)
  PROVE  task' \in [Task -> TaskRow]
<1>1. [r EXCEPT !.status = status] \in TaskRow
  BY DEF TaskRow
<1> HIDE DEF TaskRow
<1>2. task' = [task EXCEPT ![t] = [r EXCEPT !.status = status]]
  BY DEF Become
<1> DEFINE R == [r EXCEPT !.status = status]
<1> HIDE DEF R
<1>3. R \in TaskRow /\ task' = [task EXCEPT ![t] = R]
  BY <1>1, <1>2 DEF R
<1> QED
  BY <1>3

(* NoRow is a row. *)
LEMMA NoRowType == NoRow \in TaskRow
  BY ConstantsAssumption DEF NoRow, TaskRow

(* Appending an attempt, or updating the last one, keeps the list typed. *)
LEMMA AppendAttempt ==
  ASSUME NEW s \in Seq(AttemptRow)
  PROVE  Append(s, [execution |-> "created", worker |-> "none"])
           \in Seq(AttemptRow)
  BY DEF AttemptRow, ExecutionStatus, WorkerStatus

LEMMA ExceptSeq ==
  ASSUME NEW S, NEW s \in Seq(S), NEW n, NEW x, n \in 1 .. Len(s) => x \in S
  PROVE  [s EXCEPT ![n] = x] \in Seq(S)
<1>1. s \in [1 .. Len(s) -> S]
  OBVIOUS
<1>2. [s EXCEPT ![n] = x] \in [1 .. Len(s) -> S]
  BY <1>1
<1>3. Len(s) \in Nat
  OBVIOUS
<1> QED
  BY <1>2, <1>3

LEMMA SetAttemptType ==
  ASSUME attempt \in [Task -> Seq(AttemptRow)], NEW t,
         NEW field, NEW status,
         \/ field = "worker" /\ status \in WorkerStatus
         \/ field = "execution" /\ status \in ExecutionStatus,
         SetAttempt(t, field, status)
  PROVE  attempt' \in [Task -> Seq(AttemptRow)]
<1> DEFINE s == attempt[t]
           n == Len(s)
           r == [s[n] EXCEPT ![field] = status]
           u == [s EXCEPT ![n] = r]
<1>1. attempt' = [attempt EXCEPT ![t] = u]
  BY DEF SetAttempt
<1>2. CASE t \in Task
  <2>1. ASSUME n \in 1 .. Len(s) PROVE r \in AttemptRow
    <3>1. s[n] \in AttemptRow
      BY <1>2, <2>1
    <3> QED
      BY <3>1 DEF AttemptRow
  <2>2. s \in Seq(AttemptRow)
    BY <1>2
  <2>3. u \in Seq(AttemptRow)
    <3> HIDE DEF s, n, r
    <3> QED
      BY <2>1, <2>2, ExceptSeq DEF n
  <2> QED
    BY <1>1, <2>3
<1>3. CASE t \notin Task
  <2> HIDE DEF u
  <2> QED
    BY <1>1, <1>3
<1> QED
  BY <1>2, <1>3

-----------------------------------------------------------------------------
(* A thread that goes on to one of its own statements keeps PCOK. *)
LEMMA GotoLoop ==
  ASSUME PCOK, NEW l \in Loop, NEW label \in LoopPC, Goto(l, label),
         UNCHANGED step, label \in PlanPC => step[l] < Steps,
         UNCHANGED cur, label # "idle" => cur[l] \in Task
  PROVE  PCOK'
  BY ConstantsAssumption DEF PCOK, Goto, Thread

LEMMA GotoLoopTask ==
  ASSUME PCOK, NEW l \in Loop, NEW label \in LoopPC \ PlanPC, Goto(l, label),
         UNCHANGED step, NEW t \in Task \cup {NoTask},
         cur' = [cur EXCEPT ![l] = t], label # "idle" => t \in Task
  PROVE  PCOK'
  BY ConstantsAssumption DEF PCOK, Goto, Thread

LEMMA GotoSession ==
  ASSUME PCOK, NEW label \in SessionPC, Goto("session", label), UNCHANGED step,
         UNCHANGED cur \/ \E t \in Task : cur' = [cur EXCEPT !["session"] = t]
  PROVE  PCOK'
  BY ConstantsAssumption DEF PCOK, Goto, Thread

LEMMA GotoClient ==
  ASSUME PCOK, NEW label \in ClientPC, Goto("client", label), UNCHANGED step,
         \/ UNCHANGED cur
         \/ \E t \in Task \cup {NoTask} : cur' = [cur EXCEPT !["client"] = t]
  PROVE  PCOK'
  BY ConstantsAssumption DEF PCOK, Goto, Thread

LEMMA StayPC == ASSUME PCOK, UNCHANGED <<pc, step, cur>> PROVE PCOK'
  BY DEF PCOK

(* Every initial state has its types. *)
LEMMA TypeInit == Init => TypeOK
<1> SUFFICES ASSUME Init PROVE TypeOK
  OBVIOUS
<1>1. PCOK
  BY ConstantsAssumption
     DEF Init, PCOK, Thread, LoopPC, SessionPC, ClientPC, PlanPC
<1>2. NoRow \in TaskRow
  BY NoRowType
<1>3. attempt \in [Task -> Seq(AttemptRow)]
  BY DEF Init
<1>4. /\ task \in [Task -> TaskRow]
      /\ row \in [Thread -> TaskRow]
  BY <1>2 DEF Init
<1>5. calls \in 0 .. MaxCalls
  BY ConstantsAssumption DEF Init
<1>6. /\ todo \in [Thread -> SUBSET Task]
      /\ dep \in [DependsOn -> {"none", "waiting", "satisfied"}]
      /\ active \subseteq Task
  BY DEF Init
<1>7. /\ mission \in MissionStatus \cup {"none"}
      /\ subscribed \in BOOLEAN /\ signalled \in BOOLEAN
      /\ outcome \in MissionStatus \cup {"none"}
  BY DEF Init
<1> QED
  BY <1>1, <1>3, <1>4, <1>5, <1>6, <1>7 DEF TypeOK

(* The steps of the request thread keep the types. *)
LEMMA TypeSession == ASSUME TypeOK, SessionStep PROVE TypeOK'
<1> USE ConstantsAssumption DEF rows, control, waiter
<1>a. "session" \in Thread
  BY DEF Thread
<1>b. PCOK
  BY DEF TypeOK
<1>1. CASE CreateMission
  <2>1. PCOK'
    BY <1>1, <1>b, GotoSession DEF CreateMission, SessionPC
  <2> QED
    BY <1>1, <2>1 DEF CreateMission, TypeOK, MissionStatus
<1>2. ASSUME NEW t \in Task, CreateTask(t) PROVE TypeOK'
  <2>1. PCOK'
    BY <1>2, <1>b, GotoSession DEF CreateTask, SessionPC
  <2>2. task' \in [Task -> TaskRow]
    BY <1>2, BecomeType, NoRowType DEF CreateTask, TypeOK, TaskStatus
  <2> QED
    BY <1>2, <1>a, <2>1, <2>2 DEF CreateTask, TypeOK
<1>3. CASE ScheduleCreated \/ ReadyCreated
  <2>1. PCOK'
    BY <1>3, <1>b, GotoSession DEF ScheduleCreated, ReadyCreated, SessionPC
  <2>2. task' \in [Task -> TaskRow]
    BY <1>3, BecomeType, NoRowType
       DEF ScheduleCreated, ReadyCreated, TypeOK, TaskStatus
  <2> QED
    BY <1>3, <2>1, <2>2 DEF ScheduleCreated, ReadyCreated, TypeOK
<1>4. CASE FirstPassDone
  <2>1. PCOK'
    BY <1>4, <1>b, GotoSession DEF FirstPassDone, SessionPC
  <2>2. {t \in Goal : ~Independent(t)} \subseteq Task
    BY DEF Goal
  <2> QED
    BY <1>4, <1>a, <2>1, <2>2 DEF FirstPassDone, TypeOK
<1>5. ASSUME NEW t \in Task, SecondPassRead(t) PROVE TypeOK'
  <2>1. PCOK'
    BY <1>5, <1>b, GotoSession DEF SecondPassRead, SessionPC
  <2> QED
    BY <1>5, <1>a, <2>1 DEF SecondPassRead, TypeOK
<1>6. CASE SecondPassWrite
  <2>1. PCOK'
    BY <1>6, <1>b, GotoSession DEF SecondPassWrite, SessionPC
  <2>2. task' \in [Task -> TaskRow]
    BY <1>6, <1>a, BecomeType DEF SecondPassWrite, TypeOK, TaskStatus
  <2> QED
    BY <1>6, <2>1, <2>2 DEF SecondPassWrite, TypeOK
<1>7. CASE PlanRead \/ StartRead
  <2>1. PCOK'
    BY <1>7, <1>b, GotoSession DEF PlanRead, StartRead, ReadMission, SessionPC
  <2> QED
    BY <1>7, <2>1 DEF PlanRead, StartRead, TypeOK
<1>8. CASE PlanWrite \/ StartWrite
  <2>1. PCOK'
    BY <1>8, <1>b, GotoSession DEF PlanWrite, StartWrite, SessionPC
  <2> QED
    BY <1>8, <2>1 DEF PlanWrite, StartWrite, TypeOK, MissionStatus
<1>9. CASE Subscribe \/ Woken
  <2>1. PCOK'
    BY <1>9, <1>b, GotoSession DEF Subscribe, Woken, SessionPC
  <2>2. /\ subscribed' \in BOOLEAN /\ signalled' \in BOOLEAN
        /\ outcome' \in MissionStatus \cup {"none"}
    <3>1. CASE Subscribe
      BY <3>1 DEF Subscribe, TypeOK
    <3>2. CASE Woken
      <4>1. UNCHANGED <<subscribed, signalled, outcome>>
        BY <3>2 DEF Woken
      <4> QED
        BY <4>1 DEF TypeOK
    <3> QED
      BY <1>9, <3>1, <3>2
  <2> QED
    BY <1>9, <2>1, <2>2 DEF Subscribe, Woken, TypeOK
<1>10. CASE WaitRead \/ Recheck \/ Answer
  <2>1. PCOK'
    BY <1>10, <1>b, GotoSession DEF WaitRead, Recheck, Answer, Report, SessionPC
  <2>2. /\ subscribed' \in BOOLEAN /\ signalled' \in BOOLEAN
        /\ outcome' \in MissionStatus \cup {"none"}
    BY <1>10 DEF WaitRead, Recheck, Answer, Report, TypeOK
  <2> QED
    BY <1>10, <2>1, <2>2 DEF WaitRead, Recheck, Answer, TypeOK
<1> QED
  BY <1>1, <1>2, <1>3, <1>4, <1>5, <1>6, <1>7, <1>8, <1>9, <1>10
     DEF SessionStep

(* One update of a worker or of its execution keeps the types. *)
LEMMA TypeWorkerUpdate ==
  ASSUME TypeOK, NEW l \in Loop, NEW at, NEW field, NEW status,
         \/ field = "worker" /\ status \in WorkerStatus
         \/ field = "execution" /\ status \in ExecutionStatus,
         NEW next \in LoopPC \ PlanPC, at # "idle",
         WorkerUpdate(l, at, field, status, next)
  PROVE  TypeOK'
<1>1. PCOK'
  BY GotoLoop DEF WorkerUpdate, TypeOK, At, PCOK
<1>2. attempt' \in [Task -> Seq(AttemptRow)]
  BY SetAttemptType DEF WorkerUpdate, TypeOK
<1> QED
  BY <1>1, <1>2 DEF WorkerUpdate, TypeOK, waiter

LEMMA TypeWorkerValidated ==
  ASSUME TypeOK, NEW l \in Loop, NEW at, NEW status \in WorkerStatus,
         NEW next \in LoopPC \ PlanPC, NEW refused \in LoopPC \ PlanPC,
         at # "idle",
         WorkerValidated(l, at, status, next, refused)
  PROVE  TypeOK'
<1>1. CASE WorkerUpdate(l, at, "worker", status, next)
  BY <1>1, TypeWorkerUpdate
<1>2. CASE /\ Goto(l, refused)
           /\ UNCHANGED <<rows, active, cur, row, todo, step, waiter, calls>>
  <2>1. PCOK'
    BY <1>2, GotoLoop DEF WorkerValidated, TypeOK, At, PCOK
  <2> QED
    BY <1>2, <2>1 DEF TypeOK, rows, waiter
<1> QED
  BY <1>1, <1>2 DEF WorkerValidated

(* The steps of an executor loop keep the types. *)
LEMMA TypeLoop ==
  ASSUME TypeOK, NEW l \in Loop, LoopStep(l) PROVE TypeOK'
<1> USE ConstantsAssumption DEF rows, control, waiter
<1>a. l \in Thread
  BY DEF Thread
<1>b. PCOK
  BY DEF TypeOK
<1>c. /\ task \in [Task -> TaskRow]
      /\ row[l] \in TaskRow
  BY <1>a DEF TypeOK
<1>d. pc[l] # "idle" => cur[l] \in Task
  BY <1>b DEF PCOK
<1>e. pc[l] \in PlanPC => step[l] < Steps
  BY <1>b DEF PCOK
<1>1. ASSUME NEW t \in Task, SelectTask(l, t) PROVE TypeOK'
  <2>1. PCOK'
    BY <1>1, <1>b, GotoLoopTask DEF SelectTask, LoopPC, PlanPC
  <2> QED
    BY <1>1, <2>1 DEF SelectTask, TypeOK
<1>2. CASE ClaimTask(l)
  <2>1. PCOK'
    <3>1. CASE UNCHANGED cur
      BY <1>2, <3>1, <1>b, <1>d, GotoLoop
         DEF ClaimTask, At, LoopPC, WorkPC, PlanPC
    <3>2. CASE ~UNCHANGED cur
      BY <1>2, <3>2, <1>b, GotoLoopTask DEF ClaimTask, LoopPC, PlanPC
    <3> QED
      BY <3>1, <3>2
  <2>2. task' \in [Task -> TaskRow]
    <3>1. CASE UNCHANGED task
      BY <1>c, <3>1
    <3>2. CASE Become(cur[l], task[cur[l]], "running")
      BY <1>2, <1>c, <1>d, <3>2, BecomeType DEF ClaimTask, At, TaskStatus
    <3> QED
      BY <1>2, <3>1, <3>2 DEF ClaimTask
  <2> QED
    BY <1>2, <2>1, <2>2 DEF ClaimTask, TypeOK
<1>3. CASE RegisterActive(l)
  <2>1. step' \in [Loop -> 0 .. Steps] /\ step'[l] < Steps
    BY <1>3, <1>b DEF RegisterActive, PCOK
  <2>2. PCOK'
    BY <1>3, <1>b, <1>d, <2>1
       DEF RegisterActive, PCOK, At, Goto, Thread, LoopPC, WorkPC, PlanPC
  <2> QED
    BY <1>3, <1>d, <2>2 DEF RegisterActive, At, TypeOK
<1>4. CASE \/ Prepare(l) \/ Dispatch(l) \/ TryFallback(l) \/ ListTasks(l)
           \/ MissionRead(l) \/ DependentsDone(l)
  <2>1. PCOK'
    BY <1>4, <1>b, <1>d, GotoLoop
       DEF Prepare, Dispatch, TryFallback, ListTasks, MissionRead, ReadMission,
           DependentsDone, At, LoopPC, WorkPC, SettlePC, PlanPC
  <2> QED
    BY <1>4, <2>1 DEF Prepare, Dispatch, TryFallback, ListTasks, MissionRead,
                      DependentsDone, TypeOK
<1>5. CASE SpawnExecution(l)
  <2>1. PCOK'
    BY <1>5, <1>b, <1>d, GotoLoop DEF SpawnExecution, At, LoopPC, WorkPC, PlanPC
  <2>2. attempt' \in [Task -> Seq(AttemptRow)]
    BY <1>5, <1>d, AppendAttempt DEF SpawnExecution, At, TypeOK
  <2> QED
    BY <1>5, <2>1, <2>2 DEF SpawnExecution, TypeOK
<1>6. CASE SpawnWorker(l) \/ WorkerStart(l) \/ WorkerComplete(l) \/ WorkerFail(l)
  <2> {"starting", "started", "execution_running", "dispatch", "completed",
       "execution_completed", "complete_read", "failed", "execution_failed",
       "fallback"} \subseteq LoopPC \ PlanPC
    BY DEF LoopPC, WorkPC, PlanPC
  <2> {"spawned", "starting", "running", "completing", "completed", "failing",
       "failed"} \subseteq WorkerStatus
    BY DEF WorkerStatus
  <2> {"running", "completed", "failed"} \subseteq ExecutionStatus
    BY DEF ExecutionStatus
  <2>1. CASE SpawnWorker(l)
    BY <2>1, TypeWorkerUpdate DEF SpawnWorker
  <2>2. CASE WorkerStart(l)
    BY <2>2, TypeWorkerUpdate, TypeWorkerValidated DEF WorkerStart
  <2>3. CASE WorkerComplete(l)
    BY <2>3, TypeWorkerUpdate, TypeWorkerValidated DEF WorkerComplete
  <2>4. CASE WorkerFail(l)
    BY <2>4, TypeWorkerUpdate, TypeWorkerValidated DEF WorkerFail
  <2> QED
    BY <1>6, <2>1, <2>2, <2>3, <2>4
<1>7. CASE PlanStep(l)
  <2>1. PCOK'
    BY <1>7, <1>b, <1>d, <1>e, GotoLoop
       DEF PlanStep, At, LoopPC, WorkPC, PlanPC
  <2> QED
    BY <1>7, <2>1 DEF PlanStep, TypeOK
<1>8. CASE ProgressRead(l)
  <2>1. PCOK'
    BY <1>8, <1>b, <1>d, <1>e, GotoLoop
       DEF ProgressRead, At, LoopPC, WorkPC, PlanPC
  <2>2. task[cur[l]] \in TaskRow
    BY <1>8, <1>c, <1>d DEF ProgressRead, At
  <2> QED
    BY <1>8, <1>a, <2>1, <2>2 DEF ProgressRead, TypeOK
<1>9. CASE ProgressWrite(l)
  <2>1. PCOK'
    <3>1. step \in [Loop -> 0 .. Steps] /\ step[l] < Steps
      BY <1>9, <1>b, <1>e DEF ProgressWrite, At, PCOK, PlanPC
    <3>2. step' \in [Loop -> 0 .. Steps]
      BY <1>9, <3>1 DEF ProgressWrite
    <3>3. pc'[l] \in LoopPC /\ (pc'[l] \in PlanPC => step'[l] < Steps)
      BY <1>9, <1>b, <3>1 DEF ProgressWrite, Goto, PCOK, LoopPC, WorkPC, PlanPC, Thread
    <3> QED
      BY <1>9, <1>b, <1>d, <3>2, <3>3 DEF ProgressWrite, PCOK, At, Goto, Thread
  <2>2. task' \in [Task -> TaskRow]
    <3>1. row[l].status \in TaskStatus \cup {"none"}
      BY <1>c DEF TaskRow
    <3> QED
      BY <1>9, <1>c, <3>1, BecomeType DEF ProgressWrite
  <2> QED
    BY <1>9, <2>1, <2>2 DEF ProgressWrite, TypeOK
<1>10. CASE CompleteRead(l) \/ FailRead(l)
  <2>1. PCOK'
    BY <1>10, <1>b, <1>d, GotoLoop
       DEF CompleteRead, FailRead, ReadTask, At, LoopPC, WorkPC, SettlePC, PlanPC
  <2>2. task[cur[l]] \in TaskRow
    BY <1>10, <1>c, <1>d DEF CompleteRead, FailRead, At
  <2>3. row' \in [Thread -> TaskRow]
    BY <1>10, <1>a, <2>2 DEF CompleteRead, FailRead, ReadTask, TypeOK
  <2> QED
    BY <1>10, <2>1, <2>3 DEF CompleteRead, FailRead, TypeOK
<1>11. CASE CompleteWrite(l) \/ FailWrite(l)
  <2>1. PCOK'
    BY <1>11, <1>b, <1>d, GotoLoop
       DEF CompleteWrite, FailWrite, At, LoopPC, SettlePC, PlanPC
  <2>2. CountRetry(row[l]) \in TaskRow
    BY <1>c DEF CountRetry, TaskRow
  <2>3. task' \in [Task -> TaskRow]
    BY <1>11, <1>c, <2>2, BecomeType DEF CompleteWrite, FailWrite, TaskStatus
  <2> QED
    BY <1>11, <2>1, <2>3 DEF CompleteWrite, FailWrite, TypeOK
<1>12. CASE ListDependents(l)
  <2>1. PCOK'
    BY <1>12, <1>b, <1>d, GotoLoop
       DEF ListDependents, At, LoopPC, SettlePC, PlanPC
  <2> QED
    BY <1>12, <1>a, <2>1 DEF ListDependents, TypeOK
<1>13. ASSUME NEW t \in Task, PromoteDependent(l, t) PROVE TypeOK'
  <2>1. PCOK'
    BY <1>13, <1>b, StayPC DEF PromoteDependent
  <2>2. todo' \in [Thread -> SUBSET Task]
    <3>1. todo \in [Thread -> SUBSET Task]
      BY DEF TypeOK
    <3>2. todo[l] \ {t} \in SUBSET Task
      BY <1>a, <3>1
    <3> QED
      BY <1>13, <3>1, <3>2 DEF PromoteDependent
  <2>3. task' \in [Task -> TaskRow]
    <3>1. CASE UNCHANGED task
      BY <1>c, <3>1
    <3>2. CASE Become(t, task[t], "ready")
      BY <1>c, <3>2, BecomeType DEF TaskStatus
    <3> QED
      BY <1>13, <3>1, <3>2 DEF PromoteDependent
  <2>4. dep' \in [DependsOn -> {"none", "waiting", "satisfied"}]
    BY <1>13 DEF PromoteDependent, TypeOK
  <2> QED
    BY <1>13, <2>1, <2>2, <2>3, <2>4 DEF PromoteDependent, TypeOK
<1>14. CASE MissionWrite(l)
  <2>1. PCOK'
    BY <1>14, <1>b, <1>d, GotoLoop
       DEF MissionWrite, At, LoopPC, SettlePC, PlanPC
  <2> QED
    BY <1>14, <2>1 DEF MissionWrite, TypeOK, MissionStatus
<1>15. CASE PublishEnd(l)
  <2>1. PCOK'
    BY <1>15, <1>b, <1>d, GotoLoop
       DEF PublishEnd, At, LoopPC, SettlePC, PlanPC
  <2> QED
    BY <1>15, <2>1 DEF PublishEnd, Notify, TypeOK
<1>16. CASE DiscardActive(l)
  <2>1. PCOK'
    BY <1>16, <1>b, GotoLoopTask DEF DiscardActive, LoopPC, PlanPC
  <2> QED
    BY <1>16, <1>a, <2>1, NoRowType DEF DiscardActive, TypeOK
<1> QED
  BY <1>1, <1>2, <1>3, <1>4, <1>5, <1>6, <1>7, <1>8, <1>9, <1>10, <1>11, <1>12,
     <1>13, <1>14, <1>15, <1>16 DEF LoopStep

(* The calls of a client, and the rest of the steps it takes, keep the     *)
(* types.                                                                  *)
LEMMA TypeClient ==
  ASSUME TypeOK, ClientCall \/ ClientStep PROVE TypeOK'
<1> USE ConstantsAssumption DEF rows, control, waiter
<1>a. "client" \in Thread
  BY DEF Thread
<1>b. PCOK
  BY DEF TypeOK
<1>c. /\ task \in [Task -> TaskRow]
      /\ row["client"] \in TaskRow
  BY <1>a DEF TypeOK
<1>1. ASSUME NEW to \in ClientTaskOp, NEW t \in Task, ClientTaskRead(to, t)
      PROVE  TypeOK'
  <2>1. PCOK'
    BY <1>1, <1>b, GotoClient DEF ClientTaskRead, ClientPC
  <2>2. row' \in [Thread -> TaskRow]
    BY <1>1, <1>a, <1>c DEF ClientTaskRead, TypeOK
  <2> QED
    BY <1>1, <2>1, <2>2 DEF ClientTaskRead, TypeOK
<1>2. ASSUME NEW to \in ClientMissionOp, ClientMissionRead(to) PROVE TypeOK'
  <2>1. PCOK'
    BY <1>2, <1>b, GotoClient DEF ClientMissionRead, ClientPC
  <2> QED
    BY <1>2, <2>1 DEF ClientMissionRead, TypeOK
<1>3. CASE ClientTaskWrite
  <2>1. PCOK'
    <3>1. CASE pc["client"] = "retrying"
      BY <1>3, <3>1, <1>b, GotoClient DEF ClientTaskWrite, ClientPC
    <3>2. CASE pc["client"] # "retrying"
      BY <1>3, <3>2, <1>b, GotoClient DEF ClientTaskWrite, ClientPC
    <3> QED
      BY <3>1, <3>2
  <2>2. pc["client"] \in TaskStatus
    BY <1>3 DEF ClientTaskWrite, TaskStatus
  <2>3. task' \in [Task -> TaskRow]
    BY <1>3, <1>c, <2>2, BecomeType DEF ClientTaskWrite
  <2>4. row' \in [Thread -> TaskRow]
    <3>1. UNCHANGED row \/ row' = [row EXCEPT !["client"] = NoRow]
      BY <1>3 DEF ClientTaskWrite
    <3> QED
      BY <3>1, NoRowType DEF TypeOK
  <2> QED
    BY <1>3, <2>1, <2>3, <2>4 DEF ClientTaskWrite, TypeOK
<1>4. CASE ClientMissionWrite
  <2>1. PCOK'
    BY <1>4, <1>b, GotoClient DEF ClientMissionWrite, ClientPC
  <2> QED
    BY <1>4, <2>1 DEF ClientMissionWrite, TypeOK, MissionStatus
<1>5. CASE ClientPublish
  <2>1. PCOK'
    BY <1>5, <1>b, GotoClient DEF ClientPublish, ClientPC
  <2> QED
    BY <1>5, <2>1 DEF ClientPublish, Notify, TypeOK
<1>6. ASSUME NEW t \in Task, ClientCreate(t) PROVE TypeOK'
  <2>1. PCOK'
    BY <1>6, <1>b, GotoClient DEF ClientCreate, ClientPC
  <2>2. task' \in [Task -> TaskRow]
    BY <1>6, <1>c, BecomeType, NoRowType DEF ClientCreate, TaskStatus
  <2> QED
    BY <1>6, <2>1, <2>2 DEF ClientCreate, TypeOK
<1>7. ASSUME NEW e \in DependsOn, CreateDependency(e) PROVE TypeOK'
  <2>1. PCOK'
    <3>1. CASE UNCHANGED <<pc, cur>>
      BY <1>7, <3>1, <1>b, StayPC DEF CreateDependency
    <3>2. CASE Goto("client", "idle") /\ cur' = [cur EXCEPT !["client"] = NoTask]
      BY <1>7, <3>2, <1>b, GotoClient DEF CreateDependency, ClientPC
    <3> QED
      BY <1>7, <3>1, <3>2 DEF CreateDependency
  <2>2. dep' \in [DependsOn -> {"none", "waiting", "satisfied"}]
    BY <1>7 DEF CreateDependency, TypeOK
  <2> QED
    BY <1>7, <2>1, <2>2 DEF CreateDependency, TypeOK
<1> QED
  BY <1>1, <1>2, <1>3, <1>4, <1>5, <1>6, <1>7 DEF ClientCall, ClientStep

(* Every step keeps the types. *)
LEMMA TypeNext == TypeOK /\ [Next]_vars => TypeOK'
<1> SUFFICES ASSUME TypeOK, [Next]_vars PROVE TypeOK'
  OBVIOUS
<1>1. CASE AdmissionFails \/ WaitTimeout
  <2>1. PCOK'
    BY <1>1, GotoSession
       DEF AdmissionFails, WaitTimeout, SessionPC, TypeOK, control
  <2> QED
    BY <1>1, <2>1 DEF AdmissionFails, WaitTimeout, TypeOK, rows, waiter
<1>2. CASE UNCHANGED vars
  <2>1. PCOK'
    BY <1>2, StayPC DEF TypeOK, vars, control
  <2> QED
    BY <1>2, <2>1 DEF TypeOK, vars, rows, control, waiter
<1> QED
  BY <1>1, <1>2, TypeSession, TypeLoop, TypeClient DEF Next

(* The state always has its types: in particular every retry_count stays   *)
(* within max_retries, in the rows and in every thread's copy of one, and  *)
(* no loop that works on a task has lost it or run past the end of a plan. *)
THEOREM TypeCorrect == Spec => []TypeOK
  BY TypeInit, TypeNext, PTL DEF Spec
=============================================================================
