-------------------------- MODULE ExclusiveWorkProofs --------------------------
(***************************************************************************)
(* For every number of executor loops, goals, dependencies and client      *)
(* calls: no two loops work on one task, a row is never READY while its    *)
(* task is at work, no dependency row is ever marked satisfied, a worker   *)
(* that is alive has a loop that drives it, and a task without             *)
(* dependencies is executed no more often than max_retries allows.         *)
(*                                                                         *)
(* The invariant is WorkInv, to which the last two add WorkersDriven and   *)
(* AttemptInv.  The lemmas on WorkInv are ordered by what a step does      *)
(* to the parts of the state that WorkInv speaks of: a thread goes on      *)
(* without writing a row, a loop writes the row of the task it works on,   *)
(* and then, one by one, the writers that do not own the row they write.   *)
(***************************************************************************)
EXTENDS MissionExecutionProofs

-----------------------------------------------------------------------------
(* What a thread's own step leaves to the others. *)
LEMMA ThreadFacts ==
  ASSUME TypeOK
  PROVE  /\ Loop \subseteq Thread /\ "session" \in Thread /\ "client" \in Thread
         /\ "session" \notin Loop /\ "client" \notin Loop
         /\ DOMAIN pc = Thread
         /\ \A th \in Thread : \A label :
              Goto(th, label) => /\ pc'[th] = label
                                 /\ \A o \in Thread \ {th} : pc'[o] = pc[o]
  BY ConstantsAssumption DEF Thread, TypeOK, PCOK, Goto

(* A write of one row leaves the status of the others. *)
LEMMA BecomeStatus ==
  ASSUME TypeOK, NEW t \in Task, NEW r \in TaskRow, NEW status, Become(t, r, status)
  PROVE  /\ task'[t].status = status
         /\ \A u \in Task \ {t} : task'[u] = task[u]
<1>1. [r EXCEPT !.status = status].status = status
  BY DEF TaskRow
<1> DEFINE R == [r EXCEPT !.status = status]
<1>2. task' = [task EXCEPT ![t] = R]
  BY DEF Become
<1>3. DOMAIN task = Task
  BY DEF TypeOK
<1> HIDE DEF R
<1>4. task'[t] = R /\ \A u \in Task \ {t} : task'[u] = task[u]
  BY <1>2, <1>3
<1> QED
  BY <1>1, <1>4 DEF R

LEMMA BecomeNothing ==
  ASSUME TypeOK, NEW t, t \notin Task, NEW r, NEW status, Become(t, r, status)
  PROVE  UNCHANGED task
<1> DEFINE R == [r EXCEPT !.status = status]
<1>1. task' = [task EXCEPT ![t] = R] /\ task \in [Task -> TaskRow]
  BY DEF Become, TypeOK
<1> HIDE DEF R
<1> QED
  BY <1>1

-----------------------------------------------------------------------------
(* A loop goes on to another statement of its task and writes no row. *)
LEMMA LoopGoesOn ==
  ASSUME WorkInv, TypeOK', NEW l \in Loop, NEW label, Goto(l, label),
         UNCHANGED <<task, dep, cur>>,
         label \in WorkPC => Working(l),
         label = "progress_write" => row'[l].status \in Busy,
         \A m \in Loop \ {l} : row'[m] = row[m] /\ todo'[m] = todo[m],
         label = "promote" =>
           \A t \in todo'[l] : /\ <<t, cur[l]>> \in DependsOn
                               /\ dep[<<t, cur[l]>>] = "waiting"
  PROVE  WorkInv'
<1>1. /\ pc'[l] = label
      /\ \A o \in Thread \ {l} : pc'[o] = pc[o]
      /\ "session" \in Thread \ {l} /\ "client" \in Thread \ {l}
      /\ Loop \subseteq Thread
  BY ThreadFacts DEF WorkInv
<1>2. \A m \in Loop : Working(m)' => Working(m)
  BY <1>1 DEF Working
<1>3. \A t : WorkedOn(t)' => WorkedOn(t)
  BY <1>2 DEF WorkedOn
<1>4. \A t : Creating(t)' <=> Creating(t)
  BY <1>1 DEF Creating
<1>5. \A t : Retrying(t)' <=> Retrying(t)
  BY <1>1 DEF Retrying
<1>6. RowAtWork'
  BY <1>1, <1>2 DEF RowAtWork, WorkInv
<1>7. ExclusiveWork'
  BY <1>2 DEF ExclusiveWork, WorkInv
<1>8. DependentsWait'
  BY <1>1 DEF DependentsWait, WorkInv
<1>9. RowInCreation'
  BY <1>3, <1>4, <1>5 DEF RowInCreation, WorkInv
<1>10. RowInRetry'
  BY <1>3, <1>5 DEF RowInRetry, WorkInv
<1>11. NothingIsSatisfied'
  BY DEF NothingIsSatisfied, WorkInv
<1> QED
  BY <1>6, <1>7, <1>8, <1>9, <1>10, <1>11 DEF WorkInv

(* A loop takes up a task, or forgets it, without working on it. *)
LEMMA LoopMoves ==
  ASSUME WorkInv, TypeOK', NEW l \in Loop, NEW label, Goto(l, label),
         label \notin WorkPC \cup {"promote"}, NEW t,
         cur' = [cur EXCEPT ![l] = t], UNCHANGED <<task, dep, todo>>,
         \A m \in Loop \ {l} : row'[m] = row[m]
  PROVE  WorkInv'
<1>1. /\ pc'[l] = label
      /\ \A o \in Thread \ {l} : pc'[o] = pc[o] /\ cur'[o] = cur[o]
      /\ "session" \in Thread \ {l} /\ "client" \in Thread \ {l}
      /\ Loop \subseteq Thread
  BY ThreadFacts DEF WorkInv, TypeOK, PCOK
<1>2. \A m \in Loop : Working(m)' => m # l /\ Working(m) /\ cur'[m] = cur[m]
  BY <1>1 DEF Working
<1>3. \A u : WorkedOn(u)' => WorkedOn(u)
  BY <1>2 DEF WorkedOn
<1>4. \A u : Creating(u)' <=> Creating(u)
  BY <1>1 DEF Creating
<1>5. \A u : Retrying(u)' <=> Retrying(u)
  BY <1>1 DEF Retrying
<1>6. RowAtWork'
  BY <1>1, <1>2 DEF RowAtWork, WorkInv
<1>7. ExclusiveWork'
  BY <1>2 DEF ExclusiveWork, WorkInv
<1>8. DependentsWait'
  BY <1>1 DEF DependentsWait, WorkInv
<1>9. RowInCreation'
  BY <1>3, <1>4, <1>5 DEF RowInCreation, WorkInv
<1>10. RowInRetry'
  BY <1>3, <1>5 DEF RowInRetry, WorkInv
<1>11. NothingIsSatisfied'
  BY DEF NothingIsSatisfied, WorkInv
<1> QED
  BY <1>6, <1>7, <1>8, <1>9, <1>10, <1>11 DEF WorkInv

(* A loop writes the row of the task that it works on. *)
LEMMA LoopWrites ==
  ASSUME WorkInv, TypeOK', NEW l \in Loop, Working(l),
         NEW r \in TaskRow, NEW status, Become(cur[l], r, status),
         NEW label, label \notin {"promote", "progress_write"}, Goto(l, label),
         label \in WorkPC => status \in Busy,
         UNCHANGED <<dep, cur, row, todo>>
  PROVE  WorkInv'
<1>1. /\ pc'[l] = label
      /\ \A o \in Thread \ {l} : pc'[o] = pc[o]
      /\ "session" \in Thread \ {l} /\ "client" \in Thread \ {l}
      /\ Loop \subseteq Thread
  BY ThreadFacts DEF WorkInv
<1>2. cur[l] \in Task
  BY DEF WorkInv, TypeOK, PCOK, Working, WorkPC
<1>3. /\ task'[cur[l]].status = status
      /\ \A u \in Task \ {cur[l]} : task'[u] = task[u]
  BY <1>2, BecomeStatus DEF WorkInv
<1>4. \A m \in Loop : Working(m)' => Working(m)
  BY <1>1 DEF Working
<1>5. \A m \in Loop \ {l} : Working(m) => cur[m] \in Task \ {cur[l]}
  BY DEF WorkInv, ExclusiveWork, TypeOK, PCOK, Working, WorkPC
<1>6. \A u : WorkedOn(u)' => WorkedOn(u)
  BY <1>4 DEF WorkedOn
<1>7. \A u : Creating(u)' <=> Creating(u)
  BY <1>1 DEF Creating
<1>8. \A u : Retrying(u)' <=> Retrying(u)
  BY <1>1 DEF Retrying
<1>9. WorkedOn(cur[l])
  BY DEF WorkedOn
<1>10. ~Creating(cur[l]) /\ ~Retrying(cur[l])
  BY <1>2, <1>9 DEF WorkInv, RowInCreation, RowInRetry
<1>11. RowAtWork'
  <2> SUFFICES ASSUME NEW m \in Loop, Working(m)'
               PROVE  /\ task'[cur[m]].status \in Busy
                      /\ pc'[m] = "progress_write" => row[m].status \in Busy
    BY DEF RowAtWork
  <2>1. CASE m = l
    BY <1>1, <1>3, <2>1 DEF Working
  <2>2. CASE m # l
    BY <1>1, <1>3, <1>4, <1>5, <2>2 DEF WorkInv, RowAtWork
  <2> QED
    BY <2>1, <2>2
<1>12. ExclusiveWork'
  BY <1>4 DEF ExclusiveWork, WorkInv
<1>13. DependentsWait'
  BY <1>1 DEF DependentsWait, WorkInv
<1>14. RowInCreation'
  BY <1>3, <1>6, <1>7, <1>8, <1>10 DEF RowInCreation, WorkInv
<1>15. RowInRetry'
  BY <1>3, <1>6, <1>8, <1>10 DEF RowInRetry, WorkInv
<1>16. NothingIsSatisfied'
  BY DEF NothingIsSatisfied, WorkInv
<1> QED
  BY <1>11, <1>12, <1>13, <1>14, <1>15, <1>16 DEF WorkInv

-----------------------------------------------------------------------------
(* The steps of a loop.  A claim finds the row READY, which a task at work, *)
(* in creation or in retry never is.                                       *)
LEMMA WorkClaim ==
  ASSUME WorkInv, TypeOK', NEW l \in Loop, ClaimTask(l) PROVE WorkInv'
<1> DEFINE t == cur[l]
<1>a. pc[l] = "claim" /\ t \in Task /\ l \in Thread
  BY DEF ClaimTask, At, WorkInv, TypeOK, PCOK, Thread
<1>1. CASE task[t].status # "ready"
  BY <1>1, LoopMoves DEF ClaimTask, WorkPC
<1>2. CASE task[t].status = "ready"
  <2>1. /\ Become(t, task[t], "running") /\ Goto(l, "register")
        /\ UNCHANGED <<cur, dep, row, todo>>
    BY <1>2 DEF ClaimTask
  <2>2. task[t] \in TaskRow
    BY <1>a DEF WorkInv, TypeOK
  <2>3. /\ task'[t].status = "running"
        /\ \A u \in Task \ {t} : task'[u] = task[u]
    BY <1>a, <2>1, <2>2, BecomeStatus DEF WorkInv
  <2>4. /\ pc'[l] = "register"
        /\ \A o \in Thread \ {l} : pc'[o] = pc[o]
        /\ "session" \in Thread \ {l} /\ "client" \in Thread \ {l}
        /\ Loop \subseteq Thread
    BY <2>1, ThreadFacts DEF WorkInv
  <2>5. \A m \in Loop : Working(m) => cur[m] \in Task \ {t}
    <3> SUFFICES ASSUME NEW m \in Loop, Working(m) PROVE cur[m] \in Task \ {t}
      OBVIOUS
    <3>1. cur[m] \in Task
      BY DEF Working, WorkPC, WorkInv, TypeOK, PCOK
    <3> QED
      BY <1>2, <3>1 DEF WorkInv, RowAtWork, Busy
  <2>6. \A m \in Loop \ {l} : Working(m)' <=> Working(m)
    BY <2>4 DEF Working
  <2>7. \A u \in Task \ {t} : WorkedOn(u)' => WorkedOn(u)
    BY <2>1, <2>6 DEF WorkedOn
  <2>8. ~Creating(t) /\ ~Retrying(t)
    BY <1>a, <1>2 DEF WorkInv, RowInCreation, RowInRetry, Busy
  <2>9. \A u : Creating(u)' <=> Creating(u)
    BY <2>1, <2>4 DEF Creating
  <2>10. \A u : Retrying(u)' <=> Retrying(u)
    BY <2>1, <2>4 DEF Retrying
  <2>11. RowAtWork'
    <3> SUFFICES ASSUME NEW m \in Loop, Working(m)'
                 PROVE  /\ task'[cur[m]].status \in Busy
                        /\ pc'[m] = "progress_write" => row[m].status \in Busy
      BY <2>1 DEF RowAtWork
    <3>1. CASE m = l
      BY <2>3, <2>4, <3>1 DEF Busy
    <3>2. CASE m # l
      BY <2>3, <2>4, <2>5, <2>6, <3>2 DEF WorkInv, RowAtWork
    <3> QED
      BY <3>1, <3>2
  <2>12. ExclusiveWork'
    BY <2>1, <2>5, <2>6 DEF ExclusiveWork, WorkInv
  <2>13. DependentsWait'
    BY <2>1, <2>4 DEF DependentsWait, WorkInv
  <2>14. RowInCreation'
    BY <2>3, <2>7, <2>8, <2>9, <2>10 DEF RowInCreation, WorkInv
  <2>15. RowInRetry'
    BY <2>3, <2>7, <2>8, <2>10 DEF RowInRetry, WorkInv
  <2>16. NothingIsSatisfied'
    BY <2>1 DEF NothingIsSatisfied, WorkInv
  <2> QED
    BY <2>11, <2>12, <2>13, <2>14, <2>15, <2>16 DEF WorkInv
<1> QED
  BY <1>1, <1>2

(* A dependent is never promoted: its own row still waits.                 *)
LEMMA WorkPromote ==
  ASSUME WorkInv, TypeOK', NEW l \in Loop, NEW t \in Task, PromoteDependent(l, t)
  PROVE  WorkInv'
<1>1. <<t, cur[l]>> \in DependsOn /\ dep[<<t, cur[l]>>] = "waiting"
  BY DEF PromoteDependent, At, WorkInv, DependentsWait
<1>2. ~are_all_dependencies_satisfied(t)
  BY <1>1 DEF are_all_dependencies_satisfied
<1>3. UNCHANGED <<task, dep, pc, cur, row>>
  BY <1>2 DEF PromoteDependent
<1>4. todo' = [todo EXCEPT ![l] = @ \ {t}] /\ todo \in [Thread -> SUBSET Task]
  BY DEF PromoteDependent, WorkInv, TypeOK
<1>5. \A m \in Loop : todo'[m] \subseteq todo[m]
  BY <1>4 DEF Thread
<1>6. DependentsWait'
  BY <1>3, <1>5 DEF DependentsWait, WorkInv
<1> QED
  BY <1>3, <1>6 DEF WorkInv, NothingIsSatisfied, ExclusiveWork, RowAtWork,
                    RowInCreation, RowInRetry, Working, WorkedOn, Creating, Retrying

LEMMA WorkLoop ==
  ASSUME WorkInv, TypeOK', NEW l \in Loop, LoopStep(l) PROVE WorkInv'
<1> USE DEF rows, control
<1>a. /\ cur[l] \in Task \/ pc[l] = "idle"
      /\ l \in Thread
      /\ row \in [Thread -> TaskRow]
      /\ todo \in [Thread -> SUBSET Task]
  BY DEF WorkInv, TypeOK, PCOK, Thread
<1>1. ASSUME NEW t \in Task, SelectTask(l, t) PROVE WorkInv'
  BY <1>1, LoopMoves DEF SelectTask, WorkPC
<1>2. CASE ClaimTask(l)
  BY <1>2, WorkClaim
<1>3. CASE RegisterActive(l) \/ Prepare(l) \/ SpawnExecution(l) \/ Dispatch(l)
  BY <1>3, LoopGoesOn DEF RegisterActive, Prepare, SpawnExecution, Dispatch, At,
                          Working, WorkPC
<1>4. CASE TryFallback(l) \/ PlanStep(l)
  BY <1>4, LoopGoesOn DEF TryFallback, PlanStep, At, Working, WorkPC
<1>5. CASE SpawnWorker(l) \/ WorkerStart(l) \/ WorkerComplete(l) \/ WorkerFail(l)
  <2>1. /\ \E label \in WorkPC \ {"progress_write"} : Goto(l, label)
        /\ Working(l)
        /\ UNCHANGED <<task, dep, cur, row, todo>>
    BY <1>5 DEF SpawnWorker, WorkerStart, WorkerComplete, WorkerFail, WorkerUpdate,
                WorkerValidated, At, Working, WorkPC
  <2> QED
    BY <2>1, LoopGoesOn DEF WorkPC
<1>6. CASE ProgressRead(l)
  <2>1. row'[l].status \in Busy
    BY <1>6, <1>a DEF ProgressRead, At, WorkInv, RowAtWork, Working, WorkPC
  <2>2. \A m \in Loop \ {l} : row'[m] = row[m]
    BY <1>6, <1>a DEF ProgressRead
  <2> QED
    BY <1>6, <2>1, <2>2, LoopGoesOn DEF ProgressRead, At, Working, WorkPC
<1>7. CASE ProgressWrite(l)
  <2>1. Working(l) /\ row[l] \in TaskRow /\ row[l].status \in Busy
    BY <1>7, <1>a DEF ProgressWrite, At, WorkInv, RowAtWork, Working, WorkPC
  <2> QED
    BY <1>7, <2>1, LoopWrites DEF ProgressWrite
<1>8. CASE CompleteRead(l) \/ FailRead(l)
  <2>1. \A m \in Loop \ {l} : row'[m] = row[m]
    <3>1. row' = [row EXCEPT ![l] = task[cur[l]]]
      BY <1>8 DEF CompleteRead, FailRead, ReadTask
    <3> QED
      BY <3>1, <1>a
  <2>2. \E label \in {"complete_write", "list", "fail_only", "fail", "discard"} :
          Goto(l, label)
    BY <1>8 DEF CompleteRead, FailRead, ReadTask
  <2>3. Working(l) /\ UNCHANGED <<task, dep, cur, todo>>
    BY <1>8 DEF CompleteRead, FailRead, At, Working, WorkPC
  <2> QED
    BY <2>1, <2>2, <2>3, LoopGoesOn DEF WorkPC
<1>9. CASE CompleteWrite(l) \/ FailWrite(l)
  <2>1. Working(l) /\ row[l] \in TaskRow /\ CountRetry(row[l]) \in TaskRow
    <3>1. Working(l) /\ row[l] \in TaskRow
      BY <1>9, <1>a DEF CompleteWrite, FailWrite, At, Working, WorkPC
    <3> QED
      BY <3>1, ConstantsAssumption DEF CountRetry, TaskRow
  <2>2. CASE CompleteWrite(l)
    BY <2>1, <2>2, LoopWrites DEF CompleteWrite, WorkPC
  <2>3. CASE FailWrite(l)
    <3>1. \E label \in {"discard", "mission_fail_read"} : Goto(l, label)
      BY <2>3 DEF FailWrite
    <3>2. /\ Become(cur[l], CountRetry(row[l]), "failed")
          /\ UNCHANGED <<dep, cur, row, todo>>
      BY <2>3 DEF FailWrite
    <3> QED
      BY <2>1, <3>1, <3>2, LoopWrites DEF WorkPC
  <2> QED
    BY <1>9, <2>2, <2>3
<1>10. CASE ListDependents(l)
  <2>1. /\ \A m \in Loop \ {l} : todo'[m] = todo[m]
        /\ todo'[l] = {t \in Task : /\ <<t, cur[l]>> \in DependsOn
                                    /\ dep[<<t, cur[l]>>] # "none"}
    BY <1>10, <1>a DEF ListDependents
  <2>2. \A t \in todo'[l] : /\ <<t, cur[l]>> \in DependsOn
                            /\ dep[<<t, cur[l]>>] = "waiting"
    BY <2>1 DEF WorkInv, NothingIsSatisfied, TypeOK
  <2> QED
    BY <1>10, <2>1, <2>2, LoopGoesOn DEF ListDependents, WorkPC
<1>11. ASSUME NEW t \in Task, PromoteDependent(l, t) PROVE WorkInv'
  BY <1>11, WorkPromote
<1>12. CASE DependentsDone(l) \/ ListTasks(l) \/ MissionRead(l) \/ MissionWrite(l)
            \/ PublishEnd(l)
  BY <1>12, LoopGoesOn DEF DependentsDone, ListTasks, MissionRead, ReadMission,
                           MissionWrite, PublishEnd, WorkPC
<1>13. CASE DiscardActive(l)
  <2>1. \A m \in Loop \ {l} : row'[m] = row[m]
    BY <1>13, <1>a DEF DiscardActive
  <2> QED
    BY <1>13, <2>1, LoopMoves DEF DiscardActive, WorkPC
<1> QED
  BY <1>1, <1>2, <1>3, <1>4, <1>5, <1>6, <1>7, <1>8, <1>9, <1>10, <1>11, <1>12,
     <1>13 DEF LoopStep

-----------------------------------------------------------------------------
(* The request thread and the client go on without writing a task row; a   *)
(* client may take up a FAILED task.                                       *)
LEMMA OtherGoesOn ==
  ASSUME WorkInv, TypeOK', UNCHANGED task,
         \A l \in Loop : /\ pc'[l] = pc[l] /\ cur'[l] = cur[l]
                         /\ row'[l] = row[l] /\ todo'[l] = todo[l],
         dep \in [DependsOn -> {"none", "waiting"}],
         dep' \in [DependsOn -> {"none", "waiting"}],
         \A e \in DependsOn : dep[e] = "waiting" => dep'[e] = "waiting",
         \A t : Creating(t)' => Creating(t),
         \A t \in Task : Retrying(t)' => Retrying(t) \/ task[t].status = "failed"
  PROVE  WorkInv'
<1>1. \A l \in Loop : Working(l)' <=> Working(l)
  BY DEF Working
<1>2. \A t : WorkedOn(t)' <=> WorkedOn(t)
  BY <1>1 DEF WorkedOn
<1>3. RowAtWork'
  BY <1>1 DEF RowAtWork, WorkInv
<1>4. ExclusiveWork'
  BY <1>1 DEF ExclusiveWork, WorkInv
<1>5. DependentsWait'
  BY DEF DependentsWait, WorkInv
<1>a. \A t \in Task : WorkedOn(t) => task[t].status \in Busy
  BY DEF WorkedOn, WorkInv, RowAtWork
<1>6. RowInCreation'
  BY <1>2 DEF RowInCreation, WorkInv, Busy
<1>7. RowInRetry'
  BY <1>2, <1>a DEF RowInRetry, WorkInv, Busy
<1>8. NothingIsSatisfied'
  BY DEF NothingIsSatisfied
<1> QED
  BY <1>3, <1>4, <1>5, <1>6, <1>7, <1>8 DEF WorkInv

(* The request thread or the client writes one task row: a row at work     *)
(* keeps a status of Busy, a row in retry stays unclaimable.               *)
LEMMA OtherWrites ==
  ASSUME WorkInv, TypeOK', NEW t \in Task, NEW r \in TaskRow, NEW status,
         Become(t, r, status), UNCHANGED dep,
         \A l \in Loop : /\ pc'[l] = pc[l] /\ cur'[l] = cur[l]
                         /\ row'[l] = row[l] /\ todo'[l] = todo[l],
         status \in Busy \/ ~WorkedOn(t),
         \A u \in Task : Creating(u)' =>
           \/ u = t /\ ~WorkedOn(t) /\ ~Retrying(t)'
                    /\ status \in {"created"} \cup (Busy \ {"waiting_for_dependency"})
           \/ u # t /\ Creating(u) /\ (Retrying(u)' => Retrying(u)),
         \A u \in Task : Retrying(u)' =>
           \/ u = t /\ ~WorkedOn(t)
                    /\ status \in {"failed", "retrying", "waiting_for_dependency"}
           \/ u # t /\ Retrying(u)
  PROVE  WorkInv'
<1>1. \A l \in Loop : Working(l)' <=> Working(l)
  BY DEF Working
<1>2. \A u : WorkedOn(u)' <=> WorkedOn(u)
  BY <1>1 DEF WorkedOn
<1>3. /\ task'[t].status = status
      /\ \A u \in Task \ {t} : task'[u] = task[u]
  BY BecomeStatus DEF WorkInv
<1>4. \A l \in Loop : Working(l) => cur[l] \in Task
  BY DEF Working, WorkPC, WorkInv, TypeOK, PCOK
<1>5. RowAtWork'
  <2> SUFFICES ASSUME NEW l \in Loop, Working(l)
               PROVE  /\ task'[cur[l]].status \in Busy
                      /\ pc[l] = "progress_write" => row[l].status \in Busy
    BY <1>1 DEF RowAtWork
  <2>1. CASE cur[l] = t
    BY <1>3, <2>1 DEF WorkInv, RowAtWork, WorkedOn
  <2>2. CASE cur[l] # t
    BY <1>3, <1>4, <2>2 DEF WorkInv, RowAtWork
  <2> QED
    BY <2>1, <2>2
<1>6. ExclusiveWork'
  BY <1>1 DEF ExclusiveWork, WorkInv
<1>7. DependentsWait'
  BY DEF DependentsWait, WorkInv
<1>8. RowInCreation'
  BY <1>2, <1>3 DEF RowInCreation, WorkInv
<1>9. RowInRetry'
  BY <1>2, <1>3 DEF RowInRetry, WorkInv
<1>10. NothingIsSatisfied'
  BY DEF NothingIsSatisfied, WorkInv
<1> QED
  BY <1>5, <1>6, <1>7, <1>8, <1>9, <1>10 DEF WorkInv

(* The steps of the request thread.                                        *)
LEMMA WorkSession ==
  ASSUME WorkInv, TypeOK', SessionStep \/ AdmissionFails \/ WaitTimeout
  PROVE  WorkInv'
<1> USE DEF rows, control
<1>a. /\ DOMAIN cur = Thread /\ DOMAIN row = Thread /\ DOMAIN todo = Thread
      /\ DOMAIN pc = Thread /\ DOMAIN task = Task
      /\ Loop \subseteq Thread /\ "client" \in Thread /\ "session" \in Thread
      /\ "session" \notin Loop /\ "client" \notin Loop
  BY ThreadFacts DEF WorkInv, TypeOK, PCOK
<1>b. dep \in [DependsOn -> {"none", "waiting"}]
  BY DEF WorkInv, NothingIsSatisfied, TypeOK
<1>c. \A t \in Task : WorkedOn(t) => task[t].status \in Busy
  BY DEF WorkedOn, WorkInv, RowAtWork
<1>1. CASE \/ CreateMission \/ FirstPassDone \/ PlanRead \/ PlanWrite \/ StartRead
           \/ StartWrite \/ WaitRead \/ Subscribe \/ Recheck \/ Woken \/ Answer
           \/ AdmissionFails \/ WaitTimeout
           \/ \E t \in Task : SecondPassRead(t)
  <2>1. /\ pc' = [pc EXCEPT !["session"] = pc'["session"]]
        /\ pc'["session"] \notin {"schedule", "ready"}
        /\ UNCHANGED <<task, dep>>
    BY <1>1, <1>a
       DEF CreateMission, FirstPassDone, PlanRead, PlanWrite, StartRead, StartWrite,
           WaitRead, Subscribe, Recheck, Woken, Answer, Report, ReadMission, Goto,
           AdmissionFails, WaitTimeout, SecondPassRead
  <2>2. \A th \in Loop \cup {"client"} :
          cur'[th] = cur[th] /\ row'[th] = row[th] /\ todo'[th] = todo[th]
    BY <1>1, <1>a
       DEF CreateMission, FirstPassDone, PlanRead, PlanWrite, StartRead, StartWrite,
           WaitRead, Subscribe, Recheck, Woken, Answer, AdmissionFails, WaitTimeout,
           SecondPassRead
  <2>3. \A t : ~Creating(t)' /\ (Retrying(t)' <=> Retrying(t))
    BY <1>a, <2>1, <2>2 DEF Creating, Retrying
  <2> QED
    BY <1>a, <1>b, <2>1, <2>2, <2>3, OtherGoesOn
<1>2. ASSUME NEW t \in Task, CreateTask(t) PROVE WorkInv'
  <2>1. /\ Become(t, NoRow, "created") /\ UNCHANGED <<dep, row, todo>>
        /\ cur' = [cur EXCEPT !["session"] = t]
        /\ pc' = [pc EXCEPT !["session"] = "schedule"]
    BY <1>2 DEF CreateTask, Goto
  <2>2. ~WorkedOn(t) /\ ~Retrying(t)
    BY <1>2, <1>c DEF CreateTask, WorkInv, RowInRetry, Busy
  <2>3. \A u : (Creating(u)' => u = t) /\ (Retrying(u)' <=> Retrying(u))
    BY <1>a, <2>1 DEF Creating, Retrying
  <2> QED
    BY <1>a, <2>1, <2>2, <2>3, NoRowType, OtherWrites
<1>3. CASE ScheduleCreated \/ ReadyCreated
  <2> DEFINE t == cur["session"]
  <2>1. /\ UNCHANGED <<dep, cur, row, todo>>
        /\ pc' = [pc EXCEPT !["session"] = pc'["session"]]
        /\ Creating(t)
        /\ \/ Become(t, NoRow, "scheduled")
           \/ Become(t, NoRow, "ready") /\ pc'["session"] = "tasks"
    BY <1>3, <1>a DEF ScheduleCreated, ReadyCreated, Goto, At, Creating
  <2>2. \A u : (Creating(u)' => Creating(u)) /\ (Retrying(u)' <=> Retrying(u))
    BY <1>a, <2>1 DEF Creating, Retrying
  <2>3. CASE t \in Task
    <3>1. ~WorkedOn(t) /\ ~Retrying(t)
      BY <2>1, <2>3 DEF WorkInv, RowInCreation
    <3>2. CASE Become(t, NoRow, "scheduled")
      BY <1>a, <2>1, <2>2, <2>3, <3>1, <3>2, NoRowType, OtherWrites DEF Busy
    <3>3. CASE Become(t, NoRow, "ready") /\ pc'["session"] = "tasks"
      <4>1. \A u : ~Creating(u)'
        BY <3>3 DEF Creating
      <4> QED
        BY <1>a, <2>1, <2>2, <2>3, <3>1, <3>3, <4>1, NoRowType, OtherWrites
    <3> QED
      BY <2>1, <3>2, <3>3
  <2>4. CASE t \notin Task
    <3>1. UNCHANGED task
      BY <2>1, <2>4, BecomeNothing DEF WorkInv
    <3> QED
      BY <1>a, <1>b, <2>1, <2>2, <3>1, OtherGoesOn
  <2> QED
    BY <2>3, <2>4
<1>4. CASE SecondPassWrite
  <2> DEFINE t == cur["session"]
  <2>1. /\ UNCHANGED <<dep, cur, row, todo>>
        /\ pc' = [pc EXCEPT !["session"] = "error"]
        /\ Become(t, row["session"], "waiting_for_dependency")
        /\ row["session"] \in TaskRow
    BY <1>4, <1>a DEF SecondPassWrite, Goto, WorkInv, TypeOK
  <2>2. \A u : ~Creating(u)' /\ (Retrying(u)' <=> Retrying(u))
    BY <1>a, <2>1 DEF Creating, Retrying
  <2>3. CASE t \in Task
    <3>1. Retrying(t) => ~WorkedOn(t)
      BY <2>3 DEF WorkInv, RowInRetry
    <3> QED
      BY <1>a, <2>1, <2>2, <2>3, <3>1, OtherWrites DEF Busy
  <2>4. CASE t \notin Task
    <3>1. UNCHANGED task
      BY <2>1, <2>4, BecomeNothing DEF WorkInv
    <3> QED
      BY <1>a, <1>b, <2>1, <2>2, <3>1, OtherGoesOn
  <2> QED
    BY <2>3, <2>4
<1> QED
  BY <1>1, <1>2, <1>3, <1>4 DEF SessionStep

(* The steps of the client.                                                *)
LEMMA WorkClient ==
  ASSUME WorkInv, TypeOK', ClientCall \/ ClientStep PROVE WorkInv'
<1> USE DEF rows, control
<1>a. /\ DOMAIN cur = Thread /\ DOMAIN row = Thread /\ DOMAIN todo = Thread
      /\ DOMAIN pc = Thread
      /\ Loop \subseteq Thread /\ "client" \in Thread /\ "session" \in Thread
      /\ "session" \notin Loop /\ "client" \notin Loop
  BY ThreadFacts DEF WorkInv, TypeOK, PCOK
<1>b. dep \in [DependsOn -> {"none", "waiting"}]
  BY DEF WorkInv, NothingIsSatisfied, TypeOK
<1>c. /\ ClientTaskOp \subseteq {"scheduled", "running", "paused", "cancelled", "retrying"}
      /\ ClientMissionOp \subseteq {"running", "paused", "cancelled"}
      /\ NoTask \notin Task
  BY ConstantsAssumption
<1>d. \A t \in Task : WorkedOn(t) => task[t].status \in Busy
  BY DEF WorkedOn, WorkInv, RowAtWork
<1>1. ASSUME NEW to \in ClientTaskOp, NEW t \in Task, ClientTaskRead(to, t)
      PROVE  WorkInv'
  <2>1. /\ UNCHANGED <<task, dep, todo>>
        /\ cur' = [cur EXCEPT !["client"] = t]
        /\ row' = [row EXCEPT !["client"] = task[t]]
        /\ pc' = [pc EXCEPT !["client"] = to]
    BY <1>1 DEF ClientTaskRead, Goto
  <2>2. to = "retrying" => task[t].status = "failed"
    BY <1>1 DEF ClientTaskRead, ClientMay, validate_task_transition, TaskSuccessors
  <2>3. \A u : Retrying(u)' => u = t /\ to = "retrying"
    BY <1>a, <1>c, <2>1 DEF Retrying
  <2>4. \A u : Creating(u)' <=> Creating(u)
    BY <1>a, <2>1 DEF Creating
  <2> QED
    BY <1>a, <1>b, <2>1, <2>2, <2>3, <2>4, OtherGoesOn
<1>2. CASE \/ \E to \in ClientMissionOp : ClientMissionRead(to)
           \/ ClientMissionWrite \/ ClientPublish
  <2>1. /\ UNCHANGED <<task, dep, cur, row, todo>>
        /\ pc' = [pc EXCEPT !["client"] = pc'["client"]]
        /\ pc'["client"] \notin {"retrying", "ready"}
    BY <1>2, <1>a, <1>c
       DEF ClientMissionRead, ClientMissionWrite, ClientPublish, Goto
  <2>2. \A u : ~Retrying(u)' /\ (Creating(u)' <=> Creating(u))
    BY <1>a, <2>1 DEF Retrying, Creating
  <2> QED
    BY <1>a, <1>b, <2>1, <2>2, OtherGoesOn
<1>3. CASE ClientTaskWrite
  <2> DEFINE t == cur["client"]
             to == pc["client"]
  <2>1. /\ Become(t, row["client"], to)
        /\ to \in ClientTaskOp \cup {"ready"}
        /\ t \in Task
        /\ row["client"] \in TaskRow
        /\ UNCHANGED <<dep, todo>>
    BY <1>3, <1>a DEF ClientTaskWrite, WorkInv, TypeOK, PCOK
  <2>2. CASE to = "retrying"
    <3>1. /\ UNCHANGED <<cur, row>>
          /\ pc' = [pc EXCEPT !["client"] = "ready"]
      BY <1>3, <2>2 DEF ClientTaskWrite, Goto
    <3>2. Retrying(t)
      BY <2>2 DEF Retrying
    <3>3. ~WorkedOn(t) /\ ~Creating(t)
      BY <2>1, <3>2 DEF WorkInv, RowInRetry, RowInCreation
    <3>4. \A u : (Creating(u)' <=> Creating(u)) /\ (Retrying(u)' <=> u = t)
      BY <1>a, <3>1 DEF Creating, Retrying
    <3> QED
      BY <1>a, <2>1, <2>2, <3>1, <3>3, <3>4, OtherWrites
  <2>3. CASE to # "retrying"
    <3>1. /\ cur' = [cur EXCEPT !["client"] = NoTask]
          /\ row' = [row EXCEPT !["client"] = NoRow]
          /\ pc' = [pc EXCEPT !["client"] = "idle"]
      BY <1>3, <2>3 DEF ClientTaskWrite, Goto
    <3>2. \A u : (Creating(u)' <=> Creating(u)) /\ ~Retrying(u)'
      BY <1>a, <3>1 DEF Creating, Retrying
    <3>3. CASE to = "ready"
      <4>1. Retrying(t)
        BY <3>3 DEF Retrying
      <4>2. ~WorkedOn(t) /\ ~Creating(t)
        BY <2>1, <4>1 DEF WorkInv, RowInRetry, RowInCreation
      <4> QED
        BY <1>a, <2>1, <3>1, <3>2, <4>2, OtherWrites
    <3>4. CASE to # "ready"
      <4>1. to \in Busy \ {"waiting_for_dependency"}
        BY <1>c, <2>1, <2>3, <3>4 DEF Busy
      <4>2. Creating(t) => ~WorkedOn(t)
        BY <2>1 DEF WorkInv, RowInCreation
      <4> QED
        BY <1>a, <2>1, <3>1, <3>2, <4>1, <4>2, OtherWrites
    <3> QED
      BY <3>3, <3>4
  <2> QED
    BY <2>2, <2>3
<1>4. ASSUME NEW t \in Task, ClientCreate(t) PROVE WorkInv'
  <2>1. /\ Become(t, NoRow, "waiting_for_dependency")
        /\ task[t].status = "none"
        /\ UNCHANGED <<dep, row, todo>>
        /\ cur' = [cur EXCEPT !["client"] = t]
        /\ pc' = [pc EXCEPT !["client"] = "create_dependency"]
    BY <1>4 DEF ClientCreate, Goto
  <2>2. ~WorkedOn(t) /\ ~Creating(t)
    BY <1>d, <2>1 DEF WorkInv, RowInCreation, Busy
  <2>3. \A u : ~Retrying(u)' /\ (Creating(u)' <=> Creating(u))
    BY <1>a, <2>1 DEF Retrying, Creating
  <2> QED
    BY <1>a, <2>1, <2>2, <2>3, NoRowType, OtherWrites
<1>5. ASSUME NEW e \in DependsOn, CreateDependency(e) PROVE WorkInv'
  <2>1. /\ UNCHANGED <<task, row, todo>>
        /\ pc["client"] = "create_dependency"
        /\ \A o \in Thread \ {"client"} : pc'[o] = pc[o]
        /\ pc'["client"] \in {"create_dependency", "idle"}
        /\ dep' = [dep EXCEPT ![e] = "waiting"]
    BY <1>5, <1>a DEF CreateDependency, Goto, At
  <2>2. UNCHANGED cur \/ cur' = [cur EXCEPT !["client"] = NoTask]
    BY <1>5 DEF CreateDependency
  <2>3. \A u : ~Retrying(u)' /\ (Creating(u)' <=> Creating(u))
    BY <1>a, <2>1, <2>2 DEF Retrying, Creating
  <2>4. /\ dep' \in [DependsOn -> {"none", "waiting"}]
        /\ \A d \in DependsOn : dep[d] = "waiting" => dep'[d] = "waiting"
    BY <1>b, <2>1
  <2>5. \A l \in Loop : /\ pc'[l] = pc[l] /\ cur'[l] = cur[l]
                        /\ row'[l] = row[l] /\ todo'[l] = todo[l]
    BY <1>a, <2>1, <2>2
  <2> QED
    BY <1>b, <2>1, <2>3, <2>4, <2>5, OtherGoesOn
<1> QED
  BY <1>1, <1>2, <1>3, <1>4, <1>5 DEF ClientCall, ClientStep

-----------------------------------------------------------------------------
LEMMA WorkInit == Init => WorkInv
<1> SUFFICES ASSUME Init PROVE WorkInv
  OBVIOUS
<1>1. TypeOK
  BY TypeInit
<1>2. \A l \in Loop : pc[l] = "idle"
  BY ConstantsAssumption DEF Init, Thread
<1>3. pc["session"] = "create" /\ pc["client"] = "idle"
  BY DEF Init, Thread
<1>4. \A t : ~WorkedOn(t) /\ ~Creating(t) /\ ~Retrying(t)
  BY <1>2, <1>3 DEF WorkedOn, Working, WorkPC, Creating, Retrying
<1>5. NothingIsSatisfied
  BY DEF Init, NothingIsSatisfied
<1>6. DependentsWait /\ ExclusiveWork /\ RowAtWork
  BY <1>2 DEF DependentsWait, ExclusiveWork, RowAtWork, Working, WorkPC
<1> QED
  BY <1>1, <1>4, <1>5, <1>6 DEF WorkInv, RowInCreation, RowInRetry

LEMMA WorkNext == WorkInv /\ [Next]_vars => WorkInv'
<1> SUFFICES ASSUME WorkInv, [Next]_vars PROVE WorkInv'
  OBVIOUS
<1>1. TypeOK'
  BY TypeNext DEF WorkInv
<1>2. CASE UNCHANGED vars
  BY <1>1, <1>2
     DEF vars, rows, control, WorkInv, NothingIsSatisfied, DependentsWait,
         ExclusiveWork, RowAtWork, RowInCreation, RowInRetry, Working, WorkedOn,
         Creating, Retrying
<1> QED
  BY <1>1, <1>2, WorkSession, WorkLoop, WorkClient DEF Next

(* No two executor loops ever work on one task, for any number of loops,   *)
(* whatever the request thread and a client write back meanwhile.          *)
THEOREM WorkIsExclusive == Spec => []ExclusiveWork
<1>1. WorkInv => ExclusiveWork
  BY DEF WorkInv
<1> QED
  BY <1>1, WorkInit, WorkNext, PTL DEF Spec

(* The row of a task at work is never READY, so that no claim can start a  *)
(* second execution of a capability that is under way.                     *)
THEOREM ReadyRowIsIdle == Spec => []ReadyIsIdle
<1>1. WorkInv => ReadyIsIdle
  BY DEF WorkInv, RowAtWork, ReadyIsIdle, Busy
<1> QED
  BY <1>1, WorkInit, WorkNext, PTL DEF Spec

(* Whatever goals depend on whatever others, no dependency row is ever     *)
(* marked satisfied.                                                       *)
THEOREM NothingEverSatisfied == Spec => []NothingIsSatisfied
<1>1. WorkInv => NothingIsSatisfied
  BY DEF WorkInv
<1> QED
  BY <1>1, WorkInit, WorkNext, PTL DEF Spec
-----------------------------------------------------------------------------
(***************************************************************************)
(* The workers.  Where a loop stands tells the status of the worker of its *)
(* task's last execution; every other worker of the task has ended.        *)
(***************************************************************************)
DrivenPC == {"starting", "started", "execution_running", "dispatch",
             "completing", "completed", "failing", "failed"}

DrivenStatus(label) ==
  CASE label = "starting"  -> "spawned"
    [] label = "started"   -> "starting"
    [] label = "completed" -> "completing"
    [] label = "failed"    -> "failing"
    [] OTHER               -> "running"

Driven(label, s) ==
  /\ label \in DrivenPC \cup {"spawn_worker"} => Len(s) # 0
  /\ label \in DrivenPC => s[Len(s)].worker = DrivenStatus(label)
  /\ \A i \in 1 .. Len(s) :
       s[i].worker \in WorkerLive => i = Len(s) /\ label \in DrivenPC

Quiet(s) == \A i \in 1 .. Len(s) : s[i].worker \notin WorkerLive

WorkersDriven ==
  /\ \A l \in Loop : Working(l) => Driven(pc[l], attempt[cur[l]])
  /\ \A t \in Task : ~WorkedOn(t) => Quiet(attempt[t])

(* A loop at work takes its step: it keeps its task and drives the worker, *)
(* or it is no longer at work and leaves no worker alive.                  *)
LEMMA DriverStep ==
  ASSUME WorkInv, WorkersDriven, NEW l \in Loop, Working(l),
         NEW label, Goto(l, label), UNCHANGED cur,
         \A t \in Task \ {cur[l]} : attempt'[t] = attempt[t],
         Driven(label, attempt'[cur[l]])
  PROVE  WorkersDriven'
<1>1. /\ pc'[l] = label
      /\ \A m \in Loop \ {l} : pc'[m] = pc[m]
  BY ThreadFacts DEF WorkInv
<1>2. \A m \in Loop : Working(m) => cur[m] \in Task
  BY DEF WorkInv, TypeOK, PCOK, Working, WorkPC
<1>3. \A m \in Loop \ {l} : Working(m) => cur[m] # cur[l]
  BY DEF WorkInv, ExclusiveWork
<1>4. ASSUME NEW m \in Loop, Working(m)' PROVE Driven(pc[m], attempt[cur[m]])'
  <2>1. CASE m = l
    BY <1>1, <2>1
  <2>2. CASE m # l
    <3>1. pc'[m] = pc[m] /\ Working(m)
      BY <1>1, <1>4, <2>2 DEF Working
    <3>2. attempt'[cur[m]] = attempt[cur[m]] /\ Driven(pc[m], attempt[cur[m]])
      BY <1>2, <1>3, <2>2, <3>1 DEF WorkersDriven
    <3> QED
      BY <3>1, <3>2
  <2> QED
    BY <2>1, <2>2
<1>5. ASSUME NEW t \in Task, ~WorkedOn(t)' PROVE Quiet(attempt[t])'
  <2>1. CASE t = cur[l]
    <3>1. label \notin WorkPC
      BY <1>1, <1>5, <2>1 DEF WorkedOn, Working
    <3>2. label \notin DrivenPC
      BY <3>1 DEF DrivenPC, WorkPC
    <3> QED
      BY <2>1, <3>2 DEF Driven, Quiet
  <2>2. CASE t # cur[l]
    <3>1. ~WorkedOn(t)
      BY <1>1, <1>5, <2>2 DEF WorkedOn, Working
    <3> QED
      BY <2>2, <3>1 DEF WorkersDriven
  <2> QED
    BY <2>1, <2>2
<1> QED
  BY <1>4, <1>5 DEF WorkersDriven

(* A step that writes no attempt and starts or ends no work. *)
LEMMA DriverRests ==
  ASSUME WorkersDriven, UNCHANGED attempt,
         \A m \in Loop : /\ Working(m)' <=> Working(m)
                         /\ Working(m) => pc'[m] = pc[m] /\ cur'[m] = cur[m]
  PROVE  WorkersDriven'
<1>1. \A t : WorkedOn(t)' <=> WorkedOn(t)
  BY DEF WorkedOn
<1> QED
  BY <1>1 DEF WorkersDriven

(* A claim begins work on a task that no loop works on. *)
LEMMA DriverClaims ==
  ASSUME WorkInv, WorkersDriven, NEW l \in Loop, ClaimTask(l)
  PROVE  WorkersDriven'
<1> DEFINE t == cur[l]
<1>1. /\ pc[l] = "claim" /\ t \in Task /\ ~Working(l)
      /\ UNCHANGED attempt
      /\ Loop \subseteq Thread
  BY DEF ClaimTask, At, WorkInv, TypeOK, PCOK, Working, WorkPC, rows, Thread
<1>2. CASE task[t].status = "ready"
  <2>1. Goto(l, "register") /\ UNCHANGED cur
    BY <1>2 DEF ClaimTask
  <2>2. /\ pc'[l] = "register"
        /\ \A m \in Loop \ {l} : pc'[m] = pc[m]
    BY <2>1, ThreadFacts DEF WorkInv
  <2>3. ~WorkedOn(t)
    BY <1>2 DEF WorkedOn, WorkInv, RowAtWork, Busy
  <2>4. Driven("register", attempt[t])
    BY <1>1, <2>3 DEF WorkersDriven, Quiet, Driven, DrivenPC
  <2>5. \A m \in Loop : Working(m)' <=> m = l \/ Working(m)
    BY <2>2 DEF Working, WorkPC
  <2>6. \A u \in Task : ~WorkedOn(u)' => ~WorkedOn(u)
    BY <2>1, <2>5 DEF WorkedOn
  <2> QED
    BY <1>1, <2>1, <2>2, <2>4, <2>5, <2>6 DEF WorkersDriven
<1>3. CASE task[t].status # "ready"
  <2>1. Goto(l, "idle") /\ cur' = [cur EXCEPT ![l] = NoTask]
    BY <1>3 DEF ClaimTask
  <2>2. /\ pc'[l] = "idle"
        /\ \A m \in Loop \ {l} : pc'[m] = pc[m] /\ cur'[m] = cur[m]
    BY <1>1, <2>1, ThreadFacts DEF WorkInv, TypeOK, PCOK
  <2> QED
    BY <1>1, <2>2, DriverRests DEF Working, WorkPC
<1> QED
  BY <1>2, <1>3

(* A worker row is written for the loop's own task. *)
LEMMA DriverUpdates ==
  ASSUME WorkInv, WorkersDriven, NEW l \in Loop, Working(l),
         NEW field, NEW status, SetAttempt(cur[l], field, status),
         \/ field = "worker" /\ status \in WorkerStatus
         \/ field = "execution" /\ status \in ExecutionStatus,
         pc[l] \in DrivenPC \cup {"spawn_worker"} \/ field = "execution",
         NEW label \in WorkPC \ {"spawn_worker"}, Goto(l, label), UNCHANGED cur,
         label \in DrivenPC =>
           \/ field = "worker" /\ status = DrivenStatus(label)
           \/ field = "execution" /\ pc[l] \in DrivenPC
                                  /\ DrivenStatus(pc[l]) = DrivenStatus(label),
         label \notin DrivenPC =>
           \/ field = "worker" /\ status \notin WorkerLive
           \/ field = "execution" /\ pc[l] \notin DrivenPC
  PROVE  WorkersDriven'
<1> DEFINE t == cur[l]
           s == attempt[t]
           n == Len(s)
           r == [s[n] EXCEPT ![field] = status]
           u == [s EXCEPT ![n] = r]
<1>1. t \in Task /\ s \in Seq(AttemptRow) /\ n \in Nat
      /\ attempt \in [Task -> Seq(AttemptRow)]
  BY DEF WorkInv, TypeOK, PCOK, Working, WorkPC
<1>2. Driven(pc[l], s)
  BY DEF WorkersDriven
<1>3. attempt' = [attempt EXCEPT ![t] = u]
  BY DEF SetAttempt
<1>4. attempt'[t] = u /\ \A v \in Task \ {t} : attempt'[v] = attempt[v]
  <2> HIDE DEF u
  <2> QED
    BY <1>1, <1>3
<1>5. Len(u) = n /\ \A i \in 1 .. n : u[i] = IF i = n THEN r ELSE s[i]
  <2> HIDE DEF r
  <2> QED
    BY <1>1
<1>6. ASSUME n # 0
      PROVE  r.worker = IF field = "worker" THEN status ELSE s[n].worker
  <2>1. s[n] \in AttemptRow
    BY <1>1, <1>6
  <2> QED
    BY <2>1 DEF AttemptRow
<1>7. Driven(label, u)
  <2> HIDE DEF u, r, s, t
  <2>1. label \in DrivenPC => n # 0
    BY <1>2 DEF Driven
  <2>2. label \in DrivenPC => u[n].worker = DrivenStatus(label)
    BY <1>1, <1>2, <1>5, <1>6, <2>1 DEF Driven
  <2>3. ASSUME NEW i \in 1 .. n, u[i].worker \in WorkerLive
        PROVE  i = n /\ label \in DrivenPC
    <3>1. i = n
      BY <1>2, <1>5, <2>3 DEF Driven
    <3>2. label \in DrivenPC
      BY <1>2, <1>5, <1>6, <2>3, <3>1 DEF Driven
    <3> QED
      BY <3>1, <3>2
  <2> QED
    BY <1>5, <2>1, <2>2, <2>3 DEF Driven
<1> QED
  BY <1>4, <1>7, DriverStep

(* Every step of a loop. *)
LEMMA DriverLoop ==
  ASSUME WorkInv, WorkersDriven, NEW l \in Loop, LoopStep(l)
  PROVE  WorkersDriven'
<1> USE DEF rows, control
<1>a. /\ l \in Thread /\ Loop \subseteq Thread
      /\ cur \in [Thread -> Task \cup {NoTask}]
      /\ \A label : Goto(l, label) => /\ pc'[l] = label
                                      /\ \A m \in Loop \ {l} : pc'[m] = pc[m]
  BY ThreadFacts DEF WorkInv, TypeOK, PCOK
<1>b. Working(l) => Driven(pc[l], attempt[cur[l]]) /\ cur[l] \in Task
  BY DEF WorkersDriven, WorkInv, TypeOK, PCOK, Working, WorkPC
<1>1. ASSUME NEW t \in Task, SelectTask(l, t) PROVE WorkersDriven'
  BY <1>1, <1>a, DriverRests DEF SelectTask, At, Working, WorkPC
<1>2. CASE ClaimTask(l)
  BY <1>2, DriverClaims
<1>3. CASE \/ RegisterActive(l) \/ Prepare(l) \/ TryFallback(l) \/ PlanStep(l)
           \/ ProgressRead(l) \/ ProgressWrite(l) \/ CompleteRead(l)
           \/ CompleteWrite(l) \/ FailRead(l) \/ FailWrite(l)
  <2>1. /\ pc[l] \in WorkPC \ (DrivenPC \cup {"spawn_worker"})
        /\ UNCHANGED <<attempt, cur>>
    BY <1>3 DEF RegisterActive, Prepare, TryFallback, PlanStep, ProgressRead,
                ProgressWrite, CompleteRead, CompleteWrite, FailRead, FailWrite, At,
                WorkPC, DrivenPC
  <2>2. PICK label : /\ Goto(l, label)
                     /\ label \notin DrivenPC \cup {"spawn_worker"}
    <3>1. CASE RegisterActive(l) \/ ProgressWrite(l)
      BY <3>1 DEF RegisterActive, ProgressWrite, DrivenPC
    <3>2. CASE Prepare(l) \/ TryFallback(l) \/ PlanStep(l) \/ ProgressRead(l)
               \/ CompleteWrite(l) \/ FailWrite(l)
      BY <3>2 DEF Prepare, TryFallback, PlanStep, ProgressRead, CompleteWrite,
                  FailWrite, DrivenPC
    <3>3. CASE CompleteRead(l) \/ FailRead(l)
      BY <3>3 DEF CompleteRead, FailRead, ReadTask, DrivenPC
    <3> QED
      BY <1>3, <3>1, <3>2, <3>3
  <2>3. Working(l)
    BY <2>1 DEF Working
  <2>4. Driven(label, attempt[cur[l]])
    BY <1>b, <2>1, <2>2, <2>3 DEF Driven
  <2> QED
    BY <2>1, <2>2, <2>3, <2>4, DriverStep
<1>4. CASE SpawnExecution(l)
  <2> DEFINE s == attempt[cur[l]]
             new == [execution |-> "created", worker |-> "none"]
  <2>1. /\ pc[l] = "spawn_execution" /\ Working(l)
        /\ Goto(l, "spawn_worker") /\ UNCHANGED cur
        /\ s \in Seq(AttemptRow) /\ attempt \in [Task -> Seq(AttemptRow)]
    BY <1>4, <1>b DEF SpawnExecution, At, Working, WorkPC, WorkInv, TypeOK
  <2>2. /\ attempt'[cur[l]] = Append(s, new)
        /\ \A t \in Task \ {cur[l]} : attempt'[t] = attempt[t]
    BY <1>4, <1>b, <2>1 DEF SpawnExecution
  <2>3. /\ Len(Append(s, new)) = Len(s) + 1 /\ Len(s) \in Nat
        /\ \A i \in 1 .. Len(s) : Append(s, new)[i] = s[i]
        /\ Append(s, new)[Len(s) + 1].worker = "none"
    BY <2>1
  <2>4. Driven("spawn_worker", Append(s, new))
    <3> HIDE DEF s, new
    <3> QED
      BY <1>b, <2>1, <2>3 DEF Driven, DrivenPC, WorkerLive, s
  <2> QED
    BY <2>1, <2>2, <2>4, DriverStep
<1>5. CASE Dispatch(l)
  <2>1. /\ pc[l] = "dispatch" /\ Working(l)
        /\ UNCHANGED <<attempt, cur>>
    BY <1>5 DEF Dispatch, At, Working, WorkPC
  <2>2. PICK label \in {"completing", "failing"} : Goto(l, label)
    BY <1>5 DEF Dispatch
  <2>3. Driven(label, attempt[cur[l]])
    BY <1>b, <2>1 DEF Driven, DrivenPC, DrivenStatus
  <2> QED
    BY <2>1, <2>2, <2>3, DriverStep
<1>6. ASSUME NEW at, NEW field, NEW status, NEW next,
             WorkerUpdate(l, at, field, status, next),
             <<at, field, status, next>> \in
               {<<"spawn_worker", "worker", "spawned", "starting">>,
                <<"starting", "worker", "starting", "started">>,
                <<"started", "worker", "running", "execution_running">>,
                <<"execution_running", "execution", "running", "dispatch">>,
                <<"completing", "worker", "completing", "completed">>,
                <<"completed", "worker", "completed", "execution_completed">>,
                <<"execution_completed", "execution", "completed",
                  "complete_read">>,
                <<"failing", "worker", "failing", "failed">>,
                <<"failed", "worker", "failed", "execution_failed">>,
                <<"execution_failed", "execution", "failed", "fallback">>}
      PROVE  WorkersDriven'
  <2>1. pc[l] = at /\ SetAttempt(cur[l], field, status) /\ Goto(l, next)
        /\ UNCHANGED cur
    BY <1>6 DEF WorkerUpdate, At
  <2>2. Working(l) /\ next \in WorkPC \ {"spawn_worker"}
    BY <1>6, <2>1 DEF Working, WorkPC
  <2>3. \/ field = "worker" /\ status \in WorkerStatus
        \/ field = "execution" /\ status \in ExecutionStatus
    BY <1>6 DEF WorkerStatus, ExecutionStatus
  <2>4. /\ pc[l] \in DrivenPC \cup {"spawn_worker"} \/ field = "execution"
        /\ next \in DrivenPC =>
             \/ field = "worker" /\ status = DrivenStatus(next)
             \/ field = "execution" /\ pc[l] \in DrivenPC
                                    /\ DrivenStatus(pc[l]) = DrivenStatus(next)
        /\ next \notin DrivenPC =>
             \/ field = "worker" /\ status \notin WorkerLive
             \/ field = "execution" /\ pc[l] \notin DrivenPC
    BY <1>6, <2>1 DEF DrivenPC, DrivenStatus, WorkerLive
  <2> QED
    BY <2>1, <2>2, <2>3, <2>4, DriverUpdates
<1>7. ASSUME NEW at, NEW status, NEW next, NEW refused,
             WorkerValidated(l, at, status, next, refused),
             <<at, status, next>> \in {<<"starting", "starting", "started">>,
                                       <<"completing", "completing", "completed">>,
                                       <<"failing", "failing", "failed">>}
      PROVE  WorkersDriven'
  <2>1. pc[l] = at /\ Working(l)
    BY <1>7 DEF WorkerValidated, At, Working, WorkPC
  <2>2. Attempt(cur[l]).worker = DrivenStatus(at)
    BY <1>7, <1>b, <2>1 DEF Driven, DrivenPC, Attempt
  <2>3. validate_worker_transition(Attempt(cur[l]).worker, status)
    BY <1>7, <2>2 DEF validate_worker_transition, WorkerSuccessors, DrivenStatus
  <2>4. WorkerUpdate(l, at, "worker", status, next)
    BY <1>7, <2>3 DEF WorkerValidated
  <2> QED
    BY <1>6, <1>7, <2>4
<1>8. CASE SpawnWorker(l) \/ WorkerStart(l) \/ WorkerComplete(l) \/ WorkerFail(l)
  BY <1>6, <1>7, <1>8 DEF SpawnWorker, WorkerStart, WorkerComplete, WorkerFail
<1>9. CASE \/ ListDependents(l) \/ DependentsDone(l) \/ ListTasks(l) \/ MissionRead(l)
           \/ MissionWrite(l) \/ PublishEnd(l) \/ DiscardActive(l)
           \/ \E t \in Task : PromoteDependent(l, t)
  <2>1. pc[l] \in SettlePC /\ UNCHANGED attempt
    BY <1>9 DEF ListDependents, DependentsDone, ListTasks, MissionRead, MissionWrite,
                PublishEnd, DiscardActive, PromoteDependent, At, SettlePC
  <2>2. UNCHANGED pc \/ \E label \in SettlePC \cup {"idle"} : Goto(l, label)
    BY <1>9 DEF ListDependents, DependentsDone, ListTasks, MissionRead, ReadMission,
                MissionWrite, PublishEnd, DiscardActive, PromoteDependent, SettlePC
  <2>3. UNCHANGED cur \/ cur' = [cur EXCEPT ![l] = NoTask]
    BY <1>9 DEF ListDependents, DependentsDone, ListTasks, MissionRead,
                MissionWrite, PublishEnd, DiscardActive, PromoteDependent
  <2>4. ~Working(l) /\ ~Working(l)'
    BY <1>a, <2>1, <2>2 DEF SettlePC, Working, WorkPC
  <2>5. \A m \in Loop \ {l} : pc'[m] = pc[m] /\ cur'[m] = cur[m]
    BY <1>a, <2>2, <2>3
  <2> QED
    BY <2>1, <2>4, <2>5, DriverRests DEF Working
<1> QED
  BY <1>1, <1>2, <1>3, <1>4, <1>5, <1>8, <1>9 DEF LoopStep

(* The request thread and the client drive no worker. *)
LEMMA DriverOthers ==
  ASSUME WorkInv, WorkersDriven,
         \/ SessionStep \/ AdmissionFails \/ WaitTimeout
         \/ ClientCall \/ ClientStep
  PROVE  WorkersDriven'
<1> USE DEF rows, control
<1>1. UNCHANGED attempt
  BY DEF SessionStep, CreateMission, CreateTask, ScheduleCreated, ReadyCreated,
         FirstPassDone, SecondPassRead, SecondPassWrite, PlanRead,
         PlanWrite, StartRead, StartWrite, WaitRead, Subscribe, Recheck, Woken,
         Answer, AdmissionFails, WaitTimeout, ClientCall, ClientTaskRead,
         ClientMissionRead, ClientCreate, ClientStep, ClientTaskWrite,
         CreateDependency, ClientMissionWrite, ClientPublish
<1>2. \E th \in {"session", "client"} :
        UNCHANGED pc \/ \E label : Goto(th, label)
  <2>1. CASE SessionStep \/ AdmissionFails \/ WaitTimeout
    BY <2>1 DEF SessionStep, CreateMission, CreateTask, ScheduleCreated, ReadyCreated,
         FirstPassDone, SecondPassRead, SecondPassWrite, PlanRead,
         PlanWrite, StartRead, StartWrite, ReadMission, WaitRead, Subscribe, Recheck,
         Woken, Answer, Report, AdmissionFails, WaitTimeout
  <2>2. CASE ClientCall \/ ClientStep
    BY <2>2 DEF ClientCall, ClientTaskRead, ClientMissionRead, ClientCreate,
         ClientStep, ClientTaskWrite, CreateDependency, ClientMissionWrite,
         ClientPublish
  <2> QED
    BY <2>1, <2>2
<1>3. \E th \in {"session", "client"} :
        UNCHANGED cur \/ \E t : cur' = [cur EXCEPT ![th] = t]
  BY DEF SessionStep, CreateMission, CreateTask, ScheduleCreated, ReadyCreated,
         FirstPassDone, SecondPassRead, SecondPassWrite, PlanRead,
         PlanWrite, StartRead, StartWrite, WaitRead, Subscribe, Recheck, Woken,
         Answer, AdmissionFails, WaitTimeout, ClientCall, ClientTaskRead,
         ClientMissionRead, ClientCreate, ClientStep, ClientTaskWrite,
         CreateDependency, ClientMissionWrite, ClientPublish
<1>4. \A m \in Loop : pc'[m] = pc[m]
  BY <1>2, ThreadFacts DEF WorkInv
<1>5. \A m \in Loop : cur'[m] = cur[m]
  BY <1>3, ThreadFacts DEF WorkInv, TypeOK, PCOK
<1> QED
  BY <1>1, <1>4, <1>5, DriverRests DEF Working

(* A worker whose row says that it is alive is driven by a loop, and the   *)
(* attempts of a task never overlap, for any number of loops and retries.  *)
THEOREM WorkersAreDriven == Spec => []WorkersHaveLoops
<1>1. Init => WorkersDriven
  BY ConstantsAssumption
     DEF Init, WorkersDriven, Working, WorkPC, Thread, Quiet
<1>2. WorkInv /\ WorkersDriven /\ [Next]_vars => WorkersDriven'
  <2> SUFFICES ASSUME WorkInv, WorkersDriven, [Next]_vars PROVE WorkersDriven'
    OBVIOUS
  <2>1. CASE UNCHANGED vars
    BY <2>1, DriverRests DEF vars, rows, control, Working
  <2> QED
    BY <2>1, DriverLoop, DriverOthers DEF Next
<1>3. WorkInv /\ WorkersDriven => WorkersHaveLoops
  <2> SUFFICES ASSUME WorkInv, WorkersDriven, NEW t \in Task,
                      NEW i \in 1 .. Len(attempt[t]),
                      attempt[t][i].worker \in WorkerLive
               PROVE  i = Len(attempt[t]) /\ \E l \in Loop : Working(l) /\ cur[l] = t
    BY DEF WorkersHaveLoops
  <2>1. PICK l \in Loop : Working(l) /\ cur[l] = t
    BY DEF WorkersDriven, Quiet, WorkedOn
  <2> QED
    BY <2>1 DEF WorkersDriven, Driven
<1> QED
  BY <1>1, <1>2, <1>3, WorkInit, WorkNext, PTL DEF Spec
-----------------------------------------------------------------------------
(***************************************************************************)
(* The attempts.  A task that is READY, or at work, has retries left for   *)
(* the executions it has had, in its row and in every copy of the row that *)
(* a thread is about to write back.                                        *)
(***************************************************************************)
UnspawnedPC == {"register", "prepare", "spawn_execution"}

CopyPC == {"progress_write", "fail_only", "fail"}

Pays(t, r, begun) == Len(attempt[t]) <= r + begun /\ r < AttemptsAllowed

PaysFor(t, r) ==
  /\ task[t].status = "ready" => Pays(t, r, 0)
  /\ \A l \in Loop :
       Working(l) /\ cur[l] = t => Pays(t, r, IF pc[l] \in UnspawnedPC THEN 0 ELSE 1)
  /\ Creating(t) => r = 0

Paid(t) ==
  /\ Len(attempt[t]) <= AttemptsAllowed
  /\ task[t].status = "none" \/ Creating(t) => Len(attempt[t]) = 0
  /\ task[t].status = "none" => cur["client"] # t
  /\ PaysFor(t, task[t].retries)
  /\ task[t].status = "failed" /\ task[t].retries < MaxRetries =>
       Len(attempt[t]) <= task[t].retries
  /\ cur["client"] = t /\ ~Retrying(t) => PaysFor(t, row["client"].retries)
  /\ Retrying(t) => /\ Len(attempt[t]) <= row["client"].retries
                    /\ row["client"].retries < MaxRetries
  /\ \A l \in Loop :
       pc[l] \in CopyPC /\ cur[l] = t => Pays(t, row[l].retries, 1)

SecondPassInv ==
  /\ todo["session"] \subseteq {e[1] : e \in DependsOn}
  /\ pc["session"] = "wait_for_dependency" => ~Independent(cur["session"])

AttemptInv ==
  /\ SecondPassInv
  /\ \A t \in Task : Independent(t) => Paid(t)

LEMMA PaidTypes ==
  ASSUME TypeOK
  PROVE  /\ AttemptsAllowed \in Nat /\ MaxRetries \in Nat
         /\ MaxRetries # 0 => AttemptsAllowed = MaxRetries
         /\ \A t \in Task : /\ task[t].retries \in 0 .. MaxRetries
                            /\ Len(attempt[t]) \in Nat
         /\ \A th \in Thread : row[th].retries \in 0 .. MaxRetries
         /\ "client" \in Thread /\ "session" \in Thread /\ Loop \subseteq Thread
         /\ "client" \notin Loop /\ "session" \notin Loop
<1> USE ConstantsAssumption
<1>1. /\ \A t \in Task : task[t] \in TaskRow /\ attempt[t] \in Seq(AttemptRow)
      /\ \A th \in Thread : row[th] \in TaskRow
  BY DEF TypeOK
<1>2. \A t \in Task : Len(attempt[t]) \in Nat
  BY <1>1
<1> QED
  BY <1>1, <1>2 DEF AttemptsAllowed, TaskRow, Thread

(* A step that leaves the row, the number of attempts and the client alone, *)
(* and brings no loop to work on the task.                                  *)
LEMMA PaidKeeps ==
  ASSUME TypeOK, NEW t \in Task, Paid(t),
         task'[t] = task[t], Len(attempt'[t]) = Len(attempt[t]),
         Creating(t)' => Creating(t), Retrying(t)' <=> Retrying(t),
         cur'["client"] = cur["client"], row'["client"] = row["client"],
         \A l \in Loop :
           Working(l)' /\ cur'[l] = t =>
             /\ Working(l) /\ cur[l] = t
             /\ pc'[l] \in UnspawnedPC => pc[l] \in UnspawnedPC
             /\ pc'[l] \in CopyPC => \/ row'[l] = task[t]
                                     \/ pc[l] \in CopyPC /\ row'[l] = row[l]
  PROVE  Paid(t)'
<1> USE PaidTypes
<1>1. ASSUME NEW r \in 0 .. MaxRetries, PaysFor(t, r) PROVE PaysFor(t, r)'
  <2>1. ASSUME NEW l \in Loop, Working(l)', cur'[l] = t
        PROVE  Pays(t, r, IF pc[l] \in UnspawnedPC THEN 0 ELSE 1)'
    <3>1. Working(l) /\ cur[l] = t /\ (pc'[l] \in UnspawnedPC => pc[l] \in UnspawnedPC)
      BY <2>1
    <3>2. Pays(t, r, 0) \/ (pc'[l] \notin UnspawnedPC /\ Pays(t, r, 1))
      BY <1>1, <3>1 DEF PaysFor
    <3> DEFINE begun == IF pc'[l] \in UnspawnedPC THEN 0 ELSE 1
    <3>3. Len(attempt'[t]) <= r + begun /\ r < AttemptsAllowed
      BY <3>2 DEF Pays
    <3> QED
      BY <3>3 DEF Pays
  <2> QED
    BY <1>1, <2>1 DEF PaysFor, Pays
<1>2. ASSUME NEW l \in Loop, pc'[l] \in CopyPC, cur'[l] = t
      PROVE  Pays(t, row[l].retries, 1)'
  <2>1. Working(l)'
    BY <1>2 DEF CopyPC, Working, WorkPC
  <2>2. /\ Working(l) /\ cur[l] = t
        /\ row'[l] = task[t] \/ (pc[l] \in CopyPC /\ row'[l] = row[l])
    BY <1>2, <2>1
  <2>3. CASE row'[l] = task[t]
    <3>1. Pays(t, task[t].retries, 0) \/ Pays(t, task[t].retries, 1)
      BY <2>2 DEF Paid, PaysFor
    <3> QED
      BY <2>3, <3>1 DEF Pays
  <2>4. CASE pc[l] \in CopyPC /\ row'[l] = row[l]
    BY <2>2, <2>4 DEF Paid, Pays
  <2> QED
    BY <2>2, <2>3, <2>4
<1>3. PaysFor(t, task[t].retries)'
  BY <1>1 DEF Paid
<1>4. ASSUME cur'["client"] = t, ~Retrying(t)' PROVE PaysFor(t, row["client"].retries)'
  BY <1>1, <1>4 DEF Paid
<1> QED
  BY <1>2, <1>3, <1>4 DEF Paid

(* A loop changes nothing of the other threads. *)
LEMMA LoopFrame ==
  ASSUME TypeOK, NEW l \in Loop, LoopStep(l)
  PROVE  \A o \in Thread \ {l} :
           pc'[o] = pc[o] /\ cur'[o] = cur[o] /\ row'[o] = row[o]
<1> USE DEF rows, control
<1>1. UNCHANGED pc \/ \E label : pc' = [pc EXCEPT ![l] = label]
  BY DEF LoopStep, SelectTask, ClaimTask, RegisterActive, Prepare, SpawnExecution,
         SpawnWorker, WorkerStart, WorkerUpdate, WorkerValidated, Dispatch,
         WorkerComplete, WorkerFail, TryFallback, PlanStep, ProgressRead,
         ProgressWrite, CompleteRead, ReadTask, CompleteWrite, ListDependents,
         PromoteDependent, DependentsDone, FailRead, FailWrite, ListTasks,
         MissionRead, ReadMission, MissionWrite, PublishEnd, DiscardActive, Goto
<1>2. UNCHANGED cur \/ \E t : cur' = [cur EXCEPT ![l] = t]
  BY DEF LoopStep, SelectTask, ClaimTask, RegisterActive, Prepare, SpawnExecution,
         SpawnWorker, WorkerStart, WorkerUpdate, WorkerValidated, Dispatch,
         WorkerComplete, WorkerFail, TryFallback, PlanStep, ProgressRead,
         ProgressWrite, CompleteRead, CompleteWrite, ListDependents,
         PromoteDependent, DependentsDone, FailRead, FailWrite, ListTasks,
         MissionRead, MissionWrite, PublishEnd, DiscardActive
<1>3. UNCHANGED row \/ \E r : row' = [row EXCEPT ![l] = r]
  BY DEF LoopStep, SelectTask, ClaimTask, RegisterActive, Prepare, SpawnExecution,
         SpawnWorker, WorkerStart, WorkerUpdate, WorkerValidated, Dispatch,
         WorkerComplete, WorkerFail, TryFallback, PlanStep, ProgressRead,
         ProgressWrite, CompleteRead, ReadTask, CompleteWrite, ListDependents,
         PromoteDependent, DependentsDone, FailRead, FailWrite, ListTasks,
         MissionRead, MissionWrite, PublishEnd, DiscardActive
<1> QED
  BY <1>1, <1>2, <1>3 DEF TypeOK, PCOK

(* A loop claims a READY task, which has retries left for its attempts. *)
LEMMA PaidClaim ==
  ASSUME WorkInv, NEW l \in Loop, ClaimTask(l), NEW t \in Task, Paid(t)
  PROVE  Paid(t)'
<1> USE PaidTypes DEF rows
<1>a. TypeOK /\ LoopStep(l)
  BY DEF WorkInv, LoopStep
<1>1. /\ pc[l] = "claim" /\ cur[l] \in Task /\ Loop \subseteq Thread
      /\ UNCHANGED <<attempt, row>>
      /\ \A o \in Thread \ {l} : pc'[o] = pc[o] /\ cur'[o] = cur[o]
  BY <1>a, LoopFrame DEF ClaimTask, At, TypeOK, PCOK
<1>2. /\ Creating(t)' <=> Creating(t)
      /\ Retrying(t)' <=> Retrying(t)
  BY <1>1, <1>a DEF Creating, Retrying
<1>3. CASE cur[l] = t /\ task[t].status = "ready"
  <2>1. Goto(l, "register") /\ UNCHANGED cur /\ Become(t, task[t], "running")
    BY <1>3 DEF ClaimTask
  <2>2. pc'[l] = "register"
    BY <1>a, <2>1, ThreadFacts
  <2>3. task'[t].status = "running" /\ task'[t].retries = task[t].retries
    <3>1. task[t] \in TaskRow /\ task \in [Task -> TaskRow]
      BY <1>a DEF TypeOK
    <3> DEFINE R == [task[t] EXCEPT !.status = "running"]
    <3>2. R.status = "running" /\ R.retries = task[t].retries
      BY <3>1 DEF TaskRow
    <3>3. task' = [task EXCEPT ![t] = R]
      BY <2>1 DEF Become
    <3> HIDE DEF R
    <3> QED
      BY <3>1, <3>2, <3>3
  <2>4. ~Retrying(t) /\ ~Creating(t) /\ ~WorkedOn(t)
    BY <1>3 DEF WorkInv, RowInRetry, RowInCreation, RowAtWork, WorkedOn, Busy
  <2>5. \A m \in Loop : Working(m)' /\ cur'[m] = t => m = l
    BY <1>1, <2>1, <2>4 DEF WorkedOn, Working
  <2>6. ASSUME NEW r, Pays(t, r, 0) PROVE PaysFor(t, r)'
    BY <1>1, <1>2, <2>2, <2>3, <2>4, <2>5, <2>6 DEF PaysFor, Pays, UnspawnedPC
  <2>7. PaysFor(t, task[t].retries)'
    BY <1>3, <2>3, <2>6 DEF Paid, PaysFor
  <2>8. cur'["client"] = t => PaysFor(t, row["client"].retries)'
    BY <1>1, <1>3, <2>1, <2>4, <2>6 DEF Paid, PaysFor
  <2>9. \A m \in Loop : pc'[m] \in CopyPC => ~(cur'[m] = t)
    BY <2>2, <2>5 DEF CopyPC, Working, WorkPC
  <2> QED
    BY <1>1, <1>2, <2>3, <2>4, <2>7, <2>8, <2>9 DEF Paid
<1>4. CASE ~(cur[l] = t /\ task[t].status = "ready")
  <2>1. task'[t] = task[t]
    BY <1>4, <1>1, <1>a, BecomeStatus DEF ClaimTask, TypeOK
  <2>2. Working(l)' => cur'[l] # t
    <3>1. CASE task[cur[l]].status = "ready"
      BY <1>4, <3>1 DEF ClaimTask
    <3>2. CASE task[cur[l]].status # "ready"
      BY <3>2, <1>a, ThreadFacts DEF ClaimTask, Working, WorkPC
    <3> QED
      BY <3>1, <3>2
  <2>3. \A m \in Loop : Working(m)' /\ cur'[m] = t =>
            Working(m) /\ cur[m] = t /\ pc'[m] = pc[m] /\ row'[m] = row[m]
    BY <1>1, <2>2 DEF Working
  <2> QED
    BY <1>1, <1>2, <1>a, <2>1, <2>3, PaidKeeps
<1> QED
  BY <1>3, <1>4

(* A loop at work writes its row or counts an execution. *)
LEMMA PaidWork ==
  ASSUME WorkInv, TypeOK', NEW l \in Loop, LoopStep(l),
         SpawnExecution(l) \/ ProgressWrite(l) \/ CompleteWrite(l) \/ FailWrite(l),
         NEW t \in Task, Paid(t)
  PROVE  Paid(t)'
<1> USE PaidTypes DEF rows
<1>a. TypeOK
  BY DEF WorkInv
<1>1. /\ Working(l) /\ cur[l] \in Task /\ row[l] \in TaskRow
      /\ Loop \subseteq Thread
      /\ UNCHANGED <<cur, row>>
      /\ \A o \in Thread \ {l} : pc'[o] = pc[o]
  BY <1>a, LoopFrame
     DEF SpawnExecution, ProgressWrite, CompleteWrite, FailWrite, At, Working, WorkPC,
         TypeOK, PCOK
<1>2. /\ Creating(t)' <=> Creating(t)
      /\ Retrying(t)' <=> Retrying(t)
  BY <1>1, <1>a DEF Creating, Retrying
<1>3. CASE cur[l] # t
  <2>1. task'[t] = task[t] /\ attempt'[t] = attempt[t]
    BY <1>3, <1>a, <1>1
       DEF SpawnExecution, ProgressWrite, CompleteWrite, FailWrite, Become, TypeOK
  <2>2. \A m \in Loop : Working(m)' /\ cur'[m] = t =>
            Working(m) /\ cur[m] = t /\ pc'[m] = pc[m] /\ row'[m] = row[m]
    BY <1>1, <1>3 DEF Working
  <2> QED
    BY <1>1, <1>2, <1>a, <2>1, <2>2, PaidKeeps
<1>4. CASE cur[l] = t
  <2>1. /\ \A m \in Loop \ {l} : Working(m) => cur[m] # t
        /\ task[t].status \in Busy
        /\ ~Creating(t) /\ ~Retrying(t)
    BY <1>1, <1>4
       DEF WorkInv, ExclusiveWork, RowAtWork, RowInCreation, RowInRetry, WorkedOn
  <2>2. \A m \in Loop : Working(m)' /\ cur'[m] = t => m = l
    BY <1>1, <2>1 DEF Working
  <2>3. \A r : PaysFor(t, r) =>
                 Pays(t, r, IF pc[l] \in UnspawnedPC THEN 0 ELSE 1)
    BY <1>1, <1>4 DEF PaysFor
  <2>4. CASE SpawnExecution(l)
    <3>1. pc[l] = "spawn_execution" /\ Goto(l, "spawn_worker") /\ UNCHANGED task
      BY <2>4 DEF SpawnExecution, At
    <3>2. pc'[l] = "spawn_worker"
      BY <1>a, <3>1, ThreadFacts
    <3>3. Len(attempt'[t]) = Len(attempt[t]) + 1
      BY <1>4, <2>4, <1>a DEF SpawnExecution, TypeOK
    <3>4. ASSUME NEW r \in 0 .. MaxRetries, PaysFor(t, r)
          PROVE  PaysFor(t, r)' /\ Len(attempt[t]) + 1 <= AttemptsAllowed
      <4>1. Len(attempt[t]) <= r + 0 /\ r < AttemptsAllowed
        BY <2>3, <3>1, <3>4 DEF Pays, UnspawnedPC
      <4>2. Len(attempt'[t]) <= r + 1 /\ Len(attempt[t]) + 1 <= AttemptsAllowed
        BY <1>a, <3>3, <4>1
      <4> QED
        BY <1>2, <2>1, <2>2, <3>1, <3>2, <4>1, <4>2
           DEF PaysFor, Pays, UnspawnedPC, Busy
    <3>5. PaysFor(t, task[t].retries)' /\ Len(attempt'[t]) <= AttemptsAllowed
      BY <1>a, <3>1, <3>3, <3>4 DEF Paid
    <3>6. cur'["client"] = t => PaysFor(t, row["client"].retries)'
      BY <1>a, <1>1, <2>1, <3>4 DEF Paid
    <3>7. \A m \in Loop : pc'[m] \in CopyPC => ~(cur'[m] = t)
      BY <2>2, <3>2 DEF CopyPC, Working, WorkPC
    <3> QED
      BY <1>1, <1>2, <2>1, <3>1, <3>5, <3>6, <3>7 DEF Paid, Busy
  <2>5. CASE ProgressWrite(l) \/ CompleteWrite(l) \/ FailWrite(l)
    <3> DEFINE copy == IF FailWrite(l) THEN CountRetry(row[l]) ELSE row[l]
    <3>1. UNCHANGED attempt
      BY <2>5 DEF ProgressWrite, CompleteWrite, FailWrite
    <3>2. PICK status : Become(t, copy, status)
      BY <1>4, <2>5 DEF ProgressWrite, CompleteWrite, FailWrite
    <3>3. copy \in TaskRow /\ task'[t].retries = copy.retries
          /\ task'[t].status = status
      <4>1. copy \in TaskRow
        BY <1>1, ConstantsAssumption DEF CountRetry, TaskRow
      <4> DEFINE R == [copy EXCEPT !.status = status]
      <4>2. task' = [task EXCEPT ![t] = R] /\ task \in [Task -> TaskRow]
        BY <1>a, <3>2 DEF Become, TypeOK
      <4>3. R.status = status /\ R.retries = copy.retries
        BY <4>1 DEF TaskRow
      <4> HIDE DEF R, copy
      <4> QED
        BY <4>1, <4>2, <4>3
    <3>4. CASE ProgressWrite(l)
      <4>1. /\ pc[l] = "progress_write"
            /\ \E label \in {"complete_read", "step"} : Goto(l, label)
            /\ ~FailWrite(l)
            /\ task' = [task EXCEPT ![t] = [row[l] EXCEPT !.status = row[l].status]]
        BY <1>4, <3>4 DEF ProgressWrite, FailWrite, At, Become
      <4>2. pc'[l] \in {"complete_read", "step"}
        BY <1>a, <4>1, ThreadFacts
      <4>3. task'[t].status \in Busy
        <5>1. row[l].status \in Busy
          BY <1>1, <4>1 DEF WorkInv, RowAtWork
        <5> DEFINE R == [row[l] EXCEPT !.status = row[l].status]
        <5>2. R.status = row[l].status
          BY <1>1 DEF TaskRow
        <5>3. task \in [Task -> TaskRow]
          BY <1>a DEF TypeOK
        <5> HIDE DEF R
        <5> QED
          BY <4>1, <5>1, <5>2, <5>3 DEF R
      <4>4. ASSUME NEW r, Pays(t, r, 1) PROVE PaysFor(t, r)'
        BY <1>2, <2>1, <2>2, <3>1, <4>2, <4>3, <4>4
           DEF PaysFor, Pays, UnspawnedPC, Busy
      <4>5. PaysFor(t, task[t].retries)'
        BY <1>4, <3>3, <4>1, <4>4 DEF Paid, CopyPC
      <4>6. cur'["client"] = t => PaysFor(t, row["client"].retries)'
        BY <1>1, <2>1, <2>3, <4>1, <4>4 DEF Paid, UnspawnedPC
      <4>7. \A m \in Loop : pc'[m] \in CopyPC => ~(cur'[m] = t)
        BY <2>2, <4>2 DEF CopyPC, Working, WorkPC
      <4> QED
        BY <1>1, <1>2, <2>1, <3>1, <4>3, <4>5, <4>6, <4>7 DEF Paid, Busy
    <3>5. CASE CompleteWrite(l) \/ FailWrite(l)
      <4>1. \E label \in {"dependents", "discard", "mission_fail_read"} :
              Goto(l, label)
        BY <3>5 DEF CompleteWrite, FailWrite
      <4>2. pc'[l] \in {"dependents", "discard", "mission_fail_read"}
        BY <1>a, <4>1, ThreadFacts
      <4>3. \A m \in Loop : ~(Working(m)' /\ cur'[m] = t)
        BY <2>2, <4>2 DEF Working, WorkPC
      <4>4. \A m \in Loop : pc'[m] \in CopyPC => ~(cur'[m] = t)
        BY <4>3 DEF CopyPC, Working, WorkPC
      <4>5. task'[t].status \in {"completed", "failed"}
        BY <1>4, <1>1, <1>a, <3>5, BecomeStatus, ConstantsAssumption
           DEF CompleteWrite, FailWrite, CountRetry, TaskRow
      <4>6. \A r : PaysFor(t, r)'
        BY <1>2, <2>1, <4>3, <4>5 DEF PaysFor
      <4>7. task'[t].status = "failed" /\ task'[t].retries < MaxRetries =>
              Len(attempt'[t]) <= task'[t].retries
        <5>1. CASE CompleteWrite(l)
          BY <1>4, <1>1, <1>a, <5>1, BecomeStatus DEF CompleteWrite
        <5>2. CASE FailWrite(l)
          <6>1. pc[l] \in CopyPC
            BY <5>2 DEF FailWrite, At, CopyPC
          <6>2. Len(attempt[t]) <= row[l].retries + 1
                /\ row[l].retries < AttemptsAllowed
            BY <1>4, <6>1 DEF Paid, Pays
          <6>3. copy.retries = IF row[l].retries < MaxRetries
                                 THEN row[l].retries + 1 ELSE row[l].retries
            BY <1>1, <5>2 DEF CountRetry, TaskRow
          <6> HIDE DEF copy
          <6> QED
            BY <1>a, <1>1, <3>1, <3>3, <6>2, <6>3 DEF Thread
        <5> QED
          BY <3>5, <5>1, <5>2
      <4> QED
        BY <1>1, <1>2, <2>1, <3>1, <4>4, <4>5, <4>6, <4>7 DEF Paid
    <3> QED
      BY <2>5, <3>4, <3>5
  <2> QED
    BY <2>4, <2>5
<1> QED
  BY <1>3, <1>4

(* Every step of a loop.  A loop that promotes dependents writes the row   *)
(* of no independent task.                                                 *)
LEMMA PaidLoop ==
  ASSUME WorkInv, TypeOK', NEW l \in Loop, LoopStep(l),
         NEW t \in Task, Independent(t), Paid(t)
  PROVE  Paid(t)'
<1> USE PaidTypes DEF rows, control
<1>a. TypeOK /\ Loop \subseteq Thread
  BY PaidTypes DEF WorkInv
<1>b. /\ \A o \in Thread \ {l} : pc'[o] = pc[o] /\ cur'[o] = cur[o] /\ row'[o] = row[o]
      /\ \A label : Goto(l, label) => pc'[l] = label
      /\ cur[l] \in Task \/ pc[l] = "idle"
  BY <1>a, LoopFrame, ThreadFacts DEF TypeOK, PCOK
<1>c. /\ Creating(t)' <=> Creating(t)
      /\ Retrying(t)' <=> Retrying(t)
  BY <1>a, <1>b DEF Creating, Retrying
<1>d. ASSUME task'[t] = task[t], Len(attempt'[t]) = Len(attempt[t]),
             Working(l)' /\ cur'[l] = t =>
               /\ Working(l) /\ cur[l] = t
               /\ pc'[l] \in UnspawnedPC => pc[l] \in UnspawnedPC
               /\ pc'[l] \in CopyPC => \/ row'[l] = task[t]
                                       \/ pc[l] \in CopyPC /\ row'[l] = row[l]
      PROVE  Paid(t)'
  <2>1. \A m \in Loop \ {l} : Working(m)' /\ cur'[m] = t =>
            Working(m) /\ cur[m] = t /\ pc'[m] = pc[m] /\ row'[m] = row[m]
    BY <1>a, <1>b DEF Working
  <2> QED
    BY <1>a, <1>b, <1>c, <1>d, <2>1, PaidKeeps
<1>1. CASE ClaimTask(l)
  BY <1>1, PaidClaim
<1>2. CASE SpawnExecution(l) \/ ProgressWrite(l) \/ CompleteWrite(l) \/ FailWrite(l)
  BY <1>2, PaidWork
<1>3. CASE (\E u \in Task : SelectTask(l, u)) \/ DiscardActive(l)
           \/ ListDependents(l) \/ DependentsDone(l) \/ ListTasks(l) \/ MissionRead(l)
           \/ MissionWrite(l) \/ PublishEnd(l)
  <2>1. \E label \in SettlePC \cup {"claim", "idle"} : Goto(l, label)
    BY <1>3 DEF SelectTask, DiscardActive, ListDependents, DependentsDone, ListTasks,
                MissionRead, ReadMission, MissionWrite, PublishEnd, SettlePC
  <2>2. UNCHANGED <<task, attempt>>
    BY <1>3 DEF SelectTask, DiscardActive, ListDependents, DependentsDone, ListTasks,
                MissionRead, MissionWrite, PublishEnd
  <2>3. ~Working(l)'
    BY <1>b, <2>1 DEF Working, WorkPC, SettlePC
  <2> QED
    BY <1>d, <2>2, <2>3
<1>4. CASE RegisterActive(l) \/ Prepare(l) \/ Dispatch(l) \/ TryFallback(l) \/ PlanStep(l)
  <2>1. Working(l) /\ UNCHANGED <<task, attempt, cur, row>>
    BY <1>4 DEF RegisterActive, Prepare, Dispatch, TryFallback, PlanStep, At, Working,
                WorkPC
  <2>2. /\ pc'[l] \notin CopyPC
        /\ pc'[l] \in UnspawnedPC => pc[l] \in UnspawnedPC
    BY <1>4, <1>b DEF RegisterActive, Prepare, Dispatch, TryFallback, PlanStep, At,
                      CopyPC, UnspawnedPC
  <2> QED
    BY <1>d, <2>1, <2>2
<1>5. CASE SpawnWorker(l) \/ WorkerStart(l) \/ WorkerComplete(l) \/ WorkerFail(l)
  <2>1. Working(l) /\ UNCHANGED <<task, cur, row>>
    BY <1>5 DEF SpawnWorker, WorkerStart, WorkerComplete, WorkerFail, WorkerUpdate,
                WorkerValidated, At, Working, WorkPC
  <2>2. pc'[l] \notin CopyPC \cup UnspawnedPC
    BY <1>5, <1>b DEF SpawnWorker, WorkerStart, WorkerComplete, WorkerFail,
                      WorkerUpdate, WorkerValidated, CopyPC, UnspawnedPC
  <2>3. UNCHANGED attempt \/ \E field, status : SetAttempt(cur[l], field, status)
    BY <1>5 DEF SpawnWorker, WorkerStart, WorkerComplete, WorkerFail, WorkerUpdate,
                WorkerValidated
  <2>4. Len(attempt'[t]) = Len(attempt[t])
    <3>1. ASSUME NEW field, NEW status, SetAttempt(cur[l], field, status)
          PROVE  Len(attempt'[t]) = Len(attempt[t])
      <4> DEFINE s == attempt[cur[l]]
                 u == [s EXCEPT ![Len(s)] = [s[Len(s)] EXCEPT ![field] = status]]
      <4>1. attempt' = [attempt EXCEPT ![cur[l]] = u]
            /\ attempt \in [Task -> Seq(AttemptRow)]
        BY <1>a, <3>1 DEF SetAttempt, TypeOK
      <4>2. s \in Seq(AttemptRow)
        BY <1>b, <2>1, <4>1 DEF Working, WorkPC
      <4>3. Len(u) = Len(s)
        BY <4>2
      <4> HIDE DEF u
      <4> QED
        BY <4>1, <4>3
    <3> QED
      BY <2>3, <3>1
  <2> QED
    BY <1>d, <2>1, <2>2, <2>4
<1>6. CASE ProgressRead(l) \/ CompleteRead(l) \/ FailRead(l)
  <2>1. /\ Working(l) /\ UNCHANGED <<task, attempt, cur>>
        /\ row' = [row EXCEPT ![l] = task[cur[l]]]
    BY <1>6 DEF ProgressRead, CompleteRead, FailRead, ReadTask, At, Working, WorkPC
  <2>2. pc'[l] \notin UnspawnedPC
    BY <1>6, <1>b DEF ProgressRead, CompleteRead, FailRead, ReadTask, UnspawnedPC
  <2>3. row'[l] = task[cur[l]]
    BY <1>a, <2>1 DEF TypeOK
  <2> QED
    BY <1>d, <2>1, <2>2, <2>3
<1>7. ASSUME NEW u \in Task, PromoteDependent(l, u) PROVE Paid(t)'
  <2>1. /\ pc[l] = "promote" /\ u \in todo[l] /\ UNCHANGED <<pc, attempt>>
    BY <1>7 DEF PromoteDependent, At
  <2>2. <<u, cur[l]>> \in DependsOn
    BY <2>1 DEF WorkInv, DependentsWait
  <2>3. u # t
    BY <2>2 DEF Independent
  <2>4. task'[t] = task[t]
    BY <1>7, <1>a, <2>3, BecomeStatus DEF PromoteDependent, TypeOK
  <2>5. ~Working(l)'
    BY <2>1 DEF Working, WorkPC
  <2> QED
    BY <1>d, <2>1, <2>4, <2>5
<1> QED
  BY <1>1, <1>2, <1>3, <1>4, <1>5, <1>6, <1>7 DEF LoopStep

(* The request thread creates a task without attempts, and its second pass *)
(* writes back the rows of the dependent tasks only.                       *)
LEMMA PaidSession ==
  ASSUME WorkInv, AttemptInv, TypeOK', SessionStep \/ AdmissionFails \/ WaitTimeout,
         NEW t \in Task, Independent(t)
  PROVE  Paid(t)'
<1> USE PaidTypes DEF rows, control
<1>a. /\ TypeOK /\ Paid(t) /\ Loop \subseteq Thread
      /\ "client" \in Thread /\ "session" \in Thread
      /\ "client" \notin Loop /\ "session" \notin Loop
  BY PaidTypes DEF WorkInv, AttemptInv
<1>b. /\ UNCHANGED attempt
      /\ \A label : Goto("session", label) => pc'["session"] = label
  BY <1>a, ThreadFacts
     DEF SessionStep, CreateMission, CreateTask, ScheduleCreated, ReadyCreated,
         FirstPassDone, SecondPassRead, SecondPassWrite, PlanRead,
         PlanWrite, StartRead, StartWrite, WaitRead, Subscribe, Recheck, Woken,
         Answer, AdmissionFails, WaitTimeout
<1>c. \A o \in Thread \ {"session"} :
        pc'[o] = pc[o] /\ cur'[o] = cur[o] /\ row'[o] = row[o]
  <2>1. UNCHANGED pc \/ \E label : pc' = [pc EXCEPT !["session"] = label]
    BY DEF SessionStep, CreateMission, CreateTask, ScheduleCreated, ReadyCreated,
         FirstPassDone, SecondPassRead, SecondPassWrite, PlanRead,
         PlanWrite, StartRead, StartWrite, ReadMission, WaitRead, Subscribe, Recheck,
         Woken, Answer, Report, AdmissionFails, WaitTimeout, Goto
  <2>2. UNCHANGED cur \/ \E u : cur' = [cur EXCEPT !["session"] = u]
    BY DEF SessionStep, CreateMission, CreateTask, ScheduleCreated, ReadyCreated,
         FirstPassDone, SecondPassRead, SecondPassWrite, PlanRead,
         PlanWrite, StartRead, StartWrite, WaitRead, Subscribe, Recheck,
         Woken, Answer, AdmissionFails, WaitTimeout
  <2>3. UNCHANGED row \/ \E r : row' = [row EXCEPT !["session"] = r]
    BY DEF SessionStep, CreateMission, CreateTask, ScheduleCreated, ReadyCreated,
         FirstPassDone, SecondPassRead, SecondPassWrite, PlanRead,
         PlanWrite, StartRead, StartWrite, WaitRead, Subscribe, Recheck,
         Woken, Answer, AdmissionFails, WaitTimeout
  <2> QED
    BY <1>a, <2>1, <2>2, <2>3 DEF TypeOK, PCOK
<1>d. /\ Retrying(t)' <=> Retrying(t)
      /\ \A m \in Loop : pc'[m] = pc[m] /\ cur'[m] = cur[m] /\ row'[m] = row[m]
      /\ cur'["client"] = cur["client"] /\ row'["client"] = row["client"]
  BY <1>a, <1>c DEF Retrying
<1>e. ASSUME task'[t] = task[t], Creating(t)' => Creating(t) PROVE Paid(t)'
  BY <1>a, <1>b, <1>d, <1>e, PaidKeeps DEF Working
<1>f. ASSUME NEW status \in {"created", "scheduled", "ready"}, Become(t, NoRow, status),
             ~WorkedOn(t), ~Retrying(t), Len(attempt[t]) = 0,
             cur["client"] = t => row["client"].retries = 0
      PROVE  Paid(t)'
  <2>1. task'[t].status = status /\ task'[t].retries = 0
    <3> DEFINE R == [NoRow EXCEPT !.status = status]
    <3>1. R.status = status /\ R.retries = 0
      BY DEF NoRow
    <3>2. task' = [task EXCEPT ![t] = R] /\ task \in [Task -> TaskRow]
      BY <1>a, <1>f DEF Become, TypeOK
    <3> HIDE DEF R
    <3> QED
      BY <3>1, <3>2
  <2>2. \A m \in Loop : ~(Working(m)' /\ cur'[m] = t)
    BY <1>d, <1>f DEF WorkedOn, Working
  <2>3. \A m \in Loop : pc'[m] \in CopyPC => cur'[m] # t
    BY <2>2 DEF CopyPC, Working, WorkPC
  <2>4. 0 < AttemptsAllowed
    BY <1>a DEF AttemptsAllowed
  <2>5. PaysFor(t, 0)'
    BY <1>b, <1>f, <2>2, <2>4 DEF PaysFor, Pays
  <2>6. PaysFor(t, task[t].retries)'
    BY <2>1, <2>5
  <2>7. cur'["client"] = t => PaysFor(t, row["client"].retries)'
    BY <1>d, <1>f, <2>5
  <2>8. Len(attempt'[t]) = 0 /\ ~Retrying(t)'
    BY <1>b, <1>d, <1>f
  <2> QED
    BY <1>a, <2>1, <2>3, <2>4, <2>6, <2>7, <2>8 DEF Paid
<1>1. ASSUME NEW u \in Task, CreateTask(u) PROVE Paid(t)'
  <2>1. /\ task[u].status = "none" /\ Become(u, NoRow, "created")
        /\ cur' = [cur EXCEPT !["session"] = u] /\ pc["session"] = "tasks"
    BY <1>1 DEF CreateTask, At
  <2>2. CASE t = u
    <3>1. ~WorkedOn(t) /\ ~Retrying(t)
      BY <2>1, <2>2 DEF WorkInv, RowAtWork, RowInRetry, WorkedOn, Busy
    <3>2. Len(attempt[t]) = 0 /\ cur["client"] # t
      BY <1>a, <2>1, <2>2 DEF Paid
    <3> QED
      BY <1>f, <2>1, <2>2, <3>1, <3>2
  <2>3. CASE t # u
    <3>1. task'[t] = task[t]
      BY <1>a, <2>1, <2>3 DEF Become, TypeOK
    <3>2. ~Creating(t)'
      <4>1. cur'["session"] = u
        BY <1>a, <2>1 DEF TypeOK, PCOK
      <4> QED
        BY <2>3, <4>1 DEF Creating
    <3> QED
      BY <1>e, <3>1, <3>2
  <2> QED
    BY <2>2, <2>3
<1>2. CASE ScheduleCreated \/ ReadyCreated
  <2>1. /\ pc["session"] \in {"schedule", "ready"} /\ UNCHANGED cur
        /\ \E status \in {"scheduled", "ready"} : Become(cur["session"], NoRow, status)
    BY <1>2 DEF ScheduleCreated, ReadyCreated, At
  <2>2. CASE t = cur["session"]
    <3>1. Creating(t)
      BY <2>1, <2>2 DEF Creating
    <3>2. ~WorkedOn(t) /\ ~Retrying(t)
      BY <3>1 DEF WorkInv, RowInCreation
    <3>3. Len(attempt[t]) = 0 /\ (cur["client"] = t => row["client"].retries = 0)
      BY <1>a, <3>1, <3>2 DEF Paid, PaysFor
    <3> QED
      BY <1>f, <2>1, <2>2, <3>2, <3>3
  <2>3. CASE t # cur["session"]
    <3>1. task'[t] = task[t]
      BY <1>a, <2>1, <2>3 DEF Become, TypeOK
    <3> QED
      BY <1>e, <2>1, <2>3, <3>1 DEF Creating
  <2> QED
    BY <2>2, <2>3
<1>3. CASE SecondPassWrite
  <2>1. /\ pc["session"] = "wait_for_dependency" /\ Goto("session", "error")
        /\ Become(cur["session"], row["session"], "waiting_for_dependency")
    BY <1>3 DEF SecondPassWrite, At
  <2>2. t # cur["session"]
    BY <2>1 DEF AttemptInv, SecondPassInv
  <2>3. task'[t] = task[t]
    BY <1>a, <2>1, <2>2 DEF Become, TypeOK
  <2> QED
    BY <1>b, <1>e, <2>1, <2>3 DEF Creating
<1>4. CASE \/ CreateMission \/ FirstPassDone \/ (\E u \in Task : SecondPassRead(u))
           \/ PlanRead \/ PlanWrite
           \/ StartRead \/ StartWrite \/ WaitRead \/ Subscribe \/ Recheck \/ Woken
           \/ Answer \/ AdmissionFails \/ WaitTimeout
  <2>1. UNCHANGED task
    BY <1>4 DEF CreateMission, FirstPassDone, SecondPassRead, PlanRead,
         PlanWrite, StartRead, StartWrite, WaitRead, Subscribe, Recheck, Woken,
         Answer, AdmissionFails, WaitTimeout
  <2>2. (UNCHANGED pc /\ UNCHANGED cur) \/ pc'["session"] \notin {"schedule", "ready"}
    BY <1>4, <1>b
       DEF CreateMission, FirstPassDone, SecondPassRead, PlanRead,
         PlanWrite, StartRead, StartWrite, ReadMission, WaitRead, Subscribe, Recheck,
         Woken, Answer, Report, AdmissionFails, WaitTimeout
  <2> QED
    BY <1>e, <2>1, <2>2 DEF Creating
<1> QED
  BY <1>1, <1>2, <1>3, <1>4 DEF SessionStep

(* A client reads a row that pays, or that it may retry, and writes it     *)
(* back with a status that starts nothing or, in retry(), with READY.      *)
LEMMA PaidClient ==
  ASSUME WorkInv, TypeOK', ClientCall \/ ClientStep, NEW t \in Task, Paid(t),
         Independent(t)
  PROVE  Paid(t)'
<1> USE PaidTypes DEF rows, control
<1>a. /\ TypeOK /\ Loop \subseteq Thread /\ Loop \subseteq Thread \ {"client"}
      /\ "client" \in Thread /\ "session" \in Thread \ {"client"}
      /\ DOMAIN row = Thread /\ DOMAIN cur = Thread
      /\ \A label : Goto("client", label) => pc'["client"] = label
  BY PaidTypes, ThreadFacts DEF WorkInv, TypeOK, PCOK
<1>b. /\ UNCHANGED attempt
      /\ \A o \in Thread \ {"client"} :
           pc'[o] = pc[o] /\ cur'[o] = cur[o] /\ row'[o] = row[o]
  <2>1. UNCHANGED attempt
    BY DEF ClientCall, ClientTaskRead, ClientMissionRead, ClientCreate, ClientStep,
           ClientTaskWrite, CreateDependency, ClientMissionWrite, ClientPublish
  <2>2. UNCHANGED pc \/ \E label : pc' = [pc EXCEPT !["client"] = label]
    BY DEF ClientCall, ClientTaskRead, ClientMissionRead, ClientCreate, ClientStep,
           ClientTaskWrite, CreateDependency, ClientMissionWrite, ClientPublish, Goto
  <2>3. UNCHANGED cur \/ \E u : cur' = [cur EXCEPT !["client"] = u]
    BY DEF ClientCall, ClientTaskRead, ClientMissionRead, ClientCreate, ClientStep,
           ClientTaskWrite, CreateDependency, ClientMissionWrite, ClientPublish
  <2>4. UNCHANGED row \/ \E r : row' = [row EXCEPT !["client"] = r]
    BY DEF ClientCall, ClientTaskRead, ClientMissionRead, ClientCreate, ClientStep,
           ClientTaskWrite, CreateDependency, ClientMissionWrite, ClientPublish
  <2> QED
    BY <1>a, <2>1, <2>2, <2>3, <2>4 DEF TypeOK, PCOK
<1>c. /\ Creating(t)' <=> Creating(t)
      /\ \A m \in Loop : pc'[m] = pc[m] /\ cur'[m] = cur[m] /\ row'[m] = row[m]
  BY <1>a, <1>b DEF Creating
<1>d. ASSUME task'[t] = task[t], ~(cur["client"] = t /\ pc["client"] \in {"retrying", "ready"}),
             cur'["client"] # t
      PROVE  Paid(t)'
  <2>1. ~Retrying(t)'
    BY <1>d DEF Retrying
  <2>2. \A r : PaysFor(t, r) => PaysFor(t, r)'
    BY <1>b, <1>c, <1>d DEF PaysFor, Pays, Working
  <2>3. PaysFor(t, task[t].retries)'
    BY <1>d, <2>2 DEF Paid
  <2> QED
    BY <1>b, <1>c, <1>d, <2>1, <2>3 DEF Paid, Pays
<1>1. ASSUME NEW to \in ClientTaskOp, NEW u \in Task, ClientTaskRead(to, u)
      PROVE  Paid(t)'
  <2>1. /\ pc["client"] = "idle" /\ ClientMay(to, task[u])
        /\ cur'["client"] = u /\ row'["client"] = task[u] /\ pc'["client"] = to
        /\ UNCHANGED task
    BY <1>1, <1>a DEF ClientTaskRead, At
  <2>2. CASE t # u
    BY <1>d, <2>1, <2>2
  <2>3. CASE t = u
    <3>1. task[t].status # "none" /\ to # "ready"
      BY <2>1, <2>3, ConstantsAssumption
         DEF ClientMay, validate_task_transition, TaskSuccessors
    <3>2. \A r : PaysFor(t, r) => PaysFor(t, r)'
      BY <1>b, <1>c, <2>1 DEF PaysFor, Pays, Working
    <3>3. PaysFor(t, task[t].retries)'
      BY <2>1, <3>2 DEF Paid
    <3>4. PaysFor(t, row["client"].retries)'
      BY <2>1, <2>3, <3>3
    <3>5. Retrying(t)' => /\ Len(attempt'[t]) <= row'["client"].retries
                          /\ row'["client"].retries < MaxRetries
      <4>1. ASSUME to = "retrying"
            PROVE  task[t].status = "failed" /\ task[t].retries < MaxRetries
        BY <2>1, <2>3, <4>1 DEF ClientMay, validate_task_transition, TaskSuccessors
      <4> QED
        BY <1>b, <2>1, <2>3, <3>1, <4>1 DEF Retrying, Paid
    <3> QED
      BY <1>b, <1>c, <2>1, <3>1, <3>3, <3>4, <3>5 DEF Paid, Pays
  <2> QED
    BY <2>2, <2>3
<1>2. CASE \/ \E to \in ClientMissionOp : ClientMissionRead(to)
           \/ ClientMissionWrite \/ ClientPublish
  <2>1. UNCHANGED <<task, cur, row>>
    BY <1>2 DEF ClientMissionRead, ClientMissionWrite, ClientPublish
  <2>2. pc["client"] \notin {"retrying", "ready"}
        /\ pc'["client"] \notin {"retrying", "ready"}
    BY <1>2, <1>a, ConstantsAssumption
       DEF ClientMissionRead, ClientMissionWrite, ClientPublish, At
  <2>3. ~Retrying(t) /\ ~Retrying(t)'
    BY <2>2 DEF Retrying
  <2> QED
    BY <1>a, <1>b, <1>c, <2>1, <2>3, PaidKeeps DEF Working
<1>3. CASE ClientTaskWrite
  <2> DEFINE u == cur["client"]
             to == pc["client"]
             copy == row["client"]
  <2>1. /\ Become(u, copy, to) /\ u \in Task /\ copy \in TaskRow
        /\ to \in ClientTaskOp \cup {"ready"}
    BY <1>3, <1>a DEF ClientTaskWrite, TypeOK, PCOK
  <2>2. \/ to = "retrying" /\ UNCHANGED <<cur, row>> /\ pc'["client"] = "ready"
        \/ to # "retrying" /\ cur' = [cur EXCEPT !["client"] = NoTask]
    BY <1>3, <1>a DEF ClientTaskWrite
  <2>3. CASE t # u
    <3>1. task'[t] = task[t]
      BY <1>a, <2>1, <2>3, BecomeStatus
    <3>2. cur'["client"] # t
      BY <1>a, <2>2, <2>3, ConstantsAssumption
    <3> QED
      BY <1>d, <2>3, <3>1, <3>2
  <2>4. CASE t = u
    <3>1. task'[t].status = to /\ task'[t].retries = copy.retries
      <4> DEFINE R == [copy EXCEPT !.status = to]
      <4>1. R.status = to /\ R.retries = copy.retries
        BY <2>1 DEF TaskRow
      <4>2. task' = [task EXCEPT ![t] = R] /\ task \in [Task -> TaskRow]
        BY <1>a, <2>1, <2>4 DEF Become, TypeOK
      <4> HIDE DEF R, copy, to
      <4> QED
        BY <4>1, <4>2
    <3>2. CASE to = "retrying"
      <4>1. Retrying(t) /\ Retrying(t)' /\ UNCHANGED <<cur, row>>
        BY <2>2, <2>4, <3>2 DEF Retrying
      <4>2. ~WorkedOn(t) /\ ~Creating(t)
        BY <4>1 DEF WorkInv, RowInRetry, RowInCreation
      <4>3. \A m \in Loop : ~(Working(m)' /\ cur'[m] = t)
        BY <1>c, <4>2 DEF WorkedOn, Working
      <4>4. \A m \in Loop : pc'[m] \in CopyPC => cur'[m] # t
        BY <4>3 DEF CopyPC, Working, WorkPC
      <4>5. \A r : PaysFor(t, r)'
        BY <1>c, <3>1, <3>2, <4>2, <4>3 DEF PaysFor
      <4> QED
        BY <1>b, <1>c, <3>1, <3>2, <4>1, <4>2, <4>4, <4>5 DEF Paid
    <3>3. CASE to = "ready"
      <4>1. Retrying(t)
        BY <2>4, <3>3 DEF Retrying
      <4>2. ~WorkedOn(t) /\ ~Creating(t)
        BY <4>1 DEF WorkInv, RowInRetry, RowInCreation
      <4>3. \A m \in Loop : ~(Working(m)' /\ cur'[m] = t)
        BY <1>c, <4>2 DEF WorkedOn, Working
      <4>4. \A m \in Loop : pc'[m] \in CopyPC => cur'[m] # t
        BY <4>3 DEF CopyPC, Working, WorkPC
      <4>5. cur'["client"] # t
        BY <1>a, <2>2, <3>3, ConstantsAssumption
      <4>6. Len(attempt'[t]) <= task'[t].retries /\ task'[t].retries < AttemptsAllowed
        BY <1>a, <1>b, <3>1, <4>1 DEF Paid
      <4>7. PaysFor(t, task[t].retries)'
        <5>1. Len(attempt'[t]) <= task'[t].retries + 0
          <6>1. task'[t].retries \in Nat /\ Len(attempt'[t]) \in Nat
            BY <1>a, <1>b, <2>1, <3>1, PaidTypes, ConstantsAssumption DEF TaskRow
          <6> HIDE DEF copy, to
          <6> QED
            BY <4>6, <6>1
        <5> QED
          BY <1>c, <4>2, <4>3, <4>6, <5>1 DEF PaysFor, Pays
      <4> QED
        BY <1>b, <1>c, <3>1, <3>3, <4>2, <4>4, <4>5, <4>7
           DEF Paid, Retrying
    <3>4. CASE to \notin {"retrying", "ready"}
      <4>1. ~Retrying(t) /\ PaysFor(t, copy.retries)
        BY <2>4, <3>4 DEF Retrying, Paid
      <4>2. cur'["client"] # t
        BY <1>a, <2>2, <3>4, ConstantsAssumption
      <4>3. to \in {"scheduled", "running", "paused", "cancelled"}
        BY <2>1, <3>4, ConstantsAssumption
      <4>4. PaysFor(t, copy.retries) => PaysFor(t, task[t].retries)'
        BY <1>b, <1>c, <3>1, <4>3 DEF PaysFor, Pays, Working
      <4> QED
        BY <1>b, <1>c, <3>1, <4>1, <4>2, <4>3, <4>4 DEF Paid, Retrying, Pays
    <3> QED
      BY <3>2, <3>3, <3>4
  <2> QED
    BY <2>3, <2>4
<1>4. ASSUME NEW u \in Task, ClientCreate(u) PROVE Paid(t)'
  <2>1. /\ u # t
        /\ pc["client"] = "idle" /\ cur'["client"] = u
        /\ Become(u, NoRow, "waiting_for_dependency")
    BY <1>4, <1>a, ConstantsAssumption DEF ClientCreate, At, Independent
  <2>2. task'[t] = task[t]
    BY <1>a, <2>1, BecomeStatus, NoRowType DEF TypeOK
  <2> QED
    BY <1>d, <2>1, <2>2
<1>5. ASSUME NEW e \in DependsOn, CreateDependency(e) PROVE Paid(t)'
  <2>1. /\ pc["client"] = "create_dependency" /\ cur["client"] = e[1]
        /\ UNCHANGED task
        /\ UNCHANGED cur \/ cur'["client"] = NoTask
    BY <1>5, <1>a DEF CreateDependency, At
  <2>2. t # cur["client"] /\ t # NoTask
    BY <2>1, ConstantsAssumption DEF Independent
  <2> QED
    BY <1>d, <2>1, <2>2
<1> QED
  BY <1>1, <1>2, <1>3, <1>4, <1>5 DEF ClientCall, ClientStep

(* The second pass visits dependent tasks only. *)
LEMMA SecondPassStep ==
  ASSUME TypeOK, SecondPassInv, [Next]_vars
  PROVE  SecondPassInv'
<1> USE DEF rows, control, vars
<1>a. "session" \in Thread /\ "session" \notin Loop
  BY ThreadFacts
<1>1. CASE UNCHANGED <<pc, cur, todo>>
  BY <1>1 DEF SecondPassInv, Independent
<1>2. CASE \E l \in Loop : LoopStep(l)
  <2>1. PICK l \in Loop : LoopStep(l)
    BY <1>2
  <2>2. UNCHANGED todo \/ \E x : todo' = [todo EXCEPT ![l] = x]
    BY <2>1
       DEF LoopStep, SelectTask, ClaimTask, RegisterActive, Prepare, SpawnExecution,
         SpawnWorker, WorkerStart, WorkerUpdate, WorkerValidated, Dispatch,
         WorkerComplete, WorkerFail, TryFallback, PlanStep, ProgressRead,
         ProgressWrite, CompleteRead, CompleteWrite, ListDependents,
         PromoteDependent, DependentsDone, FailRead, FailWrite, ListTasks,
         MissionRead, MissionWrite, PublishEnd, DiscardActive
  <2>3. todo'["session"] = todo["session"]
    BY <1>a, <2>2 DEF TypeOK
  <2>4. pc'["session"] = pc["session"] /\ cur'["session"] = cur["session"]
    BY <1>a, <2>1, LoopFrame
  <2> QED
    BY <2>3, <2>4 DEF SecondPassInv, Independent
<1>3. CASE ClientCall \/ ClientStep
  <2>1. /\ UNCHANGED todo
        /\ UNCHANGED pc \/ \E label : pc' = [pc EXCEPT !["client"] = label]
        /\ UNCHANGED cur \/ \E u : cur' = [cur EXCEPT !["client"] = u]
    BY <1>3 DEF ClientCall, ClientTaskRead, ClientMissionRead, ClientCreate,
       ClientStep, ClientTaskWrite, CreateDependency, ClientMissionWrite,
       ClientPublish, Goto
  <2>2. pc'["session"] = pc["session"] /\ cur'["session"] = cur["session"]
    BY <1>a, <2>1 DEF TypeOK, PCOK
  <2> QED
    BY <2>1, <2>2 DEF SecondPassInv, Independent
<1>4. CASE SessionStep \/ AdmissionFails \/ WaitTimeout
  <2>a. /\ \A label : Goto("session", label) => pc'["session"] = label
        /\ todo \in [Thread -> SUBSET Task] /\ cur \in [Thread -> Task \cup {NoTask}]
    BY ThreadFacts DEF TypeOK, PCOK
  <2>1. CASE FirstPassDone
    BY <1>a, <2>1, <2>a DEF FirstPassDone, SecondPassInv, Independent
  <2>2. ASSUME NEW u \in Task, SecondPassRead(u) PROVE SecondPassInv'
    BY <1>a, <2>2, <2>a DEF SecondPassRead, SecondPassInv, Independent
  <2>3. CASE ~FirstPassDone /\ ~(\E u \in Task : SecondPassRead(u))
    <3>1. UNCHANGED todo
      BY <1>4, <2>3
         DEF SessionStep, CreateMission, CreateTask, ScheduleCreated, ReadyCreated,
             SecondPassWrite, PlanRead, PlanWrite, StartRead, StartWrite, WaitRead,
             Subscribe, Recheck, Woken, Answer, AdmissionFails, WaitTimeout
    <3>2. pc'["session"] # "wait_for_dependency"
      BY <1>4, <2>3, <2>a
         DEF SessionStep, CreateMission, CreateTask, ScheduleCreated, ReadyCreated,
             SecondPassWrite, PlanRead, PlanWrite, StartRead, StartWrite, ReadMission,
             WaitRead, Subscribe, Recheck, Woken, Answer, Report, AdmissionFails,
             WaitTimeout
    <3> QED
      BY <3>1, <3>2 DEF SecondPassInv
  <2> QED
    BY <2>1, <2>2, <2>3
<1> QED
  BY <1>1, <1>2, <1>3, <1>4 DEF Next

(* A task without dependencies is executed at most max_retries times, or   *)
(* once, for any number of loops and calls of a client and whatever rows   *)
(* are written back meanwhile.                                             *)
THEOREM AttemptsAreBounded == Spec => []AttemptsBounded
<1>1. Init => AttemptInv
  <2> SUFFICES ASSUME Init PROVE AttemptInv
    OBVIOUS
  <2>1. /\ todo["session"] = {} /\ pc["session"] = "create" /\ pc["client"] = "idle"
        /\ cur["client"] = NoTask
        /\ \A l \in Loop : pc[l] = "idle"
    BY ConstantsAssumption DEF Init, Thread
  <2>2. \A t \in Task : /\ task[t].status = "none" /\ task[t].retries = 0
                        /\ attempt[t] = <<>> /\ t # NoTask
    BY ConstantsAssumption DEF Init, NoRow
  <2>3. AttemptsAllowed \in Nat
    BY ConstantsAssumption DEF AttemptsAllowed
  <2>4. ASSUME NEW t \in Task PROVE Paid(t)
    <3>1. /\ ~Creating(t) /\ ~Retrying(t) /\ cur["client"] # t
          /\ \A l \in Loop : ~Working(l) /\ pc[l] \notin CopyPC
      BY <2>1, <2>2 DEF Creating, Retrying, Working, WorkPC, CopyPC
    <3>2. Len(attempt[t]) = 0
      BY <2>2
    <3> QED
      BY <2>2, <2>3, <3>1, <3>2 DEF Paid, PaysFor
  <2> QED
    BY <2>1, <2>4 DEF AttemptInv, SecondPassInv
<1>2. WorkInv /\ AttemptInv /\ [Next]_vars => AttemptInv'
  <2> SUFFICES ASSUME WorkInv, AttemptInv, [Next]_vars PROVE AttemptInv'
    OBVIOUS
  <2>1. TypeOK /\ TypeOK'
    BY TypeNext DEF WorkInv
  <2>2. SecondPassInv'
    BY <2>1, SecondPassStep DEF AttemptInv
  <2>3. ASSUME NEW t \in Task, Independent(t) PROVE Paid(t)'
    <3>1. Paid(t)
      BY <2>3 DEF AttemptInv
    <3>2. CASE UNCHANGED vars
      BY <2>1, <3>1, <3>2, PaidKeeps
         DEF vars, rows, control, Creating, Retrying, Working
    <3> QED
      BY <2>1, <2>3, <3>1, <3>2, PaidLoop, PaidSession, PaidClient DEF Next
  <2> QED
    BY <2>2, <2>3 DEF AttemptInv, Independent
<1>3. AttemptInv => AttemptsBounded
  BY DEF AttemptInv, Paid, AttemptsBounded
<1> QED
  BY <1>1, <1>2, <1>3, WorkInit, WorkNext, PTL DEF Spec
=============================================================================
