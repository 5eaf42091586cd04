-------------------------- MODULE CrashRecoveryProofs --------------------------
(***************************************************************************)
(* Crashes, startup recovery and checkpoints, for every number of goals,   *)
(* loops, crashes and checkpoints.                                         *)
(*                                                                         *)
(* While the server is up a step is one of MissionExecution, so that the   *)
(* lemmas on WorkInv and on the life of a task are used as they are.       *)
(* What is new is that recovery runs Alone: it finds no thread with a copy *)
(* of a row, and may therefore write rows as it does.  The last part       *)
(* follows the dependency rows of create() through crashes: the task that  *)
(* has one waits, and nobody but a client that cancels it writes its row.  *)
(***************************************************************************)
EXTENDS CrashRecovery, TaskLifeProofs, FiniteSetTheorems, WellFoundedInduction

-----------------------------------------------------------------------------
(* A set of positions in a list has a greatest one. *)
LEMMA HasGreatest ==
  ASSUME NEW n \in Nat, NEW S \in SUBSET (1 .. n), S # {}
  PROVE  \E i \in S : \A j \in S : j <= i
<1> DEFINE T == {n - i : i \in S}
           R == OpToRel(<, Nat)
<1>0. \A i \in S : i \in Nat /\ n - i \in Nat
  OBVIOUS
<1>1. T \subseteq Nat /\ T # {}
  BY <1>0
<1>2. IsWellFoundedOn(R, Nat)
  BY NatLessThanWellFounded
<1>3. \E x \in T : \A y \in T : ~(<<y, x>> \in R)
  <2> HIDE DEF T, R
  <2> QED
    BY <1>1, <1>2, WFMin
<1>4. \E x \in T : \A y \in T : ~(y < x)
  <2>1. \A x, y \in Nat : <<y, x>> \in R <=> y < x
    BY DEF OpToRel
  <2> HIDE DEF T, R
  <2> QED
    BY <1>1, <1>3, <2>1
<1>5. PICK i \in S : \A j \in S : ~(n - j < n - i)
  BY <1>4
<1>6. \A j \in S : j <= i
  BY <1>0, <1>5
<1> QED
  BY <1>6

-----------------------------------------------------------------------------
(***************************************************************************)
(* The invariant.                                                          *)
(***************************************************************************)
RestorePC == {"restore", "restored", "ready"}

RecoveryPC == {"off", "detect", "tasks"} \cup RestorePC

(* Recovery runs alone: the crash has left no thread with a statement to   *)
(* go on with, and the executor is not started yet.                        *)
Alone ==
  recovery # "off" => /\ \A l \in Loop : pc[l] = "idle"
                      /\ pc["session"] = "error"
                      /\ pc["client"] = "idle"
                      /\ creating = NoTask

MadeCheckpoint == [version : Nat \ {0}, status : CheckpointStatus]

(* A version never exceeds the number of checkpoints made so far. *)
CheckpointsOK ==
  /\ checkpoint \in [Task -> Seq(MadeCheckpoint)]
  /\ \A t \in Task :
       /\ Len(checkpoint[t]) <= MaxCheckpoints
       /\ \A i \in 1 .. Len(checkpoint[t]) : checkpoint[t][i].version <= i

RestoreStatus ==
  CASE recovery = "restore"  -> "available"
    [] recovery = "restored" -> "restoring"
    [] OTHER                 -> "restored"

(* The checkpoint that recovery is restoring, of a RECOVERING task. *)
RestoringOK ==
  IF recovery \in RestorePC
    THEN \E t \in Task : \E i \in 1 .. Len(checkpoint[t]) :
           /\ restoring = <<t, i>>
           /\ checkpoint[t][i].status = RestoreStatus
           /\ task[t].status = "recovering"
    ELSE restoring = <<>>

(* The checkpoint that is being made is the last one of its task, and has  *)
(* a version above those that are AVAILABLE.                               *)
CreatingOK ==
  creating # NoTask =>
    LET n == Len(checkpoint[creating])
    IN  /\ n > 0
        /\ checkpoint[creating][n].status \in {"creating", "valid"}
        /\ \A i \in Available(creating) :
             checkpoint[creating][i].version < checkpoint[creating][n].version

RecoveryInv ==
  /\ WorkInv
  /\ Alone
  /\ recovery \in RecoveryPC
  /\ unrecovered \subseteq Task
  /\ creating \in Task \cup {NoTask}
  /\ crashes \in 0 .. MaxCrashes
  /\ CheckpointsOK
  /\ RestoringOK
  /\ CreatingOK
  /\ NewestIsLatest

LEMMA RecoveryInvInit == RecoveryInit => RecoveryInv
<1> SUFFICES ASSUME RecoveryInit PROVE RecoveryInv
  OBVIOUS
<1>1. WorkInv
  BY WorkInit DEF RecoveryInit
<1>2. CheckpointsOK
  BY RecoveryAssumption DEF RecoveryInit, CheckpointsOK
<1> QED
  BY <1>1, <1>2, RecoveryAssumption
     DEF RecoveryInit, RecoveryInv, Alone, RestoringOK, CreatingOK, NewestIsLatest,
         Available, RecoveryPC, RestorePC

-----------------------------------------------------------------------------
(***************************************************************************)
(* What a step of recovery does to the rows: nothing, or it takes the row  *)
(* of one task, which nobody else is about to write, one status further.   *)
(***************************************************************************)
Recovered(t) ==
  /\ recovery # "off"
  /\ task' \in [Task -> TaskRow]
  /\ \A u \in Task \ {t} : task'[u] = task[u]
  /\ \/ /\ task[t].status = "failed" /\ task'[t].status = "retrying"
        /\ task'[t].retries = task[t].retries
     \/ /\ task[t].status = "running" /\ task'[t].status = "retrying"
        /\ task'[t].retries = task[t].retries + 1
     \/ /\ task[t].status = "running" /\ task'[t].status = "failed"
        /\ task'[t].retries = task[t].retries
     \/ /\ task[t].status = "running" /\ task'[t].status = "recovering"
        /\ task'[t].retries = task[t].retries
        /\ Available(t) # {}
     \/ /\ task[t].status = "recovering" /\ task'[t].status = "ready"
        /\ task'[t].retries = task[t].retries
        /\ recovery = "ready" /\ restoring[1] = t
     \/ /\ task[t].status = "waiting_for_dependency" /\ task'[t].status = "ready"
        /\ task'[t].retries = task[t].retries
        /\ are_all_dependencies_satisfied(t)

(* A row is written from the row that was read. *)
LEMMA WrittenRow ==
  ASSUME TypeOK, NEW t \in Task, NEW r \in TaskRow, NEW status \in TaskStatus,
         Become(t, r, status)
  PROVE  /\ task' \in [Task -> TaskRow]
         /\ task'[t].status = status /\ task'[t].retries = r.retries
         /\ \A u \in Task \ {t} : task'[u] = task[u]
<1>1. /\ task'[t] = [r EXCEPT !.status = status]
      /\ \A u \in Task \ {t} : task'[u] = task[u]
  BY BecomeRow
<1>2. task' \in [Task -> TaskRow]
  BY BecomeType DEF TypeOK
<1> QED
  BY <1>1, <1>2 DEF TaskRow

LEMMA RecoveryWrites ==
  ASSUME RecoveryInv, RecoveryStep
  PROVE  /\ recovery # "off"
         /\ UNCHANGED <<mission, dep, attempt, active, control, waiter, calls, creating,
                        crashes>>
         /\ UNCHANGED task \/ \E t \in Task : Recovered(t)
<1> USE DEF vars, rows
<1>a. /\ TypeOK
      /\ \A t \in Task : task[t] \in TaskRow
  BY DEF RecoveryInv, WorkInv, TypeOK
<1>1. CASE DetectCrashedWorkers \/ Restore \/ StartExecutor \/ \E t \in Task : LeaveTask(t)
  BY <1>1 DEF DetectCrashedWorkers, Restore, StartExecutor, LeaveTask
<1>2. ASSUME NEW t \in Task, RecoverFailed(t)
      PROVE  Recovered(t)
  <2>1. /\ recovery = "tasks" /\ task[t].status = "failed"
        /\ Become(t, task[t], "retrying")
    BY <1>2 DEF RecoverFailed, RecoverTo
  <2> QED
    BY <1>a, <2>1, WrittenRow DEF Recovered, TaskStatus
<1>3. ASSUME NEW t \in Task, RecoverRunning(t)
      PROVE  Recovered(t)
  <2>1. recovery = "tasks" /\ task[t].status = "running"
    BY <1>3 DEF RecoverRunning, RecoverTo
  <2>2. CASE task[t].retries < MaxRetries
    <3> DEFINE r == [task[t] EXCEPT !.retries = @ + 1]
    <3>1. r \in TaskRow /\ r.retries = task[t].retries + 1
      BY <1>a, <2>2, ConstantsAssumption DEF TaskRow
    <3>2. Become(t, r, "retrying")
      BY <1>3, <2>2 DEF RecoverRunning, RecoverTo
    <3> HIDE DEF r
    <3> QED
      BY <1>a, <2>1, <3>1, <3>2, WrittenRow DEF Recovered, TaskStatus
  <2>3. CASE ~(task[t].retries < MaxRetries)
    <3>1. Become(t, task[t], "failed")
      BY <1>3, <2>3 DEF RecoverRunning, RecoverTo
    <3> QED
      BY <1>a, <2>1, <3>1, WrittenRow DEF Recovered, TaskStatus
  <2> QED
    BY <2>2, <2>3
<1>4. ASSUME NEW t \in Task, RestartFromCheckpoint(t)
      PROVE  Recovered(t)
  <2>1. /\ recovery = "tasks" /\ task[t].status = "running" /\ Available(t) # {}
        /\ Become(t, task[t], "recovering")
    BY <1>4 DEF RestartFromCheckpoint
  <2> QED
    BY <1>a, <2>1, WrittenRow DEF Recovered, TaskStatus
<1>5. CASE RestoredReady
  <2>1. /\ recovery = "ready"
        /\ Become(restoring[1], task[restoring[1]], "ready")
    BY <1>5 DEF RestoredReady
  <2>2. restoring[1] \in Task /\ task[restoring[1]].status = "recovering"
    BY <2>1 DEF RecoveryInv, RestoringOK, RestorePC
  <2>3. Recovered(restoring[1])
    BY <1>a, <2>1, <2>2, WrittenRow DEF Recovered, TaskStatus
  <2> QED
    BY <1>5, <2>1, <2>2, <2>3 DEF RestoredReady
<1>6. ASSUME NEW t \in Task, RecoverWaiting(t)
      PROVE  Recovered(t)
  <2>1. /\ recovery = "tasks" /\ task[t].status = "waiting_for_dependency"
        /\ are_all_dependencies_satisfied(t)
        /\ Become(t, task[t], "ready")
    BY <1>6 DEF RecoverWaiting, RecoverTo
  <2> QED
    BY <1>a, <2>1, WrittenRow DEF Recovered, TaskStatus
<1>7. ASSUME NEW t \in Task,
             RecoverFailed(t) \/ RecoverRunning(t) \/ RestartFromCheckpoint(t)
               \/ RecoverWaiting(t)
      PROVE  /\ recovery # "off"
             /\ UNCHANGED <<mission, dep, attempt, active, control, waiter, calls, creating,
                            crashes>>
  BY <1>7 DEF RecoverFailed, RecoverRunning, RestartFromCheckpoint, RecoverWaiting,
              RecoverTo
<1> QED
  BY <1>1, <1>2, <1>3, <1>4, <1>5, <1>6, <1>7 DEF RecoveryStep, RestoredReady

-----------------------------------------------------------------------------
(***************************************************************************)
(* WorkInv, with crashes and recovery.                                     *)
(***************************************************************************)
LEMMA CrashWork == RecoveryInv /\ Crash => WorkInv'
<1> SUFFICES ASSUME RecoveryInv, Crash PROVE WorkInv'
  OBVIOUS
<1> USE ConstantsAssumption DEF Crash, rows
<1>a. /\ \A l \in Loop : pc'[l] = "idle" /\ cur'[l] = NoTask
      /\ pc'["session"] = "error" /\ pc'["client"] = "idle"
  BY DEF Thread
<1>1. PCOK'
  <2>1. pc' \in [Thread -> LoopPC \cup SessionPC \cup ClientPC]
    BY DEF LoopPC, SessionPC, ClientPC
  <2>2. step' \in [Loop -> 0 .. Steps]
    OBVIOUS
  <2>3. cur' \in [Thread -> Task \cup {NoTask}]
    OBVIOUS
  <2> QED
    BY <1>a, <2>1, <2>2, <2>3 DEF PCOK, LoopPC, SessionPC, ClientPC, PlanPC
<1>2. TypeOK'
  <2>1. row' \in [Thread -> TaskRow]
    BY NoRowType
  <2>2. todo' \in [Thread -> SUBSET Task]
    OBVIOUS
  <2> QED
    BY <1>1, <2>1, <2>2 DEF RecoveryInv, WorkInv, TypeOK
<1>3. NothingIsSatisfied'
  BY DEF RecoveryInv, WorkInv, NothingIsSatisfied
<1> HIDE DEF Crash
<1>4. WorkInv'
  BY <1>a, <1>2, <1>3
     DEF WorkInv, DependentsWait, ExclusiveWork, RowAtWork, RowInCreation, RowInRetry,
         Working, WorkPC, Creating, Retrying
<1> QED
  BY <1>4

LEMMA RecoveryWork == RecoveryInv /\ RecoveryStep => WorkInv'
<1> SUFFICES ASSUME RecoveryInv, RecoveryStep PROVE WorkInv'
  OBVIOUS
<1>1. /\ recovery # "off"
      /\ UNCHANGED <<mission, dep, attempt, active, control, waiter, calls>>
      /\ UNCHANGED task \/ \E t \in Task : Recovered(t)
  BY RecoveryWrites
<1>2. task' \in [Task -> TaskRow]
  <2>1. task \in [Task -> TaskRow]
    BY DEF RecoveryInv, WorkInv, TypeOK
  <2>2. CASE UNCHANGED task
    BY <2>1, <2>2
  <2>3. ASSUME NEW t \in Task, Recovered(t) PROVE task' \in [Task -> TaskRow]
    BY <2>3 DEF Recovered
  <2> QED
    BY <1>1, <2>2, <2>3
<1>3. TypeOK'
  <2>1. PCOK'
    BY <1>1, StayPC DEF control, RecoveryInv, WorkInv, TypeOK
  <2> QED
    BY <1>1, <1>2, <2>1 DEF control, waiter, RecoveryInv, WorkInv, TypeOK
<1>4. NothingIsSatisfied'
  BY <1>1 DEF RecoveryInv, WorkInv, NothingIsSatisfied
<1>5. /\ \A l \in Loop : pc'[l] = "idle"
      /\ pc'["session"] = "error" /\ pc'["client"] = "idle"
  BY <1>1 DEF control, RecoveryInv, Alone
<1> QED
  BY <1>3, <1>4, <1>5
     DEF WorkInv, DependentsWait, ExclusiveWork, RowAtWork, RowInCreation, RowInRetry,
         Working, WorkPC, Creating, Retrying

-----------------------------------------------------------------------------
(***************************************************************************)
(* The lists of checkpoints.                                               *)
(***************************************************************************)
(* The checkpoints S of t get status s; nothing else changes. *)
Relabels(t, S, s) ==
  /\ checkpoint' \in [Task -> Seq(MadeCheckpoint)]
  /\ \A u \in Task \ {t} : checkpoint'[u] = checkpoint[u]
  /\ Len(checkpoint'[t]) = Len(checkpoint[t])
  /\ \A i \in 1 .. Len(checkpoint[t]) :
       /\ checkpoint'[t][i].version = checkpoint[t][i].version
       /\ checkpoint'[t][i].status = IF i \in S THEN s ELSE checkpoint[t][i].status

LEMMA ListFacts ==
  ASSUME CheckpointsOK, NEW t \in Task
  PROVE  /\ checkpoint[t] \in Seq(MadeCheckpoint)
         /\ Len(checkpoint[t]) \in Nat
         /\ \A i \in 1 .. Len(checkpoint[t]) :
              /\ checkpoint[t][i] \in MadeCheckpoint
              /\ checkpoint[t][i].version \in Nat \ {0}
              /\ checkpoint[t][i].status \in CheckpointStatus
<1>1. checkpoint[t] \in Seq(MadeCheckpoint)
  BY DEF CheckpointsOK
<1>2. Len(checkpoint[t]) \in Nat /\ \A i \in 1 .. Len(checkpoint[t]) : checkpoint[t][i] \in MadeCheckpoint
  BY <1>1
<1> QED
  BY <1>1, <1>2 DEF MadeCheckpoint

LEMMA SetRelabels ==
  ASSUME CheckpointsOK, NEW t \in Task, NEW i \in 1 .. Len(checkpoint[t]),
         NEW s \in CheckpointStatus, SetCheckpoint(t, i, s)
  PROVE  Relabels(t, {i}, s)
<1> DEFINE C == checkpoint[t]
           r == [C[i] EXCEPT !.status = s]
           new == [C EXCEPT ![i] = r]
<1>1. checkpoint' = [checkpoint EXCEPT ![t] = new]
  BY DEF SetCheckpoint
<1>2. C \in Seq(MadeCheckpoint) /\ C[i] \in MadeCheckpoint
  BY ListFacts
<1>3. r \in MadeCheckpoint /\ r.version = C[i].version /\ r.status = s
  BY <1>2 DEF MadeCheckpoint
<1>4. /\ new \in Seq(MadeCheckpoint) /\ Len(new) = Len(C)
      /\ \A j \in 1 .. Len(C) : new[j] = IF j = i THEN r ELSE C[j]
  <2> HIDE DEF C, r
  <2>1. new \in Seq(MadeCheckpoint)
    BY <1>2, <1>3, ExceptSeq
  <2> QED
    BY <1>2, <2>1
<1>5. /\ checkpoint' \in [Task -> Seq(MadeCheckpoint)]
      /\ checkpoint'[t] = new
      /\ \A u \in Task \ {t} : checkpoint'[u] = checkpoint[u]
  <2>1. checkpoint \in [Task -> Seq(MadeCheckpoint)]
    BY DEF CheckpointsOK
  <2> HIDE DEF new
  <2> QED
    BY <1>1, <1>4, <2>1
<1>6. \A j \in 1 .. Len(C) :
        /\ new[j].version = C[j].version
        /\ new[j].status = IF j \in {i} THEN s ELSE C[j].status
  <2> HIDE DEF new, r
  <2> QED
    BY <1>3, <1>4
<1> HIDE DEF new
<1> QED
  BY <1>4, <1>5, <1>6 DEF Relabels

LEMMA InvalidateRelabels ==
  ASSUME CheckpointsOK, NEW t \in Task, NEW v, invalidate_old_checkpoints(t, v)
  PROVE  Relabels(t, {i \in Available(t) : checkpoint[t][i].version < v}, "invalidated")
<1> DEFINE C == checkpoint[t]
           old == {i \in Available(t) : C[i].version < v}
           new == [i \in 1 .. Len(C) |->
                     IF i \in old THEN [C[i] EXCEPT !.status = "invalidated"] ELSE C[i]]
<1>1. checkpoint' = [checkpoint EXCEPT ![t] = new]
  BY DEF invalidate_old_checkpoints
<1>2. /\ C \in Seq(MadeCheckpoint) /\ Len(C) \in Nat
      /\ \A i \in 1 .. Len(C) : C[i] \in MadeCheckpoint
  BY ListFacts
<1>3. \A i \in 1 .. Len(C) :
        LET r == [C[i] EXCEPT !.status = "invalidated"]
        IN  r \in MadeCheckpoint /\ r.version = C[i].version /\ r.status = "invalidated"
  BY <1>2 DEF MadeCheckpoint, CheckpointStatus
<1>4. /\ new \in Seq(MadeCheckpoint) /\ Len(new) = Len(C)
      /\ \A i \in 1 .. Len(C) :
           /\ new[i].version = C[i].version
           /\ new[i].status = IF i \in old THEN "invalidated" ELSE C[i].status
  <2>1. \A i \in 1 .. Len(C) :
           /\ new[i] \in MadeCheckpoint
           /\ new[i].version = C[i].version
           /\ new[i].status = IF i \in old THEN "invalidated" ELSE C[i].status
    <3> HIDE DEF old
    <3> QED
      BY <1>2, <1>3
  <2>2. DOMAIN new = 1 .. Len(C)
    OBVIOUS
  <2>3. new \in [1 .. Len(C) -> MadeCheckpoint]
    BY <2>1
  <2> HIDE DEF new
  <2> QED
    BY <1>2, <2>1, <2>2, <2>3
<1>5. /\ checkpoint' \in [Task -> Seq(MadeCheckpoint)]
      /\ checkpoint'[t] = new
      /\ \A u \in Task \ {t} : checkpoint'[u] = checkpoint[u]
  <2>1. checkpoint \in [Task -> Seq(MadeCheckpoint)]
    BY DEF CheckpointsOK
  <2> HIDE DEF new
  <2> QED
    BY <1>1, <1>4, <2>1
<1> HIDE DEF new, old
<1>6. Relabels(t, old, "invalidated")
  BY <1>4, <1>5 DEF Relabels
<1> QED
  BY <1>6 DEF old

LEMMA RelabelsOK ==
  ASSUME CheckpointsOK, NEW t \in Task, NEW S, NEW s, Relabels(t, S, s)
  PROVE  CheckpointsOK'
<1>1. \A u \in Task : /\ Len(checkpoint'[u]) = Len(checkpoint[u])
                      /\ \A i \in 1 .. Len(checkpoint[u]) :
                           checkpoint'[u][i].version = checkpoint[u][i].version
  BY DEF Relabels
<1> QED
  BY <1>1 DEF Relabels, CheckpointsOK

(* When none becomes AVAILABLE, those that are keep their order. *)
LEMMA RelabelsNewest ==
  ASSUME CheckpointsOK, NewestIsLatest, NEW t \in Task, NEW S, NEW s, s # "available",
         Relabels(t, S, s)
  PROVE  /\ NewestIsLatest'
         /\ \A u \in Task : Available(u)' \subseteq Available(u)
<1>1. \A u \in Task : Available(u)' \subseteq Available(u)
  BY DEF Relabels, Available
<1>2. \A u \in Task : \A i \in Available(u) :
        checkpoint'[u][i].version = checkpoint[u][i].version
  BY DEF Relabels, Available
<1> QED
  BY <1>1, <1>2 DEF NewestIsLatest

(* get_latest_for_task finds one: the last of those AVAILABLE. *)
LEMMA LatestAvailable ==
  ASSUME CheckpointsOK, NewestIsLatest, NEW t \in Task, Available(t) # {}
  PROVE  /\ get_latest_for_task(t) \in Available(t)
         /\ \A j \in Available(t) :
              checkpoint[t][j].version <= checkpoint[t][get_latest_for_task(t)].version
<1>1. Available(t) \in SUBSET (1 .. Len(checkpoint[t])) /\ Len(checkpoint[t]) \in Nat
  BY ListFacts DEF Available
<1>2. PICK i \in Available(t) : \A j \in Available(t) : j <= i
  BY <1>1, HasGreatest
<1>3. \A j \in Available(t) : checkpoint[t][j].version <= checkpoint[t][i].version
  <2> SUFFICES ASSUME NEW j \in Available(t)
               PROVE  checkpoint[t][j].version <= checkpoint[t][i].version
    OBVIOUS
  <2>1. checkpoint[t][j].version \in Nat /\ checkpoint[t][i].version \in Nat
    BY <1>1, ListFacts
  <2>2. j = i \/ j < i
    BY <1>1, <1>2
  <2> QED
    BY <2>1, <2>2 DEF NewestIsLatest
<1> QED
  BY <1>2, <1>3 DEF get_latest_for_task

(* A new checkpoint gets a version above those that are AVAILABLE and at   *)
(* most its number in the list.                                            *)
LEMMA NextVersionFits ==
  ASSUME CheckpointsOK, NewestIsLatest, NEW t \in Task
  PROVE  /\ NextVersion(t) \in Nat \ {0}
         /\ NextVersion(t) <= Len(checkpoint[t]) + 1
         /\ \A i \in Available(t) : checkpoint[t][i].version < NextVersion(t)
<1>a. Len(checkpoint[t]) \in Nat
  BY ListFacts
<1>1. CASE Available(t) = {}
  BY <1>a, <1>1 DEF NextVersion
<1>2. CASE Available(t) # {}
  <2> DEFINE i == get_latest_for_task(t)
  <2>1. /\ i \in 1 .. Len(checkpoint[t])
        /\ \A j \in Available(t) : checkpoint[t][j].version <= checkpoint[t][i].version
    BY <1>2, LatestAvailable DEF Available
  <2>2. NextVersion(t) = checkpoint[t][i].version + 1
    BY <1>2 DEF NextVersion
  <2>3. \A j \in Available(t) : checkpoint[t][j].version \in Nat
    BY ListFacts DEF Available
  <2>4. checkpoint[t][i].version \in Nat /\ checkpoint[t][i].version <= i
    BY <2>1, ListFacts DEF CheckpointsOK
  <2> HIDE DEF i
  <2> QED
    BY <1>a, <2>1, <2>2, <2>3, <2>4
<1> QED
  BY <1>1, <1>2

(* What a new checkpoint changes. *)
Appended(t) ==
  LET n == Len(checkpoint[t])
  IN  /\ \A u \in Task \ {t} : checkpoint'[u] = checkpoint[u]
      /\ Len(checkpoint'[t]) = n + 1
      /\ \A i \in 1 .. n : checkpoint'[t][i] = checkpoint[t][i]
      /\ checkpoint'[t][n + 1].version = NextVersion(t)
      /\ checkpoint'[t][n + 1].status = "creating"

LEMMA CreateAppends ==
  ASSUME CheckpointsOK, NewestIsLatest, NEW t \in Task, CreateCheckpoint(t)
  PROVE  /\ CheckpointsOK' /\ Appended(t)
         /\ \A u \in Task : Available(u)' = Available(u)
<1> DEFINE C == checkpoint[t]
           n == Len(C)
           new == [version |-> NextVersion(t), status |-> "creating"]
<1>1. checkpoint' = [checkpoint EXCEPT ![t] = Append(C, new)] /\ n < MaxCheckpoints
  BY DEF CreateCheckpoint
<1>2. C \in Seq(MadeCheckpoint) /\ n \in Nat
  BY ListFacts
<1>3. /\ new \in MadeCheckpoint
      /\ new.version = NextVersion(t) /\ new.version <= n + 1
      /\ new.status = "creating"
  BY NextVersionFits DEF MadeCheckpoint, CheckpointStatus
<1> HIDE DEF new
<1>4. checkpoint \in [Task -> Seq(MadeCheckpoint)]
  BY DEF CheckpointsOK
<1>5. Append(C, new) \in Seq(MadeCheckpoint)
  BY <1>2, <1>3
<1>6. /\ checkpoint' \in [Task -> Seq(MadeCheckpoint)]
      /\ checkpoint'[t] = Append(C, new)
      /\ \A u \in Task \ {t} : checkpoint'[u] = checkpoint[u]
  BY <1>1, <1>4, <1>5
<1>7. /\ Len(checkpoint'[t]) = n + 1
      /\ \A i \in 1 .. n : checkpoint'[t][i] = checkpoint[t][i]
      /\ checkpoint'[t][n + 1] = new
  BY <1>2, <1>3, <1>6
<1>8. Appended(t)
  BY <1>3, <1>6, <1>7 DEF Appended
<1>9. CheckpointsOK'
  <2> SUFFICES ASSUME NEW u \in Task
               PROVE  /\ Len(checkpoint'[u]) <= MaxCheckpoints
                      /\ \A i \in 1 .. Len(checkpoint'[u]) : checkpoint'[u][i].version <= i
    BY <1>6 DEF CheckpointsOK
  <2>1. CASE u # t
    BY <1>6, <2>1 DEF CheckpointsOK
  <2>2. CASE u = t
    BY <1>1, <1>2, <1>3, <1>7, <2>2, RecoveryAssumption DEF CheckpointsOK
  <2> QED
    BY <2>1, <2>2
<1>10. \A u \in Task : Available(u)' = Available(u)
  <2> SUFFICES ASSUME NEW u \in Task PROVE Available(u)' = Available(u)
    OBVIOUS
  <2>1. CASE u # t
    BY <1>6, <2>1 DEF Available
  <2>2. CASE u = t
    <3>1. \A i \in 1 .. Len(checkpoint'[t]) :
            i \in 1 .. n \/ checkpoint'[t][i].status # "available"
      BY <1>2, <1>3, <1>7
    <3>2. 1 .. n \subseteq 1 .. Len(checkpoint'[t])
      BY <1>2, <1>7
    <3> QED
      BY <1>7, <2>2, <3>1, <3>2 DEF Available
  <2> QED
    BY <2>1, <2>2
<1> QED
  BY <1>8, <1>9, <1>10

-----------------------------------------------------------------------------
(***************************************************************************)
(* The invariant is kept.                                                  *)
(***************************************************************************)
LEMMA InvCheckpoint == RecoveryInv /\ CheckpointStep => RecoveryInv'
<1> SUFFICES ASSUME RecoveryInv, CheckpointStep PROVE RecoveryInv'
  OBVIOUS
<1>a. CheckpointsOK /\ NewestIsLatest /\ CreatingOK
  BY DEF RecoveryInv
<1>b. /\ UNCHANGED <<vars, recovering, crashes>>
      /\ recovery = "off"
  <2>1. creating # NoTask => recovery = "off"
    BY DEF RecoveryInv, Alone
  <2> QED
    BY <2>1 DEF CheckpointStep, CreateCheckpoint, ValidateCheckpoint,
                invalidate_old_checkpoints
<1>c. ASSUME CheckpointsOK', NewestIsLatest', CreatingOK', creating' \in Task \cup {NoTask}
      PROVE  RecoveryInv'
  <2>1. WorkInv'
    BY <1>b DEF vars, rows, control, waiter, RecoveryInv, WorkInv, TypeOK, PCOK,
          NothingIsSatisfied, DependentsWait, ExclusiveWork, RowAtWork, RowInCreation,
          RowInRetry, Working, WorkedOn, Creating, Retrying
  <2>2. RestoringOK'
    BY <1>b DEF recovering, RecoveryInv, RestoringOK, RestorePC
  <2> QED
    BY <1>b, <1>c, <2>1, <2>2 DEF recovering, RecoveryInv, Alone
<1>1. ASSUME NEW t \in Task, CreateCheckpoint(t) PROVE RecoveryInv'
  <2>1. CheckpointsOK' /\ Appended(t) /\ \A u \in Task : Available(u)' = Available(u)
    BY <1>1, <1>a, CreateAppends
  <2>2. \A u \in Task : \A i \in Available(u) : checkpoint'[u][i] = checkpoint[u][i]
    BY <2>1 DEF Appended, Available
  <2>3. NewestIsLatest'
    BY <1>a, <2>1, <2>2 DEF NewestIsLatest
  <2>4. creating' = t /\ Len(checkpoint[t]) \in Nat
    BY <1>1, <1>a, ListFacts DEF CreateCheckpoint
  <2>5. CreatingOK'
    BY <1>a, <2>1, <2>2, <2>4, NextVersionFits DEF CreatingOK, Appended
  <2> QED
    BY <1>c, <2>1, <2>3, <2>4, <2>5
<1>2. CASE ValidateCheckpoint
  <2>0. PICK t \in Task : t = creating
    BY <1>2 DEF ValidateCheckpoint, RecoveryInv
  <2> DEFINE n == Len(checkpoint[t])
  <2>1. /\ n \in Nat /\ n \in 1 .. n
        /\ \A i \in Available(t) : checkpoint[t][i].version < checkpoint[t][n].version
    BY <1>2, <1>a, <2>0, ListFacts DEF ValidateCheckpoint, CreatingOK
  <2>2. CASE checkpoint[t][n].status = "creating"
    <3>1. SetCheckpoint(t, n, "valid") /\ UNCHANGED creating
      BY <1>2, <2>0, <2>2 DEF ValidateCheckpoint
    <3>2. Relabels(t, {n}, "valid")
      BY <1>a, <2>1, <3>1, SetRelabels DEF CheckpointStatus
    <3>3. CheckpointsOK' /\ NewestIsLatest' /\ Available(t)' \subseteq Available(t)
      BY <1>a, <2>1, <3>2, RelabelsOK, RelabelsNewest
    <3>4. CreatingOK'
      <4>1. /\ Len(checkpoint'[t]) = n /\ checkpoint'[t][n].status = "valid"
            /\ \A i \in 1 .. n : checkpoint'[t][i].version = checkpoint[t][i].version
        BY <2>1, <3>2 DEF Relabels
      <4>2. \A i \in Available(t)' : checkpoint'[t][i].version < checkpoint'[t][n].version
        BY <2>1, <3>3, <4>1 DEF Available
      <4> QED
        BY <2>0, <2>1, <3>1, <4>1, <4>2 DEF CreatingOK
    <3> QED
      BY <1>c, <2>0, <3>1, <3>3, <3>4
  <2>3. CASE checkpoint[t][n].status = "valid"
    <3>1. SetCheckpoint(t, n, "available") /\ creating' = NoTask
      BY <1>2, <2>0, <2>3 DEF ValidateCheckpoint
    <3>2. Relabels(t, {n}, "available")
      BY <1>a, <2>1, <3>1, SetRelabels DEF CheckpointStatus
    <3>3. CheckpointsOK'
      BY <1>a, <2>1, <3>2, RelabelsOK
    <3>4. NewestIsLatest'
      <4> SUFFICES ASSUME NEW u \in Task, NEW i \in Available(u)', NEW j \in Available(u)',
                          i < j
                   PROVE  checkpoint'[u][i].version < checkpoint'[u][j].version
        BY DEF NewestIsLatest
      <4>1. CASE u # t
        BY <1>a, <3>2, <4>1 DEF Relabels, Available, NewestIsLatest
      <4>2. CASE u = t
        <5>1. /\ i \in 1 .. n /\ j \in 1 .. n
              /\ checkpoint'[t][i].version = checkpoint[t][i].version
              /\ checkpoint'[t][j].version = checkpoint[t][j].version
              /\ i \in Available(t)
              /\ j = n \/ j \in Available(t)
          BY <2>1, <3>2, <4>2 DEF Relabels, Available
        <5>2. checkpoint[t][i].version < checkpoint[t][j].version
          BY <1>a, <2>1, <5>1 DEF NewestIsLatest
        <5> QED
          BY <4>2, <5>1, <5>2
      <4> QED
        BY <4>1, <4>2
    <3> QED
      BY <1>c, <3>1, <3>3, <3>4 DEF CreatingOK
  <2> QED
    BY <1>2, <2>0, <2>2, <2>3 DEF ValidateCheckpoint
<1>3. ASSUME NEW t \in Task, NEW v \in 1 .. MaxCheckpoints, invalidate_old_checkpoints(t, v)
      PROVE  RecoveryInv'
  <2> DEFINE old == {i \in Available(t) : checkpoint[t][i].version < v}
  <2>1. Relabels(t, old, "invalidated")
    BY <1>3, <1>a, InvalidateRelabels
  <2>2. CheckpointsOK' /\ NewestIsLatest'
    <3> HIDE DEF old
    <3> QED
      BY <1>a, <2>1, RelabelsOK, RelabelsNewest
  <2>3. creating' = NoTask
    BY <1>3 DEF invalidate_old_checkpoints
  <2> QED
    BY <1>c, <2>2, <2>3 DEF CreatingOK
<1> QED
  BY <1>1, <1>2, <1>3 DEF CheckpointStep

LEMMA InvCrash == RecoveryInv /\ Crash => RecoveryInv'
<1> SUFFICES ASSUME RecoveryInv, Crash PROVE RecoveryInv'
  OBVIOUS
<1>1. WorkInv'
  BY CrashWork
<1>2. Alone'
  BY ConstantsAssumption DEF Crash, Alone, Thread
<1>3. /\ CheckpointsOK' /\ NewestIsLatest' /\ RestoringOK' /\ CreatingOK'
  BY DEF Crash, RecoveryInv, CheckpointsOK, NewestIsLatest, Available, RestoringOK,
         CreatingOK, RestorePC
<1>4. crashes' \in 0 .. MaxCrashes
  BY RecoveryAssumption DEF Crash, RecoveryInv
<1> QED
  BY <1>1, <1>2, <1>3, <1>4 DEF Crash, RecoveryInv, RecoveryPC

(* A step of recovery: the checkpoint that it restores goes from AVAILABLE *)
(* to RESTORING to RESTORED.                                               *)
LEMMA InvRecovery == RecoveryInv /\ RecoveryStep => RecoveryInv'
<1> SUFFICES ASSUME RecoveryInv, RecoveryStep PROVE RecoveryInv'
  OBVIOUS
<1>a. CheckpointsOK /\ NewestIsLatest
  BY DEF RecoveryInv
<1>b. /\ recovery # "off" /\ creating = NoTask
      /\ UNCHANGED <<control, creating, crashes>>
  BY RecoveryWrites DEF RecoveryInv, Alone
<1>c. Alone' /\ WorkInv' /\ CreatingOK'
  BY <1>b, RecoveryWork DEF control, RecoveryInv, Alone, CreatingOK
<1>d. ASSUME UNCHANGED checkpoint, recovery' \in RecoveryPC, unrecovered' \subseteq Task,
             RestoringOK'
      PROVE  RecoveryInv'
  BY <1>a, <1>b, <1>c, <1>d
     DEF RecoveryInv, CheckpointsOK, NewestIsLatest, Available
<1>1. CASE DetectCrashedWorkers \/ StartExecutor \/ RestoredReady
  BY <1>1, <1>d
     DEF DetectCrashedWorkers, StartExecutor, RestoredReady, RecoveryInv, RestoringOK,
         RestorePC, RecoveryPC, list_by_mission
<1>2. ASSUME NEW t \in Task,
             RecoverFailed(t) \/ RecoverRunning(t) \/ RecoverWaiting(t) \/ LeaveTask(t)
      PROVE  RecoveryInv'
  <2>1. /\ recovery = "tasks" /\ UNCHANGED <<recovery, restoring, checkpoint>>
        /\ unrecovered' = unrecovered \ {t}
    BY <1>2 DEF RecoverFailed, RecoverRunning, RecoverWaiting, LeaveTask, RecoverTo
  <2> QED
    BY <2>1, <1>d DEF RecoveryInv, RestoringOK, RestorePC, RecoveryPC
<1>3. ASSUME NEW t \in Task, RestartFromCheckpoint(t) PROVE RecoveryInv'
  <2> DEFINE i == get_latest_for_task(t)
  <2>1. i \in 1 .. Len(checkpoint[t]) /\ checkpoint[t][i].status = "available"
    BY <1>3, <1>a, LatestAvailable DEF RestartFromCheckpoint, Available
  <2>2. task'[t].status = "recovering"
    <3>1. task[t] \in TaskRow /\ TypeOK
      BY DEF RecoveryInv, WorkInv, TypeOK
    <3> QED
      BY <1>3, <3>1, BecomeStatus DEF RestartFromCheckpoint
  <2>3. /\ recovery' = "restore" /\ restoring' = <<t, i>> /\ UNCHANGED checkpoint
        /\ unrecovered' \subseteq Task
    BY <1>3 DEF RestartFromCheckpoint, RecoveryInv
  <2>4. RestoringOK'
    <3> HIDE DEF i
    <3> QED
      BY <2>1, <2>2, <2>3 DEF RestoringOK, RestorePC, RestoreStatus
  <2> QED
    BY <1>d, <2>3, <2>4 DEF RecoveryPC, RestorePC
<1>4. CASE Restore
  <2>1. recovery \in {"restore", "restored"} /\ UNCHANGED <<vars, unrecovered, restoring>>
    BY <1>4 DEF Restore
  <2>2. PICK t \in Task : \E i \in 1 .. Len(checkpoint[t]) :
          /\ restoring = <<t, i>>
          /\ checkpoint[t][i].status = RestoreStatus
          /\ task[t].status = "recovering"
    BY <2>1 DEF RecoveryInv, RestoringOK, RestorePC
  <2>i. PICK i \in 1 .. Len(checkpoint[t]) :
          /\ restoring = <<t, i>>
          /\ checkpoint[t][i].status = RestoreStatus
          /\ task[t].status = "recovering"
    BY <2>2
  <2>3. PICK s \in {"restoring", "restored"} :
          /\ SetCheckpoint(t, i, s)
          /\ s = "restoring" => recovery' = "restored"
          /\ s = "restored" => recovery' = "ready"
    BY <1>4, <2>i DEF Restore
  <2>4. Relabels(t, {i}, s)
    BY <1>a, <2>3, SetRelabels DEF CheckpointStatus
  <2>5. CheckpointsOK' /\ NewestIsLatest'
    BY <1>a, <2>4, RelabelsOK, RelabelsNewest
  <2>6. RestoringOK'
    BY <2>1, <2>i, <2>3, <2>4
       DEF Relabels, RestoringOK, RestorePC, RestoreStatus, vars, rows
  <2> QED
    BY <1>b, <1>c, <2>1, <2>3, <2>5, <2>6 DEF RecoveryInv, RecoveryPC, RestorePC
<1> QED
  BY <1>1, <1>2, <1>3, <1>4 DEF RecoveryStep

LEMMA InvServer ==
  RecoveryInv /\ ((ServerUp /\ Next) \/ UNCHANGED allvars) => RecoveryInv'
<1> SUFFICES ASSUME RecoveryInv, (ServerUp /\ Next) \/ UNCHANGED allvars
             PROVE  RecoveryInv'
  OBVIOUS
<1>1. /\ UNCHANGED <<recovery, unrecovered, restoring, checkpoint, creating, crashes>>
      /\ [Next]_vars
      /\ recovery = "off" \/ UNCHANGED vars
  BY DEF ServerUp, recovering, allvars
<1>2. WorkInv'
  BY <1>1, WorkNext DEF RecoveryInv
<1>3. Alone' /\ RestoringOK'
  BY <1>1 DEF RecoveryInv, Alone, RestoringOK, RestoreStatus, RestorePC, vars, rows, control
<1>4. CheckpointsOK' /\ CreatingOK' /\ NewestIsLatest'
  BY <1>1 DEF RecoveryInv, CheckpointsOK, CreatingOK, NewestIsLatest, Available
<1> QED
  BY <1>1, <1>2, <1>3, <1>4 DEF RecoveryInv

LEMMA RecoveryInductive == RecoverySpec => []RecoveryInv
<1>1. RecoveryInv /\ [RecoveryNext]_allvars => RecoveryInv'
  BY InvServer, InvCrash, InvRecovery, InvCheckpoint DEF RecoveryNext
<1> QED
  BY <1>1, RecoveryInvInit, PTL DEF RecoverySpec

(* For every number of tasks, loops, crashes and checkpoints: the state    *)
(* has its types, whatever the crashes cut short.  In particular no        *)
(* restart takes retry_count past max_retries, recovery restores a         *)
(* checkpoint that exists, and no version exceeds the number of            *)
(* checkpoints made.                                                       *)
THEOREM RecoveryTypeCorrect == RecoverySpec => []RecoveryTypeOK
<1>1. RecoveryInv => RecoveryTypeOK
  <2> SUFFICES ASSUME RecoveryInv PROVE RecoveryTypeOK
    OBVIOUS
  <2>1. CheckpointsOK
    BY DEF RecoveryInv
  <2>2. ASSUME NEW t \in Task, NEW i \in 1 .. Len(checkpoint[t])
        PROVE  i \in 1 .. MaxCheckpoints /\ checkpoint[t][i] \in CheckpointRow
    <3>1. /\ Len(checkpoint[t]) \in Nat /\ Len(checkpoint[t]) <= MaxCheckpoints
          /\ checkpoint[t][i].version <= i
      BY <2>1, ListFacts DEF CheckpointsOK
    <3>2. checkpoint[t][i] \in MadeCheckpoint
      BY <2>1, ListFacts
    <3> QED
      BY <3>1, <3>2, RecoveryAssumption DEF MadeCheckpoint, CheckpointRow
  <2>3. restoring = <<>> \/ restoring \in Task \X (1 .. MaxCheckpoints)
    BY <2>2 DEF RecoveryInv, RestoringOK
  <2> QED
    BY <2>1, <2>2, <2>3
       DEF RecoveryInv, RecoveryTypeOK, WorkInv, RecoveryPC, RestorePC, CheckpointsOK
<1> QED
  BY <1>1, RecoveryInductive, PTL

(* For every number of crashes and checkpoints, whatever has been          *)
(* invalidated, restored or left unfinished by a crash: of two AVAILABLE   *)
(* checkpoints of a task the later one has the higher version.             *)
THEOREM LatestIsNewest == RecoverySpec => []NewestIsLatest
  BY RecoveryInductive, PTL DEF RecoveryInv

-----------------------------------------------------------------------------
(***************************************************************************)
(* The life of a task t that depends on no other, across crashes: a step   *)
(* of the server that is up does to t what Effect says, a crash does       *)
(* nothing to its rows, and recovery takes it one status further.          *)
(***************************************************************************)
Restarted(t) ==
  /\ attempt'[t] = attempt[t]
  /\ \A l \in Loop : ~Drives(l, t)'
  /\ task'[t] = task[t] \/ Recovered(t)

LEMMA RecoveryLife ==
  ASSUME ClientTaskOp = {}, RecoveryInv, RecoveryInv', LifeInv, [RecoveryNext]_allvars
  PROVE  /\ LifeInv'
         /\ \A t \in Task : Independent(t) =>
              Effect(t) \/ Restarted(t)
<1>a. WorkInv /\ WorkInv'
  BY DEF RecoveryInv
<1>1. CASE [Next]_vars
  BY <1>1, <1>a, LifeStep
<1>2. CASE Crash
  <2>1. /\ UNCHANGED <<task, attempt>>
        /\ pc'["session"] = "error" /\ pc'["client"] = "idle"
        /\ todo'["session"] = {}
        /\ \A l \in Loop : pc'[l] = "idle"
    BY <1>2, ConstantsAssumption DEF Crash, rows, Thread
  <2>2. \A t : ~Creating(t)' /\ \A l \in Loop : ~Drives(l, t)'
    BY <2>1 DEF Creating, Drives, Working, WorkPC
  <2>3. LifeInv'
    BY <2>1, <2>2 DEF LifeInv, SecondPassInv, Steady, Independent
  <2> QED
    BY <2>1, <2>2, <2>3 DEF Restarted
<1>3. CASE RecoveryStep
  <2>1. /\ recovery # "off"
        /\ UNCHANGED <<attempt, control>>
        /\ UNCHANGED task \/ \E t \in Task : Recovered(t)
    BY <1>3, RecoveryWrites
  <2>2. \A t \in Task : task'[t] = task[t] \/ Recovered(t)
    BY <2>1 DEF Recovered
  <2>3. \A t : ~Creating(t)' /\ \A l \in Loop : ~Drives(l, t)'
    BY <2>1 DEF RecoveryInv, Alone, Creating, Drives, Working, WorkPC, control
  <2>4. \A t \in Task : task'[t].status \in Fresh => task'[t] = task[t]
    BY <2>2 DEF Recovered, Fresh
  <2>5. \A t \in Task : Independent(t) => Steady(t)'
    BY <2>1, <2>3, <2>4 DEF LifeInv, Steady
  <2>6. SecondPassInv' /\ pc'["client"] # "ready"
    BY <2>1 DEF LifeInv, SecondPassInv, Independent, control
  <2> QED
    BY <2>1, <2>2, <2>3, <2>5, <2>6 DEF LifeInv, Independent, Restarted
<1>4. [Next]_vars \/ Crash \/ RecoveryStep
  BY DEF RecoveryNext, ServerUp, CheckpointStep, CreateCheckpoint, ValidateCheckpoint,
         invalidate_old_checkpoints, allvars
<1> QED
  BY <1>1, <1>2, <1>3, <1>4

LEMMA RecoveryLifeInductive ==
  ASSUME ClientTaskOp = {}
  PROVE  RecoverySpec => [](RecoveryInv /\ LifeInv)
<1>1. RecoveryInit => LifeInv
  BY LifeInit DEF RecoveryInit
<1>2. RecoveryInv /\ RecoveryInv' /\ LifeInv /\ [RecoveryNext]_allvars => LifeInv'
  BY RecoveryLife
<1> QED
  BY <1>1, <1>2, RecoveryInductive, PTL DEF RecoverySpec

(* For every number of tasks, loops, crashes and checkpoints: once a task  *)
(* without dependencies is COMPLETED, no crash, restart or restore changes *)
(* its row or executes it again.                                           *)
THEOREM CompletedStays ==
  ASSUME ClientTaskOp = {}
  PROVE  RecoverySpec => CompletedSurvivesCrash
<1>1. RecoveryInv /\ RecoveryInv' /\ LifeInv /\ [RecoveryNext]_allvars =>
        [\A t \in Task : Independent(t) /\ task[t].status = "completed" =>
           task'[t] = task[t] /\ attempt'[t] = attempt[t]]_allvars
  <2> SUFFICES ASSUME RecoveryInv, RecoveryInv', LifeInv, [RecoveryNext]_allvars,
                      NEW t \in Task, Independent(t), task[t].status = "completed"
               PROVE  task'[t] = task[t] /\ attempt'[t] = attempt[t]
    OBVIOUS
  <2>1. Effect(t) \/ Restarted(t)
    BY RecoveryLife
  <2>2. CASE Effect(t)
    BY <2>2, EndIsFinal DEF LifeInv, Rests, TaskEnded
  <2> QED
    BY <2>1, <2>2 DEF Restarted, Recovered
<1> QED
  BY <1>1, RecoveryLifeInductive, PTL DEF RecoverySpec, CompletedSurvivesCrash

(* For every number of tasks, loops, crashes and checkpoints: a step that  *)
(* changes the retry_count of a task without dependencies adds one to it   *)
(* and finds the task RUNNING.                                             *)
THEOREM CrashCostsAtMostOne ==
  ASSUME ClientTaskOp = {}
  PROVE  RecoverySpec => CrashCostsOneRetry
<1>1. RecoveryInv /\ RecoveryInv' /\ LifeInv /\ [RecoveryNext]_allvars =>
        [\A t \in Task : Independent(t) /\ task'[t].retries # task[t].retries =>
           /\ task'[t].retries = task[t].retries + 1
           /\ task[t].status = "running"]_allvars
  <2> SUFFICES ASSUME RecoveryInv, RecoveryInv', LifeInv, [RecoveryNext]_allvars,
                      NEW t \in Task, Independent(t), task'[t].retries # task[t].retries
               PROVE  /\ task'[t].retries = task[t].retries + 1
                      /\ task[t].status = "running"
    OBVIOUS
  <2>1. Effect(t) \/ Restarted(t)
    BY RecoveryLife
  <2>2. task[t] \in TaskRow /\ Steady(t)
    BY DEF RecoveryInv, WorkInv, TypeOK, LifeInv
  <2>3. CASE Created(t)
    <3>1. task'[t].retries = 0 /\ task[t].retries = 0
      BY <2>2, <2>3 DEF Created, Steady, NoRow
    <3> QED
      BY <3>1
  <2>4. ASSUME NEW l \in Loop, Failed(l, t)
        PROVE  /\ task'[t].retries = task[t].retries + 1
               /\ task[t].status = "running"
    <3>1. task[t].status = "running"
      BY <2>2, <2>4 DEF Failed, Steady
    <3>2. task'[t].retries \in {task[t].retries, task[t].retries + 1}
      BY <2>2, <2>4 DEF Failed, CountRetry, TaskRow
    <3> QED
      BY <3>1, <3>2
  <2>5. CASE Effect(t) /\ ~Created(t) /\ ~ \E l \in Loop : Failed(l, t)
    BY <2>2, <2>5 DEF Effect, Rests, Claimed, Spawned, Updated, Completed, TaskRow
  <2> QED
    BY <2>1, <2>3, <2>4, <2>5 DEF Restarted, Recovered
<1> QED
  BY <1>1, RecoveryLifeInductive, PTL DEF RecoverySpec, CrashCostsOneRetry

-----------------------------------------------------------------------------
(***************************************************************************)
(* Executions and restored checkpoints.                                    *)
(***************************************************************************)
RestoredOf(t) == {i \in 1 .. Len(checkpoint[t]) : checkpoint[t][i].status = "restored"}

LEMMA RestoredFinite ==
  ASSUME CheckpointsOK, NEW t \in Task
  PROVE  IsFiniteSet(RestoredOf(t)) /\ Cardinality(RestoredOf(t)) \in Nat
<1>1. Len(checkpoint[t]) \in Int
  BY ListFacts
<1>2. IsFiniteSet(1 .. Len(checkpoint[t]))
  BY <1>1, FS_Interval
<1>3. IsFiniteSet(RestoredOf(t))
  BY <1>2, FS_Subset DEF RestoredOf
<1> QED
  BY <1>3, FS_CardinalityType

(* A checkpoint that was not RESTORED gets another status than that. *)
LEMMA RelabelsRestored ==
  ASSUME NEW t \in Task, NEW S, NEW s, Relabels(t, S, s), s # "restored",
         \A i \in S : checkpoint[t][i].status # "restored", NEW u \in Task
  PROVE  RestoredOf(u)' = RestoredOf(u)
<1>1. CASE u # t
  BY <1>1 DEF Relabels, RestoredOf
<1>2. CASE u = t
  BY <1>2 DEF Relabels, RestoredOf
<1> QED
  BY <1>1, <1>2

(* A step counts one restored checkpoint more, and then does nothing else, *)
(* or it leaves the count as it is and recovery no nearer to the write     *)
(* that makes t READY.                                                     *)
OneMore(t) ==
  Cardinality(RestoredOf(t)') = Cardinality(RestoredOf(t)) + 1 /\ UNCHANGED vars

SameCount(t) ==
  /\ RestoredOf(t)' = RestoredOf(t)
  /\ recovery' = "ready" /\ restoring'[1] = t => recovery = "ready" /\ restoring[1] = t

LEMMA RestoredCounted ==
  ASSUME RecoveryInv, [RecoveryNext]_allvars, NEW t \in Task
  PROVE  OneMore(t) \/ SameCount(t)
<1>a. CheckpointsOK /\ NewestIsLatest
  BY DEF RecoveryInv
<1>1. CASE UNCHANGED checkpoint
  <2>1. RestoredOf(t)' = RestoredOf(t)
    BY <1>1 DEF RestoredOf
  <2>2. CASE ~Restore
    <3>1. recovery' = "ready" => UNCHANGED <<recovery, restoring>>
      BY <2>2 DEF RecoveryNext, ServerUp, Crash, RecoveryStep, DetectCrashedWorkers,
         RecoverFailed, RecoverRunning, RecoverWaiting, RecoverTo, LeaveTask,
         RestartFromCheckpoint, RestoredReady, StartExecutor, CheckpointStep,
         CreateCheckpoint, ValidateCheckpoint, invalidate_old_checkpoints, recovering,
         allvars
    <3> QED
      BY <2>1, <3>1 DEF SameCount
  <2>3. CASE Restore
    <3>1. PICK u \in Task : \E i \in 1 .. Len(checkpoint[u]) :
            /\ restoring = <<u, i>>
            /\ checkpoint[u][i].status = RestoreStatus
      BY <2>3 DEF Restore, RecoveryInv, RestoringOK, RestorePC
    <3>2. PICK i \in 1 .. Len(checkpoint[u]) :
            /\ restoring = <<u, i>>
            /\ checkpoint[u][i].status = RestoreStatus
      BY <3>1
    <3>3. ASSUME recovery = "restored" PROVE FALSE
      <4>1. SetCheckpoint(u, i, "restored") /\ checkpoint[u][i].status = "restoring"
        BY <2>3, <3>2, <3>3 DEF Restore, RestoreStatus
      <4>2. Relabels(u, {i}, "restored")
        BY <1>a, <4>1, SetRelabels DEF CheckpointStatus
      <4> QED
        BY <1>1, <4>1, <4>2 DEF Relabels
    <3>4. recovery' = "restored"
      BY <2>3, <3>3 DEF Restore
    <3> QED
      BY <2>1, <3>4 DEF SameCount
  <2> QED
    BY <2>2, <2>3
<1>2. CASE Restore
  <2>1. PICK u \in Task : \E i \in 1 .. Len(checkpoint[u]) :
          /\ restoring = <<u, i>>
          /\ checkpoint[u][i].status = RestoreStatus
    BY <1>2 DEF Restore, RecoveryInv, RestoringOK, RestorePC
  <2>2. PICK i \in 1 .. Len(checkpoint[u]) :
          /\ restoring = <<u, i>>
          /\ checkpoint[u][i].status = RestoreStatus
    BY <2>1
  <2>3. CASE recovery = "restore"
    <3>1. /\ SetCheckpoint(u, i, "restoring") /\ checkpoint[u][i].status = "available"
          /\ recovery' = "restored"
      BY <1>2, <2>2, <2>3 DEF Restore, RestoreStatus
    <3>2. Relabels(u, {i}, "restoring")
      BY <1>a, <3>1, SetRelabels DEF CheckpointStatus
    <3>3. RestoredOf(t)' = RestoredOf(t)
      BY <3>1, <3>2, RelabelsRestored
    <3> QED
      BY <3>1, <3>3 DEF SameCount
  <2>4. CASE recovery = "restored"
    <3>1. /\ SetCheckpoint(u, i, "restored") /\ checkpoint[u][i].status = "restoring"
          /\ UNCHANGED <<vars, restoring>>
      BY <1>2, <2>2, <2>4 DEF Restore, RestoreStatus
    <3>2. Relabels(u, {i}, "restored")
      BY <1>a, <3>1, SetRelabels DEF CheckpointStatus
    <3>3. CASE t # u
      BY <2>2, <3>1, <3>2, <3>3 DEF Relabels, RestoredOf, SameCount
    <3>4. CASE t = u
      <4>1. RestoredOf(t)' = RestoredOf(t) \cup {i} /\ i \notin RestoredOf(t)
        BY <3>1, <3>2, <3>4 DEF Relabels, RestoredOf
      <4>2. Cardinality(RestoredOf(t) \cup {i}) = Cardinality(RestoredOf(t)) + 1
        <5>1. IsFiniteSet(RestoredOf(t))
          BY <1>a, RestoredFinite
        <5> QED
          BY <4>1, <5>1, FS_AddElement
      <4> QED
        BY <3>1, <4>1, <4>2 DEF OneMore
    <3> QED
      BY <3>3, <3>4
  <2> QED
    BY <1>2, <2>3, <2>4 DEF Restore
<1>3. CASE CheckpointStep
  <2>a. recovery' # "ready"
    <3>1. creating # NoTask => recovery = "off"
      BY DEF RecoveryInv, Alone
    <3> QED
      BY <1>3, <3>1 DEF CheckpointStep, CreateCheckpoint, ValidateCheckpoint,
                        invalidate_old_checkpoints, recovering
  <2>1. ASSUME NEW u \in Task, CreateCheckpoint(u) PROVE RestoredOf(t)' = RestoredOf(t)
    <3>1. Appended(u) /\ Len(checkpoint[u]) \in Nat
      BY <1>a, <2>1, CreateAppends, ListFacts
    <3>2. CASE t # u
      BY <3>1, <3>2 DEF Appended, RestoredOf
    <3>3. CASE t = u
      <4> DEFINE n == Len(checkpoint[t])
      <4>1. \A i \in 1 .. n + 1 : i \in 1 .. n \/ checkpoint'[t][i].status # "restored"
        BY <3>1, <3>3 DEF Appended
      <4>2. 1 .. n \subseteq 1 .. n + 1
        BY <3>1, <3>3
      <4> QED
        BY <3>1, <3>3, <4>1, <4>2 DEF Appended, RestoredOf
    <3> QED
      BY <3>2, <3>3
  <2>2. CASE ValidateCheckpoint
    <3>1. PICK u \in Task : u = creating
      BY <2>2 DEF ValidateCheckpoint, RecoveryInv
    <3> DEFINE n == Len(checkpoint[u])
    <3>2. n \in 1 .. n
      BY <2>2, <1>a, <3>1, ListFacts DEF ValidateCheckpoint, RecoveryInv, CreatingOK
    <3>3. \E s \in {"valid", "available"} :
            SetCheckpoint(u, n, s) /\ checkpoint[u][n].status \in {"creating", "valid"}
      BY <2>2, <3>1 DEF ValidateCheckpoint
    <3>4. PICK s \in {"valid", "available"} :
            SetCheckpoint(u, n, s) /\ checkpoint[u][n].status \in {"creating", "valid"}
      BY <3>3
    <3>5. Relabels(u, {n}, s)
      BY <1>a, <3>2, <3>4, SetRelabels DEF CheckpointStatus
    <3>6. RestoredOf(t)' = RestoredOf(t)
      BY <3>4, <3>5, RelabelsRestored
    <3> QED
      BY <2>a, <3>6 DEF SameCount
  <2>3. ASSUME NEW u \in Task, NEW v \in 1 .. MaxCheckpoints,
               invalidate_old_checkpoints(u, v)
        PROVE  RestoredOf(t)' = RestoredOf(t)
    <3>1. PICK old : /\ Relabels(u, old, "invalidated")
                     /\ old \subseteq Available(u)
      BY <1>a, <2>3, InvalidateRelabels
    <3>2. \A i \in old : checkpoint[u][i].status # "restored"
      BY <3>1 DEF Available
    <3> QED
      BY <3>1, <3>2, RelabelsRestored
  <2> QED
    BY <1>3, <2>a, <2>1, <2>2, <2>3 DEF CheckpointStep, SameCount
<1>4. UNCHANGED checkpoint \/ Restore \/ CheckpointStep
  BY DEF RecoveryNext, ServerUp, Crash, RecoveryStep, DetectCrashedWorkers,
     RecoverFailed, RecoverRunning, RecoverWaiting, RecoverTo, LeaveTask,
     RestartFromCheckpoint, RestoredReady, StartExecutor, allvars
<1> QED
  BY <1>1, <1>2, <1>3, <1>4

(* Until it has begun an attempt of t, a loop has a restored checkpoint to *)
(* account for every attempt there is; so has a READY row, and the step of *)
(* recovery that is about to write one.                                    *)
Begun(t) ==
  LET n == Len(attempt[t])
      restored == Cardinality(RestoredOf(t))
  IN  /\ n <= 1 + restored
      /\ task[t].status \in Fresh \cup {"ready"} => n <= restored
      /\ \A l \in Loop : Drives(l, t) /\ pc[l] \in UnspawnedPC => n <= restored
      /\ recovery = "ready" /\ restoring[1] = t => n <= restored
      /\ task[t].status # "waiting_for_dependency"

LEMMA BegunStep ==
  ASSUME ClientTaskOp = {}, RecoveryInv, RecoveryInv', LifeInv, [RecoveryNext]_allvars,
         NEW t \in Task, Independent(t), Begun(t)
  PROVE  Begun(t)'
<1>a. /\ CheckpointsOK /\ CheckpointsOK'
      /\ TypeOK /\ TypeOK' /\ Steady(t)
      /\ \A l, m \in Loop : Drives(l, t)' /\ Drives(m, t)' => l = m
  BY DEF RecoveryInv, WorkInv, LifeInv, ExclusiveWork, Drives
<1>b. /\ Cardinality(RestoredOf(t)) \in Nat /\ Cardinality(RestoredOf(t)') \in Nat
      /\ Len(attempt[t]) \in Nat /\ Len(attempt'[t]) \in Nat
  <2>1. Cardinality(RestoredOf(t)) \in Nat
    BY <1>a, RestoredFinite
  <2>2. Cardinality(RestoredOf(t)') \in Nat
    <3>1. IsFiniteSet(1 .. Len(checkpoint'[t]))
      <4>1. Len(checkpoint'[t]) \in Int
        <5>1. checkpoint'[t] \in Seq(MadeCheckpoint)
          BY <1>a DEF CheckpointsOK
        <5> QED
          BY <5>1
      <4> QED
        BY <4>1, FS_Interval
    <3>2. IsFiniteSet(RestoredOf(t)')
      BY <3>1, FS_Subset DEF RestoredOf
    <3> QED
      BY <3>2, FS_CardinalityType
  <2>3. attempt[t] \in Seq(AttemptRow) /\ attempt'[t] \in Seq(AttemptRow)
    BY <1>a DEF TypeOK
  <2> QED
    BY <2>1, <2>2, <2>3
<1>c. OneMore(t) \/ SameCount(t)
  BY RestoredCounted
<1>d. (* a step that adds no attempt, of those who may still begin one *)
      ASSUME Len(attempt'[t]) = Len(attempt[t]),
             task'[t].status \in Fresh \cup {"ready"} =>
               \/ task[t].status \in Fresh \cup {"ready"}
               \/ recovery = "ready" /\ restoring[1] = t,
             task'[t].status # "waiting_for_dependency",
             \A l \in Loop : Drives(l, t)' /\ pc'[l] \in UnspawnedPC =>
               \/ Drives(l, t) /\ pc[l] \in UnspawnedPC
               \/ task[t].status = "ready"
      PROVE  Begun(t)'
  <2>1. CASE SameCount(t)
    BY <1>b, <1>d, <2>1 DEF SameCount, Begun
  <2>2. CASE OneMore(t)
    BY <1>b, <1>d, <2>2 DEF OneMore, Begun
  <2> QED
    BY <1>c, <2>1, <2>2
<1>1. CASE Effect(t)
  <2>1. CASE Rests(t)
    BY <1>d, <2>1 DEF Rests, Begun
  <2>2. CASE Created(t)
    <3>1. task'[t].status \in {"created", "scheduled", "ready"}
      BY <2>2 DEF Created, NoRow
    <3> QED
      BY <1>d, <2>2, <3>1 DEF Created
  <2>3. ASSUME NEW l \in Loop, Claimed(l, t) PROVE Begun(t)'
    <3>1. task'[t].status = "running"
      BY <1>a, <2>3 DEF Claimed, TypeOK, TaskRow
    <3> QED
      BY <1>d, <2>3, <3>1 DEF Claimed, Fresh
  <2>4. ASSUME NEW l \in Loop, Spawned(l, t) PROVE Begun(t)'
    <3>1. Len(attempt'[t]) = Len(attempt[t]) + 1
      <4>1. attempt[t] \in Seq(AttemptRow)
        BY <1>a DEF TypeOK
      <4> QED
        BY <2>4, <4>1 DEF Spawned
    <3>2. /\ Len(attempt[t]) <= Cardinality(RestoredOf(t))
          /\ Drives(l, t)
      BY <2>4 DEF Spawned, Begun, UnspawnedPC
    <3>3. task[t].status = "running" /\ task'[t].status = "running"
      BY <1>a, <2>4 DEF Spawned, Steady
    <3>4. RestoredOf(t)' = RestoredOf(t) /\ recovery' # "ready"
      <4>1. pc[l] # "idle" /\ pc'[l] # "idle" /\ ~UNCHANGED vars
        BY <2>4 DEF Spawned, vars, control
      <4>2. recovery' # "ready"
        BY <4>1 DEF RecoveryInv, Alone
      <4> QED
        BY <1>c, <4>1, <4>2 DEF OneMore, SameCount
    <3>5. \A m \in Loop : Drives(m, t)' => pc'[m] = "spawn_worker"
      BY <1>a, <2>4 DEF Spawned
    <3> QED
      BY <1>b, <3>1, <3>2, <3>3, <3>4, <3>5 DEF Begun, Fresh, UnspawnedPC
  <2>5. ASSUME NEW l \in Loop, Updated(l, t) PROVE Begun(t)'
    <3>1. Len(attempt'[t]) = Len(attempt[t])
      <4>1. PICK field, status :
              attempt'[t] = [attempt[t] EXCEPT ![Len(attempt[t])][field] = status]
        BY <2>5, Zenon DEF Updated
      <4> DEFINE n == Len(attempt[t])
                 R == [attempt[t][n] EXCEPT ![field] = status]
      <4>2. attempt'[t] = [attempt[t] EXCEPT ![n] = R]
        BY <4>1
      <4>3. attempt[t] \in Seq(AttemptRow) /\ attempt'[t] \in Seq(AttemptRow)
        BY <1>a DEF TypeOK
      <4> HIDE DEF R, n
      <4>4. DOMAIN attempt'[t] = DOMAIN attempt[t]
        BY <4>2
      <4> QED
        BY <4>3, <4>4
    <3>2. task[t].status = "running" /\ task'[t].status = "running"
      BY <1>a, <2>5 DEF Updated, Steady
    <3>3. \A m \in Loop : Drives(m, t)' => pc'[m] \notin UnspawnedPC
      BY <1>a, <2>5 DEF Updated
    <3> QED
      BY <1>d, <3>1, <3>2, <3>3 DEF Fresh
  <2>6. ASSUME NEW l \in Loop, Completed(l, t) \/ Failed(l, t) PROVE Begun(t)'
    <3>1. task'[t].status \in {"completed", "failed"} /\ attempt'[t] = attempt[t]
      BY <1>a, <2>6 DEF Completed, Failed, CountRetry, TypeOK, TaskRow
    <3>2. \A m \in Loop : ~Drives(m, t)'
      BY <3>1 DEF RecoveryInv, WorkInv, RowAtWork, Busy, Drives
    <3> QED
      BY <1>d, <3>1, <3>2 DEF Fresh
  <2> QED
    BY <1>1, <2>1, <2>2, <2>3, <2>4, <2>5, <2>6 DEF Effect
<1>2. CASE Restarted(t)
  <2>1. CASE task'[t] = task[t]
    BY <1>d, <1>2, <2>1 DEF Restarted, Begun
  <2>2. CASE Recovered(t)
    BY <1>d, <1>2, <2>2 DEF Restarted, Recovered, Begun, Fresh
  <2> QED
    BY <1>2, <2>1, <2>2 DEF Restarted
<1> QED
  BY <1>1, <1>2, RecoveryLife

(* For every number of tasks, loops, crashes and checkpoints: a task       *)
(* without dependencies has one attempt more than checkpoints that were    *)
(* restored for it, at most; a crash alone never has it executed again.    *)
THEOREM RepeatsAreRestores ==
  ASSUME ClientTaskOp = {}
  PROVE  RecoverySpec => []RepeatedFromCheckpoint
<1> DEFINE BegunInv == \A t \in Task : Independent(t) => Begun(t)
<1>1. RecoveryInit => BegunInv
  <2> SUFFICES ASSUME RecoveryInit, NEW t \in Task PROVE Begun(t)
    OBVIOUS
  <2>1. RecoveryInv
    BY RecoveryInvInit
  <2>2. Cardinality(RestoredOf(t)) \in Nat
    BY <2>1, RestoredFinite DEF RecoveryInv
  <2>3. Len(attempt[t]) = 0 /\ task[t].status = "none" /\ recovery = "off"
    BY DEF RecoveryInit, Init, NoRow
  <2> QED
    BY <2>2, <2>3 DEF Begun
<1>2. RecoveryInv /\ RecoveryInv' /\ LifeInv /\ BegunInv /\ [RecoveryNext]_allvars => BegunInv'
  BY BegunStep DEF Independent
<1>3. BegunInv => RepeatedFromCheckpoint
  BY DEF Begun, RestoredOf, RepeatedFromCheckpoint
<1> HIDE DEF BegunInv
<1> QED
  BY <1>1, <1>2, <1>3, RecoveryLifeInductive, PTL DEF RecoverySpec

-----------------------------------------------------------------------------
(***************************************************************************)
(* Dependency rows.  create() writes them after the row of the task that   *)
(* waits for them, which neither the request, whose tasks are other ones,  *)
(* nor a loop, which writes the rows that it claims, nor recovery touches. *)
(***************************************************************************)

(* t has a dependency row, or is about to be given its first one. *)
Depends(t) ==
  \/ \E e \in DependsOn : e[1] = t /\ dep[e] # "none"
  \/ pc["client"] = "create_dependency" /\ cur["client"] = t

Unclaimed(t) == task[t].status = "none" \/ Depends(t)

ClientWritePC == ClientTaskOp \cup {"ready"}

(* Nobody has taken t up, and a client that has read its row cancels it. *)
HeldBack(t) ==
  /\ task[t].status \in {"none", "waiting_for_dependency", "cancelled"}
  /\ attempt[t] = <<>>
  /\ ~WorkedOn(t)
  /\ cur["client"] = t /\ pc["client"] \in ClientWritePC => pc["client"] = "cancelled"

DependInv ==
  /\ pc["session"] \in {"schedule", "ready", "wait_for_dependency"} =>
       cur["session"] \in Goal
  /\ todo["session"] \subseteq Goal
  /\ pc["client"] \in {"idle", "publish"} => cur["client"] = NoTask
  /\ pc["client"] = "create_dependency" => cur["client"] \in Added
  /\ \A e \in DependsOn : dep[e] # "none" => e[1] \in Added
  /\ \A t \in Added : Unclaimed(t) => HeldBack(t)

LEMMA DependInit == RecoveryInit => DependInv
<1> SUFFICES ASSUME RecoveryInit PROVE DependInv
  OBVIOUS
<1>1. /\ pc["session"] = "create" /\ pc["client"] = "idle"
      /\ cur["client"] = NoTask /\ todo["session"] = {}
      /\ \A l \in Loop : pc[l] = "idle"
      /\ \A e \in DependsOn : dep[e] = "none"
  BY ConstantsAssumption DEF RecoveryInit, Init, Thread
<1>2. \A t \in Added : HeldBack(t)
  BY <1>1, ConstantsAssumption
     DEF RecoveryInit, Init, NoRow, HeldBack, WorkedOn, Working, WorkPC
<1> QED
  BY <1>1, <1>2 DEF DependInv

(* A step that leaves t as it is, and the client with it. *)
LEMMA StaysBack ==
  ASSUME NEW t, HeldBack(t), task'[t] = task[t], attempt'[t] = attempt[t],
         WorkedOn(t)' => WorkedOn(t),
         pc'["client"] = pc["client"], cur'["client"] = cur["client"]
  PROVE  HeldBack(t)'
  BY DEF HeldBack

(* The request writes the rows of its goals only. *)
LEMMA DependSession ==
  ASSUME TypeOK, DependInv, SessionStep \/ AdmissionFails \/ WaitTimeout
  PROVE  DependInv'
<1> USE DEF rows
<1>a. /\ DOMAIN pc = Thread /\ DOMAIN cur = Thread /\ DOMAIN todo = Thread
      /\ Loop \subseteq Thread /\ "session" \in Thread /\ "client" \in Thread
      /\ "session" \notin Loop /\ "client" \notin Loop
      /\ \A label : Goto("session", label) =>
           pc'["session"] = label /\ \A o \in Thread \ {"session"} : pc'[o] = pc[o]
      /\ Added \subseteq Task /\ Goal \subseteq Task
  BY ThreadFacts, ConstantsAssumption DEF TypeOK, PCOK, Goal
<1>b. UNCHANGED <<attempt, dep>>
  BY DEF SessionStep, CreateMission, CreateTask, ScheduleCreated, ReadyCreated,
       FirstPassDone, SecondPassRead, SecondPassWrite, PlanRead, PlanWrite,
       StartRead, StartWrite, WaitRead, Subscribe, Recheck, Woken, Answer,
       AdmissionFails, WaitTimeout
<1>c. \A o \in Thread \ {"session"} : pc'[o] = pc[o] /\ cur'[o] = cur[o]
  <2>1. UNCHANGED pc \/ \E label : Goto("session", label)
    BY DEF SessionStep, CreateMission, CreateTask, ScheduleCreated, ReadyCreated,
       FirstPassDone, SecondPassRead, SecondPassWrite, PlanRead, PlanWrite,
       StartRead, StartWrite, WaitRead, Subscribe, Recheck, Woken, Answer, Report,
       ReadMission, AdmissionFails, WaitTimeout
  <2>2. UNCHANGED cur \/ \E t : cur' = [cur EXCEPT !["session"] = t]
    BY DEF SessionStep, CreateMission, CreateTask, ScheduleCreated, ReadyCreated,
       FirstPassDone, SecondPassRead, SecondPassWrite, PlanRead, PlanWrite,
       StartRead, StartWrite, WaitRead, Subscribe, Recheck, Woken, Answer,
       AdmissionFails, WaitTimeout
  <2> QED
    BY <1>a, <2>1, <2>2
<1>d. \A t \in Added : task'[t] = task[t]
  <2>1. CASE UNCHANGED task
    BY <2>1
  <2>2. ASSUME NEW u \in Goal, NEW r, NEW s, Become(u, r, s)
        PROVE  \A t \in Added : task'[t] = task[t]
    BY <1>a, <2>2, BecomeRow DEF Goal
  <2>3. CASE \E u \in Task : CreateTask(u)
    BY <2>2, <2>3 DEF CreateTask
  <2>4. CASE ScheduleCreated \/ ReadyCreated \/ SecondPassWrite
    <3>1. cur["session"] \in Goal
      BY <2>4 DEF ScheduleCreated, ReadyCreated, SecondPassWrite, At, DependInv
    <3> QED
      BY <2>2, <2>4, <3>1 DEF ScheduleCreated, ReadyCreated, SecondPassWrite
  <2> QED
    BY <2>1, <2>3, <2>4
       DEF SessionStep, CreateMission, FirstPassDone, SecondPassRead, PlanRead,
           PlanWrite, StartRead, StartWrite, WaitRead, Subscribe, Recheck, Woken,
           Answer, AdmissionFails, WaitTimeout
<1>1. /\ pc'["session"] \in {"schedule", "ready", "wait_for_dependency"} =>
           cur'["session"] \in Goal
      /\ todo'["session"] \subseteq Goal
  <2>1. ASSUME NEW u \in Task, CreateTask(u) \/ SecondPassRead(u)
        PROVE  cur'["session"] \in Goal /\ UNCHANGED todo
    BY <1>a, <2>1 DEF CreateTask, SecondPassRead, DependInv
  <2>2. CASE ScheduleCreated
    BY <1>a, <2>2 DEF ScheduleCreated, At, DependInv
  <2>3. CASE FirstPassDone
    BY <1>a, <2>3 DEF FirstPassDone
  <2>4. CASE \/ CreateMission \/ ReadyCreated \/ SecondPassWrite \/ PlanRead \/ PlanWrite
             \/ StartRead \/ StartWrite \/ WaitRead \/ Subscribe \/ Recheck \/ Woken
             \/ Answer \/ AdmissionFails \/ WaitTimeout
    <3>1. UNCHANGED todo
      BY <2>4 DEF CreateMission, ReadyCreated, SecondPassWrite, PlanRead, PlanWrite,
         StartRead, StartWrite, WaitRead, Subscribe, Recheck, Woken, Answer,
         AdmissionFails, WaitTimeout
    <3>2. pc'["session"] \notin {"schedule", "ready", "wait_for_dependency"}
      BY <1>a, <2>4
         DEF CreateMission, ReadyCreated, SecondPassWrite, PlanRead, PlanWrite,
             StartRead, StartWrite, WaitRead, Subscribe, Recheck, Woken, Answer,
             Report, ReadMission, AdmissionFails, WaitTimeout
    <3> QED
      BY <3>1, <3>2 DEF DependInv
  <2> QED
    BY <2>1, <2>2, <2>3, <2>4 DEF SessionStep, DependInv
<1>2. /\ pc'["client"] = pc["client"] /\ cur'["client"] = cur["client"]
      /\ \A l \in Loop : pc'[l] = pc[l] /\ cur'[l] = cur[l]
  BY <1>a, <1>c
<1>3. \A t \in Added : Unclaimed(t)' => Unclaimed(t)
  BY <1>b, <1>d, <1>2 DEF Unclaimed, Depends
<1>4. \A t : WorkedOn(t)' => WorkedOn(t)
  BY <1>2 DEF WorkedOn, Working
<1>5. \A t \in Added : Unclaimed(t)' => HeldBack(t)'
  BY <1>b, <1>d, <1>2, <1>3, <1>4, StaysBack DEF DependInv
<1> QED
  BY <1>b, <1>1, <1>2, <1>5 DEF DependInv

(* What a client does to the row of a task that nobody has taken up: it    *)
(* creates it, gives it dependency rows or cancels it.                     *)
LEMMA DependClient ==
  ASSUME TypeOK, DependInv, ClientCall \/ ClientStep
  PROVE  DependInv'
<1> USE DEF rows
<1>a. /\ DOMAIN pc = Thread /\ DOMAIN cur = Thread /\ DOMAIN dep = DependsOn
      /\ Loop \subseteq Thread /\ "session" \in Thread /\ "client" \in Thread
      /\ "session" \notin Loop /\ "client" \notin Loop
      /\ \A label : Goto("client", label) =>
           pc'["client"] = label /\ \A o \in Thread \ {"client"} : pc'[o] = pc[o]
      /\ Added \subseteq Task /\ NoTask \notin Task
      /\ ClientTaskOp \subseteq {"scheduled", "running", "paused", "cancelled",
                                 "retrying"}
      /\ ClientMissionOp \subseteq {"running", "paused", "cancelled"}
  BY ThreadFacts, ConstantsAssumption DEF TypeOK, PCOK
<1>b. /\ UNCHANGED <<attempt, todo>>
      /\ \A o \in Thread \ {"client"} : pc'[o] = pc[o] /\ cur'[o] = cur[o]
  <2>1. CASE ClientCall
    BY <1>a, <2>1 DEF ClientCall, ClientCreate, ClientTaskRead, ClientMissionRead
  <2>2. CASE ClientStep
    BY <1>a, <2>2 DEF ClientStep, ClientTaskWrite, CreateDependency,
                      ClientMissionWrite, ClientPublish
  <2> QED
    BY <2>1, <2>2
<1>c. /\ pc'["session"] = pc["session"] /\ cur'["session"] = cur["session"]
      /\ \A t : WorkedOn(t)' <=> WorkedOn(t)
  BY <1>a, <1>b DEF WorkedOn, Working
<1>1. ASSUME NEW u \in Task, ClientCreate(u) PROVE DependInv'
  <2>1. /\ u \in Added /\ task[u].status = "none" /\ UNCHANGED dep
        /\ Become(u, NoRow, "waiting_for_dependency")
        /\ pc'["client"] = "create_dependency" /\ cur'["client"] = u
        /\ pc["client"] = "idle"
    BY <1>a, <1>1 DEF ClientCreate, At
  <2>2. /\ task'[u].status = "waiting_for_dependency"
        /\ \A t \in Task \ {u} : task'[t] = task[t]
    BY <2>1, NoRowType, BecomeStatus
  <2>3. \A t \in Added : Unclaimed(t)' => Unclaimed(t)
    BY <1>a, <2>1, <2>2 DEF Unclaimed, Depends
  <2>4. \A t \in Added : Unclaimed(t)' => HeldBack(t)'
    <3> SUFFICES ASSUME NEW t \in Added, Unclaimed(t)' PROVE HeldBack(t)'
      OBVIOUS
    <3>1. HeldBack(t)
      BY <2>3 DEF DependInv
    <3>2. task'[t].status \in {"none", "waiting_for_dependency", "cancelled"}
      BY <1>a, <2>2, <3>1 DEF HeldBack
    <3>3. pc'["client"] \notin ClientWritePC
      BY <1>a, <2>1 DEF ClientWritePC
    <3> QED
      BY <1>b, <1>c, <3>1, <3>2, <3>3 DEF HeldBack, ClientWritePC
  <2> QED
    BY <1>b, <1>c, <2>1, <2>4 DEF DependInv
<1>2. ASSUME NEW to \in ClientTaskOp, NEW u \in Task, ClientTaskRead(to, u)
      PROVE  DependInv'
  <2>1. /\ UNCHANGED <<task, dep>> /\ pc["client"] = "idle"
        /\ pc'["client"] = to /\ cur'["client"] = u
        /\ to \in TaskSuccessors(task[u].status)
    BY <1>a, <1>2 DEF ClientTaskRead, At, ClientMay, validate_task_transition
  <2>2. to \notin {"idle", "publish", "create_dependency"}
    BY <1>a
  <2>3. \A t \in Added : Unclaimed(t)' => Unclaimed(t)
    BY <2>1, <2>2 DEF Unclaimed, Depends
  <2>4. ASSUME task[u].status \in {"none", "waiting_for_dependency", "cancelled"}
        PROVE  to = "cancelled"
    BY <1>a, <2>1, <2>4 DEF TaskSuccessors
  <2>5. \A t \in Added : Unclaimed(t)' => HeldBack(t)'
    <3> SUFFICES ASSUME NEW t \in Added, Unclaimed(t)' PROVE HeldBack(t)'
      OBVIOUS
    <3>1. HeldBack(t)
      BY <2>3 DEF DependInv
    <3> QED
      BY <1>b, <1>c, <2>1, <2>4, <3>1 DEF HeldBack, ClientWritePC
  <2> QED
    BY <1>b, <1>c, <2>1, <2>2, <2>5 DEF DependInv
<1>3. CASE ClientTaskWrite
  <2> DEFINE u == cur["client"]
             to == pc["client"]
  <2>1. /\ to \in ClientWritePC /\ u \in Task /\ UNCHANGED dep
        /\ Become(u, row["client"], to) /\ row["client"] \in TaskRow
        /\ \/ pc'["client"] = "idle" /\ cur'["client"] = NoTask
           \/ to = "retrying" /\ pc'["client"] = "ready" /\ UNCHANGED cur
    BY <1>3, <1>a DEF ClientTaskWrite, ClientWritePC, TypeOK, PCOK
  <2>2. /\ task'[u].status = to /\ to # "none" /\ to # "create_dependency"
        /\ \A t \in Task \ {u} : task'[t] = task[t]
    BY <1>a, <2>1, BecomeStatus DEF ClientWritePC
  <2>3. \A t \in Added : Unclaimed(t)' => Unclaimed(t)
    BY <1>a, <2>1, <2>2 DEF Unclaimed, Depends
  <2>4. \A t \in Added : Unclaimed(t)' => HeldBack(t)'
    <3> SUFFICES ASSUME NEW t \in Added, Unclaimed(t)' PROVE HeldBack(t)'
      OBVIOUS
    <3>1. HeldBack(t) /\ t # NoTask
      BY <1>a, <2>3 DEF DependInv
    <3>2. CASE t = u
      <4>1. to = "cancelled"
        BY <2>1, <3>1, <3>2 DEF HeldBack
      <4> QED
        BY <1>b, <1>c, <2>1, <2>2, <3>1, <3>2, <4>1 DEF HeldBack
    <3>3. CASE t # u
      <4>1. task'[t] = task[t] /\ cur'["client"] # t
        BY <1>a, <2>1, <2>2, <3>1, <3>3
      <4> QED
        BY <1>b, <1>c, <3>1, <4>1 DEF HeldBack
    <3> QED
      BY <3>2, <3>3
  <2> QED
    BY <1>b, <1>c, <2>1, <2>4 DEF DependInv
<1>4. ASSUME NEW e \in DependsOn, CreateDependency(e) PROVE DependInv'
  <2>1. /\ UNCHANGED task /\ dep' = [dep EXCEPT ![e] = "waiting"]
        /\ pc["client"] = "create_dependency" /\ e[1] = cur["client"]
        /\ \/ pc'["client"] = "idle" /\ cur'["client"] = NoTask
           \/ UNCHANGED <<pc, cur>>
    BY <1>4, <1>a DEF CreateDependency, At
  <2>2. e[1] \in Added
    BY <2>1 DEF DependInv
  <2>3. \A d \in DependsOn : dep'[d] # "none" => dep[d] # "none" \/ d = e
    BY <1>a, <2>1
  <2>4. \A t \in Added : Unclaimed(t)' => Unclaimed(t)
    BY <2>1, <2>3 DEF Unclaimed, Depends
  <2>5. \A t \in Added : Unclaimed(t)' => HeldBack(t)'
    <3> SUFFICES ASSUME NEW t \in Added, Unclaimed(t)' PROVE HeldBack(t)'
      OBVIOUS
    <3>1. HeldBack(t) /\ t # NoTask
      BY <1>a, <2>4 DEF DependInv
    <3> QED
      BY <1>b, <1>c, <2>1, <3>1 DEF HeldBack
  <2> QED
    BY <1>b, <1>c, <2>1, <2>2, <2>3, <2>5 DEF DependInv
<1>5. CASE (\E to \in ClientMissionOp : ClientMissionRead(to)) \/ ClientMissionWrite
             \/ ClientPublish
  <2>1. /\ UNCHANGED <<task, dep, cur>> /\ cur["client"] = NoTask
        /\ pc'["client"] # "create_dependency"
    BY <1>5, <1>a DEF ClientMissionRead, ClientMissionWrite, ClientPublish, At, DependInv
  <2>2. \A t \in Added : Unclaimed(t)' => Unclaimed(t)
    BY <2>1 DEF Unclaimed, Depends
  <2>3. \A t \in Added : Unclaimed(t)' => HeldBack(t)'
    BY <1>a, <1>b, <1>c, <2>1, <2>2 DEF HeldBack, DependInv
  <2> QED
    BY <1>b, <1>c, <2>1, <2>3 DEF DependInv
<1> QED
  BY <1>1, <1>2, <1>3, <1>4, <1>5 DEF ClientCall, ClientStep

(* A loop leaves alone a task that it neither works on nor finds READY. *)
LEMMA LoopLeaves ==
  ASSUME WorkInv, NEW l \in Loop, LoopStep(l), NEW t \in Task,
         ~WorkedOn(t), task[t].status # "ready"
  PROVE  task'[t] = task[t] /\ attempt'[t] = attempt[t] /\ ~WorkedOn(t)'
<1> USE DEF rows, control
<1>a. /\ TypeOK /\ l \in Thread /\ Loop \subseteq Thread
      /\ DOMAIN cur = Thread /\ DOMAIN attempt = Task
      /\ \A o \in Loop \ {l} : pc'[o] = pc[o] /\ cur'[o] = cur[o]
      /\ \A label : Goto(l, label) => pc'[l] = label
      /\ Working(l) => cur[l] \in Task \ {t}
  BY LoopFrame, ThreadFacts DEF WorkInv, TypeOK, PCOK, Working, WorkPC, WorkedOn
<1>b. ASSUME Working(l)' => Working(l) /\ cur'[l] = cur[l]
      PROVE  ~WorkedOn(t)'
  BY <1>a, <1>b DEF WorkedOn, Working
<1>c. ASSUME NEW u \in Task, u # t, NEW r, NEW s, Become(u, r, s)
      PROVE  task'[t] = task[t]
  <2>1. \A o \in Task \ {u} : task'[o] = task[o]
    BY <1>a, <1>c, BecomeRow
  <2> QED
    BY <1>c, <2>1
<1>d. ASSUME Working(l), NEW field, NEW s, SetAttempt(cur[l], field, s)
      PROVE  attempt'[t] = attempt[t]
  BY <1>a, <1>d, AttemptElsewhere
<1>1. CASE SelectTask(l, t) \/ \E u \in Task : SelectTask(l, u)
  BY <1>1, <1>a, <1>b DEF SelectTask, Working, WorkPC
<1>2. CASE ClaimTask(l)
  <2>1. CASE cur[l] = t
    BY <1>2, <1>a, <1>b, <2>1 DEF ClaimTask, Working, WorkPC
  <2>2. CASE cur[l] # t
    <3>1. cur[l] \in Task /\ UNCHANGED attempt
      BY <1>2 DEF ClaimTask, At, WorkInv, TypeOK, PCOK
    <3>2. task'[t] = task[t]
      <4>1. UNCHANGED task \/ Become(cur[l], task[cur[l]], "running")
        BY <1>2 DEF ClaimTask
      <4> QED
        BY <1>c, <2>2, <3>1, <4>1
    <3>3. cur'[l] # t
      BY <1>2, <1>a, <2>2, ConstantsAssumption DEF ClaimTask
    <3>4. ~WorkedOn(t)'
      BY <1>a, <3>3 DEF WorkedOn, Working
    <3> QED
      BY <3>1, <3>2, <3>4
  <2> QED
    BY <2>1, <2>2
<1>3. CASE \/ RegisterActive(l) \/ Prepare(l) \/ Dispatch(l) \/ TryFallback(l) \/ PlanStep(l)
           \/ ProgressRead(l) \/ CompleteRead(l) \/ ListDependents(l) \/ DependentsDone(l)
           \/ FailRead(l) \/ ListTasks(l) \/ MissionRead(l) \/ MissionWrite(l)
           \/ PublishEnd(l) \/ DiscardActive(l)
  <2>1. UNCHANGED <<task, attempt>>
    BY <1>3 DEF RegisterActive, Prepare, Dispatch, TryFallback, PlanStep, ProgressRead,
       CompleteRead, ListDependents, DependentsDone, FailRead, ListTasks, MissionRead,
       MissionWrite, PublishEnd, DiscardActive
  <2>2. Working(l)' => Working(l) /\ cur'[l] = cur[l]
    <3>1. CASE Working(l) /\ UNCHANGED cur
      BY <3>1
    <3>2. CASE ~Working(l) \/ ~UNCHANGED cur
      BY <1>3, <1>a, <3>2
         DEF RegisterActive, Prepare, Dispatch, TryFallback, PlanStep, ProgressRead,
             CompleteRead, ListDependents, DependentsDone, FailRead, ListTasks,
             MissionRead, MissionWrite, PublishEnd, DiscardActive, ReadTask,
             ReadMission, At, Working, WorkPC
    <3> QED
      BY <3>1, <3>2
  <2> QED
    BY <1>b, <2>1, <2>2
<1>4. CASE ProgressWrite(l) \/ CompleteWrite(l) \/ FailWrite(l)
  <2>1. Working(l) /\ UNCHANGED <<attempt, cur>>
    BY <1>4 DEF ProgressWrite, CompleteWrite, FailWrite, At, Working, WorkPC
  <2>2. cur[l] \in Task /\ cur[l] # t
    BY <1>a, <2>1
  <2>3. task'[t] = task[t]
    BY <1>4, <1>c, <2>2 DEF ProgressWrite, CompleteWrite, FailWrite
  <2> QED
    BY <1>b, <2>1, <2>3
<1>5. CASE SpawnExecution(l)
  <2>1. /\ Working(l) /\ UNCHANGED <<task, cur>>
        /\ attempt' = [attempt EXCEPT ![cur[l]] =
                         Append(@, [execution |-> "created", worker |-> "none"])]
    BY <1>5 DEF SpawnExecution, At, Working, WorkPC
  <2>2. attempt'[t] = attempt[t]
    BY <1>a, <2>1
  <2> QED
    BY <1>a, <1>b, <2>1, <2>2
<1>6. CASE SpawnWorker(l) \/ WorkerStart(l) \/ WorkerComplete(l) \/ WorkerFail(l)
  <2>1. Working(l) /\ UNCHANGED <<task, cur>>
    BY <1>6 DEF SpawnWorker, WorkerStart, WorkerComplete, WorkerFail, WorkerValidated,
                WorkerUpdate, At, Working, WorkPC
  <2>2. UNCHANGED attempt \/ \E field, s : SetAttempt(cur[l], field, s)
    BY <1>6 DEF SpawnWorker, WorkerStart, WorkerComplete, WorkerFail, WorkerValidated,
                WorkerUpdate
  <2> QED
    BY <1>a, <1>b, <1>d, <2>1, <2>2
<1>7. ASSUME NEW u \in Task, PromoteDependent(l, u)
      PROVE  UNCHANGED <<task, attempt, pc, cur>>
  <2>1. <<u, cur[l]>> \in DependsOn /\ dep[<<u, cur[l]>>] = "waiting"
    BY <1>7 DEF PromoteDependent, At, WorkInv, DependentsWait
  <2> QED
    BY <1>7, <2>1 DEF PromoteDependent, are_all_dependencies_satisfied
<1>8. ASSUME NEW u \in Task, PromoteDependent(l, u)
      PROVE  task'[t] = task[t] /\ attempt'[t] = attempt[t] /\ ~WorkedOn(t)'
  BY <1>7, <1>8 DEF WorkedOn, Working
<1> QED
  BY <1>1, <1>2, <1>3, <1>4, <1>5, <1>6, <1>8 DEF LoopStep

(* A loop takes no row away, and no dependency row is its work. *)
LEMMA LoopKeepsRows ==
  ASSUME WorkInv, NEW l \in Loop, LoopStep(l)
  PROVE  /\ UNCHANGED dep
         /\ \A t \in Task : task'[t].status = "none" => task[t].status = "none"
<1> USE DEF rows
<1>a. TypeOK /\ l \in Thread
  BY DEF WorkInv, Thread
<1>b. /\ row[l] \in TaskRow
      /\ pc[l] # "idle" => cur[l] \in Task /\ task[cur[l]] \in TaskRow
  BY <1>a DEF TypeOK, PCOK
<1>c. ASSUME NEW u \in Task, NEW r \in TaskRow, NEW s, s # "none", Become(u, r, s)
      PROVE  \A t \in Task : task'[t].status = "none" => task[t].status = "none"
  <2>1. task'[u].status = s /\ \A t \in Task \ {u} : task'[t] = task[t]
    BY <1>a, <1>c, BecomeStatus
  <2> QED
    BY <1>c, <2>1
<1>1. ASSUME NEW u \in Task, PromoteDependent(l, u) PROVE UNCHANGED <<task, dep>>
  <2>1. <<u, cur[l]>> \in DependsOn /\ dep[<<u, cur[l]>>] = "waiting"
    BY <1>1 DEF PromoteDependent, At, WorkInv, DependentsWait
  <2> QED
    BY <1>1, <2>1 DEF PromoteDependent, are_all_dependencies_satisfied
<1>2. CASE ClaimTask(l)
  <2>1. /\ pc[l] = "claim" /\ UNCHANGED dep
        /\ UNCHANGED task \/ Become(cur[l], task[cur[l]], "running")
    BY <1>2 DEF ClaimTask, At
  <2> QED
    BY <1>b, <1>c, <2>1
<1>3. CASE ProgressWrite(l)
  <2>1. /\ pc[l] = "progress_write" /\ UNCHANGED dep
        /\ Become(cur[l], row[l], row[l].status)
    BY <1>3 DEF ProgressWrite, At
  <2>2. row[l].status # "none"
    BY <2>1 DEF WorkInv, RowAtWork, Working, WorkPC, Busy
  <2> QED
    BY <1>b, <1>c, <2>1, <2>2
<1>4. CASE CompleteWrite(l)
  <2>1. /\ pc[l] = "complete_write" /\ UNCHANGED dep
        /\ Become(cur[l], row[l], "completed")
    BY <1>4 DEF CompleteWrite, At
  <2> QED
    BY <1>b, <1>c, <2>1
<1>5. CASE FailWrite(l)
  <2>1. /\ pc[l] \in {"fail_only", "fail"} /\ UNCHANGED dep
        /\ Become(cur[l], CountRetry(row[l]), "failed")
    BY <1>5 DEF FailWrite, At
  <2>2. CountRetry(row[l]) \in TaskRow
    BY <1>b, ConstantsAssumption DEF CountRetry, TaskRow
  <2> QED
    BY <1>b, <1>c, <2>1, <2>2
<1> QED
  BY <1>1, <1>2, <1>3, <1>4, <1>5
     DEF LoopStep, SelectTask, RegisterActive, Prepare, SpawnExecution,
         SpawnWorker, WorkerStart, WorkerUpdate, WorkerValidated, Dispatch,
         WorkerComplete, WorkerFail, TryFallback, PlanStep, ProgressRead,
         CompleteRead, ListDependents, DependentsDone, FailRead, ListTasks,
         MissionRead, MissionWrite, PublishEnd, DiscardActive

LEMMA DependLoop ==
  ASSUME WorkInv, DependInv, NEW l \in Loop, LoopStep(l)
  PROVE  DependInv'
<1>a. /\ TypeOK /\ l # "session" /\ l # "client" /\ Added \subseteq Task
      /\ DOMAIN todo = Thread /\ l \in Thread /\ "session" \in Thread
  BY ThreadFacts, ConstantsAssumption DEF WorkInv, TypeOK
<1>1. /\ pc'["session"] = pc["session"] /\ cur'["session"] = cur["session"]
      /\ pc'["client"] = pc["client"] /\ cur'["client"] = cur["client"]
  BY <1>a, LoopFrame DEF Thread
<1>2. todo'["session"] = todo["session"]
  <2>1. UNCHANGED todo \/ \E s : todo' = [todo EXCEPT ![l] = s]
    BY DEF LoopStep, SelectTask, ClaimTask, RegisterActive, Prepare, SpawnExecution,
           SpawnWorker, WorkerStart, WorkerUpdate, WorkerValidated, Dispatch,
           WorkerComplete, WorkerFail, TryFallback, PlanStep, ProgressRead,
           ProgressWrite, CompleteRead, CompleteWrite, ListDependents,
           PromoteDependent, DependentsDone, FailRead, FailWrite, ListTasks,
           MissionRead, MissionWrite, PublishEnd, DiscardActive
  <2> QED
    BY <1>a, <2>1, Zenon
<1>3. /\ UNCHANGED dep
      /\ \A t \in Added : Unclaimed(t)' => Unclaimed(t)
  BY <1>a, <1>1, LoopKeepsRows DEF Unclaimed, Depends
<1>4. ASSUME NEW t \in Added, HeldBack(t) PROVE HeldBack(t)'
  <2>1. task'[t] = task[t] /\ attempt'[t] = attempt[t] /\ ~WorkedOn(t)'
    BY <1>a, <1>4, LoopLeaves DEF HeldBack
  <2> QED
    BY <1>1, <1>4, <2>1, StaysBack
<1> QED
  BY <1>1, <1>2, <1>3, <1>4 DEF DependInv

(* Recovery finds a dependency row of the task that waits. *)
LEMMA DependRecovery ==
  ASSUME RecoveryInv, DependInv, RecoveryStep
  PROVE  DependInv'
<1>1. /\ recovery # "off"
      /\ UNCHANGED <<dep, attempt, pc, cur, todo>>
      /\ UNCHANGED task \/ \E t \in Task : Recovered(t)
  BY RecoveryWrites DEF control
<1>2. /\ pc["client"] = "idle" /\ cur["client"] = NoTask
      /\ Added \subseteq Task /\ NoTask \notin Task
  BY <1>1, ConstantsAssumption DEF RecoveryInv, Alone, DependInv
<1>3. ASSUME NEW t \in Added, Unclaimed(t)' PROVE task'[t] = task[t]
  <2>1. ASSUME NEW u \in Task, Recovered(u) PROVE task'[t] = task[t]
    <3>1. CASE u # t
      BY <1>2, <2>1, <3>1 DEF Recovered
    <3>2. CASE u = t
      <4>1. /\ task[t].status \notin {"none", "cancelled"}
            /\ task'[t].status # "none"
            /\ task[t].status = "waiting_for_dependency" =>
                 are_all_dependencies_satisfied(t)
        BY <2>1, <3>2 DEF Recovered
      <4>2. PICK e \in DependsOn : e[1] = t /\ dep[e] # "none"
        BY <1>1, <1>2, <1>3, <4>1 DEF Unclaimed, Depends
      <4>3. ~are_all_dependencies_satisfied(t)
        BY <4>2 DEF RecoveryInv, WorkInv, NothingIsSatisfied,
                    are_all_dependencies_satisfied
      <4>4. HeldBack(t)
        BY <4>2 DEF DependInv, Unclaimed, Depends
      <4> QED
        BY <4>1, <4>3, <4>4 DEF HeldBack
    <3> QED
      BY <3>1, <3>2
  <2> QED
    BY <1>1, <2>1
<1>4. ASSUME NEW t \in Added, Unclaimed(t)' PROVE HeldBack(t)'
  <2>1. Unclaimed(t)
    BY <1>1, <1>3, <1>4 DEF Unclaimed, Depends
  <2>2. WorkedOn(t)' => WorkedOn(t)
    BY <1>1 DEF WorkedOn, Working
  <2> QED
    BY <1>1, <1>3, <1>4, <2>1, <2>2, StaysBack DEF DependInv
<1> QED
  BY <1>1, <1>4 DEF DependInv

LEMMA DependCrash ==
  ASSUME DependInv, Crash
  PROVE  DependInv'
<1>1. /\ UNCHANGED <<task, dep, attempt>>
      /\ pc'["session"] = "error" /\ todo'["session"] = {}
      /\ pc'["client"] = "idle" /\ cur'["client"] = NoTask
      /\ \A l \in Loop : pc'[l] = "idle"
  BY ConstantsAssumption DEF Crash, rows, Thread
<1>2. \A t : Unclaimed(t)' => Unclaimed(t)
  BY <1>1 DEF Unclaimed, Depends
<1>3. \A t \in Added : HeldBack(t) => HeldBack(t)'
  BY <1>1, ConstantsAssumption DEF HeldBack, WorkedOn, Working, WorkPC
<1> QED
  BY <1>1, <1>2, <1>3 DEF DependInv

(* For every number of tasks, loops, crashes and checkpoints, and whatever *)
(* statuses clients ask for: a task that create() has given a dependency   *)
(* row is neither READY nor executed, whichever commit of its creation, of *)
(* an execution or of recovery is the last before a crash.                 *)
THEOREM RecordedDependencyKept == RecoverySpec => []RecordedDependencyHolds
<1>1. RecoveryInv /\ DependInv /\ [RecoveryNext]_allvars => DependInv'
  <2> SUFFICES ASSUME RecoveryInv, DependInv, [RecoveryNext]_allvars
               PROVE  DependInv'
    OBVIOUS
  <2>1. WorkInv /\ TypeOK
    BY DEF RecoveryInv, WorkInv
  <2>2. CASE ServerUp /\ Next
    BY <2>1, <2>2, DependSession, DependClient, DependLoop DEF Next
  <2>3. CASE CheckpointStep \/ UNCHANGED allvars
    <3>1. UNCHANGED <<task, dep, attempt, pc, cur, todo>>
      BY <2>3 DEF CheckpointStep, CreateCheckpoint, ValidateCheckpoint,
                  invalidate_old_checkpoints, allvars, vars, rows, control
    <3> QED
      BY <3>1 DEF DependInv, Unclaimed, Depends, HeldBack, WorkedOn, Working
  <2> QED
    BY <2>2, <2>3, DependRecovery, DependCrash DEF RecoveryNext
<1>2. DependInv => RecordedDependencyHolds
  <2> SUFFICES ASSUME DependInv, NEW e \in DependsOn, dep[e] = "waiting"
               PROVE  task[e[1]].status # "ready" /\ attempt[e[1]] = <<>>
    BY DEF RecordedDependencyHolds
  <2>1. e[1] \in Added /\ Unclaimed(e[1])
    BY DEF DependInv, Unclaimed, Depends
  <2> QED
    BY <2>1 DEF DependInv, HeldBack
<1> QED
  BY <1>1, <1>2, DependInit, RecoveryInductive, PTL DEF RecoverySpec
=============================================================================
