------------------------------ MODULE TaskQueue ------------------------------
(***************************************************************************)
(* What the table of READY tasks promises the executor loops, whatever the *)
(* managers' reads and writes in between: a task that is offered is taken  *)
(* by one loop, is off the queue while that loop works on it, and can be   *)
(* offered again only when nobody works on it.  Who offers a task (the     *)
(* request thread, a retry, a promotion) and who withdraws it (a schedule, *)
(* pause or cancel of the managers) is left open.                          *)
(***************************************************************************)
CONSTANTS
  Task,       \* the tasks
  Loop,       \* the executor loops
  NoTask      \* no task

VARIABLES
  offered,    \* the tasks whose row is READY
  work        \* per loop, the task it works on or NoTask

vars == <<offered, work>>

Idle(t) == \A l \in Loop : work[l] # t

Init == offered = {} /\ work = [l \in Loop |-> NoTask]

(* A row is made READY: only that of a task nobody works on. *)
Offer(t) ==
  /\ t \notin offered
  /\ Idle(t)
  /\ offered' = offered \cup {t}
  /\ UNCHANGED work

(* A READY row is overwritten with another status before it is claimed. *)
Withdraw(t) ==
  /\ t \in offered
  /\ offered' = offered \ {t}
  /\ UNCHANGED work

(* claim_ready_task returns the row to the loop: one atomic step. *)
Take(l, t) ==
  /\ t \in offered
  /\ work[l] = NoTask
  /\ offered' = offered \ {t}
  /\ work' = [work EXCEPT ![l] = t]

(* The execution is over: completed, failed, or found to be refused. *)
Finish(l) ==
  /\ work[l] # NoTask
  /\ work' = [work EXCEPT ![l] = NoTask]
  /\ UNCHANGED offered

Next ==
  \/ \E t \in Task : Offer(t) \/ Withdraw(t)
  \/ \E l \in Loop : Finish(l) \/ \E t \in Task : Take(l, t)

Spec == Init /\ [][Next]_vars
=============================================================================
