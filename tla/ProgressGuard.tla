------------------------------ MODULE ProgressGuard ------------------------------
(***************************************************************************)
(* ToolManager._execute_driver_with_progress_guard                         *)
(* (src/parika/core/tool_manager/tool_manager.py) in several threads at    *)
(* once, over one EventBus: each execution subscribes to the progress      *)
(* channels, runs its driver, which reports the progress of its node       *)
(* (src/parika/core/utilities/progress.py), closes the node if the driver   *)
(* raised without doing so, and unsubscribes.                              *)
(*                                                                         *)
(* A thread executes at most one tool.  A tool has one driver, and that has *)
(* one ProgressReporter, whose progress_id is made with it, so that the    *)
(* executions of a tool that overlap report about one node.  The driver    *)
(* reports in the thread that executes it.                                 *)
(***************************************************************************)
EXTENDS EventBus, FiniteSets

CONSTANTS
  Tool,     \* the tools, whose names are also those of their nodes
  Reporter, \* the tools whose drivers report progress
  NoTool,   \* no tool
  Uses      \* which tool, if any, each thread may come to execute

ASSUME GuardAssumption ==
  /\ Reporter \subseteq Tool
  /\ NoTool \notin Tool
  /\ Uses \subseteq [Thread -> Tool \cup {NoTool}]
  /\ Channel = {"started", "completed", "failed"}

Stages == <<"started", "completed", "failed">>

VARIABLES
  tool,      \* per execution, the tool that it executes
  at,        \* per execution, the next statement of the guard
  turn,      \* per execution, the place in Stages of its next (un)subscription
  node,      \* per execution, the node of the event that it publishes
  noted,     \* per execution, the nodes in started_events
  ended,     \* per execution, the nodes in terminated_progress_ids
  left,      \* per execution, the nodes that its cleanup has yet to look at
  closed,    \* per execution, the nodes that its cleanup has failed
  reported,  \* per execution, what its driver has reported last
  over,      \* the executions whose node has received a terminal event since
             \* their driver started it
  heard,     \* per execution, who has heard the event that it publishes
  disturbed  \* the executions during one of whose publications another
             \* execution left the list of subscribers

guard     == <<tool, at, turn, node, noted, ended, left, closed, reported>>
history   == <<over, heard, disturbed>>
guardvars == <<bus, guard, history>>

GuardInit ==
  /\ BusInit
  /\ tool \in Uses
  /\ at = [t \in Thread |-> IF tool[t] = NoTool THEN "done" ELSE "subscribe"]
  /\ turn = [t \in Thread |-> 1]
  /\ node = tool
  /\ noted = [t \in Thread |-> {}]
  /\ ended = [t \in Thread |-> {}]
  /\ left = [t \in Thread |-> {}]
  /\ closed = [t \in Thread |-> {}]
  /\ reported = [t \in Thread |-> "none"]
  /\ over = {}
  /\ heard = [t \in Thread |-> {}]
  /\ disturbed = {}

(* The next of the three channels; after the last one, the statement next. *)
Turn(t, next) ==
  /\ turn' = [turn EXCEPT ![t] = IF @ = 3 THEN 1 ELSE @ + 1]
  /\ at' = [at EXCEPT ![t] = IF turn[t] = 3 THEN next ELSE @]
  /\ UNCHANGED <<tool, node, noted, ended, left, closed, reported, history>>

SubscribeNext(t) ==
  /\ at[t] = "subscribe"
  /\ Subscribe(t, Stages[turn[t]])
  /\ Turn(t, "execute")

UnsubscribeNext(t) ==
  /\ at[t] = "unsubscribe"
  /\ Unsubscribe(t, Stages[turn[t]])
  /\ Turn(t, "done")

(* An event about the node x.  (_publish() publishes it on a channel of its *)
(* source before, which the executions do not subscribe to.)                *)
Send(t, stage, x) ==
  /\ Publish(t, stage)
  /\ node' = [node EXCEPT ![t] = x]
  /\ over' = IF stage = "started" THEN over
             ELSE over \cup {u \in Thread : tool[u] = x /\ reported[u] # "none"}
  /\ heard' = [heard EXCEPT ![t] = {}]
  /\ UNCHANGED <<tool, turn, noted, ended, disturbed>>
-----------------------------------------------------------------------------
(***************************************************************************)
(* The driver.                                                             *)
(***************************************************************************)
Reports(t) == tool[t] \in Reporter

(* A driver that does not report, or that has completed its node, returns. *)
Finish(t) ==
  /\ \/ at[t] = "execute" /\ ~Reports(t)
     \/ at[t] = "completed"
  /\ call[t] = "idle"
  /\ at' = [at EXCEPT ![t] = "unsubscribe"]
  /\ UNCHANGED <<bus, tool, turn, node, noted, ended, left, closed, reported, history>>

Started(t) ==
  /\ Reports(t)
  /\ at[t] = "execute"
  /\ Send(t, "started", tool[t])
  /\ at' = [at EXCEPT ![t] = "work"]
  /\ reported' = [reported EXCEPT ![t] = "started"]
  /\ UNCHANGED <<left, closed>>

Completed(t) ==
  /\ at[t] = "work"
  /\ Send(t, "completed", tool[t])
  /\ at' = [at EXCEPT ![t] = "completed"]
  /\ reported' = [reported EXCEPT ![t] = "completed"]
  /\ UNCHANGED <<left, closed>>

(* It reports that it has failed and raises: some drivers do so even after *)
(* they have completed their node, when what they are about to return      *)
(* cannot be made ...                                                      *)
Failed(t) ==
  /\ at[t] \in {"work", "completed"}
  /\ Send(t, "failed", tool[t])
  /\ at' = [at EXCEPT ![t] = "raise"]
  /\ reported' = [reported EXCEPT ![t] = "failed"]
  /\ UNCHANGED <<left, closed>>

(* ... or it raises without a report: before it has started its node, at   *)
(* work, or after it has completed it.                                     *)
Raise(t) ==
  /\ at[t] \in {"execute", "work", "completed"}
  /\ call[t] = "idle"
  /\ at' = [at EXCEPT ![t] = "raise"]
  /\ UNCHANGED <<bus, tool, turn, node, noted, ended, left, closed, reported, history>>
-----------------------------------------------------------------------------
(***************************************************************************)
(* _fail_unterminated_progress.                                            *)
(***************************************************************************)
Caught(t) ==
  /\ at[t] = "raise"
  /\ call[t] = "idle"
  /\ left' = [left EXCEPT ![t] = noted[t]]
  /\ at' = [at EXCEPT ![t] = "close"]
  /\ UNCHANGED <<bus, tool, turn, node, noted, ended, closed, reported, history>>

(* Mutant: the nodes that have ended are closed once more. *)
Open_All(t, x) == x \in left[t]

Open(t, x) == x \in left[t] /\ x \notin ended[t]

CloseNode(t, x) ==
  /\ at[t] = "close"
  /\ Open(t, x)
  /\ Send(t, "failed", x)
  /\ left' = [left EXCEPT ![t] = @ \ {x}]
  /\ closed' = [closed EXCEPT ![t] = @ \cup {x}]
  /\ UNCHANGED <<at, reported>>

Closed(t) ==
  /\ at[t] = "close"
  /\ call[t] = "idle"
  /\ \A x \in left[t] : ~Open(t, x)
  /\ at' = [at EXCEPT ![t] = "unsubscribe"]
  /\ UNCHANGED <<bus, tool, turn, node, noted, ended, left, closed, reported, history>>
-----------------------------------------------------------------------------
(***************************************************************************)
(* The callbacks _on_started and _on_terminated of the guard s, invoked in *)
(* the thread t.                                                           *)
(***************************************************************************)
(* Mutant: a guard takes every event that it hears for its own. *)
Owns_Every(s, t) == s \in Thread

(* _owns_current_event: the ContextVar holds the guard of the thread. *)
Owns(s, t) == s = t

Hear(t, s) ==
  /\ Deliver(t, s)
  /\ heard' = [heard EXCEPT ![t] = @ \cup {s}]
  /\ noted' = IF Owns(s, t) /\ channel[t] = "started"
                THEN [noted EXCEPT ![s] = @ \cup {node[t]}] ELSE noted
  /\ ended' = IF Owns(s, t) /\ channel[t] # "started"
                THEN [ended EXCEPT ![s] = @ \cup {node[t]}] ELSE ended
  /\ UNCHANGED <<tool, at, turn, node, left, closed, reported, over, disturbed>>

(* The executions that are going through the list that t leaves. *)
Walking(t) ==
  {u \in Thread : call[u] = "deliver" /\ channel[u] = channel[t] /\ held[u] = held[t]}

Operate(t) ==
  /\ Proceed(t)
  /\ disturbed' = IF Removed(t) THEN disturbed \cup Walking(t) ELSE disturbed
  /\ UNCHANGED <<guard, over, heard>>

Execute(t) ==
  \/ SubscribeNext(t) \/ Finish(t) \/ Started(t) \/ Completed(t) \/ Failed(t)
  \/ Raise(t) \/ Caught(t) \/ Closed(t) \/ UnsubscribeNext(t) \/ Operate(t)
  \/ \E x \in Tool : CloseNode(t, x)
  \/ \E i \in 1 .. Len(listening) : Hear(t, listening[i])
  \/ \E s \in Thread : Hear(t, s)

GuardNext == \E t \in Thread : Execute(t)

GuardSpec == GuardInit /\ [][GuardNext]_guardvars
-----------------------------------------------------------------------------
GuardTypeOK ==
  /\ \A c \in Channel :
       /\ subscriptions[c] \in 0 .. Len(lists[c])
       /\ \A i \in 1 .. Len(lists[c]) : \A j \in 1 .. Len(lists[c][i]) :
            lists[c][i][j] \in Thread \/ In(lists[c][i][j], listening)
  /\ call \in [Thread -> {"idle", "append", "remove", "delete", "deliver", "raised"}]
  /\ channel \in [Thread -> Channel \cup {"none"}]
  /\ \A t \in Thread :
       /\ call[t] \notin {"idle", "raised"} => held[t] \in 1 .. Len(lists[channel[t]])
       /\ call[t] = "deliver" => index[t] \in 1 .. Len(listening) + Cardinality(Thread) + 1
  /\ at \in [Thread -> {"subscribe", "execute", "work", "completed", "raise",
                        "close", "unsubscribe", "done"}]
  /\ turn \in [Thread -> 1 .. 3]
  /\ {tool, node} \subseteq [Thread -> Tool \cup {NoTool}]
  /\ {noted, ended, left, closed} \subseteq [Thread -> SUBSET Tool]
  /\ {over, disturbed} \subseteq SUBSET Thread

(* Whoever subscribed before the executions and stays, the console for one, *)
(* hears every event, whatever subscribes and unsubscribes meanwhile.       *)
ListenersHear ==
  \A t \in Thread : Published(t) =>
    \A i \in 1 .. Len(listening) : listening[i] \in heard[t]

(* No subscriber is invoked twice for one event, though the list may change *)
(* under the loop that invokes it.                                          *)
InvokedOnce == \A t \in Thread : \A s \in heard[t] : ~Delivering(t, s)

(* unsubscribe() returns as long as one listener stays: no two executions  *)
(* delete the same list.                                                   *)
UnsubscribeReturns == listening # <<>> => \A t \in Thread : call[t] # "raised"

(* A guard fails no node but that of its own tool, and only when its own   *)
(* driver has started it: "this guard can never synthesize a terminal event *)
(* for a progress node it does not itself own", whatever it hears of other  *)
(* executions, those of the same tool included, and whatever it misses.    *)
CleanupIsOwn ==
  \A t \in Thread : \A x \in closed[t] : x = tool[t] /\ reported[t] # "none"

(* The guard fails the node of its driver exactly when the driver has      *)
(* raised without ending it, before or after other executions of the tool  *)
(* have ended it for theirs; so the docstring's "exactly one terminal       *)
(* event" holds of what an execution publishes itself, if its driver does  *)
(* not report two.  As long as one listener stays, and unless another      *)
(* execution left a list while the guarded one was publishing to it (it    *)
(* may then miss that its own node has started, or has ended).             *)
ClosedUnlessDisturbed ==
  listening # <<>> => \A t \in Thread :
    at[t] = "done" /\ t \notin disturbed =>
      closed[t] = IF reported[t] = "started" THEN {tool[t]} ELSE {}

(* "A node that already received a terminal event is never touched again"  *)
(* by the guard of an execution that has started it before, and that has   *)
(* missed nothing.                                                         *)
NeverTouchedAgain ==
  [][\A t \in Thread :
       closed'[t] # closed[t] /\ t \notin disturbed => t \notin over]_guardvars
=============================================================================
