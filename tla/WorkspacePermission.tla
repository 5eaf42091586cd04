-------------------------- MODULE WorkspacePermission --------------------------
(***************************************************************************)
(* WorkspacePermissionManager.check (src/parika/core/permission_manager/   *)
(* workspace_permission_manager.py) with the grants of PermissionManager   *)
(* (permission_manager.py) that it composes.  Each call runs in a thread   *)
(* of its own and is split where it takes or releases a lock.  Calls for   *)
(* the same workspace and operation share one prompt: the first one leads, *)
(* the others follow it.                                                   *)
(*                                                                         *)
(* Calls for READ return at once and are left out, and so is trust given   *)
(* by the configuration.  The prompt answers or raises an Exception, which *)
(* denies, as the console's prompt does (it catches an interrupt).         *)
(***************************************************************************)
CONSTANTS
  Call,       \* the calls of check()
  NoCall,     \* no call
  Key,        \* the pairs of a workspace and an operation
  KeyOf,      \* per call, what it asks for
  Workspace,  \* the workspaces
  WorkspaceOf, \* per key, its workspace
  Within       \* per workspace, the workspaces that it lies in, itself included

ASSUME PermissionAssumption ==
  /\ NoCall \notin Call
  /\ KeyOf \in [Call -> Key]
  /\ WorkspaceOf \in [Key -> Workspace]
  /\ Within \in [Workspace -> SUBSET Workspace]

VARIABLES
  at,               \* per call, the next step of check()
  scope,            \* per call, what the user answered to its prompt
  decision,         \* per call, whether it is authorized
  leader,           \* per call, the call whose decision it waits for
  pending_requests, \* per key, the call that is resolving it
  grants,           \* the keys granted in PermissionManager
  trusted           \* the workspaces trusted by a PERMANENT answer

permission == <<at, scope, decision, leader, pending_requests, grants, trusted>>

Scope == {"once", "session", "permanent", "deny"}
Kept  == {"session", "permanent"}

(* Where the leader of a key is, from the prompt to the pop of its request. *)
Leading == {"prompt", "revoke", "grant", "trust", "pop"}

PermissionInit ==
  /\ at = [c \in Call |-> "new"]
  /\ scope = [c \in Call |-> "none"]
  /\ decision = [c \in Call |-> FALSE]
  /\ leader = [c \in Call |-> NoCall]
  /\ pending_requests = [k \in Key |-> NoCall]
  /\ grants = {}
  /\ trusted = {}

Goto(c, from, to) == at[c] = from /\ at' = [at EXCEPT ![c] = to]
Decide(c, d)      == decision' = [decision EXCEPT ![c] = d]

Enclosing(c) == Within[WorkspaceOf[KeyOf[c]]]

(* _is_workspace_trusted. *)
IsTrusted(c) ==
  /\ Enclosing(c) \cap trusted # {}
  /\ Goto(c, "new", "done")
  /\ Decide(c, TRUE)
  /\ UNCHANGED <<scope, leader, pending_requests, grants, trusted>>

NotTrusted(c) ==
  /\ Enclosing(c) \cap trusted = {}
  /\ Goto(c, "new", "contains")
  /\ UNCHANGED <<scope, decision, leader, pending_requests, grants, trusted>>

(* PermissionManager.contains. *)
Contains(c) ==
  /\ Goto(c, "contains", IF KeyOf[c] \in grants THEN "check" ELSE "coalesce")
  /\ UNCHANGED <<scope, decision, leader, pending_requests, grants, trusted>>

(* PermissionManager.check: the grant may have gone since contains(). *)
CheckGrant(c) ==
  /\ Goto(c, "check", IF KeyOf[c] \in grants THEN "done" ELSE "coalesce")
  /\ Decide(c, KeyOf[c] \in grants)
  /\ UNCHANGED <<scope, leader, pending_requests, grants, trusted>>
-----------------------------------------------------------------------------
(***************************************************************************)
(* _check_with_coalescing.                                                 *)
(***************************************************************************)
(* Mutant: the request is looked up and registered without the lock. *)
Lead_NoLookup(c) ==
  /\ Goto(c, "coalesce", "prompt")
  /\ pending_requests' = [pending_requests EXCEPT ![KeyOf[c]] = c]
  /\ UNCHANGED <<scope, decision, leader, grants, trusted>>

Lead(c) ==
  /\ pending_requests[KeyOf[c]] = NoCall
  /\ Goto(c, "coalesce", "prompt")
  /\ pending_requests' = [pending_requests EXCEPT ![KeyOf[c]] = c]
  /\ UNCHANGED <<scope, decision, leader, grants, trusted>>

Follow(c) ==
  /\ pending_requests[KeyOf[c]] # NoCall
  /\ Goto(c, "coalesce", "wait")
  /\ leader' = [leader EXCEPT ![c] = pending_requests[KeyOf[c]]]
  /\ UNCHANGED <<scope, decision, pending_requests, grants, trusted>>

(* The user answers the prompt of c. *)
Answer(c, s) ==
  /\ Goto(c, "prompt", IF s \in Kept THEN "revoke" ELSE "pop")
  /\ scope' = [scope EXCEPT ![c] = s]
  /\ Decide(c, s = "once")
  /\ UNCHANGED <<leader, pending_requests, grants, trusted>>

(* _grant: revoke() if the key is granted, then grant(), which raises if *)
(* it still is; the error denies.                                        *)
Revoke(c) ==
  /\ Goto(c, "revoke", "grant")
  /\ grants' = grants \ {KeyOf[c]}
  /\ UNCHANGED <<scope, decision, leader, pending_requests, trusted>>

Grant(c) ==
  /\ Goto(c, "grant", IF scope[c] = "permanent" /\ KeyOf[c] \notin grants
                        THEN "trust" ELSE "pop")
  /\ grants' = grants \cup {KeyOf[c]}
  /\ Decide(c, KeyOf[c] \notin grants)
  /\ UNCHANGED <<scope, leader, pending_requests, trusted>>

(* _mark_permanently_trusted. *)
Trust(c) ==
  /\ Goto(c, "trust", "pop")
  /\ trusted' = trusted \cup {WorkspaceOf[KeyOf[c]]}
  /\ UNCHANGED <<scope, decision, leader, pending_requests, grants>>

Pop(c) ==
  /\ Goto(c, "pop", "set")
  /\ pending_requests' = [pending_requests EXCEPT ![KeyOf[c]] = NoCall]
  /\ UNCHANGED <<scope, decision, leader, grants, trusted>>

(* event.set(): the leader returns, and those who wait for it may. *)
SetEvent(c) ==
  /\ Goto(c, "set", "done")
  /\ UNCHANGED <<scope, decision, leader, pending_requests, grants, trusted>>

(* Mutant: a follower does not wait for the leader's event. *)
Wake_Early(c) ==
  /\ Goto(c, "wait", "done")
  /\ Decide(c, decision[leader[c]])
  /\ UNCHANGED <<scope, leader, pending_requests, grants, trusted>>

Wake(c) ==
  /\ Goto(c, "wait", "done")
  /\ at[leader[c]] = "done"
  /\ Decide(c, decision[leader[c]])
  /\ UNCHANGED <<scope, leader, pending_requests, grants, trusted>>
-----------------------------------------------------------------------------
Enter(c) == IsTrusted(c) \/ NotTrusted(c)

(* What a call does between its entry and its return, by itself ... *)
Proceed(c) ==
  \/ Contains(c) \/ CheckGrant(c) \/ Lead(c) \/ Follow(c)
  \/ Revoke(c) \/ Grant(c) \/ Trust(c) \/ Pop(c) \/ SetEvent(c) \/ Wake(c)

(* ... and what it waits for the user to do. *)
Prompted(c) == \E s \in Scope : Answer(c, s)

PermissionNext == \E c \in Call : Enter(c) \/ Proceed(c) \/ Prompted(c)

PermissionSpec == PermissionInit /\ [][PermissionNext]_permission
-----------------------------------------------------------------------------
PermissionTypeOK ==
  /\ at \in [Call -> {"new", "contains", "check", "coalesce", "wait", "set",
                      "done"} \cup Leading]
  /\ scope \in [Call -> Scope \cup {"none"}]
  /\ decision \in [Call -> BOOLEAN]
  /\ leader \in [Call -> Call \cup {NoCall}]
  /\ pending_requests \in [Key -> Call \cup {NoCall}]
  /\ grants \in SUBSET Key
  /\ trusted \in SUBSET Workspace

(* At most one prompt is shown for a workspace and an operation at a time, *)
(* however the calls overlap (the promise of check()).                     *)
OnePrompt ==
  \A c, d \in Call :
    at[c] = "prompt" /\ at[d] = "prompt" /\ KeyOf[c] = KeyOf[d] => c = d

(* The user answered a prompt in a way that covers the call c: for its key *)
(* or a workspace around it and to be kept, or once and for c or the call   *)
(* that it waited for.                                                      *)
Covers(l, c) ==
  \/ KeyOf[l] = KeyOf[c] /\ scope[l] \in Kept
  \/ WorkspaceOf[KeyOf[l]] \in Enclosing(c) /\ scope[l] = "permanent"
  \/ l \in {c, leader[c]} /\ scope[l] = "once"

(* Nothing is authorized that no answer of the user covers: not by a stale *)
(* lookup of the grants, nor by another call's decision.                    *)
AuthorizedByUser ==
  \A c \in Call : decision[c] => \E l \in Call : Covers(l, c)

(* No call is refused unless the user denied the prompt that it showed or  *)
(* waited for: neither a grant that is being renewed nor a leader that has *)
(* yet to decide makes a call fail.                                         *)
RefusedByUser ==
  \A c \in Call :
    at[c] = "done" /\ ~decision[c] =>
      \E l \in Call : l \in {c, leader[c]} /\ scope[l] = "deny"
=============================================================================
