------------------------ MODULE WorkspacePermissionProofs ------------------------
(***************************************************************************)
(* For any number of calls, keys and workspaces: one prompt at a time,     *)
(* nothing authorized that the user did not consent to, and nothing refused *)
(* that the user did not deny.  The invariant follows a request from its   *)
(* registration to its removal, and every grant, trust and decision back   *)
(* to the answer it comes from.                                            *)
(***************************************************************************)
EXTENDS WorkspacePermission, TLAPS

(* A key has a request exactly while one call for it leads. *)
Registered ==
  /\ \A c \in Call : at[c] \in Leading => pending_requests[KeyOf[c]] = c
  /\ \A k \in Key : pending_requests[k] # NoCall =>
       at[pending_requests[k]] \in Leading /\ KeyOf[pending_requests[k]] = k

(* What a call has come to since the user's answer to its prompt. *)
Answered ==
  \A c \in Call :
    /\ at[c] \in {"new", "contains", "check", "coalesce", "wait", "prompt"} =>
         scope[c] = "none"
    /\ at[c] \in {"revoke", "grant"} => scope[c] \in Kept
    /\ at[c] = "grant" => KeyOf[c] \notin grants
    /\ at[c] = "trust" => scope[c] = "permanent" /\ decision[c]
    /\ at[c] \in {"pop", "set"} => decision[c] \/ scope[c] = "deny"

(* A follower waits for a call of its key that leads or has led. *)
Followed ==
  \A c \in Call :
    /\ at[c] = "wait" => leader[c] # NoCall
    /\ leader[c] # NoCall =>
         /\ at[c] \in {"wait", "done"}
         /\ KeyOf[leader[c]] = KeyOf[c]
         /\ leader[leader[c]] = NoCall
         /\ at[leader[c]] \in Leading \cup {"set", "done"}

GrantsAnswered ==
  \A k \in grants : \E l \in Call : KeyOf[l] = k /\ scope[l] \in Kept

TrustAnswered ==
  \A w \in trusted : \E l \in Call : WorkspaceOf[KeyOf[l]] = w /\ scope[l] = "permanent"

Kernel == PermissionTypeOK /\ Registered /\ Answered /\ Followed

PermissionInv ==
  /\ Kernel /\ GrantsAnswered /\ TrustAnswered
  /\ AuthorizedByUser /\ RefusedByUser

LEMMA KernelInit == PermissionInit => Kernel
  BY PermissionAssumption
     DEF PermissionInit, Kernel, PermissionTypeOK, Registered, Answered, Followed, Leading, Scope

LEMMA KernelStep ==
  ASSUME Kernel, NEW c \in Call, Enter(c) \/ Proceed(c) \/ Prompted(c)
  PROVE  Kernel'
<1> USE PermissionAssumption
    DEF Kernel, PermissionTypeOK, Registered, Answered, Followed, Leading, Kept, Scope,
        Goto, Decide
<1>1. CASE IsTrusted(c)   BY <1>1 DEF IsTrusted
<1>2. CASE NotTrusted(c)  BY <1>2 DEF NotTrusted
<1>3. CASE Contains(c)    BY <1>3 DEF Contains
<1>4. CASE CheckGrant(c)  BY <1>4 DEF CheckGrant
<1>5. CASE Lead(c)        BY <1>5 DEF Lead
<1>6. CASE Follow(c)      BY <1>6 DEF Follow
<1>7. ASSUME NEW s \in Scope, Answer(c, s) PROVE Kernel'
  <2>1. CASE s \in Kept
    <3>1. /\ at[c] = "prompt" /\ at' = [at EXCEPT ![c] = "revoke"]
          /\ scope' = [scope EXCEPT ![c] = s]
          /\ decision' = [decision EXCEPT ![c] = FALSE]
          /\ UNCHANGED <<leader, pending_requests, grants, trusted>>
      BY <1>7, <2>1 DEF Answer
    <3> QED  BY <2>1, <3>1
  <2>2. CASE s = "once"
    <3>1. /\ at[c] = "prompt" /\ at' = [at EXCEPT ![c] = "pop"]
          /\ scope' = [scope EXCEPT ![c] = s]
          /\ decision' = [decision EXCEPT ![c] = TRUE]
          /\ UNCHANGED <<leader, pending_requests, grants, trusted>>
      BY <1>7, <2>2 DEF Answer
    <3> QED  BY <2>2, <3>1
  <2>3. CASE s = "deny"
    <3>1. /\ at[c] = "prompt" /\ at' = [at EXCEPT ![c] = "pop"]
          /\ scope' = [scope EXCEPT ![c] = s]
          /\ decision' = [decision EXCEPT ![c] = FALSE]
          /\ UNCHANGED <<leader, pending_requests, grants, trusted>>
      BY <1>7, <2>3 DEF Answer
    <3> QED  BY <2>3, <3>1
  <2> QED  BY <2>1, <2>2, <2>3
<1>8. CASE Revoke(c)      BY <1>8 DEF Revoke
<1>9. CASE Grant(c)
  <2>1. /\ at[c] = "grant" /\ KeyOf[c] \notin grants
        /\ decision' = [decision EXCEPT ![c] = TRUE]
        /\ grants' = grants \cup {KeyOf[c]}
        /\ UNCHANGED <<scope, leader, pending_requests, trusted>>
    BY <1>9 DEF Grant
  <2>2. CASE scope[c] = "permanent"
    <3>1. at' = [at EXCEPT ![c] = "trust"]  BY <1>9, <2>1, <2>2 DEF Grant
    <3> QED  BY <2>1, <2>2, <3>1
  <2>3. CASE scope[c] # "permanent"
    <3>1. at' = [at EXCEPT ![c] = "pop"]  BY <1>9, <2>1, <2>3 DEF Grant
    <3> QED  BY <2>1, <2>3, <3>1
  <2> QED  BY <2>2, <2>3
<1>10. CASE Trust(c)      BY <1>10 DEF Trust
<1>11. CASE Pop(c)        BY <1>11 DEF Pop
<1>12. CASE SetEvent(c)   BY <1>12 DEF SetEvent
<1>13. CASE Wake(c)       BY <1>13 DEF Wake
<1> QED
  BY <1>1, <1>2, <1>3, <1>4, <1>5, <1>6, <1>7, <1>8, <1>9, <1>10, <1>11, <1>12, <1>13
     DEF Enter, Proceed, Prompted

(* What kernel and invariants need of a step, whichever it is. *)
LEMMA ScopeStep ==
  ASSUME Kernel, NEW c \in Call, Enter(c) \/ Proceed(c) \/ Prompted(c)
  PROVE  /\ \A l \in Call : scope[l] # "none" => scope'[l] = scope[l]
         /\ \A l \in Call : leader[l] # NoCall => leader'[l] = leader[l]
  BY DEF Kernel, PermissionTypeOK, Answered, Followed, Goto, Enter, Proceed, Prompted,
         IsTrusted, NotTrusted, Contains, CheckGrant, Lead, Follow, Answer, Revoke, Grant,
         Trust, Pop, SetEvent, Wake, Decide

LEMMA GrantsStep ==
  ASSUME Kernel, GrantsAnswered, TrustAnswered,
         NEW c \in Call, Enter(c) \/ Proceed(c) \/ Prompted(c)
  PROVE  GrantsAnswered' /\ TrustAnswered'
<1>1. \A l \in Call : scope[l] # "none" => scope'[l] = scope[l]  BY ScopeStep
<1>2. \A k \in grants' : k \in grants \/ (k = KeyOf[c] /\ scope[c] \in Kept)
  BY DEF Kernel, Answered, Goto, Enter, Proceed, Prompted, IsTrusted, NotTrusted, Contains,
         CheckGrant, Lead, Follow, Answer, Revoke, Grant, Trust, Pop, SetEvent, Wake
<1>3. \A w \in trusted' :
        w \in trusted \/ (w = WorkspaceOf[KeyOf[c]] /\ scope[c] = "permanent")
  BY DEF Kernel, Answered, Goto, Enter, Proceed, Prompted, IsTrusted, NotTrusted, Contains,
         CheckGrant, Lead, Follow, Answer, Revoke, Grant, Trust, Pop, SetEvent, Wake
<1>4. GrantsAnswered'
  BY <1>1, <1>2 DEF GrantsAnswered, Kept
<1>5. TrustAnswered'
  BY <1>1, <1>3 DEF TrustAnswered
<1> QED  BY <1>4, <1>5

LEMMA AuthorizedStep ==
  ASSUME Kernel, GrantsAnswered, TrustAnswered, AuthorizedByUser,
         NEW c \in Call, Enter(c) \/ Proceed(c) \/ Prompted(c)
  PROVE  AuthorizedByUser'
<1> SUFFICES ASSUME NEW x \in Call, decision'[x]
             PROVE  \E l \in Call : Covers(l, x)'
  BY DEF AuthorizedByUser
<1>1. ASSUME NEW l \in Call, Covers(l, x)  PROVE Covers(l, x)'
  BY <1>1, ScopeStep, PermissionAssumption DEF Covers, Kept, Kernel, PermissionTypeOK
<1>2. CASE decision[x]
  BY <1>1, <1>2 DEF AuthorizedByUser
<1>3. CASE ~decision[x] /\ x # c
  <2>1. decision'[x] = decision[x]
    BY <1>3 DEF Kernel, PermissionTypeOK, Goto, Enter, Proceed, Prompted, IsTrusted,
            NotTrusted, Contains, CheckGrant, Lead, Follow, Answer, Revoke, Grant, Trust,
            Pop, SetEvent, Wake, Decide
  <2> QED  BY <1>3, <2>1
<1>4. CASE ~decision[c] /\ x = c
  <2>1. CASE IsTrusted(c)
    <3>1. \E l \in Call : Covers(l, c)
      BY <2>1, PermissionAssumption DEF IsTrusted, TrustAnswered, Covers
    <3> QED  BY <1>1, <1>4, <3>1
  <2>2. CASE CheckGrant(c)
    <3>1. KeyOf[c] \in grants
      BY <1>4, <2>2 DEF CheckGrant, Decide, Kernel, PermissionTypeOK
    <3>2. \E l \in Call : Covers(l, c)
      BY <3>1, PermissionAssumption DEF GrantsAnswered, Covers
    <3> QED  BY <1>1, <1>4, <3>2
  <2>3. ASSUME NEW s \in Scope, Answer(c, s)  PROVE Covers(c, c)'
    BY <1>4, <2>3 DEF Answer, Decide, Covers, Kernel, PermissionTypeOK
  <2>4. CASE Grant(c)
    <3>1. Covers(c, c)
      BY <2>4 DEF Grant, Goto, Covers, Kernel, Answered
    <3> QED  BY <1>1, <1>4, <3>1
  <2>5. CASE Wake(c)
    <3>1. leader[c] \in Call /\ decision[leader[c]]
      BY <1>4, <2>5 DEF Wake, Decide, Goto, Kernel, PermissionTypeOK, Followed
    <3>2. PICK l \in Call : Covers(l, leader[c])
      BY <3>1 DEF AuthorizedByUser
    <3>3. Covers(l, c)
      BY <2>5, <3>2, PermissionAssumption
         DEF Covers, Enclosing, Wake, Goto, Kernel, Followed, PermissionTypeOK
    <3> QED  BY <1>1, <1>4, <3>3
  <2>6. CASE NotTrusted(c) \/ Contains(c) \/ Lead(c) \/ Follow(c) \/ Revoke(c)
             \/ Trust(c) \/ Pop(c) \/ SetEvent(c)
    BY <1>4, <2>6 DEF NotTrusted, Contains, Lead, Follow, Revoke, Trust, Pop, SetEvent
  <2> QED
    BY <1>4, <2>1, <2>2, <2>3, <2>4, <2>5, <2>6 DEF Enter, Proceed, Prompted
<1> QED  BY <1>2, <1>3, <1>4

LEMMA RefusedStep ==
  ASSUME Kernel, RefusedByUser,
         NEW c \in Call, Enter(c) \/ Proceed(c) \/ Prompted(c)
  PROVE  RefusedByUser'
<1> DEFINE Denied(x) == \E l \in Call : l \in {x, leader[x]} /\ scope[l] = "deny"
<1> SUFFICES ASSUME NEW x \in Call, at'[x] = "done", ~decision'[x]
             PROVE  Denied(x)'
  BY DEF RefusedByUser
<1>1. ASSUME Denied(x)  PROVE Denied(x)'
  BY <1>1, ScopeStep, PermissionAssumption DEF Kernel, PermissionTypeOK
<1>2. CASE x # c
  <2>1. at'[x] = at[x] /\ decision'[x] = decision[x]
    BY <1>2 DEF Kernel, PermissionTypeOK, Goto, Enter, Proceed, Prompted, IsTrusted,
            NotTrusted, Contains, CheckGrant, Lead, Follow, Answer, Revoke, Grant, Trust,
            Pop, SetEvent, Wake, Decide
  <2> QED  BY <1>1, <2>1 DEF RefusedByUser
<1>3. CASE x = c
  <2>1. CASE SetEvent(c)
    <3>1. scope[c] = "deny"
      BY <1>3, <2>1 DEF SetEvent, Goto, Kernel, Answered
    <3> QED  BY <1>1, <1>3, <3>1
  <2>2. CASE Wake(c)
    <3>1. leader[c] \in Call /\ at[leader[c]] = "done" /\ ~decision[leader[c]]
      BY <1>3, <2>2 DEF Wake, Decide, Goto, Kernel, PermissionTypeOK, Followed
    <3>2. PICK l \in Call : l \in {leader[c], leader[leader[c]]} /\ scope[l] = "deny"
      BY <3>1 DEF RefusedByUser
    <3>3. l = leader[c]
      BY <2>2, <3>1, <3>2, PermissionAssumption DEF Wake, Goto, Kernel, Followed
    <3> QED  BY <1>1, <1>3, <3>2, <3>3
  <2>3. ~IsTrusted(c) /\ ~CheckGrant(c)
    BY <1>3 DEF IsTrusted, CheckGrant, Goto, Decide, Kernel, PermissionTypeOK
  <2>4. ASSUME NEW s \in Scope  PROVE ~Answer(c, s)
    BY <1>3 DEF Answer, Goto, Kernel, PermissionTypeOK
  <2>5. ~NotTrusted(c) /\ ~Contains(c) /\ ~Lead(c) /\ ~Follow(c) /\ ~Revoke(c)
        /\ ~Grant(c) /\ ~Trust(c) /\ ~Pop(c)
    BY <1>3 DEF NotTrusted, Contains, Lead, Follow, Revoke, Grant, Trust, Pop, Goto,
            Kernel, PermissionTypeOK
  <2> QED  BY <2>1, <2>2, <2>3, <2>4, <2>5 DEF Enter, Proceed, Prompted
<1> QED  BY <1>2, <1>3

LEMMA PermissionInvInit == PermissionInit => PermissionInv
  BY KernelInit DEF PermissionInit, PermissionInv, GrantsAnswered, TrustAnswered,
     AuthorizedByUser, RefusedByUser

LEMMA PermissionInvStep ==
  ASSUME PermissionInv, [PermissionNext]_permission
  PROVE  PermissionInv'
<1>1. ASSUME NEW c \in Call, Enter(c) \/ Proceed(c) \/ Prompted(c)
      PROVE  PermissionInv'
  BY <1>1, KernelStep, GrantsStep, AuthorizedStep, RefusedStep DEF PermissionInv
<1>2. CASE UNCHANGED permission
  BY <1>2 DEF permission, PermissionInv, Kernel, PermissionTypeOK, Registered, Answered,
     Followed, GrantsAnswered, TrustAnswered, AuthorizedByUser, RefusedByUser, Covers
<1> QED  BY <1>1, <1>2 DEF PermissionNext

LEMMA PermissionInductive == PermissionSpec => []PermissionInv
  BY PermissionInvInit, PermissionInvStep, PTL DEF PermissionSpec

LEMMA OneLeader == Kernel => OnePrompt
  BY DEF Kernel, Registered, OnePrompt, Leading

(* Calls that overlap never show two prompts for one workspace and operation. *)
THEOREM PromptIsShared == PermissionSpec => []OnePrompt
  BY PermissionInductive, OneLeader, PTL DEF PermissionInv

(* Whatever is authorized, an answer of the user covers it. *)
THEOREM UserConsents == PermissionSpec => []AuthorizedByUser
  BY PermissionInductive, PTL DEF PermissionInv

(* Whatever is refused, the user has denied it. *)
THEOREM UserRefuses == PermissionSpec => []RefusedByUser
  BY PermissionInductive, PTL DEF PermissionInv
=============================================================================
