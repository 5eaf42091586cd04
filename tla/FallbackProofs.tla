----------------------------- MODULE FallbackProofs -----------------------------
(***************************************************************************)
(* For every chain of models and every order of their failures: no model   *)
(* is asked too often, and a chat of a request fails only when no model is *)
(* left or a credential of the chain was refused.                          *)
(*                                                                         *)
(* Walked says, of a chat that has not ended, which models its walk along  *)
(* the chain has asked, and how they have answered.                        *)
(***************************************************************************)
EXTENDS GoalExecutionProofs

HasEnded(c) == status[c] \in {"completed", "failed"}

(* What m was asked for the last time was answered for good. *)
AskedOut(c, m) ==
  /\ answers[c][m] # <<>>
  /\ m # Remembered /\ Last(answers[c][m]) = "transport" =>
       Len(answers[c][m]) = MaxRetries + 1

Ahead(c, m) ==
  m # Remembered /\ \A j \in 1 .. Len(Chain) : j <= link[c] => Chain[j] # m

Walked(c) ==
  /\ \A m \in Model : Ahead(c, m) => answers[c][m] = <<>>
  /\ link[c] = 0 <=> answers[c][Remembered] = <<>>
  /\ \A j \in 1 .. Len(Chain) : j < link[c] => AskedOut(c, Chain[j])
  /\ link[c] \in 1 .. Len(Chain) /\ ~Skipped(c) => Len(answers[c][Chain[link[c]]]) <= 1

ChatInv(c) ==
  /\ \A m \in Model :
       Len(answers[c][m]) <= IF m = Remembered THEN 1 ELSE MaxRetries + 1
  /\ ~HasEnded(c) => Walked(c)
  /\ status[c] = "failed" => AllAsked(c) \/ AuthRefused(c)

ChatsInv == FallbackTypeOK /\ \A c \in Chat : ChatInv(c)

LEMMA ChainModels == \A i \in 1 .. Len(Chain) : Chain[i] \in Model
  BY FallbackAssumption

(* A model answers a chat. *)
LEMMA Heard ==
  ASSUME FallbackTypeOK, NEW c \in Chat, link[c] \in 0 .. Len(Chain),
         NEW a \in Failure \cup {"ok"}, Hear(c, a)
  PROVE  /\ Current(c) \in Model
         /\ answers' \in [Chat -> [Model -> Seq(Failure \cup {"ok"})]]
         /\ \A d \in Chat \ {c} : answers'[d] = answers[d]
         /\ \A m \in Model \ {Current(c)} : answers'[c][m] = answers[c][m]
         /\ LET s == answers'[c][Current(c)]
            IN  /\ s # <<>> /\ Last(s) = a
                /\ Len(s) = Len(answers[c][Current(c)]) + 1
<1>1. Current(c) \in Model
  BY ChainModels, FallbackAssumption DEF Current
<1>2. answers[c][Current(c)] \in Seq(Failure \cup {"ok"})
  BY <1>1 DEF FallbackTypeOK
<1>3. answers' = [answers EXCEPT ![c][Current(c)] = Append(answers[c][Current(c)], a)]
  BY DEF Hear
<1>4. /\ answers'[c][Current(c)] = Append(answers[c][Current(c)], a)
      /\ \A d \in Chat \ {c} : answers'[d] = answers[d]
      /\ \A m \in Model \ {Current(c)} : answers'[c][m] = answers[c][m]
  BY <1>1, <1>3 DEF FallbackTypeOK
<1>5. /\ Append(answers[c][Current(c)], a) \in Seq(Failure \cup {"ok"})
      /\ Append(answers[c][Current(c)], a) # <<>>
      /\ Last(Append(answers[c][Current(c)], a)) = a
      /\ Len(Append(answers[c][Current(c)], a)) = Len(answers[c][Current(c)]) + 1
  BY <1>2 DEF Last
<1>6. answers' \in [Chat -> [Model -> Seq(Failure \cup {"ok"})]]
  BY <1>1, <1>3, <1>5 DEF FallbackTypeOK
<1> QED  BY <1>1, <1>4, <1>5, <1>6

LEMMA SkipKeeps ==
  ASSUME ChatsInv, NEW c \in Chat, ~HasEnded(c), Skip(c)
  PROVE  FallbackTypeOK' /\ Walked(c)' /\ \A d \in Chat \ {c} : link'[d] = link[d]
<1> USE FallbackAssumption, ChainModels DEF ChatsInv, FallbackTypeOK
<1>1. /\ link[c] \in 1 .. Len(Chain) /\ link' = [link EXCEPT ![c] = link[c] + 1]
      /\ answers' = answers /\ Walked(c)
  BY DEF Skip, Skipped, ChatInv
<1>2. AskedOut(c, Chain[link[c]])
  <2>1. CASE Chain[link[c]] = Remembered
    BY <1>1, <2>1 DEF Walked, AskedOut
  <2>2. CASE \E j \in 1 .. link[c] - 1 : Chain[j] = Chain[link[c]]
    <3>1. PICK j \in 1 .. link[c] - 1 : Chain[j] = Chain[link[c]]
      BY <2>2
    <3>2. j \in 1 .. Len(Chain) /\ j < link[c]
      BY <1>1
    <3>3. AskedOut(c, Chain[j])
      BY <1>1, <3>2 DEF Walked
    <3> QED  BY <3>1, <3>3 DEF AskedOut
  <2> QED  BY <2>1, <2>2 DEF Skip, Skipped
<1>3. \A m \in Model : Ahead(c, m)' => Ahead(c, m)
  BY <1>1 DEF Ahead
<1>4. \A j \in 1 .. Len(Chain) : j < link'[c] => AskedOut(c, Chain[j])'
  <2>1. ASSUME NEW j \in 1 .. Len(Chain), j < link'[c]  PROVE AskedOut(c, Chain[j])
    <3>1. j < link[c] \/ j = link[c]
      BY <1>1, <2>1
    <3> QED  BY <1>1, <1>2, <2>1, <3>1 DEF Walked
  <2> QED  BY <1>1, <2>1 DEF AskedOut
<1>5. ASSUME link'[c] \in 1 .. Len(Chain), ~Skipped(c)'
      PROVE  Len(answers'[c][Chain[link'[c]]]) <= 1
  <2>1. Ahead(c, Chain[link'[c]])
    BY <1>1, <1>5 DEF Skipped, Ahead
  <2> QED  BY <1>1, <1>5, <2>1 DEF Walked
<1> QED  BY <1>1, <1>3, <1>4, <1>5 DEF Walked

LEMMA FailRememberedKeeps ==
  ASSUME ChatsInv, NEW c \in Chat, ~HasEnded(c), NEW a \in Failure, FailRemembered(c, a)
  PROVE  FallbackTypeOK' /\ Walked(c)' /\ \A d \in Chat \ {c} : link'[d] = link[d]
<1> USE FallbackAssumption, ChainModels DEF ChatsInv
<1>1. /\ link[c] = 0 /\ link' = [link EXCEPT ![c] = 1] /\ Current(c) = Remembered
      /\ Walked(c) /\ FallbackTypeOK
  BY DEF FailRemembered, ChatInv, Current
<1>2. /\ answers' \in [Chat -> [Model -> Seq(Failure \cup {"ok"})]]
      /\ answers'[c][Remembered] # <<>>
      /\ \A m \in Model \ {Remembered} : answers'[c][m] = answers[c][m]
  BY <1>1, Heard DEF FailRemembered
<1>3. \A m \in Model \ {Remembered} : answers'[c][m] = <<>>
  <2>1. \A m \in Model \ {Remembered} : Ahead(c, m)
    BY <1>1 DEF Ahead
  <2> QED  BY <1>1, <1>2, <2>1 DEF Walked
<1>4. link' \in [Chat -> 0 .. Len(Chain) + 1] /\ link'[c] = 1
  BY <1>1 DEF FallbackTypeOK
<1>5. ASSUME link'[c] \in 1 .. Len(Chain), ~Skipped(c)'
      PROVE  Len(answers'[c][Chain[link'[c]]]) <= 1
  BY <1>3, <1>5 DEF Skipped
<1> QED
  BY <1>1, <1>2, <1>3, <1>4, <1>5 DEF FallbackTypeOK, Walked, Ahead, AskedOut

LEMMA FailLinkKeeps ==
  ASSUME ChatsInv, NEW c \in Chat, ~HasEnded(c), NEW a \in Failure, FailLink(c, a)
  PROVE  /\ FallbackTypeOK' /\ Walked(c)' /\ \A d \in Chat \ {c} : link'[d] = link[d]
         /\ \A m \in Model :
              Len(answers'[c][m]) <= IF m = Remembered THEN 1 ELSE MaxRetries + 1
<1> USE FallbackAssumption, ChainModels
<1> DEFINE i == link[c]
           m == Chain[i]
<1>1. /\ i \in 1 .. Len(Chain) /\ ~Skipped(c) /\ Walked(c) /\ FallbackTypeOK
      /\ a \in {"transport", "response"} /\ Current(c) = m
      /\ \A x \in Model :
           Len(answers[c][x]) <= IF x = Remembered THEN 1 ELSE MaxRetries + 1
  BY DEF FailLink, ChatsInv, ChatInv, Current, Failure
<1>0. m \in Model /\ answers[c][m] \in Seq(Failure \cup {"ok"})
  BY <1>1 DEF FallbackTypeOK
<1> PICK n \in Nat : n = Len(answers[c][m])
  BY <1>0
<1>2. m \in Model /\ m # Remembered /\ n <= 1 /\ \A j \in 1 .. i - 1 : Chain[j] # m
  <2>1. m # Remembered /\ \A j \in 1 .. i - 1 : Chain[j] # m
    BY <1>1 DEF Skipped
  <2> QED  BY <1>0, <1>1, <2>1 DEF Walked
<1>3. /\ answers' \in [Chat -> [Model -> Seq(Failure \cup {"ok"})]]
      /\ \A x \in Model \ {m} : answers'[c][x] = answers[c][x]
      /\ answers'[c][m] # <<>> /\ Last(answers'[c][m]) = a /\ Len(answers'[c][m]) = n + 1
  <2>1. a \in Failure \cup {"ok"} /\ link[c] \in 0 .. Len(Chain) /\ Hear(c, a)
    BY <1>1 DEF FailLink
  <2> QED  BY <1>1, <2>1, Heard
<1>4. /\ link' \in [Chat -> 0 .. Len(Chain) + 1]
      /\ \A d \in Chat \ {c} : link'[d] = link[d]
      /\ link'[c] = IF a = "response" \/ n >= MaxRetries THEN i + 1 ELSE i
  BY <1>1 DEF FailLink, Advances, Attempts, FallbackTypeOK
<1>5. \A x \in Model : Ahead(c, x)' => answers'[c][x] = <<>>
  <2>1. \A x \in Model : Ahead(c, x)' => Ahead(c, x) /\ x # m
    BY <1>1, <1>4 DEF Ahead
  <2> QED  BY <1>1, <1>3, <2>1 DEF Walked
<1>6. \A j \in 1 .. Len(Chain) : j < link'[c] => AskedOut(c, Chain[j])'
  <2> SUFFICES ASSUME NEW j \in 1 .. Len(Chain), j < link'[c]
               PROVE  AskedOut(c, Chain[j])'
    OBVIOUS
  <2>1. CASE j < i
    <3>1. Chain[j] # m /\ AskedOut(c, Chain[j])
      BY <1>1, <1>2, <2>1 DEF Walked
    <3> QED  BY <1>3, <3>1 DEF AskedOut
  <2>2. CASE j = i
    <3>1. a = "response" \/ n >= MaxRetries
      BY <1>1, <1>4, <2>2
    <3>2. ASSUME a # "response"  PROVE n = 1
      <4>1. n \in Nat /\ n <= 1
        BY <1>2
      <4>2. n >= 1
        BY <3>1, <3>2 DEF MaxRetries
      <4> QED  BY ONLY <4>1, <4>2
    <3> QED  BY <1>2, <1>3, <2>2, <3>2 DEF AskedOut, MaxRetries
  <2>3. j < i \/ j = i
    BY <1>1, <1>4
  <2> QED  BY <2>1, <2>2, <2>3
<1>7. ASSUME link'[c] \in 1 .. Len(Chain), ~Skipped(c)'
      PROVE  Len(answers'[c][Chain[link'[c]]]) <= 1
  <2>1. CASE link'[c] = i
    BY <1>1, <1>2, <1>3, <1>4, <2>1 DEF MaxRetries
  <2>2. CASE link'[c] = i + 1
    <3>1. Ahead(c, Chain[link'[c]]) /\ Chain[link'[c]] # m
      BY <1>1, <1>7, <2>2 DEF Skipped, Ahead
    <3>2. answers'[c][Chain[link'[c]]] = <<>>
      BY <1>1, <1>3, <1>7, <3>1 DEF Walked
    <3> QED  BY <3>2
  <2> QED  BY <1>4, <2>1, <2>2
<1>8. answers'[c][Remembered] = answers[c][Remembered] /\ link[c] # 0 /\ link'[c] # 0
  BY <1>1, <1>2, <1>3, <1>4
<1>9. Walked(c)'
  BY <1>1, <1>5, <1>6, <1>7, <1>8 DEF Walked
<1>10. \A x \in Model :
         Len(answers'[c][x]) <= IF x = Remembered THEN 1 ELSE MaxRetries + 1
  <2>1. Len(answers'[c][m]) <= 2
    BY <1>2, <1>3
  <2>2. \A x \in Model \ {m} : answers'[c][x] = answers[c][x]
    BY <1>3
  <2>3. \A x \in Model \ {m} :
          Len(answers'[c][x]) <= IF x = Remembered THEN 1 ELSE MaxRetries + 1
    BY <1>1, <2>2
  <2>4. Len(answers'[c][m]) <= IF m = Remembered THEN 1 ELSE MaxRetries + 1
    BY <1>2, <2>1 DEF MaxRetries
  <2> QED  BY <2>3, <2>4
<1> QED  BY <1>3, <1>4, <1>9, <1>10 DEF FallbackTypeOK

(* A chat that ends: by an answer, by a refusal, or for want of models. *)
LEMMA EndKeeps ==
  ASSUME ChatsInv, NEW c \in Chat, ~HasEnded(c), ChatEnds(c), status[c] = "running",
         status \in [Task -> {"none", "pending", "running", "paused"} \cup Ended],
         c \in Task
  PROVE  FallbackTypeOK' /\ HasEnded(c)' /\ ChatInv(c)'
         /\ \A d \in Chat \ {c} :
              answers'[d] = answers[d] /\ link'[d] = link[d] /\ status'[d] = status[d]
<1>1. Walked(c) /\ FallbackTypeOK /\ link' = link
      /\ \A m \in Model :
           Len(answers[c][m]) <= IF m = Remembered THEN 1 ELSE MaxRetries + 1
  BY DEF ChatsInv, ChatInv, ChatEnds, AnswerLink, RefuseLink, fallback
<1>2. HasEnded(c)' /\ \A d \in Chat \ {c} : status'[d] = status[d]
  BY GoalAssumption DEF ChatEnds, Complete, Fail, End, HasEnded, Goal
<1>3. ASSUME NEW a \in {"ok", "auth"}, Hear(c, a), ~Skipped(c), link[c] \in 0 .. Len(Chain)
      PROVE  /\ FallbackTypeOK' /\ \A d \in Chat \ {c} : answers'[d] = answers[d]
             /\ \A m \in Model :
                  Len(answers'[c][m]) <= IF m = Remembered THEN 1 ELSE MaxRetries + 1
             /\ link[c] # 0 => Current(c) \in Model \ {Remembered}
             /\ answers'[c][Current(c)] # <<>> /\ Last(answers'[c][Current(c)]) = a
  <2>1. a \in Failure \cup {"ok"}
    BY DEF Failure
  <2>2. Current(c) \in Model /\ answers[c][Current(c)] \in Seq(Failure \cup {"ok"})
    BY <1>1, ChainModels, FallbackAssumption, <1>3 DEF Current, FallbackTypeOK
  <2>3. CASE link[c] = 0
    <3>1. Current(c) = Remembered /\ Len(answers[c][Remembered]) = 0
      BY <1>1, <2>3 DEF Current, Walked
    <3> QED  BY <1>1, <1>3, <2>1, <2>3, <3>1, Heard DEF FallbackTypeOK
  <2>4. CASE link[c] # 0
    <3>1. link[c] \in 1 .. Len(Chain) /\ Current(c) = Chain[link[c]]
      BY <1>3, <2>4 DEF Current
    <3>2. Current(c) # Remembered /\ Len(answers[c][Current(c)]) <= 1
      BY <1>1, <1>3, <3>1 DEF Skipped, Walked
    <3>3. /\ answers' \in [Chat -> [Model -> Seq(Failure \cup {"ok"})]]
          /\ \A d \in Chat \ {c} : answers'[d] = answers[d]
          /\ \A m \in Model \ {Current(c)} : answers'[c][m] = answers[c][m]
          /\ answers'[c][Current(c)] # <<>> /\ Last(answers'[c][Current(c)]) = a
          /\ Len(answers'[c][Current(c)]) = Len(answers[c][Current(c)]) + 1
      BY <1>1, <1>3, <2>1, Heard
    <3>4. Len(answers'[c][Current(c)]) <= MaxRetries + 1
      BY <2>2, <3>2, <3>3 DEF MaxRetries
    <3>5. \A m \in Model :
            Len(answers'[c][m]) <= IF m = Remembered THEN 1 ELSE MaxRetries + 1
      BY <1>1, <3>2, <3>3, <3>4
    <3> QED  BY <1>1, <2>2, <3>2, <3>3, <3>5 DEF FallbackTypeOK
  <2> QED  BY <2>3, <2>4
<1>4. CASE AnswerLink(c) /\ Complete(c)
  <2>1. status'[c] = "completed"
    BY <1>4 DEF Complete, End
  <2> QED  BY <1>1, <1>2, <1>3, <1>4, <2>1 DEF AnswerLink, ChatInv
<1>5. CASE RefuseLink(c) /\ Fail(c)
  <2>1. AuthRefused(c)'
    BY <1>3, <1>5 DEF RefuseLink, AuthRefused
  <2> QED  BY <1>1, <1>2, <1>3, <1>5, <2>1 DEF RefuseLink, ChatInv
<1>6. CASE Exhausted(c) /\ Fail(c) /\ UNCHANGED fallback
  <2>1. AllAsked(c)
    BY <1>1, <1>6 DEF Exhausted, AllAsked, Walked, AskedOut, FallbackTypeOK
  <2> QED  BY <1>1, <1>2, <1>6, <2>1 DEF fallback, ChatInv, AllAsked, FallbackTypeOK
<1> QED  BY <1>4, <1>5, <1>6 DEF ChatEnds

(* What ChatInv(d) says depends on nothing but what d has been told. *)
LEMMA Unaffected ==
  ASSUME NEW d \in Chat, ChatInv(d),
         answers'[d] = answers[d], link'[d] = link[d],
         HasEnded(d) => status'[d] = status[d],
         ~HasEnded(d) => ~HasEnded(d)'
  PROVE  ChatInv(d)'
<1>1. Walked(d)' <=> Walked(d)
  BY DEF Walked, Ahead, AskedOut, Skipped
<1> QED
  BY <1>1 DEF ChatInv, AllAsked, AuthRefused, HasEnded

(* The chat that is being asked. *)
LEMMA AskKeeps ==
  ASSUME ChatsInv, NEW c \in Chat, status[c] = "running", Ask(c)
  PROVE  /\ FallbackTypeOK' /\ Walked(c)'
         /\ \A m \in Model :
              Len(answers'[c][m]) <= IF m = Remembered THEN 1 ELSE MaxRetries + 1
         /\ \A d \in Chat \ {c} : answers'[d] = answers[d] /\ link'[d] = link[d]
<1>1. ~HasEnded(c) /\ FallbackTypeOK /\ Walked(c)
      /\ \A m \in Model :
           Len(answers[c][m]) <= IF m = Remembered THEN 1 ELSE MaxRetries + 1
  BY DEF HasEnded, ChatsInv, ChatInv
<1>2. CASE Skip(c)
  BY <1>1, <1>2, SkipKeeps DEF Skip
<1>3. ASSUME NEW a \in Failure, FailRemembered(c, a)
      PROVE  /\ FallbackTypeOK' /\ Walked(c)'
             /\ \A m \in Model :
                  Len(answers'[c][m]) <= IF m = Remembered THEN 1 ELSE MaxRetries + 1
             /\ \A d \in Chat \ {c} : answers'[d] = answers[d] /\ link'[d] = link[d]
  <2>1. /\ link[c] = 0 /\ link[c] \in 0 .. Len(Chain) /\ Hear(c, a)
        /\ Current(c) = Remembered /\ a \in Failure \cup {"ok"}
    BY <1>3, FallbackAssumption DEF FailRemembered, Current
  <2>2. /\ \A d \in Chat \ {c} : answers'[d] = answers[d]
        /\ \A m \in Model \ {Remembered} : answers'[c][m] = answers[c][m]
        /\ Len(answers'[c][Remembered]) = Len(answers[c][Remembered]) + 1
    BY <1>1, <2>1, Heard
  <2>3. Len(answers[c][Remembered]) = 0
    BY <1>1, <2>1 DEF Walked
  <2>4. Len(answers'[c][Remembered]) <= 1
    BY <2>2, <2>3
  <2>5. \A m \in Model :
          Len(answers'[c][m]) <= IF m = Remembered THEN 1 ELSE MaxRetries + 1
    BY <1>1, <2>2, <2>4
  <2>6. FallbackTypeOK' /\ Walked(c)' /\ \A d \in Chat \ {c} : link'[d] = link[d]
    BY <1>1, <1>3, FailRememberedKeeps
  <2> QED  BY <2>2, <2>5, <2>6
<1>4. ASSUME NEW a \in Failure, FailLink(c, a)
      PROVE  \A d \in Chat \ {c} : answers'[d] = answers[d]
  BY <1>1, <1>4, Heard DEF FailLink
<1> QED  BY <1>1, <1>2, <1>3, <1>4, FailLinkKeeps DEF Ask

LEMMA ChatsStep ==
  ASSUME TasksInv, ChatsInv, [GoalNext]_goalvars
  PROVE  ChatsInv'
<1>1. ChatsInv /\ Chat \subseteq Goal /\ TaskTypeOK /\ Task = Goal
  BY GoalAssumption DEF TasksInv, TaskInv, Goal
<1>2. CASE UNCHANGED <<fallback, status>>
  <2>1. FallbackTypeOK'
    BY <1>1, <1>2 DEF ChatsInv, FallbackTypeOK, fallback
  <2> QED  BY <1>1, <1>2, <2>1, Unaffected DEF ChatsInv, fallback, HasEnded
<1>3. ASSUME NEW g \in Goal, UNCHANGED fallback,
             ~HasEnded(g), \/ status'[g] \in {"pending", "running"}
                           \/ g \notin Chat,
             \A d \in Goal \ {g} : status'[d] = status[d]
      PROVE  ChatsInv'
  <2>1. FallbackTypeOK'
    BY <1>1, <1>3 DEF ChatsInv, FallbackTypeOK, fallback
  <2>2. ASSUME NEW d \in Chat  PROVE ChatInv(d)'
    <3>1. /\ HasEnded(d) => status'[d] = status[d]
          /\ ~HasEnded(d) => ~HasEnded(d)'
      BY <1>1, <1>3 DEF HasEnded
    <3> QED  BY <1>1, <1>3, <3>1, Unaffected DEF ChatsInv, fallback
  <2> QED  BY <2>1, <2>2 DEF ChatsInv
<1>4. ASSUME NEW g \in Goal, Work(g)  PROVE ChatsInv'
  <2>1. CASE CreateTask(g)
    BY <1>1, <1>3, <2>1 DEF CreateTask, Step, create, HasEnded, TaskTypeOK
  <2>2. CASE Execute(g)
    BY <1>1, <1>3, <2>2 DEF Execute, Start, HasEnded, TaskTypeOK
  <2>3. CASE Resume(g) \/ (g \in Call /\ AskPermission(g))
    BY <1>2, <2>3 DEF Resume, AskPermission, Step, taskvars
  <2>4. CASE OtherEnds(g) \/ ToolEnds(g)
    <3>1. g \notin Chat
      BY <2>4, GoalAssumption DEF OtherEnds, ToolEnds
    <3>2. /\ UNCHANGED fallback /\ status[g] = "running"
          /\ \A d \in Goal \ {g} : status'[d] = status[d]
      BY <1>1, <2>4 DEF OtherEnds, ToolEnds, Complete, Fail, End, TaskTypeOK
    <3> QED  BY <1>3, <3>1, <3>2 DEF HasEnded
  <2>5. CASE g \in Chat /\ ChatEnds(g)
    <3>1. FallbackTypeOK' /\ ChatInv(g)'
          /\ \A d \in Chat \ {g} :
               answers'[d] = answers[d] /\ link'[d] = link[d] /\ status'[d] = status[d]
      BY <1>1, <2>5, EndKeeps DEF ChatEnds, HasEnded, TaskTypeOK
    <3> QED  BY <1>1, <2>5, <3>1, Unaffected DEF ChatsInv, HasEnded
  <2>6. CASE g \in Chat /\ ChatAsks(g)
    <3>1. status[g] = "running" /\ Ask(g) /\ status' = status
      BY <2>6 DEF ChatAsks, taskvars
    <3>2. /\ FallbackTypeOK' /\ Walked(g)'
          /\ \A m \in Model :
               Len(answers'[g][m]) <= IF m = Remembered THEN 1 ELSE MaxRetries + 1
          /\ \A d \in Chat \ {g} : answers'[d] = answers[d] /\ link'[d] = link[d]
      BY <2>6, <3>1, AskKeeps
    <3>3. ChatInv(g)'
      BY <3>1, <3>2 DEF ChatInv
    <3> QED  BY <1>1, <2>6, <3>1, <3>2, <3>3, Unaffected DEF ChatsInv, HasEnded
  <2> QED  BY <1>4, <2>1, <2>2, <2>3, <2>4, <2>5, <2>6 DEF Work
<1>5. CASE Supervise
  BY <1>2, <1>5 DEF Supervise, Await, Break, Arrive, Checked, Return, StartReady,
     RefuseReady, Process, LeaveOut, NotUnblocked, MakeReady, SkipGoal, StartSynthesis,
     outside, taskvars
<1>6. ASSUME NEW g \in Call, UserAnswers(g)  PROVE ChatsInv'
  BY <1>2, <1>6 DEF UserAnswers, taskvars
<1>7. CASE UNCHANGED goalvars
  BY <1>2, <1>7 DEF goalvars, taskvars
<1> QED  BY <1>4, <1>5, <1>6, <1>7 DEF GoalNext

LEMMA ChatsInductive == GoalSpec => []ChatsInv
<1>1. GoalInit => ChatsInv
  <2> SUFFICES ASSUME GoalInit  PROVE ChatsInv
    OBVIOUS
  <2>1. /\ \A c \in Chat : link[c] = 0 /\ \A m \in Model : answers[c][m] = <<>>
        /\ \A c \in Chat : status[c] = "none"
    BY GoalAssumption DEF GoalInit, FallbackInit, TaskInit, Goal
  <2>2. FallbackTypeOK
    BY FallbackAssumption DEF GoalInit, FallbackInit, FallbackTypeOK
  <2> QED
    BY <2>1, <2>2, FallbackAssumption DEF ChatsInv, ChatInv, Walked, HasEnded, MaxRetries
<1> QED  BY <1>1, TasksInductive, ChatsStep, PTL DEF GoalSpec

(* The remembered model is asked once and a model of the chain at most twice. *)
THEOREM AttemptsBoundedPerModel == GoalSpec => []AttemptsRespected
<1>1. ChatsInv => AttemptsRespected
  BY DEF ChatsInv, ChatInv, AttemptsRespected
<1> QED  BY <1>1, ChatsInductive, PTL

(* A chat fails only when every model has been asked for good, or one of   *)
(* the chain has refused the credentials.                                   *)
THEOREM ChatFailsLast == GoalSpec => []NoModelLeftOut
<1>1. ChatsInv => NoModelLeftOut
  BY DEF ChatsInv, ChatInv, NoModelLeftOut
<1> QED  BY <1>1, ChatsInductive, PTL

(* The supervisor's sets, the results and the three components it drives   *)
(* have their types.                                                       *)
THEOREM GoalTypeCorrect == GoalSpec => []GoalTypeOK
<1>1. ChatsInv /\ Books /\ PermissionInv /\ TaskInv => GoalTypeOK
  BY DEF ChatsInv, Books, Supervised, PermissionInv, Kernel, TaskInv, GoalTypeOK
<1> QED  BY <1>1, ChatsInductive, BooksInductive, ComponentsInductive, PTL
=============================================================================
