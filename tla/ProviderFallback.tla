--------------------------- MODULE ProviderFallback ---------------------------
(***************************************************************************)
(* CapabilityExecutor._execute_chat_respond_with_fallback                  *)
(* (src/parika/core/capability_executor/capability_executor.py): a chat    *)
(* answer is asked of the model that the planner has selected, then of a   *)
(* chain of models, one after the other, with one more attempt after a     *)
(* transport error.  Providers and models that are not registered are      *)
(* taken to be absent from the chain.                                      *)
(***************************************************************************)
EXTENDS Naturals, Sequences

CONSTANTS
  Chat,       \* the executions of chat.respond
  Model,      \* the models of the registered providers
  Remembered, \* the model that the planner has selected
  Chain       \* the models of the chain, from PRIMARY to LOCAL

ASSUME FallbackAssumption == Remembered \in Model /\ Chain \in Seq(Model)

VARIABLES
  link,    \* per chat, the place in the chain it is at, 0 before the chain
  answers  \* per chat and model, what the model has answered so far

fallback == <<link, answers>>

MaxRetries == 1

(* Connection errors, time-outs and the like are "transport", a response   *)
(* that cannot be used is "response", a refused credential is "auth".       *)
Failure == {"transport", "response", "auth"}

FallbackInit ==
  /\ link = [c \in Chat |-> 0]
  /\ answers = [c \in Chat |-> [m \in Model |-> <<>>]]

Current(c)  == IF link[c] = 0 THEN Remembered ELSE Chain[link[c]]
Attempts(c) == Len(answers[c][Current(c)])

Hear(c, a) == answers' = [answers EXCEPT ![c][Current(c)] = Append(@, a)]

(* The inner loop is left by the retries, by any error but transport. *)
Advances(c, a) == a = "response" \/ Attempts(c) >= MaxRetries

(* The remembered model: every error leads to the chain. *)
FailRemembered(c, a) ==
  /\ link[c] = 0
  /\ link' = [link EXCEPT ![c] = 1]
  /\ Hear(c, a)

(* Mutant: the model being retried counts as attempted. *)
Skipped_Retried(c) ==
  LET i == link[c]
  IN  /\ i \in 1 .. Len(Chain)
      /\ answers[c][Chain[i]] # <<>>

(* Mutant: the remembered model is asked again in the chain. *)
Skipped_Others(c) ==
  LET i == link[c]
  IN  /\ i \in 1 .. Len(Chain)
      /\ \E j \in 1 .. i - 1 : Chain[j] = Chain[i]

(* The models already attempted; the one being retried is not skipped. *)
Skipped(c) ==
  LET i == link[c]
  IN  /\ i \in 1 .. Len(Chain)
      /\ \/ Chain[i] = Remembered
         \/ \E j \in 1 .. i - 1 : Chain[j] = Chain[i]

Skip(c) ==
  /\ Skipped(c)
  /\ link' = [link EXCEPT ![c] = @ + 1]
  /\ UNCHANGED answers

FailLink(c, a) ==
  /\ link[c] \in 1 .. Len(Chain)
  /\ ~Skipped(c)
  /\ a # "auth"
  /\ link' = IF Advances(c, a) THEN [link EXCEPT ![c] = @ + 1] ELSE link
  /\ Hear(c, a)

(* A refused credential in the chain ends the execution: the error is raised. *)
RefuseLink(c) ==
  /\ link[c] \in 1 .. Len(Chain)
  /\ ~Skipped(c)
  /\ Hear(c, "auth")
  /\ UNCHANGED link

(* A model answers. *)
AnswerLink(c) ==
  /\ link[c] \in 0 .. Len(Chain)
  /\ ~Skipped(c)
  /\ Hear(c, "ok")
  /\ UNCHANGED link

Exhausted(c) == link[c] > Len(Chain)

Ask(c) == Skip(c) \/ \E a \in Failure : FailRemembered(c, a) \/ FailLink(c, a)
-----------------------------------------------------------------------------
FallbackTypeOK ==
  /\ link \in [Chat -> 0 .. Len(Chain) + 1]
  /\ answers \in [Chat -> [Model -> Seq(Failure \cup {"ok"})]]

Last(s) == s[Len(s)]

(* Nothing was left to try for the chat c: every model has been asked, and *)
(* those of the chain once more after a transport error.                    *)
AllAsked(c) ==
  /\ answers[c][Remembered] # <<>>
  /\ \A i \in 1 .. Len(Chain) :
       LET s == answers[c][Chain[i]]
       IN  /\ s # <<>>
           /\ Chain[i] # Remembered /\ Last(s) = "transport" =>
                Len(s) = MaxRetries + 1

(* A credential was refused by a model of the chain. *)
AuthRefused(c) ==
  \E m \in Model \ {Remembered} : answers[c][m] # <<>> /\ Last(answers[c][m]) = "auth"

(* A model is never asked more often than its attempts, the remembered one *)
(* never twice, though it may be in the chain again.                        *)
AttemptsRespected ==
  \A c \in Chat : \A m \in Model :
    Len(answers[c][m]) <= IF m = Remembered THEN 1 ELSE MaxRetries + 1
=============================================================================
