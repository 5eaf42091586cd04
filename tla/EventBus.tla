-------------------------------- MODULE EventBus --------------------------------
(***************************************************************************)
(* EventBus (src/parika/core/event_bus/event_bus.py).  It takes no lock:   *)
(* threads call it at the same time, and each operation is split where the *)
(* interpreter may switch threads, after a call.  publish() walks over the *)
(* live list by index.  Lists have an identity, because a thread may still *)
(* hold a list that another one has deleted from the dictionary.           *)
(*                                                                         *)
(* Every thread subscribes a callback of its own, so that a thread and its *)
(* callback have one name.  Listeners, such as the console, are subscribed *)
(* before the threads start and stay.  Callbacks neither subscribe,        *)
(* unsubscribe nor publish.                                                *)
(***************************************************************************)
EXTENDS Naturals, Sequences

CONSTANTS
  Thread,   \* the threads that use the bus
  Channel,  \* the names of events
  Audience  \* the sequences of listeners that a process may start with

ASSUME BusAssumption ==
  \A l \in Audience :
    /\ l \in Seq(STRING)
    /\ \A i, j \in 1 .. Len(l) : l[i] = l[j] => i = j
    /\ \A i \in 1 .. Len(l) : l[i] \notin Thread

VARIABLES
  lists,         \* per channel, the lists of subscribers there have been
  subscriptions, \* per channel, which of them is in the dictionary, 0 if none
  call,          \* per thread, the next statement of the operation it is in
  channel,       \* per thread, the argument event_name of that operation
  held,          \* per thread, the list that its local variable refers to
  index,         \* per thread, where its loop over that list is
  listening      \* the listeners of this process

bus == <<lists, subscriptions, call, channel, held, index, listening>>

Subscribers(t) == lists[channel[t]][held[t]]

In(s, l) == \E i \in 1 .. Len(l) : l[i] = s

BusInit ==
  /\ listening \in Audience
  /\ lists = [c \in Channel |-> IF listening = <<>> THEN <<>> ELSE <<listening>>]
  /\ subscriptions = [c \in Channel |-> Len(lists[c])]
  /\ call = [t \in Thread |-> "idle"]
  /\ channel = [t \in Thread |-> "none"]
  /\ held = [t \in Thread |-> 0]
  /\ index = [t \in Thread |-> 0]

Begin(t, c, next) ==
  /\ call[t] = "idle"
  /\ call' = [call EXCEPT ![t] = next]
  /\ channel' = [channel EXCEPT ![t] = c]
  /\ held' = [held EXCEPT ![t] = subscriptions'[c]]

Continue(t, from, to) ==
  /\ call[t] = from
  /\ call' = [call EXCEPT ![t] = to]
  /\ UNCHANGED <<channel, held, index, listening>>

(* The local variables are gone. *)
Return(t, from) ==
  /\ call[t] = from
  /\ call' = [call EXCEPT ![t] = "idle"]
  /\ channel' = [channel EXCEPT ![t] = "none"]
  /\ held' = [held EXCEPT ![t] = 0]
  /\ index' = [index EXCEPT ![t] = 0]
  /\ UNCHANGED listening

(* The operation returns at once. *)
Nothing(t) == call[t] = "idle" /\ UNCHANGED bus

Update(t, l) == lists' = [lists EXCEPT ![channel[t]][held[t]] = l]
-----------------------------------------------------------------------------
(* Mutant: a new list is not put into the dictionary. *)
Subscribe_Get(t, c) ==
  /\ UNCHANGED <<lists, subscriptions, index, listening>>
  /\ Begin(t, c, "append")

(* subscribe(): setdefault, then append. *)
Subscribe(t, c) ==
  /\ IF subscriptions[c] = 0
       THEN /\ lists' = [lists EXCEPT ![c] = Append(@, <<>>)]
            /\ subscriptions' = [subscriptions EXCEPT ![c] = Len(lists[c]) + 1]
       ELSE UNCHANGED <<lists, subscriptions>>
  /\ Begin(t, c, "append")
  /\ UNCHANGED <<index, listening>>

(* Mutant: the newest subscriber comes first. *)
Appended_First(t) ==
  /\ Return(t, "append")
  /\ Update(t, <<t>> \o Subscribers(t))
  /\ UNCHANGED subscriptions

Appended(t) ==
  /\ Return(t, "append")
  /\ Update(t, IF In(t, Subscribers(t)) THEN Subscribers(t) ELSE Append(Subscribers(t), t))
  /\ UNCHANGED subscriptions

(* unsubscribe(): get, then remove, then delete the list if it is empty. *)
Unsubscribe(t, c) ==
  \/ /\ subscriptions[c] = 0
     /\ Nothing(t)
  \/ /\ subscriptions[c] # 0
     /\ UNCHANGED <<lists, subscriptions, index, listening>>
     /\ Begin(t, c, "remove")

Place(s, l) == CHOOSE i \in 1 .. Len(l) : l[i] = s

Without(s, l) ==
  [i \in 1 .. Len(l) - 1 |-> IF i < Place(s, l) THEN l[i] ELSE l[i + 1]]

NotThere(t) ==
  /\ Return(t, "remove")
  /\ ~In(t, Subscribers(t))
  /\ UNCHANGED <<lists, subscriptions>>

Removed(t) ==
  /\ Continue(t, "remove", "delete")
  /\ In(t, Subscribers(t))
  /\ Update(t, Without(t, Subscribers(t)))
  /\ UNCHANGED subscriptions

Remains(t) ==
  /\ Return(t, "delete")
  /\ Subscribers(t) # <<>>
  /\ UNCHANGED <<lists, subscriptions>>

(* Mutant: the list is deleted though it has subscribers. *)
Deleted_Any(t) ==
  /\ Return(t, "delete")
  /\ subscriptions' = [subscriptions EXCEPT ![channel[t]] = 0]
  /\ UNCHANGED lists

(* Whichever list is in the dictionary now is deleted ... *)
Deleted(t) ==
  /\ Return(t, "delete")
  /\ Subscribers(t) = <<>>
  /\ subscriptions[channel[t]] # 0
  /\ subscriptions' = [subscriptions EXCEPT ![channel[t]] = 0]
  /\ UNCHANGED lists

(* ... and if there is none, "del" raises a KeyError. *)
NoneToDelete(t) ==
  /\ Continue(t, "delete", "raised")
  /\ Subscribers(t) = <<>>
  /\ subscriptions[channel[t]] = 0
  /\ UNCHANGED <<lists, subscriptions>>

(* publish(). *)
Nobody(c) == IF subscriptions[c] = 0 THEN TRUE ELSE lists[c][subscriptions[c]] = <<>>

Publish(t, c) ==
  \/ /\ Nobody(c)
     /\ Nothing(t)
  \/ /\ ~Nobody(c)
     /\ UNCHANGED <<lists, subscriptions, listening>>
     /\ Begin(t, c, "deliver")
     /\ index' = [index EXCEPT ![t] = 1]

Delivering(t, s) ==
  /\ call[t] = "deliver"
  /\ index[t] <= Len(Subscribers(t))
  /\ s = Subscribers(t)[index[t]]

(* The subscriber s is invoked; what it raises is logged. *)
Deliver(t, s) ==
  /\ Delivering(t, s)
  /\ index' = [index EXCEPT ![t] = @ + 1]
  /\ UNCHANGED <<lists, subscriptions, call, channel, held, listening>>

Published(t) == call[t] = "deliver" /\ index[t] > Len(Subscribers(t))

Delivered(t) ==
  /\ Published(t)
  /\ Return(t, "deliver")
  /\ UNCHANGED <<lists, subscriptions>>

(* What an operation does by itself once it has begun, deliveries apart. *)
Proceed(t) ==
  \/ Appended(t) \/ NotThere(t) \/ Removed(t) \/ Remains(t)
  \/ Deleted(t) \/ NoneToDelete(t) \/ Delivered(t)
=============================================================================
