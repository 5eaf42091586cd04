-------------------------- MODULE ProgressGuardProofs --------------------------
(***************************************************************************)
(* For any number of tools, of executions, of listeners and of             *)
(* interleavings at the calls of EventBus: a guard fails no node but that  *)
(* of its own tool, which its own driver has started; no subscriber is     *)
(* invoked twice for one event; and, as long as one listener stays, every  *)
(* listener hears every event, unsubscribe() returns, and the guard fails  *)
(* the node of its driver exactly when that has raised without ending it,  *)
(* if no other execution left a list that it was publishing to.            *)
(***************************************************************************)
EXTENDS ProgressGuard, SequenceTheorems, FiniteSetTheorems, TLAPS

-----------------------------------------------------------------------------
(***************************************************************************)
(* Lists.                                                                  *)
(***************************************************************************)
LEMMA PlaceIn ==
  ASSUME NEW l, NEW s, In(s, l)
  PROVE  Place(s, l) \in 1 .. Len(l) /\ l[Place(s, l)] = s
  BY DEF In, Place

LEMMA WithoutProperties ==
  ASSUME NEW S, NEW l \in Seq(S), NEW s, In(s, l)
  PROVE  /\ Without(s, l) \in Seq(S)
         /\ Len(Without(s, l)) = Len(l) - 1
         /\ \A i \in 1 .. Len(l) - 1 :
              Without(s, l)[i] = IF i < Place(s, l) THEN l[i] ELSE l[i + 1]
<1>1. Len(l) \in Nat /\ Len(l) - 1 \in Nat /\ Place(s, l) \in 1 .. Len(l)
  BY PlaceIn, LenProperties
<1>2. \A i \in 1 .. Len(l) - 1 : (IF i < Place(s, l) THEN l[i] ELSE l[i + 1]) \in S
  BY <1>1, ElementOfSeq
<1> DEFINE n == Len(l) - 1
           e(i) == IF i < Place(s, l) THEN l[i] ELSE l[i + 1]
<1>3. n \in Nat /\ \A i \in 1 .. n : e(i) \in S
  BY <1>1, <1>2
<1> HIDE DEF n, e
<1>4. [i \in 1 .. n |-> e(i)] \in Seq(S) /\ Len([i \in 1 .. n |-> e(i)]) = n
  BY <1>3, IsASeq, LenProperties
<1> QED  BY <1>4 DEF Without, n, e

LEMMA OthersStay ==
  ASSUME NEW S, NEW l \in Seq(S), NEW s, In(s, l), NEW x, x # s, In(x, l)
  PROVE  In(x, Without(s, l))
<1>1. PICK i \in 1 .. Len(l) : l[i] = x
  BY DEF In
<1>2. Len(l) \in Nat /\ Place(s, l) \in 1 .. Len(l) /\ i # Place(s, l)
  BY <1>1, PlaceIn, LenProperties
<1>3. CASE i < Place(s, l)
  <2>1. i \in 1 .. Len(l) - 1
    BY <1>2, <1>3
  <2> QED  BY <1>1, <1>3, <2>1, WithoutProperties DEF In
<1>4. CASE i > Place(s, l)
  <2>1. i - 1 \in 1 .. Len(l) - 1 /\ ~(i - 1 < Place(s, l)) /\ (i - 1) + 1 = i
    BY <1>2, <1>4
  <2> QED  BY <1>1, <2>1, WithoutProperties DEF In
<1> QED  BY <1>2, <1>3, <1>4
-----------------------------------------------------------------------------
(***************************************************************************)
(* The bus, as long as one listener stays.                                 *)
(***************************************************************************)
Subscriber == Thread \cup {listening[i] : i \in 1 .. Len(listening)}

Members(c) == lists[c][1]

Busy == {"append", "remove", "delete", "deliver"}

BusTypes ==
  /\ listening \in Audience
  /\ call \in [Thread -> Busy \cup {"idle", "raised"}]
  /\ channel \in [Thread -> Channel \cup {"none"}]
  /\ index \in [Thread -> Nat]
  /\ DOMAIN held = Thread
  /\ \A t \in Thread : call[t] \in Busy => channel[t] \in Channel

(* The list that a channel has at first is its list for ever, and starts   *)
(* with the listeners.                                                      *)
Steady ==
  /\ DOMAIN lists = Channel
  /\ \A c \in Channel :
       /\ subscriptions[c] = 1
       /\ 1 \in DOMAIN lists[c]
       /\ Members(c) \in Seq(Subscriber)
       /\ \A i \in 1 .. Len(listening) :
            i <= Len(Members(c)) /\ Members(c)[i] = listening[i]
  /\ \A t \in Thread : call[t] # "raised" /\ (call[t] \in Busy => held[t] = 1)

Attended == listening # <<>> => Steady

(* What a step of an execution does to the bus. *)
BusAction(t) ==
  \/ \E c \in Channel : Subscribe(t, c) \/ Unsubscribe(t, c) \/ Publish(t, c)
  \/ \E s \in Subscriber : Deliver(t, s)
  \/ Proceed(t)
  \/ UNCHANGED bus

LEMMA BusActions ==
  ASSUME NEW t \in Thread, turn \in [Thread -> 1 .. 3], Execute(t)
  PROVE  BusAction(t)
<1>1. Stages[turn[t]] \in Channel /\ {"started", "completed", "failed"} \subseteq Channel
  BY GuardAssumption DEF Stages
<1> QED
  BY <1>1 DEF Execute, SubscribeNext, UnsubscribeNext, Finish, Started, Completed, Failed,
     Raise, Caught, Closed, CloseNode, Send, Operate, Hear, BusAction, Subscriber

LEMMA TurnType ==
  ASSUME turn \in [Thread -> 1 .. 3], NEW t \in Thread, Execute(t)
  PROVE  turn' \in [Thread -> 1 .. 3]
  BY DEF Execute, SubscribeNext, UnsubscribeNext, Turn, Finish, Started, Completed, Failed,
     Raise, Caught, Closed, CloseNode, Send, Operate, Hear, guard

LEMMA BusTypesStep ==
  ASSUME BusTypes, NEW t \in Thread, BusAction(t)
  PROVE  BusTypes' /\ listening' = listening
<1> USE DEF BusTypes, Busy
<1>1. ASSUME NEW c \in Channel, Subscribe(t, c)  PROVE BusTypes' /\ listening' = listening
  BY <1>1 DEF Subscribe, Begin
<1>2. ASSUME NEW c \in Channel, Unsubscribe(t, c)  PROVE BusTypes' /\ listening' = listening
  BY <1>2 DEF Unsubscribe, Begin, Nothing, bus
<1>3. ASSUME NEW c \in Channel, Publish(t, c)  PROVE BusTypes' /\ listening' = listening
  BY <1>3 DEF Publish, Begin, Nothing, bus
<1>4. ASSUME NEW s, Deliver(t, s)  PROVE BusTypes' /\ listening' = listening
  BY <1>4 DEF Deliver
<1>5. ASSUME NEW from, Return(t, from)  PROVE BusTypes' /\ listening' = listening
  BY <1>5 DEF Return
<1>8. CASE Appended(t) \/ NotThere(t) \/ Remains(t) \/ Deleted(t) \/ Delivered(t)
  BY ONLY <1>5, <1>8 DEF Appended, NotThere, Remains, Deleted, Delivered
<1>6. CASE Removed(t) \/ NoneToDelete(t)
  BY <1>6 DEF Removed, NoneToDelete, Continue
<1>7. CASE UNCHANGED bus
  BY <1>7 DEF bus
<1> QED  BY <1>1, <1>2, <1>3, <1>4, <1>5, <1>6, <1>7, <1>8 DEF BusAction, Proceed

LEMMA Listeners ==
  ASSUME BusTypes
  PROVE  /\ Len(listening) \in Nat /\ (listening # <<>> => Len(listening) > 0)
         /\ \A i \in 1 .. Len(listening) : listening[i] \notin Thread
  BY BusAssumption, LenProperties, EmptySeq DEF BusTypes

(* A list that still starts with the listeners is put back. *)
LEMMA SteadyUpdate ==
  ASSUME Steady, listening' = listening, NEW c \in Channel,
         NEW l \in Seq(Subscriber),
         \A i \in 1 .. Len(listening) : i <= Len(l) /\ l[i] = listening[i],
         lists' = [lists EXCEPT ![c][1] = l], subscriptions' = subscriptions,
         \A t \in Thread : call'[t] # "raised" /\ (call'[t] \in Busy => held'[t] = 1)
  PROVE  Steady' /\ Members(c)' = l /\ \A d \in Channel \ {c} : Members(d)' = Members(d)
<1>1. Subscriber' = Subscriber
  BY DEF Subscriber
<1>2. Members(c)' = l /\ \A d \in Channel \ {c} : Members(d)' = Members(d)
  BY DEF Steady, Members
<1>3. DOMAIN lists' = Channel /\ \A d \in Channel : 1 \in DOMAIN lists'[d]
  BY DEF Steady
<1> QED  BY <1>1, <1>2, <1>3 DEF Steady

LEMMA SteadyStay ==
  ASSUME Steady, listening' = listening, lists' = lists, subscriptions' = subscriptions,
         \A t \in Thread : call'[t] # "raised" /\ (call'[t] \in Busy => held'[t] = 1)
  PROVE  Steady'
<1>1. Subscriber' = Subscriber /\ \A c : Members(c)' = Members(c)
  BY DEF Subscriber, Members
<1> QED  BY <1>1 DEF Steady

(* The list that the thread t works on. *)
LEMMA OnTheList ==
  ASSUME BusTypes, Steady, NEW t \in Thread, call[t] \in Busy
  PROVE  /\ channel[t] \in Channel /\ held[t] = 1
         /\ Subscribers(t) = Members(channel[t])
         /\ Subscribers(t) \in Seq(Subscriber)
         /\ \A i \in 1 .. Len(listening) :
              i <= Len(Subscribers(t)) /\ Subscribers(t)[i] = listening[i]
  BY DEF BusTypes, Steady, Subscribers, Members

LEMMA SteadyAppend ==
  ASSUME BusTypes, Steady, NEW t \in Thread, Appended(t)
  PROVE  /\ Steady'
         /\ \A c \in Channel : Members(c)' =
              IF c # channel[t] \/ In(t, Subscribers(t)) THEN Members(c)
              ELSE Append(Members(c), t)
<1> DEFINE m == Subscribers(t)
           l == IF In(t, m) THEN m ELSE Append(m, t)
<1>1. /\ call[t] = "append" /\ lists' = [lists EXCEPT ![channel[t]][held[t]] = l]
      /\ subscriptions' = subscriptions /\ listening' = listening
      /\ call' = [call EXCEPT ![t] = "idle"] /\ held' = [held EXCEPT ![t] = 0]
  BY DEF Appended, Return, Update
<1>2. /\ channel[t] \in Channel /\ held[t] = 1 /\ m \in Seq(Subscriber)
      /\ \A i \in 1 .. Len(listening) : i <= Len(m) /\ m[i] = listening[i]
  BY <1>1, OnTheList DEF Busy
<1>3. t \in Subscriber /\ Len(m) \in Nat /\ Len(listening) \in Nat
  BY <1>2, LenProperties, Listeners DEF Subscriber
<1> HIDE DEF m
<1>4. /\ l \in Seq(Subscriber)
      /\ \A i \in 1 .. Len(listening) : i <= Len(l) /\ l[i] = listening[i]
  <2>1. CASE In(t, m)
    BY <1>2, <2>1
  <2>2. CASE ~In(t, m)
    BY <1>2, <1>3, <2>2, AppendProperties
  <2> QED  BY <2>1, <2>2
<1>5. \A u \in Thread : call'[u] # "raised" /\ (call'[u] \in Busy => held'[u] = 1)
  BY <1>1 DEF Steady, BusTypes, Busy
<1> HIDE DEF l
<1>6. PICK c \in Channel : c = channel[t]
  BY <1>2
<1>7. lists' = [lists EXCEPT ![c][1] = l]
  BY ONLY <1>1, <1>2, <1>6
<1>8. subscriptions' = subscriptions /\ listening' = listening
  BY <1>1
<1>9. Steady' /\ Members(c)' = l /\ \A d \in Channel \ {c} : Members(d)' = Members(d)
  BY ONLY <1>4, <1>5, <1>7, <1>8, Steady, SteadyUpdate
<1>10. m = Members(c)
  BY <1>1, <1>6, OnTheList DEF m, Busy
<1>11. l = IF In(t, m) THEN m ELSE Append(m, t)
  BY DEF l
<1> QED  BY ONLY <1>6, <1>9, <1>10, <1>11 DEF m

LEMMA SteadyRemove ==
  ASSUME BusTypes, Steady, NEW t \in Thread, Removed(t)
  PROVE  /\ Steady'
         /\ \A c \in Channel : Members(c)' =
              IF c = channel[t] THEN Without(t, Members(c)) ELSE Members(c)
<1> DEFINE m == Subscribers(t)
           l == Without(t, m)
<1>1. /\ call[t] = "remove" /\ lists' = [lists EXCEPT ![channel[t]][held[t]] = l]
      /\ subscriptions' = subscriptions /\ listening' = listening
      /\ call' = [call EXCEPT ![t] = "delete"] /\ held' = held /\ In(t, m)
  BY DEF Removed, Continue, Update
<1>2. /\ channel[t] \in Channel /\ held[t] = 1 /\ m \in Seq(Subscriber)
      /\ \A i \in 1 .. Len(listening) : i <= Len(m) /\ m[i] = listening[i]
  BY <1>1, OnTheList DEF Busy
<1>3. /\ Len(m) \in Nat /\ Len(listening) \in Nat
      /\ \A i \in 1 .. Len(listening) : listening[i] # t
  BY <1>2, LenProperties, Listeners
<1> HIDE DEF m
<1>4. Place(t, m) \in 1 .. Len(m) /\ m[Place(t, m)] = t
  BY <1>1, PlaceIn
<1>5. Place(t, m) > Len(listening)
  BY <1>2, <1>3, <1>4
<1>6. /\ l \in Seq(Subscriber) /\ Len(l) = Len(m) - 1
      /\ \A i \in 1 .. Len(m) - 1 : l[i] = IF i < Place(t, m) THEN m[i] ELSE m[i + 1]
  BY <1>1, <1>2, WithoutProperties
<1> HIDE DEF l
<1>7. \A i \in 1 .. Len(listening) : i <= Len(l) /\ l[i] = listening[i]
  BY <1>2, <1>3, <1>4, <1>5, <1>6
<1>8. \A u \in Thread : call'[u] # "raised" /\ (call'[u] \in Busy => held'[u] = 1)
  BY <1>1, <1>2 DEF Steady, BusTypes, Busy
<1>9. PICK c \in Channel : c = channel[t]
  BY <1>2
<1>10. lists' = [lists EXCEPT ![c][1] = l]
  BY ONLY <1>1, <1>2, <1>9
<1>11. subscriptions' = subscriptions /\ listening' = listening
  BY <1>1
<1>12. Steady' /\ Members(c)' = l /\ \A d \in Channel \ {c} : Members(d)' = Members(d)
  BY ONLY <1>6, <1>7, <1>8, <1>10, <1>11, Steady, SteadyUpdate
<1>13. m = Members(c)
  BY <1>1, <1>9, OnTheList DEF m, Busy
<1>14. l = Without(t, m)
  BY DEF l
<1> QED  BY ONLY <1>9, <1>12, <1>13, <1>14

LEMMA SteadyStep ==
  ASSUME BusTypes, listening # <<>>, Steady, NEW t \in Thread, BusAction(t)
  PROVE  Steady'
<1>0. listening' = listening
  BY BusTypesStep
<1>1. ASSUME NEW c \in Channel, Subscribe(t, c)  PROVE Steady'
  BY <1>0, <1>1, SteadyStay DEF Subscribe, Begin, Steady, BusTypes, Busy
<1>2. ASSUME NEW c \in Channel, Unsubscribe(t, c)  PROVE Steady'
  BY <1>0, <1>2, SteadyStay DEF Unsubscribe, Begin, Nothing, bus, Steady, BusTypes, Busy
<1>3. ASSUME NEW c \in Channel, Publish(t, c)  PROVE Steady'
  BY <1>0, <1>3, SteadyStay DEF Publish, Begin, Nothing, bus, Steady, BusTypes, Busy
<1>4. ASSUME NEW s, Deliver(t, s)  PROVE Steady'
  BY <1>0, <1>4, SteadyStay DEF Deliver, Steady
<1>5. ASSUME NEW from, Return(t, from), lists' = lists, subscriptions' = subscriptions
      PROVE  Steady'
  BY <1>0, <1>5, SteadyStay DEF Return, Steady, BusTypes, Busy
<1>6. CASE NotThere(t) \/ Remains(t) \/ Delivered(t)
  BY ONLY <1>5, <1>6 DEF NotThere, Remains, Delivered
<1>7. CASE Deleted(t) \/ NoneToDelete(t)
  <2>1. call[t] = "delete" /\ Subscribers(t) = <<>>
    BY <1>7 DEF Deleted, NoneToDelete, Return, Continue
  <2>2. \A i \in 1 .. Len(listening) : i <= Len(Subscribers(t))
    BY <2>1, OnTheList DEF Busy
  <2>3. Len(listening) \in Nat /\ Len(listening) > 0 /\ Len(Subscribers(t)) = 0
    BY <2>1, Listeners, EmptySeq
  <2> QED  BY <2>2, <2>3
<1>8. CASE UNCHANGED bus
  BY <1>8, SteadyStay DEF bus, Steady
<1> QED
  BY <1>1, <1>2, <1>3, <1>4, <1>6, <1>7, <1>8, SteadyAppend, SteadyRemove
     DEF BusAction, Proceed

BusSafe == BusTypes /\ Attended /\ turn \in [Thread -> 1 .. 3]

LEMMA BusSafeInit == GuardInit => BusSafe
<1> SUFFICES ASSUME GuardInit  PROVE BusSafe
  OBVIOUS
<1>1. BusTypes
  BY DEF GuardInit, BusInit, BusTypes, Busy
<1>2. ASSUME listening # <<>>  PROVE Steady
  <2>1. /\ lists = [c \in Channel |-> <<listening>>]
        /\ subscriptions = [c \in Channel |-> 1]
    BY <1>2 DEF GuardInit, BusInit
  <2>2. listening \in Seq(STRING)
    BY BusAssumption DEF GuardInit, BusInit
  <2>3. listening \in Seq(Subscriber)
    BY <2>2, SeqDef, ElementOfSeq, LenProperties DEF Subscriber
  <2>4. Len(listening) \in Nat
    BY <2>2, LenProperties
  <2>5. \A c \in Channel : Members(c) = listening /\ 1 \in DOMAIN lists[c]
    BY <2>1 DEF Members
  <2> QED  BY <2>1, <2>3, <2>4, <2>5 DEF GuardInit, BusInit, Steady, Busy
<1>3. turn \in [Thread -> 1 .. 3]
  BY DEF GuardInit
<1> QED  BY <1>1, <1>2, <1>3 DEF BusSafe, Attended

LEMMA BusSafeStep ==
  ASSUME BusSafe, NEW t \in Thread, Execute(t)
  PROVE  BusSafe'
<1>1. BusAction(t) /\ turn' \in [Thread -> 1 .. 3]
  BY BusActions, TurnType DEF BusSafe
<1>2. BusTypes' /\ listening' = listening
  BY <1>1, BusTypesStep DEF BusSafe
<1>3. Attended'
  BY <1>1, <1>2, SteadyStep DEF BusSafe, Attended
<1> QED  BY <1>1, <1>2, <1>3 DEF BusSafe

LEMMA BusSafeInductive == GuardSpec => []BusSafe
<1>1. BusSafe /\ [GuardNext]_guardvars => BusSafe'
  <2> SUFFICES ASSUME BusSafe, [GuardNext]_guardvars  PROVE BusSafe'
    OBVIOUS
  <2>1. CASE UNCHANGED guardvars
    <3>1. /\ UNCHANGED <<lists, subscriptions, call, channel, held, index, listening>>
          /\ turn' = turn
      BY <2>1 DEF guardvars, bus, guard
    <3>2. BusTypes'
      BY <3>1 DEF BusSafe, BusTypes
    <3>3. Attended'
      BY <3>1, SteadyStay DEF BusSafe, Attended, Steady
    <3> QED  BY <3>1, <3>2, <3>3 DEF BusSafe
  <2> QED  BY <2>1, BusSafeStep DEF GuardNext
<1> QED  BY <1>1, BusSafeInit, PTL DEF GuardSpec

(* As long as one listener stays, no unsubscribe() finds its list empty, so *)
(* that none of them deletes it, or fails to.                               *)
THEOREM UnsubscribeNeverRaises == GuardSpec => []UnsubscribeReturns
<1>1. BusSafe => UnsubscribeReturns
  BY DEF BusSafe, Attended, Steady, UnsubscribeReturns
<1> QED  BY <1>1, BusSafeInductive, PTL
-----------------------------------------------------------------------------
(* How far a publication has come is who of the listeners has heard it. *)
Told ==
  /\ DOMAIN heard = Thread
  /\ \A t \in Thread : call[t] = "deliver" =>
       /\ index[t] >= 1
       /\ \A i \in 1 .. Len(listening) : i < index[t] => listening[i] \in heard[t]

(* What a step does to what has been heard. *)
LEMMA HeardActions ==
  ASSUME NEW t \in Thread, Execute(t)
  PROVE  \/ heard' = heard /\ UNCHANGED bus
         \/ heard' = heard /\ Proceed(t)
         \/ heard' = heard /\ \E c : Subscribe(t, c) \/ Unsubscribe(t, c)
         \/ heard' = [heard EXCEPT ![t] = {}] /\ \E c : Publish(t, c)
         \/ \E s : Deliver(t, s) /\ heard' = [heard EXCEPT ![t] = @ \cup {s}]
<1>1. CASE SubscribeNext(t) \/ UnsubscribeNext(t)
  BY ONLY <1>1 DEF SubscribeNext, UnsubscribeNext, Turn, history
<1>2. CASE Finish(t) \/ Raise(t) \/ Caught(t) \/ Closed(t)
  BY ONLY <1>2 DEF Finish, Raise, Caught, Closed, bus, history
<1>3. CASE Started(t) \/ Completed(t) \/ Failed(t) \/ \E x \in Tool : CloseNode(t, x)
  BY ONLY <1>3 DEF Started, Completed, Failed, CloseNode, Send
<1>4. CASE Operate(t)
  BY ONLY <1>4 DEF Operate
<1>5. ASSUME NEW s, Hear(t, s)
      PROVE  Deliver(t, s) /\ heard' = [heard EXCEPT ![t] = @ \cup {s}]
  BY ONLY <1>5 DEF Hear
<1> QED  BY <1>1, <1>2, <1>3, <1>4, <1>5 DEF Execute

(* What an operation that goes on by itself leaves alone. *)
LEMMA ProceedFrame ==
  ASSUME BusTypes, NEW t \in Thread, Proceed(t)
  PROVE  /\ call'[t] # "deliver"
         /\ \A u \in Thread \ {t} :
              /\ call'[u] = call[u] /\ index'[u] = index[u]
              /\ channel'[u] = channel[u] /\ held'[u] = held[u]
<1> DEFINE frame == /\ call'[t] # "deliver"
                    /\ \A u \in Thread \ {t} :
                         /\ call'[u] = call[u] /\ index'[u] = index[u]
                         /\ channel'[u] = channel[u] /\ held'[u] = held[u]
<1>1. ASSUME NEW from, Return(t, from)  PROVE frame
  BY <1>1 DEF Return, BusTypes
<1>2. ASSUME NEW from, Continue(t, from, "delete") \/ Continue(t, from, "raised")
      PROVE  frame
  BY <1>2 DEF Continue, BusTypes
<1> HIDE DEF frame
<1>3. frame
  BY <1>1, <1>2
     DEF Proceed, Appended, NotThere, Removed, Remains, Deleted, NoneToDelete, Delivered
<1> QED  BY <1>3 DEF frame

LEMMA ToldStep ==
  ASSUME BusSafe, Told, NEW t \in Thread, Execute(t)
  PROVE  Told'
<1>1. listening' = listening /\ BusTypes
  BY BusActions, BusTypesStep DEF BusSafe
<1>2. CASE heard' = heard /\ UNCHANGED bus
  BY <1>1, <1>2 DEF Told, bus
<1>3. CASE heard' = heard /\ Proceed(t)
  BY <1>1, <1>3, ProceedFrame DEF Told
<1>4. ASSUME heard' = heard, NEW c, Subscribe(t, c) \/ Unsubscribe(t, c)  PROVE Told'
  BY <1>1, <1>4 DEF Told, Subscribe, Unsubscribe, Begin, Nothing, bus, BusTypes
<1>5. ASSUME heard' = [heard EXCEPT ![t] = {}], NEW c, Publish(t, c)  PROVE Told'
  BY <1>1, <1>5 DEF Told, Publish, Begin, Nothing, bus, BusTypes
<1>6. ASSUME NEW s, Deliver(t, s), heard' = [heard EXCEPT ![t] = @ \cup {s}]  PROVE Told'
  <2>1. /\ call[t] = "deliver" /\ s = Subscribers(t)[index[t]] /\ call' = call
        /\ index' = [index EXCEPT ![t] = @ + 1]
    BY <1>6 DEF Deliver, Delivering
  <2>2. index[t] \in 1 .. Len(listening) => s = listening[index[t]]
    <3> SUFFICES ASSUME index[t] \in 1 .. Len(listening)  PROVE s = listening[index[t]]
      OBVIOUS
    <3>1. listening # <<>>
      BY EmptySeq
    <3> QED  BY <1>1, <2>1, <3>1, OnTheList DEF BusSafe, Attended, Busy
  <2>3. index[t] \in Nat /\ DOMAIN index = Thread /\ Len(listening) \in Nat
    BY <1>1, Listeners DEF BusTypes
  <2> QED  BY ONLY Told, <1>1, <1>6, <2>1, <2>2, <2>3 DEF Told
<1> QED  BY <1>2, <1>3, <1>4, <1>5, <1>6, HeardActions

LEMMA ToldInductive == GuardSpec => []Told
<1>1. GuardInit => Told
  BY DEF GuardInit, BusInit, Told
<1>2. BusSafe /\ Told /\ [GuardNext]_guardvars => Told'
  <2> SUFFICES ASSUME BusSafe, Told, [GuardNext]_guardvars  PROVE Told'
    OBVIOUS
  <2>1. CASE UNCHANGED guardvars
    BY <2>1 DEF guardvars, bus, history, Told
  <2> QED  BY <2>1, ToldStep DEF GuardNext
<1> QED  BY <1>1, <1>2, BusSafeInductive, PTL DEF GuardSpec

(* While one listener stays, whoever has been subscribed since the start of *)
(* the process hears every event, whichever executions subscribe and        *)
(* unsubscribe during its publication.                                      *)
THEOREM ListenersAlwaysHear == GuardSpec => []ListenersHear
<1>1. BusSafe /\ Told => ListenersHear
  <2> SUFFICES ASSUME BusSafe, Told, NEW t \in Thread, Published(t),
                      NEW i \in 1 .. Len(listening)
               PROVE  listening[i] \in heard[t]
    BY DEF ListenersHear
  <2>1. listening # <<>> /\ call[t] = "deliver" /\ index[t] > Len(Subscribers(t))
    BY EmptySeq DEF Published
  <2>2. i <= Len(Subscribers(t)) /\ Subscribers(t) \in Seq(Subscriber)
    BY <2>1, OnTheList DEF BusSafe, Attended, Busy
  <2>3. index[t] \in Nat /\ Len(Subscribers(t)) \in Nat
    BY <2>2, LenProperties DEF BusSafe, BusTypes
  <2> QED  BY <2>1, <2>2, <2>3 DEF Told
<1> QED  BY <1>1, BusSafeInductive, ToldInductive, PTL
-----------------------------------------------------------------------------
NodeTypes ==
  /\ at \in [Thread -> {"subscribe", "execute", "work", "completed", "raise",
                        "close", "unsubscribe", "done"}]
  /\ {tool, node} \subseteq [Thread -> Tool \cup {NoTool}]
  /\ {noted, ended, left, closed} \subseteq [Thread -> SUBSET Tool]
  /\ reported \in [Thread -> {"none", "started", "completed", "failed"}]
  /\ {over, disturbed} \subseteq SUBSET Thread

NodesBy(t) == noted[t] \cup ended[t] \cup left[t] \cup closed[t]

(* A guard knows of no node but that of its own tool, and of that only when *)
(* its driver has reported.                                                 *)
Owned ==
  \A t \in Thread :
    /\ node[t] = tool[t]
    /\ NodesBy(t) \subseteq {tool[t]}
    /\ reported[t] = "none" => NodesBy(t) = {} /\ call[t] # "deliver"
    /\ reported[t] # "none" => tool[t] \in Tool
    /\ at[t] \in {"subscribe", "execute"} => reported[t] = "none"
    /\ at[t] = "work" => reported[t] = "started"
    /\ at[t] = "completed" => reported[t] = "completed"
    /\ at[t] \in {"work", "completed", "raise"} => closed[t] = {}

Nodes == NodeTypes /\ Owned

LEMMA NodesInit == GuardInit => Nodes
<1> SUFFICES ASSUME GuardInit  PROVE Nodes
  OBVIOUS
<1>1. tool \in [Thread -> Tool \cup {NoTool}] /\ node = tool
  BY GuardAssumption DEF GuardInit
<1>2. NodeTypes
  BY <1>1 DEF GuardInit, NodeTypes
<1>3. Owned
  BY <1>1 DEF GuardInit, BusInit, Owned, NodesBy
<1> QED  BY <1>2, <1>3 DEF Nodes

(* A driver reports about the node of its tool. *)
LEMMA NodesSend ==
  ASSUME Nodes, BusTypes, NEW t \in Thread, NEW stage, NEW x \in Tool, Send(t, stage, x),
         x = tool[t], NEW r \in {"started", "completed", "failed"},
         reported' = [reported EXCEPT ![t] = r], UNCHANGED <<left, closed>>,
         at[t] \in {"execute", "work", "completed"},
         NEW label \in {"work", "completed", "raise"}, at' = [at EXCEPT ![t] = label],
         label = "work" => r = "started", label = "completed" => r = "completed"
  PROVE  Nodes'
<1>1. /\ UNCHANGED <<tool, noted, ended, disturbed>>
      /\ node' = [node EXCEPT ![t] = x]
      /\ over' = over \/ over' = over \cup {u \in Thread : tool[u] = x /\ reported[u] # "none"}
      /\ \A u \in Thread \ {t} : call'[u] = call[u]
  BY DEF Send, Publish, Nothing, Begin, bus, BusTypes
<1>2. closed[t] = {}
  BY DEF Nodes, Owned, NodesBy
<1>3. NodeTypes'
  BY <1>1 DEF Nodes, NodeTypes
<1>4. ASSUME NEW u \in Thread
      PROVE  /\ node'[u] = tool'[u]
             /\ NodesBy(u)' \subseteq {tool'[u]}
             /\ reported'[u] = "none" => NodesBy(u)' = {} /\ call'[u] # "deliver"
             /\ reported'[u] # "none" => tool'[u] \in Tool
             /\ at'[u] \in {"subscribe", "execute"} => reported'[u] = "none"
             /\ at'[u] = "work" => reported'[u] = "started"
             /\ at'[u] = "completed" => reported'[u] = "completed"
             /\ at'[u] \in {"work", "completed", "raise"} => closed'[u] = {}
  <2>1. NodesBy(u)' = NodesBy(u)
    BY <1>1 DEF NodesBy
  <2>2. CASE u = t
    BY <1>1, <1>2, <2>1, <2>2 DEF Nodes, NodeTypes, Owned
  <2>3. CASE u # t
    BY <1>1, <2>1, <2>3 DEF Nodes, NodeTypes, Owned
  <2> QED  BY <2>2, <2>3
<1>5. Owned'
  BY <1>4 DEF Owned
<1> QED  BY <1>3, <1>5 DEF Nodes

LEMMA NodesStep ==
  ASSUME Nodes, BusTypes, NEW t \in Thread, Execute(t)
  PROVE  Nodes'
<1> USE DEF Nodes, NodeTypes, Owned, NodesBy
<1>1. CASE SubscribeNext(t) \/ UnsubscribeNext(t)
  <2>1. /\ UNCHANGED <<tool, node, noted, ended, left, closed, reported, over, disturbed>>
        /\ \E label \in {"execute", "done", at[t]} : at' = [at EXCEPT ![t] = label]
        /\ at[t] = "subscribe" => at'[t] \in {"subscribe", "execute"}
        /\ at[t] = "unsubscribe" => at'[t] \in {"unsubscribe", "done"}
        /\ at[t] \in {"subscribe", "unsubscribe"}
    BY <1>1 DEF SubscribeNext, UnsubscribeNext, Turn, history
  <2>2. \A u \in Thread : call'[u] = "deliver" => call[u] = "deliver"
    BY <1>1 DEF SubscribeNext, UnsubscribeNext, Subscribe, Unsubscribe, Nothing, Begin,
                bus, BusTypes
  <2> QED  BY <2>1, <2>2
<1>2. CASE Finish(t) \/ Raise(t) \/ Caught(t) \/ Closed(t)
  BY <1>2 DEF Finish, Raise, Caught, Closed, history, bus
<1>3. CASE Started(t)
  <2>1. tool[t] \in Tool
    BY <1>3, GuardAssumption DEF Started, Reports
  <2> QED  BY <1>3, <2>1, NodesSend DEF Started
<1>4. CASE Completed(t)
  BY <1>4, NodesSend DEF Completed
<1>5. CASE Failed(t)
  BY <1>5, NodesSend DEF Failed
<1>6. ASSUME NEW x \in Tool, CloseNode(t, x)  PROVE Nodes'
  <2>1. /\ at[t] = "close" /\ x = tool[t] /\ reported[t] # "none"
        /\ UNCHANGED <<at, tool, reported, noted, ended, disturbed>>
        /\ left' = [left EXCEPT ![t] = @ \ {x}] /\ closed' = [closed EXCEPT ![t] = @ \cup {x}]
        /\ node' = [node EXCEPT ![t] = x]
        /\ over' \subseteq over \cup Thread
    BY <1>6 DEF CloseNode, Open, Send
  <2>2. \A u \in Thread \ {t} : call'[u] = call[u]
    BY <1>6 DEF CloseNode, Send, Publish, Nothing, Begin, bus, BusTypes
  <2> QED  BY <2>1, <2>2
<1>7. ASSUME NEW s, Hear(t, s)  PROVE Nodes'
  <2>1. /\ UNCHANGED <<at, tool, node, left, closed, reported, over, disturbed, call>>
        /\ call[t] = "deliver"
        /\ noted' \in {noted, [noted EXCEPT ![t] = @ \cup {node[t]}]}
        /\ ended' \in {ended, [ended EXCEPT ![t] = @ \cup {node[t]}]}
    BY <1>7 DEF Hear, Owns, Deliver, Delivering
  <2>2. node[t] = tool[t] /\ tool[t] \in Tool /\ reported[t] # "none"
    BY <2>1
  <2> QED  BY <2>1, <2>2
<1>8. CASE Operate(t)
  <2>1. /\ UNCHANGED <<at, tool, node, noted, ended, left, closed, reported, over>>
        /\ disturbed' \subseteq disturbed \cup Thread
    BY <1>8 DEF Operate, guard, Walking
  <2>2. \A u \in Thread : call'[u] = "deliver" => call[u] = "deliver"
    BY <1>8, ProceedFrame DEF Operate
  <2> QED  BY <2>1, <2>2
<1> QED  BY <1>1, <1>2, <1>3, <1>4, <1>5, <1>6, <1>7, <1>8 DEF Execute

LEMMA NodesInductive == GuardSpec => []Nodes
<1>1. BusSafe /\ Nodes /\ [GuardNext]_guardvars => Nodes'
  <2> SUFFICES ASSUME BusSafe, Nodes, [GuardNext]_guardvars  PROVE Nodes'
    OBVIOUS
  <2>1. CASE UNCHANGED guardvars
    BY <2>1 DEF guardvars, bus, guard, history, Nodes, NodeTypes, Owned, NodesBy
  <2>2. BusTypes
    BY DEF BusSafe
  <2> QED  BY <2>1, <2>2, NodesStep DEF GuardNext
<1> QED  BY <1>1, NodesInit, BusSafeInductive, PTL DEF GuardSpec

(* However many executions of its tool, and of others, report at the same  *)
(* time, and whatever the guard misses while they leave the lists: it      *)
(* fails no node but that of its tool, and that only if its own driver has *)
(* started it.                                                             *)
THEOREM CleanupTouchesOwn == GuardSpec => []CleanupIsOwn
<1>1. Nodes => CleanupIsOwn
  BY DEF Nodes, Owned, NodesBy, CleanupIsOwn
<1> QED  BY <1>1, NodesInductive, PTL
-----------------------------------------------------------------------------
(***************************************************************************)
(* How a step changes the lists, and whom it leaves alone.                 *)
(***************************************************************************)
LEMMA MembersStep ==
  ASSUME BusTypes, Steady, NEW t \in Thread, BusAction(t)
  PROVE  \/ \A c \in Channel : Members(c)' = Members(c)
         \/ /\ Appended(t)
            /\ \A c \in Channel : Members(c)' =
                 IF c # channel[t] \/ In(t, Subscribers(t)) THEN Members(c)
                 ELSE Append(Members(c), t)
         \/ /\ Removed(t)
            /\ \A c \in Channel : Members(c)' =
                 IF c = channel[t] THEN Without(t, Members(c)) ELSE Members(c)
<1>1. lists' = lists => \A c \in Channel : Members(c)' = Members(c)
  BY DEF Members
<1>2. \A c \in Channel : Subscribe(t, c) \/ Unsubscribe(t, c) \/ Publish(t, c) => lists' = lists
  BY DEF Subscribe, Unsubscribe, Publish, Nothing, bus, Steady
<1>3. \A s : Deliver(t, s) => lists' = lists
  BY DEF Deliver
<1>4. Proceed(t) => lists' = lists \/ Appended(t) \/ Removed(t)
  BY DEF Proceed, NotThere, Remains, Deleted, NoneToDelete, Delivered
<1>5. UNCHANGED bus => lists' = lists
  BY DEF bus
<1> QED  BY ONLY BusAction(t), BusTypes, Steady, <1>1, <1>2, <1>3, <1>4, <1>5,
            SteadyAppend, SteadyRemove DEF BusAction

LEMMA Listed ==
  ASSUME Steady, NEW c \in Channel
  PROVE  Members(c) \in Seq(Subscriber) /\ Len(Members(c)) \in Nat
  BY LenProperties DEF Steady

(* A list keeps its places, unless the thread of the step leaves it. *)
LEMMA PlacesStay ==
  ASSUME BusTypes, Steady, NEW t \in Thread, BusAction(t), NEW c \in Channel,
         ~(Removed(t) /\ channel[t] = c), NEW p \in 1 .. Len(Members(c))
  PROVE  p \in 1 .. Len(Members(c)') /\ (Members(c)')[p] = Members(c)[p]
<1>1. CASE Members(c)' = Members(c)
  BY <1>1
<1>2. CASE Members(c)' = Append(Members(c), t)
  <2>1. /\ Len(Append(Members(c), t)) = Len(Members(c)) + 1
        /\ Append(Members(c), t)[p] = Members(c)[p]
    <3>1. t \in Subscriber
      BY DEF Subscriber
    <3> QED  BY <3>1, Listed, AppendProperties
  <2> QED  BY <1>2, <2>1, Listed
<1> QED  BY ONLY <1>1, <1>2, ~(Removed(t) /\ channel[t] = c), MembersStep, BusTypes,
            Steady, BusAction(t)

(* Nobody but a thread itself takes it from a list. *)
LEMMA StaysIn ==
  ASSUME BusTypes, Steady, NEW t \in Thread, BusAction(t), NEW c \in Channel,
         NEW u, In(u, Members(c)), ~(Removed(t) /\ u = t)
  PROVE  In(u, Members(c)')
<1>1. CASE ~(Removed(t) /\ channel[t] = c)
  <2>1. PICK p \in 1 .. Len(Members(c)) : Members(c)[p] = u
    BY DEF In
  <2>2. p \in 1 .. Len(Members(c)') /\ (Members(c)')[p] = Members(c)[p]
    BY <1>1, PlacesStay
  <2> QED  BY <2>1, <2>2 DEF In
<1>2. CASE Removed(t) /\ channel[t] = c
  <2>1. Members(c)' = Without(t, Members(c))
    BY <1>2, SteadyRemove
  <2>2. In(t, Members(c))
    BY <1>2, OnTheList DEF Removed, Continue, Busy
  <2>3. Members(c) \in Seq(Subscriber) /\ u # t
    BY <1>2, Listed
  <2> QED  BY <2>1, <2>2, <2>3, OthersStay
<1> QED  BY <1>1, <1>2

(* A step of one execution leaves the others as they are ... *)
LEMMA NodeFrame ==
  ASSUME Nodes, turn \in [Thread -> 1 .. 3], DOMAIN heard = Thread,
         NEW t \in Thread, Execute(t), NEW u \in Thread, u # t
  PROVE  /\ at'[u] = at[u] /\ turn'[u] = turn[u] /\ noted'[u] = noted[u]
         /\ ended'[u] = ended[u] /\ left'[u] = left[u] /\ closed'[u] = closed[u]
         /\ reported'[u] = reported[u] /\ heard'[u] = heard[u] /\ tool' = tool
<1> USE DEF Nodes, NodeTypes
<1>1. CASE SubscribeNext(t) \/ UnsubscribeNext(t)
  BY <1>1 DEF SubscribeNext, UnsubscribeNext, Turn, history
<1>2. CASE Finish(t) \/ Raise(t) \/ Caught(t) \/ Closed(t)
  BY <1>2 DEF Finish, Raise, Caught, Closed, history
<1>3. CASE Started(t)
  BY <1>3 DEF Started, Send
<1>4. CASE Completed(t)
  BY <1>4 DEF Completed, Send
<1>5. CASE Failed(t)
  BY <1>5 DEF Failed, Send
<1>6. ASSUME NEW x \in Tool, CloseNode(t, x)
      PROVE  /\ at'[u] = at[u] /\ turn'[u] = turn[u] /\ noted'[u] = noted[u]
             /\ ended'[u] = ended[u] /\ left'[u] = left[u] /\ closed'[u] = closed[u]
             /\ reported'[u] = reported[u] /\ heard'[u] = heard[u] /\ tool' = tool
  BY <1>6 DEF CloseNode, Send
<1>7. ASSUME NEW s, Hear(t, s)
      PROVE  /\ at'[u] = at[u] /\ turn'[u] = turn[u] /\ noted'[u] = noted[u]
             /\ ended'[u] = ended[u] /\ left'[u] = left[u] /\ closed'[u] = closed[u]
             /\ reported'[u] = reported[u] /\ heard'[u] = heard[u] /\ tool' = tool
  BY <1>7 DEF Hear, Owns
<1>8. CASE Operate(t)
  BY <1>8 DEF Operate, guard
<1> QED  BY <1>1, <1>2, <1>3, <1>4, <1>5, <1>6, <1>7, <1>8 DEF Execute

LEMMA BusFrame ==
  ASSUME BusTypes, NEW t \in Thread, BusAction(t), NEW u \in Thread, u # t
  PROVE  /\ call'[u] = call[u] /\ channel'[u] = channel[u]
         /\ index'[u] = index[u] /\ held'[u] = held[u]
<1> DEFINE frame == /\ call'[u] = call[u] /\ channel'[u] = channel[u]
                    /\ index'[u] = index[u] /\ held'[u] = held[u]
<1>1. ASSUME NEW c \in Channel, Subscribe(t, c)  PROVE frame
  BY <1>1 DEF Subscribe, Begin, BusTypes
<1>2. ASSUME NEW c \in Channel, Unsubscribe(t, c)  PROVE frame
  BY <1>2 DEF Unsubscribe, Begin, Nothing, bus, BusTypes
<1>3. ASSUME NEW c \in Channel, Publish(t, c)  PROVE frame
  BY <1>3 DEF Publish, Begin, Nothing, bus, BusTypes
<1>4. ASSUME NEW s, Deliver(t, s)  PROVE frame
  BY <1>4 DEF Deliver, BusTypes
<1>5. CASE Proceed(t)
  BY <1>5, ProceedFrame
<1>6. CASE UNCHANGED bus
  BY <1>6 DEF bus
<1> QED  BY <1>1, <1>2, <1>3, <1>4, <1>5, <1>6 DEF BusAction

(* An operation that is not a publication is finished before anything else. *)
LEMMA OperationsFinish ==
  ASSUME NEW t \in Thread, Execute(t)
  PROVE  Operate(t) \/ call[t] \in {"idle", "deliver"}
  BY DEF Execute, SubscribeNext, UnsubscribeNext, Subscribe, Unsubscribe, Begin, Nothing,
     Finish, Started, Completed, Failed, Raise, Caught, Closed, CloseNode, Send, Publish,
     Hear, Deliver, Delivering

(* ... but for those that are publishing to the list that it leaves. *)
LEMMA Disturbance ==
  ASSUME NEW t \in Thread, Execute(t), NEW u \in Thread
  PROVE  /\ u \in disturbed => u \in disturbed'
         /\ Removed(t) /\ u \in Walking(t) => u \in disturbed'
<1>1. CASE Operate(t)
  BY <1>1 DEF Operate
<1>2. CASE ~Operate(t)
  <2>1. disturbed' = disturbed
    BY <1>2 DEF Execute, SubscribeNext, UnsubscribeNext, Turn, Finish, Started, Completed,
       Failed, Raise, Caught, Closed, CloseNode, Send, Hear, history
  <2>2. call[t] \in {"idle", "deliver"}
    BY <1>2, OperationsFinish
  <2>3. ~Removed(t)
    BY <2>2 DEF Removed, Continue
  <2> QED  BY <2>1, <2>3
<1> QED  BY <1>1, <1>2
-----------------------------------------------------------------------------
(***************************************************************************)
(* The life of a guarded execution, as long as one listener stays.         *)
(***************************************************************************)
Member(t, c) == In(t, Members(c)) \/ (call[t] = "append" /\ channel[t] = c)

(* An execution is in the lists that it subscribed to until it unsubscribes. *)
Enrolled(t) ==
  /\ at[t] = "subscribe" => \A j \in 1 .. turn[t] - 1 : Member(t, Stages[j])
  /\ at[t] \in {"execute", "work", "completed", "raise", "close"} =>
       \A c \in Channel : Member(t, c)
  /\ call[t] \in {"remove", "delete"} => at[t] \in {"unsubscribe", "done"}

Ahead(t) ==
  \E p \in 1 .. Len(Members(channel[t])) : p >= index[t] /\ Members(channel[t])[p] = t

Known(t) == IF channel[t] = "started" THEN tool[t] \in noted[t] ELSE tool[t] \in ended[t]

(* While it publishes, its guard has heard or will hear the event. *)
Reached(t) ==
  call[t] = "deliver" =>
    /\ t \in disturbed \/ t \in heard[t] \/ Ahead(t)
    /\ t \in heard[t] => Known(t)

Publishing(t, c) == call[t] = "deliver" /\ channel[t] = c

(* What the guard knows of its node, and whether it has closed it, if nothing *)
(* disturbed its publications.                                             *)
Informed(t) ==
  /\ reported[t] = "started" /\ at[t] \in {"work", "raise"} =>
       tool[t] \in noted[t] \/ Publishing(t, "started")
  /\ reported[t] \in {"completed", "failed"} /\ at[t] \in {"completed", "raise"} =>
       tool[t] \in ended[t] \/ Publishing(t, "completed") \/ Publishing(t, "failed")
  /\ reported[t] = "started" /\ at[t] = "close" =>
       \/ tool[t] \in left[t] /\ closed[t] = {} /\ ended[t] = {} /\ call[t] # "deliver"
       \/ left[t] = {} /\ closed[t] = {tool[t]}
  /\ reported[t] \in {"completed", "failed"} /\ at[t] = "close" =>
       tool[t] \in ended[t] /\ closed[t] = {}
  /\ at[t] \in {"unsubscribe", "done"} =>
       closed[t] = IF reported[t] = "started" THEN {tool[t]} ELSE {}

Closing(t) ==
  /\ reported[t] = "started" => at[t] \in {"work", "raise", "close", "unsubscribe", "done"}
  /\ reported[t] = "completed" =>
       at[t] \in {"completed", "raise", "close", "unsubscribe", "done"}
  /\ reported[t] = "failed" => at[t] \in {"raise", "close", "unsubscribe", "done"}
  /\ reported[t] = "started" /\ at[t] \in {"work", "raise"} =>
       ended[t] = {} /\ (call[t] = "deliver" => channel[t] = "started")
  /\ t \notin disturbed => Informed(t)

Life == \A t \in Thread : Enrolled(t) /\ Reached(t) /\ Closing(t)

LEMMA LifeOthers ==
  ASSUME Nodes, BusSafe, Told, listening # <<>>, Life,
         NEW t \in Thread, Execute(t), NEW u \in Thread, u # t
  PROVE  Enrolled(u)' /\ Reached(u)' /\ Closing(u)'
<1>1. BusTypes /\ Steady /\ BusAction(t)
  BY BusActions DEF BusSafe, Attended
<1>2. /\ at'[u] = at[u] /\ turn'[u] = turn[u] /\ noted'[u] = noted[u]
      /\ ended'[u] = ended[u] /\ left'[u] = left[u] /\ closed'[u] = closed[u]
      /\ reported'[u] = reported[u] /\ heard'[u] = heard[u] /\ tool' = tool
  BY NodeFrame DEF BusSafe, Told
<1>3. /\ call'[u] = call[u] /\ channel'[u] = channel[u]
      /\ index'[u] = index[u] /\ held'[u] = held[u]
  BY <1>1, BusFrame
<1>4. u \in disturbed => u \in disturbed'
  BY Disturbance
<1>5. Enrolled(u) /\ Reached(u) /\ Closing(u)
  BY DEF Life
<1>6. \A c \in Channel : Member(u, c) => Member(u, c)'
  <2> SUFFICES ASSUME NEW c \in Channel, Member(u, c)  PROVE Member(u, c)'
    OBVIOUS
  <2>1. In(u, Members(c)) => In(u, Members(c)')
    BY <1>1, StaysIn
  <2> QED  BY <1>3, <2>1 DEF Member, In
<1>7. Enrolled(u)'
  <2>1. \A j \in 1 .. turn[u] - 1 : Stages[j] \in Channel
    BY GuardAssumption DEF BusSafe, Stages
  <2> QED  BY <1>2, <1>3, <1>5, <1>6, <2>1 DEF Enrolled
<1>8. ASSUME call[u] = "deliver", Ahead(u), u \notin disturbed'  PROVE Ahead(u)'
  <2>1. channel[u] \in Channel /\ held[u] = 1
    BY <1>1, <1>8 DEF BusTypes, Steady, Busy
  <2>2. PICK c \in Channel : c = channel[u]
    BY <2>1
  <2>3. PICK p \in 1 .. Len(Members(c)) : p >= index[u] /\ Members(c)[p] = u
    BY <1>8, <2>2 DEF Ahead
  <2>4. ~(Removed(t) /\ channel[t] = c)
    <3> SUFFICES ASSUME Removed(t), channel[t] = c  PROVE FALSE
      OBVIOUS
    <3>1. held[t] = 1
      BY <1>1 DEF Removed, Continue, Steady, Busy
    <3>2. u \in Walking(t)
      BY <1>8, <2>1, <2>2, <3>1 DEF Walking
    <3> QED  BY <1>8, <3>2, Disturbance
  <2>5. p \in 1 .. Len(Members(c)') /\ (Members(c)')[p] = Members(c)[p]
    BY <1>1, <2>4, PlacesStay
  <2> QED  BY <1>3, <2>2, <2>3, <2>5 DEF Ahead, Members
<1>9. Reached(u)'
  BY <1>2, <1>3, <1>4, <1>5, <1>8 DEF Reached, Known
<1>10. Closing(u)'
  BY <1>2, <1>3, <1>4, <1>5 DEF Closing, Informed, Publishing
<1> QED  BY <1>7, <1>9, <1>10

LEMMA PublishBegins ==
  ASSUME BusTypes, Steady, listening # <<>>, NEW t \in Thread, NEW c \in Channel, Publish(t, c)
  PROVE  /\ call[t] = "idle" /\ call'[t] = "deliver" /\ channel'[t] = c /\ index'[t] = 1
         /\ lists' = lists
<1>1. Members(c) # <<>>
  <2>1. Len(listening) \in Nat /\ Len(listening) > 0 /\ 1 <= Len(Members(c))
    BY Listeners DEF Steady
  <2> QED  BY <2>1
<1>2. ~Nobody(c)
  BY <1>1 DEF Nobody, Steady, Members
<1> QED  BY <1>2 DEF Publish, Begin, BusTypes

LEMMA MemberStays ==
  ASSUME BusTypes, Steady, NEW t \in Thread, Execute(t), BusAction(t), call[t] # "remove",
         NEW c \in Channel, Member(t, c)
  PROVE  In(t, Members(c)')
<1>1. CASE In(t, Members(c))
  <2>1. ~Removed(t)
    BY DEF Removed, Continue
  <2> QED  BY <1>1, <2>1, StaysIn
<1>2. CASE call[t] = "append" /\ channel[t] = c /\ ~In(t, Members(c))
  <2>1. Appended(t)
    BY <1>2, OperationsFinish
       DEF Operate, Proceed, NotThere, Removed, Remains, Deleted, NoneToDelete, Delivered,
           Return, Continue
  <2>2. Subscribers(t) = Members(c)
    BY <1>2, OnTheList DEF Busy
  <2>3. Members(c)' = Append(Members(c), t)
    BY <1>2, <2>1, <2>2, SteadyAppend
  <2>4. t \in Subscriber
    BY DEF Subscriber
  <2>5. /\ Len(Members(c)') = Len(Members(c)) + 1
        /\ (Members(c)')[Len(Members(c)) + 1] = t
    BY <2>3, <2>4, Listed, AppendProperties
  <2> QED  BY <2>5, Listed DEF In
<1> QED  BY <1>1, <1>2 DEF Member

LEMMA EnrolledStep ==
  ASSUME Nodes, BusTypes, Steady, turn \in [Thread -> 1 .. 3], NEW t \in Thread, Execute(t),
         BusAction(t), Enrolled(t)
  PROVE  Enrolled(t)'
<1>1. /\ call[t] # "remove" => \A c \in Channel : Member(t, c) => Member(t, c)'
      /\ Channel = {Stages[1], Stages[2], Stages[3]}
  BY MemberStays, GuardAssumption DEF Member, Stages, In
<1>2. CASE SubscribeNext(t)
  <2>1. /\ at[t] = "subscribe" /\ call[t] = "idle" /\ turn[t] \in 1 .. 3
        /\ call'[t] = "append" /\ channel'[t] = Stages[turn[t]]
        /\ at'[t] = IF turn[t] = 3 THEN "execute" ELSE "subscribe"
        /\ turn'[t] = IF turn[t] = 3 THEN 1 ELSE turn[t] + 1
    BY <1>2 DEF SubscribeNext, Subscribe, Begin, Turn, BusTypes, Nodes, NodeTypes
  <2>2. ASSUME NEW j \in 1 .. 3, j <= turn[t]  PROVE Member(t, Stages[j])'
    <3>1. PICK c \in Channel : c = Stages[j]
      BY <1>1
    <3>2. CASE j < turn[t]
      <4>1. Member(t, c)
        BY <2>1, <3>1, <3>2 DEF Enrolled
      <4> QED  BY <1>1, <2>1, <3>1, <4>1
    <3>3. CASE j = turn[t]
      <4>1. Member(t, c)'
        BY <2>1, <3>1, <3>3 DEF Member
      <4> QED  BY <3>1, <4>1
    <3> QED  BY <2>1, <2>2, <3>2, <3>3
  <2>3. CASE turn[t] = 3
    <3>1. \A c \in Channel : Member(t, c)'
      BY <1>1, <2>2, <2>3
    <3> QED  BY <2>1, <2>3, <3>1 DEF Enrolled
  <2>4. CASE turn[t] \in 1 .. 2
    <3>1. \A j \in 1 .. turn'[t] - 1 : Member(t, Stages[j])'
      BY <2>1, <2>2, <2>4
    <3> QED  BY <2>1, <2>4, <3>1 DEF Enrolled
  <2> QED  BY <2>1, <2>3, <2>4
<1>3. CASE UnsubscribeNext(t)
  BY <1>3 DEF UnsubscribeNext, Turn, Enrolled, Nodes, NodeTypes
<1>4. CASE Finish(t) \/ Raise(t) \/ Caught(t) \/ Closed(t)
  BY <1>1, <1>4 DEF Finish, Raise, Caught, Closed, bus, Enrolled, Nodes, NodeTypes
<1>5. ASSUME NEW c \in Channel, NEW x \in Tool \cup {NoTool}, Send(t, c, x),
             at[t] \in {"execute", "work", "completed", "close"},
             at'[t] \in {"work", "completed", "raise", "close"}
      PROVE  Enrolled(t)'
  BY <1>1, <1>5 DEF Send, Publish, Nothing, Begin, bus, BusTypes, Enrolled
<1>6. CASE Started(t) \/ Completed(t) \/ Failed(t) \/ \E x \in Tool : CloseNode(t, x)
  BY <1>1, <1>5, <1>6 DEF Started, Completed, Failed, CloseNode, Stages, Nodes, NodeTypes
<1>7. ASSUME NEW s, Hear(t, s)  PROVE Enrolled(t)'
  BY <1>1, <1>7 DEF Hear, Deliver, Delivering, Enrolled
<1>8. CASE Operate(t)
  <2>1. at' = at /\ turn' = turn
    BY <1>8 DEF Operate, guard
  <2>2. call'[t] \in {"remove", "delete"} => call[t] = "remove"
    BY <1>8 DEF Operate, Proceed, Appended, NotThere, Removed, Remains, Deleted,
       NoneToDelete, Delivered, Return, Continue, BusTypes
  <2> QED  BY <1>1, <2>1, <2>2 DEF Enrolled
<1> QED  BY <1>2, <1>3, <1>4, <1>6, <1>7, <1>8 DEF Execute

(* A thread of which nobody is to hear again has heard the event itself. *)
LEMMA WhenDelivered ==
  ASSUME BusTypes, Steady, NEW t \in Thread, Published(t), Reached(t), t \notin disturbed
  PROVE  Known(t)
<1>1. call[t] = "deliver" /\ index[t] > Len(Subscribers(t))
  BY DEF Published
<1>2. Subscribers(t) = Members(channel[t]) /\ channel[t] \in Channel
  BY <1>1, OnTheList DEF Busy
<1>3. Len(Members(channel[t])) \in Nat /\ index[t] \in Nat
  BY <1>2, Listed DEF BusTypes
<1>4. ~Ahead(t)
  BY <1>1, <1>2, <1>3 DEF Ahead
<1> QED  BY <1>1, <1>4 DEF Reached

LEMMA ReachedStep ==
  ASSUME Nodes, BusTypes, Steady, Told, listening # <<>>, NEW t \in Thread, Execute(t),
         BusAction(t), Enrolled(t), Reached(t)
  PROVE  Reached(t)'
<1>1. ASSUME NEW stage \in Channel, NEW x \in Tool \cup {NoTool}, Send(t, stage, x),
             at[t] \in {"execute", "work", "completed", "close"}
      PROVE  Reached(t)'
  <2>1. /\ call[t] = "idle" /\ call'[t] = "deliver" /\ channel'[t] = stage /\ index'[t] = 1
        /\ lists' = lists
    BY <1>1, PublishBegins DEF Send
  <2>2. heard'[t] = {}
    BY <1>1 DEF Send, Told
  <2>3. PICK p \in 1 .. Len(Members(stage)) : Members(stage)[p] = t
    BY <1>1, <2>1 DEF Enrolled, Member, In
  <2>4. p >= 1
    BY <2>3, Listed
  <2>5. Ahead(t)'
    BY <2>1, <2>3, <2>4 DEF Ahead, Members
  <2> QED  BY <2>2, <2>5 DEF Reached
<1>2. CASE Started(t) \/ Completed(t) \/ Failed(t) \/ \E x \in Tool : CloseNode(t, x)
  BY <1>1, <1>2, GuardAssumption DEF Started, Completed, Failed, CloseNode, Nodes, NodeTypes
<1>3. CASE SubscribeNext(t) \/ UnsubscribeNext(t) \/ Finish(t) \/ Raise(t) \/ Caught(t) \/ Closed(t)
  <2>1. call'[t] # "deliver"
    BY <1>3 DEF SubscribeNext, UnsubscribeNext, Subscribe, Unsubscribe, Begin, Nothing,
       Finish, Raise, Caught, Closed, bus, BusTypes
  <2> QED  BY <2>1 DEF Reached
<1>4. CASE Operate(t)
  BY <1>4, ProceedFrame DEF Operate, Reached
<1>5. ASSUME NEW s, Hear(t, s)  PROVE Reached(t)'
  <2>1. /\ call[t] = "deliver" /\ s = Subscribers(t)[index[t]] /\ call' = call
        /\ channel' = channel /\ lists' = lists /\ disturbed' = disturbed
        /\ index'[t] = index[t] + 1 /\ heard'[t] = heard[t] \cup {s} /\ index[t] \in Nat
    BY <1>5 DEF Hear, Deliver, Delivering, BusTypes, Told
  <2>2. Subscribers(t) = Members(channel[t]) /\ channel[t] \in Channel
    BY <2>1, OnTheList DEF Busy
  <2>3. CASE s = t
    <3>1. Known(t)'
      BY <1>5, <2>1, <2>3 DEF Hear, Owns, Known, Nodes, NodeTypes, Owned
    <3> QED  BY <2>1, <2>3, <3>1 DEF Reached
  <2>4. CASE s # t
    <3>1. Known(t)' = Known(t)
      BY <1>5, <2>1, <2>4 DEF Hear, Owns, Known
    <3>2. Ahead(t) => Ahead(t)'
      <4> SUFFICES ASSUME Ahead(t)  PROVE Ahead(t)'
        OBVIOUS
      <4>1. PICK p \in 1 .. Len(Members(channel[t])) :
              p >= index[t] /\ Members(channel[t])[p] = t
        BY DEF Ahead
      <4>2. p >= index[t] + 1
        BY <2>1, <2>2, <2>4, <4>1, Listed
      <4> QED  BY <2>1, <4>1, <4>2 DEF Ahead, Members
    <3> QED  BY <2>1, <2>4, <3>1, <3>2 DEF Reached
  <2> QED  BY <2>3, <2>4
<1> QED  BY <1>2, <1>3, <1>4, <1>5 DEF Execute

LEMMA ClosingStep ==
  ASSUME Nodes, BusTypes, Steady, listening # <<>>, NEW t \in Thread, Execute(t),
         BusAction(t), Reached(t), Closing(t)
  PROVE  Closing(t)'
<1> USE DEF Nodes, NodeTypes, Closing, Informed, Publishing
<1>1. ASSUME NEW stage \in Channel, NEW x \in Tool \cup {NoTool}, Send(t, stage, x)
      PROVE  /\ call[t] = "idle" /\ call'[t] = "deliver" /\ channel'[t] = stage
             /\ UNCHANGED <<tool, noted, ended, disturbed>>
  BY <1>1, PublishBegins DEF Send
<1>2. CASE SubscribeNext(t)
  BY <1>2 DEF SubscribeNext, Subscribe, Begin, Turn, history, BusTypes, Owned
<1>3. CASE UnsubscribeNext(t)
  BY <1>3 DEF UnsubscribeNext, Unsubscribe, Begin, Nothing, bus, Turn, history, BusTypes
<1>4. CASE Finish(t)
  BY <1>4 DEF Finish, bus, history, Owned, NodesBy
<1>5. CASE Started(t)
  <2>1. Send(t, "started", tool[t]) /\ "started" \in Channel
    BY <1>5, GuardAssumption DEF Started
  <2>2. /\ at[t] = "execute" /\ at'[t] = "work" /\ reported'[t] = "started" /\ ended[t] = {}
    BY <1>5 DEF Started, Owned, NodesBy
  <2> QED  BY <1>1, <2>1, <2>2
<1>6. CASE Completed(t)
  <2>1. Send(t, "completed", tool[t]) /\ "completed" \in Channel
    BY <1>6, GuardAssumption DEF Completed
  <2>2. at'[t] = "completed" /\ reported'[t] = "completed"
    BY <1>6 DEF Completed
  <2> QED  BY <1>1, <2>1, <2>2
<1>7. CASE Failed(t)
  <2>1. Send(t, "failed", tool[t]) /\ "failed" \in Channel
    BY <1>7, GuardAssumption DEF Failed
  <2>2. at'[t] = "raise" /\ reported'[t] = "failed"
    BY <1>7 DEF Failed
  <2> QED  BY <1>1, <2>1, <2>2
<1>8. CASE Raise(t)
  BY <1>8 DEF Raise, bus, history, Owned
<1>9. CASE Caught(t)
  BY <1>9 DEF Caught, bus, history, Owned, NodesBy
<1>10. CASE Closed(t)
  BY <1>10 DEF Closed, Open, bus, history, Owned, NodesBy
<1>11. ASSUME NEW x \in Tool, CloseNode(t, x)  PROVE Closing(t)'
  <2>1. Send(t, "failed", x) /\ "failed" \in Channel
    BY <1>11, GuardAssumption DEF CloseNode
  <2>2. /\ at[t] = "close" /\ at' = at /\ reported' = reported
        /\ x \in left[t] /\ x \notin ended[t]
        /\ left'[t] = left[t] \ {x} /\ closed'[t] = closed[t] \cup {x}
    BY <1>11 DEF CloseNode, Open
  <2>3. x = tool[t] /\ left[t] \subseteq {tool[t]} /\ closed[t] \subseteq {tool[t]}
    BY <2>2 DEF Owned, NodesBy
  <2>4. left'[t] = {} /\ closed'[t] = {tool[t]} /\ tool[t] \notin ended[t]
    BY <2>2, <2>3
  <2> QED  BY <1>1, <2>1, <2>2, <2>4
<1>12. ASSUME NEW s, Hear(t, s)  PROVE Closing(t)'
  <2>1. /\ call[t] = "deliver" /\ call' = call /\ channel' = channel
        /\ UNCHANGED <<at, tool, left, closed, reported, disturbed>>
    BY <1>12 DEF Hear, Deliver, Delivering
  <2>2. /\ noted[t] \subseteq noted'[t] /\ ended[t] \subseteq ended'[t]
        /\ channel[t] = "started" => ended' = ended
    BY <1>12 DEF Hear, Owns
  <2> QED  BY <2>1, <2>2
<1>13. CASE Operate(t)
  <2>1. /\ UNCHANGED <<at, tool, noted, ended, left, closed, reported>> /\ call'[t] # "deliver"
        /\ t \in disturbed => t \in disturbed'
    BY <1>13, ProceedFrame, Disturbance DEF Operate, guard
  <2>2. call[t] = "deliver" => Published(t)
    BY <1>13 DEF Operate, Proceed, Appended, NotThere, Removed, Remains, Deleted,
       NoneToDelete, Delivered, Return, Continue
  <2>3. call[t] = "deliver" /\ t \notin disturbed => Known(t)
    BY <2>2, WhenDelivered
  <2> QED  BY <2>1, <2>3 DEF Known
<1> QED
  BY <1>2, <1>3, <1>4, <1>5, <1>6, <1>7, <1>8, <1>9, <1>10, <1>11, <1>12, <1>13 DEF Execute

LifeInv == listening # <<>> => Life

LEMMA LifeInit == GuardInit => LifeInv
<1> SUFFICES ASSUME GuardInit  PROVE Life
  BY DEF LifeInv
<1>1. \A t \in Thread : /\ at[t] \in {"subscribe", "done"} /\ turn[t] = 1 /\ call[t] = "idle"
                        /\ ended[t] = {} /\ closed[t] = {} /\ reported[t] = "none"
  BY DEF GuardInit, BusInit
<1>2. \A t \in Thread : Enrolled(t)
  <2>1. 1 .. 1 - 1 = {}
    OBVIOUS
  <2> QED  BY <1>1, <2>1 DEF Enrolled
<1>3. \A t \in Thread : Reached(t)
  BY <1>1 DEF Reached
<1>4. \A t \in Thread : Closing(t)
  BY <1>1 DEF Closing, Informed
<1> QED  BY <1>2, <1>3, <1>4 DEF Life

LEMMA LifeStep ==
  ASSUME Nodes, BusSafe, Told, LifeInv, NEW t \in Thread, Execute(t)
  PROVE  LifeInv'
<1>1. listening' = listening /\ BusTypes /\ turn \in [Thread -> 1 .. 3] /\ BusAction(t)
  BY BusActions, BusTypesStep DEF BusSafe
<1> SUFFICES ASSUME listening # <<>>  PROVE Life'
  BY <1>1 DEF LifeInv
<1>2. Steady /\ Life
  BY DEF BusSafe, Attended, LifeInv
<1>3. Enrolled(t) /\ Reached(t) /\ Closing(t)
  BY <1>2 DEF Life
<1>4. Enrolled(t)' /\ Reached(t)' /\ Closing(t)'
  BY <1>1, <1>2, <1>3, EnrolledStep, ReachedStep, ClosingStep
<1>5. ASSUME NEW u \in Thread  PROVE Enrolled(u)' /\ Reached(u)' /\ Closing(u)'
  BY <1>2, <1>4, LifeOthers
<1> QED  BY <1>5 DEF Life

(* The promise of the guard, for any number of overlapping executions, of  *)
(* one tool or of several: as long as one listener stays, the guard has    *)
(* failed the node of its driver when it returns if the driver raised      *)
(* without ending it, and otherwise it has not, unless another execution   *)
(* left a list while this one was publishing to it.                        *)
THEOREM NodesAreClosed == GuardSpec => []ClosedUnlessDisturbed
<1>1. Nodes /\ BusSafe /\ Told /\ LifeInv /\ [GuardNext]_guardvars => LifeInv'
  <2> SUFFICES ASSUME Nodes, BusSafe, Told, LifeInv, [GuardNext]_guardvars  PROVE LifeInv'
    OBVIOUS
  <2>1. CASE UNCHANGED guardvars
    <3>1. \A t \in Thread : Enrolled(t)' = Enrolled(t)
      BY <2>1 DEF guardvars, bus, guard, Enrolled, Member, In, Members
    <3>2. \A t \in Thread : Reached(t)' = Reached(t)
      <4>1. \A t \in Thread : Ahead(t)' = Ahead(t)
        BY <2>1 DEF guardvars, bus, Ahead, Members
      <4> QED  BY <2>1, <4>1 DEF guardvars, bus, guard, history, Reached, Known
    <3>3. \A t \in Thread : Closing(t)' = Closing(t)
      BY <2>1 DEF guardvars, bus, guard, history, Closing, Informed, Publishing
    <3> QED  BY <2>1, <3>1, <3>2, <3>3 DEF guardvars, bus, LifeInv, Life
  <2> QED  BY <2>1, LifeStep DEF GuardNext
<1>2. LifeInv => ClosedUnlessDisturbed
  BY DEF LifeInv, Life, Closing, Informed, ClosedUnlessDisturbed
<1> QED  BY <1>1, <1>2, LifeInit, NodesInductive, BusSafeInductive, ToldInductive, PTL
         DEF GuardSpec
-----------------------------------------------------------------------------
(***************************************************************************)
(* All the lists there have been, whether or not a listener stays.         *)
(***************************************************************************)
ListTypes ==
  /\ DOMAIN lists = Channel
  /\ DOMAIN subscriptions = Channel
  /\ \A c \in Channel :
       lists[c] \in Seq(Seq(Subscriber)) /\ subscriptions[c] \in 0 .. Len(lists[c])

(* An operation that has begun holds one of the lists of its channel. *)
Holding ==
  \A t \in Thread : call[t] \in Busy => held[t] \in 1 .. Len(lists[channel[t]])

Joins(t, c, k) ==
  Appended(t) /\ ~In(t, Subscribers(t)) /\ channel[t] = c /\ held[t] = k

Leaves(t, c, k) == Removed(t) /\ channel[t] = c /\ held[t] = k

(* What the step of t makes of the list k of the channel c. *)
Becomes(t, c, k) ==
  lists'[c][k] = IF k > Len(lists[c]) THEN <<>>
                 ELSE IF Joins(t, c, k) THEN Append(lists[c][k], t)
                 ELSE IF Leaves(t, c, k) THEN Without(t, lists[c][k])
                 ELSE lists[c][k]

Revised(t) ==
  /\ DOMAIN lists' = Channel
  /\ \A c \in Channel :
       /\ lists'[c] \in Seq(Seq(Subscriber))
       /\ Len(lists[c]) <= Len(lists'[c])
       /\ \A k \in 1 .. Len(lists'[c]) : Becomes(t, c, k)

(* The list h of the channel c has become l. *)
Replaced(c, h, l) ==
  /\ DOMAIN lists' = Channel
  /\ \A d \in Channel :
       /\ lists'[d] \in Seq(Seq(Subscriber)) /\ Len(lists'[d]) = Len(lists[d])
       /\ \A k \in 1 .. Len(lists[d]) :
            lists'[d][k] = IF d = c /\ k = h THEN l ELSE lists[d][k]

LEMMA ListReplaced ==
  ASSUME ListTypes, NEW c \in Channel, NEW h \in 1 .. Len(lists[c]), NEW l \in Seq(Subscriber),
         lists' = [lists EXCEPT ![c][h] = l]
  PROVE  Replaced(c, h, l)
<1>1. /\ DOMAIN lists' = Channel /\ lists'[c] = [lists[c] EXCEPT ![h] = l]
      /\ \A d \in Channel \ {c} : lists'[d] = lists[d]
  BY DEF ListTypes
<1>2. lists[c] \in Seq(Seq(Subscriber))
  BY DEF ListTypes
<1> DEFINE m == lists[c]
           n == [m EXCEPT ![h] = l]
<1>3. /\ n \in Seq(Seq(Subscriber)) /\ Len(n) = Len(m)
      /\ \A k \in 1 .. Len(m) : n[k] = IF k = h THEN l ELSE m[k]
  <2> HIDE DEF m
  <2>1. m \in Seq(Seq(Subscriber)) /\ h \in 1 .. Len(m)
    BY <1>2 DEF m
  <2> QED  BY <2>1, ExceptSeq
<1>4. ASSUME NEW d \in Channel \ {c}
      PROVE  lists'[d] \in Seq(Seq(Subscriber)) /\ lists'[d] = lists[d]
  BY <1>1 DEF ListTypes
<1> QED  BY <1>1, <1>3, <1>4 DEF Replaced

LEMMA ListHeld ==
  ASSUME BusTypes, ListTypes, Holding, NEW t \in Thread, call[t] \in Busy
  PROVE  /\ channel[t] \in Channel /\ held[t] \in 1 .. Len(lists[channel[t]])
         /\ Subscribers(t) \in Seq(Subscriber) /\ Len(Subscribers(t)) \in Nat
<1>1. channel[t] \in Channel /\ held[t] \in 1 .. Len(lists[channel[t]])
  BY DEF BusTypes, Holding
<1>2. lists[channel[t]] \in Seq(Seq(Subscriber))
  BY <1>1 DEF ListTypes
<1>3. Subscribers(t) \in Seq(Subscriber)
  BY <1>1, <1>2, ElementOfSeq DEF Subscribers
<1> QED  BY <1>1, <1>3, LenProperties

LEMMA RevisedNot ==
  ASSUME ListTypes, NEW t \in Thread, lists' = lists,
         ~(Appended(t) /\ ~In(t, Subscribers(t))), ~Removed(t)
  PROVE  Revised(t)
<1>1. \A c \in Channel : lists[c] \in Seq(Seq(Subscriber)) /\ Len(lists[c]) \in Nat
  BY LenProperties DEF ListTypes
<1>2. \A c \in Channel : \A k \in 1 .. Len(lists'[c]) : Becomes(t, c, k)
  BY <1>1 DEF Becomes, Joins, Leaves
<1> QED  BY <1>1, <1>2 DEF Revised, ListTypes

LEMMA RevisedStep ==
  ASSUME BusTypes, ListTypes, Holding, NEW t \in Thread, BusAction(t)
  PROVE  Revised(t)
<1>1. \A c \in Channel : lists[c] \in Seq(Seq(Subscriber)) /\ Len(lists[c]) \in Nat
  BY LenProperties DEF ListTypes
<1>2. ASSUME NEW c \in Channel, Subscribe(t, c)  PROVE Revised(t)
  <2>0. ~Appended(t) /\ ~Removed(t)
    BY <1>2 DEF Subscribe, Begin, Appended, Return, Removed, Continue
  <2>1. CASE lists' = lists
    BY <2>0, <2>1, RevisedNot
  <2>2. CASE lists' = [lists EXCEPT ![c] = Append(@, <<>>)]
    <3>1. /\ DOMAIN lists' = Channel /\ lists'[c] = Append(lists[c], <<>>)
          /\ \A d \in Channel \ {c} : lists'[d] = lists[d]
      BY <2>2 DEF ListTypes
    <3>2. <<>> \in Seq(Subscriber)
      BY EmptySeq
    <3>3. /\ lists'[c] \in Seq(Seq(Subscriber)) /\ Len(lists'[c]) = Len(lists[c]) + 1
          /\ \A k \in 1 .. Len(lists[c]) : lists'[c][k] = lists[c][k]
          /\ lists'[c][Len(lists[c]) + 1] = <<>>
      <4> DEFINE m == lists[c]
      <4>1. m \in Seq(Seq(Subscriber)) /\ lists'[c] = Append(m, <<>>)
        BY <1>1, <3>1
      <4> HIDE DEF m
      <4>2. /\ lists'[c] \in Seq(Seq(Subscriber)) /\ Len(lists'[c]) = Len(m) + 1
            /\ \A k \in 1 .. Len(m) : lists'[c][k] = m[k]
            /\ lists'[c][Len(m) + 1] = <<>>
        BY ONLY <3>2, <4>1, AppendProperties
      <4> QED  BY <4>2 DEF m
    <3>4. ASSUME NEW d \in Channel, NEW k \in 1 .. Len(lists'[d])
          PROVE  Becomes(t, d, k)
      <4>1. ~Joins(t, d, k) /\ ~Leaves(t, d, k)
        BY <2>0 DEF Joins, Leaves
      <4>2. lists'[d][k] = IF k > Len(lists[d]) THEN <<>> ELSE lists[d][k]
        <5>1. CASE d = c
          <6>1. k \in 1 .. Len(lists[c]) \/ k = Len(lists[c]) + 1
            BY <1>1, <3>3, <5>1
          <6> QED  BY <1>1, <3>3, <5>1, <6>1
        <5>2. CASE d # c
          <6>1. lists'[d] = lists[d] /\ Len(lists[d]) \in Nat
            BY <1>1, <3>1, <5>2
          <6> QED  BY <6>1
        <5> QED  BY <5>1, <5>2
      <4> QED  BY <4>1, <4>2 DEF Becomes
    <3>5. ASSUME NEW d \in Channel
          PROVE  lists'[d] \in Seq(Seq(Subscriber)) /\ Len(lists[d]) <= Len(lists'[d])
      <4>1. CASE d = c
        BY <1>1, <3>3, <4>1
      <4>2. CASE d # c
        <5>1. lists'[d] = lists[d]
          BY <3>1, <4>2
        <5> QED  BY <1>1, <5>1
      <4> QED  BY <4>1, <4>2
    <3> QED  BY <3>1, <3>4, <3>5 DEF Revised
  <2> QED  BY <1>2, <2>1, <2>2 DEF Subscribe
<1>3. ASSUME lists' = lists, call[t] \notin {"append", "remove"}  PROVE Revised(t)
  BY <1>3, RevisedNot DEF Appended, Return, Removed, Continue
<1>4. ASSUME NEW c \in Channel, Unsubscribe(t, c) \/ Publish(t, c)  PROVE Revised(t)
  <2>1. lists' = lists /\ call[t] = "idle"
    BY <1>4 DEF Unsubscribe, Publish, Nothing, Begin, bus
  <2> QED  BY <1>3, <2>1
<1>5. ASSUME NEW s, Deliver(t, s)  PROVE Revised(t)
  <2>1. lists' = lists /\ call[t] = "deliver"
    BY <1>5 DEF Deliver, Delivering
  <2> QED  BY <1>3, <2>1
<1>6. CASE Remains(t) \/ Deleted(t) \/ NoneToDelete(t) \/ Delivered(t)
  <2>1. lists' = lists /\ call[t] \in {"delete", "deliver"}
    BY <1>6 DEF Remains, Deleted, NoneToDelete, Delivered, Return, Continue
  <2> QED  BY <1>3, <2>1
<1>7. CASE NotThere(t) \/ UNCHANGED bus
  <2>1. lists' = lists /\ (NotThere(t) \/ call' = call)
    BY <1>7 DEF NotThere, bus
  <2>2. ~Appended(t)
    <3>1. Appended(t) => call[t] = "append" /\ call'[t] = "idle"
      BY DEF Appended, Return, BusTypes
    <3> QED  BY <2>1, <3>1 DEF NotThere, Return
  <2>3. ~Removed(t)
    <3>1. Removed(t) => call[t] = "remove" /\ call'[t] = "delete" /\ In(t, Subscribers(t))
      BY DEF Removed, Continue, BusTypes
    <3> QED  BY <2>1, <3>1 DEF NotThere
  <2> QED  BY <2>1, <2>2, <2>3, RevisedNot
<1>8. ASSUME NEW l \in Seq(Subscriber), call[t] \in Busy, Update(t, l),
             l = IF Appended(t) /\ ~In(t, Subscribers(t)) THEN Append(Subscribers(t), t)
                 ELSE IF Removed(t) THEN Without(t, Subscribers(t)) ELSE Subscribers(t)
      PROVE  Revised(t)
  <2>1. PICK c \in Channel : c = channel[t]
    BY <1>8, ListHeld
  <2>2. PICK h \in 1 .. Len(lists[c]) : h = held[t]
    BY <1>8, <2>1, ListHeld
  <2>3. lists' = [lists EXCEPT ![c][h] = l] /\ Subscribers(t) = lists[c][h]
    BY <1>8, <2>1, <2>2 DEF Update, Subscribers
  <2>4. Replaced(c, h, l)
    <3>1. c \in Channel /\ h \in 1 .. Len(lists[c]) /\ l \in Seq(Subscriber)
      BY <1>8
    <3> QED  BY ONLY <2>3, <3>1, ListTypes, ListReplaced
  <2>5. \A d \in Channel : \A k \in 1 .. Len(lists'[d]) : Becomes(t, d, k)
    BY <1>1, <1>8, <2>1, <2>2, <2>3, <2>4 DEF Replaced, Becomes, Joins, Leaves
  <2> QED  BY <1>1, <2>4, <2>5 DEF Replaced, Revised
<1>9. CASE Appended(t)
  <2>1. call[t] = "append" /\ ~Removed(t)
    BY <1>9 DEF Appended, Return, Removed, Continue
  <2>2. Subscribers(t) \in Seq(Subscriber) /\ t \in Subscriber
    BY <2>1, ListHeld DEF Busy, Subscriber
  <2>3. Append(Subscribers(t), t) \in Seq(Subscriber)
    BY <2>2, AppendProperties
  <2> QED  BY <1>8, <1>9, <2>1, <2>2, <2>3 DEF Appended, Busy
<1>10. CASE Removed(t)
  <2>1. call[t] = "remove" /\ ~Appended(t) /\ In(t, Subscribers(t))
    BY <1>10 DEF Appended, Return, Removed, Continue
  <2>2. Subscribers(t) \in Seq(Subscriber)
    BY <2>1, ListHeld DEF Busy
  <2>3. Without(t, Subscribers(t)) \in Seq(Subscriber)
    BY <2>1, <2>2, WithoutProperties
  <2> QED  BY <1>8, <1>10, <2>1, <2>3 DEF Removed, Busy
<1> QED  BY <1>2, <1>4, <1>5, <1>6, <1>7, <1>9, <1>10 DEF BusAction, Proceed

LEMMA HoldingStep ==
  ASSUME BusTypes, ListTypes, Holding, NEW t \in Thread, BusAction(t)
  PROVE  ListTypes' /\ Holding'
<1>1. Revised(t) /\ listening' = listening
  BY RevisedStep, BusTypesStep
<1>2. \A c \in Channel : Len(lists[c]) \in Nat /\ Len(lists'[c]) \in Nat
  BY <1>1, LenProperties DEF ListTypes, Revised
<1>3. /\ DOMAIN subscriptions' = Channel
      /\ \A c \in Channel : subscriptions'[c] \in 0 .. Len(lists'[c])
  <2>1. CASE subscriptions' = subscriptions
    BY <1>1, <1>2, <2>1 DEF ListTypes, Revised
  <2>2. ASSUME NEW c, subscriptions' = [subscriptions EXCEPT ![c] = 0]
        PROVE  /\ DOMAIN subscriptions' = Channel
               /\ \A d \in Channel : subscriptions'[d] \in 0 .. Len(lists'[d])
    BY <1>1, <1>2, <2>2 DEF ListTypes, Revised
  <2>3. ASSUME NEW c \in Channel, lists' = [lists EXCEPT ![c] = Append(@, <<>>)],
               subscriptions' = [subscriptions EXCEPT ![c] = Len(lists[c]) + 1]
        PROVE  /\ DOMAIN subscriptions' = Channel
               /\ \A d \in Channel : subscriptions'[d] \in 0 .. Len(lists'[d])
    <3>1. lists[c] \in Seq(Seq(Subscriber)) /\ <<>> \in Seq(Subscriber)
      BY EmptySeq DEF ListTypes
    <3>2. Len(Append(lists[c], <<>>)) = Len(lists[c]) + 1
      BY <3>1, AppendProperties
    <3>3. lists'[c] = Append(lists[c], <<>>)
      BY <2>3 DEF ListTypes
    <3> QED  BY <1>1, <1>2, <2>3, <3>2, <3>3 DEF ListTypes, Revised
  <2>4. \A c \in Channel : Unsubscribe(t, c) \/ Publish(t, c) => subscriptions' = subscriptions
    BY DEF Unsubscribe, Publish, Nothing, bus
  <2>5. \A s : Deliver(t, s) => subscriptions' = subscriptions
    BY DEF Deliver
  <2>6. Proceed(t) => subscriptions' = subscriptions
                      \/ subscriptions' = [subscriptions EXCEPT ![channel[t]] = 0]
    BY DEF Proceed, Appended, NotThere, Removed, Remains, Deleted, NoneToDelete, Delivered
  <2>7. UNCHANGED bus => subscriptions' = subscriptions
    BY DEF bus
  <2>8. ASSUME NEW c \in Channel, Subscribe(t, c)
        PROVE  /\ DOMAIN subscriptions' = Channel
               /\ \A d \in Channel : subscriptions'[d] \in 0 .. Len(lists'[d])
    BY <2>1, <2>3, <2>8 DEF Subscribe
  <2> QED  BY <2>1, <2>2, <2>4, <2>5, <2>6, <2>7, <2>8 DEF BusAction
<1>4. ListTypes'
  <2>1. Subscriber' = Subscriber
    BY <1>1 DEF Subscriber
  <2> QED  BY <1>1, <1>3, <2>1 DEF ListTypes, Revised
<1>5. ASSUME NEW u \in Thread, call'[u] \in Busy
      PROVE  held'[u] \in 1 .. Len(lists'[channel'[u]])
  <2>1. CASE call[u] \in Busy /\ held'[u] = held[u] /\ channel'[u] = channel[u]
    <3>1. channel[u] \in Channel /\ held[u] \in 1 .. Len(lists[channel[u]])
      BY <2>1, ListHeld
    <3> QED  BY <1>1, <1>2, <2>1, <3>1 DEF Revised
  <2>2. CASE u # t
    BY <1>5, <2>1, <2>2, BusFrame
  <2>3. ASSUME u = t, NEW c \in Channel, NEW next, Begin(t, c, next), subscriptions'[c] # 0
        PROVE  held'[u] \in 1 .. Len(lists'[channel'[u]])
    BY <1>2, <1>3, <2>3 DEF Begin, BusTypes
  <2>4. ASSUME u = t, NEW c \in Channel, Subscribe(t, c)
        PROVE  held'[u] \in 1 .. Len(lists'[channel'[u]])
    <3>1. subscriptions'[c] # 0
      BY <1>2, <2>4 DEF Subscribe, ListTypes
    <3> QED  BY <2>3, <2>4, <3>1 DEF Subscribe
  <2>5. ASSUME u = t, NEW c \in Channel, Unsubscribe(t, c) \/ Publish(t, c)
        PROVE  held'[u] \in 1 .. Len(lists'[channel'[u]])
    BY <1>5, <2>1, <2>3, <2>5 DEF Unsubscribe, Publish, Nobody, Nothing, bus, Busy
  <2>6. ASSUME NEW s, Deliver(t, s)  PROVE held'[u] \in 1 .. Len(lists'[channel'[u]])
    BY <1>5, <2>1, <2>6 DEF Deliver
  <2>7. CASE u = t /\ Proceed(t)
    <3>1. \A from : ~Return(t, from)
      BY <1>5, <2>7 DEF Return, BusTypes, Busy
    <3>2. Continue(t, "remove", "delete") \/ Continue(t, "delete", "raised")
      BY <2>7, <3>1 DEF Proceed, Appended, NotThere, Removed, Remains, Deleted, NoneToDelete,
         Delivered
    <3> QED  BY <2>1, <2>7, <3>2 DEF Continue, Busy
  <2>8. CASE UNCHANGED bus
    BY <1>5, <2>1, <2>8 DEF bus
  <2> QED  BY <2>2, <2>4, <2>5, <2>6, <2>7, <2>8 DEF BusAction
<1> QED  BY <1>4, <1>5 DEF Holding, Busy

(* Whoever is in a list was in it before, further ahead if anything, or has *)
(* just joined it.                                                          *)
LEMMA Origin ==
  ASSUME ListTypes, NEW t \in Thread, Revised(t), NEW c \in Channel,
         NEW k \in 1 .. Len(lists'[c]), NEW p \in 1 .. Len(lists'[c][k])
  PROVE  /\ k \in 1 .. Len(lists[c])
         /\ \/ Joins(t, c, k) /\ lists'[c][k][p] = t
            \/ \E q \in 1 .. Len(lists[c][k]) : q >= p /\ lists[c][k][q] = lists'[c][k][p]
<1>1. /\ lists[c] \in Seq(Seq(Subscriber)) /\ Len(lists[c]) \in Nat
      /\ Becomes(t, c, k) /\ k \in Nat
  BY LenProperties DEF ListTypes, Revised
<1>2. k \in 1 .. Len(lists[c])
  <2>1. k > Len(lists[c]) => Len(lists'[c][k]) = 0
    BY <1>1, EmptySeq DEF Becomes
  <2> QED  BY <1>1, <2>1
<1> DEFINE m == lists[c][k]
<1>3. m \in Seq(Subscriber) /\ Len(m) \in Nat /\ t \in Subscriber
  BY <1>1, <1>2, ElementOfSeq, LenProperties DEF Subscriber
<1>4. CASE Joins(t, c, k)
  <2>1. lists'[c][k] = Append(m, t)
    BY <1>1, <1>2, <1>4 DEF Becomes
  <2> HIDE DEF m
  <2>2. /\ Len(Append(m, t)) = Len(m) + 1 /\ Append(m, t)[Len(m) + 1] = t
        /\ \A q \in 1 .. Len(m) : Append(m, t)[q] = m[q]
    BY <1>3, AppendProperties
  <2>3. p \in 1 .. Len(m) \/ p = Len(m) + 1
    BY <1>3, <2>1, <2>2
  <2>4. \/ lists'[c][k][p] = t
        \/ \E q \in 1 .. Len(m) : q >= p /\ m[q] = lists'[c][k][p]
    BY <1>3, <2>1, <2>2, <2>3
  <2> QED  BY <1>2, <1>4, <2>4 DEF m
<1>5. CASE Leaves(t, c, k)
  <2>1. In(t, m) /\ ~Joins(t, c, k)
    BY <1>5 DEF Leaves, Removed, Joins, Appended, Return, Continue, Subscribers
  <2>2. lists'[c][k] = Without(t, m)
    BY <1>1, <1>2, <1>5, <2>1 DEF Becomes
  <2> HIDE DEF m
  <2>3. /\ Len(Without(t, m)) = Len(m) - 1
        /\ \A i \in 1 .. Len(m) - 1 :
             Without(t, m)[i] = IF i < Place(t, m) THEN m[i] ELSE m[i + 1]
    BY <1>3, <2>1, WithoutProperties
  <2>4. \E q \in 1 .. Len(m) : q >= p /\ m[q] = lists'[c][k][p]
    <3>1. p \in 1 .. Len(m) - 1 /\ p \in 1 .. Len(m) /\ p + 1 \in 1 .. Len(m) /\ p + 1 >= p
      BY <1>3, <2>2, <2>3
    <3>2. lists'[c][k][p] = m[p] \/ lists'[c][k][p] = m[p + 1]
      BY <2>2, <2>3, <3>1
    <3> QED  BY <3>1, <3>2
  <2> QED  BY <1>2, <2>4 DEF m
<1>6. CASE ~Joins(t, c, k) /\ ~Leaves(t, c, k)
  <2>1. lists'[c][k] = lists[c][k]
    BY <1>1, <1>2, <1>6 DEF Becomes
  <2>2. p \in 1 .. Len(lists[c][k]) /\ p >= p
    BY <1>3, <2>1
  <2> QED  BY <1>2, <2>1, <2>2
<1> QED  BY <1>4, <1>5, <1>6

Unique(l) == \A i, j \in 1 .. Len(l) : l[i] = l[j] => i = j

(* Nobody is in a list twice. *)
Single == \A c \in Channel : \A k \in 1 .. Len(lists[c]) : Unique(lists[c][k])

LEMMA WithoutUnique ==
  ASSUME NEW S, NEW l \in Seq(S), NEW s, In(s, l), Unique(l)
  PROVE  Unique(Without(s, l))
<1>1. Len(l) \in Nat /\ Place(s, l) \in 1 .. Len(l)
  BY PlaceIn, LenProperties
<1>2. /\ Len(Without(s, l)) = Len(l) - 1
      /\ \A i \in 1 .. Len(l) - 1 :
           Without(s, l)[i] = IF i < Place(s, l) THEN l[i] ELSE l[i + 1]
  BY WithoutProperties
<1>3. ASSUME NEW i \in 1 .. Len(l) - 1, NEW j \in 1 .. Len(l) - 1,
             Without(s, l)[i] = Without(s, l)[j]
      PROVE  i = j
  <2> DEFINE a == IF i < Place(s, l) THEN i ELSE i + 1
             b == IF j < Place(s, l) THEN j ELSE j + 1
  <2>1. a \in 1 .. Len(l) /\ b \in 1 .. Len(l)
    BY <1>1
  <2>2. Without(s, l)[i] = l[a] /\ Without(s, l)[j] = l[b]
    BY <1>2
  <2>3. a = b
    <3> HIDE DEF a, b
    <3> QED  BY <1>3, <2>1, <2>2 DEF Unique
  <2> QED  BY <1>1, <2>3
<1> QED  BY <1>2, <1>3 DEF Unique

LEMMA AppendUnique ==
  ASSUME NEW S, NEW l \in Seq(S), NEW s \in S, ~In(s, l), Unique(l)
  PROVE  Unique(Append(l, s))
<1>1. /\ Len(l) \in Nat /\ Len(Append(l, s)) = Len(l) + 1
      /\ Append(l, s)[Len(l) + 1] = s
      /\ \A i \in 1 .. Len(l) : Append(l, s)[i] = l[i]
  BY AppendProperties, LenProperties
<1>2. \A i \in 1 .. Len(l) + 1 : i \in 1 .. Len(l) \/ i = Len(l) + 1
  BY <1>1
<1>3. \A i \in 1 .. Len(l) : l[i] # s
  BY DEF In
<1> QED  BY <1>1, <1>2, <1>3 DEF Unique

LEMMA SingleStep ==
  ASSUME ListTypes, Single, NEW t \in Thread, Revised(t)
  PROVE  Single'
<1> SUFFICES ASSUME NEW c \in Channel, NEW k \in 1 .. Len(lists'[c])
             PROVE  Unique(lists'[c][k])
  BY DEF Single, Unique
<1>1. /\ lists[c] \in Seq(Seq(Subscriber)) /\ Len(lists[c]) \in Nat
      /\ Becomes(t, c, k) /\ k \in Nat
  BY LenProperties DEF ListTypes, Revised
<1>2. CASE k > Len(lists[c])
  <2>1. Len(lists'[c][k]) = 0
    BY <1>1, <1>2, EmptySeq DEF Becomes
  <2> QED  BY <2>1 DEF Unique
<1>3. CASE k \in 1 .. Len(lists[c])
  <2>1. lists[c][k] \in Seq(Subscriber) /\ Unique(lists[c][k]) /\ t \in Subscriber
    BY <1>1, <1>3, ElementOfSeq DEF Single, Subscriber
  <2>2. CASE Joins(t, c, k)
    <3>1. ~In(t, lists[c][k])
      BY <2>2 DEF Joins, Subscribers
    <3>2. Unique(Append(lists[c][k], t))
      BY <2>1, <3>1, AppendUnique
    <3> QED  BY <1>1, <1>3, <2>2, <3>2 DEF Becomes
  <2>3. CASE Leaves(t, c, k)
    <3>1. In(t, lists[c][k]) /\ ~Joins(t, c, k)
      BY <2>3 DEF Leaves, Removed, Joins, Appended, Return, Continue, Subscribers
    <3>2. Unique(Without(t, lists[c][k]))
      BY <2>1, <3>1, WithoutUnique
    <3> QED  BY <1>1, <1>3, <2>3, <3>1, <3>2 DEF Becomes
  <2>4. CASE ~Joins(t, c, k) /\ ~Leaves(t, c, k)
    BY <1>1, <1>3, <2>1, <2>4 DEF Becomes
  <2> QED  BY <2>2, <2>3, <2>4
<1> QED  BY <1>1, <1>2, <1>3
-----------------------------------------------------------------------------
(***************************************************************************)
(* Who has yet to join a list, and who has heard what.                     *)
(***************************************************************************)
(* An execution joins the channels in the order of Stages. *)
Joining ==
  \A t \in Thread : call[t] = "append" =>
    /\ at[t] \in {"subscribe", "execute"}
    /\ at[t] = "subscribe" => turn[t] > 1 /\ channel[t] = Stages[turn[t] - 1]

(* The execution u has not yet joined the list of the channel c. *)
Before(u, c) ==
  \/ at[u] = "subscribe" /\ \E i \in turn[u] .. 3 : Stages[i] = c
  \/ call[u] = "append" /\ channel[u] = c

(* It is then in no list of this channel, and has heard none of its events. *)
Newcomers ==
  \A u \in Thread : \A c \in Channel : Before(u, c) =>
    /\ \A k \in 1 .. Len(lists[c]) : ~In(u, lists[c][k])
    /\ \A t \in Thread : call[t] = "deliver" /\ channel[t] = c => u \notin heard[t]

(* Whoever has heard an event is behind the place that its publication has *)
(* reached, which counts them.                                              *)
Walks ==
  /\ DOMAIN heard = Thread
  /\ \A t \in Thread : call[t] = "deliver" =>
       /\ heard[t] \subseteq Subscriber
       /\ \A s \in heard[t] : \A p \in 1 .. Len(Subscribers(t)) :
            Subscribers(t)[p] = s => p < index[t]
       /\ IsFiniteSet(heard[t]) /\ index[t] = Cardinality(heard[t]) + 1

LEMMA JoiningStep ==
  ASSUME Nodes, BusTypes, turn \in [Thread -> 1 .. 3], DOMAIN heard = Thread, Joining,
         NEW t \in Thread, Execute(t)
  PROVE  Joining'
<1> SUFFICES ASSUME NEW u \in Thread, call'[u] = "append"
             PROVE  /\ at'[u] \in {"subscribe", "execute"}
                    /\ at'[u] = "subscribe" => turn'[u] > 1 /\ channel'[u] = Stages[turn'[u] - 1]
  BY DEF Joining
<1>1. BusAction(t)
  BY BusActions
<1>2. CASE u # t
  BY <1>1, <1>2, BusFrame, NodeFrame DEF Joining
<1>3. CASE u = t
  <2>1. CASE SubscribeNext(t)
    <3>1. /\ at[t] = "subscribe" /\ turn[t] \in 1 .. 3 /\ channel'[t] = Stages[turn[t]]
          /\ at'[t] = IF turn[t] = 3 THEN "execute" ELSE "subscribe"
          /\ turn'[t] = IF turn[t] = 3 THEN 1 ELSE turn[t] + 1
      BY <2>1 DEF SubscribeNext, Subscribe, Begin, Turn, BusTypes, Nodes, NodeTypes
    <3>2. turn[t] # 3 => turn'[t] > 1 /\ turn'[t] - 1 = turn[t]
      BY <3>1
    <3> QED  BY <1>3, <3>1, <3>2
  <2>2. CASE ~SubscribeNext(t)
    <3>1. CASE UnsubscribeNext(t)
      BY <1>3, <3>1 DEF UnsubscribeNext, Unsubscribe, Nothing, bus, Begin, BusTypes
    <3>2. CASE Finish(t) \/ Raise(t) \/ Caught(t) \/ Closed(t)
      BY <1>3, <3>2 DEF Finish, Raise, Caught, Closed, bus, Joining, Nodes, NodeTypes
    <3>3. ASSUME NEW c, NEW x, Send(t, c, x)  PROVE call'[t] # "append"
      BY <3>3 DEF Send, Publish, Nothing, bus, Begin, BusTypes
    <3>4. CASE Started(t) \/ Completed(t) \/ Failed(t) \/ \E x \in Tool : CloseNode(t, x)
      BY <1>3, <3>3, <3>4 DEF Started, Completed, Failed, CloseNode
    <3>5. ASSUME NEW s, Hear(t, s)  PROVE call'[t] # "append"
      BY <3>5 DEF Hear, Deliver, Delivering
    <3>6. ASSUME Operate(t)  PROVE call'[t] # "append"
      BY <3>6 DEF Operate, Proceed, Appended, NotThere, Removed, Remains, Deleted,
         NoneToDelete, Delivered, Return, Continue, BusTypes
    <3> QED  BY <1>3, <2>2, <3>1, <3>2, <3>4, <3>5, <3>6 DEF Execute
  <2> QED  BY <2>1, <2>2
<1> QED  BY <1>2, <1>3

(* Nobody is to join a list again. *)
LEMMA BeforeStep ==
  ASSUME Nodes, BusTypes, turn \in [Thread -> 1 .. 3], DOMAIN heard = Thread,
         NEW t \in Thread, Execute(t), NEW u \in Thread, NEW c \in Channel, Before(u, c)'
  PROVE  Before(u, c)
<1>1. BusAction(t)
  BY BusActions
<1>2. CASE u # t
  <2>1. at'[u] = at[u] /\ turn'[u] = turn[u] /\ call'[u] = call[u] /\ channel'[u] = channel[u]
    BY <1>1, <1>2, BusFrame, NodeFrame
  <2> QED  BY <2>1 DEF Before
<1>3. CASE u = t /\ SubscribeNext(t)
  <2>1. /\ at[t] = "subscribe" /\ turn[t] \in 1 .. 3 /\ channel'[t] = Stages[turn[t]]
        /\ at'[t] = IF turn[t] = 3 THEN "execute" ELSE "subscribe"
        /\ turn'[t] = IF turn[t] = 3 THEN 1 ELSE turn[t] + 1
    BY <1>3 DEF SubscribeNext, Subscribe, Begin, Turn, BusTypes, Nodes, NodeTypes
  <2>2. \E i \in turn[t] .. 3 : Stages[i] = c
    <3>1. CASE c = channel'[t]
      BY <2>1, <3>1
    <3>2. CASE at'[t] = "subscribe" /\ \E i \in turn'[t] .. 3 : Stages[i] = c
      BY <2>1, <3>2
    <3> QED  BY <1>3, <3>1, <3>2 DEF Before
  <2> QED  BY <1>3, <2>1, <2>2 DEF Before
<1>4. ASSUME u = t, ~SubscribeNext(t)
      PROVE  /\ at'[t] = "subscribe" => at[t] = "subscribe" /\ turn'[t] = turn[t]
             /\ call'[t] = "append" => call[t] = "append" /\ channel'[t] = channel[t]
  <2> USE DEF BusTypes, Nodes, NodeTypes
  <2>1. CASE UnsubscribeNext(t)
    BY <2>1 DEF UnsubscribeNext, Unsubscribe, Turn, Nothing, bus, Begin
  <2>2. CASE Finish(t) \/ Raise(t) \/ Caught(t) \/ Closed(t)
    BY <2>2 DEF Finish, Raise, Caught, Closed, bus
  <2>3. ASSUME NEW d, NEW x, Send(t, d, x)  PROVE call'[t] # "append" /\ turn' = turn
    BY <2>3 DEF Send, Publish, Nothing, bus, Begin
  <2>4. CASE Started(t) \/ Completed(t) \/ Failed(t) \/ \E x \in Tool : CloseNode(t, x)
    BY <2>3, <2>4 DEF Started, Completed, Failed, CloseNode
  <2>5. ASSUME NEW s, Hear(t, s)
        PROVE  at' = at /\ turn' = turn /\ call' = call /\ channel' = channel
    BY <2>5 DEF Hear, Deliver
  <2>6. CASE Operate(t)
    <3>1. call'[t] # "append"
      BY <2>6 DEF Operate, Proceed, Appended, NotThere, Removed, Remains, Deleted,
         NoneToDelete, Delivered, Return, Continue
    <3> QED  BY <2>6, <3>1 DEF Operate, guard
  <2> QED  BY <1>4, <2>1, <2>2, <2>4, <2>5, <2>6 DEF Execute
<1> QED  BY <1>2, <1>3, <1>4 DEF Before

LEMMA NewcomersStep ==
  ASSUME Nodes, BusTypes, turn \in [Thread -> 1 .. 3], DOMAIN heard = Thread,
         ListTypes, Holding, Joining, Newcomers, Walks, NEW t \in Thread, Execute(t)
  PROVE  Newcomers'
<1>1. BusAction(t)
  BY BusActions
<1>2. Revised(t)
  BY <1>1, RevisedStep
<1> SUFFICES ASSUME NEW u \in Thread, NEW c \in Channel, Before(u, c)'
             PROVE  /\ \A k \in 1 .. Len(lists'[c]) : ~In(u, lists'[c][k])
                    /\ \A r \in Thread : call'[r] = "deliver" /\ channel'[r] = c =>
                         u \notin heard'[r]
  BY DEF Newcomers, In
<1>3. Before(u, c)
  BY BeforeStep
<1>4. /\ \A k \in 1 .. Len(lists[c]) : ~In(u, lists[c][k])
      /\ \A r \in Thread : call[r] = "deliver" /\ channel[r] = c => u \notin heard[r]
  BY <1>3 DEF Newcomers
<1>5. ASSUME NEW k \in 1 .. Len(lists'[c]), In(u, lists'[c][k])  PROVE FALSE
  <2>1. PICK p \in 1 .. Len(lists'[c][k]) : lists'[c][k][p] = u
    BY <1>5 DEF In
  <2>2. /\ k \in 1 .. Len(lists[c])
        /\ \/ Joins(t, c, k) /\ u = t
           \/ \E q \in 1 .. Len(lists[c][k]) : q >= p /\ lists[c][k][q] = u
    BY <1>2, <2>1, Origin
  <2>3. Joins(t, c, k) /\ u = t
    BY <1>4, <2>2 DEF In
  <2>4. call[t] = "append" /\ channel[t] = c /\ Appended(t)
    BY <2>3 DEF Joins, Appended, Return
  <2>5. call'[t] # "append"
    BY <2>4 DEF Appended, Return, BusTypes
  <2>6. at'[t] = "subscribe" /\ \E i \in turn'[t] .. 3 : Stages[i] = c
    BY <2>3, <2>5 DEF Before
  <2>7. at' = at /\ turn' = turn
    <3>1. Operate(t)
      BY <2>4, OperationsFinish
    <3> QED  BY <3>1 DEF Operate, guard
  <2>8. turn[t] \in 2 .. 3 /\ c = Stages[turn[t] - 1]
    BY <2>4, <2>6, <2>7 DEF Joining
  <2>9. PICK i \in 2 .. 3 : i >= turn[t] /\ Stages[i] = c
    BY <2>6, <2>7, <2>8
  <2> QED  BY <2>8, <2>9 DEF Stages
<1>6. ASSUME NEW r \in Thread, call'[r] = "deliver", channel'[r] = c  PROVE u \notin heard'[r]
  <2>1. CASE r # t
    BY <1>1, <1>4, <1>6, <2>1, BusFrame, NodeFrame
  <2>2. CASE r = t
    <3>1. CASE heard' = heard /\ UNCHANGED bus
      BY <1>4, <1>6, <3>1 DEF bus
    <3>2. ~Proceed(t)
      BY <1>6, <2>2, ProceedFrame
    <3>3. ASSUME NEW d, Subscribe(t, d) \/ Unsubscribe(t, d)  PROVE FALSE
      BY <1>6, <2>2, <3>3 DEF Subscribe, Unsubscribe, Begin, Nothing, bus, BusTypes
    <3>4. CASE heard' = [heard EXCEPT ![t] = {}]
      BY <2>2, <3>4
    <3>5. ASSUME NEW s, Deliver(t, s), heard' = [heard EXCEPT ![t] = @ \cup {s}]
          PROVE  u \notin heard'[r]
      <4>1. /\ call[t] = "deliver" /\ channel[t] = c /\ index[t] \in Nat
            /\ index[t] <= Len(Subscribers(t)) /\ s = Subscribers(t)[index[t]]
        BY <1>6, <2>2, <3>5 DEF Deliver, Delivering, BusTypes
      <4>2. /\ held[t] \in 1 .. Len(lists[c]) /\ Subscribers(t) = lists[c][held[t]]
            /\ Len(Subscribers(t)) \in Nat
        BY <4>1, ListHeld DEF Busy, Subscribers
      <4>3. ~In(u, Subscribers(t)) /\ u \notin heard[t]
        BY <1>4, <4>1, <4>2
      <4>4. index[t] \in 1 .. Len(Subscribers(t)) => u # s
        BY <4>1, <4>3 DEF In
      <4>5. index[t] >= 1
        BY <4>1, FS_CardinalityType DEF Walks
      <4> QED  BY <2>2, <3>5, <4>1, <4>2, <4>3, <4>4, <4>5
    <3> QED  BY <3>1, <3>2, <3>3, <3>4, <3>5, HeardActions
  <2> QED  BY <2>1, <2>2
<1> QED  BY <1>5, <1>6

LEMMA WalksStep ==
  ASSUME Nodes, BusTypes, turn \in [Thread -> 1 .. 3],
         ListTypes, Holding, Single, Newcomers, Walks, NEW t \in Thread, Execute(t)
  PROVE  Walks'
<1>1. BusAction(t) /\ DOMAIN heard = Thread
  BY BusActions DEF Walks
<1>2. Revised(t) /\ listening' = listening /\ Subscriber' = Subscriber
  BY <1>1, RevisedStep, BusTypesStep DEF Subscriber
<1>3. DOMAIN heard' = Thread
  BY <1>1, HeardActions
<1> DEFINE Walk(r) ==
      /\ heard[r] \subseteq Subscriber
      /\ \A s \in heard[r] : \A p \in 1 .. Len(Subscribers(r)) :
           Subscribers(r)[p] = s => p < index[r]
      /\ IsFiniteSet(heard[r]) /\ index[r] = Cardinality(heard[r]) + 1
<1>4. ASSUME NEW r \in Thread, call'[r] = "deliver"  PROVE Walk(r)'
  <2>1. CASE r # t
    <3>1. /\ call[r] = "deliver" /\ heard'[r] = heard[r] /\ index'[r] = index[r]
          /\ channel'[r] = channel[r] /\ held'[r] = held[r]
      BY <1>1, <1>4, <2>1, BusFrame, NodeFrame
    <3>2. Walk(r)
      BY <3>1 DEF Walks
    <3>3. PICK c \in Channel : c = channel[r]
      BY <3>1, ListHeld DEF Busy
    <3>4. PICK k \in 1 .. Len(lists[c]) : k = held[r]
      BY <3>1, <3>3, ListHeld DEF Busy
    <3>5. k \in 1 .. Len(lists'[c])
      <4>1. Len(lists[c]) \in Nat /\ Len(lists'[c]) \in Nat /\ Len(lists[c]) <= Len(lists'[c])
        BY <1>2, LenProperties DEF ListTypes, Revised
      <4> QED  BY <4>1
    <3>6. Subscribers(r) = lists[c][k] /\ Subscribers(r)' = lists'[c][k]
      BY <3>1, <3>3, <3>4 DEF Subscribers
    <3>7. ASSUME NEW s \in heard[r], NEW p \in 1 .. Len(lists'[c][k]), lists'[c][k][p] = s
          PROVE  p < index[r]
      <4>1. ~(Joins(t, c, k) /\ s = t)
        <5> SUFFICES ASSUME Joins(t, c, k), s = t  PROVE FALSE
          OBVIOUS
        <5>1. Before(t, c)
          BY DEF Joins, Appended, Return, Before
        <5> QED  BY <3>1, <3>3, <3>7, <5>1 DEF Newcomers
      <4>2. PICK q \in 1 .. Len(lists[c][k]) : q >= p /\ lists[c][k][q] = s
        BY <1>2, <3>5, <3>7, <4>1, Origin
      <4>3. q < index[r]
        BY <3>2, <3>6, <4>2
      <4>4. Len(lists'[c][k]) \in Nat /\ Len(lists[c][k]) \in Nat /\ index[r] \in Nat
        <5>1. lists'[c][k] \in Seq(Subscriber) /\ lists[c][k] \in Seq(Subscriber)
          BY <1>2, <3>5, ElementOfSeq DEF Revised, ListTypes
        <5> QED  BY <5>1, LenProperties DEF BusTypes
      <4> QED  BY <4>2, <4>3, <4>4
    <3> QED  BY <1>2, <3>1, <3>2, <3>6, <3>7
  <2>2. CASE r = t
    <3>1. CASE heard' = heard /\ UNCHANGED bus
      <4>1. Walk(t)
        BY <1>4, <2>2, <3>1 DEF Walks, bus
      <4>2. Subscribers(t)' = Subscribers(t) /\ index' = index
        BY <3>1 DEF bus, Subscribers
      <4> QED  BY <1>2, <2>2, <3>1, <4>1, <4>2
    <3>2. ~Proceed(t)
      BY <1>4, <2>2, ProceedFrame
    <3>3. ASSUME NEW d, Subscribe(t, d) \/ Unsubscribe(t, d)  PROVE FALSE
      BY <1>4, <2>2, <3>3 DEF Subscribe, Unsubscribe, Begin, Nothing, bus, BusTypes
    <3>4. ASSUME heard' = [heard EXCEPT ![t] = {}], NEW d, Publish(t, d)  PROVE Walk(r)'
      <4>1. index'[t] = 1
        BY <1>4, <2>2, <3>4 DEF Publish, Nothing, Begin, bus, BusTypes
      <4>2. heard'[t] = {}
        BY <1>1, <3>4
      <4> QED  BY <2>2, <4>1, <4>2, FS_EmptySet
    <3>5. ASSUME NEW s, Deliver(t, s), heard' = [heard EXCEPT ![t] = @ \cup {s}]
          PROVE  Walk(r)'
      <4>1. /\ call[t] = "deliver" /\ index[t] \in Nat /\ lists' = lists /\ channel' = channel
            /\ held' = held /\ index'[t] = index[t] + 1 /\ index[t] <= Len(Subscribers(t))
            /\ s = Subscribers(t)[index[t]]
        BY <3>5 DEF Deliver, Delivering, BusTypes
      <4>2. heard'[t] = heard[t] \cup {s} /\ Subscribers(t)' = Subscribers(t)
        BY <1>1, <3>5, <4>1 DEF Subscribers
      <4>3. Walk(t)
        BY <4>1 DEF Walks
      <4>4. Cardinality(heard[t]) \in Nat /\ index[t] >= 1
        BY <4>3, FS_CardinalityType
      <4>5. /\ Subscribers(t) \in Seq(Subscriber) /\ Len(Subscribers(t)) \in Nat
            /\ Unique(Subscribers(t)) /\ index[t] \in 1 .. Len(Subscribers(t))
        <5>1. /\ channel[t] \in Channel /\ held[t] \in 1 .. Len(lists[channel[t]])
              /\ Subscribers(t) \in Seq(Subscriber) /\ Len(Subscribers(t)) \in Nat
          BY <4>1, ListHeld DEF Busy
        <5> QED  BY <4>1, <4>4, <5>1 DEF Single, Subscribers
      <4>6. s \in Subscriber /\ s \notin heard[t]
        BY <4>1, <4>3, <4>5, ElementOfSeq
      <4>7. IsFiniteSet(heard'[t]) /\ Cardinality(heard'[t]) = Cardinality(heard[t]) + 1
        BY <4>2, <4>3, <4>6, FS_AddElement
      <4>8. ASSUME NEW x \in heard'[t], NEW p \in 1 .. Len(Subscribers(t)), Subscribers(t)[p] = x
            PROVE  p < index'[t]
        <5>1. CASE x = s
          BY <4>1, <4>5, <4>8, <5>1 DEF Unique
        <5>2. CASE x \in heard[t]
          <6>1. p < index[t]
            BY <4>3, <4>8, <5>2
          <6> QED  BY <4>1, <4>5, <6>1
        <5> QED  BY <4>2, <5>1, <5>2
      <4>9. heard'[t] \subseteq Subscriber /\ index'[t] = Cardinality(heard'[t]) + 1
        BY <4>1, <4>2, <4>3, <4>4, <4>6, <4>7
      <4> QED  BY <1>2, <2>2, <4>2, <4>7, <4>8, <4>9
    <3> QED  BY <2>2, <3>1, <3>2, <3>3, <3>4, <3>5, HeardActions
  <2> QED  BY <2>1, <2>2
<1> QED  BY <1>3, <1>4 DEF Walks

Once ==
  /\ ListTypes /\ Holding /\ Single /\ Joining /\ Newcomers /\ Walks
  /\ disturbed \subseteq Thread

LEMMA OnceInit == GuardInit => Once
<1> SUFFICES ASSUME GuardInit  PROVE Once
  OBVIOUS
<1>1. /\ lists = [c \in Channel |-> IF listening = <<>> THEN <<>> ELSE <<listening>>]
      /\ subscriptions = [c \in Channel |-> Len(lists[c])]
      /\ listening \in Audience
      /\ \A t \in Thread : call[t] = "idle" /\ at[t] \in {"subscribe", "done"} /\ turn[t] = 1
      /\ DOMAIN heard = Thread /\ disturbed = {}
  BY DEF GuardInit, BusInit
<1>2. /\ listening \in Seq(STRING) /\ Unique(listening)
      /\ \A i \in 1 .. Len(listening) : listening[i] \notin Thread
  BY <1>1, BusAssumption DEF Unique
<1>3. listening \in Seq(Subscriber)
  BY <1>2, SeqDef, ElementOfSeq, LenProperties DEF Subscriber
<1>4. ASSUME NEW c \in Channel
      PROVE  /\ lists[c] \in Seq(Seq(Subscriber)) /\ Len(lists[c]) \in Nat
             /\ \A k \in 1 .. Len(lists[c]) : lists[c][k] = listening
  <2>1. CASE listening = <<>>
    <3>1. lists[c] = <<>>
      BY <1>1, <2>1
    <3> QED  BY <3>1, EmptySeq
  <2>2. CASE listening # <<>>
    <3>1. lists[c] = <<listening>>
      BY <1>1, <2>2
    <3> QED  BY <1>3, <3>1
  <2> QED  BY <2>1, <2>2
<1>5. ListTypes
  BY <1>1, <1>4 DEF ListTypes
<1>6. Holding /\ Joining /\ Walks
  BY <1>1 DEF Holding, Joining, Walks, Busy
<1>7. Single
  BY <1>2, <1>4 DEF Single
<1>8. Newcomers
  BY <1>1, <1>2, <1>4 DEF Newcomers, In
<1> QED  BY <1>1, <1>5, <1>6, <1>7, <1>8 DEF Once

LEMMA OnceStep ==
  ASSUME Nodes, BusSafe, Once, NEW t \in Thread, Execute(t)
  PROVE  Once'
<1>1. BusTypes /\ turn \in [Thread -> 1 .. 3] /\ DOMAIN heard = Thread /\ BusAction(t)
  BY BusActions DEF BusSafe, Once, Walks
<1>2. ListTypes' /\ Holding' /\ Revised(t)
  BY <1>1, HoldingStep, RevisedStep DEF Once
<1>3. Single' /\ Joining'
  BY <1>1, <1>2, SingleStep, JoiningStep DEF Once
<1>4. Newcomers'
  BY <1>1, NewcomersStep DEF Once
<1>5. Walks'
  BY <1>1, WalksStep DEF Once
<1>6. disturbed' \subseteq Thread
  <2>1. CASE Operate(t)
    BY <2>1 DEF Operate, Walking, Once
  <2>2. CASE ~Operate(t)
    BY <2>2 DEF Once, Execute, SubscribeNext, UnsubscribeNext, Turn, Finish, Started,
       Completed, Failed, Raise, Caught, Closed, CloseNode, Send, Hear, history
  <2> QED  BY <2>1, <2>2
<1> QED  BY <1>2, <1>3, <1>4, <1>5, <1>6 DEF Once

LEMMA OnceInductive == GuardSpec => []Once
<1>1. Nodes /\ BusSafe /\ Once /\ [GuardNext]_guardvars => Once'
  <2> SUFFICES ASSUME Nodes, BusSafe, Once, [GuardNext]_guardvars  PROVE Once'
    OBVIOUS
  <2>1. CASE UNCHANGED guardvars
    <3>1. /\ UNCHANGED <<lists, subscriptions, call, channel, held, index, listening>>
          /\ UNCHANGED <<at, turn, heard, disturbed>>
      BY <2>1 DEF guardvars, bus, guard, history
    <3>2. ListTypes' /\ Holding' /\ Single'
      BY <3>1 DEF Once, ListTypes, Subscriber, Holding, Single, Unique
    <3>3. Joining' /\ Newcomers'
      BY <3>1 DEF Once, Joining, Newcomers, Before, In
    <3>4. Walks'
      BY <3>1 DEF Once, Walks, Subscriber, Subscribers
    <3> QED  BY <3>1, <3>2, <3>3, <3>4 DEF Once
  <2> QED  BY <2>1, OnceStep DEF GuardNext
<1> QED  BY <1>1, OnceInit, NodesInductive, BusSafeInductive, PTL DEF GuardSpec

(* publish() walks over the live list by index, while other threads add     *)
(* themselves to it and take themselves from it: no subscriber is invoked   *)
(* twice for one event all the same, whether or not a listener stays.       *)
THEOREM NobodyHearsTwice == GuardSpec => []InvokedOnce
<1>1. BusSafe /\ Once => InvokedOnce
  <2> SUFFICES ASSUME BusSafe, Once, NEW t \in Thread, NEW s \in heard[t], Delivering(t, s)
               PROVE  FALSE
    BY DEF InvokedOnce
  <2>1. /\ call[t] = "deliver" /\ index[t] <= Len(Subscribers(t))
        /\ s = Subscribers(t)[index[t]]
    BY DEF Delivering
  <2>2. index[t] \in Nat /\ index[t] >= 1
    BY <2>1, FS_CardinalityType DEF Once, Walks, BusSafe, BusTypes
  <2>3. Len(Subscribers(t)) \in Nat
    BY <2>1, ListHeld DEF BusSafe, Once, Busy
  <2> QED  BY <2>1, <2>2, <2>3 DEF Once, Walks
<1> QED  BY <1>1, BusSafeInductive, OnceInductive, PTL

LEMMA SubscriberCount ==
  ASSUME IsFiniteSet(Thread), BusTypes
  PROVE  /\ IsFiniteSet(Subscriber)
         /\ Cardinality(Subscriber) <= Cardinality(Thread) + Len(listening)
<1> DEFINE L == {listening[i] : i \in 1 .. Len(listening)}
<1>1. listening \in Seq(STRING) /\ Len(listening) \in Nat
  BY Listeners, BusAssumption DEF BusTypes
<1>2. /\ IsFiniteSet(1 .. Len(listening))
      /\ Cardinality(1 .. Len(listening)) = Len(listening)
  BY <1>1, FS_Interval
<1>3. [i \in 1 .. Len(listening) |-> listening[i]] \in Surjection(1 .. Len(listening), L)
  BY DEF Surjection
<1>4. IsFiniteSet(L) /\ Cardinality(L) <= Len(listening)
  BY <1>2, <1>3, FS_Surjection
<1>5. /\ IsFiniteSet(Thread \cup L)
      /\ Cardinality(Thread \cup L) =
           Cardinality(Thread) + Cardinality(L) - Cardinality(Thread \cap L)
  BY <1>4, FS_Union
<1>6. Thread \cap L = {}
  BY Listeners
<1>7. Cardinality(L) \in Nat /\ Cardinality(Thread) \in Nat /\ Cardinality({}) = 0
  BY <1>4, FS_CardinalityType, FS_EmptySet
<1>8. Cardinality(Thread \cap L) = 0
  BY <1>6, <1>7
<1>9. Subscriber = Thread \cup L
  BY DEF Subscriber
<1> HIDE DEF L
<1> QED  BY <1>1, <1>4, <1>5, <1>7, <1>8, <1>9

(* The types of the bus and of the guard: in particular, the place that a   *)
(* publication has reached is never past the subscribers there can be, and  *)
(* an operation holds a list of its channel, though another one may have    *)
(* deleted it from the dictionary.                                          *)
THEOREM GuardTypeCorrect ==
  ASSUME IsFiniteSet(Thread)
  PROVE  GuardSpec => []GuardTypeOK
<1>1. Nodes /\ BusSafe /\ Once => GuardTypeOK
  <2> SUFFICES ASSUME Nodes, BusSafe, Once  PROVE GuardTypeOK
    OBVIOUS
  <2>1. BusTypes /\ ListTypes /\ Holding /\ Walks
    BY DEF BusSafe, Once
  <2>2. ASSUME NEW c \in Channel
        PROVE  /\ subscriptions[c] \in 0 .. Len(lists[c])
               /\ \A i \in 1 .. Len(lists[c]) : \A j \in 1 .. Len(lists[c][i]) :
                    lists[c][i][j] \in Thread \/ In(lists[c][i][j], listening)
    <3>1. lists[c] \in Seq(Seq(Subscriber)) /\ subscriptions[c] \in 0 .. Len(lists[c])
      BY <2>1 DEF ListTypes
    <3>2. \A i \in 1 .. Len(lists[c]) : \A j \in 1 .. Len(lists[c][i]) :
            lists[c][i][j] \in Subscriber
      BY <3>1, ElementOfSeq
    <3> QED  BY <3>1, <3>2 DEF Subscriber, In
  <2>3. ASSUME NEW t \in Thread
        PROVE  /\ call[t] \notin {"idle", "raised"} => held[t] \in 1 .. Len(lists[channel[t]])
               /\ call[t] = "deliver" => index[t] \in 1 .. Len(listening) + Cardinality(Thread) + 1
    <3>1. call[t] \notin {"idle", "raised"} => call[t] \in Busy
      BY <2>1 DEF BusTypes
    <3>2. ASSUME call[t] = "deliver"
          PROVE  index[t] \in 1 .. Len(listening) + Cardinality(Thread) + 1
      <4>1. heard[t] \in SUBSET Subscriber /\ index[t] = Cardinality(heard[t]) + 1
        BY <2>1, <3>2 DEF Walks
      <4>2. /\ IsFiniteSet(Subscriber) /\ IsFiniteSet(heard[t])
            /\ Cardinality(heard[t]) <= Cardinality(Subscriber)
            /\ Cardinality(Subscriber) <= Cardinality(Thread) + Len(listening)
        BY <2>1, <4>1, SubscriberCount, FS_Subset
      <4>3. /\ Cardinality(heard[t]) \in Nat /\ Cardinality(Subscriber) \in Nat
            /\ Cardinality(Thread) \in Nat /\ Len(listening) \in Nat
        BY <2>1, <4>2, Listeners, FS_CardinalityType
      <4> QED  BY <4>1, <4>2, <4>3
    <3> QED  BY <2>1, <3>1, <3>2 DEF Holding
  <2>4. /\ call \in [Thread -> {"idle", "append", "remove", "delete", "deliver", "raised"}]
        /\ channel \in [Thread -> Channel \cup {"none"}]
    BY <2>1 DEF BusTypes, Busy
  <2> QED  BY <2>2, <2>3, <2>4 DEF GuardTypeOK, Nodes, NodeTypes, BusSafe, Once
<1> QED  BY <1>1, NodesInductive, BusSafeInductive, OnceInductive, PTL
=============================================================================
