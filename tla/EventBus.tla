------------------------------ MODULE EventBus ------------------------------
(***************************************************************************)
(* The in-process event bus (EventBus in src/src/jwt.cpp).  subscribe()    *)
(* and unsubscribe() only queue their work with nextTick; notify() looks   *)
(* at the subscriptions at once and queues one delivery per subscriber.    *)
(* ticks is the queue of the event loop, first in first out.               *)
(* An operator that stands just before another and bears its name with a   *)
(* suffix is a mutant of it, never used by the actions.                    *)
(***************************************************************************)
EXTENDS Naturals, Sequences, SequencesExt

CONSTANTS Topic, Id,   \* an Id is the nonce subscribe() returns
          MaxNotify    \* bound: messages raised

ASSUME NotifyAssumption == MaxNotify \in Nat

VARIABLES
  subs,      \* subscriptions_: the ids subscribed to each topic
  ticks,     \* callbacks queued with nextTick
  topicOf,   \* the topic each id was issued for, once it was
  left,      \* ids unsubscribe() was called for
  notified,  \* messages raised so far; message n is the n-th one
  delivered, \* the messages each observer was called with, in order
  joinedAt,  \* notified when the id entered subs ...
  leftAt     \* ... and when it was erased from it

busVars == <<subs, ticks, topicOf, left, notified, delivered, joinedAt, leftAt>>
seenVars == <<delivered, joinedAt, leftAt>>

None == "none"  \* not issued yet

ASSUME TopicAssumption == None \notin Topic

InsertTick(t, i) == [do |-> "insert", topic |-> t, id |-> i, msg |-> 0]
EraseTick(t, i) == [do |-> "erase", topic |-> t, id |-> i, msg |-> 0]
DeliverTick(t, i, n) == [do |-> "deliver", topic |-> t, id |-> i, msg |-> n]

Issued == {i \in Id : topicOf[i] # None}

BusInit ==
  /\ subs = [t \in Topic |-> {}]
  /\ ticks = <<>>
  /\ topicOf = [i \in Id |-> None]
  /\ left = {}
  /\ notified = 0
  /\ delivered = [i \in Id |-> <<>>]
  /\ joinedAt = [i \in Id |-> 0]
  /\ leftAt = [i \in Id |-> MaxNotify + 1]

-----------------------------------------------------------------------------
Subscribe(t, i) ==
  /\ i \notin Issued
  /\ topicOf' = [topicOf EXCEPT ![i] = t]
  /\ ticks' = Append(ticks, InsertTick(t, i))
  /\ UNCHANGED <<subs, left, notified, seenVars>>

UnsubscribeNow(i) ==
  /\ i \in Issued \ left
  /\ left' = left \cup {i}
  /\ subs' = [subs EXCEPT ![topicOf[i]] = @ \ {i}]
  /\ leftAt' = [leftAt EXCEPT ![i] = IF i \in subs[topicOf[i]] THEN notified ELSE @]
  /\ UNCHANGED <<ticks, topicOf, notified, delivered, joinedAt>>
(* An id is given back once; the callers keep it with their connection. *)
Unsubscribe(i) ==
  /\ i \in Issued \ left
  /\ left' = left \cup {i}
  /\ ticks' = Append(ticks, EraseTick(topicOf[i], i))
  /\ UNCHANGED <<subs, topicOf, notified, seenVars>>

DeliveriesTwice(t, n) ==
  {[k \in 1..2 * Len(s) |-> DeliverTick(t, s[(k + 1) \div 2], n)] : s \in SetToSeqs(subs[t])}
DeliveriesToIssued(t, n) ==
  {[k \in 1..Len(s) |-> DeliverTick(t, s[k], n)] :
     s \in SetToSeqs({i \in Id : topicOf[i] = t})}
(* One delivery per subscriber, in the order of the map of random ids. *)
Deliveries(t, n) ==
  {[k \in 1..Len(s) |-> DeliverTick(t, s[k], n)] : s \in SetToSeqs(subs[t])}

Notify(t) ==
  /\ notified < MaxNotify
  /\ notified' = notified + 1
  /\ \E d \in Deliveries(t, notified + 1) : ticks' = ticks \o d
  /\ UNCHANGED <<subs, topicOf, left, seenVars>>

(* The subscriptions go at once, what is queued stays queued. *)
Clear ==
  /\ subs' = [t \in Topic |-> {}]
  /\ leftAt' = [i \in Id |-> IF \E t \in Topic : i \in subs[t] THEN notified ELSE leftAt[i]]
  /\ UNCHANGED <<ticks, topicOf, left, notified, delivered, joinedAt>>

-----------------------------------------------------------------------------
(* The callbacks queued. *)

RunInsert(k) ==
  /\ k.do = "insert"
  /\ subs' = [subs EXCEPT ![k.topic] = @ \cup {k.id}]
  /\ joinedAt' = [joinedAt EXCEPT ![k.id] = notified]
  /\ UNCHANGED <<delivered, leftAt>>

RunErase(k) ==
  /\ k.do = "erase"
  /\ subs' = [subs EXCEPT ![k.topic] = @ \ {k.id}]
  /\ leftAt' = [leftAt EXCEPT ![k.id] = IF k.id \in subs[k.topic] THEN notified ELSE @]
  /\ UNCHANGED <<delivered, joinedAt>>

RunDeliver(k) ==
  /\ k.do = "deliver"
  /\ delivered' = [delivered EXCEPT ![k.id] = Append(@, k.msg)]
  /\ UNCHANGED <<subs, joinedAt, leftAt>>

RunTick ==
  /\ ticks # <<>>
  /\ ticks' = Tail(ticks)
  /\ RunInsert(Head(ticks)) \/ RunErase(Head(ticks)) \/ RunDeliver(Head(ticks))
  /\ UNCHANGED <<topicOf, left, notified>>

BusNext == \/ \E t \in Topic, i \in Id : Subscribe(t, i)
           \/ \E i \in Id : Unsubscribe(i)
           \/ \E t \in Topic : Notify(t)
           \/ Clear
           \/ RunTick

BusSpec == BusInit /\ [][BusNext]_busVars

-----------------------------------------------------------------------------
(* Properties.                                                             *)

TickSet == {InsertTick(t, i) : t \in Topic, i \in Id}
           \cup {EraseTick(t, i) : t \in Topic, i \in Id}
           \cup {DeliverTick(t, i, n) : t \in Topic, i \in Id, n \in 1..MaxNotify}

BusTypeOK ==
  /\ subs \in [Topic -> SUBSET Id]
  /\ ticks \in Seq(TickSet)
  /\ topicOf \in [Id -> Topic \cup {None}] /\ left \subseteq Id
  /\ notified \in 0..MaxNotify
  /\ delivered \in [Id -> Seq(1..MaxNotify)]
  /\ joinedAt \in [Id -> 0..MaxNotify] /\ leftAt \in [Id -> 0..MaxNotify + 1]

(* An observer is called at most once per message, in the order they were  *)
(* raised, though each call waits in the loop on its own.                  *)
InOrder ==
  \A i \in Id : \A j, k \in DOMAIN delivered[i] : j < k => delivered[i][j] < delivered[i][k]

(* An observer hears only what was raised while it was subscribed: nothing *)
(* raised before its insertion ran, nothing raised after its erasure ran,  *)
(* even if it is called after that.                                        *)
WhileSubscribed ==
  \A i \in Id : \A k \in DOMAIN delivered[i] :
     /\ delivered[i][k] > joinedAt[i]
     /\ delivered[i][k] <= leftAt[i]

(* Unsubscribing wins: once its callback ran, the id never comes back.     *)
LeftForGood ==
  \A i \in left : (\A k \in DOMAIN ticks : ticks[k].id = i => ticks[k].do = "deliver")
                  => \A t \in Topic : i \notin subs[t]
=============================================================================
