------------------------------ MODULE BusProofs ------------------------------
(***************************************************************************)
(* Proofs about EventBus, and then about RedisBus, which is an EventBus    *)
(* with Redis listeners, for any sets of topics and of subscription ids    *)
(* and any number of messages and failures.                                *)
(***************************************************************************)
EXTENDS RedisBus, FiniteSetTheorems, TLAPS

Queued(what, i) == \E k \in DOMAIN ticks : ticks[k].do = what /\ ticks[k].id = i

(* What is queued or subscribed for an id is for the topic it was issued   *)
(* for, so an id that was not issued is nowhere.                           *)
Fits ==
  /\ \A k \in DOMAIN ticks : topicOf[ticks[k].id] = ticks[k].topic
  /\ \A t \in Topic : \A i \in subs[t] : topicOf[i] = t
  /\ left \subseteq Issued

(* While the insertion of an id is queued nothing has happened to it yet,  *)
(* and behind it only its erasure is queued.                               *)
InsertFirst ==
  /\ \A j, k \in DOMAIN ticks :
       ticks[j].do = "insert" /\ ticks[k].id = ticks[j].id /\ j # k
         => j < k /\ ticks[k].do = "erase"
  /\ \A k \in DOMAIN ticks : ticks[k].do = "insert" => \A t \in Topic : ticks[k].id \notin subs[t]

(* An id has one erasure, queued by unsubscribe(); once it ran, the id is  *)
(* neither queued to be inserted nor subscribed.                           *)
Erased ==
  /\ \A j, k \in DOMAIN ticks :
       ticks[j].do = "erase" /\ ticks[k].do = "erase" /\ ticks[j].id = ticks[k].id => j = k
  /\ \A k \in DOMAIN ticks : ticks[k].do = "erase" => ticks[k].id \in left
  /\ \A i \in left : ~Queued("erase", i) =>
       ~Queued("insert", i) /\ \A t \in Topic : i \notin subs[t]

FiniteSubs == \A t \in Topic : IsFiniteSet(subs[t])

Queues == Fits /\ InsertFirst /\ Erased

Inv1 == BusTypeOK /\ FiniteSubs /\ Queues

-----------------------------------------------------------------------------
(* The queue. *)

LEMMA TickFields ==
  /\ \A x \in TickSet : /\ x.do \in {"insert", "erase", "deliver"}
                        /\ x.topic \in Topic /\ x.id \in Id
                        /\ x.do = "deliver" => x.msg \in 1..MaxNotify
  /\ \A t \in Topic, i \in Id : InsertTick(t, i) \in TickSet /\ EraseTick(t, i) \in TickSet
  /\ \A t \in Topic, i \in Id, n \in 1..MaxNotify : DeliverTick(t, i, n) \in TickSet
<1>1. ASSUME NEW x \in TickSet
      PROVE  \/ \E t \in Topic, i \in Id : x = InsertTick(t, i)
             \/ \E t \in Topic, i \in Id : x = EraseTick(t, i)
             \/ \E t \in Topic, i \in Id, n \in 1..MaxNotify : x = DeliverTick(t, i, n)
  BY <1>1 DEF TickSet
<1>2. ASSUME NEW x \in TickSet
      PROVE  /\ x.do \in {"insert", "erase", "deliver"}
             /\ x.topic \in Topic /\ x.id \in Id
             /\ x.do = "deliver" => x.msg \in 1..MaxNotify
  <2>1. CASE \E t \in Topic, i \in Id : x = InsertTick(t, i)
    BY <2>1 DEF InsertTick
  <2>2. CASE \E t \in Topic, i \in Id : x = EraseTick(t, i)
    BY <2>2 DEF EraseTick
  <2>3. CASE \E t \in Topic, i \in Id, n \in 1..MaxNotify : x = DeliverTick(t, i, n)
    BY <2>3 DEF DeliverTick
  <2>4. QED
    BY <1>1, <2>1, <2>2, <2>3
<1>3. \A t \in Topic, i \in Id : InsertTick(t, i) \in TickSet /\ EraseTick(t, i) \in TickSet
  BY DEF TickSet
<1>4. \A t \in Topic, i \in Id, n \in 1..MaxNotify : DeliverTick(t, i, n) \in TickSet
  BY DEF TickSet
<1>5. QED
  BY <1>2, <1>3, <1>4

LEMMA HeadTail ==
  ASSUME BusTypeOK, ticks # <<>>, ticks' = Tail(ticks)
  PROVE  /\ 1 \in DOMAIN ticks /\ Head(ticks) = ticks[1]
         /\ ticks' \in Seq(TickSet)
         /\ \A k \in DOMAIN ticks' : k \in Nat /\ k > 0 /\ k + 1 \in DOMAIN ticks /\ ticks'[k] = ticks[k + 1]
         /\ \A k \in DOMAIN ticks : k \in Nat /\ k >= 1
              /\ (k = 1 \/ (k - 1 \in DOMAIN ticks' /\ ticks[k] = ticks'[k - 1]))
BY DEF BusTypeOK

LEMMA AddOne ==
  ASSUME BusTypeOK, NEW x \in TickSet, ticks' = Append(ticks, x)
  PROVE  /\ ticks' \in Seq(TickSet)
         /\ Len(ticks) + 1 \in DOMAIN ticks' /\ ticks'[Len(ticks) + 1] = x
         /\ \A k \in DOMAIN ticks : /\ k \in DOMAIN ticks' /\ ticks'[k] = ticks[k]
                                    /\ k \in Nat /\ k < Len(ticks) + 1
         /\ \A k \in DOMAIN ticks' : k \in DOMAIN ticks \/ k = Len(ticks) + 1
BY DEF BusTypeOK

LEMMA AddMany ==
  ASSUME BusTypeOK, NEW d \in Seq(TickSet), ticks' = ticks \o d
  PROVE  /\ ticks' \in Seq(TickSet) /\ Len(ticks) \in Nat
         /\ \A k \in DOMAIN ticks : /\ k \in DOMAIN ticks' /\ ticks'[k] = ticks[k]
                                    /\ k \in Nat /\ k <= Len(ticks)
         /\ \A k \in DOMAIN ticks' : \/ k \in DOMAIN ticks
                                     \/ /\ k \in Nat /\ k > Len(ticks)
                                        /\ k - Len(ticks) \in DOMAIN d
                                        /\ ticks'[k] = d[k - Len(ticks)]
         /\ \A k \in DOMAIN d : /\ k \in Nat /\ k + Len(ticks) \in DOMAIN ticks'
                                /\ ticks'[k + Len(ticks)] = d[k]
BY DEF BusTypeOK

(* notify() queues one delivery for each subscription of the topic. *)
LEMMA OneDeliveryEach ==
  ASSUME BusTypeOK, NEW t \in Topic, IsFiniteSet(subs[t]), NEW n \in 1..MaxNotify,
         NEW d \in Deliveries(t, n)
  PROVE  /\ d \in Seq(TickSet)
         /\ \A k \in DOMAIN d : /\ d[k].do = "deliver" /\ d[k].topic = t /\ d[k].msg = n
                                /\ d[k].id \in subs[t]
         /\ \A j, k \in DOMAIN d : d[j].id = d[k].id => j = k
<1>1. PICK s \in SetToSeqs(subs[t]) : d = [k \in 1..Len(s) |-> DeliverTick(t, s[k], n)]
  BY DEF Deliveries
<1>2. subs[t] \subseteq Id
  BY DEF BusTypeOK
<1>3. Cardinality(subs[t]) \in Nat
  BY FS_CardinalityType
<1>4. /\ s \in [1..Cardinality(subs[t]) -> subs[t]]
      /\ \A j, k \in DOMAIN s : s[j] = s[k] => j = k
  BY <1>1 DEF SetToSeqs, IsInjective
<1>5. Len(s) = Cardinality(subs[t]) /\ DOMAIN s = 1..Len(s)
  BY <1>3, <1>4
<1>6. \A k \in 1..Len(s) : s[k] \in subs[t] /\ DeliverTick(t, s[k], n) \in TickSet
  BY <1>2, <1>4, <1>5, TickFields
<1>7. d \in Seq(TickSet) /\ DOMAIN d = 1..Len(s)
  BY <1>1, <1>3, <1>5, <1>6
<1>8. QED
  BY <1>1, <1>4, <1>5, <1>6, <1>7 DEF DeliverTick

LEMMA NoneLeftOut ==
  ASSUME BusTypeOK, NEW t \in Topic, IsFiniteSet(subs[t]), NEW n \in 1..MaxNotify,
         NEW d \in Deliveries(t, n), NEW i \in subs[t]
  PROVE  \E k \in DOMAIN d : d[k] = DeliverTick(t, i, n)
<1>1. PICK s \in SetToSeqs(subs[t]) : d = [k \in 1..Len(s) |-> DeliverTick(t, s[k], n)]
  BY DEF Deliveries
<1> DEFINE D == 1..Cardinality(subs[t])
<1>2. Cardinality(subs[t]) \in Nat
  BY FS_CardinalityType
<1>3. s \in [D -> subs[t]] /\ \A j, k \in D : s[j] = s[k] => j = k
  BY <1>1 DEF SetToSeqs
<1>4. s \in Injection(D, subs[t])
  BY <1>3 DEF Injection, IsInjective
<1>5. Cardinality(D) = Cardinality(subs[t])
  BY <1>2, FS_Interval
<1>6. s \in Surjection(D, subs[t])
  BY <1>4, <1>5, FS_Injection
<1>7. PICK k \in D : s[k] = i
  BY <1>6 DEF Surjection
<1>8. Len(s) = Cardinality(subs[t])
  BY <1>2, <1>3
<1>9. k \in DOMAIN d /\ d[k] = DeliverTick(t, s[k], n)
  BY <1>1, <1>7, <1>8
<1>10. QED
  BY <1>7, <1>9

-----------------------------------------------------------------------------
(* Types. *)

LEMMA HeadTick ==
  ASSUME BusTypeOK, ticks # <<>>
  PROVE  /\ Head(ticks) \in TickSet /\ Head(ticks) = ticks[1] /\ 1 \in DOMAIN ticks
         /\ Tail(ticks) \in Seq(TickSet)
BY DEF BusTypeOK

LEMMA BusTypesInit == BusInit => BusTypeOK /\ FiniteSubs
BY NotifyAssumption, FS_EmptySet DEF BusInit, BusTypeOK, FiniteSubs

LEMMA BusTypesStep ==
  ASSUME BusTypeOK, FiniteSubs, BusNext
  PROVE  BusTypeOK' /\ FiniteSubs'
<1>1. ASSUME NEW t \in Topic, NEW i \in Id, Subscribe(t, i)
      PROVE  BusTypeOK' /\ FiniteSubs'
  <2>1. ticks' \in Seq(TickSet)
    BY <1>1, TickFields DEF BusTypeOK, Subscribe
  <2>2. QED
    BY <1>1, <2>1 DEF BusTypeOK, FiniteSubs, Subscribe, seenVars
<1>2. ASSUME NEW i \in Id, Unsubscribe(i)
      PROVE  BusTypeOK' /\ FiniteSubs'
  <2>1. topicOf[i] \in Topic
    BY <1>2 DEF BusTypeOK, Unsubscribe, Issued
  <2>2. ticks' \in Seq(TickSet)
    BY <1>2, <2>1, TickFields DEF BusTypeOK, Unsubscribe
  <2>3. QED
    BY <1>2, <2>2 DEF BusTypeOK, FiniteSubs, Unsubscribe, seenVars
<1>3. ASSUME NEW t \in Topic, Notify(t)
      PROVE  BusTypeOK' /\ FiniteSubs'
  <2>1. notified + 1 \in 1..MaxNotify
    BY <1>3, NotifyAssumption DEF BusTypeOK, Notify
  <2>2. PICK d \in Deliveries(t, notified + 1) : ticks' = ticks \o d
    BY <1>3 DEF Notify
  <2>3. d \in Seq(TickSet)
    BY <2>1, <2>2, OneDeliveryEach DEF FiniteSubs
  <2>4. ticks' \in Seq(TickSet)
    BY <2>2, <2>3 DEF BusTypeOK
  <2>5. QED
    BY <1>3, <2>1, <2>4, NotifyAssumption DEF BusTypeOK, FiniteSubs, Notify, seenVars
<1>4. CASE Clear
  <2>1. leftAt' \in [Id -> 0..MaxNotify + 1]
    BY <1>4, NotifyAssumption DEF BusTypeOK, Clear
  <2>2. QED
    BY <1>4, <2>1, FS_EmptySet DEF BusTypeOK, FiniteSubs, Clear
<1>5. CASE RunTick
  <2> DEFINE k == Head(ticks)
  <2>1. k \in TickSet /\ ticks' \in Seq(TickSet)
    BY <1>5, HeadTick DEF RunTick
  <2>2. k.topic \in Topic /\ k.id \in Id /\ (k.do = "deliver" => k.msg \in 1..MaxNotify)
    BY <2>1, TickFields
  <2>3. UNCHANGED <<topicOf, left, notified>>
    BY <1>5 DEF RunTick
  <2> HIDE DEF k
  <2>4. CASE RunInsert(k)
    <3>1. IsFiniteSet(subs[k.topic] \cup {k.id})
      BY <2>2, FS_AddElement DEF FiniteSubs
    <3>2. QED
      BY <2>1, <2>2, <2>3, <2>4, <3>1 DEF BusTypeOK, FiniteSubs, RunInsert
  <2>5. CASE RunErase(k)
    <3>1. IsFiniteSet(subs[k.topic] \ {k.id})
      BY <2>2, FS_RemoveElement DEF FiniteSubs
    <3>2. leftAt' \in [Id -> 0..MaxNotify + 1]
      BY <2>2, <2>5, NotifyAssumption DEF BusTypeOK, RunErase
    <3>3. QED
      BY <2>1, <2>2, <2>3, <2>5, <3>1, <3>2 DEF BusTypeOK, FiniteSubs, RunErase
  <2>6. CASE RunDeliver(k)
    <3>1. Append(delivered[k.id], k.msg) \in Seq(1..MaxNotify)
      BY <2>2, <2>6 DEF BusTypeOK, RunDeliver
    <3>2. delivered' \in [Id -> Seq(1..MaxNotify)]
      BY <2>2, <2>6, <3>1 DEF BusTypeOK, RunDeliver
    <3>3. QED
      BY <2>1, <2>3, <2>6, <3>2 DEF BusTypeOK, FiniteSubs, RunDeliver
  <2>7. QED
    BY <1>5, <2>4, <2>5, <2>6 DEF RunTick, k
<1>6. QED
  BY <1>1, <1>2, <1>3, <1>4, <1>5 DEF BusNext

-----------------------------------------------------------------------------
(* What is queued and subscribed. *)

LEMMA NotIssuedNowhere ==
  ASSUME Inv1, NEW i \in Id \ Issued
  PROVE  /\ \A k \in DOMAIN ticks : ticks[k].id # i
         /\ \A t \in Topic : i \notin subs[t]
         /\ i \notin left
<1>1. topicOf[i] = None
  BY DEF Issued
<1>2. \A k \in DOMAIN ticks : ticks[k].topic \in Topic
  BY TickFields DEF Inv1, BusTypeOK
<1>3. \A k \in DOMAIN ticks : ticks[k].id # i
  BY <1>1, <1>2, TopicAssumption DEF Inv1, Queues, Fits
<1>4. \A t \in Topic : i \notin subs[t]
  BY <1>1, TopicAssumption DEF Inv1, Queues, Fits
<1>5. QED
  BY <1>3, <1>4 DEF Inv1, Queues, Fits

LEMMA QueuesAfterSubscribe ==
  ASSUME Inv1, NEW t \in Topic, NEW i \in Id, Subscribe(t, i)
  PROVE  Queues'
<1> DEFINE new == InsertTick(t, i)
<1>1. i \notin Issued /\ UNCHANGED <<subs, left>> /\ ticks' = Append(ticks, new)
  BY DEF Subscribe
<1>2. /\ \A k \in DOMAIN ticks : ticks[k].id # i
      /\ \A u \in Topic : i \notin subs[u]
      /\ i \notin left
  BY <1>1, NotIssuedNowhere
<1>3. new.do = "insert" /\ new.id = i /\ new.topic = t /\ new \in TickSet
  BY TickFields DEF InsertTick
<1> HIDE DEF new
<1>4. /\ Len(ticks) + 1 \in DOMAIN ticks' /\ ticks'[Len(ticks) + 1] = new
      /\ \A k \in DOMAIN ticks : /\ k \in DOMAIN ticks' /\ ticks'[k] = ticks[k]
                                 /\ k \in Nat /\ k < Len(ticks) + 1
      /\ \A k \in DOMAIN ticks' : k \in DOMAIN ticks \/ k = Len(ticks) + 1
  BY <1>1, <1>3, AddOne DEF Inv1
<1>5. topicOf'[i] = t /\ \A j \in Id \ {i} : topicOf'[j] = topicOf[j]
  BY DEF Inv1, BusTypeOK, Subscribe
<1>6. \A k \in DOMAIN ticks : ticks[k].id \in Id \ {i}
  BY <1>2, TickFields DEF Inv1, BusTypeOK
<1>7. Fits'
  <2>1. \A k \in DOMAIN ticks' : topicOf'[ticks'[k].id] = ticks'[k].topic
    BY <1>3, <1>4, <1>5, <1>6 DEF Inv1, Queues, Fits
  <2>2. \A u \in Topic : \A j \in subs[u] : topicOf'[j] = u
    BY <1>2, <1>5 DEF Inv1, Queues, Fits, BusTypeOK
  <2>3. left \subseteq Issued'
    BY <1>2, <1>5 DEF Inv1, Queues, Fits, Issued
  <2>4. QED
    BY <1>1, <2>1, <2>2, <2>3 DEF Fits
<1>8. InsertFirst'
  BY <1>1, <1>2, <1>3, <1>4 DEF Inv1, Queues, InsertFirst
<1>9. Erased'
  <2>1. ASSUME NEW j \in left, ~Queued("erase", j)'
        PROVE  ~Queued("insert", j)' /\ \A u \in Topic : j \notin subs'[u]
    BY <2>1, <1>1, <1>2, <1>3, <1>4 DEF Inv1, Queues, Erased, Queued
  <2>2. QED
    BY <2>1, <1>1, <1>3, <1>4 DEF Inv1, Queues, Erased
<1>10. QED
  BY <1>7, <1>8, <1>9 DEF Queues

LEMMA QueuesAfterUnsubscribe ==
  ASSUME Inv1, NEW i \in Id, Unsubscribe(i)
  PROVE  Queues'
<1> DEFINE new == EraseTick(topicOf[i], i)
<1>1. /\ i \in Issued /\ i \notin left /\ left' = left \cup {i}
      /\ UNCHANGED <<subs, topicOf>> /\ ticks' = Append(ticks, new)
  BY DEF Unsubscribe
<1>2. topicOf[i] \in Topic
  BY <1>1 DEF Issued, Inv1, BusTypeOK
<1>3. new.do = "erase" /\ new.id = i /\ new.topic = topicOf[i] /\ new \in TickSet
  BY <1>2, TickFields DEF EraseTick
<1> HIDE DEF new
<1>4. /\ Len(ticks) + 1 \in DOMAIN ticks' /\ ticks'[Len(ticks) + 1] = new
      /\ \A k \in DOMAIN ticks : /\ k \in DOMAIN ticks' /\ ticks'[k] = ticks[k]
                                 /\ k \in Nat /\ k < Len(ticks) + 1
      /\ \A k \in DOMAIN ticks' : k \in DOMAIN ticks \/ k = Len(ticks) + 1
  BY <1>1, <1>3, AddOne DEF Inv1
<1>5. Fits'
  BY <1>1, <1>3, <1>4 DEF Inv1, Queues, Fits, Issued
<1>6. InsertFirst'
  BY <1>1, <1>3, <1>4 DEF Inv1, Queues, InsertFirst
<1>7. Erased'
  <2>1. \A j, k \in DOMAIN ticks' :
          ticks'[j].do = "erase" /\ ticks'[k].do = "erase" /\ ticks'[j].id = ticks'[k].id => j = k
    BY <1>1, <1>3, <1>4 DEF Inv1, Queues, Erased
  <2>2. \A k \in DOMAIN ticks' : ticks'[k].do = "erase" => ticks'[k].id \in left'
    BY <1>1, <1>3, <1>4 DEF Inv1, Queues, Erased
  <2>3. Queued("erase", i)'
    BY <1>3, <1>4 DEF Queued
  <2>4. ASSUME NEW j \in left', ~Queued("erase", j)'
        PROVE  ~Queued("insert", j)' /\ \A u \in Topic : j \notin subs'[u]
    <3>1. j \in left
      BY <1>1, <2>3, <2>4
    <3>2. ~Queued("erase", j)
      BY <1>4, <2>4 DEF Queued
    <3>3. QED
      BY <1>1, <1>3, <1>4, <3>1, <3>2 DEF Inv1, Queues, Erased, Queued
  <2>5. QED
    BY <2>1, <2>2, <2>4 DEF Erased
<1>8. QED
  BY <1>5, <1>6, <1>7 DEF Queues

LEMMA QueuesAfterNotify ==
  ASSUME Inv1, NEW t \in Topic, Notify(t)
  PROVE  Queues'
<1>1. notified + 1 \in 1..MaxNotify /\ UNCHANGED <<subs, topicOf, left>>
  BY NotifyAssumption DEF Inv1, BusTypeOK, Notify
<1>2. PICK d \in Deliveries(t, notified + 1) : ticks' = ticks \o d
  BY DEF Notify
<1>3. /\ d \in Seq(TickSet)
      /\ \A k \in DOMAIN d : d[k].do = "deliver" /\ d[k].topic = t /\ d[k].id \in subs[t]
  BY <1>1, <1>2, OneDeliveryEach DEF Inv1, FiniteSubs
<1>4. /\ \A k \in DOMAIN ticks : k \in DOMAIN ticks' /\ ticks'[k] = ticks[k]
      /\ \A k \in DOMAIN ticks' :
           k \in DOMAIN ticks \/ \E j \in DOMAIN d : ticks'[k] = d[j]
  BY <1>2, <1>3, AddMany DEF Inv1
<1>5. \A k \in DOMAIN ticks' :
        \/ k \in DOMAIN ticks /\ ticks'[k] = ticks[k]
        \/ ticks'[k].do = "deliver" /\ ticks'[k].topic = t /\ ticks'[k].id \in subs[t]
  BY <1>3, <1>4
<1>6. Fits'
  BY <1>1, <1>5 DEF Inv1, Queues, Fits, Issued
<1>7. InsertFirst'
  BY <1>1, <1>5 DEF Inv1, Queues, InsertFirst
<1>8. Erased'
  <2>1. \A j \in Id : Queued("erase", j) => Queued("erase", j)'
    BY <1>4 DEF Queued
  <2>2. \A j \in Id : Queued("insert", j)' => Queued("insert", j)
    BY <1>5 DEF Queued
  <2>3. \A j \in left : j \in Id
    BY DEF Inv1, BusTypeOK
  <2>4. \A j \in left' : ~Queued("erase", j)' =>
          ~Queued("insert", j)' /\ \A u \in Topic : j \notin subs'[u]
    BY <1>1, <2>1, <2>2, <2>3 DEF Inv1, Queues, Erased
  <2>5. QED
    BY <1>1, <1>5, <2>4 DEF Inv1, Queues, Erased
<1>9. QED
  BY <1>6, <1>7, <1>8 DEF Queues

LEMMA QueuesAfterClear ==
  ASSUME Inv1, Clear
  PROVE  Queues'
<1>1. UNCHANGED <<ticks, topicOf, left>> /\ \A t \in Topic : subs'[t] = {}
  BY DEF Clear
<1>2. QED
  BY <1>1 DEF Inv1, Queues, Fits, InsertFirst, Erased, Queued, Issued

LEMMA QueuesAfterTick ==
  ASSUME Inv1, RunTick
  PROVE  Queues'
<1> DEFINE h == ticks[1]
<1>1. ticks # <<>> /\ ticks' = Tail(ticks) /\ UNCHANGED <<topicOf, left>>
  BY DEF RunTick
<1>2. /\ 1 \in DOMAIN ticks /\ h \in TickSet /\ Head(ticks) = h
      /\ \A k \in DOMAIN ticks' : k \in Nat /\ k > 0 /\ k + 1 \in DOMAIN ticks /\ ticks'[k] = ticks[k + 1]
      /\ \A k \in DOMAIN ticks : k \in Nat /\ k >= 1
           /\ (k = 1 \/ (k - 1 \in DOMAIN ticks' /\ ticks[k] = ticks'[k - 1]))
  BY <1>1, HeadTail, HeadTick DEF Inv1
<1>3. RunInsert(h) \/ RunErase(h) \/ RunDeliver(h)
  BY <1>2 DEF RunTick
<1>4. h.topic \in Topic /\ h.id \in Id /\ topicOf[h.id] = h.topic
  BY <1>2, TickFields DEF Inv1, Queues, Fits
<1> HIDE DEF h
<1>5. \A u \in Topic : subs'[u] \subseteq subs[u] \cup (IF RunInsert(h) /\ u = h.topic THEN {h.id} ELSE {})
  <2>1. CASE RunInsert(h)
    BY <1>4, <2>1 DEF RunInsert, Inv1, BusTypeOK
  <2>2. CASE RunErase(h)
    BY <1>4, <2>2 DEF RunErase, Inv1, BusTypeOK
  <2>3. CASE RunDeliver(h)
    BY <1>4, <2>3 DEF RunDeliver
  <2>4. QED
    BY <1>3, <2>1, <2>2, <2>3
<1>6. Fits'
  <2>1. \A u \in Topic : \A i \in subs'[u] : topicOf[i] = u
    BY <1>4, <1>5 DEF Inv1, Queues, Fits
  <2>2. \A k \in DOMAIN ticks' : topicOf[ticks'[k].id] = ticks'[k].topic
    BY <1>2 DEF Inv1, Queues, Fits
  <2>3. QED
    BY <1>1, <2>1, <2>2 DEF Inv1, Queues, Fits, Issued
<1>7. InsertFirst'
  <2>1. ASSUME NEW j \in DOMAIN ticks', NEW k \in DOMAIN ticks',
               ticks'[j].do = "insert", ticks'[k].id = ticks'[j].id, j # k
        PROVE  j < k /\ ticks'[k].do = "erase"
    <3>1. j + 1 < k + 1 /\ ticks[k + 1].do = "erase"
      BY <1>2, <2>1 DEF Inv1, Queues, InsertFirst
    <3>2. QED
      BY <1>2, <3>1
  <2>2. ASSUME NEW k \in DOMAIN ticks', ticks'[k].do = "insert", NEW u \in Topic
        PROVE  ticks'[k].id \notin subs'[u]
    <3>1. ticks'[k].id \notin subs[u]
      BY <1>2, <2>2 DEF Inv1, Queues, InsertFirst
    <3>2. RunInsert(h) => ticks[k + 1].id # h.id
      BY <1>2, <2>2 DEF Inv1, Queues, InsertFirst, RunInsert, h
    <3>3. QED
      BY <1>2, <1>5, <3>1, <3>2
  <2>3. QED
    BY <2>1, <2>2 DEF InsertFirst
<1>8. Erased'
  <2>1. ASSUME NEW j \in DOMAIN ticks', NEW k \in DOMAIN ticks',
               ticks'[j].do = "erase", ticks'[k].do = "erase", ticks'[j].id = ticks'[k].id
        PROVE  j = k
    <3>1. j + 1 = k + 1
      BY <1>2, <2>1 DEF Inv1, Queues, Erased
    <3>2. QED
      BY <1>2, <3>1
  <2>2. \A k \in DOMAIN ticks' : ticks'[k].do = "erase" => ticks'[k].id \in left'
    BY <1>1, <1>2 DEF Inv1, Queues, Erased
  <2>3. ASSUME NEW i \in left, ~Queued("erase", i)'
        PROVE  ~Queued("insert", i)' /\ \A u \in Topic : i \notin subs'[u]
    <3>1. CASE h.do = "erase" /\ h.id = i
      <4>1. ~Queued("insert", i)'
        <5>1. ASSUME NEW k \in DOMAIN ticks', ticks'[k].do = "insert", ticks'[k].id = i
              PROVE  FALSE
          <6>1. k + 1 < 1
            BY <1>2, <3>1, <5>1 DEF Inv1, Queues, InsertFirst, h
          <6>2. QED
            BY <1>2, <6>1
        <5>2. QED
          BY <5>1 DEF Queued
      <4>2. RunErase(h)
        BY <1>3, <3>1 DEF RunInsert, RunDeliver
      <4>3. \A u \in Topic : i \notin subs'[u]
        BY <1>4, <3>1, <4>2 DEF RunErase, Inv1, BusTypeOK, Queues, Fits
      <4>4. QED
        BY <4>1, <4>3
    <3>2. CASE ~(h.do = "erase" /\ h.id = i)
      <4>1. ~Queued("erase", i)
        BY <1>2, <2>3, <3>2 DEF Queued, h
      <4>2. ~Queued("insert", i) /\ \A u \in Topic : i \notin subs[u]
        BY <4>1 DEF Inv1, Queues, Erased
      <4>3. RunInsert(h) => h.id # i
        BY <1>2, <4>2 DEF Queued, RunInsert, h
      <4>4. ~Queued("insert", i)'
        BY <1>2, <4>2 DEF Queued
      <4>5. QED
        BY <1>5, <4>2, <4>3, <4>4
    <3>3. QED
      BY <3>1, <3>2
  <2>4. QED
    BY <1>1, <2>1, <2>2, <2>3 DEF Erased
<1>9. QED
  BY <1>6, <1>7, <1>8 DEF Queues

LEMMA Inv1Init == BusInit => Inv1
<1>1. BusInit => Queues
  BY TopicAssumption DEF BusInit, Queues, Fits, InsertFirst, Erased, Queued
<1>2. QED
  BY <1>1, BusTypesInit DEF Inv1

LEMMA Inv1Step == Inv1 /\ BusNext => Inv1'
<1>1. SUFFICES ASSUME Inv1, BusNext PROVE Inv1'
  OBVIOUS
<1>2. BusTypeOK' /\ FiniteSubs'
  BY <1>1, BusTypesStep DEF Inv1
<1>3. Queues'
  BY <1>1, QueuesAfterSubscribe, QueuesAfterUnsubscribe, QueuesAfterNotify,
     QueuesAfterClear, QueuesAfterTick DEF BusNext
<1>4. QED
  BY <1>2, <1>3 DEF Inv1

LEMMA Inv1Gone == Inv1 => LeftForGood
BY DEF Inv1, Queues, Erased, LeftForGood, Queued

-----------------------------------------------------------------------------
(* What an observer has heard and is about to hear. *)

(* Nobody joined in the future, and who is subscribed has not left. *)
Times ==
  /\ \A i \in Id : joinedAt[i] <= notified
  /\ \A t \in Topic : \A i \in subs[t] : leftAt[i] = MaxNotify + 1

(* An id that was not inserted yet heard nothing and has not left. *)
Fresh ==
  \A i \in Id : i \notin Issued \/ Queued("insert", i)
    => delivered[i] = <<>> /\ leftAt[i] = MaxNotify + 1

(* A queued delivery is of a message raised while its observer was         *)
(* subscribed, and later than all it has heard.                            *)
Coming ==
  \A k \in DOMAIN ticks : ticks[k].do = "deliver" =>
    /\ joinedAt[ticks[k].id] < ticks[k].msg /\ ticks[k].msg <= leftAt[ticks[k].id]
    /\ ticks[k].msg <= notified
    /\ \A n \in DOMAIN delivered[ticks[k].id] : delivered[ticks[k].id][n] < ticks[k].msg

(* Deliveries to one observer are queued in the order of the messages. *)
InTurn ==
  \A j, k \in DOMAIN ticks :
    j < k /\ ticks[j].do = "deliver" /\ ticks[k].do = "deliver" /\ ticks[j].id = ticks[k].id
      => ticks[j].msg < ticks[k].msg

Past == \A i \in Id : \A n \in DOMAIN delivered[i] : delivered[i][n] <= notified

Heard == Times /\ Fresh /\ Coming /\ InTurn /\ Past /\ InOrder /\ WhileSubscribed

LEMMA HeardInit == BusInit => Heard
BY NotifyAssumption
   DEF BusInit, Heard, Times, Fresh, Coming, InTurn, Past, InOrder, WhileSubscribed

LEMMA NoNewDelivery ==
  ASSUME Coming, InTurn, UNCHANGED <<notified, seenVars>>,
         \A k \in DOMAIN ticks' :
           ticks'[k].do = "deliver" => k \in DOMAIN ticks /\ ticks'[k] = ticks[k]
  PROVE  Coming' /\ InTurn'
<1>1. Coming'
  BY DEF Coming, seenVars
<1>2. InTurn'
  BY DEF InTurn
<1>3. QED
  BY <1>1, <1>2

LEMMA HeardAfterSubscribe ==
  ASSUME Inv1, Heard, NEW t \in Topic, NEW i \in Id, Subscribe(t, i)
  PROVE  Heard'
<1> DEFINE new == InsertTick(t, i)
<1>1. i \notin Issued /\ UNCHANGED <<subs, notified, seenVars>> /\ ticks' = Append(ticks, new)
  BY DEF Subscribe
<1>2. new.do = "insert" /\ new.id = i /\ new \in TickSet
  BY TickFields DEF InsertTick
<1> HIDE DEF new
<1>3. /\ Len(ticks) + 1 \in DOMAIN ticks' /\ ticks'[Len(ticks) + 1] = new
      /\ \A k \in DOMAIN ticks : k \in DOMAIN ticks' /\ ticks'[k] = ticks[k]
      /\ \A k \in DOMAIN ticks' : k \in DOMAIN ticks \/ k = Len(ticks) + 1
  BY <1>1, <1>2, AddOne DEF Inv1
<1>4. \A k \in DOMAIN ticks' : ticks'[k].do = "deliver" => k \in DOMAIN ticks /\ ticks'[k] = ticks[k]
  BY <1>2, <1>3
<1>5. Fresh'
  <2>1. ASSUME NEW j \in Id, j \notin Issued' \/ Queued("insert", j)'
        PROVE  j \notin Issued \/ Queued("insert", j)
    <3>1. j # i => (j \in Issued => j \in Issued')
      BY DEF Subscribe, Issued, Inv1, BusTypeOK
    <3>2. j # i => (Queued("insert", j)' => Queued("insert", j))
      BY <1>2, <1>3 DEF Queued
    <3>3. QED
      BY <1>1, <2>1, <3>1, <3>2
  <2>2. QED
    BY <1>1, <2>1 DEF Heard, Fresh, seenVars
<1>6. Times' /\ Past' /\ InOrder' /\ WhileSubscribed'
  BY <1>1 DEF Heard, Times, Past, InOrder, WhileSubscribed, seenVars
<1>7. Coming' /\ InTurn'
  BY <1>1, <1>4, NoNewDelivery DEF Heard
<1>8. QED
  BY <1>5, <1>6, <1>7 DEF Heard

LEMMA HeardAfterUnsubscribe ==
  ASSUME Inv1, Heard, NEW i \in Id, Unsubscribe(i)
  PROVE  Heard'
<1> DEFINE new == EraseTick(topicOf[i], i)
<1>1. /\ i \in Issued /\ UNCHANGED <<subs, topicOf, notified, seenVars>>
      /\ ticks' = Append(ticks, new)
  BY DEF Unsubscribe
<1>2. topicOf[i] \in Topic
  BY <1>1 DEF Issued, Inv1, BusTypeOK
<1>3. new.do = "erase" /\ new \in TickSet
  BY <1>2, TickFields DEF EraseTick
<1> HIDE DEF new
<1>4. /\ ticks'[Len(ticks) + 1] = new
      /\ \A k \in DOMAIN ticks : k \in DOMAIN ticks' /\ ticks'[k] = ticks[k]
      /\ \A k \in DOMAIN ticks' : k \in DOMAIN ticks \/ k = Len(ticks) + 1
  BY <1>1, <1>3, AddOne DEF Inv1
<1>5. \A k \in DOMAIN ticks' : ticks'[k].do # "erase" => k \in DOMAIN ticks /\ ticks'[k] = ticks[k]
  BY <1>3, <1>4
<1>6. Fresh'
  <2>1. \A j \in Id : Queued("insert", j)' => Queued("insert", j)
    BY <1>5 DEF Queued
  <2>2. QED
    BY <1>1, <2>1 DEF Heard, Fresh, seenVars, Issued
<1>7. Times' /\ Past' /\ InOrder' /\ WhileSubscribed'
  BY <1>1 DEF Heard, Times, Past, InOrder, WhileSubscribed, seenVars
<1>8. Coming' /\ InTurn'
  BY <1>1, <1>5, NoNewDelivery DEF Heard
<1>9. QED
  BY <1>6, <1>7, <1>8 DEF Heard

LEMMA HeardAfterNotify ==
  ASSUME Inv1, Heard, NEW t \in Topic, Notify(t)
  PROVE  Heard'
<1>1. /\ notified + 1 \in 1..MaxNotify /\ notified' = notified + 1 /\ notified \in Nat
      /\ UNCHANGED <<subs, topicOf, left, seenVars>>
  BY NotifyAssumption DEF Inv1, BusTypeOK, Notify
<1>2. PICK d \in Deliveries(t, notified + 1) : ticks' = ticks \o d
  BY DEF Notify
<1>3. /\ d \in Seq(TickSet)
      /\ \A k \in DOMAIN d : /\ d[k].do = "deliver" /\ d[k].msg = notified + 1
                             /\ d[k].id \in subs[t]
      /\ \A j, k \in DOMAIN d : d[j].id = d[k].id => j = k
  BY <1>1, <1>2, OneDeliveryEach DEF Inv1, FiniteSubs
<1>4. /\ Len(ticks) \in Nat
      /\ \A k \in DOMAIN ticks : k \in DOMAIN ticks' /\ ticks'[k] = ticks[k] /\ k \in Nat /\ k <= Len(ticks)
      /\ \A k \in DOMAIN ticks' : \/ k \in DOMAIN ticks
                                  \/ /\ k \in Nat /\ k > Len(ticks)
                                     /\ k - Len(ticks) \in DOMAIN d
                                     /\ ticks'[k] = d[k - Len(ticks)]
  BY <1>2, <1>3, AddMany DEF Inv1
<1>5. \A j \in Id : joinedAt[j] \in Nat /\ leftAt[j] \in Nat
  BY NotifyAssumption DEF Inv1, BusTypeOK
<1>6. Times'
  BY <1>1, <1>5 DEF Heard, Times, seenVars
<1>7. Fresh'
  <2>1. \A j \in Id : Queued("insert", j)' => Queued("insert", j)
    BY <1>3, <1>4 DEF Queued
  <2>2. QED
    BY <1>1, <2>1 DEF Heard, Fresh, seenVars, Issued
<1>8. ASSUME NEW j \in Id, NEW n \in DOMAIN delivered[j]
      PROVE  delivered[j][n] \in Nat /\ delivered[j][n] <= notified
  BY NotifyAssumption, <1>8 DEF Inv1, BusTypeOK, Heard, Past
<1>9. Past' /\ InOrder' /\ WhileSubscribed'
  BY <1>1, <1>8 DEF Heard, Past, InOrder, WhileSubscribed, seenVars
<1>10. \A k \in DOMAIN ticks : ticks[k].do = "deliver" => ticks[k].msg \in Nat /\ ticks[k].id \in Id
  <2>1. \A k \in DOMAIN ticks : ticks[k] \in TickSet
    BY DEF Inv1, BusTypeOK
  <2>2. QED
    BY <2>1, TickFields
<1>11. Coming'
  <2>1. ASSUME NEW k \in DOMAIN ticks, ticks[k].do = "deliver"
        PROVE  /\ joinedAt[ticks[k].id] < ticks[k].msg /\ ticks[k].msg <= leftAt[ticks[k].id]
               /\ ticks[k].msg <= notified + 1
               /\ \A n \in DOMAIN delivered[ticks[k].id] : delivered[ticks[k].id][n] < ticks[k].msg
    BY <1>1, <1>10, <2>1 DEF Heard, Coming
  <2>2. ASSUME NEW k \in DOMAIN d
        PROVE  /\ joinedAt[d[k].id] < d[k].msg /\ d[k].msg <= leftAt[d[k].id]
               /\ d[k].msg <= notified + 1
               /\ \A n \in DOMAIN delivered[d[k].id] : delivered[d[k].id][n] < d[k].msg
    <3>1. d[k].id \in Id /\ leftAt[d[k].id] = MaxNotify + 1 /\ joinedAt[d[k].id] <= notified
      BY <1>3 DEF Heard, Times, Inv1, BusTypeOK
    <3>2. QED
      BY <1>1, <1>3, <1>5, <1>8, <3>1, NotifyAssumption
  <2>3. QED
    BY <1>1, <1>4, <2>1, <2>2 DEF Coming, seenVars
<1>12. InTurn'
  <2> SUFFICES ASSUME NEW j \in DOMAIN ticks', NEW k \in DOMAIN ticks', j < k,
                      ticks'[j].do = "deliver", ticks'[k].do = "deliver",
                      ticks'[j].id = ticks'[k].id
               PROVE  ticks'[j].msg < ticks'[k].msg
    BY DEF InTurn
  <2>1. CASE k \in DOMAIN ticks
    <3>1. j \in DOMAIN ticks
      BY <1>4, <2>1
    <3>2. QED
      BY <1>4, <2>1, <3>1 DEF Heard, InTurn
  <2>2. CASE j \in DOMAIN ticks /\ k \notin DOMAIN ticks
    <3>1. ticks'[j].msg \in Nat /\ ticks'[j].msg <= notified
      BY <1>4, <1>10, <2>2 DEF Heard, Coming
    <3>2. ticks'[k].msg = notified + 1
      BY <1>3, <1>4, <2>2
    <3>3. QED
      BY <1>1, <3>1, <3>2
  <2>3. CASE j \notin DOMAIN ticks /\ k \notin DOMAIN ticks
    <3>1. /\ j - Len(ticks) \in DOMAIN d /\ k - Len(ticks) \in DOMAIN d
          /\ d[j - Len(ticks)].id = d[k - Len(ticks)].id
      BY <1>4, <2>3
    <3>2. j - Len(ticks) = k - Len(ticks)
      BY <1>3, <3>1
    <3>3. QED
      BY <1>4, <2>3, <3>2
  <2>4. QED
    BY <2>1, <2>2, <2>3
<1>13. QED
  BY <1>6, <1>7, <1>9, <1>11, <1>12 DEF Heard

LEMMA HeardAfterClear ==
  ASSUME Inv1, Heard, Clear
  PROVE  Heard'
<1>1. /\ UNCHANGED <<ticks, topicOf, left, notified, delivered, joinedAt>>
      /\ \A t \in Topic : subs'[t] = {}
      /\ \A i \in Id : leftAt'[i] \in {leftAt[i], notified}
      /\ \A i \in Id : (\A t \in Topic : i \notin subs[t]) => leftAt'[i] = leftAt[i]
  BY DEF Clear
<1>2. Times'
  BY <1>1 DEF Heard, Times
<1>3. Fresh'
  <2>1. ASSUME NEW i \in Id, i \notin Issued \/ Queued("insert", i)
        PROVE  \A t \in Topic : i \notin subs[t]
    BY <2>1, NotIssuedNowhere DEF Queued, Inv1, Queues, InsertFirst
  <2>2. QED
    BY <1>1, <2>1 DEF Heard, Fresh, Queued, Issued
<1>4. Coming'
  <2>1. \A k \in DOMAIN ticks : ticks[k].id \in Id
    BY TickFields DEF Inv1, BusTypeOK
  <2>2. QED
    BY <1>1, <2>1 DEF Heard, Coming
<1>5. InTurn' /\ Past' /\ InOrder'
  BY <1>1 DEF Heard, InTurn, Past, InOrder
<1>6. WhileSubscribed'
  BY <1>1 DEF Heard, Past, WhileSubscribed
<1>7. QED
  BY <1>2, <1>3, <1>4, <1>5, <1>6 DEF Heard

LEMMA HeardAfterTick ==
  ASSUME Inv1, Heard, RunTick
  PROVE  Heard'
<1>0. PICK h : h = ticks[1]
  OBVIOUS
<1>1. ticks # <<>> /\ ticks' = Tail(ticks) /\ UNCHANGED <<topicOf, left, notified>>
  BY DEF RunTick
<1>2. /\ 1 \in DOMAIN ticks /\ h \in TickSet /\ Head(ticks) = h
      /\ \A k \in DOMAIN ticks' : k \in Nat /\ k > 0 /\ k + 1 \in DOMAIN ticks /\ ticks'[k] = ticks[k + 1]
  BY <1>0, <1>1, HeadTail, HeadTick DEF Inv1
<1>3. RunInsert(h) \/ RunErase(h) \/ RunDeliver(h)
  BY <1>2 DEF RunTick
<1>4. h.topic \in Topic /\ h.id \in Id /\ topicOf[h.id] = h.topic
  BY <1>0, <1>2, TickFields DEF Inv1, Queues, Fits
<1>5. h.id \in Issued
  BY <1>4, TopicAssumption DEF Issued
<1>6. /\ notified \in Nat /\ MaxNotify \in Nat
      /\ \A i \in Id : /\ joinedAt[i] \in Nat /\ leftAt[i] \in Nat
                       /\ \A n \in DOMAIN delivered[i] : delivered[i][n] \in Nat
  BY NotifyAssumption DEF Inv1, BusTypeOK
<1>7. \A k \in DOMAIN ticks : ticks[k].id \in Id /\ (ticks[k].do = "deliver" => ticks[k].msg \in Nat)
  <2>1. \A k \in DOMAIN ticks : ticks[k] \in TickSet
    BY DEF Inv1, BusTypeOK
  <2>2. QED
    BY <2>1, TickFields
<1>8. \A i \in Id : Queued("insert", i)' => Queued("insert", i)
  BY <1>2 DEF Queued
<1>9. InTurn'
  <2> SUFFICES ASSUME NEW j \in DOMAIN ticks', NEW k \in DOMAIN ticks', j < k,
                      ticks'[j].do = "deliver", ticks'[k].do = "deliver",
                      ticks'[j].id = ticks'[k].id
               PROVE  ticks'[j].msg < ticks'[k].msg
    BY DEF InTurn
  <2>1. j + 1 < k + 1
    BY <1>2
  <2>2. QED
    BY <1>2, <2>1 DEF Heard, InTurn
<1>10. CASE RunInsert(h)
  <2>1. /\ UNCHANGED <<delivered, leftAt>> /\ h.do = "insert"
        /\ joinedAt'[h.id] = notified /\ \A i \in Id \ {h.id} : joinedAt'[i] = joinedAt[i]
        /\ \A u \in Topic : subs'[u] \subseteq subs[u] \cup {h.id}
    BY <1>4, <1>10 DEF RunInsert, Inv1, BusTypeOK
  <2>2. delivered[h.id] = <<>> /\ leftAt[h.id] = MaxNotify + 1
    BY <1>0, <1>2, <1>4, <2>1 DEF Heard, Fresh, Queued
  <2>3. \A k \in DOMAIN ticks' : ticks'[k].do = "deliver" => ticks'[k].id # h.id
    BY <1>0, <1>2, <2>1 DEF Inv1, Queues, InsertFirst
  <2>4. Times'
    BY <1>1, <1>6, <2>1, <2>2 DEF Heard, Times
  <2>5. Fresh'
    BY <1>1, <1>8, <2>1 DEF Heard, Fresh, Issued
  <2>6. Coming'
    <3>1. ASSUME NEW k \in DOMAIN ticks', ticks'[k].do = "deliver"
          PROVE  k + 1 \in DOMAIN ticks /\ ticks'[k] = ticks[k + 1] /\ ticks'[k].id \in Id \ {h.id}
      BY <1>2, <1>7, <2>3, <3>1
    <3>2. QED
      BY <1>1, <2>1, <3>1 DEF Heard, Coming
  <2>7. Past' /\ InOrder'
    BY <1>1, <2>1 DEF Heard, Past, InOrder
  <2>8. WhileSubscribed'
    BY <2>1, <2>2 DEF Heard, WhileSubscribed
  <2>9. QED
    BY <1>9, <2>4, <2>5, <2>6, <2>7, <2>8 DEF Heard
<1>11. CASE RunErase(h)
  <2>1. /\ UNCHANGED <<delivered, joinedAt>> /\ h.do = "erase"
        /\ leftAt'[h.id] \in {leftAt[h.id], notified}
        /\ \A i \in Id \ {h.id} : leftAt'[i] = leftAt[i]
        /\ \A u \in Topic : subs'[u] \subseteq subs[u] /\ h.id \notin subs'[u]
    BY <1>4, <1>11 DEF RunErase, Inv1, BusTypeOK, Queues, Fits
  <2>2. ~Queued("insert", h.id)'
    <3>1. ASSUME NEW k \in DOMAIN ticks', ticks'[k].do = "insert", ticks'[k].id = h.id
          PROVE  FALSE
      <4>1. k + 1 < 1
        BY <1>0, <1>2, <2>1, <3>1 DEF Inv1, Queues, InsertFirst
      <4>2. QED
        BY <1>2, <4>1
    <3>2. QED
      BY <3>1 DEF Queued
  <2>3. Times'
    <3>1. \A u \in Topic : \A i \in subs'[u] : i \in Id \ {h.id} /\ i \in subs[u]
      BY <2>1 DEF Inv1, BusTypeOK
    <3>2. QED
      BY <1>1, <2>1, <3>1 DEF Heard, Times
  <2>4. Fresh'
    <3>1. ASSUME NEW i \in Id, i \notin Issued' \/ Queued("insert", i)'
          PROVE  i # h.id /\ (i \notin Issued \/ Queued("insert", i))
      BY <1>1, <1>5, <1>8, <2>2, <3>1 DEF Issued
    <3>2. QED
      BY <2>1, <3>1 DEF Heard, Fresh
  <2>5. Coming'
    <3>1. SUFFICES ASSUME NEW k \in DOMAIN ticks', ticks'[k].do = "deliver"
                   PROVE  /\ joinedAt'[ticks'[k].id] < ticks'[k].msg
                          /\ ticks'[k].msg <= leftAt'[ticks'[k].id]
                          /\ ticks'[k].msg <= notified'
                          /\ \A n \in DOMAIN delivered'[ticks'[k].id] :
                               delivered'[ticks'[k].id][n] < ticks'[k].msg
      BY DEF Coming
    <3> DEFINE d == ticks[k + 1]
    <3>2. /\ k + 1 \in DOMAIN ticks /\ ticks'[k] = d /\ d.id \in Id
          /\ leftAt'[d.id] \in {leftAt[d.id], notified}
      BY <1>2, <1>7, <2>1, <3>1
    <3>3. /\ joinedAt[d.id] < d.msg /\ d.msg <= leftAt[d.id] /\ d.msg <= notified
          /\ \A n \in DOMAIN delivered[d.id] : delivered[d.id][n] < d.msg
      BY <3>1, <3>2 DEF Heard, Coming
    <3> HIDE DEF d
    <3>4. joinedAt' = joinedAt /\ delivered' = delivered /\ notified' = notified
      BY <1>1, <2>1
    <3>5. QED
      BY <3>2, <3>3, <3>4
  <2>6. Past' /\ InOrder'
    BY <1>1, <2>1 DEF Heard, Past, InOrder
  <2>7. WhileSubscribed'
    <3>1. \A i \in Id : leftAt'[i] \in {leftAt[i], notified}
      BY <2>1
    <3>2. QED
      BY <2>1, <3>1 DEF Heard, Past, WhileSubscribed
  <2>8. QED
    BY <1>9, <2>3, <2>4, <2>5, <2>6, <2>7 DEF Heard
<1>12. CASE RunDeliver(h)
  <2> DEFINE old == delivered[h.id]
             new == delivered'[h.id]
  <2>1. /\ UNCHANGED <<subs, joinedAt, leftAt>> /\ h.do = "deliver"
        /\ new = Append(old, h.msg)
        /\ \A i \in Id \ {h.id} : delivered'[i] = delivered[i]
    BY <1>4, <1>12 DEF RunDeliver, Inv1, BusTypeOK
  <2>2. old \in Seq(1..MaxNotify) /\ h.msg \in 1..MaxNotify
    BY <1>2, <1>4, <2>1, TickFields DEF Inv1, BusTypeOK
  <2>3. /\ joinedAt[h.id] < h.msg /\ h.msg <= leftAt[h.id] /\ h.msg <= notified
        /\ \A n \in DOMAIN old : old[n] < h.msg
    BY <1>0, <1>2, <2>1 DEF Heard, Coming
  <2> HIDE DEF old, new
  <2>4. /\ Len(old) \in Nat
        /\ \A n \in DOMAIN new : \/ n \in DOMAIN old /\ new[n] = old[n] /\ n \in Nat /\ n <= Len(old)
                                 \/ n = Len(old) + 1 /\ new[n] = h.msg
    BY <2>1, <2>2
  <2>5. Times'
    BY <1>1, <2>1 DEF Heard, Times
  <2>6. Fresh'
    <3>1. ~Queued("insert", h.id)
      BY <1>0, <1>2, <2>1 DEF Queued, Inv1, Queues, InsertFirst
    <3>2. ASSUME NEW i \in Id, i \notin Issued' \/ Queued("insert", i)'
          PROVE  i # h.id /\ (i \notin Issued \/ Queued("insert", i))
      BY <1>1, <1>5, <1>8, <3>1, <3>2 DEF Issued
    <3>3. QED
      BY <2>1, <3>2 DEF Heard, Fresh
  <2>7. Coming'
    <3> SUFFICES ASSUME NEW k \in DOMAIN ticks', ticks'[k].do = "deliver"
                 PROVE  /\ joinedAt[ticks'[k].id] < ticks'[k].msg /\ ticks'[k].msg <= leftAt[ticks'[k].id]
                        /\ ticks'[k].msg <= notified
                        /\ \A n \in DOMAIN delivered'[ticks'[k].id] :
                             delivered'[ticks'[k].id][n] < ticks'[k].msg
      BY <1>1, <2>1 DEF Coming
    <3>1. /\ k + 1 \in DOMAIN ticks /\ ticks'[k] = ticks[k + 1] /\ ticks'[k].id \in Id
          /\ 1 < k + 1
      BY <1>2, <1>7
    <3>2. /\ joinedAt[ticks'[k].id] < ticks'[k].msg /\ ticks'[k].msg <= leftAt[ticks'[k].id]
          /\ ticks'[k].msg <= notified
          /\ \A n \in DOMAIN delivered[ticks'[k].id] : delivered[ticks'[k].id][n] < ticks'[k].msg
      BY <3>1 DEF Heard, Coming
    <3>3. CASE ticks'[k].id # h.id
      BY <2>1, <3>1, <3>2, <3>3
    <3>4. CASE ticks'[k].id = h.id
      <4>1. h.msg < ticks'[k].msg
        BY <1>0, <1>2, <2>1, <3>1, <3>4 DEF Heard, InTurn
      <4>2. QED
        BY <2>4, <3>2, <3>4, <4>1 DEF old, new
    <3>5. QED
      BY <3>3, <3>4
  <2>8. Past'
    <3>1. \A n \in DOMAIN new : new[n] <= notified
      BY <1>4, <2>3, <2>4 DEF Heard, Past, old
    <3>2. QED
      BY <1>1, <2>1, <3>1 DEF Heard, Past, new
  <2>9. InOrder'
    <3>1. ASSUME NEW j \in DOMAIN new, NEW k \in DOMAIN new, j < k
          PROVE  new[j] < new[k]
      <4>1. CASE k \in DOMAIN old /\ new[k] = old[k] /\ k \in Nat /\ k <= Len(old)
        <5>1. j \in DOMAIN old /\ new[j] = old[j]
          BY <2>4, <3>1, <4>1
        <5>2. QED
          BY <1>4, <3>1, <4>1, <5>1 DEF Heard, InOrder, old
      <4>2. CASE k = Len(old) + 1 /\ new[k] = h.msg
        BY <2>3, <2>4, <3>1, <4>2
      <4>3. QED
        BY <2>4, <4>1, <4>2
    <3>2. QED
      BY <2>1, <3>1 DEF Heard, InOrder, new
  <2>10. WhileSubscribed'
    <3>1. \A n \in DOMAIN new : new[n] > joinedAt[h.id] /\ new[n] <= leftAt[h.id]
      BY <1>4, <2>3, <2>4 DEF Heard, WhileSubscribed, old
    <3>2. QED
      BY <2>1, <3>1 DEF Heard, WhileSubscribed, new
  <2>11. QED
    BY <1>9, <2>5, <2>6, <2>7, <2>8, <2>9, <2>10 DEF Heard
<1>13. QED
  BY <1>3, <1>10, <1>11, <1>12

LEMMA HeardStep == Inv1 /\ Heard /\ BusNext => Heard'
BY HeardAfterSubscribe, HeardAfterUnsubscribe, HeardAfterNotify, HeardAfterClear,
   HeardAfterTick DEF BusNext

BInv == Inv1 /\ Heard

LEMMA BInvInit == BusInit => BInv
BY Inv1Init, HeardInit DEF BInv

LEMMA BInvStep == BInv /\ [BusNext]_busVars => BInv'
<1>1. ASSUME BInv, BusNext PROVE BInv'
  BY <1>1, Inv1Step, HeardStep DEF BInv
<1>2. ASSUME BInv, UNCHANGED busVars PROVE BInv'
  <2>1. Inv1'
    BY <1>2 DEF BInv, busVars, seenVars, Inv1, BusTypeOK, FiniteSubs, Queues, Fits,
                InsertFirst, Erased, Queued, Issued
  <2>2. Heard'
    BY <1>2 DEF BInv, busVars, seenVars, Heard, Times, Fresh, Coming, InTurn, Past, InOrder,
                WhileSubscribed, Queued, Issued
  <2>3. QED
    BY <2>1, <2>2 DEF BInv
<1>3. QED
  BY <1>1, <1>2

(* EventBus alone: an observer is called once per message and in order,    *)
(* only for what was raised while it was subscribed, and an id given back  *)
(* never returns, for any topics, ids and number of messages.              *)
THEOREM BusHolds == BusSpec => [](BusTypeOK /\ InOrder /\ WhileSubscribed /\ LeftForGood)
<1>1. BInv => BusTypeOK /\ InOrder /\ WhileSubscribed /\ LeftForGood
  BY Inv1Gone DEF BInv, Inv1, Heard
<1>2. QED
  BY <1>1, BInvInit, BInvStep, PTL DEF BusSpec

-----------------------------------------------------------------------------
(* RedisBus is an EventBus: the messages that arrive are what is raised.   *)

LEMMA RedisInitIsBusInit == RedisInit => BusInit
BY DEF RedisInit

LEMMA RedisStepIsBusStep == [RedisNext]_redisBusVars => [BusNext]_busVars
<1>1. ASSUME RedisNext PROVE [BusNext]_busVars
  BY <1>1 DEF RedisNext, RSubscribe, RUnsubscribe, RClear, Arrive, ListenerFails, Retry, RRunTick, BusNext
<1>2. QED
  BY <1>1 DEF redisBusVars

(* The bus fed by Redis listeners that fail and are replaced is still an   *)
(* EventBus to its observers.                                              *)
THEOREM RedisImplementsBus == RedisSpec => BusSpec
BY RedisInitIsBusInit, RedisStepIsBusStep, PTL DEF RedisSpec, BusSpec

(* ... so its observers hear each message once and in order, *)
THEOREM InOrderHolds == RedisSpec => []InOrder
BY RedisImplementsBus, BusHolds, PTL

(* ... only what was raised while they were subscribed, *)
THEOREM WhileSubscribedHolds == RedisSpec => []WhileSubscribed
BY RedisImplementsBus, BusHolds, PTL

(* ... and an id given back never returns. *)
THEOREM LeftForGoodHolds == RedisSpec => []LeftForGood
BY RedisImplementsBus, BusHolds, PTL

-----------------------------------------------------------------------------
(* The listeners. *)

(* No more retries are pending for a topic than there were failures, and   *)
(* one is for a topic whose listener failed.                               *)
Listeners ==
  /\ listeners \in [Topic -> {"none", "live", "failed"}]
  /\ timers \in [Topic -> Nat] /\ fails \in 0..MaxFail
  /\ \A t \in Topic : timers[t] <= fails
  /\ crashed \in BOOLEAN /\ patient \in BOOLEAN
  /\ FailedIsRetried

LEMMA ListenersInit == RedisInit => Listeners
<1>1. SUFFICES ASSUME RedisInit PROVE Listeners
  OBVIOUS
<1>2. crashed \in BOOLEAN /\ patient \in BOOLEAN
  BY <1>1 DEF RedisInit
<1>3. /\ listeners \in [Topic -> {"none", "live", "failed"}]
      /\ timers \in [Topic -> Nat] /\ fails \in 0..MaxFail
      /\ \A t \in Topic : timers[t] <= fails
      /\ FailedIsRetried
  BY <1>1, RedisAssumption DEF RedisInit, FailedIsRetried
<1>4. QED
  BY <1>2, <1>3, Zenon DEF Listeners

LEMMA ListenersStep == BInv /\ Listeners /\ [RedisNext]_redisBusVars => Listeners'
<1> SUFFICES ASSUME BInv, Listeners, [RedisNext]_redisBusVars PROVE Listeners'
  OBVIOUS
<1>1. ASSUME NEW t \in Topic, NEW i \in Id, RSubscribe(t, i) PROVE Listeners'
  <2>1. /\ UNCHANGED <<timers, fails, crashed, patient>>
        /\ listeners' = listeners \/ listeners' = [listeners EXCEPT ![t] = "live"]
    BY <1>1 DEF RSubscribe, Listen
  <2>2. QED
    BY <2>1 DEF Listeners, FailedIsRetried
<1>2. ASSUME NEW i \in Id, RUnsubscribe(i) PROVE Listeners'
  BY <1>2 DEF RUnsubscribe, redisVars, Listeners, FailedIsRetried
<1>3. ASSUME NEW t \in Topic, Arrive(t) PROVE Listeners'
  BY <1>3 DEF Arrive, redisVars, Listeners, FailedIsRetried
<1>4. ASSUME NEW t \in Topic, ListenerFails(t) PROVE Listeners'
  BY <1>4, RedisAssumption DEF ListenerFails, Listeners, FailedIsRetried
<1>5. ASSUME NEW t \in Topic, Retry(t) PROVE Listeners'
  <2>1. /\ UNCHANGED <<fails, crashed, patient>> /\ timers[t] > 0
        /\ listeners' = [listeners EXCEPT ![t] = "live"]
        /\ timers' = [timers EXCEPT ![t] = @ - 1]
    BY <1>5 DEF Retry, Listen
  <2>2. QED
    BY <2>1, RedisAssumption DEF Listeners, FailedIsRetried
<1>6. CASE RClear
  BY <1>6 DEF RClear, Listeners, FailedIsRetried
<1>7. CASE RRunTick
  <2>1. Head(ticks).topic \in Topic
    BY <1>7, HeadTick, TickFields DEF RRunTick, RunTick, BInv, Inv1
  <2>2. /\ UNCHANGED <<timers, fails, patient>> /\ crashed' \in BOOLEAN
        /\ \/ listeners' = listeners
           \/ listeners' = [listeners EXCEPT ![Head(ticks).topic] = "none"]
    BY <1>7 DEF RRunTick, EndListener, Listeners
  <2>3. QED
    BY <2>1, <2>2 DEF Listeners, FailedIsRetried
<1>8. CASE UNCHANGED redisBusVars
  BY <1>8 DEF redisBusVars, redisVars, Listeners, FailedIsRetried
<1>9. QED
  BY <1>1, <1>2, <1>3, <1>4, <1>5, <1>6, <1>7, <1>8 DEF RedisNext

(* The queue, the subscriptions and the listeners keep their types, for    *)
(* any number of failures.                                                 *)
THEOREM RedisTypesHold == RedisSpec => []RedisTypeOK
<1>1. BInv /\ Listeners => RedisTypeOK
  BY RedisAssumption DEF BInv, Inv1, Listeners, RedisTypeOK
<1>2. RedisInit => BInv /\ Listeners
  BY BInvInit, RedisInitIsBusInit, ListenersInit
<1>3. (BInv /\ Listeners) /\ [RedisNext]_redisBusVars => (BInv /\ Listeners)'
  BY BInvStep, RedisStepIsBusStep, ListenersStep
<1>4. QED
  BY <1>1, <1>2, <1>3, PTL DEF RedisSpec

(* A listener that failed has its retry pending. *)
THEOREM FailedIsRetriedHolds == RedisSpec => []FailedIsRetried
<1>1. RedisInit => BInv /\ Listeners
  BY BInvInit, RedisInitIsBusInit, ListenersInit
<1>2. (BInv /\ Listeners) /\ [RedisNext]_redisBusVars => (BInv /\ Listeners)'
  BY BInvStep, RedisStepIsBusStep, ListenersStep
<1>3. Listeners => FailedIsRetried
  BY DEF Listeners
<1>4. QED
  BY <1>1, <1>2, <1>3, PTL DEF RedisSpec

-----------------------------------------------------------------------------
(* Patient callers. *)

(* Whatever is subscribed to a topic, or queued to change that, keeps its  *)
(* listener.                                                               *)
Wanted ==
  /\ \A t \in Topic : subs[t] # {} => listeners[t] # "none"
  /\ \A k \in DOMAIN ticks : ticks[k].do # "deliver" => listeners[ticks[k].topic] # "none"

(* A topic's insertions are queued before its erasures. *)
InsertsFirst ==
  \A j, k \in DOMAIN ticks :
    ticks[j].do = "insert" /\ ticks[k].do = "erase" /\ ticks[j].topic = ticks[k].topic => j < k

(* An id is subscribed, or about to be, until its erasure runs. *)
StillIn ==
  \A i \in Issued : i \notin left \/ Queued("erase", i)
    => i \in subs[topicOf[i]] \/ Queued("insert", i)

Served == ~crashed /\ Wanted /\ InsertsFirst /\ StillIn

LEMMA ServedInit == RedisInit => Served
BY DEF RedisInit, BusInit, Served, Wanted, InsertsFirst, StillIn, Issued

LEMMA ServedAfterSubscribe ==
  ASSUME BInv, Listeners, Served, patient, NEW t \in Topic, NEW i \in Id, RSubscribe(t, i)
  PROVE  Served'
<1> DEFINE new == InsertTick(t, i)
<1>1. /\ i \notin Issued /\ UNCHANGED <<subs, left, crashed>>
      /\ topicOf' = [topicOf EXCEPT ![i] = t] /\ ticks' = Append(ticks, new)
      /\ ~EraseQueued(t)
  BY DEF RSubscribe, Subscribe
<1>2. new.do = "insert" /\ new.id = i /\ new.topic = t /\ new \in TickSet
  BY TickFields DEF InsertTick
<1> HIDE DEF new
<1>3. /\ Len(ticks) + 1 \in DOMAIN ticks' /\ ticks'[Len(ticks) + 1] = new
      /\ \A k \in DOMAIN ticks : k \in DOMAIN ticks' /\ ticks'[k] = ticks[k]
      /\ \A k \in DOMAIN ticks' : k \in DOMAIN ticks \/ k = Len(ticks) + 1
  BY <1>1, <1>2, AddOne DEF BInv, Inv1
<1>4. listeners'[t] # "none" /\ \A u \in Topic : listeners[u] # "none" => listeners'[u] # "none"
  BY DEF RSubscribe, Listen, Listeners
<1>5. Wanted'
  <2>1. \A u \in Topic : subs'[u] # {} => listeners'[u] # "none"
    BY <1>1, <1>4 DEF Served, Wanted
  <2>2. \A k \in DOMAIN ticks : ticks[k].topic \in Topic
    BY TickFields DEF BInv, Inv1, BusTypeOK
  <2>3. \A k \in DOMAIN ticks' : ticks'[k].do # "deliver" => listeners'[ticks'[k].topic] # "none"
    BY <1>2, <1>3, <1>4, <2>2 DEF Served, Wanted
  <2>4. QED
    BY <2>1, <2>3 DEF Wanted
<1>6. InsertsFirst'
  BY <1>1, <1>2, <1>3 DEF Served, InsertsFirst, EraseQueued
<1>7. StillIn'
  <2>1. Queued("insert", i)'
    BY <1>2, <1>3 DEF Queued
  <2>2. ASSUME NEW j \in Issued', j # i, j \notin left' \/ Queued("erase", j)'
        PROVE  j \in subs'[topicOf'[j]] \/ Queued("insert", j)'
    <3>1. j \in Issued /\ topicOf'[j] = topicOf[j]
      BY <1>1, <2>2 DEF Issued, BInv, Inv1, BusTypeOK
    <3>2. Queued("erase", j)' => Queued("erase", j)
      BY <1>2, <1>3 DEF Queued
    <3>3. Queued("insert", j) => Queued("insert", j)'
      BY <1>3 DEF Queued
    <3>4. QED
      BY <1>1, <2>2, <3>1, <3>2, <3>3 DEF Served, StillIn
  <2>3. QED
    BY <2>1, <2>2 DEF StillIn
<1>8. QED
  BY <1>1, <1>5, <1>6, <1>7 DEF Served

LEMMA ServedAfterUnsubscribe ==
  ASSUME BInv, Served, NEW i \in Id, RUnsubscribe(i)
  PROVE  Served'
<1> DEFINE new == EraseTick(topicOf[i], i)
<1>1. /\ i \in Issued /\ i \notin left /\ left' = left \cup {i}
      /\ UNCHANGED <<subs, topicOf, crashed, listeners>> /\ ticks' = Append(ticks, new)
  BY DEF RUnsubscribe, Unsubscribe, redisVars
<1>2. topicOf[i] \in Topic
  BY <1>1 DEF Issued, BInv, Inv1, BusTypeOK
<1>3. new.do = "erase" /\ new.id = i /\ new.topic = topicOf[i] /\ new \in TickSet
  BY <1>2, TickFields DEF EraseTick
<1> HIDE DEF new
<1>4. /\ Len(ticks) + 1 \in DOMAIN ticks' /\ ticks'[Len(ticks) + 1] = new
      /\ \A k \in DOMAIN ticks : /\ k \in DOMAIN ticks' /\ ticks'[k] = ticks[k]
                                 /\ k \in Nat /\ k < Len(ticks) + 1
      /\ \A k \in DOMAIN ticks' : k \in DOMAIN ticks \/ k = Len(ticks) + 1
  BY <1>1, <1>3, AddOne DEF BInv, Inv1
<1>5. listeners[topicOf[i]] # "none"
  <2>1. i \in subs[topicOf[i]] \/ Queued("insert", i)
    BY <1>1 DEF Served, StillIn
  <2>2. CASE i \in subs[topicOf[i]]
    BY <1>2, <2>2 DEF Served, Wanted
  <2>3. CASE Queued("insert", i)
    <3>1. PICK k \in DOMAIN ticks : ticks[k].do = "insert" /\ ticks[k].id = i
      BY <2>3 DEF Queued
    <3>2. ticks[k].topic = topicOf[i]
      BY <3>1 DEF BInv, Inv1, Queues, Fits
    <3>3. QED
      BY <3>1, <3>2 DEF Served, Wanted
  <2>4. QED
    BY <2>1, <2>2, <2>3
<1>6. Wanted'
  BY <1>1, <1>3, <1>4, <1>5 DEF Served, Wanted
<1>7. InsertsFirst'
  BY <1>3, <1>4 DEF Served, InsertsFirst
<1>8. StillIn'
  <2>1. ASSUME NEW j \in Issued, j \notin left' \/ Queued("erase", j)'
        PROVE  j \notin left \/ Queued("erase", j)
    BY <1>1, <1>3, <1>4, <2>1 DEF Queued
  <2>2. \A j \in Issued : Queued("insert", j) => Queued("insert", j)'
    BY <1>4 DEF Queued
  <2>3. QED
    BY <1>1, <2>1, <2>2 DEF Served, StillIn, Issued
<1>9. QED
  BY <1>1, <1>6, <1>7, <1>8 DEF Served

LEMMA ServedAfterArrive ==
  ASSUME BInv, Served, NEW t \in Topic, Arrive(t)
  PROVE  Served'
<1>1. /\ notified + 1 \in 1..MaxNotify
      /\ UNCHANGED <<subs, topicOf, left, crashed, listeners>>
  BY NotifyAssumption DEF BInv, Inv1, BusTypeOK, Notify, Arrive, redisVars
<1>2. PICK d \in Deliveries(t, notified + 1) : ticks' = ticks \o d
  BY DEF Arrive, Notify
<1>3. d \in Seq(TickSet) /\ \A k \in DOMAIN d : d[k].do = "deliver"
  BY <1>1, <1>2, OneDeliveryEach DEF BInv, Inv1, FiniteSubs
<1>4. /\ \A k \in DOMAIN ticks : k \in DOMAIN ticks' /\ ticks'[k] = ticks[k]
      /\ \A k \in DOMAIN ticks' : \/ k \in DOMAIN ticks /\ ticks'[k] = ticks[k]
                                  \/ ticks'[k].do = "deliver"
  BY <1>2, <1>3, AddMany DEF BInv, Inv1
<1>5. Wanted' /\ InsertsFirst'
  BY <1>1, <1>4 DEF Served, Wanted, InsertsFirst
<1>6. StillIn'
  <2>1. \A j \in Issued : /\ Queued("insert", j) => Queued("insert", j)'
                          /\ Queued("erase", j)' => Queued("erase", j)
    BY <1>4 DEF Queued
  <2>2. QED
    BY <1>1, <2>1 DEF Served, StillIn, Issued
<1>7. QED
  BY <1>1, <1>5, <1>6 DEF Served

(* The last one out of a topic leaves nothing queued for it. *)
LEMMA ServedAfterTick ==
  ASSUME BInv, Listeners, Served, RRunTick
  PROVE  Served'
<1>0. PICK h : h = ticks[1]
  OBVIOUS
<1>1. /\ ticks # <<>> /\ ticks' = Tail(ticks) /\ UNCHANGED <<topicOf, left>> /\ RunTick
  BY DEF RRunTick, RunTick
<1>2. /\ 1 \in DOMAIN ticks /\ h \in TickSet /\ Head(ticks) = h
      /\ \A k \in DOMAIN ticks' : k \in Nat /\ k > 0 /\ k + 1 \in DOMAIN ticks /\ ticks'[k] = ticks[k + 1]
      /\ \A k \in DOMAIN ticks : k = 1 \/ (k - 1 \in DOMAIN ticks' /\ ticks[k] = ticks'[k - 1])
  BY <1>0, <1>1, HeadTail, HeadTick DEF BInv, Inv1
<1>3. (RunInsert(h) \/ RunErase(h) \/ RunDeliver(h)) /\ EndListener(h)
  BY <1>2 DEF RRunTick, RunTick
<1>4. h.topic \in Topic /\ h.id \in Id /\ topicOf[h.id] = h.topic
  BY <1>0, <1>2, TickFields DEF BInv, Inv1, Queues, Fits
<1>5. InsertsFirst'
  <2>1. ASSUME NEW j \in DOMAIN ticks', NEW k \in DOMAIN ticks',
               ticks'[j].do = "insert", ticks'[k].do = "erase", ticks'[j].topic = ticks'[k].topic
        PROVE  j < k
    <3>1. j + 1 < k + 1
      BY <1>2, <2>1 DEF Served, InsertsFirst
    <3>2. QED
      BY <1>2, <3>1
  <2>2. QED
    BY <2>1 DEF InsertsFirst
<1>6. \A j \in Issued : Queued("erase", j)' => Queued("erase", j)
  BY <1>2 DEF Queued
<1>7. CASE RunInsert(h)
  <2>1. /\ h.do = "insert" /\ UNCHANGED <<listeners, crashed>>
        /\ subs' = [subs EXCEPT ![h.topic] = @ \cup {h.id}]
    BY <1>3, <1>7 DEF RunInsert, EndListener
  <2>2. listeners[h.topic] # "none"
    BY <1>0, <1>2, <2>1 DEF Served, Wanted
  <2>3. Wanted'
    BY <1>2, <1>4, <2>1, <2>2 DEF Served, Wanted, BInv, Inv1, BusTypeOK
  <2>4. StillIn'
    <3>1. h.id \in subs'[topicOf[h.id]]
      BY <1>4, <2>1 DEF BInv, Inv1, BusTypeOK
    <3>2. \A j \in Issued \ {h.id} : Queued("insert", j) => Queued("insert", j)'
      BY <1>0, <1>2 DEF Queued
    <3>3. \A j \in Issued : j \in subs[topicOf[j]] => j \in subs'[topicOf[j]]
      BY <1>4, <2>1 DEF BInv, Inv1, BusTypeOK, Issued
    <3>4. QED
      BY <1>1, <1>6, <3>1, <3>2, <3>3 DEF Served, StillIn, Issued
  <2>5. QED
    BY <1>5, <2>1, <2>3, <2>4 DEF Served
<1>8. CASE RunErase(h)
  <2>1. /\ h.do = "erase" /\ subs' = [subs EXCEPT ![h.topic] = @ \ {h.id}]
    BY <1>8 DEF RunErase
  <2>2. listeners[h.topic] # "none"
    BY <1>0, <1>2, <2>1 DEF Served, Wanted
  <2>3. ~crashed'
    BY <1>3, <2>2 DEF EndListener, Served
  <2>4. h.id \in left /\ \A k \in DOMAIN ticks' : ticks'[k].do = "erase" => ticks'[k].id # h.id
    <3>1. h.id \in left
      BY <1>0, <1>2, <2>1 DEF BInv, Inv1, Queues, Erased
    <3>2. ASSUME NEW k \in DOMAIN ticks', ticks'[k].do = "erase", ticks'[k].id = h.id
          PROVE  FALSE
      <4>1. k + 1 = 1
        BY <1>0, <1>2, <2>1, <3>2 DEF BInv, Inv1, Queues, Erased
      <4>2. QED
        BY <1>2, <4>1
    <3>3. QED
      BY <3>1, <3>2
  <2>5. \A k \in DOMAIN ticks' : ticks'[k].do = "insert" => ticks'[k].topic # h.topic
    <3>1. ASSUME NEW k \in DOMAIN ticks', ticks'[k].do = "insert", ticks'[k].topic = h.topic
          PROVE  FALSE
      <4>1. k + 1 < 1
        BY <1>0, <1>2, <2>1, <3>1 DEF Served, InsertsFirst
      <4>2. QED
        BY <1>2, <4>1
    <3>2. QED
      BY <3>1
  <2>6. StillIn'
    <3>1. ASSUME NEW j \in Issued', j \notin left' \/ Queued("erase", j)'
          PROVE  j \in subs'[topicOf'[j]] \/ Queued("insert", j)'
      <4>1. j \in Issued /\ topicOf'[j] = topicOf[j] /\ j # h.id
        BY <1>1, <2>4, <3>1 DEF Issued, Queued
      <4>2. j \in subs[topicOf[j]] \/ Queued("insert", j)
        BY <1>1, <1>6, <3>1, <4>1 DEF Served, StillIn
      <4>3. j \in subs[topicOf[j]] => j \in subs'[topicOf[j]]
        BY <1>4, <2>1, <4>1 DEF BInv, Inv1, BusTypeOK, Issued
      <4>4. Queued("insert", j) => Queued("insert", j)'
        BY <1>0, <1>2, <4>1 DEF Queued
      <4>5. QED
        BY <4>1, <4>2, <4>3, <4>4
    <3>2. QED
      BY <3>1 DEF StillIn
  <2>7. Wanted'
    <3>1. CASE subs[h.topic] \subseteq {h.id}
      <4>1. subs'[h.topic] = {} /\ listeners' = [listeners EXCEPT ![h.topic] = "none"]
        BY <1>3, <1>4, <2>1, <3>1 DEF EndListener, BInv, Inv1, BusTypeOK
      <4>2. \A k \in DOMAIN ticks' : ticks'[k].do = "erase" => ticks'[k].topic # h.topic
        <5>1. ASSUME NEW k \in DOMAIN ticks', ticks'[k].do = "erase", ticks'[k].topic = h.topic
              PROVE  FALSE
          <6>1. PICK j : j = ticks'[k].id
            OBVIOUS
          <6>2. /\ j \in Id /\ j # h.id /\ topicOf[j] = h.topic /\ j \in Issued
                /\ Queued("erase", j)'
            <7>1. topicOf[j] = h.topic /\ ticks[k + 1].id \in Id
              BY <1>2, <5>1, <6>1, TickFields DEF BInv, Inv1, BusTypeOK, Queues, Fits
            <7>2. j \in Issued
              BY <1>2, <1>4, <6>1, <7>1, TopicAssumption DEF Issued
            <7>3. QED
              BY <1>2, <2>4, <5>1, <6>1, <7>1, <7>2 DEF Queued
          <6>3. j \in subs[h.topic] \/ Queued("insert", j)
            BY <1>6, <6>2 DEF Served, StillIn
          <6>4. PICK n \in DOMAIN ticks : ticks[n].do = "insert" /\ ticks[n].id = j
            BY <3>1, <6>2, <6>3 DEF Queued
          <6>5. ticks[n].topic = h.topic
            BY <6>2, <6>4 DEF BInv, Inv1, Queues, Fits
          <6>6. n - 1 \in DOMAIN ticks' /\ ticks'[n - 1] = ticks[n]
            BY <1>0, <1>2, <2>1, <6>4
          <6>7. QED
            BY <2>5, <6>4, <6>5, <6>6
        <5>2. QED
          BY <5>1
      <4>3. \A u \in Topic \ {h.topic} : subs'[u] = subs[u] /\ listeners'[u] = listeners[u]
        BY <1>4, <2>1, <4>1 DEF BInv, Inv1, BusTypeOK, Listeners
      <4>4. \A u \in Topic : subs'[u] # {} => listeners'[u] # "none"
        BY <4>1, <4>3 DEF Served, Wanted
      <4>5. ASSUME NEW k \in DOMAIN ticks', ticks'[k].do # "deliver"
            PROVE  listeners'[ticks'[k].topic] # "none"
        <5>1. /\ k + 1 \in DOMAIN ticks /\ ticks'[k] = ticks[k + 1]
              /\ ticks'[k].topic \in Topic /\ ticks'[k].do \in {"insert", "erase"}
          BY <1>2, <4>5, TickFields DEF BInv, Inv1, BusTypeOK
        <5>2. ticks'[k].topic # h.topic
          BY <2>5, <4>2, <5>1
        <5>3. QED
          BY <4>3, <4>5, <5>1, <5>2 DEF Served, Wanted
      <4>6. QED
        BY <4>4, <4>5 DEF Wanted
    <3>2. CASE ~(subs[h.topic] \subseteq {h.id})
      <4>1. listeners' = listeners /\ \A u \in Topic : subs'[u] \subseteq subs[u]
        BY <1>3, <1>4, <2>1, <3>2 DEF EndListener, BInv, Inv1, BusTypeOK
      <4>2. QED
        BY <1>2, <4>1 DEF Served, Wanted
    <3>3. QED
      BY <3>1, <3>2
  <2>8. QED
    BY <1>5, <2>3, <2>6, <2>7 DEF Served
<1>9. CASE RunDeliver(h)
  <2>1. h.do = "deliver" /\ UNCHANGED <<subs, listeners, crashed>>
    BY <1>3, <1>9 DEF RunDeliver, EndListener
  <2>2. Wanted'
    BY <1>2, <2>1 DEF Served, Wanted
  <2>3. \A j \in Issued : Queued("insert", j) => Queued("insert", j)'
    BY <1>0, <1>2, <2>1 DEF Queued
  <2>4. StillIn'
    BY <1>1, <1>6, <2>1, <2>3 DEF Served, StillIn, Issued
  <2>5. QED
    BY <1>5, <2>1, <2>2, <2>4 DEF Served
<1>10. QED
  BY <1>3, <1>7, <1>8, <1>9

LEMMA ServedStep ==
  ASSUME BInv, Listeners, patient => Served, [RedisNext]_redisBusVars
  PROVE  (patient => Served)'
<1>1. patient' = patient
  BY DEF RedisNext, redisBusVars, RSubscribe, RUnsubscribe, RClear, Arrive, ListenerFails, Retry, RRunTick
<1> SUFFICES ASSUME patient PROVE Served'
  BY <1>1
<1>2. ASSUME NEW t \in Topic, ListenerFails(t) \/ Retry(t) PROVE Served'
  <2>1. UNCHANGED busVars /\ UNCHANGED crashed
    BY <1>2 DEF ListenerFails, Retry
  <2>2. \A u \in Topic : listeners[u] # "none" => listeners'[u] # "none"
    BY <1>2 DEF ListenerFails, Retry, Listen, Listeners
  <2>3. \A k \in DOMAIN ticks : ticks[k].topic \in Topic
    BY TickFields DEF BInv, Inv1, BusTypeOK
  <2>4. Wanted'
    BY <2>1, <2>2, <2>3 DEF Served, Wanted, busVars
  <2>5. InsertsFirst' /\ StillIn'
    BY <2>1 DEF Served, InsertsFirst, StillIn, Issued, Queued, busVars
  <2>6. QED
    BY <2>1, <2>4, <2>5 DEF Served
<1>3. ASSUME UNCHANGED redisBusVars PROVE Served'
  BY <1>3 DEF redisBusVars, busVars, redisVars, Served, Wanted, InsertsFirst, StillIn, Issued, Queued
<1>4. ~RClear
  BY DEF RClear
<1>5. QED
  BY <1>2, <1>3, <1>4, ServedAfterSubscribe, ServedAfterUnsubscribe, ServedAfterArrive,
     ServedAfterTick DEF RedisNext

(* If nobody calls clear() or subscribes to a topic behind a queued        *)
(* unsubscription of it, every topic with subscriptions has its Redis      *)
(* listener and unsubscribe() never misses one.                            *)
THEOREM PatientCallersAreServedHolds == RedisSpec => []PatientCallersAreServed
<1> DEFINE IInv == BInv /\ Listeners /\ (patient => Served)
<1>1. RedisInit => IInv
  BY BInvInit, RedisInitIsBusInit, ListenersInit, ServedInit
<1>2. IInv /\ [RedisNext]_redisBusVars => IInv'
  BY BInvStep, RedisStepIsBusStep, ListenersStep, ServedStep
<1>3. IInv => PatientCallersAreServed
  BY DEF PatientCallersAreServed, SubscribersHaveListener, Served, Wanted
<1>4. QED
  BY <1>1, <1>2, <1>3, PTL DEF RedisSpec
=============================================================================
