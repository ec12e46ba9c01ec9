----------------------------- MODULE SSEProofs -----------------------------
(***************************************************************************)
(* Proofs about SSEChat and BrowserChat, for any sets of connections and   *)
(* of pages and any number of messages.  The lemmas about the bus come     *)
(* from BusProofs; its Redis listeners play no part here.                  *)
(***************************************************************************)
EXTENDS BrowserChat, BusProofs

Kinds ==
  /\ con \in [Id -> {"none", "flushing", "lost", "open", "closed"}]
  /\ net \in [Id -> {"up", "broken"}]
  /\ io \in [Id -> Nat]
  /\ closing \in [Id -> BOOLEAN]
  /\ written \in [Id -> Seq(1..MaxNotify)]
  /\ closes \in [Id -> 0..2]

(* A connection that subscribed is open until it has unsubscribed, and     *)
(* that happened in the one call of onClose.                               *)
Stages ==
  \A c \in Id :
    /\ c \in Issued => /\ con[c] \in {"open", "closed"} /\ ~closing[c]
                       /\ con[c] = "open" => c \notin left /\ closes[c] = 0
                       /\ con[c] = "closed" => c \in left /\ closes[c] = 1
    /\ con[c] # "open" => io[c] = 0
    /\ con[c] \in {"none", "flushing"} => ~closing[c] /\ closes[c] = 0

(* What was written is what the bus delivered, as long as the connection   *)
(* was open.                                                               *)
Given ==
  \A c \in Id :
    /\ Len(written[c]) <= Len(delivered[c])
    /\ \A n \in DOMAIN written[c] : written[c][n] = delivered[c][n]
    /\ con[c] = "open" => written[c] = delivered[c]
    /\ io[c] <= Len(written[c])

(* All subscriptions are of the one topic that messages are raised for; so *)
(* what was delivered and what is queued has no gaps.                      *)
NoGap ==
  /\ \A c \in Id : topicOf[c] \in {Chat, None}
  /\ \A c \in Id : \A n \in DOMAIN delivered[c] : delivered[c][n] = joinedAt[c] + n
  /\ \A c \in Id : \A k \in DOMAIN ticks : \A msg \in Nat :
       (ticks[k].do = "deliver" /\ ticks[k].id = c
         /\ msg > joinedAt[c] + Len(delivered[c]) /\ msg < ticks[k].msg)
         => Awaits(c, msg)
  /\ \A c \in subs[Chat] : \A msg \in 1..notified :
       msg > joinedAt[c] + Len(delivered[c]) => Awaits(c, msg)

-----------------------------------------------------------------------------
(* The bus below. *)

OneTopicNext ==
  \/ \E c \in Id : Subscribe(Chat, c) \/ Unsubscribe(c)
  \/ Notify(Chat)
  \/ RunTick

LEMMA CloseOnBus == ASSUME NEW c \in Id, Close(c) PROVE Unsubscribe(c) \/ UNCHANGED busVars
BY DEF Close, OnClose

LEMMA StepOnBus == Next => OneTopicNext \/ UNCHANGED busVars
BY CloseOnBus DEF Next, Handshake, FlushFails, Run, RunThrows, CloseTick, WriteDone, WriteFails,
                  Break, Post, BusTick, OneTopicNext

LEMMA StepIsBusStep == [Next]_vars => [BusNext]_busVars
<1>1. OneTopicNext => BusNext
  BY ChatAssumption DEF OneTopicNext, BusNext
<1>2. QED
  BY <1>1, StepOnBus DEF vars

(* Connections are observers of an EventBus like any others. *)
THEOREM ChatImplementsBus == Spec => BusSpec
<1>1. Init => BusInit
  BY DEF Init
<1>2. QED
  BY <1>1, StepIsBusStep, PTL DEF Spec, BusSpec

LEMMA TickShapes ==
  ASSUME NEW x \in TickSet
  PROVE  /\ x.do = "deliver" => x = DeliverTick(x.topic, x.id, x.msg)
         /\ x.do = "erase" => x = EraseTick(x.topic, x.id)
<1>1. CASE \E t \in Topic, i \in Id : x = InsertTick(t, i)
  BY <1>1 DEF InsertTick
<1>2. CASE \E t \in Topic, i \in Id : x = EraseTick(t, i)
  BY <1>2 DEF EraseTick
<1>3. CASE \E t \in Topic, i \in Id, n \in 1..MaxNotify : x = DeliverTick(t, i, n)
  BY <1>3 DEF DeliverTick
<1>4. QED
  BY <1>1, <1>2, <1>3 DEF TickSet

LEMMA OneMore ==
  ASSUME NEW S, NEW old \in Seq(S), NEW m \in S
  PROVE  LET new == Append(old, m)
         IN  /\ Len(new) = Len(old) + 1 /\ Len(old) \in Nat
             /\ \A n \in DOMAIN new : \/ n \in DOMAIN old /\ new[n] = old[n]
                                      \/ n = Len(old) + 1 /\ new[n] = m
<1> DEFINE new == Append(old, m)
<1>1. Len(new) = Len(old) + 1 /\ Len(old) \in Nat /\ DOMAIN new = 1..Len(old) + 1 /\ DOMAIN old = 1..Len(old)
  OBVIOUS
<1>2. \A n \in 1..Len(old) : new[n] = old[n]
  OBVIOUS
<1>3. new[Len(old) + 1] = m
  OBVIOUS
<1> HIDE DEF new
<1>4. \A n \in DOMAIN new : \/ n \in DOMAIN old /\ new[n] = old[n]
                            \/ n = Len(old) + 1 /\ new[n] = m
  BY <1>1, <1>2, <1>3
<1>5. QED
  BY <1>1, <1>4 DEF new

-----------------------------------------------------------------------------
(* Nothing is skipped. *)

(* Queueing something that is not a delivery changes nothing of it. *)
LEMMA NoGapAppend ==
  ASSUME BInv, NoGap, NEW x \in TickSet, x.do # "deliver", ticks' = Append(ticks, x),
         UNCHANGED <<subs, notified, delivered, joinedAt>>,
         \A c \in Id : topicOf'[c] \in {Chat, None}
  PROVE  NoGap'
<1>1. /\ ticks'[Len(ticks) + 1] = x
      /\ \A k \in DOMAIN ticks : k \in DOMAIN ticks' /\ ticks'[k] = ticks[k]
      /\ \A k \in DOMAIN ticks' : k \in DOMAIN ticks \/ k = Len(ticks) + 1
  BY AddOne DEF BInv, Inv1
<1>2. \A c, msg : Awaits(c, msg) => Awaits(c, msg)'
  BY <1>1 DEF Awaits, DeliverTick
<1>3. ASSUME NEW c \in Id, NEW k \in DOMAIN ticks', NEW msg \in Nat,
             ticks'[k].do = "deliver", ticks'[k].id = c,
             msg > joinedAt[c] + Len(delivered[c]), msg < ticks'[k].msg
      PROVE  Awaits(c, msg)'
  BY <1>1, <1>2, <1>3 DEF NoGap
<1>4. \A c \in subs'[Chat] : \A msg \in 1..notified' :
        msg > joinedAt'[c] + Len(delivered'[c]) => Awaits(c, msg)'
  BY <1>2 DEF NoGap
<1>5. \A c \in Id : \A n \in DOMAIN delivered'[c] : delivered'[c][n] = joinedAt'[c] + n
  BY DEF NoGap
<1>6. \A c \in Id : \A k \in DOMAIN ticks' : \A msg \in Nat :
        (ticks'[k].do = "deliver" /\ ticks'[k].id = c
          /\ msg > joinedAt'[c] + Len(delivered'[c]) /\ msg < ticks'[k].msg)
          => Awaits(c, msg)'
  <2> SUFFICES ASSUME NEW c \in Id, NEW k \in DOMAIN ticks', NEW msg \in Nat,
                      ticks'[k].do = "deliver", ticks'[k].id = c,
                      msg > joinedAt'[c] + Len(delivered'[c]), msg < ticks'[k].msg
               PROVE  Awaits(c, msg)'
    OBVIOUS
  <2>1. QED
    BY <1>3
<1>7. QED
  BY <1>4, <1>5, <1>6 DEF NoGap

LEMMA NoGapNotify ==
  ASSUME BInv, NoGap, Notify(Chat)
  PROVE  NoGap'
<1>1. /\ notified + 1 \in 1..MaxNotify /\ notified' = notified + 1 /\ notified \in Nat
      /\ UNCHANGED <<subs, topicOf, delivered, joinedAt>>
  BY NotifyAssumption DEF BInv, Inv1, BusTypeOK, Notify, seenVars
<1>2. PICK d \in Deliveries(Chat, notified + 1) : ticks' = ticks \o d
  BY DEF Notify
<1>3. /\ d \in Seq(TickSet)
      /\ \A k \in DOMAIN d : d[k].do = "deliver" /\ d[k].msg = notified + 1 /\ d[k].id \in subs[Chat]
      /\ \A c \in subs[Chat] : \E k \in DOMAIN d : d[k] = DeliverTick(Chat, c, notified + 1)
  BY <1>1, <1>2, ChatAssumption, OneDeliveryEach, NoneLeftOut DEF BInv, Inv1, FiniteSubs
<1>4. /\ \A k \in DOMAIN ticks : k \in DOMAIN ticks' /\ ticks'[k] = ticks[k]
      /\ \A k \in DOMAIN ticks' : \/ k \in DOMAIN ticks /\ ticks'[k] = ticks[k]
                                  \/ ticks'[k].msg = notified + 1 /\ ticks'[k].id \in subs[Chat]
      /\ \A k \in DOMAIN d : k + Len(ticks) \in DOMAIN ticks' /\ ticks'[k + Len(ticks)] = d[k]
  BY <1>2, <1>3, AddMany DEF BInv, Inv1
<1>5. \A c, msg : Awaits(c, msg) => Awaits(c, msg)'
  BY <1>4 DEF Awaits, DeliverTick
<1>6. \A c \in subs[Chat] : \A msg : msg = notified + 1 => Awaits(c, msg)'
  BY <1>3, <1>4 DEF Awaits
<1>7. \A c \in Id : joinedAt[c] \in Nat /\ Len(delivered[c]) \in Nat
  BY NotifyAssumption DEF BInv, Inv1, BusTypeOK
<1>8. subs[Chat] \subseteq Id
  BY ChatAssumption DEF BInv, Inv1, BusTypeOK
<1>9. ASSUME NEW c \in Id, NEW k \in DOMAIN ticks', NEW msg \in Nat,
             ticks'[k].do = "deliver", ticks'[k].id = c,
             msg > joinedAt[c] + Len(delivered[c]), msg < ticks'[k].msg
      PROVE  Awaits(c, msg)'
  <2>1. CASE k \in DOMAIN ticks /\ ticks'[k] = ticks[k]
    BY <1>5, <1>9, <2>1 DEF NoGap
  <2>2. CASE ticks'[k].msg = notified + 1 /\ c \in subs[Chat]
    <3>1. msg \in 1..notified
      BY <1>1, <1>7, <1>9, <2>2
    <3>2. QED
      BY <1>5, <1>9, <2>2, <3>1 DEF NoGap
  <2>3. QED
    BY <1>4, <1>9, <2>1, <2>2
<1>10. ASSUME NEW c \in subs[Chat], NEW msg \in 1..notified + 1,
              msg > joinedAt[c] + Len(delivered[c])
       PROVE  Awaits(c, msg)'
  <2>1. msg = notified + 1 \/ msg \in 1..notified
    BY <1>1
  <2>2. QED
    BY <1>5, <1>6, <1>10, <2>1 DEF NoGap
<1>11. \A c \in Id : \A n \in DOMAIN delivered'[c] : delivered'[c][n] = joinedAt'[c] + n
  BY <1>1 DEF NoGap
<1>12. \A c \in Id : topicOf'[c] \in {Chat, None}
  BY <1>1 DEF NoGap
<1>13. \A c \in Id : \A k \in DOMAIN ticks' : \A msg \in Nat :
         (ticks'[k].do = "deliver" /\ ticks'[k].id = c
           /\ msg > joinedAt'[c] + Len(delivered'[c]) /\ msg < ticks'[k].msg)
           => Awaits(c, msg)'
  <2> SUFFICES ASSUME NEW c \in Id, NEW k \in DOMAIN ticks', NEW msg \in Nat,
                      ticks'[k].do = "deliver", ticks'[k].id = c,
                      msg > joinedAt'[c] + Len(delivered'[c]), msg < ticks'[k].msg
               PROVE  Awaits(c, msg)'
    OBVIOUS
  <2>1. QED
    BY <1>1, <1>9
<1>14. \A c \in subs'[Chat] : \A msg \in 1..notified' :
         msg > joinedAt'[c] + Len(delivered'[c]) => Awaits(c, msg)'
  BY <1>1, <1>10
<1>15. QED
  BY <1>11, <1>12, <1>13, <1>14 DEF NoGap

LEMMA NoGapTick ==
  ASSUME BInv, NoGap, RunTick
  PROVE  NoGap'
<1>0. PICK h : h = ticks[1]
  OBVIOUS
<1>1. ticks # <<>> /\ ticks' = Tail(ticks) /\ UNCHANGED <<topicOf, left, notified>>
  BY DEF RunTick
<1>2. /\ 1 \in DOMAIN ticks /\ h \in TickSet /\ Head(ticks) = h
      /\ \A k \in DOMAIN ticks' : k \in Nat /\ k > 0 /\ k + 1 \in DOMAIN ticks /\ ticks'[k] = ticks[k + 1]
      /\ \A k \in DOMAIN ticks : k = 1 \/ (k - 1 \in DOMAIN ticks' /\ ticks[k] = ticks'[k - 1])
  BY <1>0, <1>1, HeadTail, HeadTick DEF BInv, Inv1
<1>3. RunInsert(h) \/ RunErase(h) \/ RunDeliver(h)
  BY <1>2 DEF RunTick
<1>4. h.topic \in Topic /\ h.id \in Id
  BY <1>2, TickFields
<1>5. \A c, msg : Awaits(c, msg) => h = DeliverTick(Chat, c, msg) \/ Awaits(c, msg)'
  BY <1>0, <1>2 DEF Awaits, DeliverTick
<1>6. \A c \in Id : joinedAt[c] \in Nat /\ delivered[c] \in Seq(1..MaxNotify) /\ Len(delivered[c]) \in Nat
  BY NotifyAssumption DEF BInv, Inv1, BusTypeOK
<1>7. \A u \in Topic : subs[u] \subseteq Id
  BY DEF BInv, Inv1, BusTypeOK
<1>8. CASE RunInsert(h)
  <2>1. /\ h.do = "insert" /\ delivered' = delivered
        /\ joinedAt'[h.id] = notified /\ \A c \in Id \ {h.id} : joinedAt'[c] = joinedAt[c]
        /\ \A u \in Topic : subs'[u] \subseteq subs[u] \cup {h.id}
    BY <1>4, <1>8 DEF RunInsert, BInv, Inv1, BusTypeOK
  <2>2. delivered[h.id] = <<>>
    BY <1>0, <1>2, <1>4, <2>1 DEF BInv, Heard, Fresh, Queued
  <2>3. \A k \in DOMAIN ticks' : ticks'[k].do = "deliver" => ticks'[k].id # h.id
    BY <1>0, <1>2, <2>1 DEF BInv, Inv1, Queues, InsertFirst
  <2>4. \A c, msg : Awaits(c, msg) => Awaits(c, msg)'
    BY <1>5, <2>1 DEF DeliverTick
  <2>5. \A c \in Id : \A n \in DOMAIN delivered'[c] : delivered'[c][n] = joinedAt'[c] + n
    BY <2>1, <2>2 DEF NoGap
  <2>6. ASSUME NEW c \in Id, NEW k \in DOMAIN ticks', NEW msg \in Nat,
               ticks'[k].do = "deliver", ticks'[k].id = c,
               msg > joinedAt'[c] + Len(delivered'[c]), msg < ticks'[k].msg
        PROVE  Awaits(c, msg)'
    BY <1>2, <2>1, <2>3, <2>4, <2>6 DEF NoGap
  <2>7. ASSUME NEW c \in subs'[Chat], NEW msg \in 1..notified',
               msg > joinedAt'[c] + Len(delivered'[c])
        PROVE  Awaits(c, msg)'
    <3>1. CASE c = h.id
      <4>1. msg > notified + 0 /\ notified \in Nat /\ msg <= notified
        BY <1>1, <2>1, <2>2, <2>7, <3>1, NotifyAssumption DEF BInv, Inv1, BusTypeOK
      <4>2. QED
        BY <4>1
    <3>2. CASE c # h.id
      BY <1>1, <1>7, <2>1, <2>4, <2>7, <3>2, ChatAssumption DEF NoGap
    <3>3. QED
      BY <3>1, <3>2
  <2>8. QED
    BY <1>1, <2>5, <2>6, <2>7 DEF NoGap
<1>9. CASE RunErase(h)
  <2>1. /\ h.do = "erase" /\ UNCHANGED <<delivered, joinedAt>>
        /\ \A u \in Topic : subs'[u] \subseteq subs[u]
    BY <1>4, <1>9 DEF RunErase, BInv, Inv1, BusTypeOK
  <2>2. \A c, msg : Awaits(c, msg) => Awaits(c, msg)'
    BY <1>5, <2>1 DEF DeliverTick
  <2>3. ASSUME NEW c \in Id, NEW k \in DOMAIN ticks', NEW msg \in Nat,
               ticks'[k].do = "deliver", ticks'[k].id = c,
               msg > joinedAt[c] + Len(delivered[c]), msg < ticks'[k].msg
        PROVE  Awaits(c, msg)'
    BY <1>2, <2>2, <2>3 DEF NoGap
  <2>4. QED
    BY <1>1, <2>1, <2>2, <2>3, ChatAssumption DEF NoGap
<1>10. CASE RunDeliver(h)
  <2> DEFINE old == delivered[h.id]
             new == delivered'[h.id]
  <2>1. /\ UNCHANGED <<subs, joinedAt>> /\ h.do = "deliver"
        /\ new = Append(old, h.msg)
        /\ \A c \in Id \ {h.id} : delivered'[c] = delivered[c]
    BY <1>4, <1>10 DEF RunDeliver, BInv, Inv1, BusTypeOK
  <2>2. old \in Seq(1..MaxNotify) /\ h.msg \in 1..MaxNotify
    BY <1>2, <1>6, <1>4, <2>1, TickFields
  <2>3. \A n \in DOMAIN old : old[n] = joinedAt[h.id] + n /\ old[n] < h.msg
    <3>1. \A n \in DOMAIN old : old[n] = joinedAt[h.id] + n
      BY <1>4 DEF NoGap
    <3>2. \A n \in DOMAIN old : old[n] < h.msg
      BY <1>0, <1>2, <2>1 DEF BInv, Heard, Coming
    <3>3. QED
      BY <3>1, <3>2
  <2> HIDE DEF old, new
  <2>4. joinedAt[h.id] < h.msg
    BY <1>0, <1>2, <2>1 DEF BInv, Heard, Coming
  <2>5. joinedAt[h.id] + Len(old) < h.msg
    <3>1. CASE Len(old) = 0
      BY <1>4, <1>6, <2>2, <2>4, <3>1
    <3>2. CASE Len(old) # 0
      <4>1. Len(old) \in DOMAIN old
        BY <2>2, <3>2
      <4>2. QED
        BY <2>3, <4>1
    <3>3. QED
      BY <3>1, <3>2
  <2>6. \A k \in DOMAIN ticks' : ticks'[k].do = "deliver" /\ ticks'[k].id = h.id => h.msg < ticks'[k].msg
    <3>1. ASSUME NEW k \in DOMAIN ticks', ticks'[k].do = "deliver", ticks'[k].id = h.id
          PROVE  h.msg < ticks'[k].msg
      <4>1. k + 1 \in DOMAIN ticks /\ ticks'[k] = ticks[k + 1] /\ 1 < k + 1 /\ 1 \in DOMAIN ticks
        BY <1>2
      <4>2. QED
        BY <1>0, <2>1, <3>1, <4>1 DEF BInv, Heard, InTurn
    <3>2. QED
      BY <3>1
  <2>7. h.msg = joinedAt[h.id] + Len(old) + 1
    <3>0. PICK m : m = joinedAt[h.id] + Len(old) + 1
      OBVIOUS
    <3>1. SUFFICES ASSUME h.msg # m PROVE FALSE
      BY <3>0
    <3>2. m \in Nat /\ m < h.msg /\ m > joinedAt[h.id] + Len(old)
      <4>1. joinedAt[h.id] \in Nat /\ Len(old) \in Nat /\ h.msg \in Nat
        BY <1>4, <1>6, <2>2
      <4>2. QED
        BY <2>5, <3>0, <3>1, <4>1
    <3>3. Awaits(h.id, m)
      BY <1>0, <1>2, <1>4, <2>1, <3>2 DEF NoGap, old
    <3>4. PICK k \in DOMAIN ticks : ticks[k] = DeliverTick(Chat, h.id, m)
      BY <3>3 DEF Awaits
    <3>5. ticks[k].do = "deliver" /\ ticks[k].id = h.id /\ ticks[k].msg = m
      BY <3>4 DEF DeliverTick
    <3>6. k # 1
      BY <1>0, <3>1, <3>5
    <3>7. k - 1 \in DOMAIN ticks' /\ ticks'[k - 1] = ticks[k]
      BY <1>2, <3>6
    <3>8. h.msg < m
      BY <2>6, <3>5, <3>7
    <3>9. QED
      BY <2>2, <3>2, <3>8
  <2>8. /\ Len(new) = Len(old) + 1 /\ Len(old) \in Nat
        /\ \A n \in DOMAIN new : \/ n \in DOMAIN old /\ new[n] = old[n]
                                 \/ n = Len(old) + 1 /\ new[n] = h.msg
    BY <2>1, <2>2, OneMore
  <2>9. \A c \in Id : \A n \in DOMAIN delivered'[c] : delivered'[c][n] = joinedAt'[c] + n
    <3>1. \A n \in DOMAIN new : new[n] = joinedAt[h.id] + n
      <4>1. joinedAt[h.id] \in Nat /\ Len(old) \in Nat
        BY <1>4, <1>6, <2>8
      <4>2. h.msg = joinedAt[h.id] + (Len(old) + 1)
        BY <2>7, <4>1
      <4>3. ASSUME NEW n \in DOMAIN new PROVE new[n] = joinedAt[h.id] + n
        <5>1. CASE n \in DOMAIN old /\ new[n] = old[n]
          BY <2>3, <5>1
        <5>2. CASE n = Len(old) + 1 /\ new[n] = h.msg
          BY <4>2, <5>2
        <5>3. QED
          BY <2>8, <5>1, <5>2
      <4>4. QED
        BY <4>3
    <3>2. QED
      BY <2>1, <3>1 DEF NoGap, new
  <2>10. ASSUME NEW c \in Id, NEW msg \in Nat, Awaits(c, msg), msg > joinedAt[c] + Len(delivered'[c])
         PROVE  Awaits(c, msg)'
    <3>1. h # DeliverTick(Chat, c, msg)
      <4>1. SUFFICES ASSUME h = DeliverTick(Chat, c, msg) PROVE FALSE
        OBVIOUS
      <4>2. c = h.id /\ msg = h.msg
        BY <4>1 DEF DeliverTick
      <4>3. QED
        BY <1>4, <1>6, <2>7, <2>8, <2>10, <4>2 DEF old, new
    <3>2. QED
      BY <1>5, <2>10, <3>1
  <2>11. \A c \in Id : /\ Len(delivered'[c]) >= Len(delivered[c])
                       /\ Len(delivered'[c]) \in Nat
    <3>1. \A c \in Id \ {h.id} : Len(delivered'[c]) >= Len(delivered[c]) /\ Len(delivered'[c]) \in Nat
      BY <1>6, <2>1
    <3>2. QED
      BY <2>8, <3>1 DEF old, new
  <2>12. ASSUME NEW c \in Id, NEW k \in DOMAIN ticks', NEW msg \in Nat,
                ticks'[k].do = "deliver", ticks'[k].id = c,
                msg > joinedAt[c] + Len(delivered'[c]), msg < ticks'[k].msg
         PROVE  Awaits(c, msg)'
    <3>1. msg > joinedAt[c] + Len(delivered[c])
      BY <1>6, <2>11, <2>12
    <3>2. Awaits(c, msg)
      BY <1>2, <2>12, <3>1 DEF NoGap
    <3>3. QED
      BY <2>10, <2>12, <3>2
  <2>13. ASSUME NEW c \in subs[Chat], NEW msg \in 1..notified,
                msg > joinedAt[c] + Len(delivered'[c])
         PROVE  Awaits(c, msg)'
    <3>1. c \in Id
      BY <1>7, ChatAssumption
    <3>2. msg > joinedAt[c] + Len(delivered[c]) /\ msg \in Nat
      BY <1>6, <2>11, <2>13, <3>1
    <3>3. Awaits(c, msg)
      BY <2>13, <3>2 DEF NoGap
    <3>4. QED
      BY <2>10, <2>13, <3>1, <3>2, <3>3
  <2>14. \A c \in Id : \A k \in DOMAIN ticks' : \A msg \in Nat :
           (ticks'[k].do = "deliver" /\ ticks'[k].id = c
             /\ msg > joinedAt'[c] + Len(delivered'[c]) /\ msg < ticks'[k].msg)
             => Awaits(c, msg)'
    <3> SUFFICES ASSUME NEW c \in Id, NEW k \in DOMAIN ticks', NEW msg \in Nat,
                        ticks'[k].do = "deliver", ticks'[k].id = c,
                        msg > joinedAt'[c] + Len(delivered'[c]), msg < ticks'[k].msg
                 PROVE  Awaits(c, msg)'
      OBVIOUS
    <3>1. QED
      BY <2>1, <2>12
  <2>15. \A c \in subs'[Chat] : \A msg \in 1..notified' :
           msg > joinedAt'[c] + Len(delivered'[c]) => Awaits(c, msg)'
    BY <1>1, <2>1, <2>13
  <2>16. \A c \in Id : topicOf'[c] \in {Chat, None}
    BY <1>1 DEF NoGap
  <2>17. QED
    BY <2>9, <2>14, <2>15, <2>16 DEF NoGap
<1>11. QED
  BY <1>3, <1>8, <1>9, <1>10

LEMMA NoGapStep == BInv /\ NoGap /\ OneTopicNext => NoGap'
<1> SUFFICES ASSUME BInv, NoGap, OneTopicNext PROVE NoGap'
  OBVIOUS
<1>1. ASSUME NEW c \in Id, Subscribe(Chat, c) PROVE NoGap'
  <2>1. InsertTick(Chat, c) \in TickSet /\ InsertTick(Chat, c).do = "insert"
    BY TickFields, ChatAssumption DEF InsertTick
  <2>2. \A j \in Id : topicOf'[j] \in {Chat, None}
    BY <1>1 DEF Subscribe, NoGap, BInv, Inv1, BusTypeOK
  <2>3. UNCHANGED <<subs, notified, delivered, joinedAt>> /\ ticks' = Append(ticks, InsertTick(Chat, c))
    BY <1>1 DEF Subscribe, seenVars
  <2>4. QED
    BY <2>1, <2>2, <2>3, NoGapAppend
<1>2. ASSUME NEW c \in Id, Unsubscribe(c) PROVE NoGap'
  <2>1. topicOf[c] \in Topic
    BY <1>2 DEF Unsubscribe, Issued, BInv, Inv1, BusTypeOK
  <2>2. EraseTick(topicOf[c], c) \in TickSet /\ EraseTick(topicOf[c], c).do = "erase"
    BY <2>1, TickFields DEF EraseTick
  <2>3. /\ UNCHANGED <<subs, topicOf, notified, delivered, joinedAt>>
        /\ ticks' = Append(ticks, EraseTick(topicOf[c], c))
    BY <1>2 DEF Unsubscribe, seenVars
  <2>4. \A j \in Id : topicOf'[j] \in {Chat, None}
    BY <2>3 DEF NoGap
  <2>5. QED
    BY <2>2, <2>3, <2>4, NoGapAppend
<1>3. QED
  BY <1>1, <1>2, NoGapNotify, NoGapTick DEF OneTopicNext

-----------------------------------------------------------------------------
(* The life of a connection. *)

Lives == Kinds /\ Stages

LEMMA LivesInit == Init => Lives
<1>1. Init => closing \in [Id -> BOOLEAN] /\ \A c \in Id : ~closing[c]
  BY DEF Init
<1>2. Init => /\ con \in [Id -> {"none", "flushing", "lost", "open", "closed"}]
              /\ net \in [Id -> {"up", "broken"}]
              /\ io \in [Id -> Nat] /\ written \in [Id -> Seq(1..MaxNotify)]
              /\ closes \in [Id -> 0..2]
              /\ \A c \in Id : c \notin Issued /\ io[c] = 0 /\ closes[c] = 0
  BY DEF Init, BusInit, Issued
<1>3. QED
  BY <1>1, <1>2 DEF Lives, Kinds, Stages

(* Steps of the bus that leave the connections alone. *)
LEMMA LivesStay ==
  ASSUME Lives, UNCHANGED <<topicOf, left, con, closing, closes>>,
         net' \in [Id -> {"up", "broken"}],
         io' \in [Id -> Nat], written' \in [Id -> Seq(1..MaxNotify)],
         \A c \in Id : con[c] # "open" => io'[c] = io[c]
  PROVE  Lives'
<1>1. Kinds'
  BY DEF Lives, Kinds
<1>2. Stages'
  BY DEF Lives, Stages, Issued
<1>3. QED
  BY <1>1, <1>2 DEF Lives

LEMMA LivesOpening ==
  ASSUME Lives, BInv, NEW c \in Id,
         \/ Handshake(c) \/ FlushFails(c) \/ Run(c) \/ RunThrows(c)
  PROVE  Lives'
<1>1. c \notin Issued /\ con[c] \in {"none", "flushing"} /\ closes[c] = 0 /\ ~closing[c]
  BY DEF Lives, Stages, Handshake, FlushFails, Run, RunThrows
<1>2. /\ con' \in [Id -> {"none", "flushing", "lost", "open", "closed"}]
      /\ \A d \in Id \ {c} : con'[d] = con[d]
      /\ UNCHANGED <<net, io, written, closes, left>>
  BY DEF Lives, Kinds, Handshake, FlushFails, Run, RunThrows, busVars, Subscribe
<1>3. closing' \in [Id -> BOOLEAN] /\ \A d \in Id \ {c} : closing'[d] = closing[d]
  BY DEF Lives, Kinds, Handshake, FlushFails, Run, RunThrows
<1>4. Issued' = Issued \/ (Issued' = Issued \cup {c} /\ con'[c] = "open" /\ ~closing'[c] /\ c \notin left)
  <2>1. CASE Run(c)
    <3>1. topicOf' = [topicOf EXCEPT ![c] = Chat] /\ topicOf \in [Id -> Topic \cup {None}] /\ Chat # None
      BY <2>1, ChatAssumption, TopicAssumption DEF Run, Subscribe, BInv, Inv1, BusTypeOK
    <3>2. Issued' = Issued \cup {c}
      BY <3>1 DEF Issued
    <3>3. con'[c] = "open" /\ closing' = closing
      BY <2>1 DEF Run, Lives, Kinds
    <3>4. c \notin left
      BY <1>1 DEF BInv, Inv1, Queues, Fits
    <3>5. QED
      BY <1>1, <3>2, <3>3, <3>4
  <2>2. CASE ~Run(c)
    BY <2>2 DEF Handshake, FlushFails, RunThrows, busVars, Issued
  <2>3. QED
    BY <2>1, <2>2
<1>5. con'[c] \in {"none", "flushing"} => ~closing'[c]
  <2>1. CASE Handshake(c)
    BY <1>1, <2>1 DEF Handshake
  <2>2. CASE ~Handshake(c)
    BY <2>2 DEF FlushFails, Run, RunThrows, Lives, Kinds
  <2>3. QED
    BY <2>1, <2>2
<1>6. io[c] = 0
  BY <1>1 DEF Lives, Stages
<1>7. Kinds'
  BY <1>2, <1>3 DEF Lives, Kinds
<1>8. Stages'
  BY <1>1, <1>2, <1>3, <1>4, <1>5, <1>6 DEF Lives, Stages
<1>9. QED
  BY <1>7, <1>8 DEF Lives

LEMMA LivesClose ==
  ASSUME Lives, BInv, NEW c \in Id, CloseTick(c) \/ WriteFails(c)
  PROVE  Lives'
<1>1. Close(c) /\ (closing[c] \/ io[c] > 0)
  BY DEF CloseTick, WriteFails
<1>2. con[c] \notin {"none", "flushing"} /\ (c \in Issued => con[c] = "open" /\ c \notin left /\ closes[c] = 0)
  BY <1>1 DEF Lives, Stages
<1>3. /\ con' = [con EXCEPT ![c] = "closed"] /\ io' = [io EXCEPT ![c] = 0]
      /\ UNCHANGED <<net, written>>
      /\ closes' = [closes EXCEPT ![c] = IF @ = 2 THEN 2 ELSE @ + 1]
  BY <1>1 DEF Close, OnClose, Dispose
<1>4. /\ closing' \in [Id -> BOOLEAN] /\ \A d \in Id \ {c} : closing'[d] = closing[d]
      /\ c \in Issued => ~closing'[c]
  BY <1>1 DEF Close, OnClose, Lives, Kinds
<1>5. UNCHANGED topicOf /\ left' = IF c \in Issued THEN left \cup {c} ELSE left
  BY <1>1, <1>2 DEF Close, OnClose, Unsubscribe, busVars
<1>6. Issued' = Issued
  BY <1>5 DEF Issued
<1>7. Kinds'
  <2>1. closes' \in [Id -> 0..2]
    <3>1. closes \in [Id -> 0..2]
      BY DEF Lives, Kinds
    <3>2. (IF closes[c] = 2 THEN 2 ELSE closes[c] + 1) \in 0..2
      BY <3>1
    <3>3. QED
      BY <1>3, <3>1, <3>2
  <2>2. /\ con' \in [Id -> {"none", "flushing", "lost", "open", "closed"}]
        /\ net' \in [Id -> {"up", "broken"}]
        /\ io' \in [Id -> Nat] /\ written' \in [Id -> Seq(1..MaxNotify)]
    BY <1>3 DEF Lives, Kinds
  <2>3. QED
    BY <1>4, <2>1, <2>2 DEF Kinds
<1>8. ASSUME NEW d \in Id \ {c}
      PROVE  /\ con'[d] = con[d] /\ io'[d] = io[d] /\ closes'[d] = closes[d]
             /\ d \in left' <=> d \in left
  BY <1>3, <1>5 DEF Lives, Kinds
<1>9. con'[c] = "closed" /\ io'[c] = 0 /\ (c \in Issued => c \in left' /\ closes'[c] = 1)
  BY <1>2, <1>3, <1>5 DEF Lives, Kinds
<1>10. Stages'
  BY <1>4, <1>6, <1>8, <1>9 DEF Lives, Stages
<1>11. QED
  BY <1>7, <1>10 DEF Lives

LEMMA TickSends ==
  ASSUME Lives, BInv, BusTick
  PROVE  \/ /\ ticks[1].do # "deliver"
            /\ UNCHANGED <<io, written, delivered>>
         \/ \E c \in Id, m \in 1..MaxNotify :
              /\ delivered' = [delivered EXCEPT ![c] = Append(@, m)]
              /\ Send(c, m)
<1>1. RunTick /\ Head(ticks) \in TickSet /\ Head(ticks) = ticks[1]
  BY HeadTick DEF BusTick, RunTick, BInv, Inv1
<1>2. PICK h : h = ticks[1]
  OBVIOUS
<1>3. RunInsert(h) \/ RunErase(h) \/ RunDeliver(h)
  BY <1>1, <1>2 DEF RunTick
<1>4. IF h.do = "deliver" THEN Send(h.id, h.msg) ELSE UNCHANGED <<io, written>>
  BY <1>1, <1>2 DEF BusTick
<1>5. CASE RunDeliver(h)
  <2>1. h.id \in Id /\ h.msg \in 1..MaxNotify /\ h.do = "deliver"
    BY <1>1, <1>2, <1>5, TickFields DEF RunDeliver
  <2>2. delivered' = [delivered EXCEPT ![h.id] = Append(@, h.msg)]
    BY <1>5 DEF RunDeliver
  <2>3. QED
    BY <1>4, <2>1, <2>2
<1>6. CASE RunInsert(h) \/ RunErase(h)
  BY <1>2, <1>4, <1>6 DEF RunInsert, RunErase
<1>7. QED
  BY <1>3, <1>5, <1>6

LEMMA LivesStep == Lives /\ BInv /\ [Next]_vars => Lives'
<1> SUFFICES ASSUME Lives, BInv, [Next]_vars PROVE Lives'
  OBVIOUS
<1>1. ASSUME NEW c \in Id, CloseTick(c) \/ WriteFails(c) PROVE Lives'
  BY <1>1, LivesClose
<1>2. ASSUME NEW c \in Id, \/ Handshake(c) \/ FlushFails(c) \/ Run(c) \/ RunThrows(c) PROVE Lives'
  BY <1>2, LivesOpening
<1>3. ASSUME NEW c \in Id, WriteDone(c) PROVE Lives'
  <2>1. /\ UNCHANGED <<topicOf, left, con, closing, closes, net, written>>
        /\ io' = [io EXCEPT ![c] = @ - 1] /\ io[c] > 0
    BY <1>3 DEF WriteDone, busVars
  <2>2. io' \in [Id -> Nat]
    BY <2>1 DEF Lives, Kinds
  <2>3. \A d \in Id : con[d] # "open" => io'[d] = io[d]
    BY <2>1 DEF Lives, Kinds, Stages
  <2>4. net' \in [Id -> {"up", "broken"}] /\ written' \in [Id -> Seq(1..MaxNotify)]
    BY <2>1 DEF Lives, Kinds
  <2>5. QED
    BY <2>1, <2>2, <2>3, <2>4, LivesStay
<1>4. ASSUME NEW c \in Id, Break(c) PROVE Lives'
  <2>1. /\ UNCHANGED <<topicOf, left, con, closing, closes, io, written>>
        /\ net' = [net EXCEPT ![c] = "broken"]
    BY <1>4 DEF Break, busVars
  <2>2. /\ net' \in [Id -> {"up", "broken"}] /\ written' \in [Id -> Seq(1..MaxNotify)]
        /\ io' \in [Id -> Nat] /\ \A d \in Id : io'[d] = io[d]
    BY <2>1 DEF Lives, Kinds
  <2>3. QED
    BY <2>1, <2>2, LivesStay
<1>5. CASE UNCHANGED <<topicOf, left, sseVars>>
  <2>1. /\ net' \in [Id -> {"up", "broken"}] /\ written' \in [Id -> Seq(1..MaxNotify)]
        /\ io' \in [Id -> Nat] /\ \A d \in Id : io'[d] = io[d]
    BY <1>5 DEF Lives, Kinds, sseVars
  <2>2. UNCHANGED <<topicOf, left, con, closing, closes>>
    BY <1>5 DEF sseVars
  <2>3. QED
    BY <2>1, <2>2, LivesStay
<1>6. Post => UNCHANGED <<topicOf, left, sseVars>>
  BY DEF Post, Notify
<1>7. UNCHANGED vars => UNCHANGED <<topicOf, left, sseVars>>
  BY DEF vars, busVars
<1>8. ASSUME BusTick PROVE Lives'
  <2>1. UNCHANGED <<topicOf, left, con, net, closing, closes>>
    BY <1>8 DEF BusTick, RunTick
  <2>2. CASE UNCHANGED <<io, written>>
    BY <1>5, <2>1, <2>2 DEF sseVars
  <2>3. ASSUME NEW c \in Id, NEW m \in 1..MaxNotify, Send(c, m) PROVE Lives'
    <3>1. CASE con[c] = "open"
      <4>1. /\ written' = [written EXCEPT ![c] = Append(@, m)]
            /\ io' = [io EXCEPT ![c] = @ + 1]
        BY <2>3, <3>1 DEF Send
      <4>2. io' \in [Id -> Nat] /\ \A d \in Id : con[d] # "open" => io'[d] = io[d]
        BY <3>1, <4>1 DEF Lives, Kinds
      <4>3. written' \in [Id -> Seq(1..MaxNotify)]
        BY <4>1 DEF Lives, Kinds
      <4>4. net' \in [Id -> {"up", "broken"}]
        BY <2>1 DEF Lives, Kinds
      <4>5. QED
        BY <2>1, <4>2, <4>3, <4>4, LivesStay
    <3>2. CASE con[c] # "open"
      BY <2>2, <2>3, <3>2 DEF Send
    <3>3. QED
      BY <3>1, <3>2
  <2>4. QED
    BY <1>8, <2>2, <2>3, TickSends
<1>9. QED
  BY <1>1, <1>2, <1>3, <1>4, <1>5, <1>6, <1>7, <1>8 DEF Next

-----------------------------------------------------------------------------
(* What a connection wrote. *)

LEMMA GivenStep == Lives /\ BInv /\ Given /\ [Next]_vars => Given'
<1> SUFFICES ASSUME Lives, BInv, Given, [Next]_vars PROVE Given'
  OBVIOUS
<1>1. /\ \A c \in Id : written[c] \in Seq(1..MaxNotify) /\ delivered[c] \in Seq(1..MaxNotify)
      /\ io \in [Id -> Nat] /\ written \in [Id -> Seq(1..MaxNotify)]
      /\ delivered \in [Id -> Seq(1..MaxNotify)]
      /\ con \in [Id -> {"none", "flushing", "lost", "open", "closed"}]
  BY DEF Lives, Kinds, BInv, Inv1, BusTypeOK
<1>2. CASE /\ UNCHANGED <<written, delivered>>
           /\ \A c \in Id : /\ io'[c] <= Len(written[c])
                            /\ con'[c] = "open" => con[c] = "open" \/ c \notin Issued
  <2>1. ASSUME NEW c \in Id, c \notin Issued PROVE written[c] = delivered[c]
    <3>1. delivered[c] = <<>>
      BY <2>1 DEF BInv, Heard, Fresh
    <3>2. Len(written[c]) = 0
      BY <1>1, <3>1 DEF Given
    <3>3. QED
      BY <1>1, <3>1, <3>2
  <2>2. QED
    BY <1>2, <2>1 DEF Given
<1>3. ASSUME NEW c \in Id, CloseTick(c) \/ WriteFails(c) PROVE Given'
  <2>1. Close(c)
    BY <1>3 DEF CloseTick, WriteFails
  <2>2. /\ con' = [con EXCEPT ![c] = "closed"] /\ io' = [io EXCEPT ![c] = 0] /\ UNCHANGED written
    BY <2>1 DEF Close, Dispose
  <2>3. UNCHANGED delivered
    BY <2>1 DEF Close, OnClose, busVars, Unsubscribe, seenVars
  <2>4. \A d \in Id : io'[d] <= Len(written[d]) /\ (con'[d] = "open" => con[d] = "open")
    BY <1>1, <2>2 DEF Given
  <2>5. QED
    BY <1>2, <2>2, <2>3, <2>4
<1>4. ASSUME NEW c \in Id, \/ Handshake(c) \/ FlushFails(c) \/ Run(c) \/ RunThrows(c) PROVE Given'
  <2>1. UNCHANGED <<io, written, delivered>> /\ \A d \in Id \ {c} : con'[d] = con[d]
    BY <1>1, <1>4 DEF Handshake, FlushFails, Run, RunThrows, busVars, Subscribe, seenVars
  <2>2. c \notin Issued
    BY <1>4 DEF Lives, Stages, Handshake, FlushFails, Run, RunThrows
  <2>3. \A d \in Id : io'[d] <= Len(written[d]) /\ (con'[d] = "open" => con[d] = "open" \/ d \notin Issued)
    BY <2>1, <2>2 DEF Given
  <2>4. QED
    BY <1>2, <2>1, <2>3
<1>5. ASSUME NEW c \in Id, WriteDone(c) \/ Break(c) PROVE Given'
  <2>1. UNCHANGED <<con, written, delivered>> /\ (io' = io \/ io' = [io EXCEPT ![c] = @ - 1])
    BY <1>5 DEF WriteDone, Break, busVars
  <2>2. \A d \in Id : io'[d] <= Len(written[d])
    <3>1. ASSUME NEW d \in Id PROVE io[d] \in Nat /\ io[d] <= Len(written[d]) /\ Len(written[d]) \in Nat
      BY <1>1 DEF Given
    <3>2. ASSUME NEW d \in Id PROVE io'[d] \in {io[d], io[d] - 1}
      BY <1>1, <2>1
    <3>3. ASSUME NEW d \in Id PROVE io'[d] <= Len(written[d])
      BY <3>1, <3>2
    <3>4. QED
      BY <3>3
  <2>3. QED
    BY <1>2, <2>1, <2>2
<1>6. CASE UNCHANGED <<con, io, written, delivered>>
  BY <1>2, <1>6 DEF Given
<1>7. Post => UNCHANGED <<con, io, written, delivered>>
  BY DEF Post, Notify, sseVars, seenVars
<1>8. UNCHANGED vars => UNCHANGED <<con, io, written, delivered>>
  BY DEF vars, busVars, sseVars
<1>9. ASSUME BusTick PROVE Given'
  <2>1. UNCHANGED con
    BY <1>9 DEF BusTick
  <2>2. ASSUME NEW c \in Id, NEW m \in 1..MaxNotify, Send(c, m),
               delivered' = [delivered EXCEPT ![c] = Append(@, m)]
        PROVE  Given'
    <3>1. PICK old \in Seq(1..MaxNotify) : old = delivered[c]
      BY <1>1
    <3>2. PICK new : new = Append(old, m)
      OBVIOUS
    <3>3. /\ Len(new) = Len(old) + 1 /\ Len(old) \in Nat
          /\ \A n \in DOMAIN new : \/ n \in DOMAIN old /\ new[n] = old[n]
                                   \/ n = Len(old) + 1 /\ new[n] = m
          /\ \A n \in DOMAIN old : n \in DOMAIN new /\ new[n] = old[n]
      <4>1. \A n \in DOMAIN old : n \in DOMAIN new /\ new[n] = old[n]
        BY <3>2
      <4>2. QED
        BY <3>2, <4>1, OneMore
    <3>4. delivered'[c] = new /\ \A d \in Id \ {c} : delivered'[d] = delivered[d]
      BY <1>1, <2>2, <3>1, <3>2
    <3>5. CASE con[c] = "open"
      <4>1. /\ written' = [written EXCEPT ![c] = Append(@, m)] /\ io' = [io EXCEPT ![c] = @ + 1]
        BY <2>2, <3>5 DEF Send
      <4>2. written[c] = old /\ io[c] <= Len(old) /\ io[c] \in Nat
        BY <1>1, <3>1, <3>5 DEF Given
      <4>3. written'[c] = new /\ io'[c] = io[c] + 1
        BY <1>1, <3>2, <4>1, <4>2
      <4>4. \A d \in Id \ {c} : written'[d] = written[d] /\ io'[d] = io[d]
        BY <1>1, <4>1
      <4>5. io'[c] <= Len(new) /\ Len(new) <= Len(new)
        BY <3>3, <4>2, <4>3
      <4>6. QED
        BY <2>1, <3>4, <4>3, <4>4, <4>5 DEF Given
    <3>6. CASE con[c] # "open"
      <4>1. UNCHANGED <<io, written>>
        BY <2>2, <3>6 DEF Send
      <4>2. /\ Len(written[c]) <= Len(new)
            /\ \A n \in DOMAIN written[c] : written[c][n] = new[n]
        <5>1. Len(written[c]) <= Len(old) /\ Len(written[c]) \in Nat
          BY <1>1, <3>1 DEF Given
        <5>2. DOMAIN written[c] \subseteq DOMAIN old
          BY <1>1, <5>1
        <5>3. \A n \in DOMAIN written[c] : written[c][n] = old[n]
          BY <3>1 DEF Given
        <5>4. QED
          BY <3>3, <5>1, <5>2, <5>3
      <4>3. QED
        BY <2>1, <3>4, <3>6, <4>1, <4>2 DEF Given
    <3>7. QED
      BY <3>5, <3>6
  <2>3. QED
    BY <1>6, <1>9, <2>1, <2>2, TickSends
<1>10. QED
  BY <1>3, <1>4, <1>5, <1>6, <1>7, <1>8, <1>9 DEF Next

-----------------------------------------------------------------------------
(* The theorems. *)

IInv == BInv /\ Lives /\ Given /\ NoGap

LEMMA IInvInit == Init => IInv
<1>1. Init => Given
  BY DEF Init, BusInit, Given
<1>2. Init => NoGap
  BY ChatAssumption DEF Init, BusInit, NoGap
<1>3. QED
  BY <1>1, <1>2, BInvInit, LivesInit DEF Init, IInv

LEMMA IInvStep == IInv /\ [Next]_vars => IInv'
<1> SUFFICES ASSUME IInv, [Next]_vars PROVE IInv'
  OBVIOUS
<1>1. BInv' /\ Lives' /\ Given'
  BY BInvStep, StepIsBusStep, LivesStep, GivenStep DEF IInv
<1>2. NoGap'
  <2>1. CASE UNCHANGED busVars
    BY <2>1 DEF IInv, NoGap, busVars, Awaits
  <2>2. CASE OneTopicNext
    BY <2>2, NoGapStep DEF IInv
  <2>3. QED
    BY <2>1, <2>2, StepOnBus DEF vars
<1>3. QED
  BY <1>1, <1>2 DEF IInv

LEMMA ElementOfSeq == ASSUME NEW S, NEW d \in Seq(S), NEW n \in 1..Len(d) PROVE d[n] \in S
OBVIOUS

LEMMA NoMoreThanPosted ==
  ASSUME IInv, NEW c \in Id
  PROVE  io[c] \in 0..MaxNotify /\ Len(written[c]) <= Len(delivered[c])
<1>1. /\ delivered[c] \in Seq(1..MaxNotify) /\ written[c] \in Seq(1..MaxNotify)
      /\ joinedAt[c] \in Nat /\ io[c] \in Nat
  BY NotifyAssumption DEF IInv, BInv, Inv1, BusTypeOK, Lives, Kinds
<1>2. Len(delivered[c]) <= MaxNotify
  <2>1. CASE Len(delivered[c]) = 0
    BY <2>1, NotifyAssumption
  <2>2. CASE Len(delivered[c]) # 0
    <3>1. PICK n \in DOMAIN delivered[c] : n = Len(delivered[c]) /\ n \in Nat
      BY <1>1, <2>2
    <3>2. delivered[c][n] = joinedAt[c] + n
      BY DEF IInv, NoGap
    <3>3. delivered[c][n] \in 1..MaxNotify
      <4>1. PICK d \in Seq(1..MaxNotify) : d = delivered[c]
        BY <1>1
      <4>2. n \in 1..Len(d)
        BY <3>1, <4>1, <2>2
      <4>3. d[n] \in 1..MaxNotify
        BY <4>2, ElementOfSeq
      <4>4. QED
        BY <4>1, <4>3
    <3>4. QED
      BY <1>1, <3>1, <3>2, <3>3, NotifyAssumption
  <2>3. QED
    BY <2>1, <2>2
<1>3. Len(written[c]) <= Len(delivered[c]) /\ io[c] <= Len(written[c])
  BY DEF IInv, Given
<1>4. QED
  BY <1>1, <1>2, <1>3, NotifyAssumption

LEMMA IInvTypes == ASSUME IInv PROVE TypeOK
<1>1. BusTypeOK /\ Kinds /\ Stages
  BY DEF IInv, BInv, Inv1, Lives
<1>2. io \in [Id -> 0..MaxNotify]
  <2>1. io \in [Id -> Nat] /\ \A c \in Id : io[c] \in 0..MaxNotify
    BY <1>1, NoMoreThanPosted DEF Kinds
  <2>2. QED
    BY <2>1
<1>3. ASSUME NEW c \in Id, c \notin Issued PROVE written[c] = <<>>
  <2>1. delivered[c] = <<>>
    BY <1>3 DEF IInv, BInv, Heard, Fresh
  <2>2. written[c] \in Seq(1..MaxNotify) /\ Len(written[c]) <= 0
    BY <1>1, <2>1, NoMoreThanPosted DEF Kinds
  <2>3. QED
    BY <2>2
<1>4. QED
  BY <1>1, <1>2, <1>3 DEF TypeOK, Kinds, Stages

(* What is written is the messages from the subscription on.               *)
LEMMA WrittenInTurn ==
  ASSUME IInv, NEW c \in Id
  PROVE  \A n \in DOMAIN written[c] : /\ n \in DOMAIN delivered[c]
                                      /\ written[c][n] = delivered[c][n]
                                      /\ written[c][n] = joinedAt[c] + n
<1>1. written[c] \in Seq(1..MaxNotify) /\ delivered[c] \in Seq(1..MaxNotify)
  BY DEF IInv, BInv, Inv1, BusTypeOK, Lives, Kinds
<1>2. DOMAIN written[c] \subseteq DOMAIN delivered[c]
  BY <1>1, NoMoreThanPosted
<1>3. QED
  BY <1>2 DEF IInv, Given, NoGap

(* Types; only an open connection has writes outstanding, and only one     *)
(* whose onConnect subscribed was given anything to write.                 *)
THEOREM TypesHold == Spec => []TypeOK
BY IInvTypes, IInvInit, IInvStep, PTL DEF Spec

(* A connection is given every message posted since its subscription took  *)
(* effect, in order and without a gap; what it lacks is on its way.        *)
THEOREM HearsAllHolds == Spec => []HearsAll
<1>1. IInv => HearsAll
  <2> SUFFICES ASSUME IInv, NEW c \in Id
               PROVE  /\ \A n \in DOMAIN written[c] : written[c][n] = joinedAt[c] + n
                      /\ con[c] = "open" /\ c \in subs[Chat]
                           => \A msg \in 1..notified :
                                msg > joinedAt[c] + Len(written[c]) => Awaits(c, msg)
    BY DEF HearsAll
  <2>2. \A n \in DOMAIN written[c] : written[c][n] = joinedAt[c] + n
    BY WrittenInTurn
  <2>3. CASE con[c] = "open" /\ c \in subs[Chat]
    <3>1. written[c] = delivered[c]
      BY <2>3 DEF IInv, Given
    <3>2. \A msg \in 1..notified : msg > joinedAt[c] + Len(delivered[c]) => Awaits(c, msg)
      BY <2>3 DEF IInv, NoGap
    <3>3. QED
      BY <2>2, <3>1, <3>2
  <2>4. QED
    BY <2>2, <2>3
<1>2. QED
  BY <1>1, IInvInit, IInvStep, PTL DEF Spec

LEMMA IInvGone == ASSUME IInv PROVE GoneIsLeaving
<1> SUFFICES ASSUME NEW c \in subs[Chat], con[c] # "open"
             PROVE  \E k \in DOMAIN ticks : ticks[k] = EraseTick(Chat, c)
  BY DEF GoneIsLeaving
<1>1. c \in Id /\ topicOf[c] = Chat
  BY ChatAssumption DEF IInv, BInv, Inv1, BusTypeOK, Queues, Fits
<1>2. c \in Issued
  BY <1>1, ChatAssumption, TopicAssumption DEF Issued
<1>3. c \in left
  BY <1>1, <1>2 DEF IInv, Lives, Stages
<1>4. Queued("erase", c)
  BY <1>3, ChatAssumption DEF IInv, BInv, Inv1, Queues, Erased
<1>5. PICK k \in DOMAIN ticks : ticks[k].do = "erase" /\ ticks[k].id = c
  BY <1>4 DEF Queued
<1>6. ticks[k] \in TickSet /\ ticks[k].topic = Chat
  BY <1>1, <1>5 DEF IInv, BInv, Inv1, BusTypeOK, Queues, Fits
<1>7. QED
  BY <1>5, <1>6, TickShapes

(* onClose is called once for a connection that subscribed. *)
THEOREM ClosedOnceHolds == Spec => []ClosedOnce
<1>1. IInv => ClosedOnce
  <2> SUFFICES ASSUME IInv, NEW c \in Issued PROVE closes[c] <= 1
    BY DEF ClosedOnce
  <2>1. c \in Id
    BY DEF Issued
  <2>2. closes[c] = 0 \/ closes[c] = 1
    BY <2>1 DEF IInv, Lives, Stages
  <2>3. QED
    BY <2>2
<1>2. QED
  BY <1>1, IInvInit, IInvStep, PTL DEF Spec

-----------------------------------------------------------------------------
(* The pages. *)

Settled(c) == c \in Issued /\ ~Queued("insert", c)

(* A connection with a page was requested; it has that page only, and      *)
(* gives it no more than it wrote.                                         *)
Pages ==
  /\ source \in [Page -> Id \cup {NoSource}]
  /\ arriving \in [Id -> Nat] /\ read \in [Id -> Nat]
  /\ chatLog \in [Page -> Seq([id : Id, msg : 1..MaxNotify])]
  /\ asked \in 0..MaxPosts
  /\ \A p \in Page : source[p] # NoSource => con[source[p]] # "none"
  /\ \A p, q \in Page : p # q /\ source[p] # NoSource => source[p] # source[q]
  /\ \A c \in Id : read[c] <= arriving[c] /\ arriving[c] <= Len(written[c])

(* What is shown came by a connection that had subscribed. *)
Shows ==
  \A p \in Page : \A n \in DOMAIN chatLog[p] :
    Settled(chatLog[p][n].id) /\ chatLog[p][n].msg <= notified

(* A page stands where its connection does: at the last message it was     *)
(* given, or before the first it will be.                                  *)
Reads ==
  \A p \in Page : \A c \in Id : source[p] = c =>
    /\ read[c] = 0 /\ Settled(c)
         => \A n \in DOMAIN chatLog[p] : chatLog[p][n].msg <= joinedAt[c]
    /\ read[c] > 0
         => LET last == Len(chatLog[p])
            IN  last > 0 /\ chatLog[p][last] = [id |-> c, msg |-> joinedAt[c] + read[c]]

PInv == IInv /\ Pages /\ Shows /\ Reads /\ ShownInOrder

(* Every step of the chat is one of the connections or leaves them alone.  *)
LEMMA PageStep == [ChatNext]_chatVars => [Next]_vars
BY DEF ChatNext, Connect, Lose, OnMsg, Submit, PostMsg, Serve, ChatTick, chatVars, Next

LEMMA BusAges ==
  ASSUME IInv, OneTopicNext
  PROVE  /\ notified' >= notified
         /\ \A c \in Id : Settled(c) => Settled(c)' /\ joinedAt'[c] = joinedAt[c]
         /\ \A c \in Id : Settled(c)' => Settled(c) \/ joinedAt'[c] = notified
<1>0. BInv /\ BusTypeOK /\ notified \in Nat
  BY NotifyAssumption DEF IInv, BInv, Inv1, BusTypeOK
<1>1. ASSUME NEW c \in Id, Subscribe(Chat, c)
      PROVE  /\ UNCHANGED <<notified, joinedAt>>
             /\ \A d \in Id : Settled(d)' <=> Settled(d)
  <2>1. /\ ticks' = Append(ticks, InsertTick(Chat, c)) /\ UNCHANGED <<notified, joinedAt>>
        /\ c \notin Issued /\ \A d \in Id : topicOf'[d] = IF d = c THEN Chat ELSE topicOf[d]
    BY <1>0, <1>1 DEF Subscribe, seenVars, BusTypeOK
  <2>2. InsertTick(Chat, c) \in TickSet
    BY ChatAssumption, TickFields
  <2>3. \A d \in Id : Queued("insert", d)' <=> Queued("insert", d) \/ d = c
    BY <1>0, <2>1, <2>2, AddOne DEF Queued, InsertTick
  <2>4. QED
    BY <2>1, <2>3 DEF Settled, Issued
<1>2. ASSUME NEW c \in Id, Unsubscribe(c)
      PROVE  /\ UNCHANGED <<notified, joinedAt>>
             /\ \A d \in Id : Settled(d)' <=> Settled(d)
  <2>1. /\ ticks' = Append(ticks, EraseTick(topicOf[c], c))
        /\ UNCHANGED <<notified, joinedAt, topicOf>>
        /\ topicOf[c] \in Topic
    BY <1>0, <1>2 DEF Unsubscribe, seenVars, BusTypeOK, Issued
  <2>2. EraseTick(topicOf[c], c) \in TickSet
    BY <2>1, TickFields
  <2>3. \A d \in Id : Queued("insert", d)' <=> Queued("insert", d)
    BY <1>0, <2>1, <2>2, AddOne DEF Queued, EraseTick
  <2>4. QED
    BY <2>1, <2>3 DEF Settled, Issued
<1>3. ASSUME Notify(Chat)
      PROVE  /\ notified' = notified + 1 /\ UNCHANGED joinedAt
             /\ \A d \in Id : Settled(d)' <=> Settled(d)
  <2>1. notified + 1 \in 1..MaxNotify /\ UNCHANGED <<joinedAt, topicOf>> /\ notified' = notified + 1
    BY <1>0, <1>3, NotifyAssumption DEF Notify, seenVars
  <2>2. PICK s \in Deliveries(Chat, notified + 1) : ticks' = ticks \o s
    BY <1>3 DEF Notify
  <2>3. s \in Seq(TickSet) /\ \A k \in DOMAIN s : s[k].do = "deliver"
    BY <1>0, <2>1, <2>2, ChatAssumption, OneDeliveryEach DEF BInv, Inv1, FiniteSubs
  <2>4. /\ \A k \in DOMAIN ticks : k \in DOMAIN ticks' /\ ticks'[k] = ticks[k]
        /\ \A k \in DOMAIN ticks' : k \in DOMAIN ticks \/ ticks'[k].do = "deliver"
    BY <1>0, <2>2, <2>3, AddMany
  <2>5. \A d \in Id : Queued("insert", d)' <=> Queued("insert", d)
    BY <2>4 DEF Queued
  <2>6. QED
    BY <2>1, <2>5 DEF Settled, Issued
<1>4. ASSUME RunTick
      PROVE  /\ UNCHANGED notified
             /\ \A d \in Id : Settled(d) => Settled(d)' /\ joinedAt'[d] = joinedAt[d]
             /\ \A d \in Id : Settled(d)' => Settled(d) \/ joinedAt'[d] = notified
  <2>1. PICK h : h = ticks[1]
    OBVIOUS
  <2>2. ticks # <<>> /\ ticks' = Tail(ticks) /\ UNCHANGED <<topicOf, notified>>
    BY <1>4 DEF RunTick
  <2>3. /\ 1 \in DOMAIN ticks /\ Head(ticks) = h
        /\ \A k \in DOMAIN ticks' : k + 1 \in DOMAIN ticks /\ ticks'[k] = ticks[k + 1]
        /\ \A k \in DOMAIN ticks : k = 1 \/ (k - 1 \in DOMAIN ticks' /\ ticks[k] = ticks'[k - 1])
    BY <1>0, <2>1, <2>2, HeadTail
  <2>4. \A d \in Id : Queued("insert", d)' => Queued("insert", d)
    BY <2>3 DEF Queued
  <2>5. \A d \in Id : Queued("insert", d) => Queued("insert", d)' \/ (h.do = "insert" /\ h.id = d)
    BY <2>1, <2>3 DEF Queued
  <2>6. CASE RunInsert(h)
    <3>1. h.do = "insert" /\ joinedAt' = [joinedAt EXCEPT ![h.id] = notified] /\ Queued("insert", h.id)
      BY <2>1, <2>3, <2>6 DEF RunInsert, Queued
    <3>2. \A d \in Id : d # h.id => joinedAt'[d] = joinedAt[d]
      BY <1>0, <3>1 DEF BusTypeOK
    <3>3. h.id \in Id => joinedAt'[h.id] = notified
      BY <1>0, <3>1 DEF BusTypeOK
    <3>4. QED
      BY <2>2, <2>4, <2>5, <3>1, <3>2, <3>3 DEF Settled, Issued
  <2>7. CASE RunErase(h) \/ RunDeliver(h)
    <3>1. h.do # "insert" /\ UNCHANGED joinedAt
      BY <2>7 DEF RunErase, RunDeliver
    <3>2. QED
      BY <2>2, <2>4, <2>5, <3>1 DEF Settled, Issued
  <2>8. RunInsert(h) \/ RunErase(h) \/ RunDeliver(h)
    BY <1>4, <2>3 DEF RunTick
  <2>9. QED
    BY <2>6, <2>7, <2>8
<1>5. QED
  BY <1>0, <1>1, <1>2, <1>3, <1>4 DEF OneTopicNext

(* A message raised stays raised, a subscription that took effect keeps    *)
(* the place it did, and one that takes effect starts at the end.          *)
LEMMA ServerAges ==
  ASSUME IInv, [Next]_vars
  PROVE  /\ notified' >= notified
         /\ \A c \in Id : Settled(c) => Settled(c)' /\ joinedAt'[c] = joinedAt[c]
         /\ \A c \in Id : Settled(c)' => Settled(c) \/ joinedAt'[c] = notified
<1>1. CASE OneTopicNext
  BY <1>1, BusAges
<1>2. CASE UNCHANGED busVars
  <2>1. notified \in Nat
    BY NotifyAssumption DEF IInv, BInv, Inv1, BusTypeOK
  <2>2. QED
    BY <1>2, <2>1 DEF busVars, Settled, Issued, Queued
<1>3. QED
  BY <1>1, <1>2, StepOnBus DEF vars

LEMMA WrittenGrows ==
  ASSUME IInv, [Next]_vars, NEW c \in Id
  PROVE  /\ Len(written[c]) <= Len(written'[c])
         /\ con[c] # "none" => con'[c] # "none"
<1>1. /\ written \in [Id -> Seq(1..MaxNotify)]
      /\ con \in [Id -> {"none", "flushing", "lost", "open", "closed"}]
  BY DEF IInv, Lives, Kinds
<1>2. CASE BusTick
  <2>1. UNCHANGED con
    BY <1>2 DEF BusTick
  <2>2. ASSUME NEW d \in Id, NEW m \in 1..MaxNotify, Send(d, m)
        PROVE  Len(written[c]) <= Len(written'[c])
    <3>1. written'[c] = written[c] \/ written'[c] = Append(written[c], m)
      BY <1>1, <2>2 DEF Send
    <3>2. PICK w \in Seq(1..MaxNotify) : w = written[c]
      BY <1>1
    <3>3. Len(w) \in Nat /\ Len(Append(w, m)) = Len(w) + 1
      BY <3>2, OneMore
    <3>4. QED
      BY <3>1, <3>2, <3>3
  <2>3. CASE UNCHANGED written
    <3>1. PICK len \in Nat : len = Len(written[c])
      BY <1>1
    <3>2. Len(written'[c]) = len
      BY <2>3, <3>1
    <3>3. QED
      BY <2>1, <3>1, <3>2
  <2>4. QED
    BY <1>2, <2>1, <2>2, <2>3, TickSends DEF IInv
<1>3. CASE ~BusTick
  <2>1. UNCHANGED written
    BY <1>3 DEF Next, Handshake, FlushFails, Run, RunThrows, CloseTick, Close, WriteDone, WriteFails,
                Break, Post, sseVars, vars
  <2>2. con'[c] = con[c] \/ con'[c] \in {"flushing", "lost", "open", "closed"}
    BY <1>1, <1>3 DEF Next, Handshake, FlushFails, Run, RunThrows, CloseTick, Close, Dispose, WriteDone,
                WriteFails, Break, Post, sseVars, vars
  <2>3. QED
    BY <1>1, <2>1, <2>2
<1>4. QED
  BY <1>2, <1>3

-----------------------------------------------------------------------------
(* Pages keep their places. *)

LEMMA LogEntry ==
  ASSUME Pages, NEW p \in Page, NEW n \in DOMAIN chatLog[p]
  PROVE  chatLog[p][n].id \in Id /\ chatLog[p][n].msg \in 1..MaxNotify /\ chatLog[p][n].msg \in Nat
<1>1. PICK log \in Seq([id : Id, msg : 1..MaxNotify]) : log = chatLog[p]
  BY DEF Pages
<1>2. n \in 1..Len(log)
  BY <1>1
<1>3. log[n] \in [id : Id, msg : 1..MaxNotify]
  BY <1>2, ElementOfSeq
<1>4. QED
  BY <1>1, <1>3, NotifyAssumption

LEMMA PlacesStay ==
  ASSUME PInv, [Next]_vars, UNCHANGED <<read, chatLog>>,
         \A p \in Page : source'[p] \in {source[p], NoSource}
  PROVE  Shows' /\ Reads' /\ ShownInOrder'
<1>1. /\ notified' >= notified /\ notified \in Nat /\ notified' \in Nat
      /\ \A c \in Id : Settled(c) => Settled(c)' /\ joinedAt'[c] = joinedAt[c]
      /\ \A c \in Id : Settled(c)' => Settled(c) \/ joinedAt'[c] = notified
  <2>1. IInv'
    BY IInvStep DEF PInv
  <2>2. notified \in Nat /\ notified' \in Nat
    BY <2>1, NotifyAssumption DEF PInv, IInv, BInv, Inv1, BusTypeOK
  <2>3. QED
    BY <2>2, ServerAges DEF PInv
<1>2. \A p \in Page : \A n \in DOMAIN chatLog[p] :
        /\ chatLog[p][n].id \in Id /\ chatLog[p][n].msg \in Nat /\ chatLog[p][n].msg <= notified
        /\ Settled(chatLog[p][n].id)
  BY LogEntry DEF PInv, Shows
<1>3. Shows'
  BY <1>1, <1>2 DEF Shows
<1>4. ShownInOrder'
  BY <1>1, <1>2 DEF PInv, ShownInOrder
<1>5. ASSUME NEW c \in Id, read[c] > 0 PROVE Settled(c)
  <2>1. arriving[c] > 0 /\ Len(written[c]) > 0
    BY <1>5 DEF PInv, Pages, IInv, Lives, Kinds
  <2>2. delivered[c] # <<>>
    BY <2>1, NoMoreThanPosted DEF PInv
  <2>3. QED
    BY <2>2 DEF PInv, IInv, BInv, Heard, Fresh, Settled
<1>6. Reads'
  <2> SUFFICES ASSUME NEW p \in Page, NEW c \in Id, source'[p] = c
               PROVE  /\ read[c] = 0 /\ Settled(c)'
                           => \A n \in DOMAIN chatLog[p] : chatLog[p][n].msg <= joinedAt'[c]
                      /\ read[c] > 0
                           => /\ Len(chatLog[p]) > 0
                              /\ chatLog[p][Len(chatLog[p])] = [id |-> c, msg |-> joinedAt'[c] + read[c]]
    BY DEF Reads
  <2>1. source[p] = c
    BY SourceAssumption
  <2>2. CASE read[c] = 0 /\ Settled(c)'
    <3>1. CASE Settled(c)
      <4>1. \A n \in DOMAIN chatLog[p] : chatLog[p][n].msg <= joinedAt[c]
        BY <2>1, <2>2, <3>1 DEF PInv, Reads
      <4>2. QED
        BY <1>1, <2>2, <3>1, <4>1
    <3>2. CASE joinedAt'[c] = notified
      BY <1>2, <2>2, <3>2
    <3>3. QED
      BY <1>1, <2>2, <3>1, <3>2
  <2>3. CASE read[c] > 0
    BY <1>1, <1>5, <2>1, <2>3 DEF PInv, Reads
  <2>4. QED
    BY <2>2, <2>3 DEF PInv, Pages
<1>7. QED
  BY <1>3, <1>4, <1>6

LEMMA PlacesOnConnect ==
  ASSUME PInv, NEW p \in Page, NEW c \in Id, Connect(p, c)
  PROVE  Pages' /\ Shows' /\ Reads' /\ ShownInOrder'
<1>1. /\ con[c] = "none" /\ con' = [con EXCEPT ![c] = "flushing"]
      /\ source[p] = NoSource /\ source' = [source EXCEPT ![p] = c]
      /\ UNCHANGED <<busVars, written, arriving, read, chatLog, asked>>
  BY DEF Connect, Handshake
<1>2. /\ \A q \in Page \ {p} : source'[q] = source[q] /\ source'[p] = c
      /\ source'[p] = c
      /\ \A q \in Page : source[q] # c
      /\ con'[c] = "flushing" /\ \A d \in Id \ {c} : con'[d] = con[d]
  <2>1. \A q \in Page : source[q] # c
    BY <1>1, SourceAssumption DEF PInv, Pages
  <2>2. QED
    BY <1>1, <2>1 DEF PInv, Pages, IInv, Lives, Kinds
<1>3. Pages'
  <2>1. source' \in [Page -> Id \cup {NoSource}]
    BY <1>1 DEF PInv, Pages
  <2>2. \A q \in Page : source'[q] # NoSource => con'[source'[q]] # "none"
    <3>1. ASSUME NEW q \in Page, q # p, source[q] # NoSource
          PROVE  con'[source[q]] # "none"
      BY <1>2, <3>1 DEF PInv, Pages
    <3>2. QED
      BY <1>2, <3>1
  <2>3. \A q, r \in Page : q # r /\ source'[q] # NoSource => source'[q] # source'[r]
    <3>1. ASSUME NEW q \in Page, NEW r \in Page, q # r, source'[q] # NoSource
          PROVE  source'[q] # source'[r]
      <4>1. CASE q = p
        BY <1>2, <3>1, <4>1
      <4>2. CASE r = p
        BY <1>2, <3>1, <4>2
      <4>3. CASE q # p /\ r # p
        BY <1>2, <3>1, <4>3 DEF PInv, Pages
      <4>4. QED
        BY <4>1, <4>2, <4>3
    <3>2. QED
      BY <3>1
  <2>4. QED
    BY <1>1, <2>1, <2>2, <2>3 DEF PInv, Pages
<1>4. Shows' /\ ShownInOrder'
  BY <1>1 DEF PInv, Shows, ShownInOrder, Settled, Issued, Queued, busVars
<1>5. c \notin Issued /\ read[c] = 0
  <2>1. c \notin Issued
    BY <1>1 DEF PInv, IInv, Lives, Stages
  <2>2. written[c] = <<>>
    BY <2>1, IInvTypes DEF TypeOK, PInv
  <2>3. Len(written[c]) = 0
    BY <2>2
  <2>4. QED
    BY <2>1, <2>3 DEF PInv, Pages
<1>6. ~Settled(c)' /\ \A d \in Id : Settled(d)' <=> Settled(d)
  BY <1>1, <1>5 DEF Settled, Issued, Queued, busVars
<1>7. Reads'
  <2> SUFFICES ASSUME NEW q \in Page, NEW d \in Id, source'[q] = d
               PROVE  /\ read[d] = 0 /\ Settled(d)'
                           => \A n \in DOMAIN chatLog[q] : chatLog[q][n].msg <= joinedAt[d]
                      /\ read[d] > 0
                           => /\ Len(chatLog[q]) > 0
                              /\ chatLog[q][Len(chatLog[q])] = [id |-> d, msg |-> joinedAt[d] + read[d]]
    BY <1>1 DEF Reads, busVars
  <2>1. CASE q = p
    BY <1>2, <1>5, <1>6, <2>1
  <2>2. CASE q # p
    BY <1>2, <1>6, <2>2 DEF PInv, Reads
  <2>3. QED
    BY <2>1, <2>2
<1>8. QED
  BY <1>3, <1>4, <1>7

LEMMA PlacesOnMsg ==
  ASSUME PInv, NEW p \in Page, OnMsg(p)
  PROVE  Pages' /\ Shows' /\ Reads' /\ ShownInOrder'
<1>1. PICK c \in Id : c = source[p] /\ source[p] # NoSource
  BY DEF OnMsg, PInv, Pages
<1>2. PICK at \in Nat : at = read[c] /\ at < arriving[c]
  BY <1>1 DEF OnMsg, PInv, Pages
<1>3. PICK log \in Seq([id : Id, msg : 1..MaxNotify]) : log = chatLog[p]
  BY DEF PInv, Pages
<1>4. PICK entry : entry = [id |-> c, msg |-> written[c][at + 1]]
  OBVIOUS
<1>5. PICK new : new = Append(log, entry)
  OBVIOUS
<1>6. /\ read' = [read EXCEPT ![c] = at + 1] /\ chatLog' = [chatLog EXCEPT ![p] = new]
      /\ UNCHANGED <<vars, source, arriving, asked>>
  BY <1>1, <1>2, <1>3, <1>4, <1>5 DEF OnMsg, RenderMsg
<1>7. /\ read'[c] = at + 1 /\ \A d \in Id \ {c} : read'[d] = read[d]
      /\ chatLog'[p] = new /\ \A q \in Page \ {p} : chatLog'[q] = chatLog[q]
      /\ UNCHANGED <<con, topicOf, ticks, notified, joinedAt, written, source, arriving>>
  BY <1>6 DEF PInv, Pages, vars, busVars, sseVars, seenVars
<1>8. /\ entry.id = c /\ entry.msg = joinedAt[c] + at + 1 /\ joinedAt[c] \in Nat
      /\ entry.msg \in 1..MaxNotify /\ entry.msg <= notified /\ Settled(c)
  <2>1. PICK w \in Seq(1..MaxNotify) : w = written[c]
    BY DEF PInv, IInv, Lives, Kinds
  <2>2. at + 1 \in 1..Len(w) /\ at + 1 \in DOMAIN w
    BY <1>2, <2>1 DEF PInv, Pages
  <2>3. w[at + 1] \in 1..MaxNotify
    BY <2>2, ElementOfSeq
  <2>4. /\ at + 1 \in DOMAIN delivered[c] /\ w[at + 1] = delivered[c][at + 1]
        /\ w[at + 1] = joinedAt[c] + (at + 1)
    BY <2>1, <2>2, WrittenInTurn DEF PInv
  <2>5. w[at + 1] <= notified
    BY <2>4 DEF PInv, IInv, BInv, Heard, Past
  <2>6. Settled(c)
    <3>1. delivered[c] # <<>>
      BY <2>4
    <3>2. QED
      BY <3>1 DEF PInv, IInv, BInv, Heard, Fresh, Settled
  <2>7. joinedAt[c] \in Nat
    BY NotifyAssumption DEF PInv, IInv, BInv, Inv1, BusTypeOK
  <2>8. QED
    BY <1>2, <1>4, <2>1, <2>3, <2>4, <2>5, <2>6, <2>7
<1>9. entry \in [id : Id, msg : 1..MaxNotify]
  BY <1>4, <1>8
<1>10. /\ Len(new) = Len(log) + 1 /\ Len(log) \in Nat
       /\ \A n \in DOMAIN new : \/ n \in DOMAIN log /\ new[n] = log[n]
                                \/ n = Len(log) + 1 /\ new[n] = entry
  BY <1>5, <1>9, OneMore
<1>11. /\ new \in Seq([id : Id, msg : 1..MaxNotify]) /\ new[Len(log) + 1] = entry
       /\ DOMAIN log = 1..Len(log) /\ DOMAIN new = 1..Len(log) + 1
       /\ \A n \in 1..Len(log) : new[n] = log[n]
  BY <1>5, <1>9
<1>12. \A d \in Id : Settled(d)' <=> Settled(d)
  BY <1>7 DEF Settled, Issued, Queued
<1>13. Pages'
  <2>1. read' \in [Id -> Nat] /\ chatLog' \in [Page -> Seq([id : Id, msg : 1..MaxNotify])]
    <3>1. read \in [Id -> Nat] /\ chatLog \in [Page -> Seq([id : Id, msg : 1..MaxNotify])]
      BY DEF PInv, Pages
    <3>2. read' \in [Id -> Nat]
      BY <1>6, <3>1
    <3>3. chatLog' \in [Page -> Seq([id : Id, msg : 1..MaxNotify])]
      BY <1>6, <1>11, <3>1
    <3>4. QED
      BY <3>2, <3>3
  <2>2. \A d \in Id : read'[d] <= arriving[d]
    <3>1. read'[c] <= arriving[c]
      BY <1>2, <1>7 DEF PInv, Pages
    <3>2. QED
      BY <1>7, <3>1 DEF PInv, Pages
  <2>3. /\ source \in [Page -> Id \cup {NoSource}] /\ arriving \in [Id -> Nat] /\ asked \in 0..MaxPosts
        /\ \A q \in Page : source[q] # NoSource => con[source[q]] # "none"
        /\ \A q, r \in Page : q # r /\ source[q] # NoSource => source[q] # source[r]
        /\ \A d \in Id : arriving[d] <= Len(written[d])
    BY DEF PInv, Pages
  <2>4. QED
    <3>1. UNCHANGED <<source, arriving, asked, con, written>>
      BY <1>6, <1>7
    <3>2. QED
      BY <2>1, <2>2, <2>3, <3>1 DEF Pages
<1>14. Shows'
  <2> SUFFICES ASSUME NEW q \in Page, NEW n \in DOMAIN chatLog'[q]
               PROVE  Settled(chatLog'[q][n].id) /\ chatLog'[q][n].msg <= notified
    <3>1. ASSUME NEW q \in Page, NEW n \in DOMAIN chatLog'[q]
          PROVE  chatLog'[q][n].id \in Id
      BY <1>7, <1>8, <1>10, <1>3, LogEntry, <3>1 DEF PInv
    <3>2. QED
      BY <1>7, <1>12, <3>1 DEF Shows
  <2>1. CASE q # p
    BY <1>7, <2>1 DEF PInv, Shows
  <2>2. CASE q = p
    BY <1>3, <1>7, <1>8, <1>10, <2>2 DEF PInv, Shows
  <2>3. QED
    BY <2>1, <2>2
<1>15. Reads'
  <2> SUFFICES ASSUME NEW q \in Page, NEW d \in Id, source[q] = d
               PROVE  /\ read'[d] = 0 /\ Settled(d)
                           => \A n \in DOMAIN chatLog'[q] : chatLog'[q][n].msg <= joinedAt[d]
                      /\ read'[d] > 0
                           => /\ Len(chatLog'[q]) > 0
                              /\ chatLog'[q][Len(chatLog'[q])] = [id |-> d, msg |-> joinedAt[d] + read'[d]]
    BY <1>7, <1>12 DEF Reads
  <2>1. CASE q = p
    <3>1. d = c
      BY <1>1, <2>1
    <3>2. entry = [id |-> c, msg |-> joinedAt[c] + (at + 1)]
      BY <1>2, <1>4, <1>8
    <3>3. Len(new) > 0 /\ new[Len(new)] = entry /\ at + 1 > 0
      BY <1>2, <1>10, <1>11
    <3>4. QED
      BY <1>7, <2>1, <3>1, <3>2, <3>3
  <2>2. CASE q # p
    <3>1. d # c
      BY <1>1, <2>2, SourceAssumption DEF PInv, Pages
    <3>2. QED
      BY <1>7, <2>2, <3>1 DEF PInv, Reads
  <2>3. QED
    BY <2>1, <2>2
(* What comes next is one more than what came last from the connection,    *)
(* and more than all there was before the connection's first.              *)
<1>16. Len(log) > 0 => log[Len(log)].msg < entry.msg
  <2>1. CASE at = 0
    <3>1. Len(log) > 0 => log[Len(log)].msg <= joinedAt[c]
      <4>1. \A n \in DOMAIN log : log[n].msg <= joinedAt[c]
        BY <1>1, <1>2, <1>3, <1>8, <2>1 DEF PInv, Reads
      <4>2. Len(log) > 0 => Len(log) \in DOMAIN log
        BY <1>10, <1>11
      <4>3. QED
        BY <4>1, <4>2
    <3>2. Len(log) > 0 => log[Len(log)].msg \in Nat
      BY <1>3, <1>11, LogEntry DEF PInv
    <3>3. QED
      BY <1>8, <2>1, <3>1, <3>2
  <2>2. CASE at > 0
    <3>1. log[Len(log)] = [id |-> c, msg |-> joinedAt[c] + at]
      BY <1>1, <1>2, <1>3, <2>2 DEF PInv, Reads
    <3>2. QED
      BY <1>2, <1>8, <3>1
  <2>3. QED
    BY <1>2, <2>1, <2>2
<1>17. entry.msg > joinedAt[c] + 1
         => Len(log) > 0 /\ log[Len(log)] = [id |-> c, msg |-> entry.msg - 1]
  <2> SUFFICES ASSUME entry.msg > joinedAt[c] + 1
               PROVE  Len(log) > 0 /\ log[Len(log)] = [id |-> c, msg |-> entry.msg - 1]
    OBVIOUS
  <2>1. at > 0 /\ entry.msg - 1 = joinedAt[c] + at
    BY <1>2, <1>8
  <2>2. QED
    BY <1>1, <1>2, <1>3, <2>1 DEF PInv, Reads
<1>18. ShownInOrder'
  <2> SUFFICES ASSUME NEW q \in Page, NEW n \in DOMAIN chatLog'[q]
               PROVE  /\ n > 1 => chatLog'[q][n - 1].msg < chatLog'[q][n].msg
                      /\ chatLog'[q][n].msg > joinedAt[chatLog'[q][n].id] + 1
                           => n > 1 /\ chatLog'[q][n - 1] = [id |-> chatLog'[q][n].id,
                                                             msg |-> chatLog'[q][n].msg - 1]
    BY <1>7 DEF ShownInOrder
  <2>1. CASE q # p
    BY <1>7, <2>1 DEF PInv, ShownInOrder
  <2>2. CASE q = p /\ n \in 1..Len(log)
    <3>1. /\ n > 1 => log[n - 1].msg < log[n].msg
          /\ log[n].msg > joinedAt[log[n].id] + 1
               => n > 1 /\ log[n - 1] = [id |-> log[n].id, msg |-> log[n].msg - 1]
      BY <1>3, <1>11, <2>2 DEF PInv, ShownInOrder
    <3>2. new[n] = log[n] /\ (n > 1 => new[n - 1] = log[n - 1])
      BY <1>10, <1>11, <2>2
    <3>3. QED
      BY <1>7, <2>2, <3>1, <3>2
  <2>3. CASE q = p /\ n = Len(log) + 1
    <3>1. new[n] = entry /\ (n > 1 => Len(log) > 0 /\ new[n - 1] = log[Len(log)])
      BY <1>10, <1>11, <2>3
    <3>2. Len(log) > 0 => n > 1
      BY <1>10, <2>3
    <3>3. QED
      BY <1>7, <1>8, <1>16, <1>17, <2>3, <3>1, <3>2
  <2>4. QED
    BY <1>7, <1>11, <2>1, <2>2, <2>3
<1>19. QED
  BY <1>13, <1>14, <1>15, <1>18

LEMMA PInvInit == ChatInit => PInv
<1> SUFFICES ASSUME ChatInit PROVE PInv
  OBVIOUS
<1>1. Init
  BY DEF ChatInit
<1>2. IInv
  BY <1>1, IInvInit
<1>3. \A p \in Page : source[p] = NoSource /\ chatLog[p] = <<>> /\ NoSource \notin Id
  BY SourceAssumption DEF ChatInit
<1>4. \A c \in Id : arriving[c] = 0 /\ read[c] = 0 /\ Len(written[c]) = 0
  BY <1>1 DEF ChatInit, Init
<1>5. Pages
  BY <1>3, <1>4, PostsAssumption DEF ChatInit, Pages
<1>6. QED
  BY <1>2, <1>3, <1>5 DEF PInv, Shows, Reads, ShownInOrder

LEMMA PInvStep == PInv /\ [ChatNext]_chatVars => PInv'
<1> SUFFICES ASSUME PInv, [ChatNext]_chatVars PROVE PInv'
  OBVIOUS
<1>1. [Next]_vars /\ IInv'
  BY PageStep, IInvStep DEF PInv
<1>2. ASSUME NEW p \in Page, NEW c \in Id, Connect(p, c) PROVE PInv'
  BY <1>1, <1>2, PlacesOnConnect DEF PInv
<1>3. ASSUME NEW p \in Page, OnMsg(p) PROVE PInv'
  BY <1>1, <1>3, PlacesOnMsg DEF PInv
(* In every other step pages at most lose their connection. *)
<1>4. ASSUME UNCHANGED <<read, chatLog>>, asked' \in 0..MaxPosts,
             \A p \in Page : source'[p] \in {source[p], NoSource},
             source' \in [Page -> Id \cup {NoSource}],
             arriving' \in [Id -> Nat],
             \A c \in Id : arriving'[c] \in {arriving[c], Len(written'[c])}
      PROVE  PInv'
  <2>1. Shows' /\ Reads' /\ ShownInOrder'
    BY <1>1, <1>4, PlacesStay
  <2>2. \A c \in Id : read'[c] <= arriving'[c] /\ arriving'[c] <= Len(written'[c])
    <3>1. ASSUME NEW c \in Id
          PROVE  /\ read[c] <= arriving[c] /\ arriving[c] <= Len(written[c])
                 /\ Len(written[c]) <= Len(written'[c])
                 /\ read[c] \in Nat /\ arriving[c] \in Nat
                 /\ Len(written[c]) \in Nat /\ Len(written'[c]) \in Nat
      <4>1. written[c] \in Seq(1..MaxNotify) /\ written'[c] \in Seq(1..MaxNotify)
        BY <1>1 DEF PInv, IInv, Lives, Kinds
      <4>2. Len(written[c]) \in Nat /\ Len(written'[c]) \in Nat
        BY <4>1
      <4>3. QED
        BY <1>1, <4>2, WrittenGrows DEF PInv, Pages
    <3>2. ASSUME NEW c \in Id
          PROVE  read'[c] <= arriving'[c] /\ arriving'[c] <= Len(written'[c])
      BY <1>4, <3>1
    <3>3. QED
      BY <3>2
  <2>3. \A p \in Page : source'[p] # NoSource => con'[source'[p]] # "none"
    <3>1. ASSUME NEW p \in Page, source'[p] # NoSource PROVE con'[source'[p]] # "none"
      <4>1. source'[p] = source[p] /\ source[p] \in Id /\ con[source[p]] # "none"
        BY <1>4, <3>1 DEF PInv, Pages
      <4>2. QED
        BY <1>1, <4>1, WrittenGrows DEF PInv
    <3>2. QED
      BY <3>1
  <2>4. \A p, q \in Page : p # q /\ source'[p] # NoSource => source'[p] # source'[q]
    BY <1>4 DEF PInv, Pages
  <2>5. Pages'
    BY <1>4, <2>2, <2>3, <2>4 DEF PInv, Pages
  <2>6. QED
    BY <1>1, <2>1, <2>5 DEF PInv
<1>5. source \in [Page -> Id \cup {NoSource}] /\ arriving \in [Id -> Nat] /\ asked \in 0..MaxPosts
  BY DEF PInv, Pages
<1>6. CASE UNCHANGED <<source, arriving, read, chatLog>> /\ asked' \in 0..MaxPosts
  BY <1>4, <1>5, <1>6
<1>7. ASSUME NEW p \in Page, Lose(p) PROVE PInv'
  <2>1. /\ source' = [source EXCEPT ![p] = NoSource]
        /\ UNCHANGED <<arriving, read, chatLog, asked>>
    BY <1>7 DEF Lose
  <2>2. source' \in [Page -> Id \cup {NoSource}] /\ \A q \in Page : source'[q] \in {source[q], NoSource}
    BY <1>5, <2>1
  <2>3. QED
    BY <1>4, <1>5, <2>1, <2>2
<1>8. Submit \/ PostMsg => UNCHANGED <<source, arriving, read, chatLog>> /\ asked' \in 0..MaxPosts
  BY <1>5, PostsAssumption DEF Submit, PostMsg
<1>9. (\E c \in Id : Serve(c)) \/ UNCHANGED chatVars
        => UNCHANGED <<source, arriving, read, chatLog>> /\ asked' \in 0..MaxPosts
  BY <1>5 DEF Serve, pageVars, chatVars
<1>10. ASSUME ChatTick PROVE PInv'
  <2>1. /\ UNCHANGED <<source, read, chatLog, asked>>
        /\ arriving' = [c \in Id |-> IF net[c] = "up" THEN Len(written'[c]) ELSE arriving[c]]
    BY <1>10 DEF ChatTick
  <2>2. \A c \in Id : Len(written'[c]) \in Nat
    <3>1. \A c \in Id : written'[c] \in Seq(1..MaxNotify)
      BY <1>1 DEF IInv, Lives, Kinds
    <3>2. QED
      BY <3>1
  <2>3. arriving' \in [Id -> Nat] /\ \A c \in Id : arriving'[c] \in {arriving[c], Len(written'[c])}
    BY <1>5, <2>1, <2>2
  <2>4. QED
    BY <1>4, <1>5, <2>1, <2>3
<1>11. QED
  BY <1>2, <1>3, <1>6, <1>7, <1>8, <1>9, <1>10 DEF ChatNext

(* The chat on top leaves the connections and the bus what they are.       *)
THEOREM PagesImplementBus == ChatSpec => BusSpec
<1>1. ChatInit => BusInit
  BY DEF ChatInit, Init
<1>2. [ChatNext]_chatVars => [BusNext]_busVars
  BY PageStep, StepIsBusStep
<1>3. QED
  BY <1>1, <1>2, PTL DEF ChatSpec, BusSpec

(* Types; a connection has one page, and gives it no more than was written.*)
THEOREM PageTypesHold == ChatSpec => []PageTypeOK
<1>1. PInv => PageTypeOK
  BY IInvTypes DEF PInv, Pages, PageTypeOK
<1>2. QED
  BY <1>1, PInvInit, PInvStep, PTL DEF ChatSpec

(* A page shows each message at most once and in the order they were       *)
(* raised, over any number of lost connections, and nothing is missing     *)
(* between the subscription of a connection and what is shown from it.     *)
THEOREM ShownInOrderHolds == ChatSpec => []ShownInOrder
<1>1. PInv => ShownInOrder
  BY DEF PInv
<1>2. QED
  BY <1>1, PInvInit, PInvStep, PTL DEF ChatSpec

(* The bus never keeps a connection that is gone for longer than the       *)
(* erasure it queued takes.                                                *)
THEOREM GoneIsLeavingHolds == ChatSpec => []GoneIsLeaving
<1>1. PInv => GoneIsLeaving
  BY IInvGone DEF PInv
<1>2. QED
  BY <1>1, PInvInit, PInvStep, PTL DEF ChatSpec
=============================================================================
