------------------------------ MODULE RedisBus ------------------------------
(***************************************************************************)
(* The event bus shared by several processes through Redis                 *)
(* (src/include/reproweb/json/redisbus.h): the subscriptions of EventBus,  *)
(* and one Redis subscriber per topic that feeds them.  Publishing goes to *)
(* Redis; a message, from this process or another, arrives at a live       *)
(* listener and is then raised like EventBus raises it.  An operator that  *)
(* stands just before another and bears its name with a suffix is a mutant *)
(* of it, never used by the actions.                                       *)
(***************************************************************************)
EXTENDS EventBus

CONSTANTS MaxFail,  \* bound: failures of a Redis connection
          MayClear  \* whether impatient callers use clear()

ASSUME RedisAssumption == MaxFail \in Nat /\ MayClear \in BOOLEAN

VARIABLES
  listeners, \* listeners_: "none", "live", or "failed" and still in the map
  timers,    \* retries of redis_subscribe waiting for their timeout
  fails,     \* failures so far
  crashed,   \* unsubscribe() went through a null listener
  patient    \* callers wait for an unsubscribe to run before they subscribe
             \* to its topic again, and never call clear()

redisVars == <<listeners, timers, fails, crashed>>
redisBusVars == <<busVars, redisVars, patient>>

RedisInit ==
  /\ BusInit
  /\ listeners = [t \in Topic |-> "none"]
  /\ timers = [t \in Topic |-> 0]
  /\ fails = 0
  /\ crashed = FALSE
  /\ patient \in BOOLEAN

EraseQueued(t) == \E k \in DOMAIN ticks : ticks[k].do = "erase" /\ ticks[k].topic = t

(* redis_subscribe: a new subscriber takes the place of the old one. *)
Listen(t) == listeners' = [listeners EXCEPT ![t] = "live"]

RSubscribe(t, i) ==
  /\ ~crashed
  /\ patient => ~EraseQueued(t)
  /\ Subscribe(t, i)
  /\ IF listeners[t] = "none" THEN Listen(t) ELSE UNCHANGED listeners
  /\ UNCHANGED <<timers, fails, crashed, patient>>

RUnsubscribe(i) == ~crashed /\ Unsubscribe(i) /\ UNCHANGED <<redisVars, patient>>

RClear ==
  /\ ~crashed /\ ~patient /\ MayClear
  /\ Clear
  /\ listeners' = [t \in Topic |-> "none"]
  /\ UNCHANGED <<timers, fails, crashed, patient>>

(* A published message arrives and is raised; without a live listener it   *)
(* is lost.                                                                *)
Arrive(t) ==
  /\ ~crashed /\ listeners[t] = "live"
  /\ Notify(t)
  /\ UNCHANGED <<redisVars, patient>>

ListenerFailsTwice(t) ==
  /\ ~crashed /\ listeners[t] = "live" /\ fails < MaxFail
  /\ listeners' = [listeners EXCEPT ![t] = "failed"]
  /\ timers' = [timers EXCEPT ![t] = @ + 2]
  /\ fails' = fails + 1
  /\ UNCHANGED <<busVars, crashed, patient>>
(* The subscriber's error handler asks for another try after a timeout. *)
ListenerFails(t) ==
  /\ ~crashed /\ listeners[t] = "live" /\ fails < MaxFail
  /\ listeners' = [listeners EXCEPT ![t] = "failed"]
  /\ timers' = [timers EXCEPT ![t] = @ + 1]
  /\ fails' = fails + 1
  /\ UNCHANGED <<busVars, crashed, patient>>

(* The try is made whoever is still subscribed. *)
Retry(t) ==
  /\ ~crashed /\ timers[t] > 0
  /\ timers' = [timers EXCEPT ![t] = @ - 1]
  /\ Listen(t)
  /\ UNCHANGED <<busVars, fails, crashed, patient>>

(* After an erasure: the last one out also ends the topic's listener. *)
EndListenerAlways(k) ==
  /\ crashed' = (listeners[k.topic] = "none")
  /\ listeners' = [listeners EXCEPT ![k.topic] = "none"]
EndListener(k) ==
  IF k.do = "erase" /\ subs[k.topic] \subseteq {k.id}
  THEN /\ crashed' = (listeners[k.topic] = "none")
       /\ listeners' = [listeners EXCEPT ![k.topic] = "none"]
  ELSE UNCHANGED <<crashed, listeners>>

RRunTick ==
  /\ ~crashed
  /\ RunTick
  /\ EndListener(Head(ticks))
  /\ UNCHANGED <<timers, fails, patient>>

RedisNext == \/ \E t \in Topic, i \in Id : RSubscribe(t, i)
             \/ \E i \in Id : RUnsubscribe(i)
             \/ \E t \in Topic : Arrive(t)
             \/ \E t \in Topic : ListenerFails(t)
             \/ \E t \in Topic : Retry(t)
             \/ RClear
             \/ RRunTick

RedisSpec == RedisInit /\ [][RedisNext]_redisBusVars

-----------------------------------------------------------------------------
(* Properties.                                                             *)

(* Subscriptions, queued callbacks and listeners keep their types. *)
RedisTypeOK ==
  /\ BusTypeOK
  /\ listeners \in [Topic -> {"none", "live", "failed"}]
  /\ timers \in [Topic -> 0..MaxFail] /\ fails \in 0..MaxFail
  /\ crashed \in BOOLEAN /\ patient \in BOOLEAN

(* The comment in subscribe(): a topic gets a Redis subscriber if it has   *)
(* none.  So a topic with subscriptions has a listener.                    *)
SubscribersHaveListener == \A t \in Topic : subs[t] # {} => listeners[t] # "none"

(* ... which holds as long as nobody subscribes to a topic while one of    *)
(* its unsubscriptions is queued, and then no listener is missed either.   *)
PatientCallersAreServed == patient => SubscribersHaveListener /\ ~crashed

(* A listener that failed is tried again: its retry is pending. *)
FailedIsRetried == \A t \in Topic : listeners[t] = "failed" => timers[t] > 0
=============================================================================
