--------------------------- MODULE MemorySession ----------------------------
(***************************************************************************)
(* MemorySessionProvider (src/src/session.cpp): sessions and their         *)
(* deadlines in two maps, every call queued with nextTick, and a cleanup   *)
(* timer.  A caller is a request; a call resolves when its tick runs.      *)
(* An operator that stands just before another and bears its name with a   *)
(* suffix is a mutant of it, never used by the actions.                    *)
(***************************************************************************)
EXTENDS Naturals, Sequences, Functions

CONSTANTS Sid,      \* session ids
          Req,      \* requests
          Timeout,  \* session_timeout_
          Period,   \* time between two cleanups
          MaxTime   \* bound of the clock

ASSUME TimesAssumption == Timeout \in Nat /\ Period \in Nat \ {0} /\ MaxTime \in Nat

VARIABLES
  store,    \* map_: the session of each sid, by who logged in
  timeouts, \* timeouts_: when each session expires
  ticks,    \* calls queued with nextTick, first in first out
  now,      \* the clock
  swept     \* when cleanup() last ran

storeVars == <<store, timeouts>>
clockVars == <<now, swept>>

Nobody == "nobody"                \* nobody is logged in: not authenticated
User == Req \cup {Nobody}

Put(f, s, v) == [x \in DOMAIN f \cup {s} |-> IF x = s THEN v ELSE f[x]]
Drop(f, S) == Restrict(f, DOMAIN f \ S)

StoreInit ==
  /\ store = [s \in {} |-> Nobody] /\ timeouts = [s \in {} |-> 0]
  /\ ticks = <<>>
  /\ now = 0 /\ swept = 0   \* the constructor runs cleanup()

Call(what, r, s, u) == [do |-> what, req |-> r, sid |-> s, user |-> u]
Enqueue(c) == ticks' = Append(ticks, c)

GetSession(r, s) == Enqueue(Call("get", r, s, Nobody))
SetSession(r, s, u) == Enqueue(Call("set", r, s, u))
RemoveUserSession(r, s) == Enqueue(Call("remove", r, s, Nobody))

(* What a get resolves with: the stored session, or a new empty one. *)
Found(s) == IF s \in DOMAIN store THEN store[s] ELSE Nobody

(* It is refreshed even when it has expired already. *)
RunGetAfresh(c) ==
  /\ c.do = "get"
  /\ store' = Put(store, c.sid, Nobody)
  /\ timeouts' = Put(timeouts, c.sid, now + Timeout)
RunGet(c) ==
  /\ c.do = "get"
  /\ store' = Put(store, c.sid, Found(c.sid))
  /\ timeouts' = Put(timeouts, c.sid, now + Timeout)

RunSet(c) ==
  /\ c.do = "set"
  /\ store' = Put(store, c.sid, c.user)
  /\ timeouts' = Put(timeouts, c.sid, now + Timeout)

RunRemoveDeadline(c) ==
  /\ c.do = "remove"
  /\ timeouts' = Drop(timeouts, {c.sid})
  /\ UNCHANGED store
RunRemove(c) ==
  /\ c.do = "remove"
  /\ IF c.sid \in DOMAIN store
     THEN store' = Drop(store, {c.sid}) /\ timeouts' = Drop(timeouts, {c.sid})
     ELSE UNCHANGED storeVars

Expired == {s \in DOMAIN timeouts : now > timeouts[s]}

CleanupFirstOnly ==
  /\ now = swept + Period
  /\ swept' = now
  /\ IF Expired = {} THEN UNCHANGED storeVars
     ELSE LET s == CHOOSE x \in Expired : TRUE
          IN store' = Drop(store, {s}) /\ timeouts' = Drop(timeouts, {s})
  /\ UNCHANGED <<ticks, now>>
(* The timer is due Period after the last cleanup; the loop is on time. *)
Cleanup ==
  /\ now = swept + Period
  /\ swept' = now
  /\ store' = Drop(store, Expired)
  /\ timeouts' = Drop(timeouts, Expired)
  /\ UNCHANGED <<ticks, now>>

Tick ==
  /\ now < MaxTime /\ now < swept + Period
  /\ now' = now + 1
  /\ UNCHANGED <<storeVars, ticks, swept>>

-----------------------------------------------------------------------------
(* Properties.                                                             *)

(* The maps and the queued calls keep their types. *)
CallSet == [do : {"get", "set", "remove"}, req : Req, sid : Sid, user : User]

StoreTypeOK ==
  /\ DOMAIN store \subseteq Sid /\ \A s \in DOMAIN store : store[s] \in User
  /\ DOMAIN timeouts \subseteq Sid /\ \A s \in DOMAIN timeouts : timeouts[s] \in Nat
  /\ ticks \in Seq(CallSet)
  /\ now \in Nat /\ swept \in Nat

(* The two maps have the same keys: cleanup(), which walks the deadlines,  *)
(* sees every session, and no deadline is left without its session.        *)
SameKeys == DOMAIN store = DOMAIN timeouts

(* Every session has a deadline in the other map, which is what cleanup()  *)
(* walks, and none, logged in or not, is kept longer than Period past it.  *)
NoneOutlivesSweep ==
  \A s \in DOMAIN store : s \in DOMAIN timeouts /\ now <= timeouts[s] + Period
=============================================================================
