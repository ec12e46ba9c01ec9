---------------------------- MODULE RedisSession ----------------------------
(***************************************************************************)
(* Sessions in Redis (src/include/reproweb/ctrl/redissession.h) under the  *)
(* SessionFilter of concurrent requests.  Each call of the provider is a   *)
(* chain of commands to a server that may refuse a command, fail before it *)
(* executed it or after, and drops a key whose time to live has run out.   *)
(* A command and its answer are one step: what happens while the answer    *)
(* travels might as well happen before the next command.                   *)
(* An operator that stands just before another and bears its name with a   *)
(* suffix is a mutant of it, never used by the actions.                    *)
(***************************************************************************)
EXTENDS Functions

CONSTANTS Sid,  \* session ids
          Req   \* requests

VARIABLES
  db,        \* the keys in Redis: who is logged in to each session
  limited,   \* those of them that have a time to live
  phase,     \* of each request: its next step, or the command it waits for
  copy,      \* its "_session_": [sid, user, valid]
  used,      \* session ids in use, by clients or the server
  abandoned  \* keys whose time to live got lost with an answer or an EXPIRE

redisVars == <<db, limited>>
vars == <<redisVars, phase, copy, used, abandoned>>

Nobody == "nobody"  \* nobody is logged in: not authenticated
User == Req \cup {Nobody}

Phase == {"new", "GET", "EXPIRE after GET", "handling", "flushing",
          "SET", "EXPIRE after SET", "DEL", "done"}

Init ==
  /\ db = [s \in {} |-> Nobody] /\ limited = {}
  /\ phase = [r \in Req |-> "new"]
  /\ copy = [r \in Req |-> [sid |-> "none", user |-> Nobody, valid |-> TRUE]]
  /\ used = {}
  /\ abandoned = {}

Goes(r, from, to) == phase[r] = from /\ phase' = [phase EXCEPT ![r] = to]

-----------------------------------------------------------------------------
(* The server. *)

Set(s, u) == /\ db' = [x \in DOMAIN db \cup {s} |-> IF x = s THEN u ELSE db[x]]
             /\ limited' = limited \ {s}  \* SET takes the time to live away

Del(S) == /\ db' = Restrict(db, DOMAIN db \ S)
          /\ limited' = limited \ S
          /\ abandoned' = abandoned \ S

Limit(s) == /\ limited' = limited \cup ({s} \cap DOMAIN db)
            /\ abandoned' = abandoned \ {s}
            /\ UNCHANGED db

Expire(s) == /\ s \in limited
             /\ Del({s})
             /\ UNCHANGED <<phase, copy, used>>

-----------------------------------------------------------------------------
(* get_session *)

(* SessionFilter::before makes a session, or fetches the cookie's. *)
BeforeWithoutCookieNoSid(r) ==
  /\ Goes(r, "new", "handling")
  /\ \E s \in Sid \ used : used' = used \cup {s}
  /\ UNCHANGED <<redisVars, copy, abandoned>>
BeforeWithoutCookie(r) ==
  /\ Goes(r, "new", "handling")
  /\ \E s \in Sid \ used : /\ copy' = [copy EXCEPT ![r].sid = s]
                           /\ used' = used \cup {s}
  /\ UNCHANGED <<redisVars, abandoned>>

BeforeWithCookie(r) ==
  /\ Goes(r, "new", "GET")
  /\ \E s \in Sid : /\ copy' = [copy EXCEPT ![r].sid = s]
                    /\ used' = used \cup {s}
  /\ UNCHANGED <<redisVars, abandoned>>

Stored(s) == IF s \in DOMAIN db THEN db[s] ELSE Nobody

Got(r) ==
  /\ Goes(r, "GET", "EXPIRE after GET")
  /\ copy' = [copy EXCEPT ![r].user = Stored(copy[r].sid)]
  /\ UNCHANGED <<redisVars, used, abandoned>>

(* A refused or failed GET resolves with the new session made beforehand. *)
GetFails(r) ==
  /\ Goes(r, "GET", "handling")
  /\ UNCHANGED <<redisVars, copy, used, abandoned>>

Touched(r) ==
  /\ Goes(r, "EXPIRE after GET", "handling")
  /\ Limit(copy[r].sid)
  /\ UNCHANGED <<copy, used>>

(* A refused or failed EXPIRE resolves with what the GET found. *)
TouchFails(r) ==
  /\ Goes(r, "EXPIRE after GET", "handling")
  /\ UNCHANGED <<redisVars, copy, used, abandoned>>

-----------------------------------------------------------------------------
(* The handler, and SessionFilter::after. *)

Handle(r) ==
  /\ Goes(r, "handling", "flushing")
  /\ \E c \in {copy[r],                                             \* only looks
               [copy[r] EXCEPT !.user = r],                         \* login
               [copy[r] EXCEPT !.user = Nobody, !.valid = FALSE]} : \* invalidate_session
       copy' = [copy EXCEPT ![r] = c]
  /\ UNCHANGED <<redisVars, used, abandoned>>

After(r) ==
  /\ Goes(r, "flushing", IF copy[r].valid THEN "SET" ELSE "DEL")
  /\ UNCHANGED <<redisVars, copy, used, abandoned>>

-----------------------------------------------------------------------------
(* set_session *)

SetOnly(r) ==
  /\ Goes(r, "SET", "done")
  /\ Set(copy[r].sid, copy[r].user)
  /\ UNCHANGED <<copy, used, abandoned>>
Stores(r) ==
  /\ Goes(r, "SET", "EXPIRE after SET")
  /\ Set(copy[r].sid, copy[r].user)
  /\ UNCHANGED <<copy, used, abandoned>>

(* Nobody looks whether the answer is an error. *)
SetRefused(r) ==
  /\ Goes(r, "SET", "EXPIRE after SET")
  /\ UNCHANGED <<redisVars, copy, used, abandoned>>

SetFailsTriesAgain(r) ==
  /\ Goes(r, "SET", "SET")
  /\ \/ UNCHANGED <<redisVars, abandoned>>
     \/ Set(copy[r].sid, copy[r].user) /\ abandoned' = abandoned \cup {copy[r].sid}
  /\ UNCHANGED <<copy, used>>
(* Without an answer no EXPIRE follows, whether the SET took place or not. *)
SetFails(r) ==
  /\ Goes(r, "SET", "done")
  /\ \/ UNCHANGED <<redisVars, abandoned>>
     \/ Set(copy[r].sid, copy[r].user) /\ abandoned' = abandoned \cup {copy[r].sid}
  /\ UNCHANGED <<copy, used>>

Limited(r) ==
  /\ Goes(r, "EXPIRE after SET", "done")
  /\ Limit(copy[r].sid)
  /\ UNCHANGED <<copy, used>>

LimitFails(r) ==
  /\ Goes(r, "EXPIRE after SET", "done")
  /\ abandoned' = abandoned \cup ({copy[r].sid} \cap (DOMAIN db \ limited))
  /\ UNCHANGED <<redisVars, copy, used>>

-----------------------------------------------------------------------------
(* remove_user_session *)

Deletes(r) ==
  /\ Goes(r, "DEL", "done")
  /\ Del({copy[r].sid})
  /\ UNCHANGED <<copy, used>>

DelFails(r) ==
  /\ Goes(r, "DEL", "done")
  /\ UNCHANGED <<redisVars, copy, used, abandoned>>

-----------------------------------------------------------------------------
Step(r) ==
  \/ BeforeWithoutCookie(r) \/ BeforeWithCookie(r)
  \/ Got(r) \/ GetFails(r) \/ Touched(r) \/ TouchFails(r)
  \/ Handle(r) \/ After(r)
  \/ Stores(r) \/ SetRefused(r) \/ SetFails(r) \/ Limited(r) \/ LimitFails(r)
  \/ Deletes(r) \/ DelFails(r)

Next == \/ \E r \in Req : Step(r)
        \/ \E s \in Sid : Expire(s)

Spec == Init /\ [][Next]_vars

-----------------------------------------------------------------------------
(* Properties.                                                             *)

(* Types; every session that reaches Redis has a session id, and only what *)
(* is stored has a time to live.                                           *)
TypeOK ==
  /\ DOMAIN db \subseteq Sid /\ \A s \in DOMAIN db : db[s] \in User
  /\ limited \subseteq DOMAIN db
  /\ phase \in [Req -> Phase]
  /\ copy \in [Req -> [sid : Sid \cup {"none"}, user : User, valid : BOOLEAN]]
  /\ \A r \in Req : phase[r] # "new" => copy[r].sid \in Sid
  /\ used \subseteq Sid /\ abandoned \subseteq DOMAIN db

(* set_session takes the time to live away and puts it back with a second  *)
(* command: a session without one has that command on its way, unless it   *)
(* was lost; the next call for the session then limits it again.           *)
LimitedOrPending ==
  \A s \in DOMAIN db \ (limited \cup abandoned) :
    \E r \in Req : phase[r] = "EXPIRE after SET" /\ copy[r].sid = s

(* What a request has asked of the store and was told by it, given its     *)
(* phase and its session.                                                  *)
Asked(ph, c) ==
  CASE ph = "GET" -> [do |-> "get", sid |-> c.sid, user |-> Nobody]
    [] ph = "SET" -> [do |-> "set", sid |-> c.sid, user |-> c.user]
    [] ph = "DEL" -> [do |-> "remove", sid |-> c.sid, user |-> Nobody]
    [] ph \in {"EXPIRE after GET", "EXPIRE after SET"}
         -> [do |-> "taken", sid |-> "none", user |-> Nobody]
    [] OTHER -> [do |-> "none", sid |-> "none", user |-> Nobody]
Told(ph, c) == IF ph \in {"EXPIRE after GET", "handling"} THEN c.user ELSE Nobody

(* The provider implements SessionStore: each call takes effect at most    *)
(* once while it is under way, and a request is told what was stored, or   *)
(* nothing, whichever command is refused or fails.                         *)
Store == INSTANCE SessionStore WITH
  who <- [s \in Sid |-> Stored(s)],
  call <- [r \in Req |-> Asked(phase[r], copy[r])],
  told <- [r \in Req |-> Told(phase[r], copy[r])]
StoreSpec == Store!Spec
=============================================================================
