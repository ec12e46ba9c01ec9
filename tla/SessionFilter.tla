--------------------------- MODULE SessionFilter ----------------------------
(***************************************************************************)
(* Concurrent requests of a web application that uses SessionFilter on a   *)
(* MemorySessionProvider.  before() loads a copy of the session into the   *)
(* request, the handler changes the copy, and after(), in the flush chain, *)
(* writes it back or removes the session.  An operator that stands just    *)
(* before another and bears its name with a suffix is a mutant of it,      *)
(* never used by the actions.                                              *)
(***************************************************************************)
EXTENDS MemorySession

VARIABLES
  phase,  \* of each request
  copy,   \* its "_session_" attribute: [sid, user, valid]
  used,   \* session ids in use, by clients or the server
  ended,  \* sids removed by a logout and not logged in since
  quiet   \* those of them no other request held a copy of at that time

reqVars == <<phase, copy>>
ghosts == <<ended, quiet>>
vars == <<storeVars, ticks, clockVars, reqVars, used, ghosts>>

Phase == {"new", "loading", "handling", "flushing", "saving", "done"}
NoCopy == [sid |-> "none", user |-> Nobody, valid |-> TRUE]

Init ==
  /\ StoreInit
  /\ phase = [r \in Req |-> "new"]
  /\ copy = [r \in Req |-> NoCopy]
  /\ used = {}
  /\ ended = {} /\ quiet = {}

(* A session made for the request: make_session_id() never repeats. *)
Attach(r, s, u) ==
  /\ copy' = [copy EXCEPT ![r] = [sid |-> s, user |-> u, valid |-> TRUE]]
  /\ phase' = [phase EXCEPT ![r] = "handling"]

-----------------------------------------------------------------------------
(* SessionFilter::before. *)

BeforeWithoutCookieNoSid(r) ==
  /\ phase[r] = "new"
  /\ \E s \in Sid \ used : Attach(r, "none", Nobody) /\ used' = used \cup {s}
  /\ UNCHANGED <<storeVars, ticks, clockVars, ghosts>>
BeforeWithoutCookie(r) ==
  /\ phase[r] = "new"
  /\ \E s \in Sid \ used : Attach(r, s, Nobody) /\ used' = used \cup {s}
  /\ UNCHANGED <<storeVars, ticks, clockVars, ghosts>>

BeforeWithCookie(r) ==
  /\ phase[r] = "new"
  /\ \E s \in Sid : /\ GetSession(r, s)
                    /\ copy' = [copy EXCEPT ![r].sid = s]
                    /\ used' = used \cup {s}
  /\ phase' = [phase EXCEPT ![r] = "loading"]
  /\ UNCHANGED <<storeVars, clockVars, ghosts>>

(* The handler, with what controllers do to a session. *)
View(r) == UNCHANGED copy
Login(r) == copy' = [copy EXCEPT ![r].user = r]
InvalidateSession(r) == copy' = [copy EXCEPT ![r].user = Nobody, ![r].valid = FALSE]

Handle(r) ==
  /\ phase[r] = "handling"
  /\ View(r) \/ Login(r) \/ InvalidateSession(r)
  /\ phase' = [phase EXCEPT ![r] = "flushing"]
  /\ UNCHANGED <<storeVars, ticks, clockVars, used, ghosts>>

(* SessionFilter::after *)
After(r) ==
  /\ phase[r] = "flushing"
  /\ phase' = [phase EXCEPT ![r] = "saving"]
  /\ IF copy[r].valid THEN SetSession(r, copy[r].sid, copy[r].user)
                      ELSE RemoveUserSession(r, copy[r].sid)
  /\ UNCHANGED <<storeVars, clockVars, copy, used, ghosts>>

-----------------------------------------------------------------------------
(* The provider's ticks, and what the filter does with their result. *)

Loaded(c) ==
  /\ RunGet(c)
  /\ Attach(c.req, c.sid, Found(c.sid))
  /\ UNCHANGED ghosts

Finished(c) == phase' = [phase EXCEPT ![c.req] = "done"]

Saved(c) ==
  /\ RunSet(c)
  /\ Finished(c)
  /\ ended' = IF c.user = c.req THEN ended \ {c.sid} ELSE ended
  /\ quiet' = IF c.user = c.req THEN quiet \ {c.sid} ELSE quiet
  /\ UNCHANGED copy

(* Other requests that loaded the session and have not written it back. *)
Holders(c) == {r \in Req \ {c.req} : /\ copy[r].sid = c.sid
                                     /\ phase[r] \in {"handling", "flushing", "saving"}}

Removed(c) ==
  /\ RunRemove(c)
  /\ Finished(c)
  /\ ended' = ended \cup {c.sid}
  /\ quiet' = IF Holders(c) = {} THEN quiet \cup {c.sid} ELSE quiet \ {c.sid}
  /\ UNCHANGED copy

RunTick ==
  /\ ticks # <<>>
  /\ ticks' = Tail(ticks)
  /\ Loaded(Head(ticks)) \/ Saved(Head(ticks)) \/ Removed(Head(ticks))
  /\ UNCHANGED <<clockVars, used>>

CleanupStep == Cleanup /\ UNCHANGED <<reqVars, used, ghosts>>
TickStep == Tick /\ UNCHANGED <<reqVars, used, ghosts>>

Next == \/ \E r \in Req : BeforeWithoutCookie(r)
        \/ \E r \in Req : BeforeWithCookie(r)
        \/ \E r \in Req : Handle(r)
        \/ \E r \in Req : After(r)
        \/ RunTick \/ CleanupStep \/ TickStep

Spec == Init /\ [][Next]_vars

-----------------------------------------------------------------------------
(* Properties.                                                             *)

(* Stored sessions, copies and queued calls keep their types: in particular *)
(* every session that reaches the provider has a session id.                *)
TypeOK ==
  /\ StoreTypeOK
  /\ phase \in [Req -> Phase]
  /\ copy \in [Req -> [sid : Sid \cup {"none"}, user : User, valid : BOOLEAN]]
  /\ used \subseteq Sid /\ ended \subseteq Sid /\ quiet \subseteq Sid

LoggedIn(s) == s \in DOMAIN store /\ store[s] # Nobody

(* session.h: remove_user_session removes the session from the store.  So  *)
(* a session somebody logged out of is not logged in until the next login. *)
LogoutIsFinal == \A s \in ended : ~LoggedIn(s)

(* It is final when no other request held a copy of the session. *)
QuietLogoutIsFinal == \A s \in quiet : ~LoggedIn(s)

(* What a request has asked of the store and was told by it, given its     *)
(* phase and its session.                                                  *)
Asked(ph, c) ==
  CASE ph = "loading" -> [do |-> "get", sid |-> c.sid, user |-> Nobody]
    [] ph = "saving" /\ c.valid -> [do |-> "set", sid |-> c.sid, user |-> c.user]
    [] ph = "saving" /\ ~c.valid -> [do |-> "remove", sid |-> c.sid, user |-> Nobody]
    [] OTHER -> [do |-> "none", sid |-> "none", user |-> Nobody]
Told(ph, c) == IF ph = "handling" THEN c.user ELSE Nobody

(* This provider implements SessionStore too: each call takes effect once, *)
(* when its tick runs, and what is not called for is at most forgotten.    *)
Store == INSTANCE SessionStore WITH
  who <- [s \in Sid |-> Found(s)],
  call <- [r \in Req |-> Asked(phase[r], copy[r])],
  told <- [r \in Req |-> Told(phase[r], copy[r])]
StoreSpec == Store!Spec
=============================================================================
