---------------------------- MODULE SessionStore ----------------------------
(***************************************************************************)
(* What SessionFilter may expect of a SessionProvider                      *)
(* (src/include/reproweb/ctrl/session.h), whichever it is given: a call    *)
(* takes effect at most once, at one moment while it is under way; what a  *)
(* request is told of a session is what the store held at such a moment,   *)
(* or nothing; and sessions may be forgotten, never altered, on their own. *)
(***************************************************************************)
CONSTANTS Sid,  \* session ids
          Req   \* requests

Nobody == "nobody"  \* nobody is logged in: not authenticated
User == Req \cup {Nobody}

VARIABLES
  who,   \* who is logged in to each session
  call,  \* of each request, what it asked and has not taken effect
  told   \* of each request, who it was told is logged in

vars == <<who, call, told>>

NoCall == [do |-> "none", sid |-> "none", user |-> Nobody]
Taken == [do |-> "taken", sid |-> "none", user |-> Nobody]  \* not settled yet
CallOf(what, s, u) == [do |-> what, sid |-> s, user |-> u]

Init ==
  /\ who = [s \in Sid |-> Nobody]
  /\ call = [r \in Req |-> NoCall]
  /\ told = [r \in Req |-> Nobody]

AskGet(r) ==
  /\ call[r] = NoCall
  /\ \E s \in Sid : call' = [call EXCEPT ![r] = CallOf("get", s, Nobody)]
  /\ UNCHANGED <<who, told>>

AskSet(r) ==
  /\ call[r] = NoCall
  /\ \E s \in Sid, u \in User : call' = [call EXCEPT ![r] = CallOf("set", s, u)]
  /\ UNCHANGED <<who, told>>

AskRemove(r) ==
  /\ call[r] = NoCall
  /\ \E s \in Sid : call' = [call EXCEPT ![r] = CallOf("remove", s, Nobody)]
  /\ UNCHANGED <<who, told>>

(* An effect, after which the call may be settled at once or later. *)
Takes(r) == \E c \in {NoCall, Taken} : call' = [call EXCEPT ![r] = c]

(* A get that fails tells of a session nobody is logged in to. *)
TakeGet(r) ==
  /\ call[r].do = "get"
  /\ Takes(r)
  /\ \E u \in {who[call[r].sid], Nobody} : told' = [told EXCEPT ![r] = u]
  /\ UNCHANGED who

TakeSet(r) ==
  /\ call[r].do = "set"
  /\ Takes(r)
  /\ who' = [who EXCEPT ![call[r].sid] = call[r].user]
  /\ UNCHANGED told

TakeRemove(r) ==
  /\ call[r].do = "remove"
  /\ Takes(r)
  /\ who' = [who EXCEPT ![call[r].sid] = Nobody]
  /\ UNCHANGED told

(* A call that fails, or is settled although it had no effect. *)
GiveUp(r) ==
  /\ call[r].do \in {"set", "remove"}
  /\ Takes(r)
  /\ UNCHANGED <<who, told>>

Settle(r) ==
  /\ call[r] = Taken
  /\ call' = [call EXCEPT ![r] = NoCall]
  /\ UNCHANGED <<who, told>>

(* The request changes its own copy, which is no business of the store. *)
Use(r) ==
  /\ call[r] = NoCall
  /\ told' = [told EXCEPT ![r] = Nobody]
  /\ UNCHANGED <<who, call>>

(* Sessions expire. *)
Forget(S) ==
  /\ who' = [s \in Sid |-> IF s \in S THEN Nobody ELSE who[s]]
  /\ UNCHANGED <<call, told>>

Next ==
  \/ \E r \in Req : \/ AskGet(r) \/ AskSet(r) \/ AskRemove(r)
                    \/ TakeGet(r) \/ TakeSet(r) \/ TakeRemove(r)
                    \/ GiveUp(r) \/ Settle(r) \/ Use(r)
  \/ \E S \in SUBSET Sid : Forget(S)

Spec == Init /\ [][Next]_vars
=============================================================================
