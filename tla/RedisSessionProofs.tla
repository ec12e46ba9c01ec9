------------------------- MODULE RedisSessionProofs -------------------------
(***************************************************************************)
(* Proofs about RedisSession, for any sets of requests and sessions.       *)
(***************************************************************************)
EXTENDS RedisSession, TLAPS

Session == [sid : Sid \cup {"none"}, user : User, valid : BOOLEAN]

LEMMA SessionType ==
  ASSUME NEW c \in Session
  PROVE  /\ c = [sid |-> c.sid, user |-> c.user, valid |-> c.valid]
         /\ c.user \in User /\ c.sid \in Sid \cup {"none"} /\ c.valid \in BOOLEAN
BY DEF Session

(* What one request does to phases and sessions. *)
LEMMA Moves ==
  ASSUME TypeOK, NEW r \in Req, NEW from, NEW to \in Phase, Goes(r, from, to),
         NEW c \in Session, copy' = [copy EXCEPT ![r] = c], to # "new" => c.sid \in Sid
  PROVE  /\ phase' \in [Req -> Phase] /\ copy' \in [Req -> Session]
         /\ phase[r] = from /\ phase'[r] = to /\ copy'[r] = c
         /\ \A q \in Req \ {r} : phase'[q] = phase[q] /\ copy'[q] = copy[q]
         /\ \A q \in Req : phase'[q] # "new" => copy'[q].sid \in Sid
<1>1. phase \in [Req -> Phase] /\ copy \in [Req -> Session]
  BY DEF TypeOK, Session
<1>2. /\ phase' \in [Req -> Phase] /\ phase[r] = from /\ phase'[r] = to
      /\ \A q \in Req \ {r} : phase'[q] = phase[q]
  BY <1>1 DEF Goes
<1>3. /\ copy' \in [Req -> Session] /\ copy'[r] = c
      /\ \A q \in Req \ {r} : copy'[q] = copy[q]
  BY <1>1
<1>4. \A q \in Req : phase'[q] # "new" => copy'[q].sid \in Sid
  BY <1>2, <1>3 DEF TypeOK
<1>5. QED
  BY <1>2, <1>3, <1>4

LEMMA Stays ==
  ASSUME TypeOK, NEW r \in Req, copy' = copy
  PROVE  /\ copy' = [copy EXCEPT ![r] = copy[r]] /\ copy[r] \in Session
         /\ phase[r] # "new" => copy[r].sid \in Sid
BY DEF TypeOK, Session

-----------------------------------------------------------------------------
(* Redis. *)

KeysOK == /\ DOMAIN db \subseteq Sid /\ \A s \in DOMAIN db : db[s] \in User
          /\ limited \subseteq DOMAIN db /\ abandoned \subseteq DOMAIN db

LEMMA SetKeys ==
  ASSUME KeysOK, NEW s \in Sid, NEW u \in User, Set(s, u)
  PROVE  /\ DOMAIN db' = DOMAIN db \cup {s} /\ db'[s] = u
         /\ \A x \in DOMAIN db \ {s} : db'[x] = db[x]
         /\ limited' = limited \ {s}
         /\ abandoned' \subseteq abandoned \cup {s} => KeysOK'
BY DEF KeysOK, Set

LEMMA DelKeys ==
  ASSUME KeysOK, NEW S, Del(S)
  PROVE  /\ DOMAIN db' = DOMAIN db \ S
         /\ \A x \in DOMAIN db \ S : db'[x] = db[x]
         /\ limited' = limited \ S /\ abandoned' = abandoned \ S
         /\ KeysOK'
<1>1. DOMAIN db' = DOMAIN db \ S /\ \A x \in DOMAIN db \ S : db'[x] = db[x]
  BY DEF Del, Restrict
<1>2. QED
  BY <1>1 DEF KeysOK, Del

LEMMA LimitKeys ==
  ASSUME KeysOK, NEW s, Limit(s)
  PROVE  /\ db' = db /\ abandoned' = abandoned \ {s}
         /\ limited' = limited \cup ({s} \cap DOMAIN db)
         /\ KeysOK'
BY DEF KeysOK, Limit

-----------------------------------------------------------------------------
(* Types, and keys with their time to live. *)

IInv == TypeOK /\ LimitedOrPending

LEMMA Assembled ==
  ASSUME KeysOK', used' \subseteq Sid,
         phase' \in [Req -> Phase], copy' \in [Req -> Session],
         \A q \in Req : phase'[q] # "new" => copy'[q].sid \in Sid
  PROVE  TypeOK'
BY DEF TypeOK, KeysOK, Session

(* A request that neither waits for the second command nor changes a key. *)
LEMMA StillPending ==
  ASSUME IInv, NEW r \in Req, phase[r] # "EXPIRE after SET",
         \A q \in Req \ {r} : phase'[q] = phase[q] /\ copy'[q] = copy[q],
         DOMAIN db' \ (limited' \cup abandoned') \subseteq DOMAIN db \ (limited \cup abandoned)
  PROVE  LimitedOrPending'
<1> SUFFICES ASSUME NEW s \in DOMAIN db' \ (limited' \cup abandoned')
             PROVE  \E q \in Req : phase'[q] = "EXPIRE after SET" /\ copy'[q].sid = s
  BY DEF LimitedOrPending
<1>1. PICK q \in Req : phase[q] = "EXPIRE after SET" /\ copy[q].sid = s
  BY DEF IInv, LimitedOrPending
<1>2. q # r
  BY <1>1
<1>3. QED
  BY <1>1, <1>2

LEMMA InitHolds == Init => IInv
<1> SUFFICES ASSUME Init PROVE IInv
  OBVIOUS
<1>1. DOMAIN db = {} /\ limited = {} /\ abandoned = {} /\ used = {}
  BY DEF Init
<1>2. TypeOK
  BY <1>1 DEF Init, TypeOK, Phase, User
<1>3. LimitedOrPending
  BY <1>1 DEF LimitedOrPending
<1>4. QED
  BY <1>2, <1>3 DEF IInv

(* Steps that leave Redis alone. *)
QuietMove(r) ==
  \E from \in Phase, to \in Phase, c \in Session :
    /\ Goes(r, from, to) /\ from # "EXPIRE after SET"
    /\ copy' = [copy EXCEPT ![r] = c] /\ c.sid \in Sid /\ used' \subseteq Sid

LEMMA QuietStep ==
  ASSUME IInv, NEW r \in Req,
         \/ BeforeWithoutCookie(r) \/ BeforeWithCookie(r) \/ Got(r) \/ GetFails(r)
         \/ TouchFails(r) \/ Handle(r) \/ After(r) \/ SetRefused(r) \/ DelFails(r)
  PROVE  IInv'
<1>1. TypeOK /\ KeysOK /\ copy[r] \in Session /\ used \subseteq Sid
  BY DEF IInv, TypeOK, KeysOK, Session
<1>2. UNCHANGED <<redisVars, abandoned>>
  BY DEF BeforeWithoutCookie, BeforeWithCookie, Got, GetFails, TouchFails, Handle, After, SetRefused, DelFails
<1>3. KeysOK' /\ DOMAIN db' \ (limited' \cup abandoned') = DOMAIN db \ (limited \cup abandoned)
  BY <1>1, <1>2 DEF KeysOK, redisVars
<1>4. QuietMove(r)
  <2>1. ASSUME BeforeWithoutCookie(r) \/ BeforeWithCookie(r) PROVE QuietMove(r)
    <3>1. PICK s \in Sid : copy' = [copy EXCEPT ![r].sid = s] /\ used' = used \cup {s}
      BY <2>1 DEF BeforeWithoutCookie, BeforeWithCookie
    <3>2. PICK c : c = [copy[r] EXCEPT !.sid = s]
      OBVIOUS
    <3>3. c \in Session /\ c.sid = s /\ copy' = [copy EXCEPT ![r] = c]
      BY <1>1, <3>1, <3>2 DEF Session
    <3>4. Goes(r, "new", "handling") \/ Goes(r, "new", "GET")
      BY <2>1 DEF BeforeWithoutCookie, BeforeWithCookie
    <3>5. used' \subseteq Sid
      BY <1>1, <3>1
    <3>6. QED
      BY <3>3, <3>4, <3>5 DEF Phase, QuietMove
  <2>2. ASSUME Got(r) PROVE QuietMove(r)
    <3>1. Stored(copy[r].sid) \in User
      BY <1>1 DEF Stored, KeysOK, User
    <3>2. PICK c : c = [copy[r] EXCEPT !.user = Stored(copy[r].sid)]
      OBVIOUS
    <3>3. /\ c \in Session /\ c.sid = copy[r].sid /\ copy' = [copy EXCEPT ![r] = c]
          /\ Goes(r, "GET", "EXPIRE after GET") /\ used' = used
      BY <1>1, <2>2, <3>1, <3>2 DEF Got, Session
    <3>4. copy[r].sid \in Sid
      BY <1>1, <3>3 DEF TypeOK, Goes
    <3>5. QED
      BY <1>1, <3>3, <3>4 DEF Phase, QuietMove
  <2>3. ASSUME Handle(r) PROVE QuietMove(r)
    <3>1. PICK c \in {copy[r], [copy[r] EXCEPT !.user = r],
                      [copy[r] EXCEPT !.user = Nobody, !.valid = FALSE]} :
               copy' = [copy EXCEPT ![r] = c]
      BY <2>3 DEF Handle
    <3>2. c \in Session /\ c.sid = copy[r].sid
      BY <1>1, <3>1 DEF Session, User
    <3>3. Goes(r, "handling", "flushing") /\ used' = used
      BY <2>3 DEF Handle
    <3>4. copy[r].sid \in Sid
      BY <1>1, <3>3 DEF TypeOK, Goes
    <3>5. QED
      BY <1>1, <3>1, <3>2, <3>3, <3>4 DEF Phase, QuietMove
  <2>4. ASSUME GetFails(r) \/ TouchFails(r) \/ After(r) \/ SetRefused(r) \/ DelFails(r) PROVE QuietMove(r)
    <3>1. copy' = copy /\ used' = used
      BY <2>4 DEF GetFails, TouchFails, After, SetRefused, DelFails
    <3>2. \/ Goes(r, "GET", "handling") \/ Goes(r, "EXPIRE after GET", "handling")
          \/ Goes(r, "flushing", "SET") \/ Goes(r, "flushing", "DEL")
          \/ Goes(r, "SET", "EXPIRE after SET") \/ Goes(r, "DEL", "done")
      BY <2>4 DEF GetFails, TouchFails, After, SetRefused, DelFails
    <3>3. phase[r] # "new"
      BY <3>2 DEF Goes
    <3>4. QED
      BY <1>1, <3>1, <3>2, <3>3, Stays DEF Phase, QuietMove
  <2>5. QED
    BY <2>1, <2>2, <2>3, <2>4
<1>5. PICK from \in Phase, to \in Phase, c \in Session :
        /\ Goes(r, from, to) /\ from # "EXPIRE after SET"
        /\ copy' = [copy EXCEPT ![r] = c] /\ c.sid \in Sid /\ used' \subseteq Sid
  BY <1>4 DEF QuietMove
<1>6. TypeOK'
  BY <1>1, <1>3, <1>5, Moves, Assembled
<1>7. LimitedOrPending'
  <2>1. phase[r] = from /\ \A q \in Req \ {r} : phase'[q] = phase[q] /\ copy'[q] = copy[q]
    BY <1>1, <1>5, Moves
  <2>2. phase[r] # "EXPIRE after SET"
    BY <1>5, <2>1
  <2>3. QED
    BY <1>3, <2>1, <2>2, StillPending
<1>8. QED
  BY <1>6, <1>7 DEF IInv

LEMMA RedisStep ==
  ASSUME IInv, NEW r \in Req,
         \/ Touched(r) \/ Stores(r) \/ SetFails(r) \/ Limited(r) \/ LimitFails(r) \/ Deletes(r)
  PROVE  IInv'
<1> DEFINE s == copy[r].sid
<1>1. /\ TypeOK /\ KeysOK /\ copy[r] \in Session /\ used \subseteq Sid
      /\ copy' = copy /\ used' = used
  BY DEF IInv, TypeOK, KeysOK, Session, Touched, Stores, SetFails, Limited, LimitFails, Deletes
<1>2. PICK from \in Phase, to \in Phase : Goes(r, from, to) /\ from # "new"
  BY DEF Touched, Stores, SetFails, Limited, LimitFails, Deletes, Phase
<1>3. s \in Sid /\ copy[r].user \in User /\ phase[r] = from
  BY <1>1, <1>2, SessionType DEF Goes, TypeOK
<1>4. /\ phase' \in [Req -> Phase] /\ copy' \in [Req -> Session]
      /\ phase'[r] = to
      /\ \A q \in Req \ {r} : phase'[q] = phase[q] /\ copy'[q] = copy[q]
      /\ \A q \in Req : phase'[q] # "new" => copy'[q].sid \in Sid
  BY <1>1, <1>2, <1>3, Stays, Moves
<1>5. KeysOK' => TypeOK'
  BY <1>1, <1>4, Assembled
(* Another request's key is as good as before. *)
<1>6. ASSUME DOMAIN db' \ (limited' \cup abandoned') \subseteq (DOMAIN db \ (limited \cup abandoned)) \cup {s},
             s \in DOMAIN db' \ (limited' \cup abandoned') => phase'[r] = "EXPIRE after SET"
      PROVE  LimitedOrPending'
  <2> SUFFICES ASSUME NEW x \in DOMAIN db' \ (limited' \cup abandoned')
               PROVE  \E q \in Req : phase'[q] = "EXPIRE after SET" /\ copy'[q].sid = x
    BY DEF LimitedOrPending
  <2>1. CASE x = s
    BY <1>1, <1>6, <2>1
  <2>2. CASE x # s
    <3>1. PICK q \in Req : phase[q] = "EXPIRE after SET" /\ copy[q].sid = x
      BY <1>6, <2>2 DEF IInv, LimitedOrPending
    <3>2. q # r
      BY <2>2, <3>1
    <3>3. QED
      BY <1>4, <3>1, <3>2
  <2>3. QED
    BY <2>1, <2>2
<1> HIDE DEF s
<1>7. CASE Touched(r) \/ Limited(r)
  <2>1. Limit(s)
    BY <1>7 DEF Touched, Limited, s
  <2>2. KeysOK' /\ db' = db /\ abandoned' = abandoned \ {s} /\ limited' = limited \cup ({s} \cap DOMAIN db)
    BY <1>1, <2>1, LimitKeys
  <2>3. QED
    BY <1>5, <1>6, <2>2 DEF IInv
<1>8. CASE Stores(r)
  <2>1. Set(s, copy[r].user) /\ abandoned' = abandoned /\ Goes(r, "SET", "EXPIRE after SET")
    BY <1>8 DEF Stores, s
  <2>2. KeysOK' /\ DOMAIN db' = DOMAIN db \cup {s} /\ limited' = limited \ {s}
    BY <1>1, <1>3, <2>1, SetKeys
  <2>3. phase'[r] = "EXPIRE after SET"
    BY <2>1 DEF Goes, IInv, TypeOK
  <2>4. QED
    BY <1>5, <1>6, <2>1, <2>2, <2>3 DEF IInv
<1>9. CASE SetFails(r)
  <2>1. CASE UNCHANGED <<redisVars, abandoned>>
    <3>1. phase[r] # "EXPIRE after SET"
      BY <1>9 DEF SetFails, Goes
    <3>2. KeysOK' /\ DOMAIN db' \ (limited' \cup abandoned') \subseteq DOMAIN db \ (limited \cup abandoned)
      BY <1>1, <2>1 DEF KeysOK, redisVars
    <3>3. QED
      BY <1>4, <1>5, <3>1, <3>2, StillPending DEF IInv
  <2>2. CASE Set(s, copy[r].user) /\ abandoned' = abandoned \cup {s}
    <3>1. KeysOK' /\ DOMAIN db' = DOMAIN db \cup {s} /\ limited' = limited \ {s}
      BY <1>1, <1>3, <2>2, SetKeys
    <3>2. QED
      BY <1>5, <1>6, <2>2, <3>1 DEF IInv
  <2>3. QED
    BY <1>9, <2>1, <2>2 DEF SetFails, s
<1>10. CASE LimitFails(r)
  <2>1. UNCHANGED <<db, limited>> /\ abandoned' = abandoned \cup ({s} \cap (DOMAIN db \ limited))
    BY <1>10 DEF LimitFails, redisVars, s
  <2>2. KeysOK'
    BY <1>1, <2>1 DEF KeysOK
  <2>3. QED
    BY <1>5, <1>6, <2>1, <2>2 DEF IInv
<1>11. CASE Deletes(r)
  <2>1. Del({s})
    BY <1>11 DEF Deletes, s
  <2>2. KeysOK' /\ DOMAIN db' = DOMAIN db \ {s} /\ limited' = limited \ {s} /\ abandoned' = abandoned \ {s}
    BY <1>1, <2>1, DelKeys
  <2>3. QED
    BY <1>5, <1>6, <2>2 DEF IInv
<1>12. QED
  BY <1>7, <1>8, <1>9, <1>10, <1>11

LEMMA ExpireStep ==
  ASSUME IInv, NEW s \in Sid, Expire(s)
  PROVE  IInv'
<1>1. KeysOK /\ Del({s}) /\ UNCHANGED <<phase, copy, used>>
  BY DEF IInv, TypeOK, KeysOK, Expire
<1>2. KeysOK' /\ DOMAIN db' = DOMAIN db \ {s} /\ limited' = limited \ {s} /\ abandoned' = abandoned \ {s}
  BY <1>1, DelKeys
<1>3. TypeOK'
  BY <1>1, <1>2 DEF IInv, TypeOK, KeysOK
<1>4. LimitedOrPending'
  BY <1>1, <1>2 DEF IInv, LimitedOrPending
<1>5. QED
  BY <1>3, <1>4 DEF IInv

LEMMA StepHolds == IInv /\ [Next]_vars => IInv'
<1> SUFFICES ASSUME IInv, [Next]_vars PROVE IInv'
  OBVIOUS
<1>1. CASE UNCHANGED vars
  BY <1>1 DEF IInv, TypeOK, LimitedOrPending, vars, redisVars
<1>2. ASSUME NEW r \in Req, Step(r) PROVE IInv'
  BY <1>2, QuietStep, RedisStep DEF Step
<1>3. QED
  BY <1>1, <1>2, ExpireStep DEF Next

-----------------------------------------------------------------------------
(* A session that was not loaded yet is nobody's. *)

Unread == \A r \in Req : phase[r] \in {"new", "GET"} => copy[r].user = Nobody

LEMMA UnreadStep == IInv /\ Unread /\ [Next]_vars => Unread'
<1> SUFFICES ASSUME IInv, Unread, [Next]_vars PROVE Unread'
  OBVIOUS
<1>1. phase \in [Req -> Phase] /\ copy \in [Req -> Session]
  BY DEF IInv, TypeOK, Session
<1>2. CASE UNCHANGED <<phase, copy>>
  BY <1>2 DEF Unread
<1>3. ASSUME NEW r \in Req, BeforeWithCookie(r) PROVE Unread'
  <2>1. PICK s \in Sid : copy' = [copy EXCEPT ![r].sid = s]
    BY <1>3 DEF BeforeWithCookie
  <2>2. copy'[r].user = copy[r].user /\ \A q \in Req \ {r} : copy'[q] = copy[q]
    BY <1>1, <2>1 DEF Session
  <2>3. phase[r] = "new" /\ \A q \in Req \ {r} : phase'[q] = phase[q]
    BY <1>1, <1>3 DEF BeforeWithCookie, Goes
  <2>4. QED
    BY <2>2, <2>3 DEF Unread
<1>4. ASSUME NEW r \in Req, NEW from, NEW to \in Phase \ {"new", "GET"}, Goes(r, from, to),
             \A q \in Req \ {r} : copy'[q] = copy[q]
      PROVE  Unread'
  <2>1. phase'[r] = to /\ \A q \in Req \ {r} : phase'[q] = phase[q]
    BY <1>1, <1>4 DEF Goes
  <2>2. QED
    BY <1>4, <2>1 DEF Unread
<1>5. ASSUME NEW r \in Req, Step(r), ~BeforeWithCookie(r) PROVE Unread'
  <2>1. \A q \in Req \ {r} : copy'[q] = copy[q]
    BY <1>1, <1>5 DEF Step, BeforeWithoutCookie, Got, GetFails, Touched, TouchFails, Handle, After,
                      Stores, SetRefused, SetFails, Limited, LimitFails, Deletes, DelFails
  <2>2. \E from \in Phase, to \in Phase \ {"new", "GET"} : Goes(r, from, to)
    <3>1. \/ Goes(r, "new", "handling") \/ Goes(r, "GET", "EXPIRE after GET") \/ Goes(r, "GET", "handling")
          \/ Goes(r, "EXPIRE after GET", "handling") \/ Goes(r, "handling", "flushing")
          \/ Goes(r, "flushing", "SET") \/ Goes(r, "flushing", "DEL")
          \/ Goes(r, "SET", "EXPIRE after SET") \/ Goes(r, "SET", "done")
          \/ Goes(r, "EXPIRE after SET", "done") \/ Goes(r, "DEL", "done")
      BY <1>5 DEF Step, BeforeWithoutCookie, Got, GetFails, Touched, TouchFails, Handle, After,
                  Stores, SetRefused, SetFails, Limited, LimitFails, Deletes, DelFails
    <3>2. QED
      BY <3>1 DEF Phase
  <2>3. QED
    BY <1>4, <2>1, <2>2
<1>6. ASSUME NEW s \in Sid, Expire(s) PROVE Unread'
  BY <1>2, <1>6 DEF Expire
<1>7. UNCHANGED vars => UNCHANGED <<phase, copy>>
  BY DEF vars
<1>8. QED
  BY <1>2, <1>3, <1>5, <1>6, <1>7 DEF Next

-----------------------------------------------------------------------------
(* The store that requests see. *)

Who == [s \in Sid |-> Stored(s)]
Calls == [r \in Req |-> Asked(phase[r], copy[r])]
Tales == [r \in Req |-> Told(phase[r], copy[r])]

(* A step of one request moves what it asked and was told. *)
LEMMA CallMoves ==
  ASSUME TypeOK, NEW r \in Req, NEW from, NEW to \in Phase, Goes(r, from, to),
         NEW c \in Session, copy' = [copy EXCEPT ![r] = c], to # "new" => c.sid \in Sid
  PROVE  /\ Calls[r] = Asked(from, copy[r]) /\ Calls' = [Calls EXCEPT ![r] = Asked(to, c)]
         /\ Tales[r] = Told(from, copy[r]) /\ Tales' = [Tales EXCEPT ![r] = Told(to, c)]
<1>1. /\ phase[r] = from /\ phase'[r] = to /\ copy'[r] = c
      /\ \A q \in Req \ {r} : phase'[q] = phase[q] /\ copy'[q] = copy[q]
  <2>1. phase \in [Req -> Phase] /\ copy \in [Req -> Session]
    BY DEF TypeOK, Session
  <2>2. phase[r] = from /\ phase'[r] = to /\ \A q \in Req \ {r} : phase'[q] = phase[q]
    BY <2>1 DEF Goes
  <2>3. copy'[r] = c /\ \A q \in Req \ {r} : copy'[q] = copy[q]
    BY <2>1
  <2>4. QED
    BY <2>2, <2>3
<1>2. Calls' = [q \in Req |-> Asked(phase'[q], copy'[q])]
  BY DEF Calls, Asked
<1>3. Tales' = [q \in Req |-> Told(phase'[q], copy'[q])]
  BY DEF Tales, Told
<1>4. \A q \in Req \ {r} : /\ Asked(phase'[q], copy'[q]) = Calls[q]
                           /\ Told(phase'[q], copy'[q]) = Tales[q]
  BY <1>1 DEF Calls, Tales
<1>5. Asked(phase'[r], copy'[r]) = Asked(to, c) /\ Told(phase'[r], copy'[r]) = Told(to, c)
  BY <1>1
<1>6. Calls[r] = Asked(from, copy[r]) /\ Tales[r] = Told(from, copy[r])
  BY <1>1 DEF Calls, Tales
<1>7. DOMAIN Calls = Req /\ DOMAIN Tales = Req
  BY DEF Calls, Tales
<1> DEFINE A == Asked(to, c)
           T == Told(to, c)
<1> HIDE DEF A, T
<1>8. Calls' = [Calls EXCEPT ![r] = A]
  BY <1>2, <1>4, <1>5, <1>7 DEF A
<1>9. Tales' = [Tales EXCEPT ![r] = T]
  BY <1>3, <1>4, <1>5, <1>7 DEF T
<1>10. QED
  BY <1>6, <1>8, <1>9 DEF A, T

LEMMA WhoStays == ASSUME db' = db PROVE Who' = Who
BY DEF Who, Stored

LEMMA WhoSet ==
  ASSUME KeysOK, NEW s \in Sid, NEW u \in User, Set(s, u)
  PROVE  Who' = [Who EXCEPT ![s] = u]
<1>1. DOMAIN db' = DOMAIN db \cup {s} /\ db'[s] = u /\ \A x \in DOMAIN db \ {s} : db'[x] = db[x]
  BY SetKeys
<1>2. \A x \in Sid : Stored(x)' = IF x = s THEN u ELSE Stored(x)
  BY <1>1 DEF Stored
<1>3. QED
  BY <1>2 DEF Who

LEMMA WhoDel ==
  ASSUME KeysOK, NEW s \in Sid, Del({s})
  PROVE  Who' = [Who EXCEPT ![s] = Nobody] /\ Who' = [x \in Sid |-> IF x \in {s} THEN Nobody ELSE Who[x]]
<1>1. DOMAIN db' = DOMAIN db \ {s} /\ \A x \in DOMAIN db \ {s} : db'[x] = db[x]
  BY DelKeys
<1>2. \A x \in Sid : Stored(x)' = IF x = s THEN Nobody ELSE Stored(x)
  BY <1>1 DEF Stored
<1>3. QED
  BY <1>2 DEF Who

Taken == [do |-> "taken", sid |-> "none", user |-> Nobody]
NoCall == [do |-> "none", sid |-> "none", user |-> Nobody]

LEMMA StoreActions ==
  ASSUME NEW r \in Req
  PROVE
  LET Takes == Calls' = [Calls EXCEPT ![r] = NoCall] \/ Calls' = [Calls EXCEPT ![r] = Taken]
      k == Calls[r]
  IN
  /\ (k = NoCall /\ (\E s \in Sid : Calls' = [Calls EXCEPT ![r] = [do |-> "get", sid |-> s, user |-> Nobody]])
       /\ Who' = Who /\ Tales' = Tales) => Store!AskGet(r)
  /\ (k = NoCall /\ (\E s \in Sid, u \in User : Calls' = [Calls EXCEPT ![r] = [do |-> "set", sid |-> s, user |-> u]])
       /\ Who' = Who /\ Tales' = Tales) => Store!AskSet(r)
  /\ (k = NoCall /\ (\E s \in Sid : Calls' = [Calls EXCEPT ![r] = [do |-> "remove", sid |-> s, user |-> Nobody]])
       /\ Who' = Who /\ Tales' = Tales) => Store!AskRemove(r)
  /\ (k.do = "get" /\ Takes /\ Who' = Who
       /\ \E u \in {Who[k.sid], Nobody} : Tales' = [Tales EXCEPT ![r] = u]) => Store!TakeGet(r)
  /\ (k.do = "set" /\ Takes /\ Tales' = Tales /\ Who' = [Who EXCEPT ![k.sid] = k.user]) => Store!TakeSet(r)
  /\ (k.do = "remove" /\ Takes /\ Tales' = Tales /\ Who' = [Who EXCEPT ![k.sid] = Nobody]) => Store!TakeRemove(r)
  /\ (k.do \in {"set", "remove"} /\ Takes /\ Tales' = Tales /\ Who' = Who) => Store!GiveUp(r)
  /\ (k = Taken /\ Calls' = [Calls EXCEPT ![r] = NoCall] /\ Tales' = Tales /\ Who' = Who) => Store!Settle(r)
  /\ (k = NoCall /\ Calls' = Calls /\ Tales' = [Tales EXCEPT ![r] = Nobody] /\ Who' = Who) => Store!Use(r)
BY DEF Calls, Tales, Who, Taken, NoCall, User, Nobody, Store!AskGet, Store!AskSet, Store!AskRemove, Store!TakeGet,
       Store!TakeSet, Store!TakeRemove, Store!GiveUp, Store!Settle, Store!Use, Store!Takes,
       Store!NoCall, Store!Taken, Store!CallOf, Store!User, Store!Nobody

LEMMA AskedTable ==
  ASSUME NEW c
  PROVE  /\ Asked("new", c) = NoCall /\ Asked("handling", c) = NoCall
         /\ Asked("flushing", c) = NoCall /\ Asked("done", c) = NoCall
         /\ Asked("EXPIRE after GET", c) = Taken /\ Asked("EXPIRE after SET", c) = Taken
         /\ Asked("GET", c) = [do |-> "get", sid |-> c.sid, user |-> Nobody]
         /\ Asked("SET", c) = [do |-> "set", sid |-> c.sid, user |-> c.user]
         /\ Asked("DEL", c) = [do |-> "remove", sid |-> c.sid, user |-> Nobody]
<1>1. Asked("new", c) = NoCall /\ Asked("handling", c) = NoCall
  BY DEF Asked, NoCall
<1>2. Asked("flushing", c) = NoCall /\ Asked("done", c) = NoCall
  BY DEF Asked, NoCall
<1>3. Asked("EXPIRE after GET", c) = Taken /\ Asked("EXPIRE after SET", c) = Taken
  BY DEF Asked, Taken
<1>4. /\ Asked("GET", c) = [do |-> "get", sid |-> c.sid, user |-> Nobody]
      /\ Asked("SET", c) = [do |-> "set", sid |-> c.sid, user |-> c.user]
      /\ Asked("DEL", c) = [do |-> "remove", sid |-> c.sid, user |-> Nobody]
  BY DEF Asked
<1>5. QED
  BY <1>1, <1>2, <1>3, <1>4

LEMMA AskedFields ==
  ASSUME NEW c
  PROVE  /\ Asked("GET", c).do = "get" /\ Asked("GET", c).sid = c.sid
         /\ Asked("SET", c).do = "set" /\ Asked("SET", c).sid = c.sid /\ Asked("SET", c).user = c.user
         /\ Asked("DEL", c).do = "remove" /\ Asked("DEL", c).sid = c.sid
BY DEF Asked

LEMMA ToldTable ==
  ASSUME NEW c
  PROVE  /\ Told("handling", c) = c.user /\ Told("EXPIRE after GET", c) = c.user
         /\ Told("new", c) = Nobody /\ Told("GET", c) = Nobody /\ Told("flushing", c) = Nobody
         /\ Told("SET", c) = Nobody /\ Told("EXPIRE after SET", c) = Nobody
         /\ Told("DEL", c) = Nobody /\ Told("done", c) = Nobody
BY DEF Told

LEMMA SameTale == ASSUME NEW r \in Req, NEW x, x = Tales[r] PROVE [Tales EXCEPT ![r] = x] = Tales
BY DEF Tales

LEMMA SameCall == ASSUME NEW r \in Req, NEW x, x = Calls[r] PROVE [Calls EXCEPT ![r] = x] = Calls
BY DEF Calls

(* Every step of a request is a step of the store, or none of its business.*)
LEMMA StepOnStore ==
  ASSUME IInv, Unread, NEW r \in Req, Step(r)
  PROVE  Store!Next \/ (Who' = Who /\ Calls' = Calls /\ Tales' = Tales)
<1> DEFINE c == copy[r]
           d == copy'[r]
<1>1. TypeOK /\ KeysOK /\ c \in Session
  BY DEF IInv, TypeOK, KeysOK, Session
<1>2. \/ Store!AskGet(r) \/ Store!AskSet(r) \/ Store!AskRemove(r)
      \/ Store!TakeGet(r) \/ Store!TakeSet(r) \/ Store!TakeRemove(r)
      \/ Store!GiveUp(r) \/ Store!Settle(r) \/ Store!Use(r)
      => Store!Next
  BY DEF Store!Next
<1>3. TypeOK' /\ d \in Session /\ d = copy'[r]
  BY <1>1, QuietStep, RedisStep DEF Step, IInv, TypeOK, Session
(* What CallMoves says of a step between two known phases. *)
<1>4. ASSUME NEW from \in Phase, NEW to \in Phase, to # "new",
             Goes(r, from, to), copy' = [copy EXCEPT ![r] = d]
      PROVE  /\ Calls[r] = Asked(from, c) /\ Calls' = [Calls EXCEPT ![r] = Asked(to, d)]
             /\ Tales[r] = Told(from, c) /\ Tales' = [Tales EXCEPT ![r] = Told(to, d)]
             /\ from # "new" => c.sid \in Sid
  <2>1. phase[r] = from /\ phase'[r] = to
    BY <1>1, <1>4 DEF Goes, TypeOK
  <2>2. d.sid \in Sid /\ (from # "new" => c.sid \in Sid)
    BY <1>1, <1>3, <1>4, <2>1 DEF TypeOK
  <2>3. QED
    BY <1>1, <1>3, <1>4, <2>2, CallMoves
<1>5. copy' = copy => copy' = [copy EXCEPT ![r] = d] /\ d = c
  BY <1>1 DEF TypeOK
<1> HIDE DEF c, d
<1>6. CASE BeforeWithoutCookie(r)
  <2>1. PICK x \in Sid : copy' = [copy EXCEPT ![r].sid = x]
    BY <1>6 DEF BeforeWithoutCookie
  <2>2. copy' = [copy EXCEPT ![r] = d] /\ d.user = c.user
    BY <1>1, <2>1 DEF TypeOK, c, d
  <2>3. Goes(r, "new", "handling") /\ db' = db
    BY <1>6 DEF BeforeWithoutCookie, redisVars
  <2>4. /\ Calls[r] = Asked("new", c) /\ Calls' = [Calls EXCEPT ![r] = Asked("handling", d)]
        /\ Tales' = [Tales EXCEPT ![r] = Told("handling", d)] /\ Tales[r] = Told("new", c)
    BY <1>4, <2>2, <2>3 DEF Phase
  <2>5. Calls' = Calls
    BY <2>4, AskedTable, SameCall
  <2>6. d.user = Nobody
    BY <2>2, <2>3 DEF Unread, Goes, c
  <2>7. Tales' = Tales
    BY <2>4, <2>6, ToldTable, SameTale
  <2>8. QED
    BY <2>3, <2>5, <2>7, WhoStays
<1>7. CASE BeforeWithCookie(r)
  <2>1. PICK x \in Sid : copy' = [copy EXCEPT ![r].sid = x]
    BY <1>7 DEF BeforeWithCookie
  <2>2. copy' = [copy EXCEPT ![r] = d] /\ d.sid = x
    BY <1>1, <2>1 DEF TypeOK, c, d
  <2>3. Goes(r, "new", "GET") /\ db' = db
    BY <1>7 DEF BeforeWithCookie, redisVars
  <2>4. /\ Calls[r] = Asked("new", c) /\ Calls' = [Calls EXCEPT ![r] = Asked("GET", d)]
        /\ Tales' = [Tales EXCEPT ![r] = Told("GET", d)] /\ Tales[r] = Told("new", c)
    BY <1>4, <2>2, <2>3 DEF Phase
  <2>5. Tales' = Tales
    BY <2>4, ToldTable, SameTale
  <2>6. Calls[r] = NoCall /\ Calls' = [Calls EXCEPT ![r] = [do |-> "get", sid |-> x, user |-> Nobody]]
    BY <2>2, <2>4, AskedTable, AskedFields, ToldTable
  <2>7. Store!AskGet(r)
    BY <2>3, <2>5, <2>6, WhoStays, StoreActions
  <2>8. QED
    BY <1>2, <2>7
<1>8. CASE Got(r)
  <2>1. copy' = [copy EXCEPT ![r].user = Stored(copy[r].sid)] /\ db' = db
    BY <1>8 DEF Got, redisVars
  <2>2. copy' = [copy EXCEPT ![r] = d] /\ d.user = Stored(c.sid)
    BY <1>1, <2>1 DEF TypeOK, c, d
  <2>3. Goes(r, "GET", "EXPIRE after GET")
    BY <1>8 DEF Got
  <2>4. /\ Calls[r] = Asked("GET", c) /\ Calls' = [Calls EXCEPT ![r] = Asked("EXPIRE after GET", d)]
        /\ Tales' = [Tales EXCEPT ![r] = Told("EXPIRE after GET", d)] /\ c.sid \in Sid
    BY <1>4, <2>2, <2>3 DEF Phase
  <2>5. /\ Calls[r].do = "get" /\ Calls[r].sid = c.sid
        /\ Calls' = [Calls EXCEPT ![r] = Taken] /\ Tales' = [Tales EXCEPT ![r] = Stored(c.sid)]
    BY <2>2, <2>4, AskedTable, AskedFields, ToldTable
  <2>6. Who[c.sid] = Stored(c.sid)
    BY <2>4 DEF Who
  <2>7. Store!TakeGet(r)
    BY <2>1, <2>5, <2>6, WhoStays, StoreActions
  <2>8. QED
    BY <1>2, <2>7
<1>9. CASE GetFails(r)
  <2>1. Goes(r, "GET", "handling") /\ copy' = copy /\ db' = db
    BY <1>9 DEF GetFails, redisVars
  <2>2. /\ Calls[r] = Asked("GET", c) /\ Calls' = [Calls EXCEPT ![r] = Asked("handling", c)]
        /\ Tales' = [Tales EXCEPT ![r] = Told("handling", c)]
    BY <1>4, <1>5, <2>1 DEF Phase
  <2>3. c.user = Nobody
    BY <2>1 DEF Unread, Goes, c
  <2>4. /\ Calls[r].do = "get" /\ Calls' = [Calls EXCEPT ![r] = NoCall]
        /\ Tales' = [Tales EXCEPT ![r] = Nobody]
    BY <2>2, <2>3, AskedTable, AskedFields, ToldTable
  <2>5. Store!TakeGet(r)
    BY <2>1, <2>4, WhoStays, StoreActions
  <2>6. QED
    BY <1>2, <2>5
<1>10. CASE Touched(r) \/ TouchFails(r)
  <2>1. Goes(r, "EXPIRE after GET", "handling") /\ copy' = copy /\ db' = db
    BY <1>10 DEF Touched, TouchFails, Limit, redisVars
  <2>2. /\ Calls[r] = Asked("EXPIRE after GET", c) /\ Calls' = [Calls EXCEPT ![r] = Asked("handling", c)]
        /\ Tales[r] = Told("EXPIRE after GET", c) /\ Tales' = [Tales EXCEPT ![r] = Told("handling", c)]
    BY <1>4, <1>5, <2>1 DEF Phase
  <2>3. Calls[r] = Taken /\ Calls' = [Calls EXCEPT ![r] = NoCall]
    BY <2>2, AskedTable, AskedFields, ToldTable
  <2>4. Tales' = Tales
    BY <2>2, ToldTable, SameTale
  <2>5. Store!Settle(r)
    BY <2>1, <2>3, <2>4, WhoStays, StoreActions
  <2>6. QED
    BY <1>2, <2>5
<1>11. CASE Handle(r)
  <2>1. copy' = [copy EXCEPT ![r] = d]
    BY <1>1, <1>11 DEF Handle, TypeOK, d
  <2>2. Goes(r, "handling", "flushing") /\ db' = db
    BY <1>11 DEF Handle, redisVars
  <2>3. /\ Calls[r] = Asked("handling", c) /\ Calls' = [Calls EXCEPT ![r] = Asked("flushing", d)]
        /\ Tales' = [Tales EXCEPT ![r] = Told("flushing", d)]
    BY <1>4, <2>1, <2>2 DEF Phase
  <2>4. Calls[r] = NoCall /\ Calls' = Calls
    BY <2>3, AskedTable, SameCall
  <2>5. Tales' = [Tales EXCEPT ![r] = Nobody]
    BY <2>3, AskedTable, AskedFields, ToldTable DEF Phase
  <2>6. Store!Use(r)
    BY <2>2, <2>4, <2>5, WhoStays, StoreActions
  <2>7. QED
    BY <1>2, <2>6
<1>12. CASE After(r)
  <2>1. copy' = copy /\ db' = db /\ (Goes(r, "flushing", "SET") \/ Goes(r, "flushing", "DEL"))
    BY <1>12 DEF After, redisVars
  <2>2. CASE Goes(r, "flushing", "SET")
    <3>1. /\ Calls[r] = Asked("flushing", c) /\ Calls' = [Calls EXCEPT ![r] = Asked("SET", c)]
          /\ Tales[r] = Told("flushing", c) /\ Tales' = [Tales EXCEPT ![r] = Told("SET", c)]
          /\ c.sid \in Sid
      BY <1>4, <1>5, <2>1, <2>2 DEF Phase
    <3>2. /\ Calls[r] = NoCall
          /\ Calls' = [Calls EXCEPT ![r] = [do |-> "set", sid |-> c.sid, user |-> c.user]]
      BY <3>1, AskedTable, AskedFields, ToldTable
    <3>3. Tales' = Tales
      BY <3>1, ToldTable, SameTale
    <3>4. c.user \in User
      BY <1>1, SessionType
    <3>5. Store!AskSet(r)
      BY <2>1, <3>1, <3>2, <3>3, <3>4, WhoStays, StoreActions
    <3>6. QED
      BY <1>2, <3>5
  <2>3. CASE Goes(r, "flushing", "DEL")
    <3>1. /\ Calls[r] = Asked("flushing", c) /\ Calls' = [Calls EXCEPT ![r] = Asked("DEL", c)]
          /\ Tales[r] = Told("flushing", c) /\ Tales' = [Tales EXCEPT ![r] = Told("DEL", c)]
          /\ c.sid \in Sid
      BY <1>4, <1>5, <2>1, <2>3 DEF Phase
    <3>2. /\ Calls[r] = NoCall
          /\ Calls' = [Calls EXCEPT ![r] = [do |-> "remove", sid |-> c.sid, user |-> Nobody]]
      BY <3>1, AskedTable, AskedFields, ToldTable
    <3>3. Tales' = Tales
      BY <3>1, ToldTable, SameTale
    <3>4. Store!AskRemove(r)
      BY <2>1, <3>1, <3>2, <3>3, WhoStays, StoreActions
    <3>5. QED
      BY <1>2, <3>4
  <2>4. QED
    BY <2>1, <2>2, <2>3
(* What the commands of set_session and remove_user_session have in common.*)
<1>13. ASSUME NEW from \in {"SET", "DEL"}, NEW to \in {"EXPIRE after SET", "done"},
              Goes(r, from, to), copy' = copy
       PROVE  /\ Calls[r] = Asked(from, c) /\ Tales' = Tales /\ c.sid \in Sid
              /\ \/ Calls' = [Calls EXCEPT ![r] = NoCall]
                 \/ Calls' = [Calls EXCEPT ![r] = Taken]
  <2>1. /\ Calls[r] = Asked(from, c) /\ Calls' = [Calls EXCEPT ![r] = Asked(to, c)]
        /\ Tales[r] = Told(from, c) /\ Tales' = [Tales EXCEPT ![r] = Told(to, c)]
        /\ c.sid \in Sid
    BY <1>4, <1>5, <1>13 DEF Phase
  <2>2. Tales' = Tales
    BY <2>1, ToldTable, SameTale
  <2>3. Asked(to, c) \in {NoCall, Taken}
    BY AskedTable, AskedFields, ToldTable
  <2>4. QED
    BY <2>1, <2>2, <2>3
<1>14. CASE Stores(r) \/ SetRefused(r) \/ SetFails(r)
  <2>1. /\ Goes(r, "SET", "EXPIRE after SET") \/ Goes(r, "SET", "done")
        /\ copy' = copy
        /\ db' = db \/ Set(c.sid, c.user)
    BY <1>14 DEF Stores, SetRefused, SetFails, redisVars, c
  <2>2. /\ Calls[r] = Asked("SET", c) /\ Tales' = Tales /\ c.sid \in Sid
        /\ \/ Calls' = [Calls EXCEPT ![r] = NoCall]
           \/ Calls' = [Calls EXCEPT ![r] = Taken]
    BY <1>13, <2>1
  <2>3. Calls[r].do = "set" /\ Calls[r].sid = c.sid /\ Calls[r].user = c.user
    BY <2>2, AskedTable, AskedFields, ToldTable
  <2>4. c.user \in User
    BY <1>1, SessionType
  <2>5. CASE db' = db
    <3>1. Store!GiveUp(r)
      BY <2>2, <2>3, <2>5, WhoStays, StoreActions
    <3>2. QED
      BY <1>2, <3>1
  <2>6. CASE Set(c.sid, c.user)
    <3>1. Who' = [Who EXCEPT ![c.sid] = c.user]
      BY <1>1, <2>2, <2>4, <2>6, WhoSet
    <3>2. Store!TakeSet(r)
      BY <2>2, <2>3, <3>1, StoreActions
    <3>3. QED
      BY <1>2, <3>2
  <2>7. QED
    BY <2>1, <2>5, <2>6
<1>15. CASE Deletes(r) \/ DelFails(r)
  <2>1. Goes(r, "DEL", "done") /\ copy' = copy /\ (db' = db \/ Del({c.sid}))
    BY <1>15 DEF Deletes, DelFails, redisVars, c
  <2>2. /\ Calls[r] = Asked("DEL", c) /\ Tales' = Tales /\ c.sid \in Sid
        /\ \/ Calls' = [Calls EXCEPT ![r] = NoCall]
           \/ Calls' = [Calls EXCEPT ![r] = Taken]
    BY <1>13, <2>1
  <2>3. Calls[r].do = "remove" /\ Calls[r].sid = c.sid
    BY <2>2, AskedTable, AskedFields, ToldTable
  <2>4. CASE db' = db
    <3>1. Store!GiveUp(r)
      BY <2>2, <2>3, <2>4, WhoStays, StoreActions
    <3>2. QED
      BY <1>2, <3>1
  <2>5. CASE Del({c.sid})
    <3>1. Who' = [Who EXCEPT ![c.sid] = Nobody]
      BY <1>1, <2>2, <2>5, WhoDel
    <3>2. Store!TakeRemove(r)
      BY <2>2, <2>3, <3>1, StoreActions
    <3>3. QED
      BY <1>2, <3>2
  <2>6. QED
    BY <2>1, <2>4, <2>5
<1>16. CASE Limited(r) \/ LimitFails(r)
  <2>1. Goes(r, "EXPIRE after SET", "done") /\ copy' = copy /\ db' = db
    BY <1>16 DEF Limited, LimitFails, Limit, redisVars
  <2>2. /\ Calls[r] = Asked("EXPIRE after SET", c) /\ Calls' = [Calls EXCEPT ![r] = Asked("done", c)]
        /\ Tales[r] = Told("EXPIRE after SET", c) /\ Tales' = [Tales EXCEPT ![r] = Told("done", c)]
    BY <1>4, <1>5, <2>1 DEF Phase
  <2>3. Calls[r] = Taken /\ Calls' = [Calls EXCEPT ![r] = NoCall]
    BY <2>2, AskedTable, AskedFields, ToldTable
  <2>4. Tales' = Tales
    BY <2>2, ToldTable, SameTale
  <2>5. Store!Settle(r)
    BY <2>1, <2>3, <2>4, WhoStays, StoreActions
  <2>6. QED
    BY <1>2, <2>5
<1>17. QED
  BY <1>6, <1>7, <1>8, <1>9, <1>10, <1>11, <1>12, <1>14, <1>15, <1>16 DEF Step

LEMMA ExpireOnStore ==
  ASSUME IInv, NEW s \in Sid, Expire(s)
  PROVE  Store!Next
<1>1. KeysOK /\ Del({s}) /\ UNCHANGED <<phase, copy>>
  BY DEF IInv, TypeOK, KeysOK, Expire
<1>2. Who' = [x \in Sid |-> IF x \in {s} THEN Nobody ELSE Who[x]]
  BY <1>1, WhoDel
<1>3. Calls' = Calls /\ Tales' = Tales
  BY <1>1 DEF Calls, Tales
<1>4. Store!Forget({s})
  BY <1>2, <1>3 DEF Store!Forget, Who, Calls, Tales, Store!Nobody, Nobody
<1>5. QED
  BY <1>4 DEF Store!Next
(* Requests and their sessions keep their types, every session that        *)
(* reaches Redis has an id, and only stored keys have a time to live.      *)
THEOREM TypesHold == Spec => []TypeOK
<1>1. IInv => TypeOK
  BY DEF IInv
<1>2. QED
  BY <1>1, InitHolds, StepHolds, PTL DEF Spec

(* A stored session has a time to live, or the command that gives it one   *)
(* is on its way, or was lost.                                             *)
THEOREM LimitedOrPendingHolds == Spec => []LimitedOrPending
<1>1. IInv => LimitedOrPending
  BY DEF IInv
<1>2. QED
  BY <1>1, InitHolds, StepHolds, PTL DEF Spec

(* Sessions in Redis implement SessionStore: every step of a request, or   *)
(* of the server, is one of the store or leaves it alone.                  *)
THEOREM StoreHolds == Spec => StoreSpec
<1>1. Init => Unread
  BY DEF Init, Unread
<1>2. Init => Store!Init
  <2> SUFFICES ASSUME Init PROVE Store!Init
    OBVIOUS
  <2>1. Who = [s \in Sid |-> Nobody]
    BY DEF Init, Who, Stored
  <2>2. \A r \in Req : Asked(phase[r], copy[r]) = NoCall /\ Told(phase[r], copy[r]) = Nobody
    <3> SUFFICES ASSUME NEW r \in Req
                 PROVE  Asked(phase[r], copy[r]) = NoCall /\ Told(phase[r], copy[r]) = Nobody
      OBVIOUS
    <3>1. phase[r] = "new"
      BY DEF Init
    <3>2. QED
      BY <3>1, AskedTable, ToldTable
  <2>3. Calls = [r \in Req |-> NoCall] /\ Tales = [r \in Req |-> Nobody]
    BY <2>2 DEF Calls, Tales
  <2>4. QED
    BY <2>1, <2>3 DEF Store!Init, Who, Calls, Tales, NoCall, Store!NoCall, Store!Nobody, Nobody
<1>3. IInv /\ Unread /\ [Next]_vars => [Store!Next]_(Store!vars)
  <2> SUFFICES ASSUME IInv, Unread, [Next]_vars PROVE [Store!Next]_(Store!vars)
    OBVIOUS
  <2>1. (Who' = Who /\ Calls' = Calls /\ Tales' = Tales) => UNCHANGED Store!vars
    BY DEF Store!vars, Who, Calls, Tales
  <2>2. UNCHANGED vars => Who' = Who /\ Calls' = Calls /\ Tales' = Tales
    BY DEF vars, redisVars, Who, Stored, Calls, Tales
  <2>3. QED
    BY <2>1, <2>2, StepOnStore, ExpireOnStore DEF Next
<1>4. QED
  BY <1>1, <1>2, <1>3, InitHolds, StepHolds, UnreadStep, PTL DEF Spec, StoreSpec, Store!Spec
=============================================================================
