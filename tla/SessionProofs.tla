--------------------------- MODULE SessionProofs ----------------------------
(***************************************************************************)
(* Proofs about SessionFilter on a MemorySessionProvider, for any number   *)
(* of sessions and requests and for any timeout and cleanup period.        *)
(***************************************************************************)
EXTENDS SessionFilter, TLAPS

(* Requests that hold a copy of their session, and so a real session id. *)
Holding == {"handling", "flushing", "saving"}
CopiesHaveSid == \A r \in Req : phase[r] \in Holding => copy[r].sid \in Sid

(* The clock never passes the next cleanup, and what the last cleanup left *)
(* was not expired then.                                                   *)
SweptInTime ==
  /\ swept <= now /\ now <= swept + Period
  /\ \A s \in DOMAIN timeouts : timeouts[s] >= swept

IInv == TypeOK /\ CopiesHaveSid /\ SameKeys /\ SweptInTime

-----------------------------------------------------------------------------
(* The two helpers on maps. *)

LEMMA PutDomain ==
  ASSUME NEW f, NEW s, NEW v
  PROVE  DOMAIN Put(f, s, v) = DOMAIN f \cup {s}
BY DEF Put

LEMMA DropFacts ==
  ASSUME NEW f, NEW S
  PROVE  /\ DOMAIN Drop(f, S) = DOMAIN f \ S
         /\ \A x \in DOMAIN f \ S : Drop(f, S)[x] = f[x]
BY DEF Drop, Restrict

(* A call that is queued is well-typed, so the queue stays so. *)
LEMMA EnqueueType ==
  ASSUME ticks \in Seq(CallSet), NEW c \in CallSet, Enqueue(c)
  PROVE  ticks' \in Seq(CallSet)
BY DEF Enqueue

-----------------------------------------------------------------------------
LEMMA InitInv == Init => IInv
<1>1. <<>> \in Seq(CallSet)
  OBVIOUS
<1>2. SUFFICES ASSUME Init PROVE IInv
  OBVIOUS
<1>3. StoreTypeOK
  BY <1>1, <1>2 DEF Init, StoreInit, StoreTypeOK
<1>4. TypeOK
  BY <1>2, <1>3 DEF Init, TypeOK, Phase, NoCopy, User
<1>5. CopiesHaveSid /\ SameKeys /\ SweptInTime
  BY <1>2, TimesAssumption DEF Init, StoreInit, CopiesHaveSid, Holding, SameKeys, SweptInTime
<1>6. QED
  BY <1>4, <1>5 DEF IInv

(* The store's part of the invariant only depends on these variables. *)
LEMMA StoreUnchanged ==
  ASSUME IInv, UNCHANGED <<storeVars, clockVars>>
  PROVE  SameKeys' /\ SweptInTime'
BY DEF IInv, SameKeys, SweptInTime, storeVars, clockVars

LEMMA BeforeWithoutCookieInv ==
  ASSUME IInv, NEW r \in Req, BeforeWithoutCookie(r)
  PROVE  IInv'
<1>1. PICK s \in Sid : Attach(r, s, Nobody) /\ used' = used \cup {s}
  BY DEF BeforeWithoutCookie
<1>2. UNCHANGED <<storeVars, ticks, clockVars, ghosts>>
  BY DEF BeforeWithoutCookie
<1>3. TypeOK'
  <2>1. copy' \in [Req -> [sid : Sid \cup {"none"}, user : User, valid : BOOLEAN]]
    BY <1>1 DEF IInv, TypeOK, Attach, User
  <2>2. phase' \in [Req -> Phase]
    BY <1>1 DEF IInv, TypeOK, Attach, Phase
  <2>3. StoreTypeOK'
    BY <1>2 DEF IInv, TypeOK, StoreTypeOK, storeVars, clockVars
  <2>4. QED
    BY <1>1, <1>2, <2>1, <2>2, <2>3 DEF IInv, TypeOK, ghosts
<1>4. CopiesHaveSid'
  BY <1>1 DEF IInv, TypeOK, CopiesHaveSid, Attach
<1>5. QED
  BY <1>2, <1>3, <1>4, StoreUnchanged DEF IInv

LEMMA BeforeWithCookieInv ==
  ASSUME IInv, NEW r \in Req, BeforeWithCookie(r)
  PROVE  IInv'
<1>1. PICK s \in Sid : /\ GetSession(r, s)
                       /\ copy' = [copy EXCEPT ![r].sid = s]
                       /\ used' = used \cup {s}
  BY DEF BeforeWithCookie
<1>2. phase' = [phase EXCEPT ![r] = "loading"] /\ UNCHANGED <<storeVars, clockVars, ghosts>>
  BY DEF BeforeWithCookie
<1>3. TypeOK'
  <2>1. Call("get", r, s, Nobody) \in CallSet
    BY DEF Call, CallSet, User
  <2>2. ticks' \in Seq(CallSet)
    BY <1>1, <2>1, EnqueueType DEF IInv, TypeOK, StoreTypeOK, GetSession
  <2>3. StoreTypeOK'
    BY <1>2, <2>2 DEF IInv, TypeOK, StoreTypeOK, storeVars, clockVars
  <2>4. copy' \in [Req -> [sid : Sid \cup {"none"}, user : User, valid : BOOLEAN]]
    BY <1>1 DEF IInv, TypeOK
  <2>5. phase' \in [Req -> Phase]
    BY <1>2 DEF IInv, TypeOK, Phase
  <2>6. QED
    BY <1>1, <1>2, <2>3, <2>4, <2>5 DEF IInv, TypeOK, ghosts
<1>4. CopiesHaveSid'
  BY <1>1, <1>2 DEF IInv, TypeOK, CopiesHaveSid, Holding
<1>5. QED
  BY <1>2, <1>3, <1>4, StoreUnchanged DEF IInv

LEMMA HandleInv ==
  ASSUME IInv, NEW r \in Req, Handle(r)
  PROVE  IInv'
<1>1. /\ phase[r] = "handling" /\ phase' = [phase EXCEPT ![r] = "flushing"]
      /\ UNCHANGED <<storeVars, ticks, clockVars, used, ghosts>>
  BY DEF Handle
<1>2. /\ copy' \in [Req -> [sid : Sid \cup {"none"}, user : User, valid : BOOLEAN]]
      /\ \A q \in Req : copy'[q].sid = copy[q].sid
  <2>1. CASE View(r)
    BY <2>1 DEF IInv, TypeOK, View
  <2>2. CASE Login(r)
    BY <2>2 DEF IInv, TypeOK, Login, User
  <2>3. CASE InvalidateSession(r)
    BY <2>3 DEF IInv, TypeOK, InvalidateSession, User
  <2>4. QED
    BY <2>1, <2>2, <2>3 DEF Handle
<1>3. StoreTypeOK'
  BY <1>1 DEF IInv, TypeOK, StoreTypeOK, storeVars, clockVars
<1>4. phase' \in [Req -> Phase]
  BY <1>1 DEF IInv, TypeOK, Phase
<1>5. TypeOK'
  BY <1>1, <1>2, <1>3, <1>4 DEF IInv, TypeOK, ghosts
<1>6. CopiesHaveSid'
  BY <1>1, <1>2 DEF IInv, TypeOK, CopiesHaveSid, Holding
<1>7. QED
  BY <1>1, <1>5, <1>6, StoreUnchanged DEF IInv

LEMMA AfterInv ==
  ASSUME IInv, NEW r \in Req, After(r)
  PROVE  IInv'
<1>1. /\ phase[r] = "flushing" /\ phase' = [phase EXCEPT ![r] = "saving"]
      /\ UNCHANGED <<storeVars, clockVars, copy, used, ghosts>>
  BY DEF After
<1>2. copy[r].sid \in Sid /\ copy[r].user \in User
  BY <1>1 DEF IInv, TypeOK, CopiesHaveSid, Holding
<1>3. ticks' \in Seq(CallSet)
  <2>1. CASE SetSession(r, copy[r].sid, copy[r].user)
    <3>1. Call("set", r, copy[r].sid, copy[r].user) \in CallSet
      BY <1>2 DEF Call, CallSet
    <3>2. QED
      BY <2>1, <3>1, EnqueueType DEF IInv, TypeOK, StoreTypeOK, SetSession
  <2>2. CASE RemoveUserSession(r, copy[r].sid)
    <3>1. Call("remove", r, copy[r].sid, Nobody) \in CallSet
      BY <1>2 DEF Call, CallSet, User
    <3>2. QED
      BY <2>2, <3>1, EnqueueType DEF IInv, TypeOK, StoreTypeOK, RemoveUserSession
  <2>3. QED
    BY <2>1, <2>2 DEF After
<1>4. StoreTypeOK'
  BY <1>1, <1>3 DEF IInv, TypeOK, StoreTypeOK, storeVars, clockVars
<1>5. phase' \in [Req -> Phase]
  BY <1>1 DEF IInv, TypeOK, Phase
<1>6. TypeOK'
  BY <1>1, <1>4, <1>5 DEF IInv, TypeOK, ghosts
<1>7. CopiesHaveSid'
  BY <1>1, <1>2 DEF IInv, TypeOK, CopiesHaveSid, Holding
<1>8. QED
  BY <1>1, <1>6, <1>7, StoreUnchanged DEF IInv

-----------------------------------------------------------------------------
(* The provider's calls.  Each of them keeps the store's part. *)

StoreOK ==
  /\ DOMAIN store \subseteq Sid /\ \A s \in DOMAIN store : store[s] \in User
  /\ DOMAIN timeouts \subseteq Sid /\ \A s \in DOMAIN timeouts : timeouts[s] \in Nat
  /\ SameKeys
  /\ SweptInTime

LEMMA PutKeeps ==
  ASSUME StoreOK, now \in Nat, swept \in Nat, UNCHANGED clockVars,
         NEW s \in Sid, NEW u \in User,
         store' = Put(store, s, u), timeouts' = Put(timeouts, s, now + Timeout)
  PROVE  StoreOK'
<1>1. DOMAIN store' = DOMAIN store \cup {s} /\ DOMAIN timeouts' = DOMAIN timeouts \cup {s}
  BY PutDomain
<1>2. \A x \in DOMAIN store' : store'[x] = IF x = s THEN u ELSE store[x]
  BY <1>1 DEF Put
<1>3. \A x \in DOMAIN timeouts' : timeouts'[x] = IF x = s THEN now + Timeout ELSE timeouts[x]
  BY <1>1 DEF Put
<1>4. now + Timeout \in Nat /\ now + Timeout >= swept
  BY TimesAssumption DEF StoreOK, SweptInTime
<1>5. SameKeys'
  BY <1>1 DEF StoreOK, SameKeys
<1>6. SweptInTime'
  BY <1>1, <1>3, <1>4 DEF StoreOK, SweptInTime, clockVars
<1>7. QED
  BY <1>1, <1>2, <1>3, <1>4, <1>5, <1>6 DEF StoreOK

LEMMA DropKeeps ==
  ASSUME StoreOK, UNCHANGED clockVars, NEW S,
         store' = Drop(store, S), timeouts' = Drop(timeouts, S)
  PROVE  StoreOK'
<1>1. DOMAIN store' = DOMAIN store \ S /\ DOMAIN timeouts' = DOMAIN timeouts \ S
  BY DropFacts
<1>2. \A x \in DOMAIN store' : store'[x] = store[x]
  BY <1>1, DropFacts
<1>3. \A x \in DOMAIN timeouts' : timeouts'[x] = timeouts[x]
  BY <1>1, DropFacts
<1>4. QED
  BY <1>1, <1>2, <1>3 DEF StoreOK, SameKeys, SweptInTime, clockVars

LEMMA RunTickInv ==
  ASSUME IInv, RunTick
  PROVE  IInv'
<1> DEFINE c == Head(ticks)
<1>1. ticks # <<>> /\ ticks' = Tail(ticks) /\ UNCHANGED <<clockVars, used>>
  BY DEF RunTick
<1>2. c \in CallSet /\ ticks' \in Seq(CallSet)
  BY <1>1 DEF IInv, TypeOK, StoreTypeOK
<1>3. c.req \in Req /\ c.sid \in Sid /\ c.user \in User
  BY <1>2 DEF CallSet
<1>4. StoreOK /\ now \in Nat /\ swept \in Nat
  BY DEF IInv, TypeOK, StoreTypeOK, StoreOK
<1> HIDE DEF c
<1>5. CASE Loaded(c)
  <2>1. Found(c.sid) \in User
    BY <1>4 DEF Found, StoreOK, User
  <2>2. StoreOK'
    BY <1>1, <1>3, <1>4, <1>5, <2>1, PutKeeps DEF Loaded, RunGet
  <2>3. copy' \in [Req -> [sid : Sid \cup {"none"}, user : User, valid : BOOLEAN]]
    BY <1>3, <1>5, <2>1 DEF Loaded, Attach, IInv, TypeOK
  <2>4. phase' \in [Req -> Phase]
    BY <1>3, <1>5 DEF Loaded, Attach, IInv, TypeOK, Phase
  <2>5. StoreTypeOK'
    BY <1>1, <1>2, <1>4, <2>2 DEF StoreOK, StoreTypeOK, clockVars
  <2>6. TypeOK'
    BY <1>1, <1>5, <2>3, <2>4, <2>5 DEF Loaded, IInv, TypeOK, ghosts
  <2>7. CopiesHaveSid'
    BY <1>3, <1>5 DEF Loaded, Attach, IInv, TypeOK, CopiesHaveSid
  <2>8. QED
    BY <2>2, <2>6, <2>7 DEF IInv, StoreOK
<1>6. CASE Saved(c)
  <2>1. StoreOK'
    BY <1>1, <1>3, <1>4, <1>6, PutKeeps DEF Saved, RunSet
  <2>2. phase' \in [Req -> Phase]
    BY <1>3, <1>6 DEF Saved, Finished, IInv, TypeOK, Phase
  <2>3. StoreTypeOK'
    BY <1>1, <1>2, <1>4, <2>1 DEF StoreOK, StoreTypeOK, clockVars
  <2>4. TypeOK'
    BY <1>1, <1>6, <2>2, <2>3 DEF Saved, IInv, TypeOK
  <2>5. CopiesHaveSid'
    BY <1>3, <1>6 DEF Saved, Finished, IInv, TypeOK, CopiesHaveSid, Holding
  <2>6. QED
    BY <2>1, <2>4, <2>5 DEF IInv, StoreOK
<1>7. CASE Removed(c)
  <2>1. StoreOK'
    <3>1. CASE c.sid \in DOMAIN store
      BY <1>1, <1>4, <1>7, <3>1, DropKeeps DEF Removed, RunRemove
    <3>2. CASE c.sid \notin DOMAIN store
      BY <1>1, <1>4, <1>7, <3>2
         DEF Removed, RunRemove, storeVars, clockVars, StoreOK, SameKeys, SweptInTime
    <3>3. QED
      BY <3>1, <3>2
  <2>2. phase' \in [Req -> Phase]
    BY <1>3, <1>7 DEF Removed, Finished, IInv, TypeOK, Phase
  <2>3. StoreTypeOK'
    BY <1>1, <1>2, <1>4, <2>1 DEF StoreOK, StoreTypeOK, clockVars
  <2>4. TypeOK'
    BY <1>1, <1>3, <1>7, <2>2, <2>3 DEF Removed, IInv, TypeOK
  <2>5. CopiesHaveSid'
    BY <1>3, <1>7 DEF Removed, Finished, IInv, TypeOK, CopiesHaveSid, Holding
  <2>6. QED
    BY <2>1, <2>4, <2>5 DEF IInv, StoreOK
<1>8. QED
  BY <1>5, <1>6, <1>7 DEF RunTick, c

(* A cleanup on time leaves only deadlines that are not over. *)
LEMMA CleanupInv ==
  ASSUME IInv, CleanupStep
  PROVE  IInv'
<1>1. /\ now = swept + Period /\ swept' = now /\ now' = now /\ ticks' = ticks
      /\ store' = Drop(store, Expired) /\ timeouts' = Drop(timeouts, Expired)
      /\ UNCHANGED <<reqVars, used, ghosts>>
  BY DEF CleanupStep, Cleanup
<1>2. DOMAIN store' = DOMAIN store \ Expired /\ DOMAIN timeouts' = DOMAIN timeouts \ Expired
  BY <1>1, DropFacts
<1>3. /\ \A x \in DOMAIN store' : store'[x] = store[x]
      /\ \A x \in DOMAIN timeouts' : timeouts'[x] = timeouts[x]
  <2>1. /\ store' = Drop(store, Expired)
        /\ timeouts' = Drop(timeouts, Expired)
    BY <1>1
  <2>2. \A x \in DOMAIN store \ Expired : Drop(store, Expired)[x] = store[x]
    BY DropFacts
  <2>3. \A x \in DOMAIN timeouts \ Expired : Drop(timeouts, Expired)[x] = timeouts[x]
    BY DropFacts
  <2>4. \A x \in DOMAIN store' : store'[x] = store[x]
    BY <1>2, <2>1, <2>2
  <2>5. \A x \in DOMAIN timeouts' : timeouts'[x] = timeouts[x]
    BY <1>2, <2>1, <2>3
  <2>6. QED
    BY <2>4, <2>5
<1>4. \A x \in DOMAIN timeouts' : timeouts'[x] >= now
  BY <1>2, <1>3 DEF Expired, IInv, TypeOK, StoreTypeOK
<1>5. SweptInTime'
  BY <1>1, <1>4, TimesAssumption DEF SweptInTime, IInv, TypeOK, StoreTypeOK
<1>6. SameKeys'
  BY <1>2 DEF SameKeys, IInv
<1>7. StoreTypeOK'
  BY <1>1, <1>2, <1>3 DEF IInv, TypeOK, StoreTypeOK
<1>8. TypeOK' /\ CopiesHaveSid'
  BY <1>1, <1>7 DEF IInv, TypeOK, CopiesHaveSid, reqVars, ghosts
<1>9. QED
  BY <1>5, <1>6, <1>8 DEF IInv

LEMMA TickInv ==
  ASSUME IInv, TickStep
  PROVE  IInv'
<1>1. /\ now < swept + Period /\ now' = now + 1
      /\ UNCHANGED <<storeVars, ticks, swept, reqVars, used, ghosts>>
  BY DEF TickStep, Tick
<1>2. now \in Nat /\ swept \in Nat /\ Period \in Nat
  BY TimesAssumption DEF IInv, TypeOK, StoreTypeOK
<1>3. SweptInTime' /\ SameKeys'
  BY <1>1, <1>2 DEF IInv, SweptInTime, SameKeys, storeVars
<1>4. TypeOK' /\ CopiesHaveSid'
  BY <1>1, <1>2 DEF IInv, TypeOK, StoreTypeOK, CopiesHaveSid, reqVars, ghosts, storeVars
<1>5. QED
  BY <1>3, <1>4 DEF IInv

-----------------------------------------------------------------------------
LEMMA IInvStep == IInv /\ [Next]_vars => IInv'
<1>1. SUFFICES ASSUME IInv, [Next]_vars PROVE IInv'
  OBVIOUS
<1>2. CASE UNCHANGED vars
  BY <1>1, <1>2 DEF vars, IInv, TypeOK, StoreTypeOK, CopiesHaveSid, SameKeys, SweptInTime,
                    storeVars, clockVars, reqVars, ghosts
<1>3. CASE Next
  BY <1>1, <1>3, BeforeWithoutCookieInv, BeforeWithCookieInv, HandleInv, AfterInv,
     RunTickInv, CleanupInv, TickInv DEF Next
<1>4. QED
  BY <1>1, <1>2, <1>3

(* The inductive invariant holds in every reachable state. *)
THEOREM IInvHolds == Spec => []IInv
BY InitInv, IInvStep, PTL DEF Spec

(* Types: every call that reaches the provider carries a session id. *)
THEOREM TypesHold == Spec => []TypeOK
<1>1. IInv => TypeOK
  BY DEF IInv
<1>2. QED
  BY <1>1, IInvHolds, PTL

(* map_ and timeouts_ always have the same keys, in whatever order the     *)
(* queued calls of concurrent requests run between two cleanups.           *)
THEOREM SameKeysHolds == Spec => []SameKeys
<1>1. IInv => SameKeys
  BY DEF IInv
<1>2. QED
  BY <1>1, IInvHolds, PTL

(* Cleanup works: no session is kept longer than Period past its deadline. *)
THEOREM NoneOutlivesSweepHolds == Spec => []NoneOutlivesSweep
<1>1. IInv => NoneOutlivesSweep
  BY TimesAssumption DEF IInv, TypeOK, StoreTypeOK, SameKeys, SweptInTime, NoneOutlivesSweep
<1>2. QED
  BY <1>1, IInvHolds, PTL

-----------------------------------------------------------------------------
(* Logging out for good.  A queued call belongs to a request that waits    *)
(* for it, and to that request's copy; a request waits for one call.       *)

Fits(c) ==
  /\ c.sid = copy[c.req].sid
  /\ phase[c.req] = IF c.do = "get" THEN "loading" ELSE "saving"
  /\ c.do = "set" => c.user = copy[c.req].user
  /\ c.do # "get" => (c.do = "set" <=> copy[c.req].valid)

CallsFit == \A k \in DOMAIN ticks : Fits(ticks[k])
OneCallEach == \A j, k \in DOMAIN ticks : ticks[j].req = ticks[k].req => j = k

(* Whoever holds a copy of a session that was quietly logged out of holds  *)
(* an anonymous one, or has logged in himself.                             *)
QuietCopies ==
  \A s \in quiet, r \in Req :
     copy[r].sid = s /\ phase[r] \in Holding => copy[r].user \in {Nobody, r}

QInv == IInv /\ CallsFit /\ OneCallEach /\ QuietCopies /\ QuietLogoutIsFinal

LEMMA QInitInv == Init => QInv
BY InitInv DEF Init, StoreInit, QInv, CallsFit, OneCallEach, QuietCopies, QuietLogoutIsFinal

(* A request without a queued call queues one that fits. *)
LEMMA QEnqueue ==
  ASSUME QInv, NEW r \in Req, phase[r] \notin {"loading", "saving"},
         NEW c \in CallSet, c.req = r, Enqueue(c), Fits(c)',
         \A q \in Req \ {r} : phase'[q] = phase[q] /\ copy'[q] = copy[q]
  PROVE  CallsFit' /\ OneCallEach'
<1>1. ticks \in Seq(CallSet) /\ ticks' = Append(ticks, c)
  BY DEF QInv, IInv, TypeOK, StoreTypeOK, Enqueue
<1>2. /\ DOMAIN ticks' = DOMAIN ticks \cup {Len(ticks) + 1}
      /\ \A k \in DOMAIN ticks : ticks'[k] = ticks[k] /\ k # Len(ticks) + 1
      /\ ticks'[Len(ticks) + 1] = c
  BY <1>1
<1>3. \A k \in DOMAIN ticks : ticks[k] \in CallSet
  BY <1>1
<1>4. \A k \in DOMAIN ticks : ticks[k].req \in Req \ {r}
  BY <1>3 DEF QInv, CallsFit, Fits, CallSet
<1>5. \A k \in DOMAIN ticks : Fits(ticks[k])'
  BY <1>2, <1>4 DEF QInv, CallsFit, Fits
<1>6. CallsFit'
  BY <1>2, <1>5 DEF CallsFit, Fits
<1>7. OneCallEach'
  BY <1>2, <1>4 DEF QInv, OneCallEach
<1>8. QED
  BY <1>6, <1>7

(* A request that has no queued call may change its phase and copy. *)
LEMMA QNoCall ==
  ASSUME QInv, NEW r \in Req, phase[r] \notin {"loading", "saving"}, UNCHANGED ticks,
         \A q \in Req \ {r} : phase'[q] = phase[q] /\ copy'[q] = copy[q]
  PROVE  CallsFit' /\ OneCallEach'
<1>1. \A k \in DOMAIN ticks : ticks[k] \in CallSet
  BY DEF QInv, IInv, TypeOK, StoreTypeOK
<1>2. \A k \in DOMAIN ticks : ticks[k].req \in Req \ {r}
  BY <1>1 DEF QInv, CallsFit, Fits, CallSet
<1>3. QED
  BY <1>2 DEF QInv, CallsFit, OneCallEach, Fits

(* The call at the head of the queue fits, and no other call of its        *)
(* request is left.                                                        *)
LEMMA QHead ==
  ASSUME QInv, ticks # <<>>, ticks' = Tail(ticks), NEW r \in Req, r = Head(ticks).req,
         \A q \in Req \ {r} : phase'[q] = phase[q] /\ copy'[q] = copy[q]
  PROVE  CallsFit' /\ OneCallEach' /\ Fits(Head(ticks))
<1>1. ticks \in Seq(CallSet)
  BY DEF QInv, IInv, TypeOK, StoreTypeOK
<1>2. /\ 1 \in DOMAIN ticks /\ Head(ticks) = ticks[1]
      /\ \A k \in DOMAIN ticks' : k + 1 \in DOMAIN ticks /\ ticks'[k] = ticks[k + 1] /\ k + 1 # 1
  BY <1>1
<1>3. \A k \in DOMAIN ticks : ticks[k] \in CallSet
  BY <1>1
<1>4. \A k \in DOMAIN ticks' : ticks[k + 1].req \in Req \ {r}
  BY <1>2, <1>3 DEF QInv, OneCallEach, CallSet
<1>5. CallsFit'
  BY <1>2, <1>4 DEF QInv, CallsFit, Fits
<1>6. OneCallEach'
  <2>1. \A j, k \in DOMAIN ticks' : j \in Int /\ k \in Int
    BY <1>1
  <2>2. SUFFICES ASSUME NEW j \in DOMAIN ticks', NEW k \in DOMAIN ticks',
                        ticks'[j].req = ticks'[k].req
                 PROVE  j = k
    BY DEF OneCallEach
  <2>3. j + 1 = k + 1
    BY <1>2, <2>2 DEF QInv, OneCallEach
  <2>4. QED
    BY <2>1, <2>3
<1>7. QED
  BY <1>2, <1>5, <1>6 DEF QInv, CallsFit

LEMMA QRequestStep ==
  ASSUME QInv, NEW r \in Req,
         BeforeWithoutCookie(r) \/ BeforeWithCookie(r) \/ Handle(r) \/ After(r)
  PROVE  CallsFit' /\ OneCallEach' /\ QuietCopies' /\ QuietLogoutIsFinal'
<1>1. /\ phase \in [Req -> Phase]
      /\ copy \in [Req -> [sid : Sid \cup {"none"}, user : User, valid : BOOLEAN]]
      /\ \A q \in Req : phase[q] \in Holding => copy[q].sid \in Sid
  BY DEF QInv, IInv, TypeOK, CopiesHaveSid
<1>2. CASE BeforeWithoutCookie(r)
  <2>1. PICK s \in Sid : Attach(r, s, Nobody)
    BY <1>2 DEF BeforeWithoutCookie
  <2>2. phase[r] = "new" /\ UNCHANGED <<storeVars, ticks, ghosts>>
    BY <1>2 DEF BeforeWithoutCookie
  <2>3. /\ copy'[r].user = Nobody
        /\ \A q \in Req \ {r} : phase'[q] = phase[q] /\ copy'[q] = copy[q]
    BY <1>1, <2>1 DEF Attach
  <2>4. CallsFit' /\ OneCallEach'
    BY <2>2, <2>3, QNoCall
  <2>5. QuietCopies'
    BY <2>2, <2>3 DEF QInv, QuietCopies, ghosts
  <2>6. QED
    BY <2>2, <2>4, <2>5 DEF QInv, QuietLogoutIsFinal, LoggedIn, storeVars, ghosts
<1>3. CASE BeforeWithCookie(r)
  <2>1. PICK s \in Sid : GetSession(r, s) /\ copy' = [copy EXCEPT ![r].sid = s]
    BY <1>3 DEF BeforeWithCookie
  <2>2. /\ phase[r] = "new" /\ phase' = [phase EXCEPT ![r] = "loading"]
        /\ UNCHANGED <<storeVars, ghosts>>
    BY <1>3 DEF BeforeWithCookie
  <2>3. /\ phase'[r] = "loading" /\ copy'[r].sid = s
        /\ \A q \in Req \ {r} : phase'[q] = phase[q] /\ copy'[q] = copy[q]
    BY <1>1, <2>1, <2>2
  <2> DEFINE c == Call("get", r, s, Nobody)
  <2>4. c \in CallSet /\ c.req = r /\ Enqueue(c) /\ c.sid = s /\ c.do = "get"
    BY <2>1 DEF Call, CallSet, User, GetSession
  <2> HIDE DEF c
  <2>5. Fits(c)'
    BY <2>3, <2>4 DEF Fits
  <2>6. CallsFit' /\ OneCallEach'
    BY <2>2, <2>3, <2>4, <2>5, QEnqueue
  <2>7. QuietCopies'
    BY <2>2, <2>3 DEF QInv, QuietCopies, Holding, ghosts
  <2>8. QED
    BY <2>2, <2>6, <2>7 DEF QInv, QuietLogoutIsFinal, LoggedIn, storeVars, ghosts
<1>4. CASE Handle(r)
  <2>1. /\ phase[r] = "handling" /\ phase' = [phase EXCEPT ![r] = "flushing"]
        /\ UNCHANGED <<storeVars, ticks, ghosts>>
    BY <1>4 DEF Handle
  <2>2. /\ copy'[r].sid = copy[r].sid
        /\ copy'[r].user \in {copy[r].user, Nobody, r}
        /\ \A q \in Req \ {r} : phase'[q] = phase[q] /\ copy'[q] = copy[q]
    BY <1>1, <1>4, <2>1 DEF Handle, View, Login, InvalidateSession
  <2>3. CallsFit' /\ OneCallEach'
    BY <2>1, <2>2, QNoCall
  <2>4. QuietCopies'
    BY <2>1, <2>2 DEF QInv, QuietCopies, Holding, ghosts
  <2>5. QED
    BY <2>1, <2>3, <2>4 DEF QInv, QuietLogoutIsFinal, LoggedIn, storeVars, ghosts
<1>5. CASE After(r)
  <2>1. /\ phase[r] = "flushing" /\ phase' = [phase EXCEPT ![r] = "saving"]
        /\ UNCHANGED <<storeVars, copy, ghosts>>
    BY <1>5 DEF After
  <2>2. /\ phase'[r] = "saving"
        /\ \A q \in Req \ {r} : phase'[q] = phase[q] /\ copy'[q] = copy[q]
    BY <1>1, <2>1
  <2>3. copy[r].sid \in Sid /\ copy[r].user \in User
    BY <1>1, <2>1 DEF Holding
  <2>4. PICK c \in CallSet : /\ c.req = r /\ Enqueue(c) /\ c.sid = copy[r].sid
                             /\ c.do \in {"set", "remove"}
                             /\ c.do = "set" => c.user = copy[r].user
                             /\ c.do = "set" <=> copy[r].valid
    <3>1. CASE copy[r].valid
      <4>1. Call("set", r, copy[r].sid, copy[r].user) \in CallSet
        BY <2>3 DEF Call, CallSet
      <4>2. SetSession(r, copy[r].sid, copy[r].user)
        BY <1>5, <3>1 DEF After
      <4>3. QED
        BY <3>1, <4>1, <4>2 DEF Call, SetSession
    <3>2. CASE ~copy[r].valid
      <4>1. Call("remove", r, copy[r].sid, Nobody) \in CallSet
        BY <2>3 DEF Call, CallSet, User
      <4>2. RemoveUserSession(r, copy[r].sid)
        BY <1>5, <3>2 DEF After
      <4>3. QED
        BY <3>2, <4>1, <4>2 DEF Call, RemoveUserSession
    <3>3. QED
      BY <3>1, <3>2
  <2>5. Fits(c)'
    BY <2>1, <2>2, <2>4 DEF Fits
  <2>6. CallsFit' /\ OneCallEach'
    BY <2>1, <2>2, <2>4, <2>5, QEnqueue
  <2>7. QuietCopies'
    BY <2>1, <2>2 DEF QInv, QuietCopies, Holding, ghosts
  <2>8. QED
    BY <2>1, <2>6, <2>7 DEF QInv, QuietLogoutIsFinal, LoggedIn, storeVars, ghosts
<1>6. QED
  BY <1>2, <1>3, <1>4, <1>5

LEMMA QTickStep ==
  ASSUME QInv, RunTick
  PROVE  CallsFit' /\ OneCallEach' /\ QuietCopies' /\ QuietLogoutIsFinal'
<1> DEFINE c == Head(ticks)
<1>1. ticks # <<>> /\ ticks' = Tail(ticks)
  BY DEF RunTick
<1>2. /\ c \in CallSet
      /\ phase \in [Req -> Phase]
      /\ copy \in [Req -> [sid : Sid \cup {"none"}, user : User, valid : BOOLEAN]]
  BY <1>1 DEF QInv, IInv, TypeOK, StoreTypeOK
<1>3. c.req \in Req /\ c.sid \in Sid
  BY <1>2 DEF CallSet
<1>4. \A q \in Req \ {c.req} : phase'[q] = phase[q] /\ copy'[q] = copy[q]
  <2>1. CASE Loaded(c)
    BY <1>2, <2>1 DEF Loaded, Attach
  <2>2. CASE Saved(c) \/ Removed(c)
    BY <1>2, <2>2 DEF Saved, Removed, Finished
  <2>3. QED
    BY <2>1, <2>2 DEF RunTick
<1>5. CallsFit' /\ OneCallEach' /\ Fits(c)
  BY <1>1, <1>3, <1>4, QHead
<1> HIDE DEF c
<1>6. CASE Loaded(c)
  <2>1. /\ copy'[c.req].user = Found(c.sid) /\ copy'[c.req].sid = c.sid
        /\ store' = Put(store, c.sid, Found(c.sid)) /\ UNCHANGED ghosts
    BY <1>2, <1>3, <1>6 DEF Loaded, Attach, RunGet
  <2>2. c.sid \in quiet => Found(c.sid) = Nobody
    BY DEF Found, QInv, QuietLogoutIsFinal, LoggedIn
  <2>3. QuietCopies'
    BY <1>4, <2>1, <2>2 DEF QInv, QuietCopies, ghosts
  <2>4. \A s \in DOMAIN store' : store'[s] = IF s = c.sid THEN Found(c.sid) ELSE store[s]
    BY <2>1 DEF Put
  <2>5. DOMAIN store' = DOMAIN store \cup {c.sid}
    BY <2>1, PutDomain
  <2>6. QuietLogoutIsFinal'
    BY <2>1, <2>2, <2>4, <2>5 DEF QInv, QuietLogoutIsFinal, LoggedIn, ghosts
  <2>7. QED
    BY <1>5, <2>3, <2>6
<1>7. CASE Saved(c)
  <2>1. /\ c.do = "set" /\ store' = Put(store, c.sid, c.user)
        /\ UNCHANGED copy
        /\ quiet' = IF c.user = c.req THEN quiet \ {c.sid} ELSE quiet
    BY <1>7 DEF Saved, RunSet
  <2>2. phase'[c.req] = "done" /\ phase[c.req] = "saving"
    BY <1>2, <1>3, <1>5, <1>7, <2>1 DEF Saved, Finished, Fits
  <2>3. QuietCopies'
    BY <1>4, <2>1, <2>2 DEF QInv, QuietCopies, Holding
  <2>4. c.sid \in quiet' => c.user = Nobody
    BY <1>3, <1>5, <2>1, <2>2 DEF QInv, QuietCopies, Fits, Holding
  <2>5. \A s \in DOMAIN store' : store'[s] = IF s = c.sid THEN c.user ELSE store[s]
    BY <2>1 DEF Put
  <2>6. DOMAIN store' = DOMAIN store \cup {c.sid}
    BY <2>1, PutDomain
  <2>7. QuietLogoutIsFinal'
    BY <2>1, <2>4, <2>5, <2>6 DEF QInv, QuietLogoutIsFinal, LoggedIn
  <2>8. QED
    BY <1>5, <2>3, <2>7
<1>8. CASE Removed(c)
  <2>1. /\ RunRemove(c) /\ UNCHANGED copy
        /\ quiet' = IF Holders(c) = {} THEN quiet \cup {c.sid} ELSE quiet \ {c.sid}
    BY <1>8 DEF Removed
  <2>2. phase'[c.req] = "done"
    BY <1>2, <1>3, <1>8 DEF Removed, Finished
  <2>3. QuietCopies'
    <3>1. SUFFICES ASSUME NEW s \in quiet', NEW r \in Req,
                          copy'[r].sid = s, phase'[r] \in Holding
                   PROVE  copy'[r].user \in {Nobody, r}
      BY DEF QuietCopies
    <3>2. r \in Req \ {c.req} /\ phase[r] \in Holding /\ copy[r].sid = s
      BY <1>4, <2>1, <2>2, <3>1 DEF Holding
    <3>3. CASE s = c.sid
      BY <2>1, <3>2, <3>3 DEF Holders, Holding
    <3>4. CASE s # c.sid
      BY <2>1, <3>1, <3>2, <3>4 DEF QInv, QuietCopies
    <3>5. QED
      BY <3>3, <3>4
  <2>4. DOMAIN store' = DOMAIN store \ {c.sid}
    BY <2>1, DropFacts DEF RunRemove, storeVars
  <2>5. \A s \in DOMAIN store' : store'[s] = store[s]
    BY <2>1, <2>4 DEF RunRemove, storeVars, Drop, Restrict
  <2>6. QuietLogoutIsFinal'
    BY <2>1, <2>4, <2>5 DEF QInv, QuietLogoutIsFinal, LoggedIn
  <2>7. QED
    BY <1>5, <2>3, <2>6
<1>9. QED
  BY <1>6, <1>7, <1>8 DEF RunTick, c

LEMMA QClockStep ==
  ASSUME QInv, CleanupStep \/ TickStep
  PROVE  CallsFit' /\ OneCallEach' /\ QuietCopies' /\ QuietLogoutIsFinal'
<1>1. UNCHANGED <<ticks, reqVars, ghosts>>
  BY DEF CleanupStep, TickStep, Cleanup, Tick
<1>2. CallsFit' /\ OneCallEach' /\ QuietCopies'
  BY <1>1 DEF QInv, CallsFit, OneCallEach, QuietCopies, Fits, reqVars, ghosts
<1>3. /\ DOMAIN store' \subseteq DOMAIN store
      /\ \A s \in DOMAIN store' : store'[s] = store[s]
  <2>1. CASE CleanupStep
    <3>1. store' = Drop(store, Expired)
      BY <2>1 DEF CleanupStep, Cleanup
    <3>2. QED
      BY <3>1 DEF Drop, Restrict
  <2>2. CASE TickStep
    BY <2>2 DEF TickStep, Tick, storeVars
  <2>3. QED
    BY <2>1, <2>2
<1>4. QED
  BY <1>1, <1>2, <1>3 DEF QInv, QuietLogoutIsFinal, LoggedIn, ghosts

LEMMA QInvStep == QInv /\ [Next]_vars => QInv'
<1>1. SUFFICES ASSUME QInv, [Next]_vars PROVE QInv'
  OBVIOUS
<1>2. IInv'
  BY <1>1, IInvStep DEF QInv
<1>3. CASE UNCHANGED vars
  BY <1>1, <1>2, <1>3 DEF vars, QInv, CallsFit, OneCallEach, QuietCopies, Fits,
     QuietLogoutIsFinal, LoggedIn, storeVars, reqVars, ghosts
<1>4. CASE Next
  BY <1>1, <1>2, <1>4, QRequestStep, QTickStep, QClockStep DEF Next, QInv
<1>5. QED
  BY <1>1, <1>3, <1>4

(* Logging out is final when no other request holds a copy of the session: *)
(* no later request, whatever it does short of a login, brings it back.    *)
THEOREM QuietLogoutIsFinalHolds == Spec => []QuietLogoutIsFinal
<1>1. QInv => QuietLogoutIsFinal
  BY DEF QInv
<1>2. QED
  BY QInitInv, QInvStep, <1>1, PTL DEF Spec

-----------------------------------------------------------------------------
(* The store that requests see (SessionStore). *)

Session == [sid : Sid \cup {"none"}, user : User, valid : BOOLEAN]
Who == [s \in Sid |-> Found(s)]
Calls == [r \in Req |-> Asked(phase[r], copy[r])]
Tales == [r \in Req |-> Told(phase[r], copy[r])]
NoCall == [do |-> "none", sid |-> "none", user |-> Nobody]

LEMMA AskedTable ==
  ASSUME NEW c
  PROVE  /\ Asked("new", c) = NoCall /\ Asked("handling", c) = NoCall
         /\ Asked("flushing", c) = NoCall /\ Asked("done", c) = NoCall
         /\ Asked("loading", c) = [do |-> "get", sid |-> c.sid, user |-> Nobody]
<1>1. Asked("new", c) = NoCall /\ Asked("handling", c) = NoCall
  BY DEF Asked, NoCall
<1>2. Asked("flushing", c) = NoCall /\ Asked("done", c) = NoCall
  BY DEF Asked, NoCall
<1>3. Asked("loading", c) = [do |-> "get", sid |-> c.sid, user |-> Nobody]
  BY DEF Asked
<1>4. QED
  BY <1>1, <1>2, <1>3

LEMMA AskedSet ==
  ASSUME NEW c, c.valid
  PROVE  Asked("saving", c) = [do |-> "set", sid |-> c.sid, user |-> c.user]
BY DEF Asked

LEMMA AskedRemove ==
  ASSUME NEW c, ~c.valid
  PROVE  Asked("saving", c) = [do |-> "remove", sid |-> c.sid, user |-> Nobody]
BY DEF Asked

LEMMA ToldTable ==
  ASSUME NEW c
  PROVE  /\ Told("handling", c) = c.user
         /\ Told("new", c) = Nobody /\ Told("loading", c) = Nobody /\ Told("flushing", c) = Nobody
         /\ Told("saving", c) = Nobody /\ Told("done", c) = Nobody
BY DEF Told

(* A step of one request moves what that request asked and was told. *)
Moves(r, from, to, c) ==
  /\ phase[r] = from /\ phase' = [phase EXCEPT ![r] = to]
  /\ copy' = [copy EXCEPT ![r] = c]

LEMMA CallMoves ==
  ASSUME TypeOK, NEW r \in Req, NEW from, NEW to, NEW c, Moves(r, from, to, c)
  PROVE  /\ Calls[r] = Asked(from, copy[r]) /\ Calls' = [Calls EXCEPT ![r] = Asked(to, c)]
         /\ Tales[r] = Told(from, copy[r]) /\ Tales' = [Tales EXCEPT ![r] = Told(to, c)]
<1>1. /\ phase[r] = from /\ phase'[r] = to /\ copy'[r] = c
      /\ \A q \in Req \ {r} : phase'[q] = phase[q] /\ copy'[q] = copy[q]
  BY DEF TypeOK, Moves
<1>2. Calls' = [q \in Req |-> Asked(phase'[q], copy'[q])]
  BY DEF Calls, Asked
<1>3. Tales' = [q \in Req |-> Told(phase'[q], copy'[q])]
  BY DEF Tales, Told
<1>4. \A q \in Req \ {r} : /\ Asked(phase'[q], copy'[q]) = Calls[q]
                           /\ Told(phase'[q], copy'[q]) = Tales[q]
  BY <1>1 DEF Calls, Tales
<1>5. Asked(phase'[r], copy'[r]) = Asked(to, c) /\ Told(phase'[r], copy'[r]) = Told(to, c)
  BY <1>1
<1>6. Calls[r] = Asked(from, copy[r]) /\ Tales[r] = Told(from, copy[r])
  BY <1>1 DEF Calls, Tales
<1>7. DOMAIN Calls = Req /\ DOMAIN Tales = Req
  BY DEF Calls, Tales
<1> DEFINE A == Asked(to, c)
           T == Told(to, c)
<1> HIDE DEF A, T
<1>8. Calls' = [Calls EXCEPT ![r] = A]
  BY <1>2, <1>4, <1>5, <1>7 DEF A
<1>9. Tales' = [Tales EXCEPT ![r] = T]
  BY <1>3, <1>4, <1>5, <1>7 DEF T
<1>10. QED
  BY <1>6, <1>8, <1>9 DEF A, T

LEMMA WhoStays == ASSUME store' = store PROVE Who' = Who
BY DEF Who, Found

LEMMA WhoPut ==
  ASSUME NEW s \in Sid, NEW u, store' = Put(store, s, u)
  PROVE  Who' = [Who EXCEPT ![s] = u]
<1>1. DOMAIN store' = DOMAIN store \cup {s} /\ \A x \in DOMAIN store' : store'[x] = IF x = s THEN u ELSE store[x]
  BY PutDomain DEF Put
<1>2. \A x \in Sid : Found(x)' = IF x = s THEN u ELSE Found(x)
  BY <1>1 DEF Found
<1>3. QED
  BY <1>2 DEF Who

LEMMA WhoDrop ==
  ASSUME NEW S, store' = Drop(store, S)
  PROVE  Who' = [x \in Sid |-> IF x \in S THEN Nobody ELSE Who[x]]
<1>1. DOMAIN store' = DOMAIN store \ S /\ \A x \in DOMAIN store \ S : store'[x] = store[x]
  BY DropFacts
<1>2. \A x \in Sid : Found(x)' = IF x \in S THEN Nobody ELSE Found(x)
  BY <1>1 DEF Found
<1>3. QED
  BY <1>2 DEF Who

(* Which steps of the store these are; every call is settled as it takes   *)
(* effect.                                                                 *)
LEMMA StoreActions ==
  ASSUME NEW r \in Req
  PROVE
  LET Settles == Calls' = [Calls EXCEPT ![r] = NoCall]
      k == Calls[r]
  IN
  /\ (k = NoCall /\ (\E s \in Sid : Calls' = [Calls EXCEPT ![r] = [do |-> "get", sid |-> s, user |-> Nobody]])
       /\ Who' = Who /\ Tales' = Tales) => Store!AskGet(r)
  /\ (k = NoCall /\ (\E s \in Sid, u \in User : Calls' = [Calls EXCEPT ![r] = [do |-> "set", sid |-> s, user |-> u]])
       /\ Who' = Who /\ Tales' = Tales) => Store!AskSet(r)
  /\ (k = NoCall /\ (\E s \in Sid : Calls' = [Calls EXCEPT ![r] = [do |-> "remove", sid |-> s, user |-> Nobody]])
       /\ Who' = Who /\ Tales' = Tales) => Store!AskRemove(r)
  /\ (k.do = "get" /\ Settles /\ Who' = Who
       /\ Tales' = [Tales EXCEPT ![r] = Who[k.sid]]) => Store!TakeGet(r)
  /\ (k.do = "set" /\ Settles /\ Tales' = Tales /\ Who' = [Who EXCEPT ![k.sid] = k.user]) => Store!TakeSet(r)
  /\ (k.do = "remove" /\ Settles /\ Tales' = Tales /\ Who' = [Who EXCEPT ![k.sid] = Nobody]) => Store!TakeRemove(r)
  /\ (k = NoCall /\ Calls' = Calls /\ Tales' = [Tales EXCEPT ![r] = Nobody] /\ Who' = Who) => Store!Use(r)
BY DEF Calls, Tales, Who, NoCall, User, Nobody, Store!AskGet, Store!AskSet, Store!AskRemove, Store!TakeGet,
       Store!TakeSet, Store!TakeRemove, Store!Use, Store!Takes,
       Store!NoCall, Store!Taken, Store!CallOf, Store!User, Store!Nobody

LEMMA SameTale == ASSUME NEW r \in Req, NEW x, x = Tales[r] PROVE [Tales EXCEPT ![r] = x] = Tales
BY DEF Tales

LEMMA SameCall == ASSUME NEW r \in Req, NEW x, x = Calls[r] PROVE [Calls EXCEPT ![r] = x] = Calls
BY DEF Calls

(* What a request does by itself asks the store something, or is none of   *)
(* its business.                                                           *)
LEMMA RequestOnStore ==
  ASSUME QInv, NEW r \in Req,
         BeforeWithoutCookie(r) \/ BeforeWithCookie(r) \/ Handle(r) \/ After(r)
  PROVE  \/ Store!AskGet(r) \/ Store!AskSet(r) \/ Store!AskRemove(r) \/ Store!Use(r)
         \/ Who' = Who /\ Calls' = Calls /\ Tales' = Tales
<1> DEFINE c == copy[r]
<1>1. TypeOK /\ CopiesHaveSid /\ copy \in [Req -> Session] /\ c \in Session
  BY DEF QInv, IInv, TypeOK, Session
<1>2. c.valid \in BOOLEAN /\ c.user \in User
  BY <1>1 DEF Session
<1>3. Who' = Who
  BY WhoStays DEF BeforeWithoutCookie, BeforeWithCookie, Handle, After, storeVars
<1>4. CASE BeforeWithoutCookie(r)
  <2>1. PICK s \in Sid : Attach(r, s, Nobody)
    BY <1>4 DEF BeforeWithoutCookie
  <2> DEFINE d == [sid |-> s, user |-> Nobody, valid |-> TRUE]
  <2>2. d.valid \in BOOLEAN /\ d.user = Nobody
    OBVIOUS
  <2>3. Moves(r, "new", "handling", d)
    BY <1>4, <2>1 DEF BeforeWithoutCookie, Attach, Moves
  <2> HIDE DEF c, d
  <2>4. /\ Calls[r] = Asked("new", c) /\ Calls' = [Calls EXCEPT ![r] = Asked("handling", d)]
        /\ Tales[r] = Told("new", c) /\ Tales' = [Tales EXCEPT ![r] = Told("handling", d)]
    BY <1>1, <2>3, CallMoves DEF c
  <2>5. Calls' = Calls /\ Tales' = Tales
    BY <1>2, <2>2, <2>4, AskedTable, ToldTable, SameCall, SameTale
  <2>6. QED
    BY <1>3, <2>5
<1>5. CASE BeforeWithCookie(r)
  <2>1. PICK s \in Sid : copy' = [copy EXCEPT ![r].sid = s]
    BY <1>5 DEF BeforeWithCookie
  <2> DEFINE d == [c EXCEPT !.sid = s]
  <2>2. d.valid \in BOOLEAN /\ d.sid = s /\ copy' = [copy EXCEPT ![r] = d]
    BY <1>1, <2>1 DEF Session
  <2>3. Moves(r, "new", "loading", d)
    BY <1>5, <2>2 DEF BeforeWithCookie, Moves
  <2> HIDE DEF c, d
  <2>4. /\ Calls[r] = Asked("new", c) /\ Calls' = [Calls EXCEPT ![r] = Asked("loading", d)]
        /\ Tales[r] = Told("new", c) /\ Tales' = [Tales EXCEPT ![r] = Told("loading", d)]
    BY <1>1, <2>3, CallMoves DEF c
  <2>5. /\ Calls[r] = NoCall /\ Tales' = Tales
        /\ Calls' = [Calls EXCEPT ![r] = [do |-> "get", sid |-> s, user |-> Nobody]]
    BY <1>2, <2>2, <2>4, AskedTable, ToldTable, SameTale
  <2>6. Store!AskGet(r)
    BY <1>3, <2>5, StoreActions
  <2>7. QED
    BY <2>6
<1>6. CASE Handle(r)
  <2>1. PICK d \in Session : copy' = [copy EXCEPT ![r] = d]
    <3>1. View(r) => copy' = [copy EXCEPT ![r] = c]
      BY <1>1 DEF View
    <3>2. Login(r) => copy' = [copy EXCEPT ![r] = [c EXCEPT !.user = r]]
      BY <1>1 DEF Login
    <3>3. InvalidateSession(r) => copy' = [copy EXCEPT ![r] = [c EXCEPT !.user = Nobody, !.valid = FALSE]]
      BY <1>1 DEF InvalidateSession
    <3>4. /\ [c EXCEPT !.user = r] \in Session
          /\ [c EXCEPT !.user = Nobody, !.valid = FALSE] \in Session
      BY <1>1 DEF Session, User
    <3>5. QED
      BY <1>1, <1>6, <3>1, <3>2, <3>3, <3>4 DEF Handle
  <2>2. d.valid \in BOOLEAN
    BY DEF Session
  <2>3. Moves(r, "handling", "flushing", d)
    BY <1>6, <2>1 DEF Handle, Moves
  <2> HIDE DEF c
  <2>4. /\ Calls[r] = Asked("handling", c) /\ Calls' = [Calls EXCEPT ![r] = Asked("flushing", d)]
        /\ Tales' = [Tales EXCEPT ![r] = Told("flushing", d)]
    BY <1>1, <2>3, CallMoves DEF c
  <2>5. Calls[r] = NoCall /\ Calls' = Calls /\ Tales' = [Tales EXCEPT ![r] = Nobody]
    BY <1>2, <2>2, <2>4, AskedTable, ToldTable, SameCall
  <2>6. Store!Use(r)
    BY <1>3, <2>5, StoreActions
  <2>7. QED
    BY <2>6
<1>7. CASE After(r)
  <2>1. phase[r] = "flushing" /\ copy' = copy
    BY <1>7 DEF After
  <2>2. Moves(r, "flushing", "saving", c) /\ c.sid \in Sid
    BY <1>1, <1>7, <2>1 DEF After, Moves, CopiesHaveSid, Holding
  <2> HIDE DEF c
  <2>3. /\ Calls[r] = Asked("flushing", c) /\ Calls' = [Calls EXCEPT ![r] = Asked("saving", c)]
        /\ Tales[r] = Told("flushing", c) /\ Tales' = [Tales EXCEPT ![r] = Told("saving", c)]
    BY <1>1, <2>2, CallMoves DEF c
  <2>4. Calls[r] = NoCall /\ Tales' = Tales
    BY <1>2, <2>3, AskedTable, ToldTable, SameTale
  <2>5. CASE c.valid
    <3>1. Asked("saving", c) = [do |-> "set", sid |-> c.sid, user |-> c.user]
      BY <2>5, AskedSet
    <3>2. Store!AskSet(r)
      BY <1>2, <1>3, <2>2, <2>3, <2>4, <3>1, StoreActions
    <3>3. QED
      BY <3>2
  <2>6. CASE ~c.valid
    <3>1. Asked("saving", c) = [do |-> "remove", sid |-> c.sid, user |-> Nobody]
      BY <2>6, AskedRemove
    <3>2. Store!AskRemove(r)
      BY <1>3, <2>2, <2>3, <2>4, <3>1, StoreActions
    <3>3. QED
      BY <3>2
  <2>7. QED
    BY <2>5, <2>6
<1>8. QED
  BY <1>4, <1>5, <1>6, <1>7

(* A call takes effect when its tick runs.  That it fits its request is    *)
(* what makes it the call the request asked for.                           *)
LEMMA TickOnStore ==
  ASSUME QInv, RunTick
  PROVE  \E r \in Req : Store!TakeGet(r) \/ Store!TakeSet(r) \/ Store!TakeRemove(r)
<1> DEFINE k == Head(ticks)
           r == k.req
           c == copy[r]
<1>1. TypeOK /\ copy \in [Req -> Session] /\ k \in CallSet /\ 1 \in DOMAIN ticks /\ k = ticks[1]
  BY DEF RunTick, QInv, IInv, TypeOK, StoreTypeOK, Session
<1>2. r \in Req /\ k.sid \in Sid /\ k.user \in User /\ c \in Session
  BY <1>1 DEF CallSet
<1>3. Fits(k)
  BY <1>1 DEF QInv, CallsFit
<1>4. c.sid = k.sid /\ c.valid \in BOOLEAN
  BY <1>2, <1>3 DEF Fits, Session
<1>5. (Loaded(k) \/ Saved(k) \/ Removed(k)) /\ k.sid \in Sid
  BY <1>2 DEF RunTick
<1>6. CASE Loaded(k)
  <2> DEFINE d == [sid |-> k.sid, user |-> Found(k.sid), valid |-> TRUE]
  <2>1. Moves(r, "loading", "handling", d) /\ store' = Put(store, k.sid, Found(k.sid))
    BY <1>3, <1>6 DEF Loaded, RunGet, Attach, Fits, Moves
  <2>2. d.valid \in BOOLEAN /\ d.user = Found(k.sid)
    OBVIOUS
  <2> HIDE DEF k, r, c, d
  <2>3. /\ Calls[r] = Asked("loading", c) /\ Calls' = [Calls EXCEPT ![r] = Asked("handling", d)]
        /\ Tales' = [Tales EXCEPT ![r] = Told("handling", d)]
    BY <1>1, <1>2, <2>1, CallMoves DEF c
  <2>4. /\ Calls[r] = [do |-> "get", sid |-> k.sid, user |-> Nobody]
        /\ Calls' = [Calls EXCEPT ![r] = NoCall] /\ Tales' = [Tales EXCEPT ![r] = Found(k.sid)]
    BY <1>4, <2>2, <2>3, AskedTable, ToldTable
  <2>5. Found(k.sid) = Who[k.sid]
    BY <1>5 DEF Who
  <2>6. Who' = [Who EXCEPT ![k.sid] = Found(k.sid)]
    BY <1>5, <2>1, WhoPut
  <2>7. Who' = Who
    BY <2>5, <2>6 DEF Who
  <2>8. Calls[r].do = "get" /\ Calls[r].sid = k.sid
    BY <2>4
  <2>9. Store!TakeGet(r)
    BY <1>2, <2>4, <2>5, <2>7, <2>8, StoreActions
  <2>10. QED
    BY <1>2, <2>9
<1>7. ASSUME k.do \in {"set", "remove"}, Finished(k), copy' = copy
      PROVE  /\ Calls[r] = Asked("saving", c) /\ Calls' = [Calls EXCEPT ![r] = NoCall]
             /\ Tales' = Tales /\ (c.valid <=> k.do = "set")
  <2>1. Moves(r, "saving", "done", c) /\ (c.valid <=> k.do = "set")
    BY <1>1, <1>3, <1>4, <1>7 DEF Finished, Fits, Moves
  <2> HIDE DEF k, r, c
  <2>2. /\ Calls[r] = Asked("saving", c) /\ Calls' = [Calls EXCEPT ![r] = Asked("done", c)]
        /\ Tales[r] = Told("saving", c) /\ Tales' = [Tales EXCEPT ![r] = Told("done", c)]
    BY <1>1, <1>2, <2>1, CallMoves DEF c
  <2>3. QED
    BY <1>2, <1>4, <2>1, <2>2, AskedTable, ToldTable, SameTale
<1>8. CASE Saved(k)
  <2>1. /\ k.do = "set" /\ store' = Put(store, k.sid, k.user) /\ Finished(k) /\ copy' = copy
        /\ k.user = c.user
    BY <1>3, <1>8 DEF Saved, RunSet, Fits
  <2> HIDE DEF k, r, c
  <2>2. Calls[r] = [do |-> "set", sid |-> k.sid, user |-> k.user]
    BY <1>4, <1>7, <2>1, AskedSet
  <2>3. Who' = [Who EXCEPT ![k.sid] = k.user]
    BY <1>5, <2>1, WhoPut
  <2>4. Calls[r].do = "set" /\ Calls[r].sid = k.sid /\ Calls[r].user = k.user
    BY <2>2
  <2>5. Store!TakeSet(r)
    BY <1>2, <1>7, <2>1, <2>3, <2>4, StoreActions
  <2>6. QED
    BY <1>2, <2>5
<1>9. CASE Removed(k)
  <2>1. k.do = "remove" /\ Finished(k) /\ copy' = copy
    BY <1>9 DEF Removed, RunRemove
  <2>2. Who' = [Who EXCEPT ![k.sid] = Nobody]
    <3>1. CASE k.sid \in DOMAIN store
      <4>1. store' = Drop(store, {k.sid})
        BY <1>9, <3>1 DEF Removed, RunRemove
      <4>2. Who' = [x \in Sid |-> IF x \in {k.sid} THEN Nobody ELSE Who[x]]
        BY <4>1, WhoDrop
      <4>3. QED
        BY <1>5, <4>2 DEF Who
    <3>2. CASE k.sid \notin DOMAIN store
      <4>1. store' = store /\ Who[k.sid] = Nobody
        BY <1>5, <1>9, <3>2 DEF Removed, RunRemove, storeVars, Who, Found
      <4>2. QED
        BY <4>1, WhoStays DEF Who
    <3>3. QED
      BY <3>1, <3>2
  <2> HIDE DEF k, r, c
  <2>3. Calls[r] = [do |-> "remove", sid |-> k.sid, user |-> Nobody]
    BY <1>4, <1>7, <2>1, AskedRemove
  <2>4. Calls[r].do = "remove" /\ Calls[r].sid = k.sid
    BY <2>3
  <2>5. Store!TakeRemove(r)
    BY <1>2, <1>7, <2>1, <2>2, <2>4, StoreActions
  <2>6. QED
    BY <1>2, <2>5
<1>10. QED
  BY <1>5, <1>6, <1>8, <1>9

LEMMA ClockOnStore ==
  ASSUME QInv, CleanupStep \/ TickStep
  PROVE  Store!Next \/ (Who' = Who /\ Calls' = Calls /\ Tales' = Tales)
<1>1. Calls' = Calls /\ Tales' = Tales
  BY DEF CleanupStep, TickStep, reqVars, Calls, Tales
<1>2. CASE CleanupStep
  <2>1. store' = Drop(store, Expired) /\ Expired \in SUBSET Sid
    BY <1>2 DEF CleanupStep, Cleanup, Expired, QInv, IInv, TypeOK, StoreTypeOK
  <2>2. Who' = [x \in Sid |-> IF x \in Expired THEN Nobody ELSE Who[x]]
    BY <2>1, WhoDrop
  <2>3. Store!Forget(Expired)
    BY <1>1, <2>2 DEF Store!Forget, Who, Calls, Tales, Store!Nobody, Nobody
  <2>4. QED
    BY <2>1, <2>3 DEF Store!Next
<1>3. CASE TickStep
  BY <1>1, <1>3, WhoStays DEF TickStep, Tick, storeVars
<1>4. QED
  BY <1>2, <1>3

(* Sessions in memory implement SessionStore: every call takes effect      *)
(* exactly once, when its tick runs, whatever the other requests do, and a *)
(* cleanup only forgets.                                                   *)
THEOREM StoreHolds == Spec => StoreSpec
<1>1. Init => Store!Init
  <2> SUFFICES ASSUME Init PROVE Store!Init
    OBVIOUS
  <2>1. Who = [s \in Sid |-> Nobody]
    BY DEF Init, StoreInit, Who, Found
  <2>2. \A r \in Req : Asked(phase[r], copy[r]) = NoCall /\ Told(phase[r], copy[r]) = Nobody
    <3> SUFFICES ASSUME NEW r \in Req
                 PROVE  Asked(phase[r], copy[r]) = NoCall /\ Told(phase[r], copy[r]) = Nobody
      OBVIOUS
    <3>1. phase[r] = "new"
      BY DEF Init
    <3>2. QED
      BY <3>1, AskedTable, ToldTable
  <2>3. Calls = [r \in Req |-> NoCall] /\ Tales = [r \in Req |-> Nobody]
    BY <2>2 DEF Calls, Tales
  <2>4. QED
    BY <2>1, <2>3 DEF Store!Init, Who, Calls, Tales, NoCall, Store!NoCall, Store!Nobody, Nobody
<1>2. QInv /\ [Next]_vars => [Store!Next]_(Store!vars)
  <2> SUFFICES ASSUME QInv, [Next]_vars PROVE [Store!Next]_(Store!vars)
    OBVIOUS
  <2>1. (Who' = Who /\ Calls' = Calls /\ Tales' = Tales) => UNCHANGED Store!vars
    BY DEF Store!vars, Who, Calls, Tales
  <2>2. UNCHANGED vars => Who' = Who /\ Calls' = Calls /\ Tales' = Tales
    BY DEF vars, storeVars, reqVars, Who, Found, Calls, Tales
  <2>3. ASSUME NEW r \in Req,
               BeforeWithoutCookie(r) \/ BeforeWithCookie(r) \/ Handle(r) \/ After(r)
        PROVE  Store!Next \/ (Who' = Who /\ Calls' = Calls /\ Tales' = Tales)
    BY <2>3, RequestOnStore DEF Store!Next
  <2>4. RunTick => Store!Next
    BY TickOnStore DEF Store!Next
  <2>5. QED
    BY <2>1, <2>2, <2>3, <2>4, ClockOnStore DEF Next
<1>3. QED
  BY QInitInv, QInvStep, <1>1, <1>2, PTL DEF Spec, StoreSpec, Store!Spec
=============================================================================
