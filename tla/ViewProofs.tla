----------------------------- MODULE ViewProofs -----------------------------
(***************************************************************************)
(* Proofs about SSIResolver, and about Views on top of it, for templates   *)
(* of any number of includes.                                              *)
(***************************************************************************)
EXTENDS Views, FiniteSetTheorems, TLAPS

(* cnt_ counts the includes that have not answered: the dispatches queued  *)
(* and the handlers at work, which are different includes.                 *)
Counted ==
  /\ \A k \in DOMAIN queued : queued[k] <= template /\ queued[k] \notin working
  /\ \A j, k \in DOMAIN queued : queued[j] = queued[k] => j = k
  /\ \A i \in working : i <= template
  /\ IsFiniteSet(working)
  /\ cnt = Len(queued) + Cardinality(working)

(* What each stage has and has not. *)
Stages ==
  /\ stage = "new" => cnt = 0 /\ ~self /\ settled = <<>> /\ failed = {}
  /\ stage = "settling" => cnt = 0 /\ self /\ settled = <<>> /\ failed = {} /\ template <= 0
  /\ stage = "fetching" => cnt > 0 /\ self /\ template > 0
  /\ stage = "done" => cnt = 0 /\ ~self /\ settled # <<>>

(* An include that is not awaited has failed, or is in its slot. *)
Awaited(i) == i \in working \/ \E k \in DOMAIN queued : queued[k] = i
Slots ==
  stage \in {"fetching", "done"} /\ template > 0 =>
    /\ Len(resolves) = template
    /\ \A i \in 1..template : Awaited(i) \/ i \in failed \/ resolves[i] = i

(* Nothing is settled before the end unless an include was rejected. *)
Truth ==
  /\ failed # {} => settled # <<>> /\ settled[1].how = "reject"
  /\ stage = "fetching" /\ failed = {} => settled = <<>>
  /\ stage = "done" /\ failed = {} => (settled[1].how = "resolve" <=> template >= 0)

IInv == TypeOK /\ Counted /\ Stages /\ Slots /\ Truth /\ InPlace

-----------------------------------------------------------------------------
(* Nothing is counted when nothing is awaited. *)
LEMMA CountZero ==
  ASSUME TypeOK, Counted
  PROVE  /\ cnt = 0 <=> queued = <<>> /\ working = {}
         /\ Cardinality(working) \in Nat
<1>1. Cardinality(working) \in Nat /\ (Cardinality(working) = 0 <=> working = {})
  BY FS_CardinalityType, FS_EmptySet DEF Counted
<1>2. Len(queued) \in Nat /\ (Len(queued) = 0 <=> queued = <<>>)
  BY DEF TypeOK
<1>3. QED
  BY <1>1, <1>2 DEF Counted

(* combine() of one slot per include. *)
LEMMA Combined ==
  ASSUME NEW r \in Seq(0..MaxIncludes), Len(r) <= MaxIncludes
  PROVE  /\ Combine(r) \in Seq(-(MaxIncludes + 1)..MaxIncludes)
         /\ Len(Combine(r)) = 2 * Len(r) + 1
         /\ \A i \in 1..Len(r) + 1 : Combine(r)[2 * i - 1] = -i
         /\ \A i \in 1..Len(r) : Combine(r)[2 * i] = r[i]
<1>1. Len(r) \in Nat /\ MaxIncludes \in Nat /\ \A k \in 1..Len(r) : r[k] \in 0..MaxIncludes
  BY IncludesAssumption
<1>2. \A k \in 1..2 * Len(r) + 1 :
        (IF k % 2 = 1 THEN -((k + 1) \div 2) ELSE r[k \div 2]) \in -(MaxIncludes + 1)..MaxIncludes
  <2>1. TAKE k \in 1..2 * Len(r) + 1
  <2>2. CASE k % 2 = 1
    BY <1>1, <2>2
  <2>3. CASE k % 2 # 1
    <3>1. k \div 2 \in 1..Len(r)
      BY <1>1, <2>3
    <3>2. r[k \div 2] \in 0..MaxIncludes
      BY <1>1, <3>1
    <3>3. QED
      BY <1>1, <2>3, <3>2
  <2>4. QED
    BY <2>2, <2>3
<1>3. Combine(r) \in [1..2 * Len(r) + 1 -> -(MaxIncludes + 1)..MaxIncludes]
  BY <1>2 DEF Combine
<1>4. Combine(r) \in Seq(-(MaxIncludes + 1)..MaxIncludes) /\ Len(Combine(r)) = 2 * Len(r) + 1
  BY <1>1, <1>3
<1>5. ASSUME NEW i \in 1..Len(r) + 1
      PROVE  Combine(r)[2 * i - 1] = -i
  <2>1. 2 * i - 1 \in 1..2 * Len(r) + 1 /\ (2 * i - 1) % 2 = 1 /\ (2 * i - 1 + 1) \div 2 = i
    BY <1>1
  <2>2. QED
    BY <2>1 DEF Combine
<1>6. ASSUME NEW i \in 1..Len(r)
      PROVE  Combine(r)[2 * i] = r[i]
  <2>1. 2 * i \in 1..2 * Len(r) + 1 /\ (2 * i) % 2 # 1 /\ (2 * i) \div 2 = i
    BY <1>1
  <2>2. QED
    BY <2>1 DEF Combine
<1>7. QED
  BY <1>4, <1>5, <1>6

LEMMA InitIInv == Init => IInv
<1>1. SUFFICES ASSUME Init PROVE IInv
  OBVIOUS
<1>2. <<>> \in Seq(Index) /\ <<>> \in Seq(0..MaxIncludes)
      /\ <<>> \in Seq(Outcome)
  OBVIOUS
<1>3. TypeOK
  <2>1. queued \in Seq(Index) /\ resolves \in Seq(0..MaxIncludes) /\ settled \in Seq(Outcome)
    BY <1>1, <1>2 DEF Init
  <2>2. 0 \in 0..MaxIncludes
    BY IncludesAssumption
  <2>3. QED
    BY <1>1, <2>1, <2>2 DEF Init, TypeOK
<1>4. Counted
  BY <1>1, FS_EmptySet DEF Init, Counted
<1>5. QED
  BY <1>1, <1>3, <1>4 DEF Init, IInv, Stages, Slots, Truth, InPlace, Merged

-----------------------------------------------------------------------------
(* The steps. *)

LEMMA FetchIInv == ASSUME IInv, Fetch PROVE IInv'
<1>1. /\ cnt = 0 /\ ~self /\ settled = <<>> /\ failed = {} /\ template \in -1..MaxIncludes
      /\ queued = <<>> /\ working = {} /\ self'
      /\ UNCHANGED <<template, working, settled, failed, failures>>
  BY CountZero DEF IInv, TypeOK, Stages, Fetch
<1>2. CASE template <= 0
  <2>1. stage' = "settling" /\ UNCHANGED <<queued, cnt, resolves>>
    BY <1>2 DEF Fetch
  <2>2. TypeOK' /\ Counted'
    BY <1>1, <2>1 DEF IInv, TypeOK, Counted
  <2>3. QED
    BY <1>1, <1>2, <2>1, <2>2 DEF IInv, Stages, Slots, Truth, InPlace, Merged
<1>3. CASE template > 0
  <2>1. /\ stage' = "fetching" /\ cnt' = template
        /\ queued' = [i \in 1..template |-> i] /\ resolves' = [i \in 1..template |-> 0]
    BY <1>1, <1>3 DEF Fetch
  <2>2. template \in 1..MaxIncludes
    BY <1>1, <1>3, IncludesAssumption
  <2>3. /\ queued' \in Seq(Index) /\ Len(queued') = template
        /\ DOMAIN queued' = 1..template /\ \A k \in 1..template : queued'[k] = k
    BY <2>1, <2>2, IncludesAssumption DEF Index
  <2>4. resolves' \in Seq(0..MaxIncludes) /\ Len(resolves') = template
    BY <2>1, <2>2, IncludesAssumption
  <2>5. TypeOK'
    BY <1>1, <2>1, <2>2, <2>3, <2>4, IncludesAssumption DEF IInv, TypeOK
  <2>6. Counted'
    BY <1>1, <2>1, <2>2, <2>3, FS_EmptySet DEF Counted
  <2>7. Slots'
    BY <1>1, <2>2, <2>3, <2>4 DEF Slots, Awaited
  <2>8. QED
    BY <1>1, <2>1, <2>2, <2>5, <2>6, <2>7 DEF IInv, Stages, Truth, InPlace, Merged
<1>4. QED
  BY <1>1, <1>2, <1>3

LEMMA SettleIInv == ASSUME IInv, Settle PROVE IInv'
<1> DEFINE o == IF template < 0 THEN Rejected ELSE Resolved(Combine(<<>>))
<1>1. /\ cnt = 0 /\ settled = <<>> /\ failed = {} /\ template \in -1..0
      /\ queued = <<>> /\ working = {} /\ self' = FALSE /\ stage' = "done"
      /\ settled' = Append(settled, o)
      /\ UNCHANGED <<template, queued, working, cnt, resolves, failed, failures>>
  BY CountZero DEF IInv, TypeOK, Stages, Settle
<1>2. /\ Combine(<<>>) \in Seq(-(MaxIncludes + 1)..MaxIncludes)
      /\ Len(Combine(<<>>)) = 1 /\ Combine(<<>>)[1] = -1
  <2>1. <<>> \in Seq(0..MaxIncludes) /\ Len(<<>>) = 0 /\ Len(<<>>) <= MaxIncludes
    BY IncludesAssumption
  <2>2. /\ Combine(<<>>) \in Seq(-(MaxIncludes + 1)..MaxIncludes)
        /\ Len(Combine(<<>>)) = 2 * Len(<<>>) + 1
        /\ \A i \in 1..Len(<<>>) + 1 : Combine(<<>>)[2 * i - 1] = -i
    BY <2>1, Combined
  <2>3. 1 \in 1..Len(<<>>) + 1
    BY <2>1
  <2>4. Combine(<<>>)[2 * 1 - 1] = -1
    BY <2>2, <2>3
  <2>5. QED
    BY <2>1, <2>2, <2>4
<1>3. /\ o \in Outcome /\ (o.how = "resolve" <=> template >= 0)
      /\ o.how = "resolve" => o.doc = Combine(<<>>)
  <2>1. <<>> \in Seq(-(MaxIncludes + 1)..MaxIncludes)
    OBVIOUS
  <2>2. QED
    BY <1>1, <1>2, <2>1 DEF Outcome, Rejected, Resolved
<1> HIDE DEF o
<1>4. settled' \in Seq(Outcome) /\ Len(settled') = 1 /\ settled'[1] = o
  BY <1>1, <1>3
<1>5. TypeOK'
  BY <1>1, <1>4 DEF IInv, TypeOK
<1>6. Counted'
  BY <1>1 DEF IInv, Counted
<1>7. InPlace'
  <2>1. SUFFICES ASSUME o.how = "resolve"
                 PROVE  /\ Len(o.doc) = 2 * template + 1
                        /\ \A i \in 1..template + 1 : o.doc[2 * i - 1] = -i
                        /\ \A i \in 1..template : o.doc[2 * i] = i
    <3>1. \A k \in DOMAIN settled' : settled'[k] = o
      BY <1>4
    <3>2. \A k \in DOMAIN settled' : template' = template /\ settled'[k] = o
      BY <1>1, <3>1
    <3>3. QED
      BY <1>1, <3>2 DEF InPlace, Merged
  <2>2. template = 0 /\ o.doc = Combine(<<>>)
    BY <1>1, <1>3, <2>1
  <2>3. \A i \in 1..template + 1 : i = 1 /\ 2 * i - 1 = 1
    BY <2>2
  <2>4. QED
    BY <1>2, <2>2, <2>3
<1>8. QED
  BY <1>1, <1>3, <1>4, <1>5, <1>6, <1>7 DEF IInv, Stages, Slots, Truth

LEMMA DispatchIInv == ASSUME IInv, Dispatch PROVE IInv'
<1> DEFINE i == Head(queued)
<1>1. /\ queued \in Seq(Index) /\ queued # <<>> /\ i \in Index /\ i = queued[1]
      /\ queued' = Tail(queued) /\ working' = working \cup {i}
      /\ UNCHANGED <<template, stage, self, cnt, resolves, settled, failed, failures>>
  BY DEF IInv, TypeOK, Dispatch
<1>2. /\ queued' \in Seq(Index) /\ Len(queued') = Len(queued) - 1
      /\ 1 \in DOMAIN queued
      /\ \A k \in DOMAIN queued' : k + 1 \in DOMAIN queued /\ queued'[k] = queued[k + 1]
      /\ \A k \in DOMAIN queued : k = 1 \/ (k - 1 \in DOMAIN queued' /\ queued[k] = queued'[k - 1])
      /\ \A k \in DOMAIN queued' : k \in Nat /\ k > 0
  BY <1>1
<1>3. i \notin working /\ i <= template
  BY <1>1, <1>2 DEF IInv, Counted
<1>4. \A k \in DOMAIN queued' : queued'[k] # i
  BY <1>1, <1>2 DEF IInv, Counted
<1>5. IsFiniteSet(working') /\ Cardinality(working') = Cardinality(working) + 1
  BY <1>1, <1>3, FS_AddElement DEF IInv, Counted
<1>6. Cardinality(working) \in Nat /\ Len(queued) \in Nat
  BY <1>1, CountZero DEF IInv
<1>7. TypeOK'
  BY <1>1, <1>2 DEF IInv, TypeOK
<1>8. Counted'
  BY <1>1, <1>2, <1>3, <1>4, <1>5, <1>6 DEF IInv, Counted
<1>9. Slots'
  <2>1. \A j : Awaited(j) => Awaited(j)'
    BY <1>1, <1>2 DEF Awaited
  <2>2. QED
    BY <1>1, <2>1 DEF IInv, Slots
<1>10. QED
  BY <1>1, <1>7, <1>8, <1>9 DEF IInv, Stages, Truth, InPlace, Merged

(* What an answer of include i changes, whatever its outcome. *)
LEMMA AnsweredKeeps ==
  ASSUME IInv, NEW i \in Index, i \in working, Answered(i)
  PROVE  /\ stage = "fetching" /\ template \in 1..MaxIncludes /\ i \in 1..template
         /\ Counted' /\ cnt' \in 0..MaxIncludes /\ cnt' = cnt - 1
         /\ stage' = (IF cnt = 1 THEN "done" ELSE "fetching")
         /\ (cnt = 1 => self' = FALSE) /\ (cnt # 1 => self' = TRUE)
         /\ cnt = 1 => queued = <<>> /\ working = {i}
         /\ \A j \in 1..template : Awaited(j) => j = i \/ Awaited(j)'
         /\ UNCHANGED <<template, queued, failures>>
<1>1. Cardinality(working) \in Nat /\ cnt # 0 /\ Len(queued) \in Nat /\ cnt \in 0..MaxIncludes
  BY CountZero DEF IInv, TypeOK
<1>2. stage = "fetching" /\ template \in 1..MaxIncludes /\ i \in 1..template /\ self
  BY <1>1, IncludesAssumption DEF IInv, TypeOK, Counted, Stages, Index
<1>3. /\ working' = working \ {i} /\ cnt' = cnt - 1
      /\ IF cnt = 1 THEN self' = FALSE /\ stage' = "done" ELSE UNCHANGED <<self, stage>>
      /\ UNCHANGED <<template, queued, failures>>
  BY DEF Answered
<1>4. IsFiniteSet(working') /\ Cardinality(working') = Cardinality(working) - 1
  BY <1>3, FS_RemoveElement DEF IInv, Counted
<1>5. Counted'
  BY <1>1, <1>3, <1>4 DEF IInv, Counted
<1>6. cnt = 1 => queued = <<>> /\ working = {i}
  <2>1. SUFFICES ASSUME cnt = 1 PROVE queued = <<>> /\ working = {i}
    OBVIOUS
  <2>2. Cardinality(working') \in Nat /\ (Cardinality(working') = 0 => working' = {})
    BY <1>4, FS_CardinalityType, FS_EmptySet
  <2>3. Len(queued) = 0 /\ Cardinality(working') = 0
    BY <1>1, <1>4, <2>1, <2>2 DEF IInv, Counted
  <2>4. queued = <<>>
    BY <2>3 DEF IInv, TypeOK
  <2>5. QED
    BY <1>3, <2>2, <2>3, <2>4
<1>7. \A j \in 1..template : Awaited(j) => j = i \/ Awaited(j)'
  BY <1>3 DEF Awaited
<1>8. cnt' \in 0..MaxIncludes /\ cnt' = cnt - 1
  BY <1>1, <1>3, IncludesAssumption
<1>9. /\ stage' = (IF cnt = 1 THEN "done" ELSE "fetching")
      /\ (cnt = 1 => self' = FALSE) /\ (cnt # 1 => self' = TRUE)
  <2>1. self = TRUE
    BY <1>2 DEF IInv, TypeOK
  <2>2. QED
    BY <1>2, <1>3, <2>1
<1>10. QED
  BY <1>2, <1>3, <1>5, <1>6, <1>7, <1>8, <1>9

LEMMA ResolvedIInv ==
  ASSUME IInv, NEW i \in Index, IncludeResolved(i)
  PROVE  IInv'
<1>1. /\ i \in working /\ Answered(i) /\ UNCHANGED failed
      /\ resolves' = [resolves EXCEPT ![i] = i]
      /\ settled' = IF cnt = 1 THEN Append(settled, Resolved(Combine(resolves'))) ELSE settled
  BY DEF IncludeResolved
<1>2. /\ stage = "fetching" /\ template \in 1..MaxIncludes /\ i \in 1..template
      /\ Counted' /\ cnt' \in 0..MaxIncludes /\ cnt' = cnt - 1 /\ cnt \in Nat
      /\ stage' = (IF cnt = 1 THEN "done" ELSE "fetching")
      /\ (cnt = 1 => self' = FALSE) /\ (cnt # 1 => self' = TRUE)
      /\ cnt = 1 => queued = <<>> /\ working = {i}
      /\ \A j \in 1..template : Awaited(j) => j = i \/ Awaited(j)'
      /\ UNCHANGED <<template, queued, failures>>
  <2>1. cnt \in Nat
    BY IncludesAssumption DEF IInv, TypeOK
  <2>2. QED
    BY <1>1, <2>1, AnsweredKeeps
<1>3. /\ resolves' \in Seq(0..MaxIncludes) /\ Len(resolves') = template /\ resolves'[i] = i
      /\ \A j \in 1..template : j # i => resolves'[j] = resolves[j]
  <2>1. resolves \in Seq(0..MaxIncludes) /\ Len(resolves) = template /\ DOMAIN resolves = 1..template
    BY <1>2 DEF IInv, TypeOK, Slots
  <2>2. i \in 0..MaxIncludes
    BY <1>2, IncludesAssumption
  <2>3. QED
    BY <1>1, <1>2, <2>1, <2>2
<1> DEFINE doc == Combine(resolves')
<1>4. /\ doc \in Seq(-(MaxIncludes + 1)..MaxIncludes) /\ Len(doc) = 2 * template + 1
      /\ \A j \in 1..template + 1 : doc[2 * j - 1] = -j
      /\ \A j \in 1..template : doc[2 * j] = resolves'[j]
  <2>1. Len(resolves') <= MaxIncludes
    BY <1>2, <1>3, IncludesAssumption
  <2>2. QED
    BY <1>3, <2>1, Combined
<1> HIDE DEF doc
<1>5. /\ Resolved(doc) \in Outcome /\ Resolved(doc).how = "resolve"
      /\ Resolved(doc).doc = doc
  BY <1>4 DEF Outcome, Resolved
<1>6. /\ settled' \in Seq(Outcome) /\ Len(settled') \in Nat
      /\ cnt # 1 => settled' = settled
      /\ cnt = 1 => /\ settled' # <<>>
                    /\ settled # <<>> => settled'[1] = settled[1]
                    /\ settled = <<>> => DOMAIN settled' = {1} /\ settled'[1] = Resolved(doc)
  BY <1>1, <1>5 DEF IInv, TypeOK, doc
<1>7. TypeOK'
  BY <1>1, <1>2, <1>3, <1>6 DEF IInv, TypeOK, Answered
<1>8. Slots'
  BY <1>1, <1>2, <1>3 DEF IInv, Slots
<1>9. Stages'
  BY <1>1, <1>2, <1>6 DEF IInv, Stages, Truth, TypeOK
<1>10. Truth'
  BY <1>1, <1>2, <1>5, <1>6 DEF IInv, Truth
<1>11. InPlace'
  <2>1. CASE failed # {}
    BY <1>1, <2>1 DEF InPlace, Merged
  <2>2. CASE cnt # 1
    <3>1. UNCHANGED <<failed, settled, template>>
      BY <1>1, <1>2, <1>6, <2>2
    <3>2. QED
      BY <3>1 DEF IInv, InPlace, Merged
  <2>3. SUFFICES ASSUME failed = {}, cnt = 1 PROVE InPlace'
    BY <2>1, <2>2
  <2>4. settled = <<>> /\ queued = <<>> /\ working = {i}
    BY <1>2, <2>3 DEF IInv, Truth
  <2>5. \A j \in 1..template : resolves'[j] = j
    BY <1>2, <1>3, <2>3, <2>4 DEF IInv, Slots, Awaited
  <2>6. DOMAIN settled' = {1} /\ settled'[1].doc = doc
    BY <1>5, <1>6, <2>3, <2>4
  <2>7. template' = template
    BY <1>2
  <2>8. QED
    BY <1>4, <2>5, <2>6, <2>7 DEF InPlace, Merged
<1>12. QED
  BY <1>2, <1>7, <1>8, <1>9, <1>10, <1>11 DEF IInv

LEMMA RejectedIInv ==
  ASSUME IInv, NEW i \in Index, IncludeRejected(i)
  PROVE  IInv'
<1>1. /\ i \in working /\ Answered(i) /\ UNCHANGED resolves
      /\ failed' = failed \cup {i} /\ settled' = Append(settled, Rejected)
  BY DEF IncludeRejected
<1>2. /\ stage = "fetching" /\ template \in 1..MaxIncludes /\ i \in 1..template
      /\ Counted' /\ cnt' \in 0..MaxIncludes /\ cnt' = cnt - 1 /\ cnt \in Nat
      /\ stage' = (IF cnt = 1 THEN "done" ELSE "fetching")
      /\ (cnt = 1 => self' = FALSE) /\ (cnt # 1 => self' = TRUE)
      /\ \A j \in 1..template : Awaited(j) => j = i \/ Awaited(j)'
      /\ UNCHANGED <<template, queued, failures>>
  <2>1. cnt \in Nat
    BY IncludesAssumption DEF IInv, TypeOK
  <2>2. QED
    BY <1>1, <2>1, AnsweredKeeps
<1>3. Rejected \in Outcome /\ Rejected.how = "reject"
  <2>1. <<>> \in Seq(-(MaxIncludes + 1)..MaxIncludes)
    OBVIOUS
  <2>2. QED
    BY <2>1 DEF Outcome, Rejected
<1>4. /\ settled' \in Seq(Outcome) /\ settled' # <<>>
      /\ settled # <<>> => settled'[1] = settled[1]
      /\ settled = <<>> => settled'[1] = Rejected
  BY <1>1, <1>3 DEF IInv, TypeOK
<1>5. TypeOK'
  BY <1>1, <1>2, <1>4 DEF IInv, TypeOK, Answered, Index
<1>6. Slots'
  BY <1>1, <1>2 DEF IInv, Slots
<1>7. Stages'
  BY <1>1, <1>2, <1>4 DEF IInv, Stages, TypeOK
<1>8. Truth' /\ InPlace'
  BY <1>1, <1>2, <1>3, <1>4 DEF IInv, Truth, InPlace, Merged
<1>9. QED
  BY <1>2, <1>5, <1>6, <1>7, <1>8 DEF IInv

LEMMA NextIInv == IInv /\ [Next]_vars => IInv'
<1>1. SUFFICES ASSUME IInv, [Next]_vars PROVE IInv'
  OBVIOUS
<1>2. CASE UNCHANGED vars
  BY <1>1, <1>2 DEF vars, IInv, TypeOK, Counted, Stages, Slots, Awaited, Truth, InPlace, Merged
<1>3. QED
  BY <1>1, <1>2, FetchIInv, SettleIInv, DispatchIInv, ResolvedIInv, RejectedIInv DEF Next

LEMMA SpecIInv == Spec => []IInv
BY InitIInv, NextIInv, PTL DEF Spec

-----------------------------------------------------------------------------
(* What the invariant says. *)

(* Every variable keeps its type; cnt_ stays between zero and the number   *)
(* of includes.                                                            *)
THEOREM TypesHold == Spec => []TypeOK
<1>1. IInv => TypeOK
  BY DEF IInv
<1>2. QED
  BY <1>1, SpecIInv, PTL

(* The resolver exists exactly while an answer is due: its callbacks never *)
(* run on an object that is gone, and it does not leak.                    *)
THEOREM ReleasedLastHolds == Spec => []ReleasedLast
<1>1. IInv => ReleasedLast
  BY CountZero DEF IInv, TypeOK, Stages, ReleasedLast
<1>2. QED
  BY <1>1, SpecIInv, PTL

(* Without rejections the document has every include in its place, in      *)
(* whatever order the includes were answered.                              *)
THEOREM InPlaceHolds == Spec => []InPlace
<1>1. IInv => InPlace
  BY DEF IInv
<1>2. QED
  BY <1>1, SpecIInv, PTL

(* The promise is first settled with the truth. *)
THEOREM FirstIsTrueHolds == Spec => []FirstIsTrue
<1>1. IInv => FirstIsTrue
  BY DEF IInv, TypeOK, Stages, Truth, FirstIsTrue
<1>2. QED
  BY <1>1, SpecIInv, PTL

-----------------------------------------------------------------------------
(* The views. *)

(* The resolver of a page works as it does for anybody else. *)
LEMMA StepOfResolver == ViewNext => [Next]_vars
BY DEF ViewNext, Render, TemplateTick, ServeFile, SettleStep, DispatchStep, IncludeStep, Next

THEOREM ViewsUseResolver == ViewSpec => Spec
<1>1. ViewInit => Init
  BY DEF ViewInit
<1>2. [ViewNext]_viewVars => [Next]_vars
  BY StepOfResolver DEF viewVars, vars
<1>3. QED
  BY <1>1, <1>2, PTL DEF ViewSpec, Spec

-----------------------------------------------------------------------------
(* The invariant. *)

Answer == [ok : BOOLEAN, doc : Seq(-(MaxIncludes + 1)..MaxIncludes)]

Kinds ==
  /\ layers \in View \cup {File}
  /\ at \in {"new", "queued", "started"}
  /\ sent \in Seq(Answer)
  /\ again \in BOOLEAN

(* The resolver starts with the page, and only if the page needs it. *)
Started ==
  /\ at # "started" => sent = <<>>
  /\ stage # "new" <=> (at = "started" /\ "ssi" \in layers)

(* An answer is due to one settlement, the first answer to the first, and  *)
(* one settlement is all there is unless an include failed.                *)
Told ==
  /\ failed = {} => Len(settled) <= 1
  /\ ~again => Len(sent) <= 1
  /\ "ssi" \in layers => (sent = <<>> <=> settled = <<>>) /\ Len(sent) <= Len(settled)
  /\ "ssi" \notin layers => Len(sent) <= 1
  /\ (sent # <<>> /\ "ssi" \in layers /\ sent[1].ok) =>
       /\ settled[1].how = "resolve"
       /\ sent[1].doc \in {settled[1].doc, <<>>}

VInv == IInv /\ Kinds /\ Started /\ Told

LEMMA InitVInv == ViewInit => VInv
<1>1. SUFFICES ASSUME ViewInit PROVE VInv
  OBVIOUS
<1>2. IInv
  BY <1>1, InitIInv DEF ViewInit
<1>3. sent \in Seq(Answer) /\ Len(sent) = 0 /\ Len(settled) = 0
  BY <1>1 DEF ViewInit, Init
<1>4. QED
  BY <1>1, <1>2, <1>3 DEF ViewInit, Init, VInv, Kinds, Started, Told

-----------------------------------------------------------------------------
(* Answers. *)

(* An answer with a page shows the document that was settled, or the text  *)
(* of a failed translation.                                                *)
LEMMA FlushSends ==
  ASSUME NEW s \in Outcome, sent \in Seq(Answer), Flush(s)
  PROVE  \E a \in Answer : /\ sent' = Append(sent, a)
                           /\ a.ok => s.how = "resolve" /\ a.doc \in {s.doc, <<>>}
<1>1. PICK a \in Answers(s) : sent' = Append(sent, a)
  BY DEF Flush
<1>2. <<>> \in Seq(-(MaxIncludes + 1)..MaxIncludes)
  OBVIOUS
<1>3. s.how \in {"resolve", "reject"} /\ s.doc \in Seq(-(MaxIncludes + 1)..MaxIncludes)
  BY DEF Outcome
<1>4. ErrorPage \in Answer /\ ErrorPage.ok = FALSE
  BY <1>2 DEF ErrorPage, Answer
<1>5. CASE a = ErrorPage
  <2>1. a \in Answer /\ ~a.ok
    BY <1>4, <1>5
  <2>2. QED
    BY <1>1, <2>1
<1>6. CASE a # ErrorPage
  <2>1. s.how = "resolve" /\ \E d \in {s.doc, <<>>} : a = Page(d)
    BY <1>1, <1>3, <1>6 DEF Answers, I18nRender
  <2>2. PICK d \in {s.doc, <<>>} : a = Page(d)
    BY <2>1
  <2>3. d \in Seq(-(MaxIncludes + 1)..MaxIncludes)
    BY <1>2, <1>3
  <2>4. a \in Answer /\ a.doc = d
    BY <2>2, <2>3 DEF Page, Answer
  <2>5. QED
    BY <1>1, <2>1, <2>4
<1>7. QED
  BY <1>5, <1>6

(* A step of the resolver settles its promise at most once more, and only  *)
(* after a rejection a second time.                                        *)
LEMMA SettledGrows ==
  ASSUME IInv, Next, settled' # settled
  PROVE  /\ Len(settled') = Len(settled) + 1
         /\ settled # <<>> => settled'[1] = settled[1]
         /\ failed' = {} => settled = <<>>
<1>1. settled \in Seq(Outcome)
  BY DEF IInv, TypeOK
<1>2. \E o : settled' = Append(settled, o)
  BY DEF Next, Fetch, Settle, Dispatch, IncludeResolved, IncludeRejected
<1>3. ASSUME failed' = {} PROVE settled = <<>>
  <2>1. CASE Fetch \/ Dispatch
    BY <2>1 DEF Fetch, Dispatch
  <2>2. CASE Settle
    BY <2>2 DEF IInv, Stages, Settle
  <2>3. ASSUME NEW i \in Index, IncludeResolved(i) PROVE settled = <<>>
    <3>1. stage = "fetching" /\ failed = {}
      BY <1>3, <2>3, AnsweredKeeps DEF IncludeResolved
    <3>2. QED
      BY <3>1 DEF IInv, Truth
  <2>4. ASSUME NEW i \in Index, IncludeRejected(i) PROVE settled = <<>>
    BY <1>3, <2>4 DEF IncludeRejected
  <2>5. QED
    BY <2>1, <2>2, <2>3, <2>4 DEF Next
<1>4. QED
  BY <1>1, <1>2, <1>3

(* Once it has been started the resolver is not new again. *)
LEMMA NotNew ==
  ASSUME IInv, Settle \/ Dispatch \/ \E i \in Index : IncludeResolved(i) \/ IncludeRejected(i)
  PROVE  stage # "new" /\ stage' # "new"
<1>1. CASE Settle
  BY <1>1 DEF Settle
<1>2. CASE Dispatch
  BY <1>2, CountZero DEF IInv, Stages, Dispatch
<1>3. ASSUME NEW i \in Index, IncludeResolved(i) \/ IncludeRejected(i)
      PROVE  stage # "new" /\ stage' # "new"
  <2>1. i \in working /\ Answered(i)
    BY <1>3 DEF IncludeResolved, IncludeRejected
  <2>2. QED
    BY <2>1, AnsweredKeeps
<1>4. QED
  BY <1>1, <1>2, <1>3

-----------------------------------------------------------------------------
(* The steps. *)

LEMMA RenderVInv == ASSUME VInv, Render PROVE VInv'
<1>1. IInv'
  BY StepOfResolver, NextIInv DEF VInv, ViewNext, Render, vars
<1>2. QED
  BY <1>1 DEF VInv, Kinds, Started, Told, Render, vars, File, View

(* Fetch starts the resolver and settles nothing. *)
LEMMA FetchStarts ==
  ASSUME VInv, Fetch, at # "started", at' = "started", "ssi" \in layers,
         UNCHANGED <<layers, sent, again>>
  PROVE  VInv'
<1>1. IInv'
  BY FetchIInv DEF VInv
<1>2. stage' # "new" /\ UNCHANGED <<settled, failed>> /\ settled = <<>> /\ failed = {}
  BY DEF Fetch, VInv, IInv, Stages
<1>3. QED
  BY <1>1, <1>2 DEF VInv, Kinds, Started, Told

LEMMA ServeFileVInv == ASSUME VInv, ServeFile PROVE VInv'
BY FetchStarts DEF ServeFile, File

LEMMA TemplateTickVInv == ASSUME VInv, TemplateTick PROVE VInv'
<1>1. CASE "ssi" \in layers
  BY <1>1, FetchStarts DEF TemplateTick
<1>2. CASE "ssi" \notin layers
  <2>1. /\ at' = "started" /\ Flush(Resolved(Raw))
        /\ UNCHANGED <<vars, layers, again>> /\ sent = <<>> /\ sent \in Seq(Answer)
    BY <1>2 DEF TemplateTick, VInv, Started, Kinds
  <2>2. Resolved(Raw) \in Outcome
    <3>1. -1 \in -(MaxIncludes + 1)..MaxIncludes
      BY IncludesAssumption
    <3>2. Raw \in Seq(-(MaxIncludes + 1)..MaxIncludes)
      BY <3>1 DEF Raw
    <3>3. QED
      BY <3>2 DEF Resolved, Outcome
  <2>3. sent' \in Seq(Answer) /\ Len(sent') = 1
    <3>1. PICK a \in Answer : sent' = Append(sent, a)
      BY <2>1, <2>2, FlushSends
    <3>2. QED
      BY <2>1, <3>1
  <2>4. IInv'
    BY <2>1, NextIInv DEF VInv
  <2>5. QED
    BY <1>2, <2>1, <2>3, <2>4 DEF VInv, Kinds, Started, Told, vars
<1>3. QED
  BY <1>1, <1>2

(* What runs when a step of the resolver settles its promise. *)
LEMMA PassesVInv ==
  ASSUME VInv, Settle \/ Dispatch \/ \E i \in Index : IncludeResolved(i) \/ IncludeRejected(i),
         Passes
  PROVE  VInv'
<1>1. /\ Next /\ IInv /\ IInv'
      /\ stage # "new" /\ stage' # "new" /\ at = "started" /\ "ssi" \in layers
      /\ UNCHANGED <<layers, at, again>>
  BY NextIInv, NotNew DEF VInv, Next, Started, Passes
<1>2. sent \in Seq(Answer) /\ settled \in Seq(Outcome) /\ settled' \in Seq(Outcome)
  BY <1>1 DEF VInv, Kinds, IInv, TypeOK
<1>3. CASE settled' = settled
  <2>1. UNCHANGED sent
    BY <1>3 DEF Passes, Downstream
  <2>2. failed' = {} => failed = {}
    BY <1>1 DEF Next, Fetch, Settle, Dispatch, IncludeResolved, IncludeRejected
  <2>3. QED
    BY <1>1, <1>3, <2>1, <2>2 DEF VInv, Kinds, Started, Told
<1>4. CASE settled' # settled
  <2>1. /\ Len(settled') = Len(settled) + 1
        /\ settled # <<>> => settled'[1] = settled[1]
        /\ failed' = {} => settled = <<>>
    BY <1>1, <1>4, SettledGrows
  <2>2. /\ settled' # <<>> /\ Len(settled) \in Nat /\ Len(sent) \in Nat
        /\ settled = <<>> <=> Len(settled) = 0
        /\ sent = <<>> <=> Len(sent) = 0
    BY <1>2, <2>1
  <2>3. failed' = {} => Len(settled') <= 1
    BY <2>1, <2>2
  <2>4. CASE settled # <<>> /\ ~again
    <3>1. UNCHANGED sent /\ sent # <<>>
      BY <1>1, <2>4 DEF Passes, Downstream, VInv, Told
    <3>2. QED
      BY <1>1, <2>1, <2>2, <2>3, <2>4, <3>1 DEF VInv, Kinds, Started, Told
  <2>5. CASE settled = <<>> \/ again
    <3>1. Last(settled') \in Outcome /\ (settled = <<>> => Last(settled') = settled'[1])
      BY <1>2, <2>1, <2>2 DEF Last
    <3>2. Flush(Last(settled'))
      BY <1>1, <1>4, <2>5 DEF Passes, Downstream, VInv, Kinds
    <3>3. PICK a \in Answer :
            /\ sent' = Append(sent, a)
            /\ a.ok => Last(settled').how = "resolve" /\ a.doc \in {Last(settled').doc, <<>>}
      BY <1>2, <3>1, <3>2, FlushSends
    <3>4. /\ sent' \in Seq(Answer) /\ Len(sent') = Len(sent) + 1 /\ sent' # <<>>
          /\ sent # <<>> => sent'[1] = sent[1]
          /\ sent = <<>> => sent'[1] = a
      BY <1>2, <3>3
    <3>5. (sent = <<>> <=> settled = <<>>) /\ Len(sent) <= Len(settled)
      BY <1>1 DEF VInv, Told
    <3>6. ~again => Len(sent') <= 1
      BY <2>2, <2>5, <3>4, <3>5
    <3>7. sent'[1].ok => settled'[1].how = "resolve" /\ sent'[1].doc \in {settled'[1].doc, <<>>}
      <4>1. CASE sent = <<>>
        BY <3>1, <3>3, <3>4, <3>5, <4>1
      <4>2. CASE sent # <<>>
        BY <1>1, <2>1, <3>4, <3>5, <4>2 DEF VInv, Told
      <4>3. QED
        BY <4>1, <4>2
    <3>8. Told'
      BY <1>1, <2>1, <2>2, <2>3, <3>4, <3>5, <3>6, <3>7 DEF Told
    <3>9. QED
      BY <1>1, <3>4, <3>8 DEF VInv, Kinds, Started
  <2>6. QED
    BY <1>1, <2>4, <2>5 DEF VInv, Kinds
<1>5. QED
  BY <1>3, <1>4

LEMMA NextVInv == VInv /\ [ViewNext]_viewVars => VInv'
<1>1. SUFFICES ASSUME VInv, [ViewNext]_viewVars PROVE VInv'
  OBVIOUS
<1>2. CASE UNCHANGED viewVars
  <2>1. IInv'
    BY <1>1, <1>2, NextIInv DEF viewVars, VInv
  <2>2. QED
    BY <1>1, <1>2, <2>1 DEF viewVars, vars, VInv, Kinds, Started, Told
<1>3. CASE SettleStep \/ DispatchStep \/ \E i \in Index : IncludeStep(i)
  BY <1>1, <1>3, PassesVInv DEF SettleStep, DispatchStep, IncludeStep
<1>4. QED
  BY <1>1, <1>2, <1>3, RenderVInv, ServeFileVInv, TemplateTickVInv DEF ViewNext

LEMMA SpecVInv == ViewSpec => []VInv
BY InitVInv, NextVInv, PTL DEF ViewSpec

-----------------------------------------------------------------------------
(* What the invariant says. *)

(* The types, and the resolver starts with its page. *)
THEOREM ViewTypesHold == ViewSpec => []ViewTypeOK
<1>1. VInv => ViewTypeOK
  BY DEF VInv, IInv, Kinds, Started, Answer, ViewTypeOK
<1>2. QED
  BY <1>1, SpecVInv, PTL

(* A request is answered once, with a page only if all its includes are in *)
(* it, unless an include failed and promises may be settled again.         *)
THEOREM OneTrueAnswerHolds == ViewSpec => []OneTrueAnswer
<1>1. ASSUME VInv PROVE OneTrueAnswer
  <2>1. ASSUME ~again \/ failed = {} PROVE Len(sent) <= 1
    BY <1>1, <2>1 DEF VInv, Told, Kinds, IInv, TypeOK
  <2>2. ASSUME sent # <<>>, sent[1].ok, "ssi" \in layers
        PROVE  template >= 0 /\ failed = {} /\ Whole(sent[1].doc)
    <3>1. /\ settled # <<>> /\ settled[1].how = "resolve"
          /\ sent[1].doc \in {settled[1].doc, <<>>}
      BY <1>1, <2>2 DEF VInv, Told
    <3>2. failed = {} /\ stage \in {"new", "settling", "fetching", "done"}
      BY <1>1, <3>1 DEF VInv, IInv, Truth, TypeOK
    <3>3. stage = "done"
      BY <1>1, <3>1, <3>2 DEF VInv, IInv, Truth, Stages
    <3>4. template >= 0
      BY <1>1, <3>1, <3>2, <3>3 DEF VInv, IInv, Truth
    <3>5. 1 \in DOMAIN settled
      BY <1>1, <3>1 DEF VInv, IInv, TypeOK
    <3>6. Whole(settled[1].doc)
      BY <1>1, <3>1, <3>2, <3>5 DEF VInv, IInv, InPlace, Whole
    <3>7. QED
      BY <3>1, <3>2, <3>4, <3>6 DEF Whole
  <2>3. QED
    BY <2>1, <2>2 DEF OneTrueAnswer
<1>2. QED
  BY <1>1, SpecVInv, PTL
=============================================================================
