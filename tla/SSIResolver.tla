----------------------------- MODULE SSIResolver ----------------------------
(***************************************************************************)
(* Resolving one server-side-include template (src/src/ssi.cpp).  fetch()  *)
(* asks FrontController::include for every include at once; each of them   *)
(* is dispatched in a callback of its own and answers when it likes.  The  *)
(* resolver keeps itself alive with self_ and counts answers with cnt_.    *)
(* A document is a sequence of texts: -i for the text in front of include  *)
(* i (or behind the last one), i for its body, 0 for a missing body.       *)
(***************************************************************************)
EXTENDS Integers, Sequences

CONSTANT MaxIncludes  \* bound: includes of a template

ASSUME IncludesAssumption == MaxIncludes \in Nat

VARIABLES
  template,  \* how many includes it has, or -1 if match() fails
  stage,     \* "new", "settling" (its answer is queued), "fetching", "done"
  queued,    \* includes whose dispatch is queued, in order
  working,   \* includes dispatched and not answered
  self,      \* self_ is set: the resolver exists
  cnt,       \* cnt_
  resolves,  \* resolves_
  settled,   \* calls of p.resolve (with the document) and p.reject, in order
  failed,    \* includes that were rejected
  failures   \* includes may be rejected at all

vars == <<template, stage, queued, working, self, cnt, resolves, settled, failed, failures>>

Index == 1..MaxIncludes

Init ==
  /\ template \in -1..MaxIncludes
  /\ stage = "new" /\ queued = <<>> /\ working = {}
  /\ self = FALSE /\ cnt = 0 /\ resolves = <<>>
  /\ settled = <<>> /\ failed = {}
  /\ failures \in BOOLEAN

Resolved(doc) == [how |-> "resolve", doc |-> doc]
Rejected == [how |-> "reject", doc |-> <<>>]

(* combine(): the parts of the template with the resolved includes between. *)
Combine(r) ==
  [k \in 1..2 * Len(r) + 1 |-> IF k % 2 = 1 THEN -((k + 1) \div 2) ELSE r[k \div 2]]

-----------------------------------------------------------------------------
(* resolve() and fetch(): the n-th include gets cnt_, which is n - 1, as   *)
(* its place in resolves_, for none is dispatched before the loop is over. *)
Fetch ==
  /\ stage = "new"
  /\ self' = TRUE
  /\ IF template <= 0
     THEN stage' = "settling" /\ UNCHANGED <<queued, cnt, resolves>>
     ELSE /\ stage' = "fetching"
          /\ queued' = [i \in 1..template |-> i]
          /\ cnt' = template
          /\ resolves' = [i \in 1..template |-> 0]
  /\ UNCHANGED <<template, working, settled, failed, failures>>

(* nextTick after a template that does not match, or has no include. *)
Settle ==
  /\ stage = "settling"
  /\ stage' = "done"
  /\ settled' = Append(settled, IF template < 0 THEN Rejected ELSE Resolved(Combine(<<>>)))
  /\ self' = FALSE
  /\ UNCHANGED <<template, queued, working, cnt, resolves, failed, failures>>

(* FrontController::include and dispatch: the handler starts. *)
Dispatch ==
  /\ queued # <<>>
  /\ queued' = Tail(queued)
  /\ working' = working \cup {Head(queued)}
  /\ UNCHANGED <<template, stage, self, cnt, resolves, settled, failed, failures>>

AnsweredAgain(i) ==
  /\ cnt' = cnt - 1
  /\ IF cnt = 1 THEN self' = FALSE /\ stage' = "done" ELSE UNCHANGED <<self, stage>>
  /\ UNCHANGED <<template, queued, working, failures>>
(* The lambdas of both outcomes count their answer; the last one lets go.  *)
(* An operator that stands just before another and bears its name with a   *)
(* suffix is a mutant of it, never used by the actions.                    *)
Answered(i) ==
  /\ working' = working \ {i}
  /\ cnt' = cnt - 1
  /\ IF cnt = 1 THEN self' = FALSE /\ stage' = "done" ELSE UNCHANGED <<self, stage>>
  /\ UNCHANGED <<template, queued, failures>>

IncludeResolvedInTurn(i) ==
  /\ i \in working
  /\ resolves' = [resolves EXCEPT ![template + 1 - cnt] = i]
  /\ settled' = IF cnt = 1 THEN Append(settled, Resolved(Combine(resolves'))) ELSE settled
  /\ Answered(i)
  /\ UNCHANGED failed
(* The subrequest answered: a body, an error page of handle_exception too. *)
(* The flag rejected is a new one for every include, so here it is unset.  *)
IncludeResolved(i) ==
  /\ i \in working
  /\ resolves' = [resolves EXCEPT ![i] = i]
  /\ settled' = IF cnt = 1 THEN Append(settled, Resolved(Combine(resolves'))) ELSE settled
  /\ Answered(i)
  /\ UNCHANGED failed

IncludeRejectedAtOnce(i) ==
  /\ i \in working /\ failures
  /\ failed' = failed \cup {i}
  /\ settled' = Append(settled, Rejected)
  /\ working' = working \ {i} /\ cnt' = cnt - 1
  /\ self' = FALSE /\ stage' = "done"
  /\ UNCHANGED <<template, queued, resolves, failures>>
IncludeRejected(i) ==
  /\ i \in working /\ failures
  /\ failed' = failed \cup {i}
  /\ settled' = Append(settled, Rejected)
  /\ Answered(i)
  /\ UNCHANGED resolves

Next == \/ Fetch \/ Settle \/ Dispatch
        \/ \E i \in Index : IncludeResolved(i)
        \/ \E i \in Index : IncludeRejected(i)

Spec == Init /\ [][Next]_vars

-----------------------------------------------------------------------------
(* Properties.                                                             *)

Outcome == [how : {"resolve", "reject"}, doc : Seq(-(MaxIncludes + 1)..MaxIncludes)]

(* Types; cnt_ never drops below zero, which would keep self_ for good. *)
TypeOK ==
  /\ template \in -1..MaxIncludes
  /\ stage \in {"new", "settling", "fetching", "done"}
  /\ queued \in Seq(Index) /\ working \subseteq Index /\ failed \subseteq Index
  /\ self \in BOOLEAN /\ failures \in BOOLEAN /\ cnt \in 0..MaxIncludes
  /\ resolves \in Seq(0..MaxIncludes)
  /\ settled \in Seq(Outcome)

(* The resolver is released with its last answer and not before: no        *)
(* callback runs on an object that is gone, and none is forgotten.         *)
ReleasedLast ==
  stage # "new" => (self <=> queued # <<>> \/ working # {} \/ stage = "settling")

(* What the template becomes: every include in its place. *)
Merged(doc) ==
  /\ Len(doc) = 2 * template + 1
  /\ \A i \in 1..template + 1 : doc[2 * i - 1] = -i
  /\ \A i \in 1..template : doc[2 * i] = i

(* The document has every include in its place, in whatever order they     *)
(* were answered, as long as none was rejected.                            *)
InPlace ==
  failed = {} => \A k \in DOMAIN settled :
     settled[k].how = "resolve" => Merged(settled[k].doc)

(* The promise is settled first with the truth: resolved only if every     *)
(* include was, and rejected if one was rejected or nothing matched.       *)
FirstIsTrue ==
  settled # <<>> =>
    (settled[1].how = "resolve" <=> template >= 0 /\ failed = {})
=============================================================================
