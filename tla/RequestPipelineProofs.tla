----------------------- MODULE RequestPipelineProofs -----------------------
(***************************************************************************)
(* Proofs about RequestPipeline, for any number of filters and flush       *)
(* filters and every place of a SessionFilter among them.                  *)
(***************************************************************************)
EXTENDS RequestPipeline, TLAPS

Hows == {"continues", "answers", "throws", "suspends", "works", "fails", "waits",
         "resolves", "returns"}

-----------------------------------------------------------------------------
(* What the runs of the two chains may end with.                           *)

LEMMA ChainSteps ==
  /\ Chain \in Seq(SUBSET Hows) /\ Len(Chain) = N + 1
  /\ \A j \in 1..N + 1 : Chain[j] = FilterDoes(j)
<1>1. \A j \in 1..N + 1 : FilterDoes(j) \in SUBSET Hows
  BY DEF FilterDoes, AppFilter, StaticHandler, AppHandler, Hows
<1>2. Chain \in [1..N + 1 -> SUBSET Hows]
  BY <1>1 DEF Chain
<1>3. N + 1 \in Nat
  BY ChainAssumption
<1>4. Chain \in Seq(SUBSET Hows) /\ Len(Chain) = N + 1
  BY <1>2, <1>3
<1>5. QED
  BY <1>4 DEF Chain

LEMMA FlushChainSteps ==
  /\ FlushChain \in Seq(SUBSET Hows) /\ Len(FlushChain) = M + 1
  /\ \A j \in 1..M + 1 : FlushChain[j] = FlushFilterDoes(j)
<1>1. \A j \in 1..M + 1 : FlushFilterDoes(j) \in SUBSET Hows
  BY DEF FlushFilterDoes, AppFlushFilter, Hows
<1>2. FlushChain \in [1..M + 1 -> SUBSET Hows]
  BY <1>1 DEF FlushChain
<1>3. M + 1 \in Nat
  BY ChainAssumption
<1>4. FlushChain \in Seq(SUBSET Hows) /\ Len(FlushChain) = M + 1
  BY <1>2, <1>3
<1>5. QED
  BY <1>4 DEF FlushChain

(* A run stops at the first callee that does not continue, and only        *)
(* returns when there is none to call.                                     *)
LEMMA RunStops ==
  ASSUME NEW chain \in Seq(SUBSET Hows), NEW i \in Nat \ {0}, NEW e \in Runs(i, chain)
  PROVE  \/ i > Len(chain) /\ e = [at |-> i, how |-> "returns"]
         \/ /\ i <= Len(chain) /\ e.at \in i..Len(chain)
            /\ e = [at |-> e.at, how |-> e.how]
            /\ e.how \in chain[e.at] /\ e.how # "continues"
            /\ \A k \in i..e.at - 1 : "continues" \in chain[k]
<1>1. CASE i > Len(chain)
  BY <1>1 DEF Runs
<1>2. CASE i <= Len(chain)
  <2>1. PICK j \in i..Len(chain) :
          /\ \A k \in i..j - 1 : "continues" \in chain[k]
          /\ e \in {[at |-> j, how |-> h] : h \in chain[j] \ {"continues"}}
    BY <1>2 DEF Runs
  <2>2. PICK h \in chain[j] \ {"continues"} : e = [at |-> j, how |-> h]
    BY <2>1
  <2>3. QED
    BY <1>2, <2>1, <2>2
<1>3. QED
  BY <1>1, <1>2

(* The end of a run of the chain of filters: only SessionFilter waits, and *)
(* for a session the request has a cookie of, only filters are suspended,  *)
(* only the handler is at work.                                            *)
Ends(o) ==
  /\ o.at \in 1..N + 2 /\ o.how \in Hows
  /\ o.how = "waits" => o.at = sessionAt /\ o.at \in 1..N /\ cookie
  /\ o.how = "suspends" => o.at \in 1..N
  /\ o.how = "works" => o.at = N + 1
  /\ o.how = "throws" => o.at \in 1..N + 1

LEMMA RunEnds ==
  ASSUME sessionAt \in 0..N, NEW i \in 1..N + 2, NEW e \in Runs(i, Chain)
  PROVE  Ends(e) /\ e.at >= i
<1>1. N \in Nat /\ i \in Nat \ {0}
  BY ChainAssumption
<1>2. CASE i > Len(Chain) /\ e = [at |-> i, how |-> "returns"]
  BY <1>1, <1>2 DEF Ends, Hows
<1>3. CASE /\ i <= Len(Chain) /\ e.at \in i..Len(Chain)
           /\ e.how \in Chain[e.at] /\ e.how # "continues"
  <2>1. e.at \in 1..N + 1 /\ e.at >= i
    BY <1>1, <1>3, ChainSteps
  <2>2. e.how \in FilterDoes(e.at)
    BY <1>3, <2>1, ChainSteps
  <2>3. e.how \in Hows
    BY <2>2 DEF FilterDoes, AppFilter, StaticHandler, AppHandler, Hows
  <2>4. e.how = "waits" => e.at = sessionAt /\ cookie
    BY <2>2 DEF FilterDoes, AppFilter, StaticHandler, AppHandler
  <2>5. e.how = "suspends" => e.at <= N
    BY <2>2 DEF FilterDoes, StaticHandler, AppHandler
  <2>6. e.how = "works" => ~(e.at <= N)
    BY <1>1, <2>1, <2>2 DEF FilterDoes, AppFilter
  <2>7. QED
    BY <1>1, <2>1, <2>3, <2>4, <2>5, <2>6 DEF Ends
<1>4. QED
  BY <1>1, <1>2, <1>3, ChainSteps, RunStops

(* What becomes of an exception changes neither. *)
LEMMA TryEnds ==
  ASSUME NEW e, Ends(e)
  PROVE  Ends(InTry(e)) /\ InTry(e).lost = FALSE
  BY DEF Ends, InTry, Hows

LEMMA OtherwiseEnds ==
  ASSUME NEW e, Ends(e), NEW T
  PROVE  Ends(InOtherwise(e, T)) /\ InOtherwise(e, T).lost \in BOOLEAN
  BY DEF Ends, InOtherwise, Hows

-----------------------------------------------------------------------------
(* The inductive invariant.                                                *)

(* A promise around the chain, or around the handler, is pending. *)
Busy == waiting \/ paused \/ handling

(* SessionFilter stands in both chains or in none. *)
Config ==
  /\ (sessionAt = 0) = (afterAt = 0)
  /\ route = "none" => sessionAt = 0

(* The chain of filters has one position, and what it waits for is there.  *)
Position ==
  /\ waiting => at = sessionAt /\ at \in 1..N /\ cookie /\ ~paused /\ ~handling
  /\ paused => at \in 1..N /\ futures /\ ~handling
  /\ handling => at = N + 1
  /\ Busy => at # 0 /\ route # "none"

(* Before the first answer no run of the flush chain is queued or begun.   *)
Unanswered ==
  flushes = 0 => /\ flushTicks = 0 /\ ~saving /\ ~written /\ ~completed
                 /\ fat = 1 /\ saved = "no"

(* An answer ends the chain of filters for good. *)
AnswerEndsChain == at = 0 \/ Busy => flushes = 0

(* The flush chain waits at SessionFilter and does not pass it unsaved,    *)
(* and there is one run of it at a time.                                   *)
FlushPosition ==
  /\ fat \in 1..M + 1
  /\ saving => afterAt # 0 /\ fat = afterAt /\ flushTicks = 0
  /\ flushTicks \in 0..1
  /\ afterAt # 0 /\ fat > afterAt => saved # "no"

IInv ==
  /\ TypeOK /\ Config /\ Position /\ Unanswered /\ AnswerEndsChain /\ FlushPosition
  /\ AnsweredOnce /\ SavedFirst /\ MissedOnlyInPromises

LEMMA InitInv == Init => IInv
<1>1. SUFFICES ASSUME Init PROVE IInv
  OBVIOUS
<1>2. TypeOK
  <2>1. /\ waiting \in BOOLEAN /\ paused \in BOOLEAN /\ handling \in BOOLEAN
        /\ saving \in BOOLEAN /\ written \in BOOLEAN /\ completed \in BOOLEAN
        /\ lost \in BOOLEAN /\ futures \in BOOLEAN /\ spoilt \in BOOLEAN
    BY <1>1, Zenon DEF Init
  <2>2. /\ at \in 0..N + 2 /\ fat \in 1..M + 2 /\ flushTicks \in Nat /\ flushes \in 0..2
        /\ saved = "no" /\ answerer = "nobody"
    BY <1>1, ChainAssumption DEF Init
  <2>3. /\ route \in Routes /\ sessionAt \in 0..N /\ afterAt \in 0..M
        /\ cookie \in BOOLEAN /\ reflush \in BOOLEAN
    BY <1>1, Zenon DEF Init
  <2>4. QED
    BY <2>1, <2>2, <2>3 DEF TypeOK
<1>3. /\ ~waiting /\ ~paused /\ ~handling /\ ~saving /\ ~written /\ ~completed /\ ~lost
      /\ fat = 1 /\ saved = "no" /\ flushTicks = 0 /\ flushes = 0
  BY <1>1 DEF Init
<1>4. Config
  BY <1>1 DEF Init, Config
<1>5. Position /\ Unanswered /\ AnswerEndsChain
  BY <1>3 DEF Position, Unanswered, AnswerEndsChain, Busy
<1>6. FlushPosition
  BY <1>2, <1>3, ChainAssumption DEF TypeOK, FlushPosition
<1>7. AnsweredOnce /\ SavedFirst /\ MissedOnlyInPromises
  BY <1>3 DEF AnsweredOnce, SavedFirst, MissedOnlyInPromises
<1>8. QED
  BY <1>2, <1>4, <1>5, <1>6, <1>7 DEF IInv

-----------------------------------------------------------------------------
(* The steps of the chain of filters.                                      *)

(* The first flush() queues the run of the flush chain. *)
LEMMA FirstFlush ==
  ASSUME flushes = 0, flushTicks = 0, NEW who, Flush(who)
  PROVE  flushes' = 1 /\ flushTicks' = 1 /\ answerer' = who
BY DEF Flush

LEMMA WhoAnswers ==
  ASSUME NEW o PROVE Who(o) \in {"nobody", "filter", "handler", "exception"}
BY DEF Who

(* A chain that has not answered, at the end of a run: the invariant holds *)
(* if an exception that was lost was lost in a promise.                    *)
LEMMA SettleInv ==
  ASSUME IInv, at = 0 \/ Busy, route # "none", NEW o, Ends(o), o.lost \in BOOLEAN, Settle(o),
         futures' \in BOOLEAN, futures => futures', o.how = "suspends" => futures',
         o.lost => futures' \/ cookie
  PROVE  IInv'
<1>1. /\ flushes = 0 /\ flushTicks = 0 /\ ~saving /\ ~written /\ ~completed
      /\ fat = 1 /\ saved = "no"
  BY DEF IInv, AnswerEndsChain, Unanswered
<1>2. /\ UNCHANGED <<route, sessionAt, afterAt, cookie, reflush>>
      /\ UNCHANGED <<fat, saving, saved, written, spoilt, completed>>
      /\ at' = o.at
  BY DEF Settle, config, afterVars
<1>3. /\ waiting' \in BOOLEAN /\ (waiting' <=> o.how = "waits")
      /\ paused' \in BOOLEAN /\ (paused' <=> o.how = "suspends")
      /\ handling' \in BOOLEAN /\ (handling' <=> o.how = "works")
  BY Zenon DEF Settle
<1>4. lost' \in BOOLEAN /\ (lost' <=> lost \/ o.lost)
  BY Zenon DEF Settle, IInv, TypeOK
<1>5. \/ /\ o.how \in {"answers", "fails"} /\ flushes' = 1 /\ flushTicks' = 1
         /\ answerer' \in {"nobody", "filter", "handler", "exception"}
      \/ UNCHANGED answerVars
  BY <1>1, FirstFlush, WhoAnswers DEF Settle
<1>6. /\ at' \in 0..N + 2 /\ at' # 0
      /\ flushes' \in 0..1 /\ flushTicks' = flushes' /\ flushTicks' \in Nat
      /\ answerer' \in {"nobody", "filter", "handler", "exception"}
      /\ Busy' => flushes' = 0
  BY <1>1, <1>2, <1>3, <1>5, ChainAssumption DEF Ends, answerVars, IInv, TypeOK, Busy
<1>7. TypeOK'
  BY <1>2, <1>3, <1>4, <1>6 DEF IInv, TypeOK
<1>8. Config'
  BY <1>2 DEF IInv, Config
<1>9. Position'
  BY <1>2, <1>3, <1>6 DEF Position, Ends, Busy
<1>10. Unanswered' /\ AnswerEndsChain'
  BY <1>1, <1>2, <1>6 DEF Unanswered, AnswerEndsChain
<1>11. FlushPosition'
  BY <1>1, <1>2, <1>6 DEF IInv, FlushPosition
<1>12. AnsweredOnce' /\ SavedFirst'
  BY <1>1, <1>2, <1>6 DEF AnsweredOnce, SavedFirst
<1>13. MissedOnlyInPromises'
  BY <1>2, <1>4 DEF IInv, MissedOnlyInPromises
<1>14. QED
  BY <1>7, <1>8, <1>9, <1>10, <1>11, <1>12, <1>13 DEF IInv

LEMMA GoesInv ==
  ASSUME IInv, at = 0 \/ Busy, route # "none", NEW o, Ends(o), o.lost \in BOOLEAN, Goes(o),
         o.lost => futures \/ cookie
  PROVE  IInv'
<1>1. Settle(o) /\ futures' \in BOOLEAN /\ (futures' <=> futures \/ o.how = "suspends")
  BY Zenon DEF Goes, IInv, TypeOK
<1>2. QED
  BY <1>1, SettleInv

LEMMA GoesNoFurtherInv ==
  ASSUME IInv, at = 0 \/ Busy, route # "none", NEW o, Ends(o), o.lost \in BOOLEAN,
         GoesNoFurther(o)
  PROVE  IInv'
BY SettleInv DEF GoesNoFurther

(* An exception kept by a filter that returned a Future. *)
LEMMA SwallowedEnds ==
  ASSUME sessionAt \in 0..N, NEW i \in 1..N + 2, NEW o \in Swallowed(i)
  PROVE  Ends(o) /\ o.lost \in BOOLEAN
<1>1. PICK e \in Runs(i, Chain) : o = InOtherwise(e, {})
  BY DEF Swallowed
<1>2. Ends(e)
  BY RunEnds
<1>3. QED
  BY <1>1, <1>2, OtherwiseEnds

LEMMA RequestHandlerInv == ASSUME IInv, RequestHandler PROVE IInv'
<1>1. at = 0 /\ route # "none" /\ sessionAt \in 0..N /\ 1 \in 1..N + 2
  BY ChainAssumption DEF RequestHandler, IInv, TypeOK
<1>2. ASSUME NEW o \in FromTry(1, Chain), Goes(o) PROVE IInv'
  <2>1. PICK e \in Runs(1, Chain) : o = InTry(e)
    BY <1>2 DEF FromTry
  <2>2. Ends(o) /\ o.lost = FALSE
    BY <1>1, <2>1, RunEnds, TryEnds
  <2>3. QED
    BY <1>1, <1>2, <2>2, GoesInv
<1>3. ASSUME NEW o \in Swallowed(1), GoesNoFurther(o) PROVE IInv'
  BY <1>1, <1>3, SwallowedEnds, GoesNoFurtherInv
<1>4. QED
  BY <1>2, <1>3 DEF RequestHandler

LEMMA FilterResumesInv == ASSUME IInv, FilterResumes PROVE IInv'
<1>1. /\ paused /\ at \in 1..N /\ futures /\ route # "none" /\ Busy
      /\ sessionAt \in 0..N
  BY DEF FilterResumes, IInv, TypeOK, Position, Busy
<1>2. PICK o \in FromCoroutine(at) : Goes(o)
  BY DEF FilterResumes
<1>3. PICK e \in Runs(at + 1, Chain) \cup {[at |-> at, how |-> h] : h \in {"answers", "throws"}} :
        o = InOtherwise(e, {})
  BY <1>2 DEF FromCoroutine
<1>4. Ends(e)
  <2>1. CASE e \in Runs(at + 1, Chain)
    BY <1>1, <2>1, RunEnds, ChainAssumption
  <2>2. ASSUME NEW h \in {"answers", "throws"}, e = [at |-> at, how |-> h] PROVE Ends(e)
    BY <1>1, <2>2, ChainAssumption DEF Ends, Hows
  <2>3. QED
    BY <1>3, <2>1, <2>2
<1>5. Ends(o) /\ o.lost \in BOOLEAN
  BY <1>3, <1>4, OtherwiseEnds
<1>6. QED
  BY <1>1, <1>2, <1>5, GoesInv

(* Whether the session was loaded or not, the chain goes on behind its     *)
(* filter, with promises around it.                                        *)
LEMMA SessionInv == ASSUME IInv, SessionLoaded \/ SessionNotLoaded PROVE IInv'
<1>1. /\ waiting /\ cookie /\ route # "none" /\ Busy /\ sessionAt \in 0..N
      /\ at + 1 \in 1..N + 2
  BY ChainAssumption DEF SessionLoaded, SessionNotLoaded, IInv, TypeOK, Position, Busy
<1>2. ASSUME NEW o \in FromThen(at + 1, Chain), Goes(o) PROVE IInv'
  <2>1. PICK e \in Runs(at + 1, Chain) :
          o \in IF e.how = "throws" THEN {InOtherwise(f, {e.at}) : f \in Runs(e.at + 1, Chain)}
                                    ELSE {InOtherwise(e, {})}
    BY <1>2 DEF FromThen
  <2>2. Ends(e)
    BY <1>1, RunEnds
  <2>3. CASE e.how = "throws"
    <3>1. PICK f \in Runs(e.at + 1, Chain) : o = InOtherwise(f, {e.at})
      BY <2>1, <2>3
    <3>2. e.at + 1 \in 1..N + 2
      BY <2>2, <2>3, ChainAssumption DEF Ends
    <3>3. Ends(o) /\ o.lost \in BOOLEAN
      BY <1>1, <3>1, <3>2, RunEnds, OtherwiseEnds
    <3>4. QED
      BY <1>1, <1>2, <3>3, GoesInv
  <2>4. CASE e.how # "throws"
    <3>1. Ends(o) /\ o.lost \in BOOLEAN
      BY <2>1, <2>2, <2>4, OtherwiseEnds
    <3>2. QED
      BY <1>1, <1>2, <3>1, GoesInv
  <2>5. QED
    BY <2>3, <2>4
<1>3. ASSUME NEW o \in Swallowed(at + 1), GoesNoFurther(o) PROVE IInv'
  BY <1>1, <1>3, SwallowedEnds, GoesNoFurtherInv
<1>4. ASSUME NEW o \in FromOtherwise(at + 1, Chain), Goes(o) PROVE IInv'
  <2>1. PICK e \in Runs(at + 1, Chain) : o = InOtherwise(e, {})
    BY <1>4 DEF FromOtherwise
  <2>2. Ends(o) /\ o.lost \in BOOLEAN
    BY <1>1, <2>1, RunEnds, OtherwiseEnds
  <2>3. QED
    BY <1>1, <1>4, <2>2, GoesInv
<1>5. QED
  BY <1>2, <1>3, <1>4 DEF SessionLoaded, SessionNotLoaded

LEMMA NotFoundInv == ASSUME IInv, NotFound PROVE IInv'
<1>1. /\ at = 0 /\ route = "none" /\ flushes = 0 /\ ~Busy /\ sessionAt = 0 /\ afterAt = 0
  BY DEF NotFound, IInv, Config, AnswerEndsChain, Position
<1>2. /\ UNCHANGED <<route, sessionAt, afterAt, cookie, reflush>>
      /\ UNCHANGED <<waiting, paused, handling, fat, saving, saved, spoilt, flushTicks>>
      /\ UNCHANGED <<answerer, completed, lost, futures>>
      /\ at' = N + 2 /\ flushes' = 1 /\ written' = TRUE
  BY DEF NotFound, config, failVars
<1>3. TypeOK'
  BY <1>2, ChainAssumption DEF IInv, TypeOK
<1>4. Config' /\ Position' /\ Unanswered' /\ AnswerEndsChain'
  BY <1>1, <1>2, ChainAssumption DEF IInv, Config, Position, Unanswered, AnswerEndsChain, Busy
<1>5. FlushPosition' /\ AnsweredOnce' /\ SavedFirst' /\ MissedOnlyInPromises'
  BY <1>1, <1>2 DEF IInv, FlushPosition, AnsweredOnce, SavedFirst, MissedOnlyInPromises
<1>6. QED
  BY <1>3, <1>4, <1>5 DEF IInv

LEMMA HandlerDoneInv == ASSUME IInv, HandlerDone PROVE IInv'
<1>1. /\ handling /\ flushes = 0 /\ flushTicks = 0 /\ ~saving /\ ~written /\ ~completed
      /\ fat = 1 /\ saved = "no" /\ ~waiting /\ ~paused /\ at # 0
  BY DEF HandlerDone, IInv, AnswerEndsChain, Unanswered, Position, Busy
<1>2. /\ UNCHANGED <<route, sessionAt, afterAt, cookie, reflush>>
      /\ UNCHANGED <<at, waiting, paused, fat, saving, saved, written, spoilt>>
      /\ UNCHANGED <<completed, futures>>
      /\ handling' \in BOOLEAN /\ ~handling'
  BY Zenon DEF HandlerDone, config, afterVars
<1>3. /\ \/ /\ flushes' = 1 /\ flushTicks' = 1
            /\ answerer' \in {"nobody", "filter", "handler", "exception"}
         \/ UNCHANGED answerVars
      /\ lost' \in BOOLEAN /\ (lost' => lost \/ route = "static")
  <2>1. \/ UNCHANGED lost /\ (Flush("handler") \/ Flush("exception"))
        \/ lost' = TRUE /\ route = "static" /\ UNCHANGED answerVars
    BY Zenon DEF HandlerDone, AppHandlerDone, StaticHandlerDone
  <2>2. lost' \in BOOLEAN /\ (lost' => lost \/ route = "static")
    <3>1. CASE lost' = lost
      BY <3>1 DEF IInv, TypeOK
    <3>2. CASE lost' = TRUE /\ route = "static"
      BY <3>2
    <3>3. QED
      BY <2>1, <3>1, <3>2
  <2>3. QED
    BY <1>1, <2>1, <2>2, FirstFlush
<1>4. /\ flushes' \in 0..1 /\ flushTicks' = flushes' /\ flushTicks' \in Nat
      /\ answerer' \in {"nobody", "filter", "handler", "exception"}
  BY <1>1, <1>3 DEF answerVars, IInv, TypeOK
<1>5. TypeOK'
  BY <1>2, <1>3, <1>4 DEF IInv, TypeOK
<1>6. Config'
  BY <1>2 DEF IInv, Config
<1>7. ~waiting' /\ ~paused' /\ ~handling' /\ ~saving' /\ ~written' /\ ~completed'
  BY <1>1, <1>2
<1>8. Position' /\ AnswerEndsChain'
  BY <1>1, <1>2, <1>7 DEF Position, AnswerEndsChain, Busy
<1>9. Unanswered' /\ FlushPosition'
  BY <1>1, <1>2, <1>4, <1>7 DEF IInv, Unanswered, FlushPosition
<1>10. AnsweredOnce' /\ SavedFirst'
  BY <1>4, <1>7 DEF AnsweredOnce, SavedFirst
<1>11. MissedOnlyInPromises'
  BY <1>2, <1>3 DEF IInv, MissedOnlyInPromises
<1>12. QED
  BY <1>5, <1>6, <1>8, <1>9, <1>10, <1>11 DEF IInv

-----------------------------------------------------------------------------
(* The steps of the flush chain.                                           *)

(* The end of a run of the flush chain from position i: only SessionFilter *)
(* waits, it throws if there is no session, and no run goes past it        *)
(* without waiting.                                                        *)
FlushEnds(e, i) ==
  /\ e.at \in i..M + 1 /\ e.how \in {"waits", "throws", "resolves"}
  /\ e.how = "waits" => e.at = afterAt
  /\ e.how = "throws" => e.at \in 1..M /\ (e.at = afterAt => ~HasSession)
  /\ afterAt # 0 /\ i <= afterAt => e.at <= afterAt
  /\ e.how = "resolves" => e.at = M + 1

LEMMA FlushRunEnds ==
  ASSUME afterAt \in 0..M, NEW i \in 1..M + 1, NEW e \in Runs(i, FlushChain)
  PROVE  FlushEnds(e, i)
<1>1. M \in Nat /\ i \in Nat \ {0} /\ i <= Len(FlushChain)
  BY ChainAssumption, FlushChainSteps
<1>2. /\ e.at \in i..Len(FlushChain) /\ e.how \in FlushChain[e.at] /\ e.how # "continues"
      /\ \A k \in i..e.at - 1 : "continues" \in FlushChain[k]
  BY <1>1, FlushChainSteps, RunStops
<1>3. e.at \in 1..M + 1 /\ e.at \in i..M + 1
  BY <1>1, <1>2, FlushChainSteps
<1>4. e.how \in FlushFilterDoes(e.at)
  BY <1>2, <1>3, FlushChainSteps
<1>5. e.how \in {"waits", "throws", "resolves"}
  BY <1>2, <1>4 DEF FlushFilterDoes, AppFlushFilter
<1>6. e.how = "waits" => e.at = afterAt
  BY <1>4 DEF FlushFilterDoes, AppFlushFilter
<1>7. e.how = "throws" => e.at <= M /\ (e.at = afterAt => ~HasSession)
  BY <1>1, <1>3, <1>4 DEF FlushFilterDoes, AppFlushFilter
<1>8. e.how = "resolves" => ~(e.at <= M)
  BY <1>1, <1>3, <1>4 DEF FlushFilterDoes, AppFlushFilter
<1>9. ASSUME afterAt # 0, i <= afterAt, ~(e.at <= afterAt) PROVE FALSE
  <2>1. afterAt \in i..e.at - 1 /\ afterAt \in 1..M + 1
    BY <1>1, <1>3, <1>9
  <2>2. "continues" \in FlushFilterDoes(afterAt)
    BY <1>2, <2>1, FlushChainSteps
  <2>3. QED
    BY <2>1, <2>2 DEF FlushFilterDoes
<1>10. QED
  BY <1>1, <1>3, <1>5, <1>6, <1>7, <1>8, <1>9 DEF FlushEnds

LEMMA FlushTickInv == ASSUME IInv, FlushTick PROVE IInv'
<1>1. PICK o \in FromTry(fat, FlushChain) :
        /\ SettleFlush(o)
        /\ IF o.how = "fails"
           THEN flushes' = 2 /\ flushTicks' = IF reflush THEN flushTicks ELSE flushTicks - 1
           ELSE UNCHANGED flushes /\ flushTicks' = flushTicks - 1
  BY DEF FlushTick
<1>2. PICK e \in Runs(fat, FlushChain) : o = InTry(e)
  BY <1>1 DEF FromTry
<1>3. /\ flushTicks = 1 /\ ~saving /\ flushes \in 1..2 /\ at # 0 /\ ~Busy
      /\ afterAt \in 0..M /\ fat \in 1..M + 1 /\ M \in Nat
  BY ChainAssumption
     DEF FlushTick, IInv, TypeOK, FlushPosition, Unanswered, AnswerEndsChain
<1>4. FlushEnds(e, fat)
  BY <1>3, FlushRunEnds
<1>5. /\ o.at = e.at /\ (o.how = "waits" <=> e.how = "waits")
      /\ (o.how = "resolves" <=> e.how = "resolves") /\ (o.how = "fails" <=> e.how = "throws")
      /\ o.lost = FALSE /\ o.threw = IF e.how = "throws" THEN {e.at} ELSE {}
  BY <1>2, <1>4 DEF InTry, FlushEnds
<1>6. /\ UNCHANGED <<route, sessionAt, afterAt, cookie, reflush>>
      /\ UNCHANGED <<at, waiting, paused, handling, completed, futures, saved, answerer>>
      /\ fat' = e.at
  BY <1>1, <1>5 DEF SettleFlush, FlushTick, config, chainVars
<1>7. /\ saving' \in BOOLEAN /\ (saving' <=> e.how = "waits")
      /\ written' \in BOOLEAN /\ (written' <=> written \/ e.how = "resolves")
  BY <1>1, <1>5, Zenon DEF SettleFlush, IInv, TypeOK
<1>8. /\ spoilt' \in BOOLEAN /\ (spoilt' <=> spoilt \/ (e.how = "throws" /\ e.at # afterAt))
  <2>1. o.threw \ {afterAt} # {} <=> e.how = "throws" /\ e.at # afterAt
    BY <1>5
  <2>2. QED
    BY <1>1, <2>1, Zenon DEF SettleFlush, IInv, TypeOK
<1>9. lost' = lost
  BY <1>1, <1>5, Zenon DEF SettleFlush, IInv, TypeOK
<1>10. /\ flushes' \in 1..2 /\ flushTicks' \in 0..1 /\ flushTicks' \in Nat
       /\ flushes' = IF e.how = "throws" THEN 2 ELSE flushes
       /\ e.how # "throws" => flushTicks' = 0
  BY <1>1, <1>3, <1>5
<1>11. TypeOK'
  BY <1>3, <1>4, <1>6, <1>7, <1>8, <1>9, <1>10 DEF IInv, TypeOK, FlushEnds
<1>12. Config' /\ Position'
  BY <1>6 DEF IInv, Config, Position, Busy
<1>13. Unanswered' /\ AnswerEndsChain'
  BY <1>3, <1>6, <1>10 DEF Unanswered, AnswerEndsChain, Busy
<1>14. FlushPosition'
  BY <1>3, <1>4, <1>6, <1>7, <1>10 DEF IInv, FlushPosition, FlushEnds
<1>15. AnsweredOnce'
  BY <1>3, <1>4, <1>6, <1>8, <1>10 DEF IInv, AnsweredOnce, FlushEnds, HasSession
<1>16. SavedFirst'
  BY <1>3, <1>4, <1>6, <1>7 DEF IInv, SavedFirst, FlushPosition, FlushEnds
<1>17. MissedOnlyInPromises'
  BY <1>6, <1>8, <1>9 DEF IInv, MissedOnlyInPromises
<1>18. QED
  BY <1>11, <1>12, <1>13, <1>14, <1>15, <1>16, <1>17 DEF IInv

(* A run of the flush chain behind SessionFilter, in a promise. *)
BehindSession(o) ==
  /\ o.at \in afterAt..M + 1 /\ o.at > afterAt
  /\ o.how \in {"returns", "resolves"} /\ o.lost \in BOOLEAN
  /\ o.threw \in SUBSET (1..M) /\ afterAt \notin o.threw
  /\ o.lost <=> o.threw # {}

LEMMA BehindSessionEnds ==
  ASSUME afterAt \in 1..M, NEW i \in 1..M + 1, i > afterAt, NEW e \in Runs(i, FlushChain),
         NEW T \in SUBSET (1..M), afterAt \notin T
  PROVE  BehindSession(InOtherwise(e, T))
<1>1. FlushEnds(e, i) /\ M \in Nat
  BY FlushRunEnds, ChainAssumption
<1>2. e.at \in afterAt..M + 1 /\ e.at > afterAt /\ e.how \in {"throws", "resolves"}
  BY <1>1 DEF FlushEnds
<1>3. /\ InOtherwise(e, T).lost \in BOOLEAN
      /\ InOtherwise(e, T).lost <=> (e.how = "throws" \/ T # {})
  BY DEF InOtherwise
<1>4. CASE e.how = "throws"
  <2>1. e.at \in 1..M
    BY <1>1, <1>4 DEF FlushEnds
  <2>2. /\ InOtherwise(e, T).at = e.at /\ InOtherwise(e, T).how = "returns"
        /\ InOtherwise(e, T).threw = T \cup {e.at}
    BY <1>4 DEF InOtherwise
  <2>3. T \cup {e.at} \in SUBSET (1..M) /\ T \cup {e.at} # {} /\ afterAt \notin T \cup {e.at}
    <3>1. e.at # afterAt
      BY <1>2
    <3>2. QED
      BY <2>1, <3>1
  <2>4. QED
    BY <1>2, <1>3, <1>4, <2>2, <2>3 DEF BehindSession
<1>5. CASE e.how = "resolves"
  <2>1. /\ InOtherwise(e, T).at = e.at /\ InOtherwise(e, T).how = "resolves"
        /\ InOtherwise(e, T).threw = T
    BY <1>5 DEF InOtherwise
  <2>2. QED
    BY <1>2, <1>3, <1>5, <2>1 DEF BehindSession
<1>6. QED
  BY <1>2, <1>4, <1>5

(* Once the provider has answered, whatever it did. *)
LEMMA SavingInv == ASSUME IInv, SessionSaved \/ SessionNotSaved PROVE IInv'
<1>1. /\ saving /\ afterAt \in 1..M /\ fat = afterAt /\ flushTicks = 0
      /\ flushes \in 1..2 /\ at # 0 /\ ~Busy /\ M \in Nat /\ fat + 1 \in 1..M + 1
  BY ChainAssumption
     DEF SessionSaved, SessionNotSaved, IInv, TypeOK, FlushPosition, Unanswered, AnswerEndsChain
<1>2. PICK o : SettleFlush(o) /\ BehindSession(o)
  <2>1. ASSUME NEW o \in FromThen(fat + 1, FlushChain) PROVE BehindSession(o)
    <3>1. PICK e \in Runs(fat + 1, FlushChain) :
            o \in IF e.how = "throws"
                  THEN {InOtherwise(f, {e.at}) : f \in Runs(e.at + 1, FlushChain)}
                  ELSE {InOtherwise(e, {})}
      BY <2>1 DEF FromThen
    <3>2. CASE e.how = "throws"
      <4>1. PICK f \in Runs(e.at + 1, FlushChain) : o = InOtherwise(f, {e.at})
        BY <3>1, <3>2
      <4>2. e.at \in 1..M /\ e.at > afterAt
        BY <1>1, <3>2, FlushRunEnds DEF FlushEnds
      <4>3. e.at + 1 \in 1..M + 1 /\ e.at + 1 > afterAt /\ {e.at} \in SUBSET (1..M)
            /\ afterAt \notin {e.at}
        BY <1>1, <4>2
      <4>4. QED
        BY <1>1, <4>1, <4>3, BehindSessionEnds
    <3>3. CASE e.how # "throws"
      <4>1. o = InOtherwise(e, {})
        BY <3>1, <3>3
      <4>2. QED
        BY <1>1, <4>1, BehindSessionEnds
    <3>4. QED
      BY <3>2, <3>3
  <2>2. ASSUME NEW o \in FromOtherwise(fat + 1, FlushChain) PROVE BehindSession(o)
    <3>1. PICK e \in Runs(fat + 1, FlushChain) : o = InOtherwise(e, {})
      BY <2>2 DEF FromOtherwise
    <3>2. QED
      BY <1>1, <3>1, BehindSessionEnds
  <2>3. QED
    BY <2>1, <2>2 DEF SessionSaved, SessionNotSaved
<1>3. /\ UNCHANGED <<route, sessionAt, afterAt, cookie, reflush>>
      /\ UNCHANGED <<at, waiting, paused, handling, completed, futures>>
      /\ UNCHANGED <<flushes, flushTicks, answerer>>
      /\ saved' \in {"yes", "failed"} /\ fat' = o.at
  BY <1>2 DEF SettleFlush, SessionSaved, SessionNotSaved, config, chainVars, answerVars
<1>4. saving' \in BOOLEAN /\ ~saving' /\ written' \in BOOLEAN
  BY <1>2, Zenon DEF SettleFlush, BehindSession, IInv, TypeOK
<1>5. o.threw \ {afterAt} # {} <=> o.lost
  BY <1>2 DEF BehindSession
<1>6. /\ spoilt' \in BOOLEAN /\ (spoilt' <=> spoilt \/ o.lost)
      /\ lost' \in BOOLEAN /\ (lost' <=> lost \/ o.lost)
  BY <1>2, <1>5, Zenon DEF SettleFlush, IInv, TypeOK
<1>7. fat' \in 1..M + 1
  BY <1>1, <1>2, <1>3 DEF BehindSession
<1>8. TypeOK'
  BY <1>1, <1>3, <1>4, <1>6, <1>7 DEF IInv, TypeOK
<1>9. Config' /\ Position'
  BY <1>3 DEF IInv, Config, Position, Busy
<1>10. Unanswered' /\ AnswerEndsChain'
  BY <1>1, <1>3 DEF Unanswered, AnswerEndsChain, Busy
<1>11. FlushPosition' /\ SavedFirst'
  BY <1>1, <1>3, <1>4, <1>7 DEF FlushPosition, SavedFirst
<1>12. AnsweredOnce'
  BY <1>3, <1>6 DEF IInv, AnsweredOnce, HasSession
<1>13. MissedOnlyInPromises'
  BY <1>3, <1>6 DEF IInv, MissedOnlyInPromises
<1>14. QED
  BY <1>8, <1>9, <1>10, <1>11, <1>12, <1>13 DEF IInv

LEMMA CompletionInv == ASSUME IInv, Completion PROVE IInv'
<1>1. /\ written /\ flushes \in 1..2 /\ at # 0 /\ ~Busy
  BY DEF Completion, IInv, TypeOK, Unanswered, AnswerEndsChain
<1>2. /\ UNCHANGED <<route, sessionAt, afterAt, cookie, reflush>>
      /\ UNCHANGED <<at, waiting, paused, handling, fat, saving, saved, written, spoilt>>
      /\ completed' \in BOOLEAN /\ completed'
  BY Zenon DEF Completion, config, chainVars, afterVars
<1>3. /\ flushTicks' = flushTicks /\ flushes' \in 1..2 /\ answerer' = answerer
      /\ lost' \in BOOLEAN /\ futures' \in BOOLEAN
      /\ (futures => futures') /\ (lost' => lost \/ futures')
  <2>1. /\ UNCHANGED answerVars \/ Flush("exception")
        /\ UNCHANGED failVars \/ (lost' = TRUE /\ futures' = TRUE)
    BY Zenon DEF Completion
  <2>2. /\ lost' \in BOOLEAN /\ futures' \in BOOLEAN
        /\ (futures => futures') /\ (lost' => lost \/ futures')
    <3>1. CASE UNCHANGED failVars
      BY <3>1 DEF failVars, IInv, TypeOK
    <3>2. CASE lost' = TRUE /\ futures' = TRUE
      BY <3>2
    <3>3. QED
      BY <2>1, <3>1, <3>2
  <2>3. flushTicks' = flushTicks /\ flushes' \in 1..2 /\ answerer' = answerer
    BY <1>1, <2>1 DEF answerVars, Flush
  <2>4. QED
    BY <2>2, <2>3
<1>4. TypeOK'
  BY <1>2, <1>3 DEF IInv, TypeOK
<1>5. Config'
  BY <1>2 DEF IInv, Config
<1>6. Position'
  BY <1>2, <1>3 DEF IInv, Position, Busy
<1>7. Unanswered' /\ AnswerEndsChain'
  BY <1>1, <1>2, <1>3 DEF Unanswered, AnswerEndsChain, Busy
<1>8. FlushPosition' /\ AnsweredOnce' /\ SavedFirst'
  BY <1>2, <1>3 DEF IInv, FlushPosition, AnsweredOnce, SavedFirst
<1>9. MissedOnlyInPromises'
  <2>1. /\ cookie => cookie'
        /\ route = "static" => route' = "static"
        /\ spoilt => spoilt'
    BY <1>2
  <2>2. lost => cookie \/ futures \/ route = "static" \/ spoilt
    BY DEF IInv, MissedOnlyInPromises
  <2>3. QED
    BY <1>3, <2>1, <2>2, Zenon DEF MissedOnlyInPromises
<1>10. QED
  BY <1>4, <1>5, <1>6, <1>7, <1>8, <1>9 DEF IInv

-----------------------------------------------------------------------------
LEMMA NextInv == IInv /\ [Next]_vars => IInv'
<1>1. SUFFICES ASSUME IInv, [Next]_vars PROVE IInv'
  OBVIOUS
<1>2. CASE UNCHANGED vars
  BY <1>1, <1>2 DEF vars, config, chainVars, afterVars, answerVars, failVars, IInv, TypeOK,
     Config, Position, Unanswered, AnswerEndsChain, FlushPosition, AnsweredOnce, SavedFirst,
     MissedOnlyInPromises, HasSession, Busy
<1>3. CASE Next
  BY <1>1, <1>3, RequestHandlerInv, NotFoundInv, SessionInv, FilterResumesInv, HandlerDoneInv,
     FlushTickInv, SavingInv, CompletionInv DEF Next
<1>4. QED
  BY <1>1, <1>2, <1>3

LEMMA SpecInv == Spec => []IInv
BY InitInv, NextInv, PTL DEF Spec

-----------------------------------------------------------------------------
(* What the invariant says.                                                *)

(* Iterators, promises and flags keep their types: no sequence of next()   *)
(* and filter() moves an iterator past the end of its chain.               *)
THEOREM TypesHold == Spec => []TypeOK
<1>1. IInv => TypeOK
  BY DEF IInv
<1>2. QED
  BY <1>1, SpecInv, PTL

(* The flush chain, which is one iterator, is never run twice at a time,   *)
(* and never while a filter or the handler still can answer.               *)
THEOREM OneRunAtATimeHolds == Spec => []OneRunAtATime
<1>1. IInv => OneRunAtATime
  <2>1. SUFFICES ASSUME IInv PROVE OneRunAtATime
    OBVIOUS
  <2>2. flushTicks \in 0..1 /\ (saving => flushTicks = 0)
    BY <2>1 DEF IInv, FlushPosition
  <2>3. Busy => flushTicks = 0 /\ ~saving
    BY <2>1 DEF IInv, AnswerEndsChain, Unanswered
  <2>4. QED
    BY <2>2, <2>3 DEF OneRunAtATime, Busy
<1>2. QED
  BY <1>1, SpecInv, PTL

(* Filters and handlers make one answer; only an exception of the flush or *)
(* completion chain flushes again.                                         *)
THEOREM AnsweredOnceHolds == Spec => []AnsweredOnce
<1>1. IInv => AnsweredOnce
  BY DEF IInv
<1>2. QED
  BY <1>1, SpecInv, PTL

(* No response leaves before its session is stored, or could not be.       *)
THEOREM SavedFirstHolds == Spec => []SavedFirst
<1>1. IInv => SavedFirst
  BY DEF IInv
<1>2. QED
  BY <1>1, SpecInv, PTL

(* handle_exception misses an exception only where a promise is around it. *)
THEOREM MissedOnlyInPromisesHolds == Spec => []MissedOnlyInPromises
<1>1. IInv => MissedOnlyInPromises
  BY DEF IInv
<1>2. QED
  BY <1>1, SpecInv, PTL
=============================================================================
