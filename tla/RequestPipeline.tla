-------------------------- MODULE RequestPipeline ---------------------------
(***************************************************************************)
(* One HTTP request on its way through FrontController                     *)
(* (src/src/front_controller.cpp): the look-up of a handler, the filters   *)
(* and the handler, the flush filters that flush() sets off, and the       *)
(* completion filters.  A SessionFilter may stand in both chains, and      *)
(* filters may be coroutines: these continue their chain later, from a     *)
(* promise.                                                                *)
(*                                                                         *)
(* An action is one callback of the event loop.  A filter that calls       *)
(* chain->next() runs the rest of the chain on its own stack, and an       *)
(* exception thrown there unwinds it up to where the run began, the try    *)
(* block of handle_request or onFlushHeaders or a .then() of               *)
(* SessionFilter, whose .otherwise() calls chain->next() once more - or up *)
(* to a filter declared to return a Future, which nobody looks at.         *)
(*                                                                         *)
(* An operator that stands just before another and bears its name with a   *)
(* suffix is a mutant of it, never used by the actions.                    *)
(***************************************************************************)
EXTENDS Naturals, Sequences

CONSTANTS N,  \* filters that match the request
          M   \* flush filters that match it

ASSUME ChainAssumption == N \in Nat /\ M \in Nat

VARIABLES
  route,      \* what find_handler found: see Routes
  sessionAt, afterAt,  \* where SessionFilter stands in the chains; 0: nowhere
  cookie,     \* the request carries a session cookie
  reflush,    \* a flush() during a flush calls onFlushHeaders again
  at,         \* it_ of the chain of filters; 0: not begun, N + 1: the handler
  fat,        \* it_ of the flush chain; M + 1: its terminator
  waiting,    \* before() waits for get_session()
  paused,     \* the filter at it_ is a coroutine and suspended
  handling,   \* an asynchronous handler is at work
  flushTicks, \* runs of the flush chain queued with nextTick
  saving,     \* after() waits for its provider
  saved,      \* whether the provider wrote the session: "no", "yes", "failed"
  written,    \* the promise of onFlushHeaders is resolved: the response is sent
  completed,  \* onCompletion ran
  flushes,    \* calls of flush(): none, 1, or 2 for several ...
  answerer,   \* ... and whose the first one was
  lost,       \* an exception of a filter or handler that handle_exception missed
  futures,    \* a filter returned a Future that was pending, or rejected
  spoilt      \* a flush filter of the application threw

config == <<route, sessionAt, afterAt, cookie, reflush>>
chainVars == <<at, waiting, paused, handling>>
afterVars == <<fat, saving, saved, written, spoilt>>
answerVars == <<flushTicks, flushes, answerer>>
failVars == <<lost, futures>>
vars == <<config, chainVars, afterVars, answerVars, completed, failVars>>

(* A handler of the application, the static content handler, or nothing.   *)
Routes == {"application", "static", "none"}

Init ==
  /\ route \in Routes
  /\ sessionAt \in 0..N /\ afterAt \in 0..M
  /\ (sessionAt = 0) = (afterAt = 0)
  /\ route = "none" => sessionAt = 0  \* no chains are built
  /\ cookie \in BOOLEAN /\ reflush \in BOOLEAN
  /\ at = 0 /\ fat = 1
  /\ waiting = FALSE /\ paused = FALSE /\ handling = FALSE
  /\ saving = FALSE /\ saved = "no" /\ written = FALSE /\ completed = FALSE
  /\ flushTicks = 0 /\ flushes = 0 /\ answerer = "nobody"
  /\ lost = FALSE /\ futures = FALSE /\ spoilt = FALSE

(* The request has its "_session_" attribute: before() has passed it on. *)
HasSession == sessionAt # 0 /\ at > sessionAt

-----------------------------------------------------------------------------
(* What the callees of the two chains may do. *)

AppFilter == {"continues", "answers", "throws", "suspends"}

(* A handler answers, goes to work, or fails in the hands of               *)
(* invoke_handler; what it throws otherwise leaves its stack.              *)
AppHandler == {"answers", "works", "fails", "throws"}

(* A path outside is a bad request; else a task reads the file.            *)
StaticHandler == {"answers", "works", "throws"}

FilterDoes(j) ==
  IF j = sessionAt THEN IF cookie THEN {"waits"} ELSE {"continues"}
  ELSE IF j <= N THEN AppFilter
  ELSE IF route = "static" THEN StaticHandler ELSE AppHandler

(* Flush filters cannot return a Future: no overload takes them. *)
AppFlushFilter == {"continues", "throws"}

FlushFilterDoesNotWait(j) ==
  IF j = afterAt THEN IF HasSession THEN {"continues"} ELSE {"throws"}
  ELSE IF j <= M THEN AppFlushFilter
  ELSE {"resolves"}
FlushFilterDoes(j) ==
  IF j = afterAt THEN IF HasSession THEN {"waits"} ELSE {"throws"}
  ELSE IF j <= M THEN AppFlushFilter
  ELSE {"resolves"}

Chain == [j \in 1..N + 1 |-> FilterDoes(j)]
FlushChain == [j \in 1..M + 1 |-> FlushFilterDoes(j)]

(* Where and how a synchronous run of a chain from position i may end;     *)
(* next() at the end of the chain returns.                                 *)
Runs(i, chain) ==
  IF i > Len(chain) THEN {[at |-> i, how |-> "returns"]}
  ELSE UNION {{[at |-> j, how |-> h] : h \in chain[j] \ {"continues"}} :
                j \in {j \in i..Len(chain) : \A k \in i..j - 1 : "continues" \in chain[k]}}

InTryLoses(e) ==
  [at |-> e.at, how |-> IF e.how = "throws" THEN "returns" ELSE e.how,
   threw |-> IF e.how = "throws" THEN {e.at} ELSE {}, lost |-> e.how = "throws"]
(* The run and what becomes of an exception.  In a try block it reaches    *)
(* handle_exception ...                                                    *)
InTry(e) ==
  [at |-> e.at, how |-> IF e.how = "throws" THEN "fails" ELSE e.how,
   threw |-> IF e.how = "throws" THEN {e.at} ELSE {}, lost |-> FALSE]

InOtherwiseGoesOn(e, T) ==
  [at |-> e.at + 1, how |-> IF e.how = "throws" THEN "returns" ELSE e.how,
   threw |-> IF e.how = "throws" THEN T \cup {e.at} ELSE T,
   lost |-> e.how = "throws" \/ T # {}]
(* ... in an .otherwise(), after exceptions at T, nobody ... *)
InOtherwise(e, T) ==
  [at |-> e.at, how |-> IF e.how = "throws" THEN "returns" ELSE e.how,
   threw |-> IF e.how = "throws" THEN T \cup {e.at} ELSE T,
   lost |-> e.how = "throws" \/ T # {}]

(* A filter that returns a Future is on the stack from position i on, and  *)
(* keeps what was thrown behind it, or by itself.                          *)
Swallowed(i) ==
  {InOtherwise(e, {}) : e \in {e \in Runs(i, Chain) :
     e.how = "throws" /\ \E j \in i..e.at : j # sessionAt /\ j <= N}}

(* Where a suspended filter at i may end up once it is resumed.            *)
FromCoroutine(i) ==
  {InOtherwise(e, {}) :
     e \in Runs(i + 1, Chain) \cup {[at |-> i, how |-> h] : h \in {"answers", "throws"}}}

FromTry(i, chain) == {InTry(e) : e \in Runs(i, chain)}
FromOtherwise(i, chain) == {InOtherwise(e, {}) : e \in Runs(i, chain)}
(* ... and in a .then() that .otherwise(), which goes on behind the thrower.*)
FromThen(i, chain) ==
  UNION {IF e.how = "throws"
         THEN {InOtherwise(f, {e.at}) : f \in Runs(e.at + 1, chain)}
         ELSE {InOtherwise(e, {})} : e \in Runs(i, chain)}

-----------------------------------------------------------------------------
(* res.flush(): onFlushHeaders queues a run of the flush chain.  What the  *)
(* library does with a second flush() is its own choice.                   *)
Flush(who) ==
  /\ flushes' = IF flushes = 0 THEN 1 ELSE 2
  /\ answerer' = IF flushes = 0 THEN who ELSE answerer
  /\ flushTicks' = IF flushes = 0 \/ (reflush /\ ~written) THEN flushTicks + 1
                                                            ELSE flushTicks

Who(o) == IF o.how = "fails" THEN "exception" ELSE IF o.at <= N THEN "filter" ELSE "handler"

(* The outcome o of a run of the chain of filters. *)
Settle(o) ==
  /\ at' = o.at
  /\ waiting' = (o.how = "waits")
  /\ paused' = (o.how = "suspends")
  /\ handling' = (o.how = "works")
  /\ lost' = (lost \/ o.lost)
  /\ IF o.how \in {"answers", "fails"} THEN Flush(Who(o)) ELSE UNCHANGED answerVars
  /\ UNCHANGED <<config, afterVars, completed>>

Goes(o) == Settle(o) /\ futures' = (futures \/ o.how = "suspends")
GoesNoFurther(o) == Settle(o) /\ futures' = TRUE

RequestHandler ==
  /\ at = 0 /\ route # "none"
  /\ \/ \E o \in FromTry(1, Chain) : Goes(o)
     \/ \E o \in Swallowed(1) : GoesNoFurther(o)

(* No handler: answered at once, without chains. *)
NotFound ==
  /\ at = 0 /\ route = "none"
  /\ at' = N + 2
  /\ flushes' = 1 /\ written' = TRUE
  /\ UNCHANGED <<config, waiting, paused, handling, fat, saving, saved, spoilt,
                 flushTicks, answerer, completed, failVars>>

FilterResumes ==
  /\ paused
  /\ \E o \in FromCoroutine(at) : Goes(o)

SessionLoaded ==
  /\ waiting
  /\ \/ \E o \in FromThen(at + 1, Chain) : Goes(o)
     \/ \E o \in Swallowed(at + 1) : GoesNoFurther(o)

SessionNotLoadedStops ==
  /\ waiting
  /\ waiting' = FALSE
  /\ UNCHANGED <<config, at, paused, handling, afterVars, answerVars, completed, failVars>>
(* A fresh session takes the place of the one that could not be loaded. *)
SessionNotLoaded ==
  /\ waiting
  /\ \E o \in FromOtherwise(at + 1, Chain) : Goes(o)

(* The future of an asynchronous handler settles; invoke_handler answers,  *)
(* or hands the exception to handle_exception.                             *)
AppHandlerDone ==
  /\ route = "application"
  /\ Flush("handler") \/ Flush("exception")
  /\ UNCHANGED lost

(* The file was read, or could not be and nobody is told. *)
StaticHandlerDone ==
  /\ route = "static"
  /\ \/ Flush("handler") /\ UNCHANGED lost
     \/ lost' = TRUE /\ UNCHANGED answerVars

HandlerDoneTwice ==
  /\ handling
  /\ AppHandlerDone \/ StaticHandlerDone
  /\ UNCHANGED <<config, chainVars, afterVars, completed, futures>>
HandlerDone ==
  /\ handling
  /\ handling' = FALSE
  /\ AppHandlerDone \/ StaticHandlerDone
  /\ UNCHANGED <<config, at, waiting, paused, afterVars, completed, futures>>

-----------------------------------------------------------------------------
(* The outcome o of a run of the flush chain. *)
SettleFlush(o) ==
  /\ fat' = o.at
  /\ saving' = (o.how = "waits")
  /\ written' = (written \/ o.how = "resolves")
  /\ spoilt' = (spoilt \/ o.threw \ {afterAt} # {})
  /\ lost' = (lost \/ o.lost)
  /\ UNCHANGED <<config, chainVars, completed, futures>>

(* filter() starts from it_, wherever a run before has left it. *)
FlushTick ==
  /\ flushTicks > 0
  /\ \E o \in FromTry(fat, FlushChain) :
       /\ SettleFlush(o)
       /\ IF o.how = "fails"   \* handle_exception answers again
          THEN flushes' = 2 /\ flushTicks' = IF reflush THEN flushTicks ELSE flushTicks - 1
          ELSE UNCHANGED flushes /\ flushTicks' = flushTicks - 1
  /\ UNCHANGED <<saved, answerer>>

SessionSaved ==
  /\ saving
  /\ saved' = "yes"
  /\ \E o \in FromThen(fat + 1, FlushChain) : SettleFlush(o)
  /\ UNCHANGED answerVars

SessionNotSavedStops ==
  /\ saving
  /\ saving' = FALSE /\ saved' = "failed"
  /\ UNCHANGED <<config, chainVars, fat, written, spoilt, answerVars, completed, failVars>>
SessionNotSaved ==
  /\ saving
  /\ saved' = "failed"
  /\ \E o \in FromOtherwise(fat + 1, FlushChain) : SettleFlush(o)
  /\ UNCHANGED answerVars

(* Once the response is sent: the completion chain, in a try block.        *)
Completion ==
  /\ written /\ ~completed /\ route # "none"
  /\ completed' = TRUE
  /\ \/ UNCHANGED <<answerVars, failVars>>
     \/ Flush("exception") /\ UNCHANGED failVars
     \/ lost' = TRUE /\ futures' = TRUE /\ UNCHANGED answerVars
  /\ UNCHANGED <<config, chainVars, afterVars>>

Next == \/ RequestHandler \/ NotFound \/ SessionLoaded \/ SessionNotLoaded
        \/ FilterResumes \/ HandlerDone
        \/ FlushTick \/ SessionSaved \/ SessionNotSaved \/ Completion

Spec == Init /\ [][Next]_vars

(* The loop runs what is queued, providers answer, and handlers and        *)
(* suspended filters finish.                                               *)
Fairness ==
  /\ WF_vars(FilterResumes)
  /\ WF_vars(SessionLoaded \/ SessionNotLoaded)
  /\ WF_vars(SessionSaved \/ SessionNotSaved)
  /\ WF_vars(HandlerDone) /\ WF_vars(FlushTick) /\ WF_vars(Completion)

FairSpec == Spec /\ Fairness

-----------------------------------------------------------------------------
(* Properties.                                                             *)

(* Types; in particular no sequence of next() and filter() moves an        *)
(* iterator past the end of its chain, where it may not be used.           *)
TypeOK ==
  /\ route \in Routes /\ sessionAt \in 0..N /\ afterAt \in 0..M
  /\ cookie \in BOOLEAN /\ reflush \in BOOLEAN
  /\ at \in 0..N + 2 /\ fat \in 1..M + 2
  /\ waiting \in BOOLEAN /\ paused \in BOOLEAN /\ handling \in BOOLEAN /\ saving \in BOOLEAN
  /\ saved \in {"no", "yes", "failed"} /\ written \in BOOLEAN /\ completed \in BOOLEAN
  /\ flushTicks \in Nat /\ flushes \in 0..2
  /\ answerer \in {"nobody", "filter", "handler", "exception"}
  /\ lost \in BOOLEAN /\ futures \in BOOLEAN /\ spoilt \in BOOLEAN

(* The flush chain is one iterator: never are two runs of it under way,    *)
(* queued or waiting for the session to be saved, and never while the      *)
(* chain of filters or the handler still can answer.                       *)
OneRunAtATime ==
  flushTicks + (IF saving THEN 1 ELSE 0) + (IF waiting \/ paused \/ handling THEN 1 ELSE 0) <= 1

(* Filters and handlers that answer or throw once make one answer; only an *)
(* exception of the flush or completion chain flushes again.               *)
AnsweredOnce == flushes = 2 => spoilt \/ completed \/ (afterAt # 0 /\ ~HasSession)

(* The session is stored before the response, and its cookie, leave: the   *)
(* client's next request finds it.                                         *)
SavedFirst == written /\ afterAt # 0 => saved # "no"

(* An exception of a filter or handler reaches handle_exception, unless    *)
(* there is a promise around it: the session was loaded first, a filter    *)
(* returned a Future, a file was read, or a flush filter threw behind      *)
(* SessionFilter.                                                          *)
MissedOnlyInPromises == lost => cookie \/ futures \/ route = "static" \/ spoilt

(* Every request is answered in the end, unless an exception was lost. *)
RequestIsAnswered == (at > 0) ~> (flushes > 0 \/ lost)

(* An answer is sent in the end, if the request came past the session      *)
(* filter (or there is none) and the application's flush filters are sound.*)
AnswerIsWritten ==
  (flushes > 0 /\ (afterAt = 0 \/ HasSession)) ~> (written \/ spoilt)

(* filter.h: instead of continuing, a filter may terminate the response    *)
(* itself with flush().  So its answer is sent.                            *)
FilterMayAnswer == (answerer = "filter") ~> (written \/ spoilt)
=============================================================================
