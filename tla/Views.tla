-------------------------------- MODULE Views -------------------------------
(***************************************************************************)
(* Rendering a page (src/src/tpl.cpp): AbstractView::render asks a stack   *)
(* of decorators for the page's text and flushes what it becomes, or an    *)
(* error page.  The template is fetched in a tick of its own, the includes *)
(* are resolved by an SSIResolver, the texts are translated and filled in  *)
(* by the callbacks of its promise.  A static file with includes (ssi.cpp, *)
(* web_webserver.cpp) is the resolver alone.                               *)
(* An operator that stands just before another and bears its name with a   *)
(* suffix is a mutant of it, never used by the actions.                    *)
(***************************************************************************)
EXTENDS SSIResolver, SequencesExt

VARIABLES
  layers,  \* the decorators around the TemplateView; {"ssi"} for a file
  at,      \* "new", "queued" (TemplateView's tick), "started"
  sent,    \* the answers flushed, in order
  again    \* a promise that is settled again calls its callbacks again

viewVars == <<vars, layers, at, sent, again>>

File == {"ssi"}

(* The concrete views of tpl.h: MustacheView, SSIMustacheView,             *)
(* I18nMustacheView and I18nSSIMustacheView.                               *)
View == {{"mustache"} \cup L : L \in SUBSET {"ssi", "i18n"}}

ViewInit ==
  /\ Init
  /\ layers \in View \cup {File}
  /\ at = "new" /\ sent = <<>> /\ again \in BOOLEAN

Page(doc) == [ok |-> TRUE, doc |-> doc]
ErrorPage == [ok |-> FALSE, doc |-> <<>>]

-----------------------------------------------------------------------------
(* The decorators. *)

Raw == <<-1>>  \* the template with its includes as they stand

(* I18N::render does not throw: one bad comment, and the whole page,       *)
(* includes and all, becomes the text that says so.                        *)
I18nRender(doc) == {doc, <<>>}

(* What answers a text: translated, unless the view does not, and filled   *)
(* in, which may throw; a failure goes through the .otherwise(reject(p))   *)
(* of each decorator to render_error.                                      *)
Answers(s) ==
  IF s.how = "reject" THEN {ErrorPage}
  ELSE {Page(d) : d \in IF "i18n" \in layers THEN I18nRender(s.doc) ELSE {s.doc}}
         \cup (IF "mustache" \in layers THEN {ErrorPage} ELSE {})

(* flush_content or render_error, at the end of the chain of promises. *)
Flush(s) == \E a \in Answers(s) : sent' = Append(sent, a)

-----------------------------------------------------------------------------
(* The steps. *)

(* Every render_content calls the one below it; the last one queues.       *)
Render ==
  /\ at = "new" /\ layers \in View
  /\ at' = "queued"
  /\ UNCHANGED <<vars, layers, sent, again>>

(* TemplateView's tick settles its promise with the template the store has *)
(* for the page: an empty one if it has none.                              *)
TemplateTick ==
  /\ at = "queued"
  /\ at' = "started"
  /\ IF "ssi" \in layers THEN Fetch /\ UNCHANGED sent
                         ELSE Flush(Resolved(Raw)) /\ UNCHANGED vars
  /\ UNCHANGED <<layers, again>>

(* The handler of a static file with includes. *)
ServeFile ==
  /\ at = "new" /\ layers = File
  /\ at' = "started"
  /\ Fetch
  /\ UNCHANGED <<layers, sent, again>>

DownstreamOfRejected ==
  IF settled' = settled \/ (settled # <<>> /\ ~again) \/ Last(settled').how = "reject"
  THEN UNCHANGED sent
  ELSE Flush(Last(settled'))
(* The resolver settles its promise, within its callback, and all that is  *)
(* chained to it runs.                                                     *)
Downstream ==
  IF settled' = settled \/ (settled # <<>> /\ ~again) THEN UNCHANGED sent
  ELSE Flush(Last(settled'))

Passes == Downstream /\ UNCHANGED <<layers, at, again>>

SettleStep == Settle /\ Passes
DispatchStep == Dispatch /\ Passes
IncludeStep(i) == (IncludeResolved(i) \/ IncludeRejected(i)) /\ Passes

ViewNext == \/ Render \/ TemplateTick \/ ServeFile
            \/ SettleStep \/ DispatchStep
            \/ \E i \in Index : IncludeStep(i)

(* The loop runs what is queued; included handlers answer sooner or later. *)
ViewFairness ==
  /\ WF_viewVars(TemplateTick) /\ WF_viewVars(SettleStep) /\ WF_viewVars(DispatchStep)
  /\ \A i \in Index : WF_viewVars(IncludeStep(i))

ViewSpec == ViewInit /\ [][ViewNext]_viewVars /\ ViewFairness

-----------------------------------------------------------------------------
(* Properties.                                                             *)

(* Types; nothing is answered before the template was fetched, and the     *)
(* resolver of a page is started with it.                                  *)
ViewTypeOK ==
  /\ TypeOK
  /\ layers \in View \cup {File}
  /\ at \in {"new", "queued", "started"}
  /\ sent \in Seq([ok : BOOLEAN, doc : Seq(-(MaxIncludes + 1)..MaxIncludes)])
  /\ again \in BOOLEAN
  /\ at # "started" => sent = <<>>
  /\ stage # "new" <=> (at = "started" /\ "ssi" \in layers)

Whole(doc) == doc = <<>> \/ Merged(doc)

(* A request is answered once, with a page only if all its includes are in *)
(* it, each in its place in whatever order they were answered.  Only a resolver that settles its promise a second time, after a    *)
(* rejected include, could answer again, if promises let it.               *)
OneTrueAnswer ==
  /\ (~again \/ failed = {}) => Len(sent) <= 1
  /\ (sent # <<>> /\ sent[1].ok /\ "ssi" \in layers)
       => template >= 0 /\ failed = {} /\ Whole(sent[1].doc)

(* Whoever asked for the page is answered in the end, whatever fails, and  *)
(* the resolver goes.                                                      *)
IsAnswered == (at # "new") ~> (sent # <<>> /\ ~self)
=============================================================================
