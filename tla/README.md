# repro-web: a verification development

This directory holds TLA+ models of repro-web, the C++ web framework in this
repository, the TLC configurations that check them on small instances, and
theorems about them checked by TLAPS. `PROJECT.json` lists for every definition
the source lines it models, for every property a mutation of the code that it
catches, and the hazards the properties are for.

## 1. The system

repro-web is single-threaded: everything runs in callbacks of one event loop
(library *prio*). Asynchronous results are futures (library *repro promises*),
work is postponed with `prio::nextTick` (a first-in first-out queue). What makes
the code hard is not parallelism but *interleaving of callbacks*: between the
`.then()` of one step and the next, any other callback may run.

| component | state | operations | how it interacts | hard behaviour | correct when |
|---|---|---|---|---|---|
| **WebSocket frame codec** (`websocket.cpp`: parse_*, read_len, read_mask, unmask, write_frame) | `size_`, `extralenbytes_`, `mask_`, `xorkey_`, kept from frame to frame | parse_mask, parse_len, unmask, write_frame | what the peer wrote: another WebsocketWriter or a browser | three forms of the length, an unsigned difference that wraps, registers a bad frame leaves as they were | a frame that is masked as it should be is understood, whatever came before it |
| **WsConnection** (`websocket.cpp/.h`, `ws.h`) | `con_`, `self_`, `pending_`, message and frame under construction, `msgs_to_send_` | handshake, connect, run, read_frame/len/mask/msg, send, close, dispose | one prio connection; calls the application's onConnect, onMsg, onClose, which may send | sends cancel reads; errors in every stage; PING in between; handlers that send while closing, and on a client may throw | one operation at a time, frames never cut, messages in order and once, onClose once |
| **EventBus** (`jwt.cpp`, `json.h`) | `subscriptions_` | subscribe, unsubscribe, notify, clear | queues every insertion, erasure and delivery | notify reads what queued callbacks change | observers hear what was raised while subscribed, in order |
| **RedisBus** (`redisbus.h`) | `subscriptions_`, `listeners_` | the same, over Redis | one Redis subscriber per topic, retried after failure | listener looked up now, ended later; retries outlive subscriptions | a topic with subscriptions has a listener |
| **MemorySessionProvider** (`session.cpp`) | `map_`, `timeouts_` | get, set, remove, cleanup timer | queued calls | the two maps; expiry against refresh | every call takes effect once, nothing outlives a sweep |
| **SessionFilter** (`session.cpp`, `session.h`) | the copy in a request | before, after | loads in the filter chain, stores in the flush chain | concurrent requests hold copies; provider failures; the chain continues inside its promise | logout is final; session stored before the answer |
| **FrontController** (`front_controller.cpp`, `filter.h`, `controller.h`, `parameter.h`) | three filter chains per request, handlers, exception handlers | request_handler, handle_request, include, dispatch, handle_exception | filters and handlers of the application; flush() of prio-http | exceptions on the stack, in promises, after the answer; several flushes | one answer, and it is sent |
| **SSIResolver** (`ssi.cpp`) | `includes_`, `parts_`, `resolves_`, `cnt_`, `self_` | resolve, fetch, combine | FrontController::include, one subrequest per include | answers in any order, some failing | page settled once, with its parts in place; released with the last answer |
| **Views** (`tpl.cpp`, `i18n.cpp`) | templates and messages, filled at start | render and the decorators' render_content | each decorator chains a promise to the one below, the innermost ticks, SSIResolver answers when its includes have | any of them fails | one answer, an error page if anything failed |
| **RedisSessionProvider** (`redissession.h`) | the keys and times to live in Redis | get, set, remove | a chain of one or two Redis commands per call | refusal or loss of each, other requests and expiry in between | the same promise as in memory; every stored session expires |
| **SSEConnection** (`sse.h`, `example/hello_sse/sse.h`) | `con_`, `self_` | handshake, run, send, close, dispose | a subscriber of the EventBus, from onConnect to onClose | several writes outstanding, messages queued past its end, handlers that throw | every message while open, closed once, then off the bus |
| **the hello_sse pages** (`hello_sse/htdocs/js/mvc.js`, `controller.h`, `model.h`) | `Model.sse`, the chat log | init, onMsg, render_msg, onSubmit, send_msg; postMsg | the browser's EventSource and fetch, SessionFilter, the bus | connections that break and come back, posts that wait for their session | messages shown once, in order, without a gap |
| StaticContentHandler (`front_controller.cpp`) | - | serve a file | the route of a request no controller takes; asynchronous read | no handler for a failed read | every request answered |
| handler registry, router | lists of handlers | register, find | regular expressions | order of registration | first match wins |
| JWT, serialization, validation, character conversion, metrics, configuration, start-up | mostly none | sequential functions | - | data only | - |

## 2. The modules

| module | models | proved about in |
|---|---|---|
| `WsOutbox` | what a WebSocket promises about outgoing messages (abstract) | `WsConnectionProofs` |
| `WsConnection` | `websocket.cpp`, both roles; `MCWsConnection` instantiates it | `WsConnectionProofs` |
| `EventBus` | the in-process bus | `BusProofs` |
| `RedisBus` | extends `EventBus` with listeners; `MCRedisBus` | `BusProofs` |
| `SSEChat` | extends `EventBus` with server-sent event connections as its observers | `SSEProofs` |
| `BrowserChat` | extends `SSEChat` with the pages of the chat and the controller they post to; `MCBrowserChat` | `SSEProofs` |
| `SessionStore` | what SessionFilter may expect of a session provider (abstract) | `SessionProofs`, `RedisSessionProofs` |
| `WsFraming` | the frame codec, one direction; `MCWsFraming` | `WsFramingProofs` |
| `MemorySession` | the session store and its queue, clock and timer | `SessionProofs` |
| `SessionFilter` | extends `MemorySession` with concurrent requests, implements `SessionStore`; `MCSessionFilter` | `SessionProofs` |
| `RedisSession` | sessions in Redis under concurrent requests, implements `SessionStore`; `MCRedisSession` | `RedisSessionProofs` |
| `RequestPipeline` | one request through FrontController's chains with SessionFilter in them; `MCRequestPipeline` | `RequestPipelineProofs` |
| `SSIResolver` | one template and its includes | `ViewProofs` |
| `Views` | extends `SSIResolver` with the views that render a page, and the static files with includes; `MCViews` | `ViewProofs` |

One action of a module is one callback of the event loop with everything it
calls. Member functions that several callbacks use are operators on the object's
record (`SendMsg`, `Dispose`) or set of outcomes (`Runs`, `FromThen`). Variables
that exist in the code keep its names or are explained where they are declared;
ghost variables (`got`, `left`, `last`, `closes`, `threw` in WsConnection, `sent`, `got` in WsFraming, `joinedAt`, `leftAt` in
EventBus, `written`, `closes` in SSEChat, `ended`, `quiet` in SessionFilter, `abandoned` in
RedisSession) only record history. Operators that
stand in front of another one and carry its name with a suffix are mutations of
the code, used by no action; each property is shown to fail with one of them.

### WsConnection

`ws` is the object, `ws.io` counts the operations outstanding on `con_`. `net`
is the peer's side: "up", "broken" (each operation may now fail, data already
received may still be read), "dead" after a read has failed. Frames are their
opcode, FIN bit and whether they have an extended length; a message is its
number, so `wire` and `got` say what left and what arrived in which order. The
peer is any that sends legal frames. External: `prio::Connection` forgets
outstanding callbacks silently on `cancel()`, and reads fail only after the
connection broke. The application sends from its handlers or from other
callbacks, and on the client only after `connect()` has given it the connection.

Handlers may throw, and the two roles differ. On a server `ws_callback` (ws.h:13-57)
wraps every handler and turns what it throws into a queued `close()`, which is one of the
sends of `AppSend`. On a client the handlers are bare functions called within a
`.then()` of the connection (`MayThrow`), so its own `.otherwise()` follows. When
`onMsg_` throws (`OnMsgThrows`), read_msg's error handler clears `pending_` and
drops `self_`, `msg_` keeps what was handed over, and nothing is read until
somebody sends. When `onClose_` throws for a close frame (`ClosedByPeer`),
`dispose()` is skipped and the error handler calls `onClose_` again, which may throw again
(`CloseThrows`) and leave the connection. `threw` counts these calls, and
`left` is what a message that is handed over again begins with. The safety
properties say what is still true then; the two liveness ones, and `BrokenIsDisposed`,
leave a client out once one of its handlers has thrown.

Assumed: what a handler throws is a `std::exception`, which is what read_msg's
error handler takes; what the continuation of `connect()` throws stays in
its own promise; the application keeps a `Ptr` to a client it uses, so that
dropping `self_` does not destroy it; the peer sends nothing behind its close frame. A write that a
`send()` cancels, which takes a throwing handler before it, counts as lost: `wire` is
what was reported written.

### WsFraming

One direction of a connection: a writer that is a `WebsocketWriter` or a browser
(they disagree about 65535 bytes), and the reader's registers. A frame is the
numbers in its header, its payload's size and its key; a payload is not spelled
out, because unmasking is right exactly when both sides use the same key. `xorkey_` is
not initialized by the code: any key at first. Each frame of the peer may be masked
or not: a server that reads an unmasked one is where parse_len wraps
around (`Length7`, modulo `WordSize`), leaves `size_` at what an older frame made it and
takes the extended length for payload; a client that reads a masked one does the same and
reads a key that it does not use.

`stage` is the read that is outstanding. What a frame's reads ask for
(`Asked`) is compared with what the frame has (`Bytes`) when its last read
ends. If they agree, by chance or not, the next read starts at the next frame; if not, the reader is
"lost" within a payload, and `ReadAstray` takes its bytes for frames of any kind: it may
leave any values in the members and reach the start of a frame again or not.
What is handed over while astray is not recorded. What a right frame read from
its start turns into is then the question: `Understood`.

### EventBus and RedisBus

`ticks` is the queue of the event loop, restricted to the bus' own callbacks (others
do not touch its state). The observers of a topic are called in the order of a
map of random ids: any order. A published message is nondeterminism: it may
come from any process at any time, and only a live listener turns it into
deliveries. `patient` callers wait, before they subscribe to a topic, until
queued unsubscriptions have run, and do not use `clear()`.

### SSEChat

A connection and its subscription share one Id. `con` stands for `con_` and
`self_`, `io` counts the writes outstanding: send() does not wait for the one
before. `Close` is close() with the onClose of the hello_sse example and
dispose(). A handler that throws queues close() (`closing`); these callbacks may
run in any order with those of the bus. External: after `Break` writes fail, and
`cancel()` forgets the writes outstanding. onConnect throws only before it has
subscribed, onClose only without a subscription.

### BrowserChat

`source` is the connection a page's EventSource is on. The browser opens a new
one whenever it has noticed that the last is gone; nothing asks for the messages
in between. `arriving` is what left while the network worked, `read` what the
page was given of it; a message handed to the operating system of a broken
connection is lost. Submit and PostMsg are the two ends of a post: `asked` counts those
that wait for their session, in any order, which turns out to be logged in or not. postMsg answers
nothing, and a page does not wait for an answer. A connection belongs to the page
that opened it.

### SessionStore, MemorySession and SessionFilter

`SessionStore` is what both providers promise SessionFilter: a call takes effect
at most once, at one moment between being asked and being settled; a get tells
what was stored at such a moment, or of nobody; sessions may be forgotten but
are not altered by themselves. That a logout is final is *not* promised
by it: the filter writes copies back, and run `session_logout` shows the result.

A session is who logged into it. A request goes through before, the handler
(look, log in, invalidate as the example controllers do) and after; the
provider's calls take effect when their tick runs. The clock moves freely but
not past a due cleanup: the loop is taken to be on time.

### RedisSession

Each provider call is a chain of commands; a request's `phase` is the command it
waits for. A command and its answer are one step. It may be refused (an error
reply), fail before the server executed it, or after: `GetFails`, `SetRefused`,
`SetFails` and so on are what the code does next. Redis itself is external: SET
takes a key's time to live away, EXPIRE gives one to a key that exists, and a
key with a time to live may be gone at any moment. The filter around it is
SessionFilter's, with the same three kinds of handlers. `get_session` answers a
failed GET with an anonymous session of the same id, which after() writes back
over the login; `SessionStore` allows that (a get may tell of nobody), so it
shows up here as a modelled hazard and not as a violation.

### RequestPipeline

`at` and `fat` are the iterators of the filter and flush chains. A run of a
chain is the set of its possible endings (`Runs`): where it stopped and whether
it waits, answers, throws or fails. `route` says what the request's path leads
to: a handler of the application, the static content, or nothing, which is
answered with a 404 at once, without any chain (`NotFound`). A filter of the application is a plain
one, which continues within its call, answers or throws, or one that returns a
future (`futures`): it suspends the request (`paused`) and continues it later
from its own promise (`FilterResumes`). Flush filters that return a future do not
exist: `filter.h` has no overload for them.

What becomes of an exception depends on where the run began: in the try blocks of
front_controller.cpp it reaches handle_exception; in the `.then()` of
SessionFilter the `.otherwise()` behind it, which continues the chain once more;
in the promise of a filter that returns a future, or of the static content's read,
nothing (`Swallowed`). `MissedOnlyInPromises` says that these are the only places
where one is lost. What the HTTP library does with a second `flush()` is not in
this repository, so it is chosen in the initial state (`reflush`). Assumed:
exception handlers answer, asynchronous handlers settle and suspended filters
resume.

### SSIResolver

Includes are numbers; a document is the sequence of its parts, `-i` for the
template's text in front of include `i` and `i` for its body. Includes that are
rejected can be switched off (`failures`), because a subrequest of today's
library seldom rejects.

### Views

`layers` is the stack of decorators of one of the four concrete views, or the
resolver alone for the static handler (`ssi.cpp`, and its copy in
`web_webserver.cpp`). What is chained to a promise runs within the call that
settles it: `Downstream` is part of every step of the resolver. `Answers` are the
outcomes of translation, which replaces the page by a message when a comment is
malformed, and of filling in, which may throw. Whether a promise that is settled
a second time calls its callbacks again is up to the promise library: `again`.
The future that render() itself returns is never settled by the code (tpl.cpp:182-194);
no caller in the repository waits for it, and it is left out.

## 3. The runs

`browser_chat` and `framing` take a minute and a half, the others less than one.
`CHECK_DEADLOCK FALSE` is set everywhere: connections close, requests finish
and bounded inputs run out.

| run | bounds | shows |
|---|---|---|
| `websocket` | 3 messages to send (PONGs besides), 3 frames | the ten properties of WsConnection, refinement of WsOutbox among them |
| `websocket_broken` | 1 message, 2 frames | *violated*: `BrokenIsDisposed` |
| `framing` | 3 frames, 6 sizes, 2 keys | right frames are understood whatever came before; only wrongly masked ones lead the reads astray |
| `redis_bus` | 2 topics, 3 observers, 2 messages, 1 failure | order and window of deliveries, listeners for patient callers |
| `redis_bus_listener` | the same without clear() | *violated*: `SubscribersHaveListener` |
| `browser_chat` | 2 pages, 2 connections, 2 messages, 1 post waiting | what pages show, how broken connections leave |
| `session` | 3 requests, 2 sessions, clock to 4, timeout 1, sweep every 2 | the store in memory under concurrent requests, refinement of SessionStore |
| `session_logout` | the same | *violated*: `LogoutIsFinal` |
| `redis_session` | 3 requests, 2 sessions | the store in Redis, its commands refused or lost; refinement of SessionStore |
| `pipeline` | 4 filters, 3 flush filters, all three routes | one answer, saved first, written; where an exception can be lost |
| `pipeline_filter` | the same | *violated*: `FilterMayAnswer` |
| `views` | up to 5 includes, five kinds of pages | release of the resolver; one true answer in the end |

Why the bounds suffice. Three frames are a message of three fragments, or a
message with a control frame in it and one behind it; three messages fill the
queue while one is written and one more is sent from a handler. The sizes of
`framing` are the ones on both sides of every test in write_frame and
parse_len, and 0; three frames let the registers of one frame be seen by a
second that sets only some of them and a third behind it. Three observers
on two topics let two share a topic while one joins and another leaves. Three
requests on two sessions are the smallest case in which a logout, a stale copy
and an unrelated request meet, and four time units see two sweeps. Four filters
put filters before, between and behind SessionFilter. Two connections are one for
each page, or two in turn for the same page, and two messages let one
overtake, repeat or go missing before or after the other. Larger sizes are
what the proofs are for. Symmetry is used for observers, topics, requests,
sessions and keys, in safety runs only: `StoreSpec`, too, is safety, and SessionStore treats
all requests and all sessions alike.

Fairness. `WsConnection`: the loop calls back every write it was given, and every
read once the connection is broken; a silent peer is never forced to talk.
`RequestPipeline`: queued ticks run, providers answer (well or badly), handlers
settle, suspended filters resume. `Views`: queued callbacks run and included handlers answer.
`BrowserChat`: queued callbacks run, writes end, well or badly, and a browser
hands what has arrived to the page's onmessage; nobody has to post, to
connect or to connect again. The other modules state safety only.

## 4. What the violations mean

Each is listed in `PROJECT.json` with the document it contradicts.

1. A WebSocket that breaks between two parts of a frame is never disposed.
2. Subscribing while the topic's last unsubscription is queued yields a
   subscription without Redis listener.
3. A request that read the session before a logout writes it back.
4. A filter in front of SessionFilter cannot answer a request.

Three more observations have no run of their own. A handler of a client WebSocket that
throws leaves the connection without a read until somebody sends, hands the same payloads
over again, or calls `onClose_` twice; the properties of `websocket` say exactly
how much of that may happen. Exceptions thrown behind a
SessionFilter that loaded a session reach the `.otherwise()` of before()
(session.cpp:144), and those thrown behind a filter that returned a future reach
nobody: not the exception handlers in either case. `MissedOnlyInPromises` is the
positive form that `pipeline` checks. And the SSI resolver's guard against
resolving after a rejection does nothing, because its flag is made anew for
every include (ssi.cpp:53): a later success settles the page a second time, with
a part missing. `OneTrueAnswer` holds because whoever asked is answered by the
first settlement.

## 5. The proofs

`WsConnectionProofs` proves for all bounds every safety property of WsConnection,
in three layers. `IInv` gives `OneOperation`, `TypeOK`, `InSync`, `NeverStalls`
and `CloseOnce`. None is inductive alone. The strengthening says how
the outstanding operation, `pending_`, `con_` and the frame under way hang
together: no operation without a connection, a write or a part of a frame exactly
while `pending_` is set, a frame part only while `cur` says so, and an open
connection without an operation only behind a handler that threw (`Guarded`, `Acts`). Each member function has a lemma that
says what it does to these facts; each action is then a few citations.

On top of it, `OutboxHolds` proves the refinement of `WsOutbox`. What the mapping
calls waiting is the message being written and the queue behind it (`Queue`), so
it needs that exactly one message is being written while a write is outstanding,
and none otherwise (`Writes`). `cancel()` in `send_msg` forgets no message while `pending_`
covers the write (`Covered`); behind a handler that threw it may forget the one being
written, which the outbox calls Cut. Every action is shown to be one
of Open, Accept, Deliver, Lose, Cut, Shut and Throw, or a stutter; `SendMsgCarries` and
`SendCarries` say once what the member functions do to the queue, `Ended` what the
handlers of one or two calls of `onClose_` may add to it.
From the outbox alone follows `WrittenInOrder`: what waits are always the messages
accepted last, in one piece (`Counted`, `Numbered`), so nothing is written twice or overtakes.

`NothingSkipped` and `DeliveredIntact` rest on `MsgInv`. `NothingSkipped` is inductive
with the types and the fact that a step that reads no payload leaves `msg_` alone
(`SameRead`). `DeliveredIntact` needs `Reassembling`: as long as no control frame has come in
between, `msg_` is what calls that threw have left in it (`left`) followed by what
the peer has sent of its message but for the frame under way, `fin_` says whether that frame is its last, and `opcode_` is still the text frame's, so
that no fragment is taken for a PING.

`WsFramingProofs` proves for any set of sizes, any keys and any word size above
255 `TypeOK`, `Understood` and `StaysInStep`. The invariant says that the frames
not yet read are the last ones written and their headers true (`Waiting`), and,
while a right frame is under way, which registers have been taken from it at each
stage (`Parsed`): nothing is said of the values they had before, which is why no earlier
frame matters. The arithmetic is in one lemma, `LengthSurvives`: whatever
form it was written in, the length of a right frame comes out as it went in.
`StaysInStep` needs besides that up to the first frame that is not right none was
passed over (`NonePassed`).

`SessionProofs` proves for any sets of requests and sessions, any timeout and
period `TypeOK`, `SameKeys`, `NoneOutlivesSweep` and `QuietLogoutIsFinal`. The first
three follow from `IInv`: the types, that a request's copy carries its own session
id, the equal keys, and that no deadline is older than a sweep. For the logout
`QInv` adds that every queued call fits its request (own session, right phase, own
user), that a request has at most one call queued, and that whoever holds a copy of a
session that was quietly logged out holds an anonymous one or has logged in
himself. Lemmas about `Put` and `Drop` carry the two maps. `StoreHolds` proves the
refinement of `SessionStore` from the same `QInv`: that a queued call fits its
request is what makes the effect of a tick the effect of the call that was asked.

`RedisSessionProofs` proves `TypeOK` and `LimitedOrPending`, for any sets of requests
and sessions, and the same refinement (`StoreHolds`): every command of a
request takes its effect, gives it up or settles it, and an expiring key is
forgotten. It needs, besides the types, that a request that has not been
told anything yet holds an anonymous session (`Unread`).

`BusProofs` proves EventBus alone (`BusHolds`): types, `InOrder`,
`WhileSubscribed` and `LeftForGood`, for any topics, ids and number of messages.
The invariant has two layers. `Inv1` is about the queue: while an insertion is queued
nothing but its own erasure is queued behind it and nothing before it, an id has
one erasure, and once that ran the id is nowhere. `Heard` adds that every queued
delivery is later than all its observer has heard and falls between joining and
leaving, and that deliveries of one observer are queued in turn.

In the same module `RedisImplementsBus` shows that RedisBus is such a bus, so these properties hold of it
without being proved again. For the listeners, `FailedIsRetried` is inductive with the types;
`PatientCallersAreServed` needs that whatever is subscribed or queued on a topic keeps
its listener, that a topic's insertions are queued before its erasures, and that
an id stays subscribed until its erasure runs: then the last one out leaves
nothing behind that would need the listener.

`SSEProofs` goes the same way: `ChatImplementsBus` shows that the connections use
the bus as any observers do, so `BInv`, the bus' invariant, holds of the chat. On
top of it `Lives` says which stages of a connection go with which subscriptions and
calls of close(), `Given` that a connection was written exactly what the bus
delivered to it while it was open, and `NoGap` that the deliveries of a connection
skip no message, those still queued included. `HearsAllHolds` needs all of them,
`ClosedOnceHolds` only `Lives`.

For the pages, `PagesImplementBus` shows that they are no more than users of those
connections, so `IInv`, the invariant of SSEChat, holds of BrowserChat as well. `PInv`
adds the types and which page a connection belongs to (`Pages`), that what is shown came by a
connection that had subscribed (`Shows`), and that a page stands where its
connection does (`Reads`): at the last message it was given, or before the
first it will be, which is later than everything shown. Then the next message a page is
given is the one behind the last it shows, or the first of a new connection
(`Given`, `NoGap`), and `ShownInOrder` is kept over any number of connections.

`RequestPipelineProofs` proves for any number of filters and flush filters, and
every place of SessionFilter among them, the five safety properties of
RequestPipeline: `TypeOK`, `OneRunAtATime`, `AnsweredOnce`, `SavedFirst` and
`MissedOnlyInPromises`. They are inductive only together with five facts. SessionFilter stands in both chains or in none
(`Config`). What is waited for stands where the chain does, and only one of
provider, suspended filter and handler is waited for (`Position`). While nobody has
answered, the flush chain has not begun (`Unanswered`), and an answer ends the filter
chain for good (`AnswerEndsChain`); these two are why a handler and a flush chain
never run side by side. The flush chain waits at SessionFilter and does not get past it
without a result of the save (`FlushPosition`), which is `SavedFirst` but for the last step.
`RunStops` says what a run of a chain may end with, for any chain; `TryEnds`,
`OtherwiseEnds` and `Settle` turn it into what each action does.

`ViewProofs` proves for any number of includes the resolver's `TypeOK`, `ReleasedLast`, `InPlace`
and `FirstIsTrue`. The invariant ties `cnt_` to the number of includes still
open (with the cardinality lemmas of the library) and every answered slot to its include.

It then shows that a page uses the resolver as it is specified
(`ViewsUseResolver`), so the four facts hold of every page too. `Told` says that
every answer has a settlement behind it and the first answer the first one, and `OneTrueAnswer` follows
from it and the resolver's invariant.

Assumptions are those on the constants (`BoundsAssumption`, `TimesAssumption`,
`NotifyAssumption`, `TopicAssumption`, `RedisAssumption`, `ChatAssumption`,
`IncludesAssumption`, `SizesAssumption`, `WordAssumption`, `PostsAssumption`,
`SourceAssumption`, `ChainAssumption`), which TLC evaluates in the runs. Model-checked only: liveness, which the prover
does not reach (`ShownEventually`, `BrokenIsForgotten`, `SentLeaves`, `BrokenEndsFrames`,
`RequestIsAnswered`, `AnswerIsWritten`, `IsAnswered`). Every other property of the passing runs
is also a theorem.

## 6. Not modelled

JWT, serialization, the mustache engine, the look-up of messages, validation, character conversion,
metrics, configuration and start-up are sequential functions on data or wiring.
Handler lookup rests on regular expressions of the standard library; only its
outcome, the route, is modelled. Of the static content only its asynchronous
read is, which has no `.otherwise`.

Of the scripts in the repository only the pages of the examples are the program's
own. Those of hello_sse are modelled; those of hello_ws and its copies (hello_soa,
hello_ws_coro, hello_soa_coro) put a WebSocket in the place of the
EventSource and add the author's own messages through it; they do not connect
again, and below them lie `WsConnection` and `EventBus`, which are checked
by themselves. `docs/` holds the search pages doxygen generates, and the other scripts
are copies of jQuery and its cookie plug-in.

Known hazards without a property are in `PROJECT.json` with the reason.

## 7. Plan

Done, because most of the state and of the interleaving is there: WebSockets
and their frames, sessions in memory and in Redis, the request pipeline, the
buses, SSI and views, server-sent events and the chat on top of them. Next:

1. Proofs: step properties behind the liveness ones, such as that a message
   leaves a WebSocket's queue only in front and that a suspended request is
   resumed at the filter it was suspended in; RequestPipeline as an implementation
   of a filter chain that answers once.
2. Nested SSI pages: a page whose includes are pages, and one that includes itself.
3. The WebSocket chats: bus, sessions and WsConnection together.
4. Pure algorithms (template parser, look-up of handlers and of messages,
   `forEach`), one run over bounded inputs.
