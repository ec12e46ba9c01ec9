------------------------------ MODULE SSEChat ------------------------------
(***************************************************************************)
(* Server-sent events (src/include/reproweb/ws/sse.h) driven by the chat   *)
(* of the hello_sse example: each connection subscribes itself to the      *)
(* EventBus when it is up, sends what it hears, and unsubscribes when it   *)
(* closes.  An Id names a connection and its subscription.  An operator    *)
(* that stands just before another and bears its name with a suffix is a   *)
(* mutant of it, never used by the actions.                                *)
(***************************************************************************)
EXTENDS EventBus

CONSTANT Chat  \* the topic of the example

ASSUME ChatAssumption == Chat \in Topic

VARIABLES
  con,     \* con_ and self_: "none" before the request, "flushing" while the
           \* head of the answer is written, "lost" when that failed, "open"
           \* once run() was called, "closed" after dispose()
  net,     \* "up" or "broken": whether writes succeed
  io,      \* writes outstanding on con_
  closing, \* close() is queued, after a handler threw
  written, \* what send() handed to con_, in order
  closes   \* how often onClose_ was called, counted up to 2

sseVars == <<con, net, io, closing, written, closes>>
vars == <<busVars, sseVars>>

Init ==
  /\ BusInit
  /\ con = [c \in Id |-> "none"]
  /\ net = [c \in Id |-> "up"]
  /\ io = [c \in Id |-> 0]
  /\ closing = [c \in Id |-> FALSE]
  /\ written = [c \in Id |-> <<>>]
  /\ closes = [c \in Id |-> 0]

-----------------------------------------------------------------------------
(* Opening. *)

(* The request is detached and its answer flushed. *)
Handshake(c) ==
  /\ con[c] = "none"
  /\ con' = [con EXCEPT ![c] = "flushing"]
  /\ UNCHANGED <<busVars, net, io, closing, written, closes>>

(* Nothing happens to a connection whose answer cannot be flushed. *)
FlushFails(c) ==
  /\ con[c] = "flushing" /\ net[c] = "broken"
  /\ con' = [con EXCEPT ![c] = "lost"]
  /\ UNCHANGED <<busVars, net, io, closing, written, closes>>

(* onConnect subscribes and keeps the id ... *)
Run(c) ==
  /\ con[c] = "flushing" /\ net[c] = "up"
  /\ con' = [con EXCEPT ![c] = "open"]
  /\ Subscribe(Chat, c)
  /\ UNCHANGED <<net, io, closing, written, closes>>
(* ... or throws before it has, and close() is queued. *)
RunThrows(c) ==
  /\ con[c] = "flushing" /\ net[c] = "up"
  /\ con' = [con EXCEPT ![c] = "open"]
  /\ closing' = [closing EXCEPT ![c] = TRUE]
  /\ UNCHANGED <<busVars, net, io, written, closes>>

-----------------------------------------------------------------------------
(* Closing. *)

(* cancel() forgets the writes outstanding. *)
DisposeKeepsWrites(c) ==
  /\ con' = [con EXCEPT ![c] = "closed"]
  /\ UNCHANGED io
Dispose(c) ==
  /\ con' = [con EXCEPT ![c] = "closed"]
  /\ io' = [io EXCEPT ![c] = 0]

(* onClose unsubscribes; without a subscription it may throw, and then     *)
(* close() is queued again.  A second unsubscription would find nothing to *)
(* erase and is left out.                                                  *)
OnCloseForgets(c) ==
  /\ closes' = [closes EXCEPT ![c] = IF @ = 2 THEN 2 ELSE @ + 1]
  /\ closing' = [closing EXCEPT ![c] = FALSE]
  /\ UNCHANGED busVars
OnClose(c) ==
  /\ closes' = [closes EXCEPT ![c] = IF @ = 2 THEN 2 ELSE @ + 1]
  /\ IF c \in Issued \ left THEN Unsubscribe(c) ELSE UNCHANGED busVars
  /\ \E throws \in BOOLEAN :
       /\ throws => c \notin Issued
       /\ closing' = [closing EXCEPT ![c] = throws]

Close(c) == OnClose(c) /\ Dispose(c) /\ UNCHANGED <<net, written>>

CloseTick(c) == closing[c] /\ Close(c)

-----------------------------------------------------------------------------
(* Sending. *)

SendBusy(c, msg) ==
  IF con[c] # "open" \/ io[c] > 0 THEN UNCHANGED <<io, written>>
  ELSE /\ written' = [written EXCEPT ![c] = Append(@, msg)]
       /\ io' = [io EXCEPT ![c] = @ + 1]
(* Writes do not wait for one another. *)
Send(c, msg) ==
  IF con[c] # "open" THEN UNCHANGED <<io, written>>
  ELSE /\ written' = [written EXCEPT ![c] = Append(@, msg)]
       /\ io' = [io EXCEPT ![c] = @ + 1]

Post == Notify(Chat) /\ UNCHANGED sseVars

(* A callback of the bus runs; the observer of a connection sends. *)
BusTick ==
  /\ RunTick
  /\ LET k == Head(ticks) IN
       IF k.do = "deliver" THEN Send(k.id, k.msg) ELSE UNCHANGED <<io, written>>
  /\ UNCHANGED <<con, net, closing, closes>>

WriteDone(c) ==
  /\ io[c] > 0 /\ net[c] = "up"
  /\ io' = [io EXCEPT ![c] = @ - 1]
  /\ UNCHANGED <<busVars, con, net, closing, written, closes>>

WriteFailsQuietly(c) ==
  /\ io[c] > 0 /\ net[c] = "broken"
  /\ io' = [io EXCEPT ![c] = @ - 1]
  /\ UNCHANGED <<busVars, con, net, closing, written, closes>>
WriteFails(c) == io[c] > 0 /\ net[c] = "broken" /\ Close(c)

(* From now on writes fail; nobody reads, so nothing else tells. *)
Break(c) ==
  /\ con[c] \in {"flushing", "open"} /\ net[c] = "up"
  /\ net' = [net EXCEPT ![c] = "broken"]
  /\ UNCHANGED <<busVars, con, io, closing, written, closes>>

Next ==
  \/ \E c \in Id : \/ Handshake(c) \/ FlushFails(c) \/ Run(c) \/ RunThrows(c)
                   \/ CloseTick(c) \/ WriteDone(c) \/ WriteFails(c) \/ Break(c)
  \/ Post
  \/ BusTick

(* Queued callbacks run and outstanding writes end. *)
Fairness ==
  /\ WF_vars(BusTick)
  /\ \A c \in Id : WF_vars(CloseTick(c)) /\ WF_vars(WriteDone(c) \/ WriteFails(c))

Spec == Init /\ [][Next]_vars /\ Fairness

-----------------------------------------------------------------------------
(* Properties.                                                             *)

(* Types; only an open connection has writes outstanding, and only one     *)
(* whose onConnect subscribed was given anything to write.                 *)
TypeOK ==
  /\ BusTypeOK
  /\ con \in [Id -> {"none", "flushing", "lost", "open", "closed"}]
  /\ net \in [Id -> {"up", "broken"}]
  /\ io \in [Id -> 0..MaxNotify]
  /\ closing \in [Id -> BOOLEAN]
  /\ written \in [Id -> Seq(1..MaxNotify)]
  /\ closes \in [Id -> 0..2]
  /\ \A c \in Id : /\ con[c] # "open" => io[c] = 0
                   /\ c \notin Issued => written[c] = <<>>

Awaits(c, msg) == \E k \in DOMAIN ticks : ticks[k] = DeliverTick(Chat, c, msg)

(* A connection is given the messages posted since its subscription took   *)
(* effect, in order, once and without a gap, and while it is open and      *)
(* subscribed the delivery of all it still lacks is queued.                *)
HearsAll ==
  \A c \in Id :
    /\ \A n \in DOMAIN written[c] : written[c][n] = joinedAt[c] + n
    /\ con[c] = "open" /\ c \in subs[Chat]
         => \A msg \in 1..notified : msg > joinedAt[c] + Len(written[c]) => Awaits(c, msg)

(* The bus does not keep a connection that is gone: its erasure is queued. *)
GoneIsLeaving ==
  \A c \in subs[Chat] :
    con[c] = "open" \/ \E k \in DOMAIN ticks : ticks[k] = EraseTick(Chat, c)

(* However many of its writes fail, a connection that subscribed is closed *)
(* once.                                                                   *)
ClosedOnce == \A c \in Issued : closes[c] <= 1

(* A broken connection is found out by the next message posted: the bus    *)
(* forgets it and it is disposed.                                          *)
BrokenIsForgotten ==
  \A c \in Id :
    (net[c] = "broken" /\ \E msg \in 1..MaxNotify : Awaits(c, msg)) ~> (con[c] = "closed" /\ c \notin subs[Chat])
=============================================================================
