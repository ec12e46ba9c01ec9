---------------------------- MODULE BrowserChat ----------------------------
(***************************************************************************)
(* The hello_sse chat from submitting a message to reading it: the pages   *)
(* of src/example/hello_sse/htdocs/js/mvc.js, the browser's EventSource    *)
(* under them, the message controller, and the connections of SSEChat.     *)
(* What a page posts waits for its session, goes through the bus to every  *)
(* connection, and is appended to the chat log of the page behind it.      *)
(* An operator that stands just before another and bears its name with a   *)
(* suffix is a mutant of it, never used by the actions.                    *)
(***************************************************************************)
EXTENDS SSEChat

CONSTANTS Page,
          MaxPosts  \* bound: posts that wait for their session at a time

ASSUME PostsAssumption == MaxPosts \in Nat

NoSource == "no source"

ASSUME SourceAssumption == NoSource \notin Id

VARIABLES
  source,   \* Model.sse: the connection the page's EventSource is on, or
            \* NoSource while the browser waits to connect (again)
  arriving, \* how much of written[c] left while the network worked
  read,     \* how much of it the page behind c was given
  chatLog,  \* the element #chatLog of each page
  asked     \* posts of any page whose session is being looked up

pageVars == <<source, arriving, read, chatLog, asked>>
chatVars == <<vars, pageVars>>

ChatInit ==
  /\ Init
  /\ source = [p \in Page |-> NoSource]
  /\ arriving = [c \in Id |-> 0]
  /\ read = [c \in Id |-> 0]
  /\ chatLog = [p \in Page |-> <<>>]
  /\ asked = 0

-----------------------------------------------------------------------------
(* The EventSource. *)

(* The page is loaded, or its EventSource tries again: a new request. *)
Connect(p, c) ==
  /\ source[p] = NoSource
  /\ Handshake(c)
  /\ source' = [source EXCEPT ![p] = c]
  /\ UNCHANGED <<arriving, read, chatLog, asked>>

(* The browser notices that its connection is gone; what had not arrived   *)
(* by then is lost.                                                        *)
Lose(p) ==
  /\ source[p] # NoSource
  /\ net[source[p]] = "broken" \/ con[source[p]] \in {"lost", "closed"}
  /\ source' = [source EXCEPT ![p] = NoSource]
  /\ UNCHANGED <<vars, arriving, read, chatLog, asked>>

RenderMsgOnTop(p, e) == chatLog' = [chatLog EXCEPT ![p] = <<e>> \o @]
RenderMsg(p, e) == chatLog' = [chatLog EXCEPT ![p] = Append(@, e)]

(* The next event of the connection. *)
OnMsgSkipsOld(p) ==
  LET c == source[p] IN
  /\ c # NoSource
  /\ read[c] < arriving[c]
  /\ read' = [read EXCEPT ![c] = arriving[c]]
  /\ RenderMsg(p, [id |-> c, msg |-> written[c][arriving[c]]])
  /\ UNCHANGED <<vars, source, arriving, asked>>
OnMsg(p) ==
  LET c == source[p] IN
  /\ c # NoSource
  /\ read[c] < arriving[c]
  /\ read' = [read EXCEPT ![c] = @ + 1]
  /\ RenderMsg(p, [id |-> c, msg |-> written[c][read[c] + 1]])
  /\ UNCHANGED <<vars, source, arriving, asked>>

-----------------------------------------------------------------------------
(* Posting. *)

(* send_msg() does not wait for the post before; nothing is answered. *)
Submit ==
  /\ asked < MaxPosts
  /\ asked' = asked + 1
  /\ UNCHANGED <<vars, source, arriving, read, chatLog>>

(* postMsg() raises the message if the session turned out to be logged in. *)
PostMsg ==
  /\ asked > 0
  /\ asked' = asked - 1
  /\ \E authenticated \in BOOLEAN : IF authenticated THEN Post ELSE UNCHANGED vars
  /\ UNCHANGED <<source, arriving, read, chatLog>>

-----------------------------------------------------------------------------
(* The server's own steps. *)

(* What is handed to a connection that is broken does not arrive. *)
ChatTick ==
  /\ BusTick
  /\ arriving' = [c \in Id |-> IF net[c] = "up" THEN Len(written'[c]) ELSE arriving[c]]
  /\ UNCHANGED <<source, read, chatLog, asked>>

Serve(c) ==
  /\ \/ FlushFails(c) \/ Run(c) \/ RunThrows(c)
     \/ CloseTick(c) \/ WriteDone(c) \/ WriteFails(c) \/ Break(c)
  /\ UNCHANGED pageVars

WriteEnds(c) == (WriteDone(c) \/ WriteFails(c)) /\ UNCHANGED pageVars
Closes(c) == CloseTick(c) /\ UNCHANGED pageVars

ChatNext ==
  \/ \E p \in Page : \/ \E c \in Id : Connect(p, c)
                     \/ Lose(p) \/ OnMsg(p)
  \/ Submit
  \/ PostMsg
  \/ \E c \in Id : Serve(c)
  \/ ChatTick

(* The loop runs, writes end and browsers hand on what arrives. *)
ChatFairness ==
  /\ WF_chatVars(ChatTick)
  /\ \A c \in Id : WF_chatVars(Closes(c)) /\ WF_chatVars(WriteEnds(c))
  /\ \A p \in Page : WF_chatVars(OnMsg(p))

ChatSpec == ChatInit /\ [][ChatNext]_chatVars /\ ChatFairness

-----------------------------------------------------------------------------
(* Properties.                                                             *)

(* Types; a connection has one page, and gives it no more than was written.*)
PageTypeOK ==
  /\ TypeOK
  /\ source \in [Page -> Id \cup {NoSource}]
  /\ arriving \in [Id -> Nat] /\ read \in [Id -> Nat]
  /\ chatLog \in [Page -> Seq([id : Id, msg : 1..MaxNotify])]
  /\ asked \in 0..MaxPosts
  /\ \A p, q \in Page : p # q /\ source[p] # NoSource => source[p] # source[q]
  /\ \A c \in Id : read[c] <= arriving[c] /\ arriving[c] <= Len(written[c])

(* A page shows each message at most once and in the order they were       *)
(* raised, over any number of lost connections, and nothing is missing     *)
(* between the subscription of a connection and what is shown from it.     *)
ShownInOrder ==
  \A p \in Page : \A n \in DOMAIN chatLog[p] :
    LET this == chatLog[p][n] IN
    /\ n > 1 => chatLog[p][n - 1].msg < this.msg
    /\ this.msg > joinedAt[this.id] + 1
         => n > 1 /\ chatLog[p][n - 1] = [id |-> this.id, msg |-> this.msg - 1]

Shown(p, msg) == \E n \in DOMAIN chatLog[p] : chatLog[p][n].msg = msg

(* A message raised while a page's connection is subscribed is shown on    *)
(* the page, unless the network fails it.                                  *)
ShownEventually ==
  \A p \in Page, msg \in 1..MaxNotify :
    (\E c \in subs[Chat] : source[p] = c /\ joinedAt[c] < msg /\ msg <= notified)
      ~> (Shown(p, msg) \/ source[p] = NoSource \/ net[source[p]] = "broken")
=============================================================================
