---------------------------- MODULE WsConnection ----------------------------
(***************************************************************************)
(* One WebSocket endpoint (src/src/websocket.cpp), server or client.       *)
(*                                                                         *)
(* The object lives on a single-threaded event loop: an action is one      *)
(* callback of that loop, with every call it makes.  The record ws is the  *)
(* object; ws.io counts the reads and writes outstanding on con_, by kind. *)
(* The operators on such a record are the member functions, so a callback  *)
(* that calls several of them applies them one after the other.            *)
(*                                                                         *)
(* A handler may throw.  On a server ws_callback catches it and queues a   *)
(* close(); a client's handlers are called bare, and what they throw ends  *)
(* in the error handler of the read they were called from.                 *)
(***************************************************************************)
EXTENDS Naturals, Sequences

CONSTANTS MaxSend,   \* bound: messages the application sends
          MaxFrames  \* bound: frames the peer sends

ASSUME BoundsAssumption == MaxSend \in Nat /\ MaxFrames \in Nat

VARIABLES
  role,     \* "server" or "client" (isClient_)
  phase,    \* where the opening handshake is; "up" once it is over
  ws,       \* the WsConnection object
  net,      \* "up", "broken" (operations may fail), "dead" (a read has failed)
  rx,       \* frames read to their end
  cur,      \* the frame whose header was read and whose payload was not
  peerMsg,  \* frames of the data message the peer is in the middle of
  mixed,    \* a control frame came since the last data message was handed on
  sent,     \* messages send() accepted; message n is the n-th one
  wire,     \* messages whose write was reported done, in order
  got,      \* frames whose payload reached onMsg_, in the order they first did
  left,     \* what of msg_ an onMsg_ that threw was given already
  last,     \* the last call of onMsg_: what it was given, what the peer sent
  closes,   \* calls of onClose_
  threw     \* how many calls of a client's handlers threw

vars == <<role, phase, ws, net, rx, cur, peerMsg, mixed, sent, wire, got, left, last,
          closes, threw>>
peerVars == <<rx, cur, peerMsg, mixed>>
seenVars == <<got, left, last>>
endVars == <<closes, threw>>

Connecting == {"hsWrite", "hsRead"}
InFrame == {"len", "mask", "msg"}
IOKind == Connecting \cup {"frame", "write"} \cup InFrame
Phase == {"new", "connecting", "accepted", "up", "rejected"}
Opcode == {"cont", "text", "close", "ping", "pong"}

NoIO == [k \in IOKind |-> 0]
NoThrow == [onMsg |-> 0, onClose |-> 0]
Thrown == threw # NoThrow
MayThrow == role = "client"

(* A frame as the peer sends it: control frames are never fragmented, and  *)
(* a data message is a text frame followed by continuations.  "long" frames*)
(* have an extended length field.                                          *)
Frame == [op : Opcode, fin : BOOLEAN, long : BOOLEAN]
Control(f) == f.op \in {"close", "ping", "pong"}
Cur == {"none", "control", "fragment", "final"}
CurOf(f) == IF Control(f) THEN "control" ELSE IF f.fin THEN "final" ELSE "fragment"
LegalFrame(f) == /\ Control(f) => f.fin
                 /\ f.op = "text" => peerMsg = <<>>
                 /\ f.op = "cont" => peerMsg # <<>>

Conn == [con : BOOLEAN, self : BOOLEAN, pending : BOOLEAN, opcode : Opcode,
         fin : BOOLEAN, masked : BOOLEAN, long : BOOLEAN, msg : Seq(Nat),
         sendq : Seq(Nat), writing : Seq(Nat), io : [IOKind -> Nat]]

WsInit == [con |-> FALSE, self |-> TRUE, pending |-> FALSE, opcode |-> "cont",
           fin |-> FALSE, masked |-> FALSE, long |-> FALSE, msg |-> <<>>,
           sendq |-> <<>>, writing |-> <<>>, io |-> NoIO]

-----------------------------------------------------------------------------
(* Member functions.  An operator that stands just before another and bears *)
(* its name with a suffix is a mutant of it, never used by the actions.     *)

Issue(c, k) == [c EXCEPT !.io[k] = @ + 1]
Finish(c, k) == [c EXCEPT !.io[k] = @ - 1]

(* con_->cancel(): the outstanding callbacks are forgotten, silently. *)
Cancel(c) == [c EXCEPT !.io = NoIO]

ReadFrame(c) == Issue(c, "frame")

ReadMaskOrMsg(c) == Issue(c, IF c.masked THEN "mask" ELSE "msg")
ReadLen(c) == IF c.long THEN Issue(c, "len") ELSE ReadMaskOrMsg(c)

WriteFront(c) ==
  Issue([c EXCEPT !.pending = TRUE,
                  !.writing = <<Head(c.sendq)>>,
                  !.sendq = Tail(@)], "write")

SendMsgNoCancel(c) ==
  IF c.pending \/ ~c.con THEN c
  ELSE IF c.sendq = <<>> THEN ReadFrame(c) ELSE WriteFront(c)
SendMsgReadFirst(c) ==
  IF c.pending \/ ~c.con THEN c ELSE ReadFrame(Cancel(c))
SendMsg(c) ==
  IF c.pending \/ ~c.con THEN c
  ELSE IF c.sendq = <<>> THEN ReadFrame(Cancel(c)) ELSE WriteFront(Cancel(c))

SendAtFront(c, m) ==
  IF c.con THEN SendMsg([c EXCEPT !.sendq = <<m>> \o @]) ELSE c
Send(c, m) ==
  IF c.con THEN SendMsg([c EXCEPT !.sendq = Append(@, m)]) ELSE c

DisposeKeepsCon(c) == [Cancel(c) EXCEPT !.self = FALSE]
Dispose(c) ==
  IF c.con THEN [Cancel(c) EXCEPT !.con = FALSE, !.self = FALSE]
           ELSE [c EXCEPT !.self = FALSE]

(* A handler the application attached: behind s messages sent before, it   *)
(* sends n = 0 or 1 more.                                                  *)
Handler(c, s, n) == IF n = 0 THEN c ELSE Send(c, s + 1)
Sends(s) == {n \in 0..1 : n = 0 \/ s < MaxSend}

ParseOpcode(c, f) == IF f.op = "cont" THEN c.opcode ELSE f.op

HeaderNotPending(c, f) ==
  [c EXCEPT !.long = FALSE, !.fin = f.fin, !.opcode = ParseOpcode(c, f)]
Header(c, f) ==
  [c EXCEPT !.pending = TRUE, !.long = FALSE,
            !.fin = f.fin, !.opcode = ParseOpcode(c, f)]

(* Clients mask their frames, servers do not. *)
ParseLen(c, f) == [c EXCEPT !.masked = (role = "server"), !.long = f.long]

OnMsgStops(c, n) == [Handler(c, sent, n) EXCEPT !.msg = <<>>]
OnMsgNoClear(c, n) == SendMsg(Handler(c, sent, n))
(* onDone for anything but a PING: onMsg_, then go on. *)
OnMsg(c, n) == SendMsg([Handler(c, sent, n) EXCEPT !.msg = <<>>])
(* onMsg_ throws: read_msg's error handler, and msg_ keeps what it has. *)
OnMsgThrows(c, n) == [Handler(c, sent, n) EXCEPT !.pending = FALSE, !.self = FALSE]

(* What of msg_ no call of onMsg_ was given yet. *)
Fresh(s) == SubSeq(s, Len(left) + 1, Len(s))

-----------------------------------------------------------------------------
Init ==
  /\ role \in {"server", "client"}
  /\ phase = "new"
  /\ ws = WsInit
  /\ net = "up"
  /\ rx = 0 /\ cur = "none" /\ peerMsg = <<>> /\ mixed = FALSE
  /\ sent = 0 /\ wire = <<>>
  /\ got = <<>> /\ left = <<>>
  /\ last = [msg |-> <<>>, left |-> <<>>, peer |-> <<>>, clean |-> TRUE]
  /\ closes = 0 /\ threw = NoThrow

(* onClose_, whose handler may send once more and then returns or throws.  *)
(* dispose() follows if it returns.                                        *)
Closing(c, s) ==
  \E n \in Sends(s) : /\ ws' = Dispose(Handler(c, s, n))
                     /\ sent' = IF c.con THEN s + n ELSE s
CloseThrows(c, s) ==
  /\ MayThrow
  /\ \E n \in Sends(s) : /\ ws' = Handler(c, s, n)
                        /\ sent' = IF c.con THEN s + n ELSE s

(* onClose_ and dispose() in an error handler, where k calls of this       *)
(* callback threw before.                                                  *)
OnClose(c, s, k) ==
  /\ closes' = closes + k + 1
  /\ \/ Closing(c, s) /\ threw' = [threw EXCEPT !.onClose = @ + k]
     \/ CloseThrows(c, s) /\ threw' = [threw EXCEPT !.onClose = @ + k + 1]

-----------------------------------------------------------------------------
(* Opening, server side: ws_controller calls handshake(), answers 101 and, *)
(* once the answer is written, run().                                      *)

Handshake ==
  /\ role = "server" /\ phase = "new"
  /\ ws' = [ws EXCEPT !.con = TRUE]
  /\ phase' \in {"accepted", "rejected"}  \* rejected: a header is missing
  /\ UNCHANGED <<role, net, peerVars, sent, wire, seenVars, endVars>>

Run ==
  /\ phase = "accepted"
  /\ phase' = "up"
  /\ \E n \in Sends(sent) : /\ ws' = SendMsg(Handler(ws, sent, n))
                           /\ sent' = sent + n
  /\ UNCHANGED <<role, net, peerVars, wire, seenVars, endVars>>

(* Nothing follows a flush that fails. *)
AnswerFails ==
  /\ phase = "accepted" /\ net # "up"
  /\ phase' = "rejected"
  /\ UNCHANGED <<role, ws, net, peerVars, sent, wire, seenVars, endVars>>

(* Opening, client side: connect(). *)

BadUrl ==
  /\ role = "client" /\ phase = "new"
  /\ phase' = "rejected"
  /\ UNCHANGED <<role, ws, net, peerVars, sent, wire, seenVars, endVars>>

Connected ==
  /\ role = "client" /\ phase = "new"
  /\ phase' = "connecting"
  /\ ws' = Issue([ws EXCEPT !.con = TRUE], "hsWrite")
  /\ UNCHANGED <<role, net, peerVars, sent, wire, seenVars, endVars>>

ConnectFails ==
  /\ role = "client" /\ phase = "new"
  /\ phase' = "up"
  /\ OnClose(ws, sent, 0)
  /\ UNCHANGED <<role, net, peerVars, wire, seenVars>>

RequestWritten ==
  /\ ws.io["hsWrite"] > 0
  /\ ws' = Issue(Finish(ws, "hsWrite"), "hsRead")
  /\ UNCHANGED <<role, phase, net, peerVars, sent, wire, seenVars, endVars>>

(* p.resolve() runs the caller's continuation, which may send (what it     *)
(* throws stays in its own promise); then send_msg().                      *)
ResponseRead ==
  /\ ws.io["hsRead"] > 0 /\ net # "dead"
  /\ phase' = "up"
  /\ \E n \in Sends(sent) : /\ ws' = SendMsg(Handler(Finish(ws, "hsRead"), sent, n))
                           /\ sent' = sent + n
  /\ UNCHANGED <<role, net, peerVars, wire, seenVars, endVars>>

OpeningFails ==
  /\ net # "up"
  /\ \E k \in Connecting : /\ ws.io[k] > 0
                          /\ OnClose(Finish(ws, k), sent, 0)
  /\ phase' = "up"
  /\ net' = "dead"
  /\ UNCHANGED <<role, peerVars, wire, seenVars>>

-----------------------------------------------------------------------------
(* Receiving: read_frame, read_len, read_mask, read_msg and their errors.  *)

(* An onClose_ that throws here is called again by the error handler. *)
ClosedByPeer(c) ==
  \/ Closing(c, sent) /\ closes' = closes + 1 /\ UNCHANGED threw
  \/ /\ MayThrow
     /\ \E n \in Sends(sent) :
          OnClose([Handler(c, sent, n) EXCEPT !.pending = FALSE], sent + n, 1)

CloseFrame(f) ==
  /\ ClosedByPeer(Header(Finish(ws, "frame"), f))
  /\ UNCHANGED <<cur, peerMsg, mixed>>

OtherFrame(f) ==
  /\ ws' = ReadLen(ParseLen(Header(Finish(ws, "frame"), f), f))
  /\ cur' = CurOf(f)
  /\ mixed' = (mixed \/ Control(f))
  /\ peerMsg' = IF Control(f) THEN peerMsg ELSE Append(peerMsg, rx + 1)
  /\ UNCHANGED <<sent, endVars>>

(* The peer sends nothing behind a close frame. *)
FrameRead ==
  /\ ws.io["frame"] > 0 /\ net # "dead" /\ rx < MaxFrames /\ ws.opcode # "close"
  /\ \E f \in Frame :
       /\ LegalFrame(f)
       /\ IF ParseOpcode(ws, f) = "close" THEN CloseFrame(f) ELSE OtherFrame(f)
  /\ UNCHANGED <<role, phase, net, rx, wire, seenVars>>

FrameFails ==
  /\ ws.io["frame"] > 0 /\ net # "up"
  /\ net' = "dead"
  /\ OnClose([Finish(ws, "frame") EXCEPT !.pending = FALSE], sent, 0)
  /\ UNCHANGED <<role, phase, peerVars, wire, seenVars>>

LenRead ==
  /\ ws.io["len"] > 0 /\ net # "dead"
  /\ ws' = ReadMaskOrMsg(Finish(ws, "len"))
  /\ UNCHANGED <<role, phase, net, peerVars, sent, wire, seenVars, endVars>>

LenFails ==
  /\ ws.io["len"] > 0 /\ net # "up"
  /\ net' = "dead"
  /\ ws' = [Finish(ws, "len") EXCEPT !.pending = FALSE]
  /\ UNCHANGED <<role, phase, peerVars, sent, wire, seenVars, endVars>>

MaskRead ==
  /\ ws.io["mask"] > 0 /\ net # "dead"
  /\ ws' = Issue(Finish(ws, "mask"), "msg")
  /\ UNCHANGED <<role, phase, net, peerVars, sent, wire, seenVars, endVars>>

(* Only logged: pending_ stays set. *)
MaskFails ==
  /\ ws.io["mask"] > 0 /\ net # "up"
  /\ net' = "dead"
  /\ ws' = Finish(ws, "mask")
  /\ UNCHANGED <<role, phase, peerVars, sent, wire, seenVars, endVars>>

PayloadOverwrites(c) == [Finish(c, "msg") EXCEPT !.pending = FALSE, !.msg = <<rx + 1>>]
Payload(c) == [Finish(c, "msg") EXCEPT !.pending = FALSE, !.msg = Append(@, rx + 1)]

(* A frame in the middle of a message: read the next one. *)
PayloadOfFragment(c) ==
  /\ ~c.fin
  /\ ws' = IF c.con THEN ReadFrame(c) ELSE c
  /\ UNCHANGED <<sent, mixed, seenVars, threw>>

(* onDone, PING: the answer is sent like any message; msg_ is not cleared. *)
PayloadOfPing(c) ==
  /\ c.fin /\ c.opcode = "ping"
  /\ ws' = Send(c, sent + 1)
  /\ sent' = sent + 1
  /\ UNCHANGED <<mixed, seenVars, threw>>

(* onDone, anything else. *)
PayloadOfMessage(c) ==
  /\ c.fin /\ c.opcode # "ping"
  /\ \E n \in Sends(sent) :
       /\ sent' = sent + n
       /\ \/ ws' = OnMsg(c, n) /\ left' = <<>> /\ UNCHANGED threw
          \/ /\ MayThrow
             /\ ws' = OnMsgThrows(c, n) /\ left' = c.msg
             /\ threw' = [threw EXCEPT !.onMsg = @ + 1]
  /\ got' = got \o Fresh(c.msg)
  /\ last' = [msg |-> c.msg, left |-> left, peer |-> peerMsg, clean |-> ~mixed]
  /\ mixed' = (mixed /\ cur # "final")

MsgRead ==
  /\ ws.io["msg"] > 0 /\ net # "dead"
  /\ \/ PayloadOfFragment(Payload(ws))
     \/ PayloadOfPing(Payload(ws))
     \/ PayloadOfMessage(Payload(ws))
  /\ rx' = rx + 1
  /\ cur' = "none"
  /\ peerMsg' = IF cur = "final" THEN <<>> ELSE peerMsg
  /\ UNCHANGED <<role, phase, net, wire, closes>>

(* Neither onClose_ nor dispose(): only self_ is dropped. *)
MsgFails ==
  /\ ws.io["msg"] > 0 /\ net # "up"
  /\ net' = "dead"
  /\ ws' = [Finish(ws, "msg") EXCEPT !.pending = FALSE, !.self = FALSE]
  /\ UNCHANGED <<role, phase, peerVars, sent, wire, seenVars, endVars>>

-----------------------------------------------------------------------------
(* Sending. *)

(* send() or close() called from another callback, which holds a Ptr. *)
AppSend ==
  /\ phase = "up" /\ ws.con /\ sent < MaxSend
  /\ ws' = Send(ws, sent + 1)
  /\ sent' = sent + 1
  /\ UNCHANGED <<role, phase, net, peerVars, wire, seenVars, endVars>>

WrittenStaysPending(c) == SendMsg([Finish(c, "write") EXCEPT !.writing = <<>>])
Written(c) ==
  SendMsg([Finish(c, "write") EXCEPT !.pending = FALSE, !.writing = <<>>])

WriteDone ==
  /\ ws.io["write"] > 0
  /\ ws' = Written(ws)
  /\ wire' = wire \o ws.writing
  /\ UNCHANGED <<role, phase, net, peerVars, sent, seenVars, endVars>>

(* The message is gone; the next one is tried. *)
WriteFails ==
  /\ ws.io["write"] > 0 /\ net # "up"
  /\ ws' = Written(ws)
  /\ UNCHANGED <<role, phase, net, peerVars, sent, wire, seenVars, endVars>>

-----------------------------------------------------------------------------
(* The peer goes away, or a timeout of the connection strikes. *)
Break ==
  /\ net = "up"
  /\ net' = "broken"
  /\ UNCHANGED <<role, phase, ws, peerVars, sent, wire, seenVars, endVars>>

Opening == \/ Handshake \/ Run \/ AnswerFails
           \/ BadUrl \/ Connected \/ ConnectFails
           \/ RequestWritten \/ ResponseRead \/ OpeningFails
Receiving == \/ FrameRead \/ LenRead \/ MaskRead \/ MsgRead
             \/ FrameFails \/ LenFails \/ MaskFails \/ MsgFails
Sending == AppSend \/ WriteDone \/ WriteFails

Next == Opening \/ Receiving \/ Sending \/ Break

Spec == Init /\ [][Next]_vars

(* The loop calls back every outstanding write, and every outstanding read *)
(* of a connection that is broken; a silent peer is never forced to talk.  *)
Fairness ==
  /\ WF_vars(WriteDone \/ WriteFails)
  /\ WF_vars(FrameFails) /\ WF_vars(LenFails) /\ WF_vars(MaskFails) /\ WF_vars(MsgFails)
  /\ WF_vars(OpeningFails)

FairSpec == Spec /\ Fairness

-----------------------------------------------------------------------------
(* Properties.                                                             *)

(* Every variable keeps its type, the outstanding-operation counters too. *)
TypeOK ==
  /\ role \in {"server", "client"} /\ phase \in Phase
  /\ net \in {"up", "broken", "dead"}
  /\ ws \in Conn /\ ws.io \in [IOKind -> 0..1]
  /\ rx \in Nat /\ cur \in Cur /\ peerMsg \in Seq(Nat) /\ mixed \in BOOLEAN
  /\ sent \in Nat /\ wire \in Seq(Nat) /\ got \in Seq(Nat) /\ left \in Seq(Nat)
  /\ last \in [msg : Seq(Nat), left : Seq(Nat), peer : Seq(Nat), clean : BOOLEAN]
  /\ closes \in Nat /\ threw \in [onMsg : Nat, onClose : Nat]

(* At most one operation of con_ is outstanding, whatever handlers and     *)
(* other callbacks send and when (read_frame, send_msg, dispose).          *)
OneOperation == \/ ws.io = NoIO
                \/ \E k \in IOKind : ws.io = [NoIO EXCEPT ![k] = 1]

(* read_frame only ever reads where a frame starts: no send() cancels the  *)
(* read of a frame whose header is already gone from the stream.           *)
InSync == ws.io["frame"] > 0 /\ net # "dead" => cur = "none"

(* While its network works, an open connection has a callback due; the one *)
(* exception is a client whose handler threw, and there pending_ is clear, *)
(* so that the next send() gets the connection going again.                *)
NeverStalls ==
  phase = "up" /\ ws.con /\ net # "dead" /\ ws.io = NoIO => Thrown /\ ~ws.pending

(* Every payload read reaches onMsg_ in order, or still is in msg_:        *)
(* cancelled reads, interleaved sends and PINGs lose none, and only what   *)
(* an onMsg_ was given before it threw is handed over a second time.       *)
NothingSkipped == got \o Fresh(ws.msg) = [i \in 1..rx |-> i]

(* With no control frame in between, onMsg_ gets exactly the frames of one *)
(* message of the peer (parse_opcode, msg_.append, msg_.clear), behind     *)
(* what earlier calls that threw have left in msg_.                        *)
DeliveredIntact == last.clean => last.msg = last.left \o last.peer

(* onClose_ returns once, exactly when the connection is disposed; it is   *)
(* called once more for every call that threw.                             *)
CloseOnce == closes = threw.onClose + (IF ~ws.con /\ ~ws.self THEN 1 ELSE 0)

(* A broken connection closes, unless it broke in the middle of a frame or *)
(* a client's handler threw.                                               *)
BrokenEndsFrames ==
  (net # "up" /\ phase = "up") ~> (~ws.con \/ cur # "none" \/ Thrown)

(* What send() accepted is written, lost or dropped by dispose(), unless   *)
(* the rest of a frame could not be read (pending_ may then stay set), the *)
(* peer does not finish its frame or message, or a client's handler threw. *)
SentLeaves ==
  (ws.sendq # <<>>) ~>
    (ws.sendq = <<>> \/ ~ws.con \/ cur # "none" \/ peerMsg # <<>> \/ Thrown)

(* t/ws.cpp ends with no WsConnection left: a connection that breaks is    *)
(* disposed, wherever it breaks, if no handler threw.                      *)
BrokenIsDisposed ==
  (net # "up" /\ phase = "up") ~> ((~ws.con /\ ~ws.self) \/ Thrown)

(* The sending side implements the FIFO outbox of WsOutbox. *)
Outbox == INSTANCE WsOutbox WITH
  status <- IF ws.con THEN "open" ELSE IF closes = 0 THEN "new" ELSE "closed",
  accepted <- sent,
  waiting <- IF ws.con THEN ws.writing \o ws.sendq ELSE <<>>,
  thrown <- Thrown
OutboxSpec == Outbox!OutSpec
=============================================================================
