------------------------- MODULE WsConnectionProofs -------------------------
(* What is proved of WsConnection for every number of messages and frames. *)
EXTENDS WsConnection, SequenceTheorems, TLAPS

(* The counters of a connection with exactly one operation outstanding. *)
Only(k) == [NoIO EXCEPT ![k] = 1]

(* Why at most one operation is outstanding: pending_ tells a send() what  *)
(* it may cancel.  Reads inside a frame and writes are outstanding only    *)
(* while pending_ is set, the read of a frame's header only while it is    *)
(* not, and a connection without con_ has nothing outstanding.  A handler  *)
(* that threw (t) may leave a write behind that pending_ does not cover.   *)
Guarded(c, n, t) ==
  /\ c.io # NoIO => /\ c.con
                    /\ \E k \in InFrame \cup {"frame", "write"} :
                         /\ c.io = Only(k)
                         /\ (c.pending <=> k # "frame") \/ (t /\ k = "write")
  /\ c.pending /\ c.con /\ c.io = NoIO => n = "dead"

(* Some operation of an open connection is outstanding, or the next send() *)
(* starts one.                                                             *)
Acts(c, n, t) == c.con /\ n # "dead" => c.io # NoIO \/ (t /\ ~c.pending)

(* An object no callback has run on yet. *)
Idle(c) == c.io = NoIO /\ ~c.pending

-----------------------------------------------------------------------------
(* The member functions keep a connection well typed. *)

LEMMA IOKinds == /\ Connecting \subseteq IOKind /\ InFrame \subseteq IOKind
                 /\ "hsWrite" \in IOKind /\ "hsRead" \in IOKind
                 /\ "frame" \in IOKind /\ "write" \in IOKind
                 /\ "len" \in IOKind /\ "mask" \in IOKind /\ "msg" \in IOKind
  BY DEF Connecting, InFrame, IOKind

LEMMA IOCounters == /\ NoIO \in [IOKind -> Nat]
                    /\ \A k \in IOKind : Only(k) \in [IOKind -> Nat]
                    /\ \A k \in IOKind : ~ (NoIO[k] > 0)
                    /\ \A k, l \in IOKind : Only(k)[l] > 0 => k = l
  BY DEF NoIO, Only

LEMMA OnlyCounts ==
  ASSUME NEW k \in IOKind
  PROVE  /\ [NoIO EXCEPT ![k] = @ + 1] = Only(k)
         /\ [Only(k) EXCEPT ![k] = @ - 1] = NoIO
         /\ Only(k) # NoIO
  BY DEF NoIO, Only

(* Setting one field of a connection: the others stay, and it stays one. *)
LEMMA SetIO ==
  ASSUME NEW c \in Conn, NEW f \in [IOKind -> Nat]
  PROVE  LET d == [c EXCEPT !.io = f]
         IN /\ d \in Conn /\ d.io = f /\ d.con = c.con /\ d.self = c.self
            /\ d.pending = c.pending /\ d.sendq = c.sendq
  BY DEF Conn

LEMMA IssueOne ==
  ASSUME NEW c \in Conn, NEW k \in IOKind, c.io = NoIO
  PROVE  LET d == Issue(c, k)
         IN /\ d \in Conn /\ d.io = Only(k) /\ d.con = c.con /\ d.self = c.self
            /\ d.pending = c.pending /\ d.sendq = c.sendq
<1>1. Issue(c, k) = [c EXCEPT !.io = [c.io EXCEPT ![k] = @ + 1]]
  BY DEF Issue
<1>2. [c.io EXCEPT ![k] = @ + 1] = Only(k)
  BY OnlyCounts
<1>3. Only(k) \in [IOKind -> Nat]
  BY IOCounters
<1>. QED
  BY <1>1, <1>2, <1>3, SetIO

LEMMA FinishOnly ==
  ASSUME NEW c \in Conn, NEW k \in IOKind, c.io = Only(k)
  PROVE  LET d == Finish(c, k)
         IN /\ d = [c EXCEPT !.io = NoIO]
            /\ d \in Conn /\ d.io = NoIO /\ d.con = c.con /\ d.self = c.self
            /\ d.pending = c.pending /\ d.sendq = c.sendq
<1>1. [c.io EXCEPT ![k] = @ - 1] = NoIO
  BY OnlyCounts
<1>2. Finish(c, k) = [c EXCEPT !.io = NoIO]
  BY <1>1 DEF Finish
<1>. QED
  BY <1>2, SetIO, IOCounters

LEMMA OneAtATime ==
  ASSUME NEW c \in Conn, NEW k \in IOKind, NEW nt, NEW t \in BOOLEAN,
         Guarded(c, nt, t), c.io[k] > 0
  PROVE  /\ c.io = Only(k) /\ c.con /\ k \notin Connecting
         /\ (c.pending <=> k # "frame") \/ (t /\ k = "write")
<1>1. c.io # NoIO
  BY IOCounters
<1>2. PICK l \in InFrame \cup {"frame", "write"} :
        /\ c.io = Only(l)
        /\ (c.pending <=> l # "frame") \/ (t /\ l = "write")
  BY <1>1 DEF Guarded
<1>3. l = k
  BY <1>2, IOCounters, IOKinds
<1>. QED
  BY <1>1, <1>2, <1>3 DEF Guarded, InFrame, Connecting

(* A connection with nothing outstanding that is free to act is guarded,   *)
(* and so is what the member functions make of it, wherever it is used.    *)
LEMMA IdleGuarded ==
  ASSUME NEW c, Idle(c), NEW nt, NEW t \in BOOLEAN
  PROVE  Guarded(c, nt, t)
  BY DEF Guarded, Idle

LEMMA CancelAll ==
  ASSUME NEW c \in Conn
  PROVE  /\ Cancel(c) \in Conn /\ Cancel(c).io = NoIO
         /\ Cancel(c).con = c.con /\ Cancel(c).self = c.self
         /\ Cancel(c).pending = c.pending /\ Cancel(c).sendq = c.sendq
  BY IOCounters, SetIO DEF Cancel

LEMMA WriteFrontOne ==
  ASSUME NEW c \in Conn, c.io = NoIO, c.sendq # <<>>
  PROVE  LET d == WriteFront(c)
         IN /\ d \in Conn /\ d.io = Only("write") /\ d.pending
            /\ d.con = c.con /\ d.self = c.self
<1> DEFINE e == [c EXCEPT !.pending = TRUE, !.writing = <<Head(c.sendq)>>,
                          !.sendq = Tail(@)]
<1>1. Head(c.sendq) \in Nat /\ Tail(c.sendq) \in Seq(Nat)
  BY DEF Conn
<1>2. <<Head(c.sendq)>> \in Seq(Nat)
  BY <1>1
<1>3. e \in Conn /\ e.io = c.io /\ e.pending /\ e.con = c.con /\ e.self = c.self
  BY <1>1, <1>2 DEF Conn
<1>4. WriteFront(c) = Issue(e, "write")
  BY DEF WriteFront
<1> HIDE DEF e
<1>. QED
  BY <1>3, <1>4, IssueOne, IOKinds

(* send_msg leaves exactly one operation outstanding on a connection that  *)
(* was free to act, and touches no other one.                              *)
LEMMA SendMsgGuarded ==
  ASSUME NEW c \in Conn, NEW nt, NEW t \in BOOLEAN, Guarded(c, nt, t)
  PROVE  LET d == SendMsg(c)
         IN /\ d \in Conn /\ d.con = c.con /\ d.self = c.self
            /\ Guarded(d, nt, t) /\ Acts(d, nt, FALSE)
<1>1. CASE c.pending \/ ~c.con
  BY <1>1 DEF SendMsg, Guarded, Acts
<1>2. CASE ~(c.pending \/ ~c.con) /\ c.sendq = <<>>
  <2> DEFINE d == Issue(Cancel(c), "frame")
  <2>1. SendMsg(c) = d
    BY <1>2 DEF SendMsg, ReadFrame
  <2>2. /\ d \in Conn /\ d.io = Only("frame") /\ d.con = c.con /\ d.self = c.self
        /\ d.pending = c.pending
    BY CancelAll, IssueOne, IOKinds
  <2> HIDE DEF d
  <2>3. Guarded(d, nt, t)
    BY <1>2, <2>2, IOKinds, OnlyCounts DEF Guarded
  <2>. QED
    BY <2>1, <2>2, <2>3, IOKinds, OnlyCounts DEF Acts
<1>3. CASE ~(c.pending \/ ~c.con) /\ c.sendq # <<>>
  <2> DEFINE d == WriteFront(Cancel(c))
  <2>1. SendMsg(c) = d
    BY <1>3 DEF SendMsg
  <2>2. /\ d \in Conn /\ d.io = Only("write") /\ d.con = c.con /\ d.self = c.self
        /\ d.pending
    BY <1>3, CancelAll, WriteFrontOne
  <2> HIDE DEF d
  <2>3. Guarded(d, nt, t)
    BY <1>3, <2>2, IOKinds, OnlyCounts DEF Guarded
  <2>. QED
    BY <2>1, <2>2, <2>3, IOKinds, OnlyCounts DEF Acts
<1>. QED
  BY <1>1, <1>2, <1>3

LEMMA SendGuarded ==
  ASSUME NEW c \in Conn, NEW nt, NEW t \in BOOLEAN, Guarded(c, nt, t), NEW m \in Nat
  PROVE  LET d == Send(c, m)
         IN /\ d \in Conn /\ d.con = c.con /\ d.self = c.self
            /\ Guarded(d, nt, t) /\ Acts(d, nt, FALSE)
<1> DEFINE d == [c EXCEPT !.sendq = Append(@, m)]
<1>1. Append(c.sendq, m) \in Seq(Nat)
  BY DEF Conn
<1>2. /\ d \in Conn /\ d.io = c.io /\ d.pending = c.pending /\ d.con = c.con
      /\ d.self = c.self
  BY <1>1 DEF Conn
<1>3. Guarded(d, nt, t)
  BY <1>2 DEF Guarded
<1>4. Send(c, m) = IF c.con THEN SendMsg(d) ELSE c
  BY DEF Send
<1> HIDE DEF d
<1>5. /\ SendMsg(d) \in Conn /\ SendMsg(d).con = d.con /\ SendMsg(d).self = d.self
      /\ Guarded(SendMsg(d), nt, t) /\ Acts(SendMsg(d), nt, FALSE)
  BY <1>2, <1>3, SendMsgGuarded
<1>6. CASE c.con
  BY <1>2, <1>4, <1>5, <1>6
<1>7. CASE ~c.con
  BY <1>4, <1>7 DEF Acts
<1>. QED
  BY <1>6, <1>7

(* While pending_ is set a send only queues. *)
LEMMA SendWaits ==
  ASSUME NEW c \in Conn, c.pending, NEW m \in Nat
  PROVE  Send(c, m).io = c.io /\ Send(c, m).pending = c.pending
<1>1. Append(c.sendq, m) \in Seq(Nat)
  BY DEF Conn
<1>. QED
  BY <1>1 DEF Send, SendMsg, Conn

LEMMA HandlerGuarded ==
  ASSUME NEW c \in Conn, NEW nt, NEW t \in BOOLEAN, Guarded(c, nt, t),
         NEW s \in Nat, NEW n
  PROVE  LET d == Handler(c, s, n)
         IN d \in Conn /\ d.con = c.con /\ d.self = c.self /\ Guarded(d, nt, t)
<1>1. CASE n = 0
  BY <1>1 DEF Handler
<1>2. CASE n # 0
  <2> DEFINE d == Send(c, s + 1)
  <2>1. s + 1 \in Nat
    OBVIOUS
  <2>2. d \in Conn /\ d.con = c.con /\ d.self = c.self /\ Guarded(d, nt, t)
    BY <2>1, SendGuarded
  <2>3. Handler(c, s, n) = d
    BY <1>2 DEF Handler
  <2> HIDE DEF d
  <2>. QED
    BY <2>2, <2>3
<1>. QED
  BY <1>1, <1>2

(* The same while pending_ is set: it waits for what is outstanding. *)
LEMMA HandlerWaits ==
  ASSUME NEW c \in Conn, c.pending, NEW s \in Nat, NEW n
  PROVE  LET d == Handler(c, s, n) IN d.io = c.io /\ d.pending
  BY SendWaits DEF Handler

LEMMA DisposeGuarded ==
  ASSUME NEW c \in Conn, NEW nt, NEW t \in BOOLEAN, Guarded(c, nt, t)
  PROVE  LET d == Dispose(c)
         IN d \in Conn /\ ~d.con /\ ~d.self /\ d.io = NoIO
  BY CancelAll, IOCounters DEF Dispose, Conn, Guarded, Cancel

-----------------------------------------------------------------------------
(* The inductive invariant. *)

Throws == [onMsg : Nat, onClose : Nat]

Types ==
  /\ role \in {"server", "client"} /\ phase \in Phase
  /\ net \in {"up", "broken", "dead"}
  /\ ws \in Conn
  /\ rx \in Nat /\ cur \in Cur /\ peerMsg \in Seq(Nat) /\ mixed \in BOOLEAN
  /\ sent \in Nat /\ wire \in Seq(Nat) /\ got \in Seq(Nat) /\ left \in Seq(Nat)
  /\ last \in [msg : Seq(Nat), left : Seq(Nat), peer : Seq(Nat), clean : BOOLEAN]
  /\ closes \in Nat /\ threw \in Throws

(* Until the opening handshake is over nothing else is outstanding. *)
Phases ==
  /\ phase \in {"new", "accepted", "rejected"} => Idle(ws)
  /\ phase = "new" => ~ws.con /\ ws.self /\ closes = 0
  /\ phase = "accepted" => ws.con
  /\ phase = "connecting" => /\ ws.con /\ ~ws.pending
                             /\ \E k \in Connecting : ws.io = Only(k)
  /\ phase # "connecting" => Guarded(ws, net, Thrown)
  /\ phase = "up" => Acts(ws, net, Thrown)
  /\ phase # "up" => cur = "none"

(* In the middle of a frame the rest of that frame is what is awaited. *)
InFrameRead ==
  cur # "none" /\ net # "dead" /\ ws.con => \E k \in InFrame : ws.io = Only(k)

IInv == Types /\ Phases /\ InFrameRead /\ CloseOnce

LEMMA InitIInv == Init => IInv
<1> SUFFICES ASSUME Init PROVE IInv
  OBVIOUS
<1>1. WsInit \in Conn /\ WsInit.io = NoIO /\ ~WsInit.con /\ ~WsInit.pending /\ WsInit.self
  <2>1. NoIO \in [IOKind -> Nat]
    BY IOCounters
  <2>2. <<>> \in Seq(Nat) /\ "cont" \in Opcode
    BY DEF Opcode
  <2>. QED
    BY <2>1, <2>2 DEF WsInit, Conn
<1>2. Types
  <2>1. <<>> \in Seq(Nat)
    OBVIOUS
  <2>2. NoThrow \in Throws
    BY DEF NoThrow, Throws
  <2>. QED
    BY <1>1, <2>1, <2>2 DEF Init, Types, Phase, Cur
<1>3. closes = 0 /\ threw.onClose = 0
  BY DEF Init, NoThrow
<1>. QED
  BY <1>1, <1>2, <1>3 DEF Init, IInv, Guarded, Phases, InFrameRead, CloseOnce, Idle

(* The two ends of onClose_: the object is disposed, or a handler threw    *)
(* and it stays as it was, but for what the handler sent.                  *)
Disposed ==
  /\ ws' \in Conn /\ ~ws'.con /\ ~ws'.self /\ ws'.io = NoIO
  /\ sent' \in Nat /\ closes' \in Nat /\ threw' \in Throws
  /\ closes' + threw.onClose = closes + 1 + threw'.onClose

Survives(c) ==
  /\ ws' \in Conn /\ ws'.con = c.con /\ ws'.self = c.self /\ Guarded(ws', "up", FALSE)
  /\ sent' \in Nat /\ closes' \in Nat /\ closes' # 0 /\ threw' \in Throws /\ Thrown'
  /\ closes' + threw.onClose = closes + threw'.onClose

LEMMA OnCloseEnds ==
  ASSUME IInv, NEW c \in Conn, Idle(c), NEW s \in Nat, NEW k \in Nat, OnClose(c, s, k)
  PROVE  Disposed \/ Survives(c)
<1>1. /\ closes \in Nat /\ closes' = closes + k + 1
      /\ threw \in Throws
  BY DEF OnClose, IInv, Types
<1>2. \A n \in Sends(s) :
        LET d == Handler(c, s, n)
        IN /\ d \in Conn /\ d.con = c.con /\ d.self = c.self /\ Guarded(d, "up", FALSE)
           /\ s + n \in Nat
  <2>1. TAKE n \in Sends(s)
  <2> DEFINE d == Handler(c, s, n)
  <2>2. d \in Conn /\ d.con = c.con /\ d.self = c.self /\ Guarded(d, "up", FALSE)
    BY IdleGuarded, HandlerGuarded
  <2>3. s + n \in Nat
    BY DEF Sends
  <2> HIDE DEF d
  <2>. QED
    BY <2>2, <2>3 DEF d
<1>3. CASE Closing(c, s) /\ threw' = [threw EXCEPT !.onClose = @ + k]
  <2>1. threw' \in Throws /\ threw'.onClose = threw.onClose + k /\ threw.onClose \in Nat
    BY <1>1, <1>3 DEF Throws
  <2>2. PICK n \in Sends(s) : /\ ws' = Dispose(Handler(c, s, n))
                              /\ sent' = IF c.con THEN s + n ELSE s
    BY <1>3 DEF Closing
  <2>3. ws' \in Conn /\ ~ws'.con /\ ~ws'.self /\ ws'.io = NoIO /\ sent' \in Nat
    BY <1>2, <2>2, DisposeGuarded
  <2>. QED
    BY <1>1, <2>1, <2>3 DEF Disposed
<1>4. CASE CloseThrows(c, s) /\ threw' = [threw EXCEPT !.onClose = @ + k + 1]
  <2>1. /\ threw' \in Throws /\ threw'.onClose = threw.onClose + k + 1
        /\ threw.onClose \in Nat /\ threw'.onClose # 0
    BY <1>1, <1>4 DEF Throws
  <2>2. PICK n \in Sends(s) : /\ ws' = Handler(c, s, n)
                              /\ sent' = IF c.con THEN s + n ELSE s
    BY <1>4 DEF CloseThrows
  <2>3. Thrown'
    BY <2>1 DEF Thrown, NoThrow
  <2>4. /\ ws' \in Conn /\ ws'.con = c.con /\ ws'.self = c.self
        /\ Guarded(ws', "up", FALSE) /\ sent' \in Nat
    BY <1>2, <2>2
  <2>5. /\ closes' \in Nat /\ closes' # 0
        /\ closes' + threw.onClose = closes + threw'.onClose
    BY <1>1, <2>1
  <2>. QED
    BY <2>1, <2>3, <2>4, <2>5 DEF Survives
<1>. QED
  BY <1>3, <1>4 DEF OnClose

(* A CLOSE frame: what onClose_ throws first calls it again. *)
LEMMA ClosedByPeerEnds ==
  ASSUME IInv, NEW c \in Conn, c.io = NoIO, c.pending, ClosedByPeer(c)
  PROVE  Disposed \/ Survives(c)
<1>1. sent \in Nat /\ closes \in Nat /\ threw \in Throws
  BY DEF IInv, Types
<1>2. \A n \in Sends(sent) :
        LET d == Handler(c, sent, n)
        IN /\ d \in Conn /\ d.con = c.con /\ d.self = c.self /\ Guarded(d, "dead", FALSE)
           /\ d.io = NoIO /\ sent + n \in Nat
  <2>1. TAKE n \in Sends(sent)
  <2> DEFINE d == Handler(c, sent, n)
  <2>2. \A t \in BOOLEAN : Guarded(c, "dead", t)
    BY DEF Guarded
  <2>3. d \in Conn /\ d.con = c.con /\ d.self = c.self /\ Guarded(d, "dead", FALSE)
    BY <1>1, <2>2, HandlerGuarded
  <2>4. d.io = NoIO /\ sent + n \in Nat
    BY <1>1, HandlerWaits DEF Sends
  <2> HIDE DEF d
  <2>. QED
    BY <2>3, <2>4 DEF d
<1>3. CASE Closing(c, sent) /\ closes' = closes + 1 /\ UNCHANGED threw
  <2>1. PICK n \in Sends(sent) : /\ ws' = Dispose(Handler(c, sent, n))
                                 /\ sent' = IF c.con THEN sent + n ELSE sent
    BY <1>3 DEF Closing
  <2>2. ws' \in Conn /\ ~ws'.con /\ ~ws'.self /\ ws'.io = NoIO /\ sent' \in Nat
    BY <1>1, <1>2, <2>1, DisposeGuarded
  <2>. QED
    BY <1>1, <1>3, <2>2 DEF Disposed, Throws
<1>4. ASSUME NEW n \in Sends(sent),
             OnClose([Handler(c, sent, n) EXCEPT !.pending = FALSE], sent + n, 1)
      PROVE  Disposed \/ Survives(c)
  <2> DEFINE d == Handler(c, sent, n)
             e == [d EXCEPT !.pending = FALSE]
  <2>1. d \in Conn /\ d.con = c.con /\ d.self = c.self /\ d.io = NoIO /\ sent + n \in Nat
    BY <1>2
  <2> HIDE DEF d
  <2>2. e \in Conn /\ Idle(e) /\ e.con = c.con /\ e.self = c.self
    BY <2>1 DEF Conn, Idle
  <2>3. OnClose(e, sent + n, 1)
    BY <1>4 DEF d
  <2> HIDE DEF e
  <2>4. Disposed \/ Survives(e)
    BY <2>1, <2>2, <2>3, OnCloseEnds
  <2>. QED
    BY <2>2, <2>4 DEF Survives
<1>. QED
  BY <1>3, <1>4 DEF ClosedByPeer

(* A step that ends so re-establishes the invariant, whatever else it      *)
(* changes, if it is not in the middle of a frame of a live network.       *)
LEMMA EndsIInv ==
  ASSUME IInv, NEW c, c.con = ws.con, c.self = ws.self, c.con \/ c.self,
         Disposed \/ Survives(c),
         phase' = "up", net' \in {"up", "broken", "dead"}, cur = "none" \/ net' = "dead",
         UNCHANGED <<role, peerVars, wire, seenVars>>
  PROVE  IInv'
<1>1. /\ closes \in Nat /\ threw \in Throws /\ threw.onClose \in Nat
      /\ closes = threw.onClose
  BY DEF IInv, Types, Throws, CloseOnce
<1>2. Types'
  BY DEF IInv, Types, Disposed, Survives, Phase, peerVars, seenVars
<1>3. threw'.onClose \in Nat /\ closes' \in Nat
  BY <1>2 DEF Types, Throws
<1>4. CASE Disposed
  <2>1. Phases'
    BY <1>4 DEF Disposed, Phases, Acts, Guarded
  <2>2. InFrameRead'
    BY <1>4 DEF Disposed, InFrameRead
  <2>3. CloseOnce'
    BY <1>1, <1>3, <1>4 DEF Disposed, CloseOnce
  <2>. QED
    BY <1>2, <2>1, <2>2, <2>3 DEF IInv
<1>5. CASE Survives(c)
  <2>1. Guarded(ws', net', Thrown') /\ Acts(ws', net', Thrown')
    BY <1>5 DEF Survives, Guarded, Acts, Thrown
  <2>2. Phases'
    BY <2>1 DEF Phases
  <2>3. InFrameRead'
    BY DEF InFrameRead, peerVars
  <2>4. CloseOnce'
    BY <1>1, <1>3, <1>5 DEF Survives, CloseOnce
  <2>. QED
    BY <1>2, <2>2, <2>3, <2>4 DEF IInv
<1>. QED
  BY <1>4, <1>5

(* A step of an open connection re-establishes it if the new object is     *)
(* guarded, acts, and still awaits the rest of a frame begun.              *)
LEMMA OpenIInv ==
  ASSUME IInv, Types', phase' = "up", ws.con, ws'.con,
         closes' = closes, threw'.onClose = threw.onClose,
         Guarded(ws', net', Thrown'), Acts(ws', net', Thrown'),
         cur' = "none" \/ net' = "dead" \/ \E k \in InFrame : ws'.io = Only(k)
  PROVE  IInv'
  BY DEF IInv, Phases, InFrameRead, CloseOnce

(* What no handler can have thrown in is as if none ever threw. *)
LEMMA CarefulIsGuarded ==
  ASSUME NEW c, NEW nt, Guarded(c, nt, FALSE), Acts(c, nt, FALSE), NEW t \in BOOLEAN
  PROVE  Guarded(c, nt, t) /\ Acts(c, nt, t)
  BY DEF Guarded, Acts

-----------------------------------------------------------------------------
(* The steps: opening. *)

LEMMA Opened ==
  ASSUME IInv, NEW k \in Connecting, ws.io[k] > 0
  PROVE  /\ ws \in Conn /\ phase = "connecting" /\ ws.con /\ ~ws.pending
         /\ ws.io = Only(k) /\ cur = "none"
<1>1. ws \in Conn /\ k \in IOKind /\ Thrown \in BOOLEAN
  BY IOKinds DEF IInv, Types, Thrown
<1>2. ws.io # NoIO
  BY <1>1, IOCounters
<1>3. phase = "connecting"
  BY <1>1, <1>2, OneAtATime DEF IInv, Phases, Idle
<1>4. PICK l \in Connecting : ws.io = Only(l)
  BY <1>3 DEF IInv, Phases
<1>5. l = k
  BY <1>1, <1>4, IOCounters, IOKinds
<1>. QED
  BY <1>1, <1>3, <1>4, <1>5 DEF IInv, Phases

(* send_msg() behind a handler, in a callback whose operation is over. *)
LEMMA HandledAndSent ==
  ASSUME NEW c \in Conn, Idle(c), c.con, NEW s \in Nat, NEW n, NEW nt, NEW t \in BOOLEAN
  PROVE  LET d == SendMsg(Handler(c, s, n))
         IN d \in Conn /\ d.con /\ Guarded(d, nt, t) /\ Acts(d, nt, t)
<1> DEFINE e == Handler(c, s, n)
<1>1. e \in Conn /\ e.con /\ Guarded(e, nt, FALSE)
  BY IdleGuarded, HandlerGuarded
<1> HIDE DEF e
<1>2. /\ SendMsg(e) \in Conn /\ SendMsg(e).con
      /\ Guarded(SendMsg(e), nt, FALSE) /\ Acts(SendMsg(e), nt, FALSE)
  BY <1>1, SendMsgGuarded
<1>. QED
  BY <1>2, CarefulIsGuarded DEF e

LEMMA OpeningIInv ==
  ASSUME IInv, Opening
  PROVE  IInv'
<1>0. ws \in Conn /\ sent \in Nat /\ Thrown \in BOOLEAN
  BY DEF IInv, Types, Thrown
<1>1. CASE Handshake
  <2>1. /\ Idle(ws) /\ ~ws.con /\ ws.self /\ closes = threw.onClose /\ cur = "none"
    BY <1>1 DEF IInv, Phases, Handshake, CloseOnce, Types, Throws
  <2>2. ws' \in Conn /\ ws'.con /\ ws'.io = ws.io /\ ws'.pending = ws.pending
    BY <1>1 DEF IInv, Types, Conn, Handshake
  <2>3. Types'
    BY <1>1, <2>2 DEF IInv, Types, Handshake, Phase, peerVars, seenVars, endVars
  <2>4. Idle(ws') /\ Thrown' = Thrown /\ Guarded(ws', net', Thrown')
    BY <1>0, <1>1, <2>1, <2>2, IdleGuarded DEF Idle, Handshake, endVars, Thrown
  <2>5. Phases'
    BY <1>1, <2>1, <2>2, <2>4 DEF Phases, Handshake, peerVars
  <2>. QED
    BY <1>1, <2>1, <2>2, <2>3, <2>5 DEF IInv, Handshake, InFrameRead, CloseOnce,
                                         peerVars, endVars
<1>2. CASE Run
  <2>1. PICK n \in Sends(sent) : /\ ws' = SendMsg(Handler(ws, sent, n))
                                 /\ sent' = sent + n
    BY <1>2 DEF Run
  <2>2. Idle(ws) /\ ws.con /\ cur = "none"
    BY <1>2 DEF IInv, Phases, Run
  <2>3. ws' \in Conn /\ ws'.con /\ Guarded(ws', net, Thrown) /\ Acts(ws', net, Thrown)
    BY <1>0, <2>1, <2>2, HandledAndSent
  <2>4. Types'
    BY <1>2, <2>1, <2>3 DEF IInv, Types, Run, Phase, Sends, peerVars, seenVars, endVars
  <2>5. Thrown' = Thrown
    BY <1>2 DEF Run, endVars, Thrown
  <2>. QED
    BY <1>2, <2>2, <2>3, <2>4, <2>5, OpenIInv DEF Run, peerVars, endVars
<1>3. CASE AnswerFails \/ BadUrl
  <2>1. Types'
    BY <1>3 DEF IInv, Types, AnswerFails, BadUrl, Phase, peerVars, seenVars, endVars
  <2>2. Idle(ws) /\ Guarded(ws, net, Thrown) /\ Thrown' = Thrown
    BY <1>3 DEF IInv, Phases, AnswerFails, BadUrl, endVars, Thrown
  <2>. QED
    BY <1>3, <2>1, <2>2 DEF IInv, AnswerFails, BadUrl, Phases, InFrameRead,
                            CloseOnce, peerVars, endVars
<1>4. CASE Connected
  <2> DEFINE c == [ws EXCEPT !.con = TRUE]
  <2>1. /\ Idle(ws) /\ ws.self /\ closes = threw.onClose /\ cur = "none"
    BY <1>4 DEF IInv, Phases, Connected, CloseOnce, Types, Throws
  <2>2. c \in Conn /\ c.con /\ c.io = NoIO /\ ~c.pending
    BY <2>1 DEF IInv, Types, Conn, Idle
  <2> HIDE DEF c
  <2>3. ws' = Issue(c, "hsWrite")
    BY <1>4 DEF Connected, c
  <2>4. ws' \in Conn /\ ws'.con /\ ws'.io = Only("hsWrite") /\ ~ws'.pending
    BY <2>2, <2>3, IssueOne, IOKinds
  <2>5. Types'
    BY <1>4, <2>4 DEF IInv, Types, Connected, Phase, peerVars, seenVars, endVars
  <2>6. /\ phase' = "connecting" /\ cur' = "none"
        /\ closes' = closes /\ threw'.onClose = threw.onClose
    BY <1>4, <2>1 DEF Connected, peerVars, endVars
  <2>. QED
    BY <2>1, <2>4, <2>5, <2>6 DEF IInv, Phases, InFrameRead, CloseOnce, Connecting
<1>5. CASE ConnectFails
  <2>1. Idle(ws) /\ ws.self /\ cur = "none" /\ OnClose(ws, sent, 0)
    BY <1>5 DEF IInv, Phases, ConnectFails
  <2>2. Disposed \/ Survives(ws)
    BY <1>0, <2>1, OnCloseEnds
  <2>. QED
    BY <1>5, <2>1, <2>2, EndsIInv DEF ConnectFails, IInv, Types
<1>6. CASE RequestWritten
  <2>1. /\ ws \in Conn /\ phase = "connecting" /\ ws.con /\ ~ws.pending
        /\ ws.io = Only("hsWrite") /\ cur = "none"
    BY <1>6, Opened, IOKinds DEF RequestWritten, Connecting
  <2> DEFINE c == Finish(ws, "hsWrite")
  <2>2. c \in Conn /\ c.con /\ ~c.pending /\ c.io = NoIO
    BY <2>1, FinishOnly, IOKinds
  <2> HIDE DEF c
  <2>3. ws' = Issue(c, "hsRead")
    BY <1>6 DEF RequestWritten, c
  <2>4. ws' \in Conn /\ ws'.con /\ ws'.io = Only("hsRead") /\ ~ws'.pending
    BY <2>2, <2>3, IssueOne, IOKinds
  <2>5. Types'
    BY <1>6, <2>4 DEF IInv, Types, RequestWritten, Phase, peerVars, seenVars, endVars
  <2>. QED
    BY <1>6, <2>1, <2>4, <2>5 DEF IInv, RequestWritten, Phases, InFrameRead, CloseOnce,
                                  Connecting, peerVars, endVars
<1>7. CASE ResponseRead
  <2>1. /\ phase = "connecting" /\ ws.con /\ ~ws.pending
        /\ ws.io = Only("hsRead") /\ cur = "none"
    BY <1>7, Opened, IOKinds DEF ResponseRead, Connecting
  <2>2. PICK n \in Sends(sent) : /\ ws' = SendMsg(Handler(Finish(ws, "hsRead"), sent, n))
                                 /\ sent' = sent + n
    BY <1>7 DEF ResponseRead
  <2> DEFINE c == Finish(ws, "hsRead")
  <2>3. c \in Conn /\ c.con /\ Idle(c)
    BY <1>0, <2>1, FinishOnly, IOKinds DEF Idle
  <2>4. ws' = SendMsg(Handler(c, sent, n))
    BY <2>2
  <2> HIDE DEF c
  <2>5. ws' \in Conn /\ ws'.con /\ Guarded(ws', net, Thrown) /\ Acts(ws', net, Thrown)
    BY <1>0, <2>3, <2>4, HandledAndSent
  <2>6. Types'
    BY <1>7, <2>2, <2>5
       DEF IInv, Types, ResponseRead, Phase, Sends, peerVars, seenVars, endVars
  <2>7. Thrown' = Thrown
    BY <1>7 DEF ResponseRead, endVars, Thrown
  <2>. QED
    BY <1>7, <2>1, <2>5, <2>6, <2>7, OpenIInv DEF ResponseRead, peerVars, endVars
<1>8. CASE OpeningFails
  <2>1. PICK k \in Connecting : ws.io[k] > 0 /\ OnClose(Finish(ws, k), sent, 0)
    BY <1>8 DEF OpeningFails
  <2>2. ws.con /\ ~ws.pending /\ ws.io = Only(k) /\ cur = "none"
    BY <2>1, Opened
  <2> DEFINE c == Finish(ws, k)
  <2>3. c \in Conn /\ Idle(c) /\ c.con = ws.con /\ c.self = ws.self
    <3>1. k \in IOKind
      BY IOKinds
    <3>2. /\ c \in Conn /\ c.io = NoIO /\ c.con = ws.con /\ c.self = ws.self
          /\ c.pending = ws.pending
      BY <1>0, <2>2, <3>1, FinishOnly
    <3>. QED
      BY <2>2, <3>2 DEF Idle
  <2>4. OnClose(c, sent, 0)
    BY <2>1
  <2> HIDE DEF c
  <2>5. Disposed \/ Survives(c)
    BY <1>0, <2>3, <2>4, OnCloseEnds
  <2>. QED
    BY <1>8, <2>2, <2>3, <2>5, EndsIInv DEF OpeningFails
<1>. QED
  BY <1>1, <1>2, <1>3, <1>4, <1>5, <1>6, <1>7, <1>8 DEF Opening

-----------------------------------------------------------------------------
(* The steps: receiving. *)

LEMMA Awaited ==
  ASSUME IInv, NEW k \in IOKind \ Connecting, ws.io[k] > 0
  PROVE  /\ ws \in Conn /\ phase = "up" /\ ws.con
         /\ ws.io = Only(k) /\ ((ws.pending <=> k # "frame") \/ k = "write")
         /\ Guarded(ws, net, Thrown)
         /\ k \in {"frame", "write"} => cur = "none" \/ net = "dead"
<1>1. ws \in Conn /\ Thrown \in BOOLEAN
  BY DEF IInv, Types, Thrown
<1>2. ws.io # NoIO
  BY <1>1, IOCounters
<1>3. phase # "connecting"
  <2>1. SUFFICES ASSUME phase = "connecting" PROVE FALSE
    OBVIOUS
  <2>2. PICK l \in Connecting : ws.io = Only(l)
    BY <2>1 DEF IInv, Phases
  <2>. QED
    BY <2>2, IOCounters, IOKinds
<1>4. phase = "up"
  BY <1>2, <1>3 DEF IInv, Types, Phases, Phase, Idle
<1>5. /\ ws.io = Only(k) /\ ((ws.pending <=> k # "frame") \/ k = "write")
      /\ ws.con /\ Guarded(ws, net, Thrown)
  BY <1>1, <1>3, OneAtATime DEF IInv, Phases
<1>6. ASSUME k \in {"frame", "write"}, cur # "none", net # "dead" PROVE FALSE
  <2>1. PICK l \in InFrame : ws.io = Only(l)
    BY <1>5, <1>6 DEF IInv, InFrameRead
  <2>2. l = k
    BY <1>5, <2>1, <1>1, IOCounters, IOKinds
  <2>. QED
    BY <2>2, <1>6 DEF InFrame
<1>. QED
  BY <1>1, <1>4, <1>5, <1>6

(* The object once the awaited operation has called back. *)
LEMMA CalledBack ==
  ASSUME IInv, NEW k \in IOKind \ Connecting, ws.io[k] > 0
  PROVE  LET c == Finish(ws, k)
         IN /\ c = [ws EXCEPT !.io = NoIO] /\ c \in Conn /\ c.io = NoIO
            /\ c.con /\ c.self = ws.self /\ c.sendq = ws.sendq
            /\ (c.pending <=> k # "frame") \/ k = "write"
  BY Awaited, FinishOnly

LEMMA HeaderOK ==
  ASSUME NEW c \in Conn, NEW f \in Frame, role \in {"server", "client"}
  PROVE  LET d == Header(c, f)
         IN /\ d \in Conn /\ d.con = c.con /\ d.self = c.self /\ d.io = c.io
            /\ d.pending
            /\ ParseLen(d, f) \in Conn /\ ParseLen(d, f).con = c.con
            /\ ParseLen(d, f).io = c.io /\ ParseLen(d, f).pending
<1>1. ParseOpcode(c, f) \in Opcode /\ f.fin \in BOOLEAN /\ f.long \in BOOLEAN
  BY DEF ParseOpcode, Conn, Frame
<1>2. Header(c, f) \in Conn /\ Header(c, f).con = c.con /\ Header(c, f).io = c.io
      /\ Header(c, f).pending /\ Header(c, f).self = c.self
  BY <1>1 DEF Header, Conn
<1>3. \A d \in Conn : /\ ParseLen(d, f) \in Conn /\ ParseLen(d, f).con = d.con
                      /\ ParseLen(d, f).io = d.io /\ ParseLen(d, f).pending = d.pending
  BY <1>1 DEF ParseLen, Conn
<1>. QED
  BY <1>2, <1>3

LEMMA ReadLenOne ==
  ASSUME NEW c \in Conn, c.io = NoIO, c.con, c.pending, NEW nt, NEW t \in BOOLEAN
  PROVE  LET d == ReadLen(c)
         IN /\ d \in Conn /\ d.con /\ Guarded(d, nt, t) /\ Acts(d, nt, t)
            /\ \E k \in InFrame : d.io = Only(k)
<1>1. PICK k \in InFrame : ReadLen(c) = Issue(c, k)
  BY DEF ReadLen, ReadMaskOrMsg, InFrame
<1>2. k \in IOKind /\ k # "frame"
  BY IOKinds DEF InFrame
<1>3. /\ Issue(c, k) \in Conn /\ Issue(c, k).io = Only(k)
      /\ Issue(c, k).con /\ Issue(c, k).pending
  BY <1>2, IssueOne
<1>. QED
  BY <1>1, <1>2, <1>3, OnlyCounts DEF Guarded, Acts

LEMMA FrameReadIInv == ASSUME IInv, FrameRead PROVE IInv'
<1>1. PICK f \in Frame :
        IF ParseOpcode(ws, f) = "close" THEN CloseFrame(f) ELSE OtherFrame(f)
  BY DEF FrameRead
<1> DEFINE c == Finish(ws, "frame")
           h == Header(c, f)
<1>2. "frame" \in IOKind \ Connecting /\ ws.io["frame"] > 0
  BY IOKinds DEF Connecting, FrameRead
<1>3. c \in Conn /\ c.io = NoIO /\ c.con /\ c.self = ws.self
  BY <1>2, CalledBack
<1>4. phase = "up" /\ ws.con /\ cur = "none"
  BY <1>2, Awaited DEF FrameRead
<1> HIDE DEF c
<1>5. role \in {"server", "client"} /\ Thrown \in BOOLEAN
  BY DEF IInv, Types, Thrown
<1>6. /\ h \in Conn /\ h.io = NoIO /\ h.con /\ h.self = ws.self /\ h.pending
      /\ ParseLen(h, f) \in Conn /\ ParseLen(h, f).con
      /\ ParseLen(h, f).io = NoIO /\ ParseLen(h, f).pending
  BY <1>3, <1>5, HeaderOK
<1>7. CASE CloseFrame(f)
  <2>1. ClosedByPeer(h)
    BY <1>7 DEF CloseFrame, c
  <2> HIDE DEF h
  <2>2. Disposed \/ Survives(h)
    BY <1>6, <2>1, ClosedByPeerEnds
  <2>3. UNCHANGED <<role, peerVars, wire, seenVars>> /\ phase' = "up"
        /\ net' \in {"up", "broken", "dead"}
    BY <1>4, <1>7 DEF CloseFrame, FrameRead, peerVars, IInv, Types
  <2>. QED
    BY <1>4, <1>6, <2>2, <2>3, EndsIInv
<1>8. CASE OtherFrame(f)
  <2> DEFINE l == ParseLen(h, f)
  <2>1. ws' = ReadLen(l)
    BY <1>8 DEF OtherFrame, c
  <2> HIDE DEF h, l
  <2>2. /\ ws' \in Conn /\ ws'.con /\ Guarded(ws', net', Thrown) /\ Acts(ws', net', Thrown)
        /\ \E k \in InFrame : ws'.io = Only(k)
    BY <1>5, <1>6, <2>1, ReadLenOne DEF l
  <2>3. /\ cur' \in Cur /\ mixed' \in BOOLEAN /\ peerMsg' \in Seq(Nat)
    <3>1. rx + 1 \in Nat /\ peerMsg \in Seq(Nat) /\ mixed \in BOOLEAN
      BY DEF IInv, Types
    <3>2. Append(peerMsg, rx + 1) \in Seq(Nat)
      BY <3>1
    <3>. QED
      BY <1>8, <3>1, <3>2 DEF OtherFrame, CurOf, Cur, Control
  <2>4. Types'
    BY <1>4, <1>8, <2>2, <2>3
       DEF IInv, Types, FrameRead, OtherFrame, Phase, seenVars, endVars
  <2>5. Thrown' = Thrown
    BY <1>8 DEF OtherFrame, endVars, Thrown
  <2>. QED
    BY <1>4, <1>8, <2>2, <2>4, <2>5, OpenIInv DEF FrameRead, OtherFrame, endVars
<1>. QED
  BY <1>1, <1>7, <1>8

(* The failures that leave the connection as it is. *)
LEMMA FailsIInv ==
  ASSUME IInv, NEW k \in InFrame, ws.io[k] > 0, ws' \in Conn, ws'.con, ws'.io = NoIO,
         net' = "dead",
         UNCHANGED <<role, phase, peerVars, sent, wire, seenVars, endVars>>
  PROVE  IInv'
<1>1. k \in IOKind \ Connecting
  BY IOKinds DEF InFrame, Connecting
<1>2. phase = "up" /\ ws.con
  BY <1>1, Awaited
<1>3. Types'
  BY <1>2 DEF IInv, Types, peerVars, seenVars, endVars
<1>4. Guarded(ws', net', Thrown') /\ Acts(ws', net', Thrown')
  BY DEF Guarded, Acts
<1>. QED
  BY <1>2, <1>3, <1>4, OpenIInv DEF endVars

LEMMA ReadFailsIInv ==
  ASSUME IInv, FrameFails \/ LenFails \/ MaskFails \/ MsgFails PROVE IInv'
<1>1. CASE FrameFails
  <2> DEFINE c == Finish(ws, "frame")
             d == [c EXCEPT !.pending = FALSE]
  <2>1. "frame" \in IOKind \ Connecting /\ ws.io["frame"] > 0
    BY <1>1, IOKinds DEF Connecting, FrameFails
  <2>2. /\ c \in Conn /\ c.io = NoIO /\ c.con = ws.con /\ c.self = ws.self
        /\ ws.con /\ phase = "up" /\ sent \in Nat
    BY <2>1, CalledBack, Awaited DEF IInv, Types
  <2>3. OnClose(d, sent, 0)
    BY <1>1 DEF FrameFails
  <2> HIDE DEF c
  <2>4. d \in Conn /\ Idle(d) /\ d.con = ws.con /\ d.self = ws.self
    BY <2>2 DEF Conn, Idle
  <2> HIDE DEF d
  <2>5. Disposed \/ Survives(d)
    BY <2>2, <2>3, <2>4, OnCloseEnds
  <2>. QED
    BY <1>1, <2>2, <2>4, <2>5, EndsIInv DEF FrameFails
<1>2. CASE LenFails
  <2>1. "len" \in IOKind \ Connecting /\ "len" \in InFrame /\ ws.io["len"] > 0
    BY <1>2, IOKinds DEF Connecting, InFrame, LenFails
  <2> DEFINE c == Finish(ws, "len")
  <2>2. c \in Conn /\ c.io = NoIO /\ c.con
    BY <2>1, CalledBack
  <2>3. ws' = [c EXCEPT !.pending = FALSE]
    BY <1>2 DEF LenFails
  <2> HIDE DEF c
  <2>4. ws' \in Conn /\ ws'.io = NoIO /\ ws'.con
    BY <2>2, <2>3 DEF Conn
  <2>. QED
    BY <1>2, <2>1, <2>4, FailsIInv DEF LenFails
<1>3. CASE MaskFails
  <2>1. "mask" \in IOKind \ Connecting /\ "mask" \in InFrame /\ ws.io["mask"] > 0
    BY <1>3, IOKinds DEF Connecting, InFrame, MaskFails
  <2>2. ws' \in Conn /\ ws'.io = NoIO /\ ws'.con
    BY <1>3, <2>1, CalledBack DEF MaskFails
  <2>. QED
    BY <1>3, <2>1, <2>2, FailsIInv DEF MaskFails
<1>4. CASE MsgFails
  <2>1. "msg" \in IOKind \ Connecting /\ "msg" \in InFrame /\ ws.io["msg"] > 0
    BY <1>4, IOKinds DEF Connecting, InFrame, MsgFails
  <2> DEFINE c == Finish(ws, "msg")
  <2>2. c \in Conn /\ c.io = NoIO /\ c.con
    BY <2>1, CalledBack
  <2>3. ws' = [c EXCEPT !.pending = FALSE, !.self = FALSE]
    BY <1>4 DEF MsgFails
  <2> HIDE DEF c
  <2>4. ws' \in Conn /\ ws'.io = NoIO /\ ws'.con
    BY <2>2, <2>3 DEF Conn
  <2>. QED
    BY <1>4, <2>1, <2>4, FailsIInv DEF MsgFails
<1>. QED
  BY <1>1, <1>2, <1>3, <1>4

LEMMA LenReadIInv == ASSUME IInv, LenRead \/ MaskRead PROVE IInv'
<1>1. PICK k \in {"len", "mask"} : ws.io[k] > 0
  BY DEF LenRead, MaskRead
<1>2. k \in IOKind \ Connecting /\ k # "frame"
  BY IOKinds DEF Connecting
<1>3. phase = "up" /\ ws.con /\ Thrown' = Thrown /\ Thrown \in BOOLEAN
  BY <1>1, <1>2, Awaited DEF LenRead, MaskRead, endVars, Thrown
<1>4. PICK l \in InFrame : \E j \in {"len", "mask"} : /\ ws.io[j] > 0
                                                    /\ ws' = Issue(Finish(ws, j), l)
  BY DEF LenRead, MaskRead, ReadMaskOrMsg, InFrame
<1>5. PICK j \in {"len", "mask"} : ws.io[j] > 0 /\ ws' = Issue(Finish(ws, j), l)
  BY <1>4
<1> DEFINE c == Finish(ws, j)
<1>6. j \in IOKind \ Connecting /\ j # "frame" /\ j # "write"
  BY IOKinds DEF Connecting
<1>7. c \in Conn /\ c.io = NoIO /\ c.con /\ c.pending
  BY <1>5, <1>6, CalledBack
<1> HIDE DEF c
<1>8. l \in IOKind /\ l # "frame"
  BY IOKinds DEF InFrame
<1>9. ws' \in Conn /\ ws'.io = Only(l) /\ ws'.con /\ ws'.pending
  BY <1>5, <1>7, <1>8, IssueOne DEF c
<1>10. Guarded(ws', net', Thrown') /\ Acts(ws', net', Thrown')
  BY <1>8, <1>9, OnlyCounts DEF Guarded, Acts
<1>11. /\ Types' /\ phase' = "up" /\ closes' = closes
       /\ threw'.onClose = threw.onClose
  BY <1>3, <1>9 DEF IInv, Types, LenRead, MaskRead, Phase, peerVars, seenVars, endVars
<1>. QED
  BY <1>3, <1>9, <1>10, <1>11, OpenIInv

(* A whole frame read: the payload joins msg_ and onMsg_ or a PONG follows. *)
LEMMA PayloadOK ==
  ASSUME IInv, ws.io["msg"] > 0
  PROVE  LET c == Payload(ws)
         IN /\ c \in Conn /\ c.io = NoIO /\ c.con /\ ~c.pending
            /\ c.msg = Append(ws.msg, rx + 1)
<1> DEFINE c == Finish(ws, "msg")
<1>1. "msg" \in IOKind \ Connecting
  BY IOKinds DEF Connecting
<1>2. c \in Conn /\ c.io = NoIO /\ c.con /\ c = [ws EXCEPT !.io = NoIO]
  BY <1>1, CalledBack
<1>3. ws \in Conn /\ rx + 1 \in Nat
  BY DEF IInv, Types
<1>4. c.msg = ws.msg
  BY <1>2, <1>3 DEF Conn
<1>5. Append(c.msg, rx + 1) \in Seq(Nat)
  BY <1>2, <1>3 DEF Conn
<1>6. Payload(ws) = [c EXCEPT !.pending = FALSE, !.msg = Append(c.msg, rx + 1)]
  BY DEF Payload
<1> HIDE DEF c
<1>. QED
  BY <1>2, <1>4, <1>5, <1>6 DEF Conn

LEMMA OnMsgOK ==
  ASSUME NEW c \in Conn, Idle(c), c.con, sent \in Nat, NEW n, NEW nt, NEW t \in BOOLEAN
  PROVE  LET d == OnMsg(c, n)
         IN d \in Conn /\ d.con /\ Guarded(d, nt, t) /\ Acts(d, nt, t)
<1> DEFINE d == Handler(c, sent, n)
           e == [d EXCEPT !.msg = <<>>]
<1>1. d \in Conn /\ Guarded(d, nt, FALSE) /\ d.con
  BY IdleGuarded, HandlerGuarded
<1> HIDE DEF d
<1>2. e \in Conn /\ e.io = d.io /\ e.pending = d.pending /\ e.con = d.con
  <2>1. <<>> \in Seq(Nat)
    OBVIOUS
  <2>. QED
    BY <1>1, <2>1 DEF Conn
<1>3. OnMsg(c, n) = SendMsg(e)
  BY DEF OnMsg, d
<1> HIDE DEF e
<1>4. Guarded(e, nt, FALSE)
  BY <1>1, <1>2 DEF Guarded
<1>5. /\ SendMsg(e) \in Conn /\ SendMsg(e).con
      /\ Guarded(SendMsg(e), nt, FALSE) /\ Acts(SendMsg(e), nt, FALSE)
  BY <1>1, <1>2, <1>4, SendMsgGuarded
<1>. QED
  BY <1>3, <1>5, CarefulIsGuarded

(* onMsg_ throws: what it sent is being written, and pending_ is clear. *)
LEMMA OnMsgThrowsOK ==
  ASSUME NEW c \in Conn, Idle(c), c.con, sent \in Nat, NEW n, NEW nt
  PROVE  LET d == OnMsgThrows(c, n)
         IN d \in Conn /\ d.con /\ Guarded(d, nt, TRUE) /\ Acts(d, nt, TRUE)
<1> DEFINE d == Handler(c, sent, n)
           e == [d EXCEPT !.pending = FALSE, !.self = FALSE]
<1>1. d.io = NoIO \/ d.io = Only("write")
  <2>1. CASE n = 0
    BY <2>1 DEF Handler, Idle
  <2>2. CASE n # 0
    <3> DEFINE b == [c EXCEPT !.sendq = Append(@, sent + 1)]
    <3>1. Append(c.sendq, sent + 1) \in Seq(Nat) /\ Append(c.sendq, sent + 1) # <<>>
      <4>1. sent + 1 \in Nat /\ c.sendq \in Seq(Nat)
        BY DEF Conn
      <4>. QED
        BY <4>1, AppendProperties
    <3>2. /\ b \in Conn /\ b.con /\ b.io = NoIO /\ ~b.pending
          /\ b.sendq = Append(c.sendq, sent + 1)
      BY <3>1 DEF Conn, Idle
    <3>3. d = SendMsg(b)
      BY <2>2 DEF Handler, Send
    <3> HIDE DEF b
    <3>4. d = WriteFront(Cancel(b))
      BY <3>1, <3>2, <3>3 DEF SendMsg
    <3>. QED
      BY <3>1, <3>2, <3>4, CancelAll, WriteFrontOne
  <2>. QED
    BY <2>1, <2>2
<1>2. d \in Conn /\ d.con
  BY IdleGuarded, HandlerGuarded
<1>3. OnMsgThrows(c, n) = e
  BY DEF OnMsgThrows
<1> HIDE DEF d
<1>4. e \in Conn /\ e.io = d.io /\ ~e.pending /\ e.con
  BY <1>2 DEF Conn
<1> HIDE DEF e
<1>5. Guarded(e, nt, TRUE) /\ Acts(e, nt, TRUE)
  BY <1>1, <1>4 DEF Guarded, Acts, Idle
<1>. QED
  BY <1>3, <1>4, <1>5

LEMMA MsgReadIInv == ASSUME IInv, MsgRead PROVE IInv'
<1> DEFINE c == Payload(ws)
<1>1. "msg" \in IOKind \ Connecting /\ ws.io["msg"] > 0
  BY IOKinds DEF Connecting, MsgRead
<1>2. c \in Conn /\ c.io = NoIO /\ c.con /\ ~c.pending
  BY <1>1, PayloadOK
<1>3. /\ phase = "up" /\ ws.con /\ sent \in Nat /\ rx + 1 \in Nat
      /\ Thrown \in BOOLEAN /\ Thrown' \in BOOLEAN /\ threw \in Throws
  BY <1>1, Awaited DEF IInv, Types, Thrown
<1>4. PayloadOfFragment(c) \/ PayloadOfPing(c) \/ PayloadOfMessage(c)
  BY DEF MsgRead
<1> HIDE DEF c
<1>5. Idle(c)
  BY <1>2 DEF Idle
<1>6. /\ ws' \in Conn /\ ws'.con
      /\ Guarded(ws', net, Thrown') /\ Acts(ws', net, Thrown')
      /\ sent' \in Nat /\ mixed' \in BOOLEAN /\ got' \in Seq(Nat) /\ left' \in Seq(Nat)
      /\ last' \in [msg : Seq(Nat), left : Seq(Nat), peer : Seq(Nat), clean : BOOLEAN]
      /\ threw' \in Throws /\ threw'.onClose = threw.onClose
  <2>1. CASE PayloadOfFragment(c)
    <3>1. ws' = Issue(c, "frame")
      BY <1>2, <2>1 DEF PayloadOfFragment, ReadFrame
    <3>2. ws' \in Conn /\ ws'.con /\ ws'.io = Only("frame") /\ ~ws'.pending
      BY <1>2, <3>1, IssueOne, IOKinds
    <3>. QED
      BY <2>1, <3>2, OnlyCounts, IOKinds
         DEF PayloadOfFragment, Guarded, Acts, IInv, Types, seenVars
  <2>2. CASE PayloadOfPing(c)
    <3>1. ws' = Send(c, sent + 1) /\ sent + 1 \in Nat
      BY <1>3, <2>2 DEF PayloadOfPing
    <3>2. ws' \in Conn /\ ws'.con /\ Guarded(ws', net, FALSE) /\ Acts(ws', net, FALSE)
      BY <1>2, <1>5, <3>1, IdleGuarded, SendGuarded
    <3>3. Guarded(ws', net, Thrown') /\ Acts(ws', net, Thrown')
      BY <1>3, <3>2, CarefulIsGuarded
    <3>. QED
      BY <2>2, <3>1, <3>2, <3>3 DEF PayloadOfPing, IInv, Types, seenVars
  <2>3. CASE PayloadOfMessage(c)
    <3>1. PICK n \in Sends(sent) :
            /\ sent' = sent + n
            /\ \/ ws' = OnMsg(c, n) /\ left' = <<>> /\ UNCHANGED threw
               \/ /\ ws' = OnMsgThrows(c, n) /\ left' = c.msg
                  /\ threw' = [threw EXCEPT !.onMsg = @ + 1]
      BY <2>3 DEF PayloadOfMessage
    <3>2. c.msg \in Seq(Nat) /\ got \in Seq(Nat) /\ peerMsg \in Seq(Nat)
          /\ left \in Seq(Nat) /\ mixed \in BOOLEAN
      BY <1>2 DEF IInv, Types, Conn
    <3>3. ASSUME ws' = OnMsg(c, n), left' = <<>>, UNCHANGED threw
          PROVE  /\ ws' \in Conn /\ ws'.con
                 /\ Guarded(ws', net, Thrown') /\ Acts(ws', net, Thrown')
                 /\ left' \in Seq(Nat)
                 /\ threw' \in Throws /\ threw'.onClose = threw.onClose
      <4>1. /\ ws' \in Conn /\ ws'.con
            /\ Guarded(ws', net, Thrown') /\ Acts(ws', net, Thrown')
        BY <1>2, <1>3, <1>5, <3>3, OnMsgOK
      <4>2. <<>> \in Seq(Nat)
        OBVIOUS
      <4>. QED
        BY <1>3, <3>3, <4>1, <4>2
    <3>4. ASSUME ws' = OnMsgThrows(c, n), left' = c.msg,
                 threw' = [threw EXCEPT !.onMsg = @ + 1]
          PROVE  /\ ws' \in Conn /\ ws'.con
                 /\ Guarded(ws', net, Thrown') /\ Acts(ws', net, Thrown')
                 /\ left' \in Seq(Nat)
                 /\ threw' \in Throws /\ threw'.onClose = threw.onClose
      <4>1. ws' \in Conn /\ ws'.con /\ Guarded(ws', net, TRUE) /\ Acts(ws', net, TRUE)
        BY <1>2, <1>3, <1>5, <3>4, OnMsgThrowsOK
      <4>2. threw' \in Throws /\ threw'.onClose = threw.onClose /\ threw'.onMsg # 0
        BY <1>3, <3>4 DEF Throws
      <4>3. Thrown' = TRUE
        BY <4>2 DEF Thrown, NoThrow
      <4>. QED
        BY <3>2, <3>4, <4>1, <4>2, <4>3
    <3>5. /\ ws' \in Conn /\ ws'.con
          /\ Guarded(ws', net, Thrown') /\ Acts(ws', net, Thrown') /\ left' \in Seq(Nat)
          /\ threw' \in Throws /\ threw'.onClose = threw.onClose
      BY <3>1, <3>3, <3>4
    <3>6. Fresh(c.msg) \in Seq(Nat)
      <4>1. Len(left) + 1 \in Nat /\ Len(c.msg) \in Nat
        BY <3>2, LenProperties
      <4>2. \A i \in (Len(left) + 1)..Len(c.msg) : c.msg[i] \in Nat
        BY <3>2, <4>1, ElementOfSeq
      <4>. QED
        BY <4>1, <4>2 DEF Fresh
    <3>7. got \o Fresh(c.msg) \in Seq(Nat)
      BY <3>2, <3>6
    <3>8. /\ got' = got \o Fresh(c.msg) /\ mixed' = (mixed /\ cur # "final")
          /\ last' = [msg |-> c.msg, left |-> left, peer |-> peerMsg, clean |-> ~mixed]
      BY <2>3 DEF PayloadOfMessage
    <3>9. sent' \in Nat /\ mixed' \in BOOLEAN
      BY <1>3, <3>1, <3>8 DEF Sends
    <3>. QED
      BY <3>2, <3>5, <3>7, <3>8, <3>9
  <2>. QED
    BY <1>4, <2>1, <2>2, <2>3
<1>7. peerMsg' \in Seq(Nat)
  <2>1. <<>> \in Seq(Nat)
    OBVIOUS
  <2>. QED
    BY <2>1 DEF MsgRead, IInv, Types
<1>8. Types'
  BY <1>3, <1>6, <1>7 DEF IInv, Types, MsgRead, Phase, Cur
<1>. QED
  BY <1>3, <1>6, <1>8, OpenIInv DEF MsgRead

-----------------------------------------------------------------------------
(* The steps: sending, and the network. *)

LEMMA AppSendIInv == ASSUME IInv, AppSend PROVE IInv'
<1>1. /\ ws \in Conn /\ Guarded(ws, net, Thrown) /\ ws.con /\ phase = "up"
      /\ sent + 1 \in Nat /\ ws' = Send(ws, sent + 1) /\ Thrown \in BOOLEAN
  BY DEF IInv, Types, Phases, AppSend, Thrown
<1>2. /\ ws' \in Conn /\ ws'.con /\ Guarded(ws', net, Thrown) /\ Acts(ws', net, FALSE)
  BY <1>1, SendGuarded
<1>3. cur = "none" \/ net = "dead" \/ \E k \in InFrame : ws'.io = Only(k)
  <2>1. SUFFICES ASSUME cur # "none", net # "dead"
                 PROVE  \E k \in InFrame : ws'.io = Only(k)
    OBVIOUS
  <2>2. PICK k \in InFrame : ws.io = Only(k)
    BY <1>1, <2>1 DEF IInv, InFrameRead
  <2>3. k \in IOKind \ Connecting /\ k # "frame" /\ k # "write"
    BY IOKinds DEF InFrame, Connecting
  <2>4. ws.io[k] > 0
    BY <2>2, <2>3 DEF Only, NoIO
  <2>5. ws.pending
    BY <2>3, <2>4, Awaited
  <2>6. ws'.io = ws.io
    BY <1>1, <2>5, SendWaits
  <2>. QED
    BY <2>2, <2>6
<1>4. Types' /\ Thrown' = Thrown
  BY <1>1, <1>2 DEF IInv, Types, AppSend, peerVars, seenVars, endVars, Thrown
<1>5. Acts(ws', net, Thrown)
  BY <1>2 DEF Acts
<1>. QED
  BY <1>1, <1>2, <1>3, <1>4, <1>5, OpenIInv DEF AppSend, peerVars, endVars

LEMMA WriteIInv == ASSUME IInv, WriteDone \/ WriteFails PROVE IInv'
<1> DEFINE c == Finish(ws, "write")
           d == [c EXCEPT !.pending = FALSE, !.writing = <<>>]
<1>1. "write" \in IOKind \ Connecting /\ ws.io["write"] > 0
  BY IOKinds DEF Connecting, WriteDone, WriteFails
<1>2. /\ phase = "up" /\ ws.con /\ ws \in Conn
      /\ cur = "none" \/ net = "dead"
      /\ Thrown \in BOOLEAN
  BY <1>1, Awaited DEF Thrown
<1>3. c \in Conn /\ c.io = NoIO /\ c.con
  BY <1>1, CalledBack
<1>4. ws' = SendMsg(d)
  BY DEF WriteDone, WriteFails, Written
<1> HIDE DEF c
<1>5. d \in Conn /\ Idle(d) /\ d.con
  <2>1. <<>> \in Seq(Nat)
    OBVIOUS
  <2>. QED
    BY <1>3, <2>1 DEF Conn, Idle
<1> HIDE DEF d
<1>6. ws' \in Conn /\ Guarded(ws', net, FALSE) /\ ws'.con /\ Acts(ws', net, FALSE)
  BY <1>4, <1>5, IdleGuarded, SendMsgGuarded
<1>7. Guarded(ws', net, Thrown) /\ Acts(ws', net, Thrown)
  BY <1>2, <1>6, CarefulIsGuarded
<1>8. wire' \in Seq(Nat)
  <2>1. wire \in Seq(Nat) /\ ws.writing \in Seq(Nat)
    BY <1>2 DEF IInv, Types, Conn
  <2>2. wire \o ws.writing \in Seq(Nat)
    BY <2>1
  <2>. QED
    BY <2>1, <2>2 DEF WriteDone, WriteFails
<1>9. /\ Types' /\ phase' = "up" /\ net' = net /\ cur' = cur
      /\ closes' = closes /\ threw'.onClose = threw.onClose /\ Thrown' = Thrown
  BY <1>2, <1>6, <1>8
     DEF IInv, Types, WriteDone, WriteFails, Phase, peerVars, seenVars, endVars, Thrown
<1>. QED
  BY <1>2, <1>6, <1>7, <1>9, OpenIInv

LEMMA BreakIInv == ASSUME IInv, Break PROVE IInv'
  BY DEF IInv, Types, Phases, InFrameRead, CloseOnce, Break, Guarded, Acts, Idle,
         Thrown, peerVars, seenVars, endVars

LEMMA NextIInv == IInv /\ [Next]_vars => IInv'
<1> SUFFICES ASSUME IInv, [Next]_vars PROVE IInv'
  OBVIOUS
<1>1. CASE Opening
  BY <1>1, OpeningIInv
<1>2. CASE Receiving
  BY <1>2, FrameReadIInv, LenReadIInv, MsgReadIInv, ReadFailsIInv DEF Receiving
<1>3. CASE Sending
  BY <1>3, AppSendIInv, WriteIInv DEF Sending
<1>4. CASE Break
  BY <1>4, BreakIInv
<1>5. CASE UNCHANGED vars
  BY <1>5 DEF vars, peerVars, seenVars, IInv, Types, Phases, InFrameRead, CloseOnce,
              Guarded, Acts, Idle, Thrown
<1>. QED
  BY <1>1, <1>2, <1>3, <1>4, <1>5 DEF Next

LEMMA SpecIInv == Spec => []IInv
  BY InitIInv, NextIInv, PTL DEF Spec

-----------------------------------------------------------------------------
(* What the invariant says. *)

LEMMA OnlyOne ==
  ASSUME NEW k \in IOKind
  PROVE  Only(k) \in [IOKind -> 0..1] /\ NoIO \in [IOKind -> 0..1]
  BY DEF Only, NoIO

LEMMA IInvOne == IInv => ws.io = NoIO \/ \E k \in IOKind : ws.io = Only(k)
  BY IOKinds DEF IInv, Types, Phases, Guarded, Phase, Idle, Connecting, InFrame

(* At most one read or write of the connection is ever outstanding.  *)
THEOREM OneOperationHolds == Spec => []OneOperation
<1>1. IInv => OneOperation
  BY IInvOne DEF OneOperation, Only
<1>. QED
  BY <1>1, SpecIInv, PTL

(* Every variable of the connection keeps its type. *)
THEOREM TypesHold == Spec => []TypeOK
<1>1. IInv => TypeOK
  <2>1. IInv => ws.io \in [IOKind -> 0..1]
    BY IInvOne, OnlyOne, IOKinds
  <2>. QED
    BY <2>1 DEF TypeOK, IInv, Types, Throws
<1>. QED
  BY <1>1, SpecIInv, PTL

(* read_frame only ever reads where a frame starts. *)
THEOREM InSyncHolds == Spec => []InSync
<1>1. IInv => InSync
  <2>1. SUFFICES ASSUME IInv, ws.io["frame"] > 0 PROVE cur = "none" \/ net = "dead"
    BY DEF InSync
  <2>2. "frame" \in IOKind \ Connecting
    BY IOKinds DEF Connecting
  <2>. QED
    BY <2>1, <2>2, Awaited
<1>. QED
  BY <1>1, SpecIInv, PTL

(* While its network works an open connection has a callback due, or only *)
(* waits for the next send() because a client's handler threw.             *)
THEOREM NeverStallsHolds == Spec => []NeverStalls
<1>1. IInv => NeverStalls
  BY DEF IInv, Phases, Acts, NeverStalls
<1>. QED
  BY <1>1, SpecIInv, PTL

(* onClose_ returns once, when the connection is disposed, and is called *)
(* again only after it threw.                                             *)
THEOREM CloseOnceHolds == Spec => []CloseOnce
<1>1. IInv => CloseOnce
  BY DEF IInv
<1>. QED
  BY <1>1, SpecIInv, PTL

-----------------------------------------------------------------------------
(* What the member functions do to the messages.                           *)

(* The messages accepted that have not left, oldest first. *)
Queue(c) == c.writing \o c.sendq

(* Exactly while a write is outstanding, one message is being written. *)
Writes(c) == IF c.io = Only("write") THEN \E m \in Nat : c.writing = <<m>>
                                     ELSE c.writing = <<>>

(* What was received is left alone, and no frame is begun. *)
SameRead(d, c) ==
  /\ d.msg = c.msg /\ d.fin = c.fin /\ d.opcode = c.opcode
  /\ \A k \in InFrame : d.io = Only(k) => c.io = Only(k)

LEMMA SameReadTwice ==
  ASSUME NEW b, NEW c, NEW d, SameRead(c, b), SameRead(d, c)
  PROVE  SameRead(d, b)
BY DEF SameRead

LEMMA IssueFields ==
  ASSUME NEW c \in Conn, NEW k \in IOKind
  PROVE  LET d == Issue(c, k)
         IN /\ d.msg = c.msg /\ d.fin = c.fin /\ d.opcode = c.opcode
            /\ d.writing = c.writing /\ d.sendq = c.sendq
BY DEF Issue, Conn

LEMMA FinishFields ==
  ASSUME NEW c \in Conn, NEW k \in IOKind
  PROVE  LET d == Finish(c, k)
         IN /\ d.msg = c.msg /\ d.fin = c.fin /\ d.opcode = c.opcode
            /\ d.writing = c.writing /\ d.sendq = c.sendq
BY DEF Finish, Conn

LEMMA CancelFields ==
  ASSUME NEW c \in Conn
  PROVE  LET d == Cancel(c)
         IN /\ d.msg = c.msg /\ d.fin = c.fin /\ d.opcode = c.opcode
            /\ d.writing = c.writing /\ d.sendq = c.sendq
BY DEF Cancel, Conn

(* Only(k) is a name of k. *)
LEMMA OnlyName ==
  ASSUME NEW k \in IOKind, NEW l \in IOKind, Only(k) = Only(l)
  PROVE  k = l
<1>1. Only(k)[k] = 1 /\ Only(l)[k] = IF k = l THEN 1 ELSE 0
  BY DEF Only, NoIO
<1>2. QED
  BY <1>1

LEMMA FrameIsNoWrite ==
  /\ Only("frame") # Only("write") /\ NoIO # Only("write")
  /\ \A k \in InFrame : Only(k) # Only("frame") /\ Only(k) # Only("write") /\ Only(k) # NoIO
<1>1. \A k \in InFrame : k \in IOKind /\ k # "frame" /\ k # "write"
  BY DEF InFrame, IOKind
<1>2. QED
  BY <1>1, OnlyName, OnlyCounts, IOKinds

(* A write takes the oldest message from the queue. *)
LEMMA WriteFrontCarries ==
  ASSUME NEW c \in Conn, c.sendq # <<>>
  PROVE  LET d == WriteFront(Cancel(c))
         IN SameRead(d, c) /\ Writes(d) /\ Queue(d) = c.sendq /\ d.pending
<1> DEFINE b == Cancel(c)
           e == [b EXCEPT !.pending = TRUE, !.writing = <<Head(b.sendq)>>, !.sendq = Tail(@)]
           d == Issue(e, "write")
<1>1. WriteFront(b) = d
  BY DEF WriteFront
<1>2. /\ b \in Conn /\ b.io = NoIO /\ b.sendq = c.sendq
      /\ b.msg = c.msg /\ b.fin = c.fin /\ b.opcode = c.opcode
  BY CancelAll, CancelFields
<1>3. /\ Head(b.sendq) \in Nat /\ Tail(b.sendq) \in Seq(Nat)
      /\ <<Head(b.sendq)>> \in Seq(Nat) /\ <<Head(b.sendq)>> \o Tail(b.sendq) = b.sendq
  BY <1>2 DEF Conn
<1>4. /\ e \in Conn /\ e.io = NoIO /\ e.writing = <<Head(b.sendq)>> /\ e.sendq = Tail(b.sendq)
      /\ e.msg = b.msg /\ e.fin = b.fin /\ e.opcode = b.opcode /\ e.pending
  BY <1>2, <1>3 DEF Conn
<1> HIDE DEF b, e
<1>5. /\ d.msg = e.msg /\ d.fin = e.fin /\ d.opcode = e.opcode
      /\ d.writing = e.writing /\ d.sendq = e.sendq /\ d.io = Only("write") /\ d.pending
  BY <1>4, IssueFields, IssueOne, IOKinds
<1> HIDE DEF d
<1>6. SameRead(d, c)
  BY <1>2, <1>4, <1>5, FrameIsNoWrite DEF SameRead
<1>7. Writes(d) /\ Queue(d) = c.sendq
  BY <1>2, <1>3, <1>4, <1>5 DEF Writes, Queue
<1>. QED
  BY <1>1, <1>5, <1>6, <1>7 DEF b

(* A write is outstanding only while pending_ is set, so that a send does  *)
(* not cancel it.                                                          *)
Covered(c) == c.io = Only("write") => c.pending

LEMMA IdleCovered == ASSUME NEW c, Idle(c) PROVE Covered(c)
  BY FrameIsNoWrite DEF Idle, Covered

(* send_msg moves the oldest message into the write it starts, if any. *)
LEMMA SendMsgCarries ==
  ASSUME NEW c \in Conn, Covered(c), c.con => Writes(c)
  PROVE  /\ SameRead(SendMsg(c), c) /\ Covered(SendMsg(c))
         /\ c.con => Writes(SendMsg(c)) /\ Queue(SendMsg(c)) = Queue(c)
<1>1. CASE c.pending \/ ~c.con
  BY <1>1 DEF SendMsg, SameRead
<1>2. CASE ~c.pending /\ c.con /\ c.sendq = <<>>
  <2> DEFINE b == Cancel(c)
             d == Issue(b, "frame")
  <2>1. SendMsg(c) = d
    BY <1>2 DEF SendMsg, ReadFrame
  <2>2. b \in Conn /\ b.io = NoIO
    BY CancelAll
  <2>3. /\ d.msg = c.msg /\ d.fin = c.fin /\ d.opcode = c.opcode
        /\ d.writing = c.writing /\ d.sendq = c.sendq /\ d.io = Only("frame")
    BY <2>2, CancelFields, IssueFields, IssueOne, IOKinds
  <2>4. c.io # Only("write")
    BY <1>2 DEF Covered
  <2> HIDE DEF b, d
  <2>. QED
    BY <1>2, <2>1, <2>3, <2>4, FrameIsNoWrite DEF SameRead, Writes, Queue, Covered
<1>3. CASE ~c.pending /\ c.con /\ c.sendq # <<>>
  <2>1. c.writing = <<>> /\ c.sendq \in Seq(Nat)
    BY <1>3 DEF Covered, Writes, Conn
  <2>2. Queue(c) = c.sendq
    BY <2>1 DEF Queue
  <2>3. SendMsg(c) = WriteFront(Cancel(c))
    BY <1>3 DEF SendMsg
  <2>4. /\ SameRead(WriteFront(Cancel(c)), c) /\ Writes(WriteFront(Cancel(c)))
        /\ Queue(WriteFront(Cancel(c))) = c.sendq /\ WriteFront(Cancel(c)).pending
    BY <1>3, WriteFrontCarries
  <2>. QED
    BY <2>2, <2>3, <2>4 DEF Covered
<1>. QED
  BY <1>1, <1>2, <1>3

LEMMA AppendBehind ==
  ASSUME NEW S, NEW s \in Seq(S), NEW u \in Seq(S), NEW x \in S
  PROVE  s \o Append(u, x) = Append(s \o u, x)
<1>1. <<x>> \in Seq(S) /\ s \o u \in Seq(S)
  OBVIOUS
<1>2. Append(u, x) = u \o <<x>> /\ Append(s \o u, x) = (s \o u) \o <<x>>
  BY <1>1, AppendIsConcat
<1>. QED
  BY <1>1, <1>2, ConcatAssociative

(* The object with one more message in its queue, before send_msg(). *)
LEMMA QueuedFields ==
  ASSUME NEW c \in Conn, NEW m \in Nat
  PROVE  LET d == [c EXCEPT !.sendq = Append(@, m)]
         IN /\ d \in Conn /\ d.io = c.io /\ d.pending = c.pending /\ d.con = c.con
            /\ d.msg = c.msg /\ d.fin = c.fin /\ d.opcode = c.opcode
            /\ d.writing = c.writing /\ d.sendq = Append(c.sendq, m) /\ d.sendq # <<>>
            /\ Queue(d) = Append(Queue(c), m)
<1> DEFINE d == [c EXCEPT !.sendq = Append(@, m)]
<1>1. c.writing \in Seq(Nat) /\ c.sendq \in Seq(Nat)
  BY DEF Conn
<1>2. Append(c.sendq, m) \in Seq(Nat) /\ Append(c.sendq, m) # <<>>
  <2>1. \A s \in Seq(Nat), x \in Nat : Append(s, x) \in Seq(Nat) /\ Append(s, x) # <<>>
    BY AppendProperties
  <2>. QED
    BY <1>1, <2>1, Zenon
<1>3. /\ d \in Conn /\ d.io = c.io /\ d.pending = c.pending /\ d.con = c.con
      /\ d.msg = c.msg /\ d.fin = c.fin /\ d.opcode = c.opcode
      /\ d.writing = c.writing /\ d.sendq = Append(c.sendq, m)
  BY <1>2 DEF Conn
<1> HIDE DEF d
<1>4. Queue(d) = Append(Queue(c), m)
  <2>1. \A s, u \in Seq(Nat), x \in Nat : s \o Append(u, x) = Append(s \o u, x)
    BY AppendBehind
  <2>2. c.writing \o Append(c.sendq, m) = Append(c.writing \o c.sendq, m)
    BY <1>1, <2>1, Zenon
  <2>. QED
    BY <1>3, <2>2 DEF Queue
<1>. QED
  BY <1>2, <1>3, <1>4 DEF d

(* send() of an open connection queues its message behind the others. *)
LEMMA SendCarries ==
  ASSUME NEW c \in Conn, Covered(c), c.con => Writes(c), NEW m \in Nat
  PROVE  /\ SameRead(Send(c, m), c) /\ Covered(Send(c, m))
         /\ c.con => Writes(Send(c, m)) /\ Queue(Send(c, m)) = Append(Queue(c), m)
<1> DEFINE d == [c EXCEPT !.sendq = Append(@, m)]
<1>1. /\ d \in Conn /\ d.io = c.io /\ d.pending = c.pending /\ d.con = c.con
      /\ d.msg = c.msg /\ d.fin = c.fin /\ d.opcode = c.opcode
      /\ d.writing = c.writing /\ Queue(d) = Append(Queue(c), m)
  BY QueuedFields
<1>2. Send(c, m) = IF c.con THEN SendMsg(d) ELSE c
  BY DEF Send
<1> HIDE DEF d
<1>3. Covered(d) /\ (d.con => Writes(d)) /\ SameRead(d, c)
  BY <1>1 DEF Covered, Writes, SameRead
<1>4. CASE c.con
  <2>1. /\ SameRead(SendMsg(d), d) /\ Covered(SendMsg(d))
        /\ Writes(SendMsg(d)) /\ Queue(SendMsg(d)) = Queue(d)
    BY <1>1, <1>3, <1>4, SendMsgCarries
  <2>. QED
    BY <1>1, <1>2, <1>3, <1>4, <2>1, SameReadTwice
<1>5. CASE ~c.con
  BY <1>2, <1>5 DEF SameRead
<1>. QED
  BY <1>4, <1>5

(* Without pending_ it starts a write at once, whatever was being written. *)
LEMMA SendCuts ==
  ASSUME NEW c \in Conn, c.con, ~c.pending, NEW m \in Nat
  PROVE  /\ SameRead(Send(c, m), c) /\ Writes(Send(c, m)) /\ Send(c, m).con
         /\ c.writing \in Seq(Nat) /\ c.sendq \in Seq(Nat)
         /\ Queue(Send(c, m)) = Append(c.sendq, m)
<1> DEFINE d == [c EXCEPT !.sendq = Append(@, m)]
           e == WriteFront(Cancel(d))
<1>1. /\ d \in Conn /\ d.io = c.io /\ d.pending = c.pending /\ d.con = c.con
      /\ d.msg = c.msg /\ d.fin = c.fin /\ d.opcode = c.opcode
      /\ d.sendq = Append(c.sendq, m) /\ d.sendq # <<>>
  BY QueuedFields
<1>2. Send(c, m) = SendMsg(d)
  BY DEF Send
<1> HIDE DEF d
<1>3. SendMsg(d) = e
  BY <1>1 DEF SendMsg
<1>4. SameRead(e, d) /\ Writes(e) /\ Queue(e) = d.sendq /\ e.con
  <2>1. Cancel(d) \in Conn /\ Cancel(d).io = NoIO /\ Cancel(d).con = d.con
        /\ Cancel(d).sendq = d.sendq
    BY <1>1, CancelAll
  <2>. QED
    BY <1>1, <2>1, WriteFrontCarries, WriteFrontOne
<1> HIDE DEF e
<1>5. SameRead(d, c)
  BY <1>1 DEF SameRead
<1>6. SameRead(e, c)
  BY <1>4, <1>5, SameReadTwice
<1>. QED
  BY <1>1, <1>2, <1>3, <1>4, <1>6 DEF Conn

(* A handler that sends n messages behind s others. *)
Sent(q, s, n) == q \o [i \in 1..n |-> s + i]

LEMMA SentFew ==
  ASSUME NEW q \in Seq(Nat), NEW s \in Nat
  PROVE  Sent(q, s, 0) = q /\ Sent(q, s, 1) = Append(q, s + 1)
<1>1. [i \in 1..0 |-> s + i] = <<>> /\ [i \in 1..1 |-> s + i] = <<s + 1>>
  OBVIOUS
<1>2. Append(q, s + 1) = q \o <<s + 1>> /\ q \o <<>> = q
  BY AppendIsConcat
<1>. QED
  BY <1>1, <1>2 DEF Sent

Behind(q, s, n, r) ==
  /\ r \in Seq(Nat) /\ Len(r) = Len(q) + n
  /\ \A i \in 1..Len(q) : r[i] = q[i]
  /\ \A i \in (Len(q) + 1)..(Len(q) + n) : r[i] = s + (i - Len(q))

LEMMA SentBehind ==
  ASSUME NEW q \in Seq(Nat), NEW s \in Nat, NEW n \in Nat
  PROVE  Behind(q, s, n, Sent(q, s, n))
<1> DEFINE u == [i \in 1..n |-> s + i]
<1>1. u \in Seq(Nat) /\ Len(u) = n /\ \A i \in 1..n : u[i] = s + i
  OBVIOUS
<1>2. Sent(q, s, n) = q \o u
  BY DEF Sent
<1> HIDE DEF u
<1>3. /\ q \o u \in Seq(Nat) /\ Len(q \o u) = Len(q) + Len(u)
      /\ \A i \in 1..(Len(q) + Len(u)) :
           (q \o u)[i] = IF i <= Len(q) THEN q[i] ELSE u[i - Len(q)]
  BY <1>1, ConcatProperties
<1>4. Len(q) \in Nat
  BY LenProperties
<1>5. \A i \in (Len(q) + 1)..(Len(q) + n) :
        /\ i - Len(q) \in 1..n /\ ~(i <= Len(q)) /\ i \in 1..(Len(q) + n)
  BY <1>4
<1>6. \A i \in (Len(q) + 1)..(Len(q) + n) : (q \o u)[i] = s + (i - Len(q))
  BY <1>1, <1>3, <1>5
<1>7. \A i \in 1..Len(q) : (q \o u)[i] = q[i]
  BY <1>1, <1>3, <1>4
<1>. QED
  BY <1>1, <1>2, <1>3, <1>6, <1>7 DEF Behind

LEMMA SentTwice ==
  ASSUME NEW q \in Seq(Nat), NEW s \in Nat, NEW n \in Nat, NEW m \in Nat
  PROVE  Sent(Sent(q, s, n), s + n, m) = Sent(q, s, n + m)
<1> DEFINE a == Sent(q, s, n)
           t == s + n
           b == Sent(a, t, m)
           d == Sent(q, s, n + m)
           l == Len(q)
<1>1. l \in Nat /\ n + m \in Nat /\ t \in Nat /\ t = s + n
  BY LenProperties
<1>2. /\ a \in Seq(Nat) /\ Len(a) = l + n /\ \A i \in 1..l : a[i] = q[i]
      /\ \A i \in (l + 1)..(l + n) : a[i] = s + (i - l)
  BY SentBehind DEF Behind
<1> HIDE DEF a, t
<1>3. \A p \in Seq(Nat), x, k \in Nat : Behind(p, x, k, Sent(p, x, k))
  BY SentBehind
<1>4. Behind(a, t, m, b)
  BY <1>3, <1>1, <1>2, Zenon
<1>5. Behind(q, s, n + m, d)
  BY <1>3, <1>1, Zenon
<1>6. /\ b \in Seq(Nat) /\ Len(b) = Len(a) + m /\ \A i \in 1..Len(a) : b[i] = a[i]
      /\ \A i \in (Len(a) + 1)..(Len(a) + m) : b[i] = t + (i - Len(a))
  BY <1>4 DEF Behind
<1>7. /\ d \in Seq(Nat) /\ Len(d) = l + (n + m) /\ \A i \in 1..l : d[i] = q[i]
      /\ \A i \in (l + 1)..(l + (n + m)) : d[i] = s + (i - l)
  BY <1>5 DEF Behind
<1> HIDE DEF b, d, l
<1>8. ASSUME NEW i \in 1..Len(d) PROVE b[i] = d[i]
  <2>1. CASE i <= l
    BY <1>1, <1>2, <1>6, <1>7, <2>1
  <2>2. CASE i > l /\ i <= l + n
    <3>1. i \in 1..Len(a) /\ i \in (l + 1)..(l + n) /\ i \in (l + 1)..(l + (n + m))
      BY <1>1, <1>2, <2>2
    <3>. QED
      BY <1>2, <1>6, <1>7, <3>1
  <2>3. CASE i > l + n
    <3>1. /\ i \in (Len(a) + 1)..(Len(a) + m) /\ i \in (l + 1)..(l + (n + m))
          /\ t + (i - Len(a)) = s + (i - l)
      BY <1>1, <1>2, <1>7, <2>3
    <3>. QED
      BY <1>6, <1>7, <3>1
  <2>. QED
    BY <1>1, <1>7, <2>1, <2>2, <2>3
<1>9. Len(b) = Len(d)
  BY <1>1, <1>2, <1>6, <1>7
<1>10. b = d
  BY <1>6, <1>7, <1>8, <1>9, SeqEqual
<1>. QED
  BY <1>10 DEF a, b, d, t

LEMMA QueueIsSeq == ASSUME NEW c \in Conn PROVE Queue(c) \in Seq(Nat)
<1>1. c.writing \in Seq(Nat) /\ c.sendq \in Seq(Nat)
  BY DEF Conn
<1>. QED
  BY <1>1 DEF Queue

LEMMA HandlerCarries ==
  ASSUME NEW c \in Conn, Covered(c), c.con => Writes(c), NEW s \in Nat, NEW n \in 0..1
  PROVE  LET d == Handler(c, s, n)
         IN /\ SameRead(d, c) /\ Covered(d)
            /\ c.con => Writes(d) /\ Queue(d) = Sent(Queue(c), s, n)
<1>1. Queue(c) \in Seq(Nat) /\ s + 1 \in Nat
  BY QueueIsSeq
<1>2. Sent(Queue(c), s, 0) = Queue(c) /\ Sent(Queue(c), s, 1) = Append(Queue(c), s + 1)
  BY <1>1, SentFew
<1>3. CASE n = 0
  BY <1>2, <1>3 DEF Handler, SameRead
<1>4. CASE n = 1
  <2>1. Handler(c, s, n) = Send(c, s + 1)
    BY <1>4 DEF Handler
  <2>. QED
    BY <1>1, <1>2, <1>4, <2>1, SendCarries
<1>. QED
  BY <1>3, <1>4

LEMMA DisposeKeepsMsg ==
  ASSUME NEW c \in Conn
  PROVE  LET d == Dispose(c) IN d.msg = c.msg /\ d.fin = c.fin /\ d.opcode = c.opcode
BY DEF Dispose, Cancel, Conn

LEMMA OnMsgCarries ==
  ASSUME NEW c \in Conn, Idle(c), c.con, Writes(c), NEW n \in 0..1, sent \in Nat
  PROVE  LET d == OnMsg(c, n)
         IN /\ d.msg = <<>> /\ \A k \in InFrame : d.io # Only(k)
            /\ Writes(d) /\ Queue(d) = Sent(Queue(c), sent, n)
<1> DEFINE d == Handler(c, sent, n)
           e == [d EXCEPT !.msg = <<>>]
<1>1. d \in Conn /\ d.con = c.con
  BY IdleGuarded, HandlerGuarded
<1>2. SameRead(d, c) /\ Covered(d) /\ Writes(d) /\ Queue(d) = Sent(Queue(c), sent, n)
  BY IdleCovered, HandlerCarries
<1> HIDE DEF d
<1>3. /\ e \in Conn /\ e.io = d.io /\ e.pending = d.pending /\ e.con = d.con
      /\ e.msg = <<>> /\ e.writing = d.writing /\ e.sendq = d.sendq
  <2>1. <<>> \in Seq(Nat)
    OBVIOUS
  <2>. QED
    BY <1>1, <2>1 DEF Conn
<1>4. OnMsg(c, n) = SendMsg(e)
  BY DEF OnMsg, d
<1> HIDE DEF e
<1>5. Covered(e) /\ Writes(e) /\ Queue(e) = Queue(d)
  BY <1>1, <1>2, <1>3 DEF Covered, Writes, Queue
<1>6. SameRead(SendMsg(e), e) /\ Writes(SendMsg(e)) /\ Queue(SendMsg(e)) = Queue(e)
  BY <1>1, <1>3, <1>5, SendMsgCarries
<1>7. \A k \in InFrame : SendMsg(e).io # Only(k)
  BY <1>2, <1>3, <1>6, FrameIsNoWrite DEF SameRead, Idle
<1>. QED
  BY <1>2, <1>3, <1>4, <1>5, <1>6, <1>7 DEF SameRead

LEMMA OnMsgThrowsCarries ==
  ASSUME NEW c \in Conn, Idle(c), c.con, Writes(c), NEW n \in 0..1, sent \in Nat
  PROVE  LET d == OnMsgThrows(c, n)
         IN /\ d.msg = c.msg /\ \A k \in InFrame : d.io # Only(k)
            /\ Writes(d) /\ Queue(d) = Sent(Queue(c), sent, n)
<1> DEFINE d == Handler(c, sent, n)
           e == [d EXCEPT !.pending = FALSE, !.self = FALSE]
<1>1. d \in Conn
  BY IdleGuarded, HandlerGuarded
<1>2. SameRead(d, c) /\ Writes(d) /\ Queue(d) = Sent(Queue(c), sent, n)
  BY IdleCovered, HandlerCarries
<1>3. OnMsgThrows(c, n) = e
  BY DEF OnMsgThrows
<1> HIDE DEF d
<1>4. e.io = d.io /\ e.msg = d.msg /\ e.writing = d.writing /\ e.sendq = d.sendq
  BY <1>1 DEF Conn
<1> HIDE DEF e
<1>5. \A k \in InFrame : e.io # Only(k)
  BY <1>2, <1>4, FrameIsNoWrite DEF SameRead, Idle
<1>. QED
  BY <1>2, <1>3, <1>4, <1>5 DEF SameRead, Writes, Queue

(* However onClose_ ends, its handlers have sent at most m messages behind *)
(* s others, and if the connection is still there they wait in it.         *)
Ended(c, s, m) ==
  /\ SameRead(ws', c)
  /\ \E n \in 0..m :
       /\ sent' = s + n
       /\ ws'.con => c.con /\ Writes(ws') /\ Queue(ws') = Sent(Queue(c), s, n)

LEMMA DisposedRead ==
  ASSUME NEW c \in Conn, NEW d \in Conn, SameRead(d, c), Dispose(d).io = NoIO
  PROVE  SameRead(Dispose(d), c)
<1>1. Dispose(d).msg = c.msg /\ Dispose(d).fin = c.fin /\ Dispose(d).opcode = c.opcode
  BY DisposeKeepsMsg DEF SameRead
<1>. QED
  BY <1>1, FrameIsNoWrite DEF SameRead

LEMMA ClosingCarries ==
  ASSUME NEW c \in Conn, c.io = NoIO, c.con => Writes(c), NEW s \in Nat,
         Closing(c, s) \/ CloseThrows(c, s)
  PROVE  Ended(c, s, 1)
<1>1. PICK n \in Sends(s) : /\ ws' \in {Dispose(Handler(c, s, n)), Handler(c, s, n)}
                            /\ sent' = IF c.con THEN s + n ELSE s
  BY DEF Closing, CloseThrows
<1> DEFINE d == Handler(c, s, n)
<1>2. n \in 0..1
  BY DEF Sends
<1>3. \A t \in BOOLEAN : Guarded(c, "dead", t)
  BY DEF Guarded
<1>4. d \in Conn /\ d.con = c.con /\ Guarded(d, "dead", FALSE)
  BY <1>3, HandlerGuarded
<1>5. /\ SameRead(d, c)
      /\ c.con => Writes(d) /\ Queue(d) = Sent(Queue(c), s, n)
  BY <1>2, HandlerCarries, FrameIsNoWrite DEF Covered
<1>6. ws' \in {Dispose(d), d}
  BY <1>1
<1> HIDE DEF d
<1>7. Dispose(d).io = NoIO /\ ~Dispose(d).con
  BY <1>4, DisposeGuarded
<1>8. SameRead(Dispose(d), c)
  BY <1>4, <1>5, <1>7, DisposedRead
<1>9. SameRead(ws', c)
  BY <1>5, <1>6, <1>8
<1>10. CASE c.con
  <2>1. /\ sent' = s + n
        /\ ws'.con => c.con /\ Writes(ws') /\ Queue(ws') = Sent(Queue(c), s, n)
    BY <1>1, <1>4, <1>5, <1>6, <1>7, <1>10
  <2>. QED
    BY <1>2, <1>9, <2>1 DEF Ended
<1>11. CASE ~c.con
  <2>1. ~ws'.con /\ sent' = s + 0 /\ 0 \in 0..1
    BY <1>1, <1>4, <1>6, <1>7, <1>11
  <2>. QED
    BY <1>9, <2>1 DEF Ended
<1>. QED
  BY <1>10, <1>11

LEMMA OnCloseCarries ==
  ASSUME NEW c \in Conn, c.io = NoIO, c.con => Writes(c), NEW s \in Nat, NEW k,
         OnClose(c, s, k)
  PROVE  Ended(c, s, 1)
  BY ClosingCarries DEF OnClose

LEMMA ClosedByPeerCarries ==
  ASSUME NEW c \in Conn, c.io = NoIO, c.pending, c.con, Writes(c), sent \in Nat,
         threw \in Throws, ClosedByPeer(c)
  PROVE  Ended(c, sent, 1) \/ (Ended(c, sent, 2) /\ Thrown')
<1>1. CASE Closing(c, sent)
  BY <1>1, ClosingCarries
<1>2. ASSUME NEW n \in Sends(sent),
             OnClose([Handler(c, sent, n) EXCEPT !.pending = FALSE], sent + n, 1)
      PROVE  Ended(c, sent, 2) /\ Thrown'
  <2> DEFINE d == Handler(c, sent, n)
             e == [d EXCEPT !.pending = FALSE]
  <2>1. n \in 0..1 /\ sent + n \in Nat
    BY DEF Sends
  <2>2. \A t \in BOOLEAN : Guarded(c, "dead", t)
    BY DEF Guarded
  <2>3. d \in Conn /\ d.con = c.con /\ Guarded(d, "dead", FALSE)
    BY <2>2, HandlerGuarded
  <2>4. d.io = NoIO
    BY HandlerWaits
  <2>5. SameRead(d, c) /\ Writes(d) /\ Queue(d) = Sent(Queue(c), sent, n)
    BY <2>1, HandlerCarries DEF Covered
  <2>6. OnClose(e, sent + n, 1)
    BY <1>2
  <2> HIDE DEF d
  <2>7. /\ e \in Conn /\ e.io = NoIO /\ e.con = d.con /\ e.msg = d.msg
        /\ e.fin = d.fin /\ e.opcode = d.opcode
        /\ e.writing = d.writing /\ e.sendq = d.sendq
    BY <2>3, <2>4 DEF Conn
  <2> HIDE DEF e
  <2>8. SameRead(e, c) /\ Writes(e) /\ Queue(e) = Sent(Queue(c), sent, n)
    BY <2>4, <2>5, <2>7, FrameIsNoWrite DEF SameRead, Writes, Queue
  <2>9. Ended(e, sent + n, 1)
    BY <2>1, <2>6, <2>7, <2>8, OnCloseCarries
  <2>10. PICK m \in 0..1 :
           /\ sent' = (sent + n) + m
           /\ ws'.con => /\ e.con /\ Writes(ws')
                         /\ Queue(ws') = Sent(Queue(e), sent + n, m)
    BY <2>9 DEF Ended
  <2>11. n + m \in 0..2 /\ sent' = sent + (n + m)
    BY <2>1, <2>10
  <2>12. Sent(Sent(Queue(c), sent, n), sent + n, m) = Sent(Queue(c), sent, n + m)
    <3>1. Queue(c) \in Seq(Nat) /\ n \in Nat /\ m \in Nat
      BY <2>1, QueueIsSeq
    <3>. QED
      BY <3>1, SentTwice
  <2>13. SameRead(ws', c)
    BY <2>8, <2>9, SameReadTwice DEF Ended
  <2>14. Ended(c, sent, 2)
    BY <2>3, <2>7, <2>8, <2>10, <2>11, <2>12, <2>13 DEF Ended
  <2>15. threw'.onClose # 0
    BY <2>6 DEF OnClose, Throws
  <2>. QED
    BY <2>14, <2>15 DEF Thrown, NoThrow
<1>. QED
  BY <1>1, <1>2 DEF ClosedByPeer

-----------------------------------------------------------------------------
(* The outbox.  A message that is being written is still waiting, and what *)
(* an object that never connected holds is nothing.                        *)

OutInv ==
  /\ ws.con => Writes(ws)
  /\ phase = "new" => ~ws.con /\ ws.writing = <<>> /\ ws.sendq = <<>>

(* A step of the outbox, but for what it says of handlers that threw. *)
OutMoves == \/ Outbox!Open \/ Outbox!Accept \/ Outbox!Deliver \/ Outbox!Lose
            \/ Outbox!Cut \/ Outbox!Shut \/ Outbox!Throw

OutStep == OutInv' /\ OutMoves

LEMMA OutSame ==
  ASSUME UNCHANGED <<ws, sent, wire, closes>>
  PROVE  OutMoves
BY DEF OutMoves, Outbox!Throw

(* A step of an open connection that accepts n messages. *)
LEMMA OutSends ==
  ASSUME ws \in Conn, ws.con, ws'.con, NEW n \in Nat, n <= 1 \/ Thrown', sent \in Nat,
         sent' = sent + n, Queue(ws') = Sent(Queue(ws), sent, n), wire' = wire
  PROVE  OutMoves
<1>1. CASE n = 0
  <2>1. Sent(Queue(ws), sent, 0) = Queue(ws)
    BY QueueIsSeq, SentFew
  <2>2. sent' = sent /\ Queue(ws') = Queue(ws)
    BY <1>1, <2>1
  <2>3. Outbox!Throw
    BY <2>2 DEF Outbox!Throw, Queue
  <2>. QED
    BY <2>3 DEF OutMoves
<1>2. CASE n # 0
  <2>1. /\ sent' \in Nat /\ sent < sent' /\ sent' - sent = n
        /\ sent' = sent + 1 \/ Thrown'
    BY <1>2
  <2>2. Queue(ws') = Queue(ws) \o [i \in 1..(sent' - sent) |-> sent + i]
    BY <2>1 DEF Sent
  <2>3. Outbox!Accept
    BY <2>1, <2>2 DEF Outbox!Accept, Queue
  <2>. QED
    BY <2>3 DEF OutMoves
<1>. QED
  BY <1>1, <1>2

(* The write that ends was the oldest message's. *)
LEMMA OutLeaves ==
  ASSUME ws.con, ws'.con, NEW m \in Nat, ws.writing = <<m>>, ws \in Conn,
         Queue(ws') = ws.sendq, wire \in Seq(Nat), wire' \in {wire, wire \o ws.writing},
         sent' = sent
  PROVE  OutMoves
<1>1. ws.sendq \in Seq(Nat)
  BY DEF Conn
<1>2. /\ Queue(ws) # <<>> /\ Head(Queue(ws)) = m /\ Tail(Queue(ws)) = ws.sendq
  BY <1>1 DEF Queue
<1>3. wire' = wire \/ wire' = Append(wire, m)
  BY AppendIsConcat
<1>4. CASE wire' = wire
  <2>1. Outbox!Lose
    BY <1>2, <1>4 DEF Outbox!Lose, Queue
  <2>. QED
    BY <2>1 DEF OutMoves
<1>5. CASE wire' = Append(wire, m)
  <2>1. Outbox!Deliver
    BY <1>2, <1>5 DEF Outbox!Deliver, Queue
  <2>. QED
    BY <2>1 DEF OutMoves
<1>. QED
  BY <1>3, <1>4, <1>5

(* onClose_ shuts it, unless its handler throws. *)
LEMMA OutEnds ==
  ASSUME ws \in Conn, sent \in Nat, ws.con \/ closes = 0, closes' # 0,
         NEW c, c.con => ws.con /\ Queue(c) = Queue(ws), NEW m \in 1..2,
         Ended(c, sent, m), m = 1 \/ Thrown', wire' = wire, phase' = "up"
  PROVE  OutStep
<1>1. PICK n \in 0..m :
        /\ sent' = sent + n
        /\ ws'.con => c.con /\ Writes(ws') /\ Queue(ws') = Sent(Queue(c), sent, n)
  BY DEF Ended
<1>2. n \in Nat /\ (n <= 1 \/ Thrown')
  BY <1>1
<1>3. CASE ws'.con
  <2>1. OutMoves
    BY <1>1, <1>2, <1>3, OutSends
  <2>. QED
    BY <1>1, <1>3, <2>1 DEF OutStep, OutInv
<1>4. CASE ~ws'.con
  <2>1. sent' \in Nat /\ sent <= sent' /\ (sent' <= sent + 1 \/ Thrown')
    BY <1>1, <1>2
  <2>2. Outbox!Shut
    BY <1>4, <2>1 DEF Outbox!Shut
  <2>. QED
    BY <1>4, <2>2 DEF OutStep, OutInv, OutMoves
<1>. QED
  BY <1>3, <1>4

LEMMA OutOpens ==
  ASSUME ~ws.con, closes = 0, ws'.con, ws'.writing = <<>>, ws'.sendq = <<>>,
         ws'.io # Only("write"), phase' # "new", UNCHANGED <<sent, wire, closes>>
  PROVE  OutStep
<1>1. Queue(ws') = <<>>
  BY DEF Queue
<1>2. Outbox!Open
  BY <1>1 DEF Outbox!Open, Queue
<1>. QED
  BY <1>2 DEF OutStep, OutInv, OutMoves, Writes

(* A step that moves no message. *)
LEMMA OutStutters ==
  ASSUME ws.con, ws'.con, Writes(ws'), Queue(ws') = Queue(ws), phase' = "up",
         UNCHANGED <<sent, wire, closes>>
  PROVE  OutStep
<1>1. Outbox!Throw
  BY DEF Outbox!Throw, Queue
<1>. QED
  BY <1>1 DEF OutStep, OutInv, OutMoves

LEMMA NoWriteYet ==
  ASSUME NEW k \in IOKind \ {"write"}, ws.io = Only(k) \/ ws.io = NoIO, Writes(ws)
  PROVE  ws.writing = <<>>
<1>1. ws.io # Only("write")
  BY OnlyName, IOKinds, FrameIsNoWrite
<1>. QED
  BY <1>1 DEF Writes

(* The operation that called back is over: nothing is being written. *)
LEMMA FinishedQueue ==
  ASSUME NEW k \in IOKind \ {"write"}, ws \in Conn, ws.io = Only(k), Writes(ws)
  PROVE  LET c == Finish(ws, k)
         IN /\ c \in Conn /\ c.io = NoIO /\ c.con = ws.con /\ c.pending = ws.pending
            /\ c.writing = <<>> /\ c.sendq = ws.sendq /\ Queue(c) = Queue(ws)
            /\ Writes(c)
<1> DEFINE c == Finish(ws, k)
<1>1. c \in Conn /\ c.io = NoIO /\ c.con = ws.con /\ c.pending = ws.pending
  BY FinishOnly
<1>2. c.writing = ws.writing /\ c.sendq = ws.sendq
  BY FinishFields
<1>3. ws.writing = <<>>
  BY NoWriteYet
<1> HIDE DEF c
<1>. QED
  BY <1>1, <1>2, <1>3, FrameIsNoWrite DEF Queue, Writes, c

(* A handler, then send_msg(). *)
LEMMA OutGoesOn ==
  ASSUME ws \in Conn, ws.con, sent \in Nat, NEW c \in Conn, Idle(c), c.con, Writes(c),
         Queue(c) = Queue(ws), NEW n \in Sends(sent),
         ws' = SendMsg(Handler(c, sent, n)), sent' = sent + n, wire' = wire, phase' = "up"
  PROVE  OutStep
<1> DEFINE d == Handler(c, sent, n)
<1>1. n \in 0..1
  BY DEF Sends
<1>2. d \in Conn /\ d.con
  BY IdleGuarded, HandlerGuarded
<1>3. Covered(d) /\ Writes(d) /\ Queue(d) = Sent(Queue(c), sent, n)
  BY <1>1, IdleCovered, HandlerCarries
<1>4. Guarded(d, "up", FALSE)
  BY IdleGuarded, HandlerGuarded
<1> HIDE DEF d
<1>5. SendMsg(d).con /\ Writes(SendMsg(d)) /\ Queue(SendMsg(d)) = Queue(d)
  BY <1>2, <1>3, <1>4, SendMsgGuarded, SendMsgCarries
<1>6. ws'.con /\ Writes(ws') /\ Queue(ws') = Sent(Queue(ws), sent, n)
  BY <1>3, <1>5 DEF d
<1>7. OutMoves
  BY <1>1, <1>6, OutSends
<1>. QED
  BY <1>6, <1>7 DEF OutStep, OutInv

LEMMA OpeningOut == ASSUME IInv, OutInv, Opening PROVE OutStep
<1>0. ws \in Conn /\ sent \in Nat /\ closes \in Nat
  BY DEF IInv, Types
<1>1. CASE Handshake
  <2>1. /\ ~ws.con /\ ws.writing = <<>> /\ ws.sendq = <<>> /\ ws.io = NoIO /\ closes = 0
    BY <1>1 DEF IInv, Phases, Idle, Handshake, OutInv
  <2>2. /\ ws'.con /\ ws'.writing = ws.writing /\ ws'.sendq = ws.sendq /\ ws'.io = ws.io
    BY <1>0, <1>1 DEF Handshake, Conn
  <2>. QED
    BY <1>1, <2>1, <2>2, OutOpens, FrameIsNoWrite DEF Handshake, endVars
<1>2. CASE Run
  <2>1. PICK n \in Sends(sent) : ws' = SendMsg(Handler(ws, sent, n)) /\ sent' = sent + n
    BY <1>2 DEF Run
  <2>2. Idle(ws) /\ ws.con /\ Writes(ws) /\ wire' = wire /\ phase' = "up"
    BY <1>2 DEF IInv, Phases, Run, OutInv
  <2>. QED
    BY <1>0, <2>1, <2>2, OutGoesOn
<1>3. CASE AnswerFails \/ BadUrl
  <2>1. UNCHANGED <<ws, sent, wire, closes>> /\ phase' # "new"
    BY <1>3 DEF AnswerFails, BadUrl, endVars
  <2>. QED
    BY <2>1, OutSame DEF OutStep, OutInv, Writes
<1>4. CASE Connected
  <2> DEFINE c == [ws EXCEPT !.con = TRUE]
  <2>1. /\ ~ws.con /\ ws.writing = <<>> /\ ws.sendq = <<>> /\ ws.io = NoIO /\ closes = 0
    BY <1>4 DEF IInv, Phases, Idle, Connected, OutInv
  <2>2. c \in Conn /\ c.con /\ c.io = NoIO /\ c.writing = <<>> /\ c.sendq = <<>>
    BY <1>0, <2>1 DEF Conn
  <2> HIDE DEF c
  <2>3. ws' = Issue(c, "hsWrite")
    BY <1>4 DEF Connected, c
  <2>4. ws'.con /\ ws'.io = Only("hsWrite") /\ ws'.writing = <<>> /\ ws'.sendq = <<>>
    BY <2>2, <2>3, IssueOne, IssueFields, IOKinds
  <2>5. ws'.io # Only("write")
    BY <2>4, OnlyName, IOKinds
  <2>. QED
    BY <1>4, <2>1, <2>4, <2>5, OutOpens DEF Connected, endVars
<1>5. CASE ConnectFails
  <2>1. Idle(ws) /\ ~ws.con /\ closes = 0 /\ OnClose(ws, sent, 0)
    BY <1>5 DEF IInv, Phases, ConnectFails
  <2>2. Ended(ws, sent, 1)
    BY <1>0, <2>1, OnCloseCarries DEF Idle
  <2>3. closes' # 0 /\ wire' = wire /\ phase' = "up"
    BY <1>0, <1>5, <2>1 DEF OnClose, ConnectFails
  <2>. QED
    BY <1>0, <2>1, <2>2, <2>3, OutEnds
<1>6. CASE RequestWritten
  <2>1. ws.con /\ ws.io = Only("hsWrite") /\ Writes(ws) /\ phase = "connecting"
    BY <1>6, Opened DEF RequestWritten, Connecting, OutInv
  <2> DEFINE c == Finish(ws, "hsWrite")
  <2>2. c \in Conn /\ c.con /\ c.io = NoIO /\ c.writing = <<>> /\ Queue(c) = Queue(ws)
    BY <1>0, <2>1, FinishedQueue, IOKinds
  <2> HIDE DEF c
  <2>3. ws' = Issue(c, "hsRead")
    BY <1>6 DEF RequestWritten, c
  <2>4. /\ ws'.con /\ ws'.io = Only("hsRead") /\ ws'.writing = <<>>
        /\ ws'.sendq = c.sendq /\ Queue(ws') = Queue(ws)
    BY <2>2, <2>3, IssueOne, IssueFields, IOKinds DEF Queue
  <2>5. ws'.io # Only("write")
    BY <2>4, OnlyName, IOKinds
  <2>6. Writes(ws')
    BY <2>4, <2>5 DEF Writes
  <2>7. Outbox!Throw
    BY <1>6, <2>1, <2>4 DEF RequestWritten, Outbox!Throw, Queue
  <2>. QED
    BY <1>6, <2>1, <2>6, <2>7 DEF OutStep, OutMoves, OutInv, RequestWritten
<1>7. CASE ResponseRead
  <2>1. PICK n \in Sends(sent) : /\ ws' = SendMsg(Handler(Finish(ws, "hsRead"), sent, n))
                                 /\ sent' = sent + n
    BY <1>7 DEF ResponseRead
  <2>2. ws.con /\ ws.io = Only("hsRead") /\ ~ws.pending /\ Writes(ws)
    BY <1>7, Opened DEF ResponseRead, Connecting, OutInv
  <2> DEFINE c == Finish(ws, "hsRead")
  <2>3. /\ c \in Conn /\ c.con /\ Idle(c) /\ Writes(c) /\ Queue(c) = Queue(ws)
    BY <1>0, <2>2, FinishedQueue, IOKinds DEF Idle
  <2>4. ws' = SendMsg(Handler(c, sent, n))
    BY <2>1
  <2> HIDE DEF c
  <2>5. wire' = wire /\ phase' = "up"
    BY <1>7 DEF ResponseRead
  <2>. QED
    BY <1>0, <2>1, <2>2, <2>3, <2>4, <2>5, OutGoesOn
<1>8. CASE OpeningFails
  <2>1. PICK k \in Connecting : ws.io[k] > 0 /\ OnClose(Finish(ws, k), sent, 0)
    BY <1>8 DEF OpeningFails
  <2>2. ws.con /\ ~ws.pending /\ ws.io = Only(k) /\ Writes(ws)
    BY <2>1, Opened DEF OutInv
  <2>3. k \in IOKind \ {"write"}
    BY DEF Connecting, IOKind
  <2> DEFINE c == Finish(ws, k)
  <2>4. c \in Conn /\ c.io = NoIO /\ Writes(c) /\ Queue(c) = Queue(ws)
    BY <1>0, <2>2, <2>3, FinishedQueue
  <2>5. OnClose(c, sent, 0)
    BY <2>1
  <2> HIDE DEF c
  <2>6. Ended(c, sent, 1)
    BY <1>0, <2>4, <2>5, OnCloseCarries
  <2>7. closes' # 0 /\ wire' = wire /\ phase' = "up"
    BY <1>0, <1>8, <2>5 DEF OnClose, OpeningFails
  <2>. QED
    BY <1>0, <2>2, <2>4, <2>6, <2>7, OutEnds
<1>. QED
  BY <1>1, <1>2, <1>3, <1>4, <1>5, <1>6, <1>7, <1>8 DEF Opening

LEMMA HeaderFields ==
  ASSUME NEW c \in Conn, NEW f \in Frame, role \in {"server", "client"}
  PROVE  LET h == Header(c, f)
             d == ParseLen(h, f)
         IN /\ h.msg = c.msg /\ h.writing = c.writing /\ h.sendq = c.sendq
            /\ h.fin = f.fin /\ h.opcode = ParseOpcode(c, f)
            /\ d.msg = c.msg /\ d.writing = c.writing /\ d.sendq = c.sendq
            /\ d.fin = f.fin /\ d.opcode = ParseOpcode(c, f)
<1>1. ParseOpcode(c, f) \in Opcode /\ f.fin \in BOOLEAN /\ f.long \in BOOLEAN
  BY DEF ParseOpcode, Conn, Frame
<1>2. LET h == Header(c, f)
      IN /\ h.msg = c.msg /\ h.writing = c.writing /\ h.sendq = c.sendq
         /\ h.fin = f.fin /\ h.opcode = ParseOpcode(c, f)
  BY <1>1 DEF Header, Conn
<1>3. \A d \in Conn : LET e == ParseLen(d, f)
                      IN /\ e.msg = d.msg /\ e.writing = d.writing /\ e.sendq = d.sendq
                         /\ e.fin = d.fin /\ e.opcode = d.opcode
  BY <1>1 DEF ParseLen, Conn
<1>4. Header(c, f) \in Conn
  BY HeaderOK
<1>. QED
  BY <1>2, <1>3, <1>4

LEMMA ReadLenFields ==
  ASSUME NEW c \in Conn, c.io = NoIO
  PROVE  LET d == ReadLen(c)
         IN /\ d.msg = c.msg /\ d.fin = c.fin /\ d.opcode = c.opcode /\ d.con = c.con
            /\ d.writing = c.writing /\ d.sendq = c.sendq
            /\ \E k \in InFrame : d.io = Only(k)
<1>1. PICK k \in InFrame : ReadLen(c) = Issue(c, k)
  BY DEF ReadLen, ReadMaskOrMsg, InFrame
<1>. QED
  BY <1>1, IssueOne, IssueFields, IOKinds

LEMMA FrameReadOut == ASSUME IInv, OutInv, FrameRead PROVE OutStep
<1>1. PICK f \in Frame :
        IF ParseOpcode(ws, f) = "close" THEN CloseFrame(f) ELSE OtherFrame(f)
  BY DEF FrameRead
<1> DEFINE c == Finish(ws, "frame")
           h == Header(c, f)
           l == ParseLen(h, f)
<1>2. "frame" \in IOKind \ Connecting /\ "frame" \in IOKind \ {"write"} /\ ws.io["frame"] > 0
  BY IOKinds DEF Connecting, FrameRead
<1>3. /\ ws \in Conn /\ ws.con /\ ws.io = Only("frame") /\ Writes(ws)
      /\ phase = "up" /\ closes \in Nat /\ threw \in Throws /\ sent \in Nat
      /\ role \in {"server", "client"}
  BY <1>2, Awaited DEF OutInv, IInv, Types
<1>4. c \in Conn /\ c.io = NoIO /\ c.con /\ c.writing = <<>> /\ Queue(c) = Queue(ws)
  BY <1>2, <1>3, FinishedQueue
<1>5. UNCHANGED <<phase, wire>>
  BY DEF FrameRead
<1>6. CASE CloseFrame(f)
  <2>1. ClosedByPeer(h)
    BY <1>6 DEF CloseFrame
  <2> HIDE DEF c
  <2>2. /\ h \in Conn /\ h.io = NoIO /\ h.con /\ h.pending
        /\ h.writing = c.writing /\ h.sendq = c.sendq
    BY <1>3, <1>4, HeaderOK, HeaderFields
  <2> HIDE DEF h
  <2>3. Writes(h) /\ Queue(h) = Queue(ws)
    BY <1>4, <2>2, FrameIsNoWrite DEF Writes, Queue
  <2>4. Ended(h, sent, 1) \/ (Ended(h, sent, 2) /\ Thrown')
    BY <1>3, <2>1, <2>2, <2>3, ClosedByPeerCarries
  <2>5. closes' # 0
    <3>1. closes' = closes + 1 \/ closes' = closes + 1 + 1
      BY <2>1 DEF ClosedByPeer, OnClose
    <3>. QED
      BY <1>3, <3>1
  <2>6. 1 \in 1..2 /\ 2 \in 1..2
    OBVIOUS
  <2>. QED
    BY <1>3, <1>5, <2>3, <2>4, <2>5, <2>6, OutEnds
<1>7. CASE OtherFrame(f)
  <2>1. ws' = ReadLen(l) /\ UNCHANGED <<sent, closes>>
    BY <1>7 DEF OtherFrame, endVars
  <2> HIDE DEF c
  <2>2. l \in Conn /\ l.io = NoIO /\ l.con /\ l.writing = c.writing /\ l.sendq = c.sendq
    BY <1>3, <1>4, HeaderOK, HeaderFields
  <2> HIDE DEF h, l
  <2>3. PICK k \in InFrame : ws'.io = Only(k)
    BY <2>1, <2>2, ReadLenFields
  <2>4. ws'.con /\ ws'.writing = <<>> /\ Queue(ws') = Queue(c)
    BY <1>4, <2>1, <2>2, ReadLenFields DEF Queue
  <2>5. Writes(ws')
    BY <2>3, <2>4, FrameIsNoWrite DEF Writes
  <2>. QED
    BY <1>3, <1>4, <1>5, <2>1, <2>4, <2>5, OutStutters
<1>. QED
  BY <1>1, <1>6, <1>7

(* Reads of the rest of a frame, and what fails there, move no message. *)
LEMMA InFrameOut ==
  ASSUME IInv, OutInv, LenRead \/ MaskRead \/ LenFails \/ MaskFails \/ MsgFails
  PROVE  OutStep
<1>1. UNCHANGED <<phase, sent, wire, closes>>
  BY DEF LenRead, MaskRead, LenFails, MaskFails, MsgFails, endVars
<1>2. PICK k \in InFrame :
        /\ ws.io[k] > 0
        /\ \/ \E l \in InFrame : ws' = Issue(Finish(ws, k), l)
           \/ ws' \in {Finish(ws, k), [Finish(ws, k) EXCEPT !.pending = FALSE],
                       [Finish(ws, k) EXCEPT !.pending = FALSE, !.self = FALSE]}
  BY DEF LenRead, MaskRead, ReadMaskOrMsg, LenFails, MaskFails, MsgFails, InFrame
<1>3. k \in IOKind \ Connecting /\ k \in IOKind \ {"write"}
  BY DEF InFrame, Connecting, IOKind
<1>4. ws \in Conn /\ ws.con /\ ws.io = Only(k) /\ Writes(ws) /\ phase = "up"
  BY <1>2, <1>3, Awaited DEF OutInv
<1> DEFINE c == Finish(ws, k)
<1>5. c \in Conn /\ c.io = NoIO /\ c.con /\ c.writing = <<>> /\ Queue(c) = Queue(ws)
  BY <1>3, <1>4, FinishedQueue
<1>6. \/ \E l \in InFrame : ws' = Issue(c, l)
      \/ ws' \in {c, [c EXCEPT !.pending = FALSE], [c EXCEPT !.pending = FALSE, !.self = FALSE]}
  BY <1>2
<1> HIDE DEF c
<1>7. CASE ws' \in {c, [c EXCEPT !.pending = FALSE],
                    [c EXCEPT !.pending = FALSE, !.self = FALSE]}
  <2>1. ws'.con /\ ws'.io = NoIO /\ ws'.writing = <<>> /\ ws'.sendq = c.sendq
    BY <1>5, <1>7 DEF Conn
  <2>2. Writes(ws') /\ Queue(ws') = Queue(c)
    BY <1>5, <2>1, FrameIsNoWrite DEF Writes, Queue
  <2>. QED
    BY <1>1, <1>4, <1>5, <2>1, <2>2, OutStutters
<1>8. CASE \E l \in InFrame : ws' = Issue(c, l)
  <2>1. PICK l \in InFrame : ws' = Issue(c, l)
    BY <1>8
  <2>2. ws'.con /\ ws'.io = Only(l) /\ ws'.writing = <<>> /\ ws'.sendq = c.sendq
    BY <1>5, <2>1, IssueOne, IssueFields, IOKinds
  <2>3. Writes(ws') /\ Queue(ws') = Queue(c)
    BY <1>5, <2>2, FrameIsNoWrite DEF Writes, Queue
  <2>. QED
    BY <1>1, <1>4, <1>5, <2>2, <2>3, OutStutters
<1>. QED
  BY <1>6, <1>7, <1>8

LEMMA FrameFailsOut == ASSUME IInv, OutInv, FrameFails PROVE OutStep
<1> DEFINE c == Finish(ws, "frame")
           d == [c EXCEPT !.pending = FALSE]
<1>1. /\ "frame" \in IOKind \ Connecting /\ "frame" \in IOKind \ {"write"}
      /\ ws.io["frame"] > 0
  BY IOKinds DEF Connecting, FrameFails
<1>2. /\ ws \in Conn /\ ws.con /\ ws.io = Only("frame") /\ Writes(ws) /\ phase = "up"
      /\ closes \in Nat /\ sent \in Nat
  BY <1>1, Awaited DEF OutInv, IInv, Types
<1>3. c \in Conn /\ c.io = NoIO /\ c.writing = <<>> /\ Queue(c) = Queue(ws)
  BY <1>1, <1>2, FinishedQueue
<1>4. OnClose(d, sent, 0) /\ UNCHANGED <<phase, wire>>
  BY DEF FrameFails
<1> HIDE DEF c
<1>5. d \in Conn /\ d.io = NoIO /\ d.writing = <<>> /\ d.sendq = c.sendq
  BY <1>3 DEF Conn
<1> HIDE DEF d
<1>6. Writes(d) /\ Queue(d) = Queue(ws)
  BY <1>3, <1>5, FrameIsNoWrite DEF Writes, Queue
<1>7. Ended(d, sent, 1)
  BY <1>2, <1>4, <1>5, <1>6, OnCloseCarries
<1>8. closes' # 0
  BY <1>2, <1>4 DEF OnClose
<1>. QED
  BY <1>2, <1>4, <1>6, <1>7, <1>8, OutEnds

LEMMA PayloadFields ==
  ASSUME IInv, ws.io["msg"] > 0
  PROVE  LET c == Payload(ws)
         IN /\ c.fin = ws.fin /\ c.opcode = ws.opcode
            /\ c.writing = ws.writing /\ c.sendq = ws.sendq
<1> DEFINE b == Finish(ws, "msg")
<1>1. "msg" \in IOKind \ Connecting
  BY IOKinds DEF Connecting
<1>2. ws \in Conn /\ b \in Conn /\ rx \in Nat
  BY <1>1, CalledBack, Awaited DEF IInv, Types
<1>3. /\ b.msg = ws.msg /\ b.fin = ws.fin /\ b.opcode = ws.opcode
      /\ b.writing = ws.writing /\ b.sendq = ws.sendq
  BY <1>2, FinishFields, IOKinds
<1>4. Payload(ws) = [b EXCEPT !.pending = FALSE, !.msg = Append(b.msg, rx + 1)]
  BY DEF Payload
<1> HIDE DEF b
<1>. QED
  BY <1>2, <1>3, <1>4 DEF Conn

LEMMA MsgReadOut == ASSUME IInv, OutInv, MsgRead PROVE OutStep
<1> DEFINE c == Payload(ws)
<1>1. "msg" \in IOKind \ Connecting /\ "msg" \in IOKind \ {"write"} /\ ws.io["msg"] > 0
  BY IOKinds DEF Connecting, MsgRead
<1>2. c \in Conn /\ c.io = NoIO /\ c.con /\ ~c.pending
  BY <1>1, PayloadOK
<1>3. /\ ws \in Conn /\ ws.con /\ ws.io = Only("msg") /\ Writes(ws)
      /\ phase = "up" /\ sent \in Nat
  BY <1>1, Awaited DEF OutInv, IInv, Types
<1>4. ws.writing = <<>>
  BY <1>1, <1>3, NoWriteYet
<1>5. c.writing = <<>> /\ c.sendq = ws.sendq
  BY <1>1, <1>4, PayloadFields
<1>6. PayloadOfFragment(c) \/ PayloadOfPing(c) \/ PayloadOfMessage(c)
  BY DEF MsgRead
<1>7. UNCHANGED <<phase, wire, closes>>
  BY DEF MsgRead
<1> HIDE DEF c
<1>8. Idle(c) /\ Writes(c) /\ Queue(c) = Queue(ws) /\ Queue(c) \in Seq(Nat)
  BY <1>2, <1>4, <1>5, FrameIsNoWrite, QueueIsSeq DEF Idle, Writes, Queue
<1>9. CASE PayloadOfFragment(c)
  <2>1. ws' = Issue(c, "frame") /\ sent' = sent
    BY <1>2, <1>9 DEF PayloadOfFragment, ReadFrame
  <2>2. ws'.con /\ ws'.io = Only("frame") /\ ws'.writing = <<>> /\ ws'.sendq = c.sendq
    BY <1>2, <1>5, <2>1, IssueOne, IssueFields, IOKinds
  <2>3. Writes(ws') /\ Queue(ws') = Queue(c)
    BY <1>5, <2>2, FrameIsNoWrite DEF Writes, Queue
  <2>. QED
    BY <1>3, <1>7, <1>8, <2>1, <2>2, <2>3, OutStutters
<1>10. ASSUME NEW n \in 0..1, sent' = sent + n, ws'.con, Writes(ws'),
              Queue(ws') = Sent(Queue(c), sent, n)
       PROVE  OutStep
  <2>1. OutMoves
    BY <1>3, <1>7, <1>8, <1>10, OutSends
  <2>. QED
    BY <1>3, <1>7, <1>10, <2>1 DEF OutStep, OutInv
<1>11. CASE PayloadOfPing(c)
  <2>1. ws' = Send(c, sent + 1) /\ sent' = sent + 1 /\ sent + 1 \in Nat
    BY <1>3, <1>11 DEF PayloadOfPing
  <2>2. Guarded(c, "up", FALSE) /\ Covered(c)
    BY <1>8, IdleCovered DEF Guarded, Idle
  <2>3. Writes(ws') /\ Queue(ws') = Append(Queue(c), sent + 1)
    BY <1>2, <1>8, <2>1, <2>2, SendCarries
  <2>4. ws'.con
    BY <1>2, <2>1, <1>8, IdleGuarded, SendGuarded
  <2>5. Queue(ws') = Sent(Queue(c), sent, 1)
    BY <1>3, <1>8, <2>3, SentFew
  <2>. QED
    BY <1>10, <2>1, <2>3, <2>4, <2>5
<1>12. CASE PayloadOfMessage(c)
  <2>1. PICK n \in Sends(sent) : /\ sent' = sent + n
                                 /\ ws' = OnMsg(c, n) \/ ws' = OnMsgThrows(c, n)
    BY <1>12 DEF PayloadOfMessage
  <2>2. n \in 0..1
    BY DEF Sends
  <2>3. CASE ws' = OnMsg(c, n)
    <3>1. ws'.con /\ Writes(ws') /\ Queue(ws') = Sent(Queue(c), sent, n)
      BY <1>2, <1>3, <1>8, <2>2, <2>3, OnMsgOK, OnMsgCarries
    <3>. QED
      BY <1>10, <2>1, <2>2, <3>1
  <2>4. CASE ws' = OnMsgThrows(c, n)
    <3>1. ws'.con /\ Writes(ws') /\ Queue(ws') = Sent(Queue(c), sent, n)
      BY <1>2, <1>3, <1>8, <2>2, <2>4, OnMsgThrowsOK, OnMsgThrowsCarries
    <3>. QED
      BY <1>10, <2>1, <2>2, <3>1
  <2>. QED
    BY <2>1, <2>3, <2>4
<1>. QED
  BY <1>6, <1>9, <1>11, <1>12

LEMMA AppSendOut == ASSUME IInv, OutInv, AppSend PROVE OutStep
<1>1. /\ ws \in Conn /\ Guarded(ws, net, Thrown) /\ ws.con /\ Writes(ws) /\ phase' = "up"
      /\ sent \in Nat /\ sent + 1 \in Nat /\ sent' = sent + 1 /\ ws' = Send(ws, sent + 1)
      /\ wire' = wire /\ closes' = closes /\ Thrown \in BOOLEAN /\ Thrown' = Thrown
  BY DEF IInv, Types, Phases, OutInv, AppSend, endVars, Thrown
<1>2. ws'.con
  BY <1>1, SendGuarded
<1>3. CASE Covered(ws)
  <2>1. Writes(ws') /\ Queue(ws') = Append(Queue(ws), sent + 1)
    BY <1>1, <1>3, SendCarries
  <2>2. Queue(ws') = Sent(Queue(ws), sent, 1)
    BY <1>1, <2>1, QueueIsSeq, SentFew
  <2>3. OutMoves
    BY <1>1, <1>2, <2>2, OutSends
  <2>. QED
    BY <1>1, <1>2, <2>1, <2>3 DEF OutStep, OutInv
<1>4. CASE ~Covered(ws)
  <2>1. ws.io = Only("write") /\ ~ws.pending
    BY <1>4 DEF Covered
  <2>2. Thrown
    BY <1>1, <2>1, OnlyName, IOKinds, FrameIsNoWrite DEF Guarded
  <2>3. PICK m \in Nat : ws.writing = <<m>>
    BY <1>1, <2>1 DEF Writes
  <2>4. /\ Writes(ws') /\ Queue(ws') = Append(ws.sendq, sent + 1)
        /\ ws.sendq \in Seq(Nat)
    BY <1>1, <2>1, SendCuts
  <2>5. Queue(ws) # <<>> /\ Tail(Queue(ws)) = ws.sendq
    BY <2>3, <2>4 DEF Queue
  <2>6. Outbox!Cut
    BY <1>1, <1>2, <2>2, <2>4, <2>5 DEF Outbox!Cut, Queue
  <2>. QED
    BY <1>1, <1>2, <2>4, <2>6 DEF OutStep, OutMoves, OutInv
<1>. QED
  BY <1>3, <1>4

(* Written or lost, the oldest message leaves and the next one follows. *)
LEMMA WriteOut == ASSUME IInv, OutInv, WriteDone \/ WriteFails PROVE OutStep
<1> DEFINE c == Finish(ws, "write")
           d == [c EXCEPT !.pending = FALSE, !.writing = <<>>]
<1>1. "write" \in IOKind \ Connecting /\ ws.io["write"] > 0
  BY IOKinds DEF Connecting, WriteDone, WriteFails
<1>2. /\ ws \in Conn /\ ws.con /\ ws.io = Only("write") /\ phase = "up"
      /\ wire \in Seq(Nat) /\ Writes(ws)
  BY <1>1, Awaited DEF OutInv, IInv, Types
<1>3. PICK m \in Nat : ws.writing = <<m>>
  BY <1>2 DEF Writes
<1>4. c \in Conn /\ c.io = NoIO /\ c.con /\ c.sendq = ws.sendq
  BY <1>1, CalledBack
<1>5. ws' = SendMsg(d) /\ wire' \in {wire, wire \o ws.writing} /\ UNCHANGED <<phase, sent>>
  BY DEF WriteDone, WriteFails, Written
<1> HIDE DEF c
<1>6. d \in Conn /\ d.io = NoIO /\ d.con /\ ~d.pending /\ d.writing = <<>> /\ d.sendq = ws.sendq
  <2>1. <<>> \in Seq(Nat)
    OBVIOUS
  <2>. QED
    BY <1>4, <2>1 DEF Conn
<1> HIDE DEF d
<1>7. Idle(d) /\ Covered(d) /\ Writes(d) /\ Queue(d) = ws.sendq
  <2>1. ws.sendq \in Seq(Nat)
    BY <1>2 DEF Conn
  <2>. QED
    BY <1>6, <2>1, FrameIsNoWrite DEF Idle, Covered, Writes, Queue
<1>8. Writes(ws') /\ Queue(ws') = ws.sendq
  BY <1>5, <1>6, <1>7, SendMsgCarries
<1>9. ws'.con
  BY <1>5, <1>6, <1>7, IdleGuarded, SendMsgGuarded
<1>10. OutMoves
  BY <1>2, <1>3, <1>5, <1>8, <1>9, OutLeaves
<1>. QED
  BY <1>2, <1>5, <1>8, <1>9, <1>10 DEF OutStep, OutInv

(* What handlers threw is not forgotten. *)
LEMMA ThrownStays == ASSUME IInv, [Next]_vars PROVE Thrown => Thrown'
<1>1. threw \in Throws
  BY DEF IInv, Types
<1>2. ASSUME NEW c, NEW s, NEW k \in 0..1, OnClose(c, s, k) PROVE Thrown => Thrown'
  BY <1>1, <1>2 DEF OnClose, Thrown, Throws, NoThrow
<1>3. CASE threw' = [threw EXCEPT !.onMsg = @ + 1]
  BY <1>1, <1>3 DEF Thrown, Throws, NoThrow
<1>4. CASE UNCHANGED threw
  BY <1>4 DEF Thrown
<1>5. CASE ConnectFails \/ OpeningFails \/ FrameFails
  <2>1. \E c : OnClose(c, sent, 0)
    BY <1>5 DEF ConnectFails, OpeningFails, FrameFails
  <2>. QED
    BY <1>2, <2>1
<1>6. CASE FrameRead
  <2>1. (\E c, s : OnClose(c, s, 1)) \/ UNCHANGED threw
    BY <1>6 DEF FrameRead, CloseFrame, OtherFrame, ClosedByPeer, endVars
  <2>. QED
    BY <1>2, <1>4, <2>1
<1>7. CASE MsgRead
  <2>1. threw' = [threw EXCEPT !.onMsg = @ + 1] \/ UNCHANGED threw
    BY <1>7 DEF MsgRead, PayloadOfFragment, PayloadOfPing, PayloadOfMessage
  <2>. QED
    BY <1>3, <1>4, <2>1
<1>8. CASE \/ Handshake \/ Run \/ AnswerFails \/ BadUrl \/ Connected \/ RequestWritten
           \/ ResponseRead \/ LenRead \/ MaskRead \/ LenFails \/ MaskFails \/ MsgFails
           \/ Sending \/ Break \/ UNCHANGED vars
  <2>1. UNCHANGED threw
    BY <1>8 DEF Handshake, Run, AnswerFails, BadUrl, Connected, RequestWritten,
                ResponseRead, LenRead, MaskRead, LenFails, MaskFails, MsgFails,
                Sending, AppSend, WriteDone, WriteFails, Break, vars, endVars
  <2>. QED
    BY <1>4, <2>1
<1>. QED
  BY <1>5, <1>6, <1>7, <1>8 DEF Next, Opening, Receiving

LEMMA NextOut == IInv /\ OutInv /\ [Next]_vars => OutInv' /\ Outbox!OutNext
<1> SUFFICES ASSUME IInv, OutInv, [Next]_vars PROVE OutInv' /\ Outbox!OutNext
  OBVIOUS
<1>1. OutStep
  <2>1. CASE Opening
    BY <2>1, OpeningOut
  <2>2. CASE Receiving
    BY <2>2, FrameReadOut, InFrameOut, MsgReadOut, FrameFailsOut DEF Receiving
  <2>3. CASE Sending
    BY <2>3, AppSendOut, WriteOut DEF Sending
  <2>4. CASE Break \/ UNCHANGED vars
    <3>1. UNCHANGED <<phase, ws, sent, wire, closes>>
      BY <2>4 DEF Break, vars, endVars
    <3>. QED
      BY <3>1, OutSame DEF OutStep, OutInv, Writes
  <2>. QED
    BY <2>1, <2>2, <2>3, <2>4 DEF Next
<1>2. Thrown' \in BOOLEAN /\ (Thrown => Thrown')
  BY ThrownStays DEF Thrown
<1>. QED
  BY <1>1, <1>2 DEF OutStep, OutMoves, Outbox!OutNext

(* The sending side implements the FIFO outbox: whatever is read, fails,   *)
(* is cancelled or sent by a handler, messages leave in the order send()   *)
(* accepted them and at most once, and none after the connection closed.   *)
THEOREM OutboxHolds == Spec => OutboxSpec
<1>1. Init => OutInv /\ Outbox!OutInit
  BY DEF Init, WsInit, OutInv, Thrown, Outbox!OutInit
<1>2. IInv /\ OutInv /\ [Next]_vars => OutInv' /\ [Outbox!OutNext]_(Outbox!outVars)
  BY NextOut
<1>. QED
  BY <1>1, <1>2, SpecIInv, PTL DEF Spec, OutboxSpec, Outbox!OutSpec

-----------------------------------------------------------------------------
(* What an outbox promises, then, of the messages by number.               *)

Waiting == IF ws.con THEN Queue(ws) ELSE <<>>

(* A queue of the last ones of n messages, in order. *)
Counted(q, n) == /\ q \in Seq(Nat) /\ Len(q) <= n
                 /\ \A i \in 1..Len(q) : q[i] = (n - Len(q)) + i

(* What waits are the messages accepted last, all of them and in order,    *)
(* and what was written came before them.                                  *)
Numbered ==
  /\ sent \in Nat /\ wire \in Seq(Nat) /\ Counted(Waiting, sent)
  /\ \A i \in 1..Len(wire) : wire[i] <= sent - Len(Waiting)
  /\ \A i, j \in 1..Len(wire) : i < j => wire[i] < wire[j]

LEMMA CountedMore ==
  ASSUME NEW s \in Nat, NEW q, Counted(q, s), NEW n \in Nat
  PROVE  LET r == Sent(q, s, n) IN Counted(r, s + n) /\ Len(r) = Len(q) + n
<1> DEFINE r == Sent(q, s, n)
           l == Len(q)
<1>1. q \in Seq(Nat) /\ l \in Nat /\ l <= s /\ \A i \in 1..l : q[i] = (s - l) + i
  BY LenProperties DEF Counted
<1>2. Behind(q, s, n, r)
  BY <1>1, SentBehind
<1>3. /\ r \in Seq(Nat) /\ Len(r) = l + n
      /\ \A i \in 1..l : r[i] = q[i]
      /\ \A i \in (l + 1)..(l + n) : r[i] = s + (i - l)
  BY <1>2 DEF Behind
<1> HIDE DEF r, l
<1>4. ASSUME NEW i \in 1..Len(r) PROVE r[i] = ((s + n) - Len(r)) + i
  <2>1. (s + n) - Len(r) = s - l /\ i \in 1..(l + n)
    BY <1>1, <1>3
  <2>2. CASE i <= l
    BY <1>1, <1>3, <2>1, <2>2
  <2>3. CASE i > l
    <3>1. i \in (l + 1)..(l + n) /\ s + (i - l) = (s - l) + i
      BY <1>1, <2>1, <2>3
    <3>. QED
      BY <1>3, <2>1, <3>1
  <2>. QED
    BY <1>1, <2>1, <2>2, <2>3
<1>5. Len(r) <= s + n
  BY <1>1, <1>3
<1>. QED
  BY <1>3, <1>4, <1>5 DEF Counted, r, l

LEMMA CountedTail ==
  ASSUME NEW s \in Nat, NEW q, Counted(q, s), q # <<>>
  PROVE  /\ Counted(Tail(q), s) /\ Len(Tail(q)) = Len(q) - 1
         /\ Head(q) = (s - Len(q)) + 1 /\ Head(q) \in Nat
<1> DEFINE r == Tail(q)
<1>1. q \in Seq(Nat) /\ Len(q) <= s /\ \A i \in 1..Len(q) : q[i] = (s - Len(q)) + i
  BY DEF Counted
<1>2. /\ r \in Seq(Nat) /\ Len(q) \in Nat /\ Len(q) >= 1 /\ Len(r) = Len(q) - 1
      /\ Head(q) = q[1] /\ \A i \in 1..Len(r) : r[i] = q[i + 1]
  BY <1>1, HeadTailProperties, EmptySeq, LenProperties
<1> HIDE DEF r
<1>3. ASSUME NEW i \in 1..Len(r) PROVE r[i] = (s - Len(r)) + i
  <2>1. i + 1 \in 1..Len(q) /\ (s - Len(q)) + (i + 1) = (s - Len(r)) + i
    BY <1>1, <1>2
  <2>. QED
    BY <1>1, <1>2, <2>1
<1>4. Len(r) <= s /\ (s - Len(q)) + 1 \in Nat /\ q[1] = (s - Len(q)) + 1
  BY <1>1, <1>2
<1>. QED
  BY <1>1, <1>2, <1>3, <1>4 DEF Counted, r

(* No message is written twice, before an older one, or without having     *)
(* been accepted; and what no longer waits is older than all that waits.   *)
WrittenInOrder ==
  /\ \A i, j \in 1..Len(wire) : i < j => wire[i] < wire[j]
  /\ \A i \in 1..Len(wire) : wire[i] <= sent
  /\ ws.con => \A m \in 1..sent :
       \/ \A i \in 1..Len(Queue(ws)) : m < Queue(ws)[i]
       \/ \E i \in 1..Len(Queue(ws)) : Queue(ws)[i] = m

LEMMA OutboxMoves ==
  ASSUME [Outbox!OutNext]_(Outbox!outVars), sent \in Nat
  PROVE  \/ UNCHANGED <<sent, wire>> /\ Waiting' = Waiting
         \/ \E n \in Nat : /\ wire' = wire /\ sent' = sent + n
                           /\ Waiting' = Sent(Waiting, sent, n)
         \/ /\ Waiting # <<>> /\ Waiting' = Tail(Waiting) /\ sent' = sent
            /\ wire' = wire \/ wire' = Append(wire, Head(Waiting))
         \/ /\ Waiting # <<>> /\ wire' = wire /\ sent' = sent + 1
            /\ Waiting' = Append(Tail(Waiting), sent + 1)
         \/ wire' = wire /\ sent' \in Nat /\ sent <= sent' /\ Waiting' = <<>>
<1>1. Outbox!Open \/ Outbox!Throw \/ UNCHANGED Outbox!outVars
      => UNCHANGED <<sent, wire>> /\ Waiting' = Waiting
  BY DEF Outbox!Open, Outbox!Throw, Outbox!outVars, Waiting, Queue
<1>2. Outbox!Accept => \E n \in Nat : /\ wire' = wire /\ sent' = sent + n
                                      /\ Waiting' = Sent(Waiting, sent, n)
  <2>1. SUFFICES ASSUME Outbox!Accept
                 PROVE  \E n \in Nat : /\ wire' = wire /\ sent' = sent + n
                                       /\ Waiting' = Sent(Waiting, sent, n)
    OBVIOUS
  <2>2. sent' \in Nat /\ sent < sent' /\ wire' = wire
    BY <2>1 DEF Outbox!Accept
  <2>3. sent' - sent \in Nat /\ sent' = sent + (sent' - sent)
    <3>1. \A x, y \in Nat : x < y => y - x \in Nat /\ y = x + (y - x)
      OBVIOUS
    <3>. QED
      BY <2>2, <3>1, Zenon
  <2>4. Waiting' = Sent(Waiting, sent, sent' - sent)
    BY <2>1 DEF Outbox!Accept, Waiting, Queue, Sent
  <2>. QED
    BY <2>2, <2>3, <2>4
<1>3. Outbox!Deliver => /\ Waiting # <<>> /\ Waiting' = Tail(Waiting) /\ sent' = sent
                        /\ wire' = Append(wire, Head(Waiting))
  BY DEF Outbox!Deliver, Waiting, Queue
<1>4. Outbox!Lose => /\ Waiting # <<>> /\ Waiting' = Tail(Waiting)
                     /\ sent' = sent /\ wire' = wire
  BY DEF Outbox!Lose, Waiting, Queue
<1>5. Outbox!Cut => /\ Waiting # <<>> /\ wire' = wire /\ sent' = sent + 1
                    /\ Waiting' = Append(Tail(Waiting), sent + 1)
  BY DEF Outbox!Cut, Waiting, Queue
<1>6. Outbox!Shut => wire' = wire /\ sent' \in Nat /\ sent <= sent' /\ Waiting' = <<>>
  BY DEF Outbox!Shut, Waiting, Queue
<1>. QED
  BY <1>1, <1>2, <1>3, <1>4, <1>5, <1>6 DEF Outbox!OutNext

(* Nothing is written: the numbers stay right if the queue's do. *)
LEMMA NothingWritten ==
  ASSUME Numbered, wire' = wire, sent' \in Nat, Counted(Waiting', sent'),
         sent - Len(Waiting) <= sent' - Len(Waiting')
  PROVE  Numbered'
<1>1. \A i \in 1..Len(wire) : wire[i] \in Nat /\ wire[i] <= sent - Len(Waiting)
  BY ElementOfSeq DEF Numbered
<1>2. sent - Len(Waiting) \in Int /\ sent' - Len(Waiting') \in Int
  BY LenProperties DEF Numbered, Counted
<1>3. \A i \in 1..Len(wire) : wire[i] <= sent' - Len(Waiting')
  BY <1>1, <1>2
<1>. QED
  BY <1>3 DEF Numbered

LEMMA NumberedStep ==
  ASSUME [Outbox!OutNext]_(Outbox!outVars), Numbered
  PROVE  Numbered'
<1> DEFINE q == Waiting
           r == Waiting'
<1>1. /\ sent \in Nat /\ wire \in Seq(Nat) /\ Counted(q, sent)
      /\ \A i \in 1..Len(wire) : wire[i] <= sent - Len(q)
      /\ \A i, j \in 1..Len(wire) : i < j => wire[i] < wire[j]
  BY DEF Numbered
<1>2. q \in Seq(Nat) /\ Len(q) \in Nat /\ Len(q) <= sent
  BY <1>1, LenProperties DEF Counted
<1>3. \/ UNCHANGED <<sent, wire>> /\ r = q
      \/ \E n \in Nat : wire' = wire /\ sent' = sent + n /\ r = Sent(q, sent, n)
      \/ /\ q # <<>> /\ r = Tail(q) /\ sent' = sent
         /\ wire' = wire \/ wire' = Append(wire, Head(q))
      \/ /\ q # <<>> /\ wire' = wire /\ sent' = sent + 1
         /\ r = Append(Tail(q), sent + 1)
      \/ wire' = wire /\ sent' \in Nat /\ sent <= sent' /\ r = <<>>
  BY <1>1, OutboxMoves
<1>4. ASSUME wire' = wire, sent' \in Nat, Counted(r, sent'),
             sent - Len(q) <= sent' - Len(r)
      PROVE  Numbered'
  BY <1>4, NothingWritten
<1>5. ASSUME wire' \in Seq(Nat), sent' \in Nat, Counted(r, sent'),
             \A i \in 1..Len(wire') : wire'[i] <= sent' - Len(r),
             \A i, j \in 1..Len(wire') : i < j => wire'[i] < wire'[j]
      PROVE  Numbered'
  BY <1>5 DEF Numbered
<1> HIDE DEF q, r
<1>6. CASE UNCHANGED <<sent, wire>> /\ r = q
  BY <1>1, <1>2, <1>4, <1>6
<1>7. ASSUME NEW n \in Nat, wire' = wire, sent' = sent + n, r = Sent(q, sent, n)
      PROVE  Numbered'
  <2>1. Counted(r, sent + n) /\ Len(r) = Len(q) + n
    BY <1>1, <1>7, CountedMore
  <2>. QED
    BY <1>1, <1>2, <1>4, <1>7, <2>1
<1>8. CASE q # <<>> /\ r = Tail(q) /\ sent' = sent /\ wire' = wire
  <2>1. Counted(r, sent) /\ Len(r) = Len(q) - 1
    BY <1>1, <1>8, CountedTail
  <2>. QED
    BY <1>1, <1>2, <1>4, <1>8, <2>1
<1>9. CASE q # <<>> /\ r = Tail(q) /\ sent' = sent /\ wire' = Append(wire, Head(q))
  <2>1. /\ Counted(r, sent') /\ Len(r) = Len(q) - 1
        /\ Head(q) = (sent - Len(q)) + 1 /\ Head(q) \in Nat
    BY <1>1, <1>9, CountedTail
  <2>2. /\ sent' - Len(r) = Head(q) /\ Head(q) \in Nat
        /\ sent - Len(q) = Head(q) - 1
    <3>1. sent' = sent
      BY <1>9
    <3>. QED
      BY <1>1, <1>2, <2>1, <3>1
  <2>3. /\ wire' \in Seq(Nat) /\ Len(wire') = Len(wire) + 1 /\ Len(wire) \in Nat
        /\ wire'[Len(wire) + 1] = Head(q)
        /\ \A i \in 1..Len(wire) : wire'[i] = wire[i] /\ wire[i] \in Nat
    BY <1>1, <1>9, <2>2, AppendProperties, LenProperties, ElementOfSeq
  <2>4. \A i \in 1..Len(wire) : wire'[i] \in Nat /\ wire'[i] < Head(q)
    <3>1. \A x, y \in Nat : x <= y - 1 => x < y
      OBVIOUS
    <3>2. \A i \in 1..Len(wire) : wire[i] <= Head(q) - 1
      BY <1>1, <2>2
    <3>3. \A i \in 1..Len(wire) : wire[i] < Head(q)
      BY <2>2, <2>3, <3>1, <3>2
    <3>. QED
      BY <2>3, <3>3
  <2>5. \A i \in 1..Len(wire') : i \in 1..Len(wire) \/ i = Len(wire) + 1
    BY <2>3
  <2> DEFINE w == wire'
             k == Len(wire)
             h == Head(q)
  <2>6. /\ k \in Nat /\ h \in Nat /\ w[k + 1] = h
        /\ \A i \in 1..k : w[i] \in Nat /\ w[i] < h
        /\ \A i \in 1..Len(w) : i \in 1..k \/ i = k + 1
    BY <2>2, <2>3, <2>4, <2>5
  <2>7. \A i, j \in 1..k : i < j => w[i] < w[j]
    BY <1>1, <2>3
  <2> HIDE DEF w, k, h
  <2>8. \A i \in 1..Len(w) : w[i] <= h
    BY <2>6
  <2>9. ASSUME NEW i \in 1..Len(w), NEW j \in 1..Len(w), i < j PROVE w[i] < w[j]
    <3>1. i \in 1..k
      <4>1. i \in 1..k \/ i = k + 1
        BY <2>6
      <4>2. j \in 1..k \/ j = k + 1
        BY <2>6
      <4>. QED
        BY <2>6, <2>9, <4>1, <4>2
    <3>2. CASE j \in 1..k
      BY <2>7, <2>9, <3>1, <3>2
    <3>3. CASE j = k + 1
      BY <2>6, <3>1, <3>3
    <3>. QED
      BY <2>6, <3>2, <3>3
  <2>. QED
    BY <1>1, <1>5, <1>9, <2>1, <2>2, <2>3, <2>8, <2>9 DEF w, h
<1>10. CASE q # <<>> /\ wire' = wire /\ sent' = sent + 1 /\ r = Append(Tail(q), sent + 1)
  <2> DEFINE t == Tail(q)
  <2>1. Counted(t, sent) /\ Len(t) = Len(q) - 1
    BY <1>1, <1>10, CountedTail
  <2>2. r = Append(t, sent + 1) /\ t \in Seq(Nat)
    BY <1>10, <2>1 DEF Counted
  <2> HIDE DEF t
  <2>3. r = Sent(t, sent, 1)
    BY <1>1, <2>2, SentFew
  <2>4. Counted(r, sent + 1) /\ Len(r) = Len(t) + 1
    BY <1>1, <2>1, <2>3, CountedMore
  <2>. QED
    BY <1>1, <1>2, <1>4, <1>10, <2>1, <2>4
<1>11. CASE wire' = wire /\ sent' \in Nat /\ sent <= sent' /\ r = <<>>
  <2>1. Counted(r, sent') /\ Len(r) = 0
    BY <1>11 DEF Counted
  <2>. QED
    BY <1>1, <1>2, <1>4, <1>11, <2>1
<1>. QED
  BY <1>3, <1>6, <1>7, <1>8, <1>9, <1>10, <1>11

(* Messages are written in the order of their sends, each once, and none   *)
(* is dropped from the middle of the queue (send, send_msg, onDone,        *)
(* dispose).                                                               *)
THEOREM WrittenInOrderHolds == Spec => []WrittenInOrder
<1>1. Init => Numbered
  <2>1. <<>> \in Seq(Nat) /\ Len(<<>>) = 0
    OBVIOUS
  <2>. QED
    BY <2>1 DEF Init, WsInit, Numbered, Counted, Waiting, Queue
<1>2. Numbered /\ [Outbox!OutNext]_(Outbox!outVars) => Numbered'
  BY NumberedStep
<1>3. Numbered => WrittenInOrder
  <2> SUFFICES ASSUME Numbered PROVE WrittenInOrder
    OBVIOUS
  <2>1. \A i \in 1..Len(wire) : wire[i] <= sent
    <3>1. \A i \in 1..Len(wire) : wire[i] \in Nat
      BY ElementOfSeq DEF Numbered
    <3>2. Len(Waiting) \in Nat
      BY LenProperties DEF Numbered, Counted
    <3>. QED
      BY <3>1, <3>2 DEF Numbered
  <2>2. ASSUME ws.con, NEW m \in 1..sent
        PROVE  \/ \A i \in 1..Len(Queue(ws)) : m < Queue(ws)[i]
               \/ \E i \in 1..Len(Queue(ws)) : Queue(ws)[i] = m
    <3> DEFINE q == Queue(ws)
    <3>1. /\ sent \in Nat /\ q \in Seq(Nat) /\ Len(q) <= sent
          /\ \A i \in 1..Len(q) : q[i] = (sent - Len(q)) + i
      BY <2>2 DEF Numbered, Counted, Waiting
    <3> HIDE DEF q
    <3>2. Len(q) \in Nat
      BY <3>1, LenProperties
    <3>3. CASE m <= sent - Len(q)
      <4>1. \A i \in 1..Len(q) : m < q[i]
        BY <3>1, <3>2, <3>3
      <4>. QED
        BY <4>1 DEF q
    <3>4. CASE m > sent - Len(q)
      <4> DEFINE i == m - (sent - Len(q))
      <4>1. i \in 1..Len(q) /\ (sent - Len(q)) + i = m
        BY <2>2, <3>1, <3>2, <3>4
      <4> HIDE DEF i
      <4>2. q[i] = m
        BY <3>1, <4>1
      <4>. QED
        BY <4>1, <4>2 DEF q
    <3>. QED
      BY <3>1, <3>2, <3>3, <3>4
  <2>. QED
    BY <2>1, <2>2 DEF WrittenInOrder, Numbered
<1>. QED
  BY <1>1, <1>2, <1>3, OutboxHolds, PTL DEF Spec, OutboxSpec, Outbox!OutSpec

-----------------------------------------------------------------------------
(* What onMsg_ is given.                                                   *)

UpTo(n) == [i \in 1..n |-> i]

(* msg_ begins with what an onMsg_ that threw has left in it.  Between     *)
(* frames, with no control frame since the last message handed on, the     *)
(* rest is what the peer has sent of its message; inside a frame that      *)
(* frame is still missing.  A control frame would leave its own opcode and *)
(* its own payload behind, so the opcode is known only without one.        *)
Reassembling ==
  /\ (\E k \in InFrame : ws.io = Only(k)) => cur # "none"
  /\ cur # "none" => ws.opcode # "close" /\ (ws.fin <=> cur # "fragment")
  /\ ws.msg = left \o Fresh(ws.msg)
  /\ ~mixed => /\ cur # "control"
               /\ peerMsg = IF cur = "none" THEN Fresh(ws.msg)
                                            ELSE Append(Fresh(ws.msg), rx + 1)
               /\ ws.opcode # "close" /\ peerMsg # <<>> => ws.opcode = "text"

MsgInv == Reassembling /\ NothingSkipped /\ DeliveredIntact

LEMMA OneMore ==
  ASSUME NEW n \in Nat
  PROVE  /\ UpTo(n) \in Seq(Nat) /\ Append(UpTo(n), n + 1) = UpTo(n + 1)
<1>1. UpTo(n) \in Seq(Nat) /\ Len(UpTo(n)) = n
  BY DEF UpTo
<1>2. UpTo(n + 1) \in Seq(Nat) /\ Len(UpTo(n + 1)) = n + 1
  BY DEF UpTo
<1> DEFINE a == Append(UpTo(n), n + 1)
<1>3. a \in Seq(Nat) /\ Len(a) = n + 1 /\ \A i \in 1..n : a[i] = UpTo(n)[i]
      /\ a[n + 1] = n + 1
  BY <1>1
<1>4. \A i \in 1..(n + 1) : a[i] = UpTo(n + 1)[i]
  BY <1>3 DEF UpTo
<1> HIDE DEF a
<1>5. a = UpTo(n + 1)
  BY <1>2, <1>3, <1>4, SeqEqual
<1>. QED
  BY <1>1, <1>5 DEF a

(* What onMsg_ was not given yet is what follows what it was given. *)
LEMMA FreshBehind ==
  ASSUME left \in Seq(Nat), NEW u \in Seq(Nat)
  PROVE  Fresh(left \o u) = u
<1> DEFINE l == left
           s == l \o u
           v == SubSeq(s, Len(l) + 1, Len(s))
<1>1. l \in Seq(Nat) /\ Len(l) \in Nat /\ Len(u) \in Nat
  BY LenProperties
<1>2. /\ s \in Seq(Nat) /\ Len(s) = Len(l) + Len(u)
      /\ \A i \in 1..(Len(l) + Len(u)) : s[i] = IF i <= Len(l) THEN l[i] ELSE u[i - Len(l)]
  BY <1>1, ConcatProperties
<1>3. Fresh(s) = v
  BY DEF Fresh
<1> HIDE DEF l, s
<1>4. v \in Seq(Nat) /\ Len(v) = Len(u) /\ \A i \in 1..Len(u) : v[i] = s[Len(l) + i]
  <2>1. Len(l) + 1 \in Nat /\ Len(s) \in Nat /\ (Len(s) - (Len(l) + 1)) + 1 = Len(u)
    BY <1>1, <1>2
  <2>2. \A i \in 1..Len(s) : s[i] \in Nat
    BY <1>2, ElementOfSeq
  <2>3. \A i \in (Len(l) + 1)..Len(s) : s[i] \in Nat
    BY <1>1, <2>1, <2>2
  <2>4. /\ v \in Seq(Nat)
        /\ Len(v) = IF Len(l) + 1 <= Len(s) THEN Len(s) - (Len(l) + 1) + 1 ELSE 0
        /\ \A i \in 1..(Len(s) - (Len(l) + 1) + 1) : v[i] = s[Len(l) + 1 + i - 1]
    BY <2>1, <2>3, SubSeqProperties
  <2> HIDE DEF v
  <2>5. Len(v) = Len(u)
    BY <1>1, <1>2, <2>4
  <2>6. \A i \in 1..Len(u) : Len(l) + 1 + i - 1 = Len(l) + i
    BY <1>1
  <2>7. \A i \in 1..Len(u) : v[i] = s[Len(l) + i]
    BY <2>1, <2>4, <2>6
  <2>. QED
    BY <2>4, <2>5, <2>7
<1> HIDE DEF v
<1>5. ASSUME NEW i \in 1..Len(u) PROVE v[i] = u[i]
  <2>1. /\ Len(l) + i \in 1..(Len(l) + Len(u)) /\ ~(Len(l) + i <= Len(l))
        /\ (Len(l) + i) - Len(l) = i
    BY <1>1
  <2>. QED
    BY <1>2, <1>4, <2>1
<1>6. v = u
  BY <1>4, <1>5, SeqEqual
<1>. QED
  BY <1>3, <1>6 DEF s, l

(* One more payload: it joins what onMsg_ was not given yet. *)
LEMMA FreshMore ==
  ASSUME left \in Seq(Nat), NEW s \in Seq(Nat), s = left \o Fresh(s), NEW x \in Nat
  PROVE  /\ Fresh(s) \in Seq(Nat)
         /\ Fresh(Append(s, x)) = Append(Fresh(s), x)
         /\ Append(s, x) = left \o Append(Fresh(s), x)
<1> DEFINE u == Fresh(s)
<1>1. u \in Seq(Nat)
  <2>1. Len(left) + 1 \in Nat /\ Len(s) \in Nat
    BY LenProperties
  <2>2. \A i \in (Len(left) + 1)..Len(s) : s[i] \in Nat
    BY <2>1, ElementOfSeq
  <2>. QED
    BY <2>1, <2>2 DEF Fresh
<1>2. s = left \o u
  OBVIOUS
<1> HIDE DEF u
<1>3. Append(s, x) = left \o Append(u, x)
  <2>1. \A a, b \in Seq(Nat), y \in Nat : a \o Append(b, y) = Append(a \o b, y)
    BY AppendBehind
  <2>2. left \o Append(u, x) = Append(left \o u, x)
    BY <1>1, <2>1, Zenon
  <2>. QED
    BY <1>2, <2>2
<1>4. Append(u, x) \in Seq(Nat)
  BY <1>1, AppendProperties
<1>5. Fresh(Append(s, x)) = Append(u, x)
  BY <1>3, <1>4, FreshBehind
<1>. QED
  BY <1>1, <1>3, <1>5 DEF u

(* Once onMsg_ was given all of msg_, nothing is new to it. *)
LEMMA FreshNone ==
  ASSUME left' \in Seq(Nat)
  PROVE  left' = left' \o <<>> /\ SubSeq(left', Len(left') + 1, Len(left')) = <<>>
<1> DEFINE l == left'
<1>1. l \in Seq(Nat) /\ Len(l) \in Nat
  BY LenProperties
<1> HIDE DEF l
<1>2. l = l \o <<>> /\ SubSeq(l, Len(l) + 1, Len(l)) = <<>>
  BY <1>1
<1>. QED
  BY <1>2 DEF l

(* A step that receives nothing, but perhaps the header of a CLOSE frame. *)
Quiet ==
  /\ UNCHANGED <<rx, cur, peerMsg, mixed, got, left, last>>
  /\ ws'.msg = ws.msg
  /\ cur = "none" \/ ws'.fin = ws.fin
  /\ ws'.opcode = ws.opcode \/ (cur = "none" /\ ws'.opcode = "close")
  /\ (\E k \in InFrame : ws'.io = Only(k)) => \E k \in InFrame : ws.io = Only(k)

LEMMA QuietMsg == MsgInv /\ Quiet => MsgInv'
<1> SUFFICES ASSUME MsgInv, Quiet PROVE MsgInv'
  OBVIOUS
<1>1. Fresh(ws.msg)' = Fresh(ws.msg)
  BY DEF Quiet, Fresh
<1>2. Reassembling'
  BY <1>1 DEF MsgInv, Reassembling, Quiet, Only, NoIO
<1>3. NothingSkipped' /\ DeliveredIntact'
  BY <1>1 DEF MsgInv, NothingSkipped, DeliveredIntact, Quiet
<1>. QED
  BY <1>2, <1>3 DEF MsgInv

(* onClose_ and dispose() read nothing. *)
LEMMA EndedMsg ==
  ASSUME MsgInv, NEW c, c.io = NoIO, NEW m, Ended(c, sent, m),
         UNCHANGED <<rx, cur, peerMsg, mixed, got, left, last>>,
         c.msg = ws.msg, cur = "none" \/ c.fin = ws.fin,
         c.opcode = ws.opcode \/ (cur = "none" /\ c.opcode = "close")
  PROVE  MsgInv'
<1>1. \A k \in InFrame : ws'.io # Only(k)
  BY FrameIsNoWrite DEF Ended, SameRead
<1>2. Quiet
  BY <1>1 DEF Ended, SameRead, Quiet
<1>. QED
  BY <1>2, QuietMsg

(* A handler, then send_msg(). *)
LEMMA HandledSame ==
  ASSUME NEW c \in Conn, Idle(c), c.con, Writes(c), sent \in Nat, NEW n \in Sends(sent)
  PROVE  SameRead(SendMsg(Handler(c, sent, n)), c)
<1> DEFINE d == Handler(c, sent, n)
<1>1. n \in 0..1
  BY DEF Sends
<1>2. d \in Conn /\ d.con
  BY IdleGuarded, HandlerGuarded
<1>3. SameRead(d, c) /\ Covered(d) /\ Writes(d)
  BY <1>1, IdleCovered, HandlerCarries
<1> HIDE DEF d
<1>4. SameRead(SendMsg(d), d)
  BY <1>2, <1>3, SendMsgCarries
<1>5. SameRead(SendMsg(d), c)
  BY <1>3, <1>4, SameReadTwice
<1>. QED
  BY <1>5 DEF d

LEMMA SameReadMsg ==
  ASSUME MsgInv, UNCHANGED <<rx, cur, peerMsg, mixed, got, left, last>>, SameRead(ws', ws)
  PROVE  MsgInv'
<1>1. Quiet
  BY DEF Quiet, SameRead
<1>. QED
  BY <1>1, QuietMsg

(* A callback that goes no further: what was received stays. *)
LEMMA FinishedSame ==
  ASSUME NEW k \in IOKind, ws \in Conn, ws.io = Only(k)
  PROVE  SameRead(Finish(ws, k), ws)
BY FinishOnly, FinishFields, FrameIsNoWrite DEF SameRead

LEMMA OpeningMsg == ASSUME IInv, OutInv, MsgInv, Opening PROVE MsgInv'
<1>0. /\ ws \in Conn /\ sent \in Nat
      /\ UNCHANGED <<rx, cur, peerMsg, mixed, got, left, last>>
  BY DEF IInv, Types, Opening, Handshake, Run, AnswerFails, BadUrl, Connected,
         ConnectFails, RequestWritten, ResponseRead, OpeningFails, peerVars, seenVars
<1>1. CASE Handshake \/ AnswerFails \/ BadUrl
  <2>1. /\ ws'.msg = ws.msg /\ ws'.fin = ws.fin /\ ws'.opcode = ws.opcode /\ ws'.io = ws.io
    BY <1>0, <1>1 DEF Handshake, AnswerFails, BadUrl, Conn
  <2>. QED
    BY <1>0, <2>1, SameReadMsg DEF SameRead
<1>2. CASE Run
  <2>1. PICK n \in Sends(sent) : ws' = SendMsg(Handler(ws, sent, n))
    BY <1>2 DEF Run
  <2>2. Idle(ws) /\ ws.con /\ Writes(ws)
    BY <1>2 DEF IInv, Phases, Run, OutInv
  <2>. QED
    BY <1>0, <2>1, <2>2, HandledSame, SameReadMsg
<1>3. CASE Connected
  <2> DEFINE c == [ws EXCEPT !.con = TRUE]
  <2>1. ws.io = NoIO
    BY <1>3 DEF IInv, Phases, Idle, Connected
  <2>2. /\ c \in Conn /\ c.io = NoIO
        /\ c.msg = ws.msg /\ c.fin = ws.fin /\ c.opcode = ws.opcode
    BY <1>0, <2>1 DEF Conn
  <2> HIDE DEF c
  <2>3. ws' = Issue(c, "hsWrite")
    BY <1>3 DEF Connected, c
  <2>4. /\ ws'.msg = ws.msg /\ ws'.fin = ws.fin /\ ws'.opcode = ws.opcode
        /\ ws'.io = Only("hsWrite")
    BY <2>2, <2>3, IssueOne, IssueFields, IOKinds
  <2>5. \A k \in InFrame : ws'.io # Only(k)
    BY <2>4, OnlyName, IOKinds DEF InFrame
  <2>. QED
    BY <1>0, <2>4, <2>5, SameReadMsg DEF SameRead
<1>4. CASE ConnectFails
  <2>1. ws.io = NoIO /\ ~ws.con /\ OnClose(ws, sent, 0)
    BY <1>4 DEF IInv, Phases, Idle, ConnectFails
  <2>2. Ended(ws, sent, 1)
    BY <1>0, <2>1, OnCloseCarries
  <2>. QED
    BY <1>0, <2>1, <2>2, EndedMsg
<1>5. CASE RequestWritten
  <2>1. ws.io = Only("hsWrite")
    BY <1>5, Opened DEF RequestWritten, Connecting
  <2> DEFINE c == Finish(ws, "hsWrite")
  <2>2. c \in Conn /\ c.io = NoIO /\ SameRead(c, ws)
    BY <1>0, <2>1, FinishOnly, FinishedSame, IOKinds
  <2> HIDE DEF c
  <2>3. ws' = Issue(c, "hsRead")
    BY <1>5 DEF RequestWritten, c
  <2>4. /\ ws'.msg = c.msg /\ ws'.fin = c.fin /\ ws'.opcode = c.opcode
        /\ ws'.io = Only("hsRead")
    BY <2>2, <2>3, IssueOne, IssueFields, IOKinds
  <2>5. \A k \in InFrame : ws'.io # Only(k)
    BY <2>4, OnlyName, IOKinds DEF InFrame
  <2>. QED
    BY <1>0, <2>2, <2>4, <2>5, SameReadMsg DEF SameRead
<1>6. CASE ResponseRead
  <2>1. PICK n \in Sends(sent) : ws' = SendMsg(Handler(Finish(ws, "hsRead"), sent, n))
    BY <1>6 DEF ResponseRead
  <2>2. ws.con /\ ws.io = Only("hsRead") /\ ~ws.pending /\ Writes(ws)
    BY <1>6, Opened DEF ResponseRead, Connecting, OutInv
  <2> DEFINE c == Finish(ws, "hsRead")
  <2>3. c \in Conn /\ c.con /\ Idle(c) /\ Writes(c) /\ SameRead(c, ws)
    BY <1>0, <2>2, FinishedQueue, FinishedSame, IOKinds DEF Idle
  <2>4. ws' = SendMsg(Handler(c, sent, n))
    BY <2>1
  <2> HIDE DEF c
  <2>5. SameRead(ws', c)
    BY <1>0, <2>3, <2>4, HandledSame
  <2>6. SameRead(ws', ws)
    BY <2>3, <2>5, SameReadTwice
  <2>. QED
    BY <1>0, <2>6, SameReadMsg
<1>7. CASE OpeningFails
  <2>1. PICK k \in Connecting : ws.io[k] > 0 /\ OnClose(Finish(ws, k), sent, 0)
    BY <1>7 DEF OpeningFails
  <2>2. k \in IOKind /\ k \in IOKind \ {"write"}
    BY IOKinds DEF Connecting
  <2>3. ws.con /\ ws.io = Only(k) /\ Writes(ws)
    BY <2>1, Opened DEF OutInv
  <2> DEFINE c == Finish(ws, k)
  <2>4. c \in Conn /\ c.io = NoIO /\ Writes(c) /\ SameRead(c, ws)
    BY <1>0, <2>2, <2>3, FinishedQueue, FinishedSame
  <2>5. OnClose(c, sent, 0)
    BY <2>1
  <2> HIDE DEF c
  <2>6. Ended(c, sent, 1)
    BY <1>0, <2>4, <2>5, OnCloseCarries
  <2>. QED
    BY <1>0, <2>4, <2>6, EndedMsg DEF SameRead
<1>. QED
  BY <1>1, <1>2, <1>3, <1>4, <1>5, <1>6, <1>7 DEF Opening

LEMMA SendingMsg == ASSUME IInv, OutInv, MsgInv, Sending PROVE MsgInv'
<1>0. UNCHANGED <<rx, cur, peerMsg, mixed, got, left, last>>
  BY DEF Sending, AppSend, WriteDone, WriteFails, peerVars, seenVars
<1>1. CASE AppSend
  <2>1. /\ ws \in Conn /\ ws.con /\ Writes(ws)
        /\ sent + 1 \in Nat /\ ws' = Send(ws, sent + 1)
    BY <1>1 DEF IInv, Types, OutInv, AppSend
  <2>2. CASE Covered(ws)
    BY <1>0, <2>1, <2>2, SendCarries, SameReadMsg
  <2>3. CASE ~Covered(ws)
    BY <1>0, <2>1, <2>3, SendCuts, SameReadMsg DEF Covered
  <2>. QED
    BY <2>2, <2>3
<1>2. CASE WriteDone \/ WriteFails
  <2> DEFINE c == Finish(ws, "write")
             d == [c EXCEPT !.pending = FALSE, !.writing = <<>>]
  <2>1. "write" \in IOKind \ Connecting /\ ws.io["write"] > 0
    BY <1>2, IOKinds DEF Connecting, WriteDone, WriteFails
  <2>2. c \in Conn /\ c.io = NoIO /\ c.con /\ SameRead(c, ws)
    BY <2>1, CalledBack, Awaited, FinishedSame
  <2>3. ws' = SendMsg(d)
    BY <1>2 DEF WriteDone, WriteFails, Written
  <2> HIDE DEF c
  <2>4. /\ d \in Conn /\ d.io = NoIO /\ d.con /\ ~d.pending /\ d.writing = <<>>
        /\ d.msg = c.msg /\ d.fin = c.fin /\ d.opcode = c.opcode
    <3>1. <<>> \in Seq(Nat)
      OBVIOUS
    <3>. QED
      BY <2>2, <3>1 DEF Conn
  <2> HIDE DEF d
  <2>5. Covered(d) /\ Writes(d)
    BY <2>4, FrameIsNoWrite DEF Covered, Writes
  <2>6. SameRead(d, c)
    BY <2>4, FrameIsNoWrite DEF SameRead
  <2>7. SameRead(ws', d)
    BY <2>3, <2>4, <2>5, SendMsgCarries
  <2>8. SameRead(ws', ws)
    BY <2>2, <2>6, <2>7, SameReadTwice
  <2>. QED
    BY <1>0, <2>8, SameReadMsg
<1>. QED
  BY <1>1, <1>2 DEF Sending

(* The header of a frame: the frame joins what the peer is in the middle   *)
(* of, or is a control frame in between.                                   *)
LEMMA FrameReadMsg == ASSUME IInv, OutInv, MsgInv, FrameRead PROVE MsgInv'
<1>1. PICK f \in Frame :
        /\ LegalFrame(f)
        /\ IF ParseOpcode(ws, f) = "close" THEN CloseFrame(f) ELSE OtherFrame(f)
  BY DEF FrameRead
<1> DEFINE c == Finish(ws, "frame")
           h == Header(c, f)
           l == ParseLen(h, f)
<1>2. /\ "frame" \in IOKind \ Connecting /\ "frame" \in IOKind \ {"write"}
      /\ ws.io["frame"] > 0 /\ net # "dead"
  BY IOKinds DEF Connecting, FrameRead
<1>3. /\ ws \in Conn /\ ws.con /\ ws.io = Only("frame") /\ Writes(ws) /\ cur = "none"
      /\ threw \in Throws /\ sent \in Nat /\ role \in {"server", "client"}
  BY <1>2, Awaited DEF OutInv, IInv, Types
<1>4. /\ c \in Conn /\ c.io = NoIO /\ c.con /\ c.writing = <<>> /\ c.msg = ws.msg
      /\ c.opcode = ws.opcode
  BY <1>2, <1>3, FinishedQueue, FinishFields, IOKinds
<1> HIDE DEF c
<1>5. /\ h \in Conn /\ h.io = NoIO /\ h.con /\ h.pending /\ h.writing = <<>>
      /\ h.msg = ws.msg /\ h.opcode = ParseOpcode(ws, f)
  <2>1. ParseOpcode(c, f) = ParseOpcode(ws, f)
    BY <1>4 DEF ParseOpcode
  <2>. QED
    BY <1>3, <1>4, <2>1, HeaderOK, HeaderFields
<1>6. UNCHANGED <<rx, got, left, last>>
  BY DEF FrameRead, seenVars
<1>7. CASE CloseFrame(f) /\ ParseOpcode(ws, f) = "close"
  <2>1. ClosedByPeer(h) /\ UNCHANGED <<cur, peerMsg, mixed>>
    BY <1>7 DEF CloseFrame, c
  <2> HIDE DEF h
  <2>2. Writes(h)
    BY <1>5, FrameIsNoWrite DEF Writes
  <2>3. \E m : Ended(h, sent, m)
    BY <1>3, <1>5, <2>1, <2>2, ClosedByPeerCarries
  <2>. QED
    BY <1>3, <1>5, <1>6, <1>7, <2>1, <2>3, EndedMsg
<1>8. CASE OtherFrame(f) /\ ParseOpcode(ws, f) # "close"
  <2>1. /\ ws' = ReadLen(l) /\ cur' = CurOf(f) /\ mixed' = (mixed \/ Control(f))
        /\ peerMsg' = IF Control(f) THEN peerMsg ELSE Append(peerMsg, rx + 1)
    BY <1>8 DEF OtherFrame, c
  <2>2. /\ l \in Conn /\ l.io = NoIO /\ l.msg = ws.msg /\ l.fin = f.fin
        /\ l.opcode = ParseOpcode(c, f)
    BY <1>3, <1>4, HeaderOK, HeaderFields
  <2> HIDE DEF h, l
  <2>3. /\ ws'.msg = ws.msg /\ ws'.fin = f.fin
        /\ ws'.opcode = IF f.op = "cont" THEN ws.opcode ELSE f.op
        /\ ws'.opcode # "close"
    BY <1>4, <1>8, <2>1, <2>2, ReadLenFields DEF ParseOpcode
  <2>4. cur' # "none" /\ (ws'.fin <=> cur' # "fragment")
    BY <1>1, <2>1, <2>3 DEF CurOf, LegalFrame, Frame
  <2>5. Fresh(ws.msg)' = Fresh(ws.msg)
    BY <1>6, <2>3 DEF Fresh
  <2>6. ASSUME ~mixed'
        PROVE  /\ cur' # "control"
               /\ peerMsg' = Append(Fresh(ws.msg)', rx' + 1)
               /\ ws'.opcode = "text"
    <3>1. ~mixed /\ ~Control(f)
      BY <2>1, <2>6
    <3>2. cur' # "control"
      BY <2>1, <3>1 DEF CurOf
    <3>3. peerMsg = Fresh(ws.msg) /\ (peerMsg # <<>> => ws.opcode = "text")
      BY <1>3, <3>1 DEF MsgInv, Reassembling, FrameRead
    <3>4. peerMsg' = Append(Fresh(ws.msg)', rx' + 1)
      BY <1>6, <2>1, <2>5, <3>1, <3>3
    <3>5. ws'.opcode = "text"
      BY <1>1, <2>3, <3>1, <3>3 DEF LegalFrame, Control, Frame, Opcode
    <3>. QED
      BY <3>2, <3>4, <3>5
  <2>7. ws'.msg = left' \o Fresh(ws.msg)'
    BY <1>6, <2>3, <2>5 DEF MsgInv, Reassembling
  <2>8. Reassembling'
    BY <2>3, <2>4, <2>6, <2>7 DEF Reassembling
  <2>9. NothingSkipped' /\ DeliveredIntact'
    BY <1>6, <2>5 DEF MsgInv, NothingSkipped, DeliveredIntact
  <2>. QED
    BY <2>8, <2>9 DEF MsgInv
<1>. QED
  BY <1>1, <1>7, <1>8

LEMMA FrameFailsMsg == ASSUME IInv, OutInv, MsgInv, FrameFails PROVE MsgInv'
<1> DEFINE c == Finish(ws, "frame")
           d == [c EXCEPT !.pending = FALSE]
<1>1. /\ "frame" \in IOKind \ Connecting /\ "frame" \in IOKind \ {"write"}
      /\ ws.io["frame"] > 0
  BY IOKinds DEF Connecting, FrameFails
<1>2. ws \in Conn /\ ws.con /\ ws.io = Only("frame") /\ Writes(ws) /\ sent \in Nat
  BY <1>1, Awaited DEF OutInv, IInv, Types
<1>3. /\ c \in Conn /\ c.io = NoIO /\ c.writing = <<>> /\ c.msg = ws.msg
      /\ c.fin = ws.fin /\ c.opcode = ws.opcode
  BY <1>1, <1>2, FinishedQueue, FinishFields, IOKinds
<1>4. OnClose(d, sent, 0) /\ UNCHANGED <<rx, cur, peerMsg, mixed, got, left, last>>
  BY DEF FrameFails, peerVars, seenVars
<1> HIDE DEF c
<1>5. /\ d \in Conn /\ d.io = NoIO /\ d.writing = <<>> /\ d.msg = c.msg
      /\ d.fin = c.fin /\ d.opcode = c.opcode
  BY <1>3 DEF Conn
<1> HIDE DEF d
<1>6. Writes(d)
  BY <1>5, FrameIsNoWrite DEF Writes
<1>7. Ended(d, sent, 1)
  BY <1>2, <1>4, <1>5, <1>6, OnCloseCarries
<1>. QED
  BY <1>3, <1>4, <1>5, <1>7, EndedMsg

LEMMA InFrameMsg ==
  ASSUME IInv, MsgInv, LenRead \/ MaskRead \/ LenFails \/ MaskFails \/ MsgFails
  PROVE  MsgInv'
<1>1. UNCHANGED <<rx, cur, peerMsg, mixed, got, left, last>>
  BY DEF LenRead, MaskRead, LenFails, MaskFails, MsgFails, peerVars, seenVars
<1>2. PICK k \in InFrame :
        /\ ws.io[k] > 0
        /\ \/ \E l \in InFrame : ws' = Issue(Finish(ws, k), l)
           \/ ws' \in {Finish(ws, k), [Finish(ws, k) EXCEPT !.pending = FALSE],
                       [Finish(ws, k) EXCEPT !.pending = FALSE, !.self = FALSE]}
  BY DEF LenRead, MaskRead, ReadMaskOrMsg, LenFails, MaskFails, MsgFails, InFrame
<1>3. k \in IOKind \ Connecting
  BY DEF InFrame, Connecting, IOKind
<1>4. ws \in Conn /\ ws.io = Only(k)
  BY <1>2, <1>3, Awaited
<1> DEFINE c == Finish(ws, k)
<1>5. c \in Conn /\ SameRead(c, ws)
  BY <1>3, <1>4, FinishOnly, FinishedSame
<1>6. \/ \E l \in InFrame : ws' = Issue(c, l)
      \/ ws' \in {c, [c EXCEPT !.pending = FALSE], [c EXCEPT !.pending = FALSE, !.self = FALSE]}
  BY <1>2
<1> HIDE DEF c
<1>7. ws'.msg = c.msg /\ ws'.fin = c.fin /\ ws'.opcode = c.opcode
  <2>1. CASE \E l \in InFrame : ws' = Issue(c, l)
    BY <1>5, <2>1, IssueFields, IOKinds
  <2>2. CASE ws' \in {c, [c EXCEPT !.pending = FALSE],
                      [c EXCEPT !.pending = FALSE, !.self = FALSE]}
    BY <1>5, <2>2 DEF Conn
  <2>. QED
    BY <1>6, <2>1, <2>2
<1>8. Quiet
  BY <1>1, <1>4, <1>5, <1>7 DEF Quiet, SameRead
<1>. QED
  BY <1>8, QuietMsg

(* A whole frame: its payload is the next one, and the frame was the last  *)
(* one missing of what the peer has sent.                                  *)
LEMMA PayloadRead ==
  ASSUME IInv, MsgInv, MsgRead
  PROVE  LET c == Payload(ws)
         IN /\ c \in Conn /\ Idle(c) /\ c.con /\ c.msg \in Seq(Nat)
            /\ Fresh(c.msg) \in Seq(Nat) /\ c.msg = left \o Fresh(c.msg)
            /\ got \o Fresh(c.msg) = UpTo(rx + 1)
            /\ cur \in {"control", "fragment", "final"} /\ (c.fin <=> cur # "fragment")
            /\ ~mixed => /\ cur # "control" /\ peerMsg = Fresh(c.msg) /\ peerMsg # <<>>
                         /\ c.opcode = "text"
<1> DEFINE c == Payload(ws)
<1>1. "msg" \in IOKind \ Connecting /\ "msg" \in InFrame /\ ws.io["msg"] > 0
  BY IOKinds DEF Connecting, InFrame, MsgRead
<1>2. /\ c \in Conn /\ c.io = NoIO /\ c.con /\ ~c.pending
      /\ c.msg = Append(ws.msg, rx + 1)
  BY <1>1, PayloadOK
<1>3. c.fin = ws.fin /\ c.opcode = ws.opcode
  BY <1>1, PayloadFields
<1>4. ws.io = Only("msg") /\ ws \in Conn
  BY <1>1, Awaited
<1> HIDE DEF c
<1>5. /\ ws.msg \in Seq(Nat) /\ got \in Seq(Nat) /\ left \in Seq(Nat)
      /\ rx \in Nat /\ rx + 1 \in Nat /\ cur \in Cur
  BY <1>4 DEF IInv, Types, Conn
<1>6. cur # "none" /\ ws.opcode # "close"
  BY <1>1, <1>4 DEF MsgInv, Reassembling
<1>7. c.fin <=> cur # "fragment"
  BY <1>3, <1>6 DEF MsgInv, Reassembling
<1> DEFINE u == Fresh(ws.msg)
<1>8. u \in Seq(Nat) /\ Fresh(c.msg) = Append(u, rx + 1) /\ c.msg = left \o Fresh(c.msg)
  <2>1. ws.msg = left \o u
    BY DEF MsgInv, Reassembling
  <2>2. /\ u \in Seq(Nat) /\ Fresh(Append(ws.msg, rx + 1)) = Append(u, rx + 1)
        /\ Append(ws.msg, rx + 1) = left \o Append(u, rx + 1)
    BY <1>5, <2>1, FreshMore
  <2>. QED
    BY <1>2, <2>2
<1>9. got \o u = UpTo(rx)
  BY DEF MsgInv, NothingSkipped, UpTo
<1> HIDE DEF u
<1>10. got \o Fresh(c.msg) = UpTo(rx + 1)
  <2>1. \A s, v \in Seq(Nat), x \in Nat : s \o Append(v, x) = Append(s \o v, x)
    BY AppendBehind
  <2>2. got \o Append(u, rx + 1) = Append(got \o u, rx + 1)
    BY <1>5, <1>8, <2>1, Zenon
  <2>. QED
    BY <1>5, <1>8, <1>9, <2>2, OneMore
<1>11. Fresh(c.msg) \in Seq(Nat) /\ Fresh(c.msg) # <<>>
  <2>1. \A s \in Seq(Nat), x \in Nat : Append(s, x) \in Seq(Nat) /\ Append(s, x) # <<>>
    BY AppendProperties
  <2>. QED
    BY <1>5, <1>8, <2>1
<1>12. ASSUME ~mixed
       PROVE  /\ cur # "control" /\ peerMsg = Fresh(c.msg) /\ peerMsg # <<>>
              /\ c.opcode = "text"
  <2>1. cur # "control" /\ peerMsg = Append(u, rx + 1)
    BY <1>6, <1>12 DEF MsgInv, Reassembling, u
  <2>2. peerMsg = Fresh(c.msg) /\ peerMsg # <<>>
    BY <1>8, <1>11, <2>1
  <2>. QED
    BY <1>3, <1>6, <1>12, <2>1, <2>2 DEF MsgInv, Reassembling
<1>. QED
  BY <1>2, <1>5, <1>6, <1>7, <1>8, <1>10, <1>11, <1>12 DEF Conn, Cur, Idle, c

LEMMA MsgReadMsg == ASSUME IInv, OutInv, MsgInv, MsgRead PROVE MsgInv'
<1> DEFINE c == Payload(ws)
           u == Fresh(c.msg)
<1>1. /\ c \in Conn /\ Idle(c) /\ c.con /\ c.msg \in Seq(Nat)
      /\ u \in Seq(Nat) /\ c.msg = left \o u /\ got \o u = UpTo(rx + 1)
      /\ cur \in {"control", "fragment", "final"} /\ (c.fin <=> cur # "fragment")
      /\ ~mixed => /\ cur # "control" /\ peerMsg = u /\ peerMsg # <<>>
                   /\ c.opcode = "text"
  BY PayloadRead
<1>2. "msg" \in IOKind \ Connecting /\ "msg" \in IOKind \ {"write"} /\ ws.io["msg"] > 0
  BY IOKinds DEF Connecting, MsgRead
<1>3. ws.io = Only("msg") /\ Writes(ws) /\ sent \in Nat
  BY <1>2, Awaited DEF OutInv, IInv, Types
<1>4. ws.writing = <<>>
  BY <1>2, <1>3, NoWriteYet
<1>5. c.writing = <<>>
  BY <1>2, <1>4, PayloadFields
<1>6. PayloadOfFragment(c) \/ PayloadOfPing(c) \/ PayloadOfMessage(c)
  BY DEF MsgRead
<1>7. /\ rx' = rx + 1 /\ cur' = "none"
      /\ peerMsg' = IF cur = "final" THEN <<>> ELSE peerMsg
  BY DEF MsgRead
<1>8. c.io = NoIO /\ ~c.pending /\ Writes(c) /\ Covered(c)
  BY <1>1, <1>5, FrameIsNoWrite, IdleCovered DEF Idle, Writes
<1>9. u = SubSeq(c.msg, Len(left) + 1, Len(c.msg))
  BY DEF Fresh
<1> HIDE DEF c, u
<1>10. CASE PayloadOfFragment(c)
  <2>1. ws' = Issue(c, "frame") /\ ~c.fin /\ UNCHANGED <<mixed, got, left, last>>
    BY <1>1, <1>10 DEF PayloadOfFragment, ReadFrame, seenVars
  <2>2. ws'.io = Only("frame") /\ ws'.msg = c.msg /\ ws'.opcode = c.opcode
    BY <1>1, <1>8, <2>1, IssueOne, IssueFields, IOKinds
  <2>3. \A k \in InFrame : ws'.io # Only(k)
    BY <2>2, FrameIsNoWrite
  <2>4. cur = "fragment"
    BY <1>1, <2>1
  <2>5. Fresh(ws.msg)' = u
    BY <1>9, <2>1, <2>2 DEF Fresh
  <2>6. Reassembling'
    BY <1>1, <1>7, <2>1, <2>2, <2>3, <2>4, <2>5 DEF Reassembling, Only, NoIO
  <2>7. NothingSkipped'
    BY <1>1, <1>7, <2>1, <2>5 DEF NothingSkipped, UpTo
  <2>8. DeliveredIntact'
    BY <2>1 DEF MsgInv, DeliveredIntact
  <2>. QED
    BY <2>6, <2>7, <2>8 DEF MsgInv
<1>11. CASE PayloadOfPing(c)
  <2>1. /\ ws' = Send(c, sent + 1) /\ c.fin /\ c.opcode = "ping" /\ sent + 1 \in Nat
        /\ UNCHANGED <<mixed, got, left, last>>
    BY <1>3, <1>11 DEF PayloadOfPing, seenVars
  <2>2. SameRead(ws', c)
    BY <1>1, <1>8, <2>1, SendCarries
  <2>3. \A k \in InFrame : ws'.io # Only(k)
    BY <1>8, <2>2, FrameIsNoWrite DEF SameRead
  <2>4. mixed
    BY <1>1, <2>1
  <2>5. Fresh(ws.msg)' = u /\ ws'.msg = c.msg
    BY <1>9, <2>1, <2>2 DEF Fresh, SameRead
  <2>6. Reassembling'
    BY <1>1, <1>7, <2>1, <2>3, <2>4, <2>5 DEF Reassembling, Only, NoIO
  <2>7. NothingSkipped'
    BY <1>1, <1>7, <2>1, <2>5 DEF NothingSkipped, UpTo
  <2>8. DeliveredIntact'
    BY <2>1 DEF MsgInv, DeliveredIntact
  <2>. QED
    BY <2>6, <2>7, <2>8 DEF MsgInv
<1>12. CASE PayloadOfMessage(c)
  <2>1. /\ c.fin /\ got' = got \o u /\ mixed' = (mixed /\ cur # "final")
        /\ last' = [msg |-> c.msg, left |-> left, peer |-> peerMsg, clean |-> ~mixed]
    BY <1>12 DEF PayloadOfMessage, u
  <2>2. PICK n \in Sends(sent) : \/ ws' = OnMsg(c, n) /\ left' = <<>>
                                 \/ ws' = OnMsgThrows(c, n) /\ left' = c.msg
    BY <1>12 DEF PayloadOfMessage
  <2>3. n \in 0..1
    BY DEF Sends
  <2>4. ws'.msg = left' /\ left' \in Seq(Nat) /\ \A k \in InFrame : ws'.io # Only(k)
    <3>1. <<>> \in Seq(Nat)
      OBVIOUS
    <3>2. CASE ws' = OnMsg(c, n) /\ left' = <<>>
      BY <1>1, <1>3, <1>8, <2>3, <3>1, <3>2, OnMsgCarries
    <3>3. CASE ws' = OnMsgThrows(c, n) /\ left' = c.msg
      BY <1>1, <1>3, <1>8, <2>3, <3>3, OnMsgThrowsCarries
    <3>. QED
      BY <2>2, <3>2, <3>3
  <2>5. Fresh(ws.msg)' = <<>> /\ ws'.msg = left' \o <<>>
    BY <2>4, FreshNone DEF Fresh
  <2>6. ~mixed' => peerMsg' = <<>>
    <3>1. SUFFICES ASSUME ~mixed' PROVE cur = "final"
      BY <1>7
    <3>2. ~mixed \/ cur = "final"
      BY <2>1, <3>1
    <3>. QED
      BY <1>1, <2>1, <3>2
  <2>7. Reassembling'
    BY <1>7, <2>4, <2>5, <2>6 DEF Reassembling, Only, NoIO
  <2>8. NothingSkipped'
    <3>1. got' = UpTo(rx')
      BY <1>1, <1>7, <2>1
    <3>2. rx + 1 \in Nat
      BY DEF IInv, Types
    <3>3. got' \in Seq(Nat)
      BY <1>7, <3>1, <3>2, OneMore
    <3>4. got' \o Fresh(ws.msg)' = got'
      BY <2>5, <3>3
    <3>. QED
      BY <3>1, <3>4 DEF NothingSkipped, UpTo
  <2>9. DeliveredIntact'
    BY <1>1, <2>1 DEF DeliveredIntact
  <2>. QED
    BY <2>7, <2>8, <2>9 DEF MsgInv
<1>. QED
  BY <1>6, <1>10, <1>11, <1>12 DEF c

LEMMA NextMsg == IInv /\ OutInv /\ MsgInv /\ [Next]_vars => MsgInv'
<1> SUFFICES ASSUME IInv, OutInv, MsgInv, [Next]_vars PROVE MsgInv'
  OBVIOUS
<1>1. CASE Opening
  BY <1>1, OpeningMsg
<1>2. CASE Receiving
  BY <1>2, FrameReadMsg, FrameFailsMsg, InFrameMsg, MsgReadMsg DEF Receiving
<1>3. CASE Sending
  BY <1>3, SendingMsg
<1>4. CASE Break \/ UNCHANGED vars
  <2>1. UNCHANGED <<ws, rx, cur, peerMsg, mixed, got, left, last>>
    BY <1>4 DEF Break, vars, peerVars, seenVars
  <2>. QED
    BY <2>1, SameReadMsg DEF SameRead
<1>. QED
  BY <1>1, <1>2, <1>3, <1>4 DEF Next

LEMMA SpecMsgInv == Spec => []MsgInv
<1>1. Init => OutInv /\ MsgInv
  <2>1. SUFFICES ASSUME Init PROVE OutInv /\ MsgInv
    OBVIOUS
  <2>2. OutInv /\ DeliveredIntact
    BY <2>1 DEF Init, WsInit, OutInv, DeliveredIntact
  <2>3. NothingSkipped /\ Fresh(ws.msg) = <<>>
    <3>1. <<>> \o <<>> = [i \in 1..0 |-> i] /\ SubSeq(<<>>, Len(<<>>) + 1, Len(<<>>)) = <<>>
      OBVIOUS
    <3>2. Fresh(ws.msg) = <<>>
      BY <2>1, <3>1 DEF Init, WsInit, Fresh
    <3>. QED
      BY <2>1, <3>1, <3>2 DEF Init, WsInit, NothingSkipped
  <2>4. Reassembling
    <3>1. \A k \in InFrame : NoIO # Only(k)
      BY FrameIsNoWrite
    <3>2. <<>> = <<>> \o <<>>
      OBVIOUS
    <3>. QED
      BY <2>1, <2>3, <3>1, <3>2 DEF Init, WsInit, Reassembling
  <2>. QED
    BY <2>2, <2>3, <2>4 DEF MsgInv
<1>2. IInv /\ OutInv /\ [Next]_vars => OutInv'
  BY NextOut
<1>. QED
  BY <1>1, <1>2, NextMsg, SpecIInv, PTL DEF Spec

(* Every payload read reaches onMsg_ in order, or still is in msg_,        *)
(* whatever was sent, cancelled or answered meanwhile; only what an onMsg_ *)
(* was given before it threw is handed over again.                         *)
THEOREM NothingSkippedHolds == Spec => []NothingSkipped
<1>1. MsgInv => NothingSkipped
  BY DEF MsgInv
<1>. QED
  BY <1>1, SpecMsgInv, PTL

(* With no control frame in between, onMsg_ gets exactly the frames of one *)
(* message of the peer, behind what calls that threw have left in msg_.    *)
THEOREM DeliveredIntactHolds == Spec => []DeliveredIntact
<1>1. MsgInv => DeliveredIntact
  BY DEF MsgInv
<1>. QED
  BY <1>1, SpecMsgInv, PTL

=============================================================================
