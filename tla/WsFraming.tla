----------------------------- MODULE WsFraming ------------------------------
(***************************************************************************)
(* The frame codec of src/src/websocket.cpp, one direction of a WebSocket: *)
(* what parse_* and the reads behind them make of the frames a peer, be it *)
(* a WebsocketWriter or a browser, has written.  A header's numbers are    *)
(* kept; a payload is its size, its number and the key it is masked with.  *)
(* An operator that stands just before another and bears its name with a   *)
(* suffix is a mutant of it, never used by the actions.                    *)
(***************************************************************************)
EXTENDS Naturals, Sequences

CONSTANTS Sizes,     \* payload sizes the peer sends
          Keys,      \* masking keys
          WordSize,  \* modulus of an unsigned int
          MaxFrames  \* bound: frames the peer sends

ASSUME SizesAssumption == Sizes \subseteq Nat /\ Keys # {}
ASSUME WordAssumption == WordSize \in Nat /\ WordSize > 255 /\ MaxFrames \in Nat

VARIABLES
  reader,  \* which side reads: "server", or "client" (isClient_)
  sent,    \* the frames written so far: payload sizes, and which are masked
  stream,  \* the frames written and not yet read to their end
  stage,   \* the read outstanding, "lost" when it starts within a payload
  size,    \* size_
  extra,   \* extralenbytes_
  mask,    \* mask_
  xorkey,  \* xorkey_
  got      \* the payloads read from where they start to where they end

registers == <<size, extra, mask, xorkey>>
vars == <<reader, sent, stream, stage, registers, got>>

Max16 == 65535  \* UINT16_MAX

-----------------------------------------------------------------------------
(* Writing. *)

(* WebsocketWriter::write_frame ... *)
ExtraBytes(n) == IF n < 126 THEN 0 ELSE IF n < Max16 THEN 2 ELSE 8
(* ... and a browser, which takes the shortest form. *)
ShortestExtra(n) == IF n < 126 THEN 0 ELSE IF n <= Max16 THEN 2 ELSE 8

(* The second header byte and the number in the extended length field. *)
Byte2(n, e, m) == (IF m THEN 128 ELSE 0) + (IF e = 0 THEN n ELSE IF e = 2 THEN 126 ELSE 127)
Extended(n, e) == IF e = 2 THEN n % (Max16 + 1) ELSE n

Encoded(n, e, m, k) == [no |-> Len(sent) + 1, byte2 |-> Byte2(n, e, m), extra |-> e,
                        length |-> Extended(n, e), size |-> n, masked |-> m, key |-> k]

(* Any frame of the peer may be masked or not. *)
Write ==
  /\ Len(sent) < MaxFrames
  /\ \E n \in Sizes, m \in BOOLEAN, k \in Keys : \E e \in {ExtraBytes(n), ShortestExtra(n)} :
       /\ stream' = Append(stream, Encoded(n, e, m, k))
       /\ sent' = Append(sent, [size |-> n, masked |-> m])
  /\ UNCHANGED <<reader, stage, registers, got>>

-----------------------------------------------------------------------------
(* Reading. *)

Init ==
  /\ reader \in {"server", "client"}
  /\ sent = <<>> /\ stream = <<>> /\ got = <<>>
  /\ stage = "head"
  /\ size = 0 /\ extra = 0 /\ mask = FALSE
  /\ xorkey \in Keys   \* not initialized

(* parse_len: a server takes the mask bit for granted; the difference is   *)
(* unsigned and wraps around when the bit is not set.                      *)
Length7(b) == IF reader = "client" THEN b
              ELSE IF b >= 128 THEN b - 128 ELSE b + WordSize - 128

Size(l) == IF l <= 125 THEN l ELSE size
ExtraKept(l) == IF l = 126 THEN 2 ELSE IF l = 127 THEN 8 ELSE extra
Extra(l) == IF l = 126 THEN 2 ELSE IF l = 127 THEN 8 ELSE 0

MaskOrMsg(m) == IF m THEN "key" ELSE "body"

(* read_frame *)
ReadHead ==
  /\ stage = "head" /\ stream # <<>>
  /\ LET f == Head(stream)
         l == Length7(f.byte2)
     IN /\ size' = Size(l)
        /\ extra' = Extra(l)
        /\ mask' = (f.byte2 >= 128)
        /\ stage' = IF extra' # 0 THEN "length" ELSE MaskOrMsg(mask')
  /\ UNCHANGED <<reader, sent, stream, xorkey, got>>

ReadLen ==
  /\ stage = "length"
  /\ size' = Head(stream).length
  /\ stage' = MaskOrMsg(mask)
  /\ UNCHANGED <<reader, sent, stream, extra, mask, xorkey, got>>

(* Where an extended length was left out, its bytes are taken for a key.   *)
ReadMaskKeepsOld ==
  /\ stage = "key"
  /\ stage' = "body"
  /\ UNCHANGED <<reader, sent, stream, registers, got>>
ReadMask ==
  /\ stage = "key"
  /\ xorkey' \in Keys
  /\ extra = Head(stream).extra => xorkey' = Head(stream).key
  /\ stage' = "body"
  /\ UNCHANGED <<reader, sent, stream, size, extra, mask, got>>

(* A server unmasks every payload, a client none. *)
Plain(f) == /\ extra = f.extra
            /\ IF reader = "client" THEN ~f.masked ELSE f.masked /\ xorkey = f.key

(* The bytes the reads of a frame ask for behind its header, and those the *)
(* frame has there.                                                        *)
KeyBytes(m) == IF m THEN 4 ELSE 0
Asked == extra + KeyBytes(mask) + size
Bytes(f) == f.extra + KeyBytes(f.masked) + f.size

(* read_msg.  The next read starts where the frame ends, or within one.    *)
ReadMsgReadsOn ==
  /\ stage = "body" /\ Asked = Bytes(Head(stream))
  /\ got' = Append(got, [no |-> Head(stream).no, size |-> size, plain |-> Plain(Head(stream))])
  /\ stream' = Tail(stream)
  /\ UNCHANGED <<reader, sent, stage, registers>>
ReadMsg ==
  /\ stage = "body"
  /\ LET f == Head(stream) IN
       IF Asked = Bytes(f)
       THEN /\ got' = Append(got, [no |-> f.no, size |-> size, plain |-> Plain(f)])
            /\ stream' = Tail(stream)
            /\ stage' = "head"
       ELSE /\ stage' = "lost"
            /\ UNCHANGED <<stream, got>>
  /\ UNCHANGED <<reader, sent, registers>>

(* Reading on from within a payload takes its bytes for frames of any kind *)
(* and may, with the last of them, come to the start of a frame again.     *)
ReadAstray ==
  /\ stage = "lost"
  /\ stream' = Tail(stream)
  /\ stage' \in {"head"} \cup (IF Len(stream) > 1 THEN {"lost"} ELSE {})
  /\ size' \in Sizes /\ extra' \in {0, 2, 8} /\ mask' \in BOOLEAN /\ xorkey' \in Keys
  /\ UNCHANGED <<reader, sent, got>>

Next == Write \/ ReadHead \/ ReadLen \/ ReadMask \/ ReadMsg \/ ReadAstray

Spec == Init /\ [][Next]_vars

-----------------------------------------------------------------------------
(* Properties.                                                             *)

Payload == [size : Sizes, masked : BOOLEAN]
Frame == [no : Nat \ {0}, byte2 : 0..255, extra : {0, 2, 8}, length : Nat,
          size : Sizes, masked : BOOLEAN, key : Keys]

(* Types; a part of a frame is only read while there is a frame.           *)
TypeOK ==
  /\ reader \in {"server", "client"}
  /\ sent \in Seq(Payload) /\ stream \in Seq(Frame)
  /\ stage \in {"head", "length", "key", "body", "lost"}
  /\ stage # "head" => stream # <<>>
  /\ size \in Nat /\ extra \in {0, 2, 8} /\ mask \in BOOLEAN /\ xorkey \in Keys
  /\ got \in Seq([no : Nat, size : Nat, plain : BOOLEAN])

(* A frame is right when it is masked as a frame to this side has to be.   *)
Right(s) == s.masked = (reader = "server")

(* Whatever the frames before it have left in size_, extralenbytes_, mask_ *)
(* and xorkey_, be they right or not and read in step or astray: a right   *)
(* frame that is read from its start comes out with its size and free of   *)
(* any key.                                                                *)
Understood ==
  \A i \in DOMAIN got : Right(sent[got[i].no]) =>
    got[i].size = sent[got[i].no].size /\ got[i].plain

(* Nothing but a frame that is not right leads the reads astray: up to the *)
(* first of those every frame is read, in order, from its start to its     *)
(* end, whatever the sizes and the form of their lengths.                  *)
Read == Len(sent) - Len(stream)
AllRight(n) == \A m \in 1..n : Right(sent[m])
StaysInStep ==
  /\ \A n \in 1..Read : AllRight(n) => n \in DOMAIN got /\ got[n].no = n
  /\ stage = "lost" => ~AllRight(Read + 1)
=============================================================================
