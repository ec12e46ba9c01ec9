-------------------------- MODULE WsFramingProofs ---------------------------
(***************************************************************************)
(* Proofs about WsFraming, for payloads of any size.                       *)
(***************************************************************************)
EXTENDS WsFraming, TLAPS

(* A frame whose header tells the truth about its payload. *)
Proper(f) ==
  /\ f.extra \in {ExtraBytes(f.size), ShortestExtra(f.size)}
  /\ f.byte2 = Byte2(f.size, f.extra, f.masked)
  /\ f.length = Extended(f.size, f.extra)

(* The frames not read to their end are the last ones that were written,   *)
(* and what was read is of the others.                                     *)
Stands(f, n) ==
  /\ Proper(f) /\ f.no = n
  /\ n \in DOMAIN sent /\ sent[n] = [size |-> f.size, masked |-> f.masked]
Waiting ==
  /\ Read \in Nat
  /\ \A i \in DOMAIN stream : Stands(stream[i], Read + i)
  /\ \A i \in DOMAIN got : got[i].no \in 1..Read

(* What the members have taken from a right frame under way. *)
ParsedOf(f) ==
  /\ stage = "length" => extra = f.extra /\ mask = f.masked
  /\ stage = "key" => extra = f.extra /\ mask = f.masked /\ size = f.size /\ f.masked
  /\ stage = "body" => /\ extra = f.extra /\ mask = f.masked /\ size = f.size
                       /\ f.masked => xorkey = f.key
Parsed == stream # <<>> /\ Right(Head(stream)) => ParsedOf(Head(stream))

(* Up to the first frame that is not right none was passed over. *)
NonePassed == AllRight(Read) => Len(got) = Read

IInv == TypeOK /\ Waiting /\ Parsed /\ Understood /\ StaysInStep /\ NonePassed

-----------------------------------------------------------------------------
(* The length a header gives is the length it was made from, at every      *)
(* boundary of its forms.                                                  *)
LEMMA LengthSurvives ==
  ASSUME NEW f \in Frame, Proper(f), Right(f), reader \in {"server", "client"}
  PROVE  /\ f.length = f.size
         /\ Extra(Length7(f.byte2)) = f.extra
         /\ f.extra = 0 => Size(Length7(f.byte2)) = f.size
<1> USE SizesAssumption, WordAssumption
<1>1. f.size \in Nat /\ f.length \in Nat /\ f.byte2 \in 0..255 /\ f.extra \in {0, 2, 8}
      /\ f.masked \in BOOLEAN
  BY DEF Frame
<1>2. f.extra = 0 => f.size <= 125
  BY <1>1 DEF Proper, ExtraBytes, ShortestExtra, Max16
<1>3. f.extra = 2 => f.size <= Max16
  BY <1>1 DEF Proper, ExtraBytes, ShortestExtra, Max16
<1>4. f.length = f.size
  BY <1>1, <1>3 DEF Proper, Extended, Max16
<1>5. Length7(f.byte2) = IF f.extra = 0 THEN f.size ELSE IF f.extra = 2 THEN 126 ELSE 127
  <2>1. CASE f.masked
    <3>1. reader = "server"
      BY <2>1 DEF Right
    <3>2. f.byte2 = 128 + (IF f.extra = 0 THEN f.size ELSE IF f.extra = 2 THEN 126 ELSE 127)
      BY <2>1 DEF Proper, Byte2
    <3>. QED
      BY <1>1, <1>2, <3>1, <3>2 DEF Length7
  <2>2. CASE ~f.masked
    <3>1. reader = "client"
      BY <2>2 DEF Right
    <3>2. f.byte2 = IF f.extra = 0 THEN f.size ELSE IF f.extra = 2 THEN 126 ELSE 127
      BY <1>1, <1>2, <2>2 DEF Proper, Byte2
    <3>. QED
      BY <3>1, <3>2 DEF Length7
  <2>. QED
    BY <2>1, <2>2
<1>6. Extra(Length7(f.byte2)) = f.extra
  BY <1>1, <1>2, <1>5 DEF Extra
<1>7. f.extra = 0 => Size(Length7(f.byte2)) = f.size
  BY <1>1, <1>2, <1>5 DEF Size
<1>. QED
  BY <1>4, <1>6, <1>7

(* The mask bit of a header says whether its frame is masked. *)
LEMMA MaskBit ==
  ASSUME NEW f \in Frame, Proper(f)
  PROVE  (f.byte2 >= 128) = f.masked
<1> USE SizesAssumption
<1> DEFINE part == IF f.extra = 0 THEN f.size ELSE IF f.extra = 2 THEN 126 ELSE 127
<1>1. f.size \in Nat /\ f.extra \in {0, 2, 8} /\ f.masked \in BOOLEAN
  BY DEF Frame
<1>2. part \in 0..127
  BY <1>1 DEF Proper, ExtraBytes, ShortestExtra, Max16
<1>3. f.byte2 = (IF f.masked THEN 128 ELSE 0) + part
  BY DEF Proper, Byte2
<1> HIDE DEF part
<1>. QED
  BY <1>1, <1>2, <1>3

(* The frame under way is the first that was not read to its end. *)
LEMMA FrontFrame ==
  ASSUME TypeOK, Waiting, stream # <<>>
  PROVE  /\ Head(stream) \in Frame /\ Stands(Head(stream), Read + 1)
         /\ Right(Head(stream)) <=> Right(sent[Read + 1])
<1>1. stream \in Seq(Frame) /\ Head(stream) = stream[1] /\ 1 \in DOMAIN stream
  BY DEF TypeOK
<1>2. Stands(Head(stream), Read + 1)
  BY <1>1 DEF Waiting
<1>. QED
  BY <1>1, <1>2 DEF Stands, Right

LEMMA InitIInv == Init => IInv
<1> SUFFICES ASSUME Init PROVE IInv
  OBVIOUS
<1>1. TypeOK
  <2>1. mask \in BOOLEAN
    BY DEF Init
  <2>. QED
    BY <2>1 DEF Init, TypeOK
<1>2. Len(sent) = 0 /\ Len(stream) = 0 /\ Len(got) = 0 /\ DOMAIN got = {} /\ DOMAIN stream = {}
      /\ stream = <<>> /\ stage = "head"
  BY DEF Init
<1>3. Read = 0
  BY <1>2 DEF Read
<1>. QED
  BY <1>1, <1>2, <1>3 DEF IInv, Waiting, Parsed, Understood, StaysInStep, NonePassed

-----------------------------------------------------------------------------
LEMMA WriteIInv == ASSUME IInv, Write PROVE IInv'
<1> USE SizesAssumption, WordAssumption DEF IInv
<1>1. PICK n \in Sizes, m \in BOOLEAN, k \in Keys : \E e \in {ExtraBytes(n), ShortestExtra(n)} :
        stream' = Append(stream, Encoded(n, e, m, k)) /\ sent' = Append(sent, [size |-> n, masked |-> m])
  BY DEF Write
<1>2. PICK e \in {ExtraBytes(n), ShortestExtra(n)} :
        stream' = Append(stream, Encoded(n, e, m, k)) /\ sent' = Append(sent, [size |-> n, masked |-> m])
  BY <1>1
<1> DEFINE f == Encoded(n, e, m, k)
           s == [size |-> n, masked |-> m]
<1>3. UNCHANGED <<reader, stage, size, extra, mask, xorkey, got>>
  BY DEF Write, registers
<1>4. n \in Nat /\ e \in {0, 2, 8}
  BY DEF ExtraBytes, ShortestExtra
<1>5. Byte2(n, e, m) \in 0..255 /\ Extended(n, e) \in Nat
  BY <1>4 DEF Byte2, Extended, ExtraBytes, ShortestExtra, Max16
<1>6. f \in Frame
  BY <1>4, <1>5 DEF Encoded, Frame, TypeOK
<1>7. Proper(f) /\ f.no = Len(sent) + 1 /\ s = [size |-> f.size, masked |-> f.masked]
  BY DEF Proper, Encoded
<1>8. s \in Payload
  BY DEF Payload
<1> HIDE DEF f, s
<1>9. stream' = Append(stream, f) /\ sent' = Append(sent, s)
  BY <1>2 DEF f, s
<1>10. stream \in Seq(Frame) /\ sent \in Seq(Payload) /\ got \in Seq([no : Nat, size : Nat, plain : BOOLEAN])
       /\ Len(sent) \in Nat /\ Len(stream) \in Nat
  BY DEF TypeOK
<1>11. TypeOK'
  <2>1. stream' \in Seq(Frame) /\ sent' \in Seq(Payload) /\ stream' # <<>>
    <3>1. stream' \in Seq(Frame) /\ Len(stream') = Len(stream) + 1
      BY <1>6, <1>9, <1>10
    <3>2. sent' \in Seq(Payload)
      BY <1>8, <1>9, <1>10
    <3>3. Len(stream') # 0
      BY <1>10, <3>1
    <3>. QED
      BY <3>1, <3>2, <3>3
  <2>2. mask' \in BOOLEAN
    BY <1>3 DEF TypeOK
  <2>. QED
    BY <1>3, <2>1, <2>2 DEF TypeOK
<1>12. Read' = Read /\ Read \in Nat /\ Read <= Len(sent)
  <2>1. Len(sent') = Len(sent) + 1 /\ Len(stream') = Len(stream) + 1
    BY <1>9, <1>10
  <2>2. \A x, y \in Nat : (x + 1) - (y + 1) = x - y /\ (x - y \in Nat => x - y <= x)
    OBVIOUS
  <2>. QED
    BY <1>10, <2>1, <2>2 DEF Read, Waiting
<1>13. \A i \in DOMAIN sent : i \in DOMAIN sent' /\ sent'[i] = sent[i]
  BY <1>9, <1>10
<1>14. \A i \in 1..Read : i \in DOMAIN sent
  BY <1>10, <1>12
<1>15. \A x : Right(x)' = Right(x)
  BY <1>3 DEF Right
<1>16. Waiting'
  <2>1. ASSUME NEW i \in DOMAIN stream' PROVE Stands(stream[i], Read + i)'
    <3>1. CASE i \in DOMAIN stream
      <4>1. stream'[i] = stream[i] /\ Stands(stream[i], Read + i)
        BY <1>9, <1>10, <3>1 DEF Waiting
      <4>2. QED
        BY <1>12, <1>13, <4>1 DEF Stands, Proper
    <3>2. CASE i = Len(stream) + 1
      <4>1. stream'[i] = f
        BY <1>9, <1>10, <3>2
      <4>2. Read + i = Len(sent) + 1
        BY <1>10, <3>2 DEF Read
      <4>3. Len(sent) + 1 \in DOMAIN sent' /\ sent'[Len(sent) + 1] = s
        BY <1>9, <1>10
      <4>4. QED
        BY <1>7, <1>12, <4>1, <4>2, <4>3 DEF Stands, Proper
    <3>3. i \in DOMAIN stream \/ i = Len(stream) + 1
      BY <1>9, <1>10
    <3>. QED
      BY <3>1, <3>2, <3>3
  <2>. QED
    BY <1>3, <1>12, <2>1 DEF Waiting
<1>17. Parsed'
  <2>1. CASE stream = <<>>
    BY <1>3, <2>1 DEF TypeOK, Parsed, ParsedOf
  <2>2. CASE stream # <<>>
    <3>1. Head(stream') = Head(stream)
      BY <1>9, <1>10, <2>2
    <3>. QED
      BY <1>3, <1>15, <2>2, <3>1 DEF Parsed, ParsedOf
  <2>. QED
    BY <2>1, <2>2
<1>18. Understood'
  <2>1. \A i \in DOMAIN got : sent'[got[i].no] = sent[got[i].no]
    BY <1>13, <1>14 DEF Waiting
  <2>. QED
    BY <1>3, <1>15, <2>1 DEF Understood
<1>19. \A x \in Nat : x <= Read => AllRight(x)' = AllRight(x)
  <2>1. \A i \in 1..Read : Right(sent[i])' = Right(sent[i])
    BY <1>13, <1>14, <1>3 DEF Right
  <2>. QED
    BY <1>12, <2>1 DEF AllRight
<1>20. NonePassed'
  BY <1>3, <1>12, <1>19 DEF NonePassed
<1>21. StaysInStep'
  <2>1. \A x \in 1..Read' : AllRight(x)' => x \in DOMAIN got' /\ got'[x].no = x
    BY <1>3, <1>12, <1>19 DEF StaysInStep
  <2>2. stage' = "lost" => ~AllRight(Read + 1)'
    <3> SUFFICES ASSUME stage = "lost" PROVE ~AllRight(Read + 1)'
      BY <1>3, <1>12
    <3>1. stream # <<>>
      BY DEF TypeOK
    <3>2. Read + 1 \in DOMAIN sent
      BY <3>1, FrontFrame DEF Stands
    <3>3. PICK x \in 1..(Read + 1) : ~Right(sent[x])
      BY DEF StaysInStep, AllRight
    <3>4. x \in DOMAIN sent
      BY <1>10, <1>12, <3>2
    <3>. QED
      BY <1>3, <1>12, <1>13, <3>3, <3>4 DEF AllRight, Right
  <2>. QED
    BY <1>12, <2>1, <2>2 DEF StaysInStep
<1>. QED
  BY <1>11, <1>16, <1>17, <1>18, <1>20, <1>21

-----------------------------------------------------------------------------
(* Reading what comes before a payload's end touches no frame. *)
LEMMA SameFrames ==
  ASSUME IInv, UNCHANGED <<reader, sent, stream, got>>
  PROVE  /\ Read' = Read
         /\ Waiting' /\ Understood' /\ NonePassed'
         /\ (stage' = "lost" => ~AllRight(Read + 1)) => StaysInStep'
<1>1. Read' = Read /\ \A x : Right(x)' = Right(x)
  BY DEF Read, Right
<1>2. \A n : AllRight(n)' = AllRight(n)
  BY DEF AllRight, Right
<1>3. \A f, n : Stands(f, n)' = Stands(f, n)
  BY DEF Stands, Proper
<1>4. Waiting'
  BY <1>1, <1>3 DEF IInv, Waiting
<1>5. Understood' /\ NonePassed'
  BY <1>1, <1>2 DEF IInv, Understood, NonePassed
<1>6. (stage' = "lost" => ~AllRight(Read + 1)) => StaysInStep'
  BY <1>1, <1>2 DEF IInv, StaysInStep
<1>. QED
  BY <1>1, <1>4, <1>5, <1>6

LEMMA ReadHeadIInv == ASSUME IInv, ReadHead PROVE IInv'
<1> USE SizesAssumption, WordAssumption
<1> DEFINE f == Head(stream)
           l == Length7(f.byte2)
<1>1. stream # <<>> /\ UNCHANGED <<reader, sent, stream, xorkey, got>>
  BY DEF ReadHead
<1>2. /\ size' = Size(l) /\ extra' = Extra(l) /\ mask' = (f.byte2 >= 128)
      /\ stage' = IF extra' # 0 THEN "length" ELSE MaskOrMsg(mask')
  BY DEF ReadHead
<1>3. f \in Frame /\ Proper(f)
  BY <1>1, FrontFrame DEF IInv, Stands
<1>4. f.byte2 \in 0..255 /\ l \in Nat /\ f.masked \in BOOLEAN
  BY <1>3 DEF Frame, Length7
<1>5. mask' = f.masked
  BY <1>2, <1>3, MaskBit
<1>6. stage' \in {"length", "key", "body"}
  BY <1>2 DEF MaskOrMsg
<1>7. TypeOK'
  <2>1. size' \in Nat /\ extra' \in {0, 2, 8}
    BY <1>2, <1>4 DEF Size, Extra, IInv, TypeOK
  <2>2. mask' \in BOOLEAN
    BY <1>4, <1>5
  <2>. QED
    BY <1>1, <1>6, <2>1, <2>2 DEF IInv, TypeOK
<1>8. ASSUME Right(f) PROVE ParsedOf(f)'
  <2>1. Extra(l) = f.extra /\ (f.extra = 0 => Size(l) = f.size)
    BY <1>3, <1>8, LengthSurvives DEF IInv, TypeOK
  <2>2. extra' = f.extra
    BY <1>2, <2>1
  <2>3. stage' \in {"key", "body"} => size' = f.size
    BY <1>2, <2>1, <2>2
  <2>4. (stage' = "key" => f.masked) /\ (stage' = "body" => ~f.masked)
    BY <1>2, <1>5 DEF MaskOrMsg
  <2>. QED
    BY <1>1, <1>5, <1>6, <2>2, <2>3, <2>4 DEF ParsedOf
<1>9. Parsed'
  <2>1. Right(f)' = Right(f) /\ Head(stream)' = f
    BY <1>1 DEF Right
  <2>. QED
    BY <1>1, <1>8, <2>1 DEF Parsed
<1>. QED
  BY <1>1, <1>6, <1>7, <1>9, SameFrames DEF IInv

LEMMA ReadLenIInv == ASSUME IInv, ReadLen PROVE IInv'
<1> DEFINE f == Head(stream)
<1>1. stage = "length" /\ size' = f.length /\ stage' = MaskOrMsg(mask)
      /\ UNCHANGED <<reader, sent, stream, extra, mask, xorkey, got>>
  BY DEF ReadLen
<1>2. stream # <<>>
  BY <1>1 DEF IInv, TypeOK
<1>3. f \in Frame /\ Proper(f)
  BY <1>2, FrontFrame DEF IInv, Stands
<1>4. stage' \in {"key", "body"}
  BY <1>1 DEF MaskOrMsg
<1>5. TypeOK'
  <2>1. size' \in Nat
    BY <1>1, <1>3 DEF Frame
  <2>2. mask' \in BOOLEAN
    BY <1>1 DEF IInv, TypeOK
  <2>. QED
    BY <1>1, <1>2, <1>4, <2>1, <2>2 DEF IInv, TypeOK
<1>6. ASSUME Right(f) PROVE ParsedOf(f)'
  <2>1. f.length = f.size
    BY <1>3, <1>6, LengthSurvives DEF IInv, TypeOK
  <2>2. extra = f.extra /\ mask = f.masked
    BY <1>1, <1>2, <1>6 DEF IInv, Parsed, ParsedOf
  <2>3. (stage' = "key" => f.masked) /\ (stage' = "body" => ~f.masked)
    BY <1>1, <2>2 DEF MaskOrMsg
  <2>. QED
    BY <1>1, <1>4, <2>1, <2>2, <2>3 DEF ParsedOf
<1>7. Parsed'
  <2>1. Right(f)' = Right(f) /\ Head(stream)' = f
    BY <1>1 DEF Right
  <2>. QED
    BY <1>2, <1>6, <2>1 DEF Parsed
<1>. QED
  BY <1>1, <1>4, <1>5, <1>7, SameFrames DEF IInv

LEMMA ReadMaskIInv == ASSUME IInv, ReadMask PROVE IInv'
<1> DEFINE f == Head(stream)
<1>1. stage = "key" /\ xorkey' \in Keys /\ (extra = f.extra => xorkey' = f.key) /\ stage' = "body"
      /\ UNCHANGED <<reader, sent, stream, size, extra, mask, got>>
  BY DEF ReadMask
<1>2. stream # <<>>
  BY <1>1 DEF IInv, TypeOK
<1>3. TypeOK'
  <2>1. mask' \in BOOLEAN
    BY <1>1 DEF IInv, TypeOK
  <2>. QED
    BY <1>1, <1>2, <2>1 DEF IInv, TypeOK
<1>4. Parsed'
  <2>1. Right(f)' = Right(f) /\ Head(stream)' = f
    BY <1>1 DEF Right
  <2>2. Right(f) => ParsedOf(f)
    BY <1>2 DEF IInv, Parsed
  <2>3. Right(f) => ParsedOf(f)'
    BY <1>1, <2>2 DEF ParsedOf
  <2>. QED
    BY <2>1, <2>3 DEF Parsed
<1>. QED
  BY <1>1, <1>3, <1>4, SameFrames DEF IInv

(* Going on behind the frame under way, with what was read or without. *)
LEMMA NextFrame ==
  ASSUME IInv, stream # <<>>, stream' = Tail(stream), UNCHANGED <<reader, sent>>
  PROVE  /\ Read' = Read + 1 /\ Read \in Nat
         /\ stream' \in Seq(Frame) /\ Len(stream') = Len(stream) - 1
         /\ \A i \in DOMAIN stream' : Stands(stream[i], Read + i)'
         /\ \A x : Right(x)' = Right(x)
         /\ \A n : AllRight(n)' = AllRight(n)
<1>1. stream \in Seq(Frame) /\ Len(stream) \in Nat /\ Len(sent) \in Nat /\ Len(sent') = Len(sent)
  BY DEF IInv, TypeOK
<1>2. stream' \in Seq(Frame) /\ Len(stream') = Len(stream) - 1
      /\ \A i \in DOMAIN stream' : stream'[i] = stream[i + 1] /\ i + 1 \in DOMAIN stream /\ i \in Nat
  BY <1>1
<1>3. Read' = Read + 1 /\ Read \in Nat
  <2>1. \A x, y \in Nat : x - (y - 1) = (x - y) + 1
    OBVIOUS
  <2>. QED
    BY <1>1, <1>2, <2>1 DEF Read, IInv, Waiting
<1>4. \A x : Right(x)' = Right(x)
  BY DEF Right
<1>5. \A n : AllRight(n)' = AllRight(n)
  BY DEF AllRight, Right
<1>6. \A f, n : Stands(f, n)' = Stands(f, n)
  BY DEF Stands, Proper
<1>7. ASSUME NEW i \in DOMAIN stream' PROVE Stands(stream[i], Read + i)'
  <2>1. Stands(stream'[i], Read + (i + 1))
    BY <1>2 DEF IInv, Waiting
  <2>2. Read + (i + 1) = Read' + i
    BY <1>2, <1>3
  <2>. QED
    BY <1>6, <2>1, <2>2
<1>. QED
  BY <1>2, <1>3, <1>4, <1>5, <1>7

LEMMA ReadMsgIInv == ASSUME IInv, ReadMsg PROVE IInv'
<1> DEFINE f == Head(stream)
           item == [no |-> f.no, size |-> size, plain |-> Plain(f)]
<1>1. stage = "body" /\ UNCHANGED <<reader, sent, size, extra, mask, xorkey>>
  BY DEF ReadMsg, registers
<1>2. stream # <<>> /\ stream \in Seq(Frame) /\ sent \in Seq(Payload)
      /\ got \in Seq([no : Nat, size : Nat, plain : BOOLEAN]) /\ Len(got) \in Nat
  BY <1>1 DEF IInv, TypeOK
<1>3. f \in Frame /\ Stands(f, Read + 1) /\ (Right(f) <=> Right(sent[Read + 1]))
  BY <1>2, FrontFrame DEF IInv
<1>4. f.no = Read + 1 /\ sent[Read + 1].size = f.size
  BY <1>3 DEF Stands
<1>5. mask' \in BOOLEAN /\ Read \in Nat
  BY <1>1 DEF IInv, TypeOK, Waiting
<1>6. ASSUME Right(f)
      PROVE  Asked = Bytes(f) /\ Plain(f) /\ size = f.size
  <2>1. extra = f.extra /\ mask = f.masked /\ size = f.size /\ (f.masked => xorkey = f.key)
    BY <1>1, <1>2, <1>6 DEF IInv, Parsed, ParsedOf
  <2>2. f.masked \in BOOLEAN /\ reader \in {"server", "client"}
    BY <1>3 DEF Frame, IInv, TypeOK
  <2>. QED
    BY <1>6, <2>1, <2>2 DEF Asked, Bytes, Plain, Right
<1>7. CASE Asked = Bytes(f)
  <2>1. got' = Append(got, item) /\ stream' = Tail(stream) /\ stage' = "head"
    BY <1>7 DEF ReadMsg
  <2>2. item \in [no : Nat, size : Nat, plain : BOOLEAN]
    <3>1. Plain(f) \in BOOLEAN
      BY <1>3 DEF Plain, Frame
    <3>2. f.no \in Nat /\ size \in Nat
      BY <1>3 DEF Frame, IInv, TypeOK
    <3>. QED
      BY <3>1, <3>2
  <2>3. item.no = Read + 1 /\ item.size = size /\ item.plain = Plain(f)
    BY <1>4
  <2> HIDE DEF item, f
  <2>4. /\ Len(got') = Len(got) + 1 /\ DOMAIN got' = 1..(Len(got) + 1) /\ DOMAIN got = 1..Len(got)
        /\ got'[Len(got) + 1] = item /\ \A i \in DOMAIN got : got'[i] = got[i]
        /\ got' \in Seq([no : Nat, size : Nat, plain : BOOLEAN])
    BY <1>2, <2>1, <2>2
  <2>5. /\ Read' = Read + 1 /\ stream' \in Seq(Frame)
        /\ \A i \in DOMAIN stream' : Stands(stream[i], Read + i)'
        /\ \A x : Right(x)' = Right(x)
        /\ \A n : AllRight(n)' = AllRight(n)
    BY <1>1, <1>2, <2>1, NextFrame
  <2>6. TypeOK'
    BY <1>1, <1>2, <1>5, <2>1, <2>4, <2>5 DEF IInv, TypeOK
  <2>7. \A i \in DOMAIN got' : i \in DOMAIN got \/ i = Len(got) + 1
    BY <1>2, <2>4
  <2>8. Waiting'
    <3>1. \A i \in DOMAIN got' : got'[i].no \in 1..Read'
      <4>1. \A i \in DOMAIN got : got[i].no \in 1..Read
        BY DEF IInv, Waiting
      <4>2. \A x \in 1..Read : x \in 1..(Read + 1)
        BY <1>5
      <4>3. Read + 1 \in 1..(Read + 1)
        BY <1>5
      <4>. QED
        BY <2>3, <2>4, <2>5, <2>7, <4>1, <4>2, <4>3
    <3>. QED
      BY <1>5, <2>5, <3>1 DEF Waiting
  <2>9. Parsed'
    BY <2>1 DEF Parsed, ParsedOf
  <2>10. Understood'
    <3> SUFFICES ASSUME NEW i \in DOMAIN got', Right(sent[got'[i].no])
                 PROVE  got'[i].size = sent[got'[i].no].size /\ got'[i].plain
      BY <1>1, <2>5 DEF Understood
    <3>1. CASE i \in DOMAIN got
      BY <2>4, <3>1 DEF IInv, Understood
    <3>2. CASE i = Len(got) + 1
      <4>1. got'[i] = item
        BY <2>4, <3>2
      <4>2. Right(f)
        BY <1>3, <2>3, <4>1
      <4>. QED
        BY <1>4, <1>6, <2>3, <4>1, <4>2
    <3>. QED
      BY <2>7, <3>1, <3>2
  <2>11. AllRight(Read + 1) => Len(got) = Read
    <3>1. AllRight(Read + 1) => AllRight(Read)
      BY <1>5 DEF AllRight
    <3>. QED
      BY <3>1 DEF IInv, NonePassed
  <2>12. NonePassed'
    BY <2>4, <2>5, <2>11 DEF NonePassed
  <2>13. StaysInStep'
    <3>1. ASSUME NEW n \in 1..(Read + 1), AllRight(n)
          PROVE  n \in DOMAIN got' /\ got'[n].no = n
      <4>1. CASE n = Read + 1
        <5>1. Len(got) + 1 = n
          BY <2>11, <3>1, <4>1
        <5>2. n \in DOMAIN got'
          BY <1>2, <2>4, <5>1
        <5>. QED
          BY <2>3, <2>4, <4>1, <5>1, <5>2
      <4>2. CASE n \in 1..Read
        <5>1. n \in DOMAIN got /\ got[n].no = n
          BY <3>1, <4>2 DEF IInv, StaysInStep
        <5>2. n \in DOMAIN got'
          BY <1>2, <2>4, <5>1
        <5>. QED
          BY <2>4, <5>1, <5>2
      <4>3. n = Read + 1 \/ n \in 1..Read
        BY <1>5, <3>1
      <4>. QED
        BY <4>1, <4>2, <4>3
    <3>. QED
      BY <2>1, <2>5, <3>1 DEF StaysInStep
  <2>. QED
    BY <2>6, <2>8, <2>9, <2>10, <2>12, <2>13 DEF IInv
<1>8. CASE Asked # Bytes(f)
  <2>1. ~Right(f)
    BY <1>6, <1>8
  <2>2. UNCHANGED <<stream, got>> /\ stage' = "lost"
    BY <1>8 DEF ReadMsg
  <2>3. TypeOK'
    BY <1>1, <1>2, <1>5, <2>2 DEF IInv, TypeOK
  <2>4. Parsed'
    BY <2>2 DEF Parsed, ParsedOf
  <2>5. ~AllRight(Read + 1)
    <3>1. Read + 1 \in 1..(Read + 1)
      BY <1>5
    <3>. QED
      BY <1>3, <2>1, <3>1 DEF AllRight
  <2>. QED
    BY <1>1, <2>2, <2>3, <2>4, <2>5, SameFrames DEF IInv
<1>. QED
  BY <1>7, <1>8

LEMMA ReadAstrayIInv == ASSUME IInv, ReadAstray PROVE IInv'
<1> USE SizesAssumption
<1>1. /\ stage = "lost" /\ stream' = Tail(stream) /\ UNCHANGED <<reader, sent, got>>
      /\ stage' \in {"head"} \cup (IF Len(stream) > 1 THEN {"lost"} ELSE {})
      /\ size' \in Sizes /\ extra' \in {0, 2, 8} /\ mask' \in BOOLEAN /\ xorkey' \in Keys
  BY DEF ReadAstray
<1>2. stream # <<>> /\ stream \in Seq(Frame) /\ Len(stream) \in Nat
  BY <1>1 DEF IInv, TypeOK
<1>3. /\ Read' = Read + 1 /\ Read \in Nat
      /\ stream' \in Seq(Frame) /\ Len(stream') = Len(stream) - 1
      /\ \A i \in DOMAIN stream' : Stands(stream[i], Read + i)'
      /\ \A x : Right(x)' = Right(x)
      /\ \A n : AllRight(n)' = AllRight(n)
  BY <1>1, <1>2, NextFrame
<1>4. ~AllRight(Read + 1)
  BY <1>1 DEF IInv, StaysInStep
<1>5. \A n \in Nat : n > Read => ~AllRight(n)
  <2>1. \A n \in Nat : n > Read => \A m \in 1..(Read + 1) : m \in 1..n
    BY <1>3
  <2>. QED
    BY <1>4, <2>1 DEF AllRight
<1>6. stage' \in {"head", "lost"} /\ (stage' # "head" => stream' # <<>>)
  <2>1. stage' # "head" => Len(stream) > 1
    BY <1>1
  <2>2. \A x \in Nat : x > 1 => x - 1 # 0
    OBVIOUS
  <2>3. stage' # "head" => Len(stream') # 0
    BY <1>2, <1>3, <2>1, <2>2
  <2>4. stream' = <<>> => Len(stream') = 0
    BY <1>3
  <2>. QED
    BY <1>1, <2>3, <2>4
<1>7. TypeOK'
  BY <1>1, <1>3, <1>6 DEF IInv, TypeOK
<1>8. Waiting'
  <2>1. \A x \in 1..Read : x \in 1..(Read + 1)
    BY <1>3
  <2>. QED
    BY <1>1, <1>3, <2>1 DEF IInv, Waiting
<1>9. Parsed'
  BY <1>6 DEF Parsed, ParsedOf
<1>10. Understood'
  BY <1>1, <1>3 DEF IInv, Understood
<1>11. NonePassed'
  BY <1>3, <1>4 DEF NonePassed
<1>12. StaysInStep'
  <2>1. \A n \in 1..(Read + 1) : AllRight(n) => n \in 1..Read
    BY <1>3, <1>4
  <2>2. ~AllRight((Read + 1) + 1)
    BY <1>3, <1>5
  <2>. QED
    BY <1>1, <1>3, <2>1, <2>2 DEF IInv, StaysInStep
<1>. QED
  BY <1>7, <1>8, <1>9, <1>10, <1>11, <1>12 DEF IInv

-----------------------------------------------------------------------------
LEMMA NextIInv == IInv /\ [Next]_vars => IInv'
<1> SUFFICES ASSUME IInv, [Next]_vars PROVE IInv'
  OBVIOUS
<1>1. CASE UNCHANGED vars
  <2>1. UNCHANGED <<reader, sent, stream, stage, size, extra, mask, xorkey, got>>
    BY <1>1 DEF vars, registers
  <2>2. mask' \in BOOLEAN
    BY <2>1 DEF IInv, TypeOK
  <2>3. TypeOK'
    BY <2>1, <2>2 DEF IInv, TypeOK
  <2>4. Parsed'
    BY <2>1 DEF IInv, Parsed, ParsedOf, Right
  <2>5. stage' = "lost" => ~AllRight(Read + 1)
    BY <2>1 DEF IInv, StaysInStep
  <2>. QED
    BY <2>1, <2>3, <2>4, <2>5, SameFrames DEF IInv
<1>. QED
  BY <1>1, WriteIInv, ReadHeadIInv, ReadLenIInv, ReadMaskIInv, ReadMsgIInv, ReadAstrayIInv DEF Next

LEMMA IInvHolds == Spec => []IInv
BY InitIInv, NextIInv, PTL DEF Spec

(* The types of the codec's members and of what it reads, for any sizes.   *)
THEOREM TypesHold == Spec => []TypeOK
<1>1. IInv => TypeOK
  BY DEF IInv
<1>. QED
  BY <1>1, IInvHolds, PTL

(* A frame masked as it has to be and read from its start comes out with   *)
(* its size and without its key, for payloads of any size and whatever the *)
(* frames before it, read in step or astray, have left in the members.     *)
THEOREM UnderstoodHolds == Spec => []Understood
<1>1. IInv => Understood
  BY DEF IInv
<1>. QED
  BY <1>1, IInvHolds, PTL

(* Up to the first frame masked as it should not be every frame is read,   *)
(* in order and from its start to its end, for payloads of any size in any *)
(* of the forms a length may be written in.                                *)
THEOREM StaysInStepHolds == Spec => []StaysInStep
<1>1. IInv => StaysInStep
  BY DEF IInv
<1>. QED
  BY <1>1, IInvHolds, PTL

=============================================================================
