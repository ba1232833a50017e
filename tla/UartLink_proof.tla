--------------------------- MODULE UartLink_proof ---------------------------
(***************************************************************************)
(* Proofs about UartLink: with the length in front of every frame, and on  *)
(* a line without faults, the receiver puts the frames together again, for *)
(* any messages and however the bytes are cut into chunks.                 *)
(***************************************************************************)
EXTENDS UartLink, SequenceTheorems, TLAPS

(* Values on the wire.  That a CRC is below 65536 is never used: the bytes  *)
(* of a record are whatever the sender computed.                            *)
Body(m) == <<m.address, SECURE_FUNCTION_CODE>> \o build_apdu(m.tag, m.payload)
OnTheLine ==
    Nat \cup UNION {{crc16_modbus(Body(Messages[i])) % 256,
                     crc16_modbus(Body(Messages[i])) \div 256} : i \in DOMAIN Messages}

Stream == Seq(OnTheLine)

(* The messages first..last lie in the stream one after the other, and       *)
(* nothing else: at[i] is where message i begins.                           *)
LaidAt(stream, first, last, at) ==
    /\ at \in [Nat -> Nat]
    /\ at[first] = 0 /\ at[last + 1] = Len(stream)
    /\ \A i, j \in first..(last + 1) : i <= j => at[i] <= at[j]
    /\ \A i \in first..last :
          /\ at[i + 1] = at[i] + Len(Record(Messages[i]))
          /\ \A k \in 1..Len(Record(Messages[i])) : stream[at[i] + k] = Record(Messages[i])[k]
Laid(stream, first, last) == \E at : LaidAt(stream, first, last, at)

(* The message the receiver is in the middle of, or waits for *)
Current == Len(received) + 1
UnderWay == part \o (buffer \o wire)
Ahead ==
    IF reading = "length" THEN UnderWay
    ELSE BigEndian(Len(SecureFrame(Messages[Current]))) \o UnderWay

LinkTypes ==
    /\ written \in 0..Len(Messages) /\ faults \in Nat
    /\ wire \in Stream /\ buffer \in Stream /\ part \in Stream
    /\ want \in Nat \ {0} /\ reading \in {"length", "frame"}

InStep ==
    /\ errors = 0
    /\ Len(received) \in 0..written
    /\ received = SubSeq(Messages, 1, Len(received))
    /\ Laid(Ahead, Current, written)
    /\ reading = "length" => want + Len(part) = 2
    /\ reading = "frame" =>
          /\ Len(received) < written
          /\ want + Len(part) = Len(SecureFrame(Messages[Current]))

LinkInvariant == faults \in Nat /\ (faults = 0 => LinkTypes /\ InStep)

-----------------------------------------------------------------------------
(* What the sender writes *)

LEMMA MessagesAre ==
    /\ Len(Messages) \in Nat /\ DOMAIN Messages = 1..Len(Messages)
    /\ \A i \in 1..Len(Messages) :
          /\ Messages[i] \in [address : {Address}, tag : Byte, payload : Seq(Byte)]
    /\ Address \in Nat
<1>1. Messages \in Seq([address : {Address}, tag : Byte, payload : Seq(Byte)])
  BY UartAssumption
<1>2. Address \in Nat
  BY UartAssumption
<1> QED
  BY <1>1, <1>2, LenProperties, ElementOfSeq

LEMMA Joined ==
    ASSUME NEW S, NEW s \in Seq(S), NEW t \in Seq(S)
    PROVE  /\ s \o t \in Seq(S) /\ Len(s \o t) = Len(s) + Len(t)
           /\ Len(s) \in Nat /\ Len(t) \in Nat
           /\ \A i \in 1..Len(s) : (s \o t)[i] = s[i]
           /\ \A i \in 1..Len(t) : (s \o t)[Len(s) + i] = t[i]
<1>1. Len(s) \in Nat /\ Len(t) \in Nat
  BY LenProperties
<1>2. /\ s \o t \in Seq(S) /\ Len(s \o t) = Len(s) + Len(t)
      /\ \A i \in 1 .. Len(s) + Len(t) : (s \o t)[i] = IF i <= Len(s) THEN s[i] ELSE t[i - Len(s)]
  BY ConcatProperties
<1>3. ASSUME NEW i \in 1..Len(t)
      PROVE  (s \o t)[Len(s) + i] = t[i]
  <2>1. Len(s) + i \in 1..Len(s) + Len(t) /\ ~(Len(s) + i <= Len(s)) /\ Len(s) + i - Len(s) = i
    BY <1>1
  <2> QED
    BY <1>2, <2>1
<1> QED
  BY <1>1, <1>2, <1>3

LEMMA HighAndLow ==
    ASSUME NEW n \in Nat
    PROVE  n \div 256 \in Nat /\ n % 256 \in Nat /\ 256 * (n \div 256) + (n % 256) = n
<1>1. n \in Int /\ 256 \in Int /\ 256 > 0
  OBVIOUS
<1>2. n % 256 \in 0..255
  BY <1>1
<1>3. n \div 256 \in Int
  BY <1>1
<1>4. n = 256 * (n \div 256) + (n % 256)
  BY <1>1
<1> QED
  BY <1>1, <1>2, <1>3, <1>4

LEMMA StreamsJoined ==
    ASSUME NEW s \in Stream, NEW t \in Stream
    PROVE  /\ s \o t \in Stream /\ Len(s \o t) = Len(s) + Len(t)
           /\ Len(s) \in Nat /\ Len(t) \in Nat
           /\ \A i \in 1..Len(s) : (s \o t)[i] = s[i]
           /\ \A i \in 1..Len(t) : (s \o t)[Len(s) + i] = t[i]
<1> DEFINE S == OnTheLine
<1>1. s \in Seq(S) /\ t \in Seq(S)
  BY DEF Stream
<1> HIDE DEF S
<1>2. /\ s \o t \in Seq(S) /\ Len(s \o t) = Len(s) + Len(t)
      /\ Len(s) \in Nat /\ Len(t) \in Nat
      /\ \A i \in 1..Len(s) : (s \o t)[i] = s[i]
      /\ \A i \in 1..Len(t) : (s \o t)[Len(s) + i] = t[i]
  BY <1>1, Joined
<1> QED
  BY <1>2 DEF S, Stream

LEMMA NumbersJoined ==
    ASSUME NEW s \in Seq(Nat), NEW t \in Seq(Nat)
    PROVE  /\ s \o t \in Seq(Nat) /\ Len(s \o t) = Len(s) + Len(t)
           /\ \A i \in 1..Len(s) : (s \o t)[i] = s[i]
<1> DEFINE S == Nat
<1>1. s \in Seq(S) /\ t \in Seq(S)
  OBVIOUS
<1> HIDE DEF S
<1>2. /\ s \o t \in Seq(S) /\ Len(s \o t) = Len(s) + Len(t)
      /\ \A i \in 1..Len(s) : (s \o t)[i] = s[i]
  BY <1>1, Joined
<1> QED
  BY <1>2 DEF S

LEMMA BigEndianIs ==
    ASSUME NEW n \in Nat
    PROVE  /\ BigEndian(n) \in Stream /\ Len(BigEndian(n)) = 2
           /\ LengthOf(BigEndian(n)) = n
           /\ BigEndian(n) \in Seq(Nat)
<1>1. n \div 256 \in Nat /\ n % 256 \in Nat /\ 256 * (n \div 256) + (n % 256) = n
  BY HighAndLow
<1>2. n \div 256 \in OnTheLine /\ n % 256 \in OnTheLine
  BY <1>1 DEF OnTheLine
<1> QED
  BY <1>1, <1>2 DEF BigEndian, LengthOf, Stream

LEMMA BodyIs ==
    ASSUME NEW i \in 1..Len(Messages)
    PROVE  LET m == Messages[i] IN
           /\ build_apdu(m.tag, m.payload) \in Seq(Nat)
           /\ Len(build_apdu(m.tag, m.payload)) = Len(m.payload) + 3
           /\ Len(m.payload) \in Nat
           /\ Body(m) \in Seq(Nat) /\ Len(Body(m)) = Len(m.payload) + 5
<1> DEFINE m == Messages[i]
           front == <<m.tag>> \o BigEndian(Len(m.payload))
<1>1. m.address \in Nat /\ m.tag \in Nat /\ m.payload \in Seq(Nat)
  <2>1. m.payload \in Seq(Byte) /\ m.tag \in Byte /\ m.address = Address
    BY MessagesAre
  <2>2. Byte \subseteq Nat
    BY DEF Byte
  <2>3. Seq(Byte) \subseteq Seq(Nat)
    BY <2>2, SeqMonotonic
  <2> QED
    BY <2>1, <2>2, <2>3, MessagesAre
<1> HIDE DEF m
<1>2. Len(m.payload) \in Nat
  BY <1>1, LenProperties
<1>3. BigEndian(Len(m.payload)) \in Seq(Nat) /\ Len(BigEndian(Len(m.payload))) = 2
  BY <1>2, BigEndianIs
<1>4. <<m.tag>> \in Seq(Nat) /\ Len(<<m.tag>>) = 1
  BY <1>1
<1>5. front \in Seq(Nat) /\ Len(front) = Len(<<m.tag>>) + Len(BigEndian(Len(m.payload)))
  BY <1>3, <1>4, Joined, Zenon
<1>5a. Len(front) = 3
  BY <1>3, <1>4, <1>5
<1> HIDE DEF front
<1>6. /\ front \o m.payload \in Seq(Nat)
      /\ Len(front \o m.payload) = Len(front) + Len(m.payload)
  BY <1>1, <1>5, Joined, Zenon
<1>7. /\ build_apdu(m.tag, m.payload) \in Seq(Nat)
      /\ Len(build_apdu(m.tag, m.payload)) = Len(m.payload) + 3
  <2>1. build_apdu(m.tag, m.payload) = front \o m.payload
    BY DEF build_apdu, front
  <2>2. Len(front \o m.payload) = Len(m.payload) + 3
    BY <1>2, <1>5a, <1>6
  <2> QED
    BY <1>6, <2>1, <2>2, Zenon
<1>8. /\ <<m.address, SECURE_FUNCTION_CODE>> \in Seq(Nat)
      /\ Len(<<m.address, SECURE_FUNCTION_CODE>>) = 2
  BY <1>1 DEF SECURE_FUNCTION_CODE
<1>9. /\ Body(m) \in Seq(Nat)
      /\ Len(Body(m)) = Len(<<m.address, SECURE_FUNCTION_CODE>>)
                           + Len(build_apdu(m.tag, m.payload))
  BY <1>7, <1>8, Joined, Zenon DEF Body
<1>10. Len(Body(m)) = Len(m.payload) + 5
  BY <1>2, <1>7, <1>8, <1>9
<1> QED
  BY <1>2, <1>7, <1>9, <1>10 DEF m

LEMMA SecureFrameIs ==
    ASSUME NEW i \in 1..Len(Messages)
    PROVE  LET m == Messages[i] IN
           /\ SecureFrame(m) = Body(m) \o LittleEndian(crc16_modbus(Body(m)))
           /\ LittleEndian(crc16_modbus(Body(m))) \in Stream
           /\ Len(LittleEndian(crc16_modbus(Body(m)))) = 2
           /\ Body(m) \in Stream
           /\ SecureFrame(m) \in Stream
           /\ Len(SecureFrame(m)) = Len(m.payload) + 7
<1> DEFINE m == Messages[i]
           crc == crc16_modbus(Body(m))
<1>1. SecureFrame(m) = Body(m) \o LittleEndian(crc)
  BY DEF SecureFrame, build_rtu_frame, Body
<1>2. crc % 256 \in OnTheLine /\ crc \div 256 \in OnTheLine
  <2>1. i \in DOMAIN Messages
    BY MessagesAre
  <2> QED
    BY <2>1 DEF OnTheLine
<1>3. Body(m) \in Stream /\ Len(Body(m)) = Len(m.payload) + 5 /\ Len(m.payload) \in Nat
  <2>1. Nat \subseteq OnTheLine
    BY DEF OnTheLine
  <2>2. Seq(Nat) \subseteq Stream
    BY <2>1, SeqMonotonic DEF Stream
  <2> QED
    BY <2>2, BodyIs
<1> HIDE DEF crc, m
<1>4. LittleEndian(crc) \in Stream /\ Len(LittleEndian(crc)) = 2
  BY <1>2 DEF LittleEndian, Stream
<1>5. /\ Body(m) \o LittleEndian(crc) \in Stream
      /\ Len(Body(m) \o LittleEndian(crc)) = Len(Body(m)) + Len(LittleEndian(crc))
  BY <1>3, <1>4, StreamsJoined, Zenon
<1>6. Len(Body(m) \o LittleEndian(crc)) = Len(m.payload) + 7
  BY <1>3, <1>4, <1>5
<1> QED
  BY <1>1, <1>3, <1>4, <1>5, <1>6 DEF crc, m

LEMMA RecordIs ==
    ASSUME Prefixed, NEW i \in 1..Len(Messages)
    PROVE  LET frame == SecureFrame(Messages[i]) IN
           /\ Record(Messages[i]) = BigEndian(Len(frame)) \o frame
           /\ frame \in Stream /\ Len(frame) \in Nat /\ 7 <= Len(frame)
           /\ BigEndian(Len(frame)) \in Stream /\ Len(BigEndian(Len(frame))) = 2
           /\ LengthOf(BigEndian(Len(frame))) = Len(frame)
           /\ Record(Messages[i]) \in Stream
           /\ Len(Record(Messages[i])) = Len(frame) + 2
<1> DEFINE frame == SecureFrame(Messages[i])
<1>0. frame \in Stream /\ Len(frame) = Len(Messages[i].payload) + 7
  BY SecureFrameIs, Zenon
<1>0a. Len(Messages[i].payload) \in Nat
  BY BodyIs, Zenon
<1>1. frame \in Stream /\ Len(frame) \in Nat /\ 7 <= Len(frame)
  BY <1>0, <1>0a
<1>2. Record(Messages[i]) = BigEndian(Len(frame)) \o frame
  BY DEF Record
<1> HIDE DEF frame
<1>3. /\ BigEndian(Len(frame)) \in Stream /\ Len(BigEndian(Len(frame))) = 2
      /\ LengthOf(BigEndian(Len(frame))) = Len(frame)
  BY <1>1, BigEndianIs
<1>4. /\ BigEndian(Len(frame)) \o frame \in Stream
      /\ Len(BigEndian(Len(frame)) \o frame) = Len(BigEndian(Len(frame))) + Len(frame)
  BY <1>1, <1>3, StreamsJoined, Zenon
<1>5. Len(BigEndian(Len(frame)) \o frame) = Len(frame) + 2
  BY <1>1, <1>3, <1>4
<1> QED
  BY <1>1, <1>2, <1>3, <1>4, <1>5 DEF frame

-----------------------------------------------------------------------------
(* What the receiver makes of it *)

LEMMA BothParts ==
    ASSUME NEW S, NEW s \in Seq(S), NEW t \in Seq(S)
    PROVE  /\ SubSeq(s \o t, 1, Len(s)) = s
           /\ SubSeq(s \o t, Len(s) + 1, Len(s) + Len(t)) = t
<1> DEFINE u == s \o t
<1>1. /\ Len(s) \in Nat /\ Len(t) \in Nat
      /\ \A i \in 1..Len(s) : u[i] = s[i]
      /\ \A i \in 1..Len(t) : u[Len(s) + i] = t[i]
  BY Joined
<1> HIDE DEF u
<1>2. /\ \A i \in 1..Len(s) : s[i] \in S
      /\ \A i \in 1..Len(t) : t[i] \in S
  BY ElementOfSeq
<1>3. SubSeq(u, 1, Len(s)) = s
  <2>1. \A i \in 1..Len(s) : u[i] \in S
    BY <1>1, <1>2
  <2>2. /\ SubSeq(u, 1, Len(s)) \in Seq(S)
        /\ Len(SubSeq(u, 1, Len(s))) = IF 1 <= Len(s) THEN Len(s) - 1 + 1 ELSE 0
        /\ \A i \in 1..Len(s) - 1 + 1 : SubSeq(u, 1, Len(s))[i] = u[1 + i - 1]
    BY <1>1, <2>1, SubSeqProperties
  <2>3. \A i \in 1..Len(s) : SubSeq(u, 1, Len(s))[i] = s[i]
    BY <1>1, <2>2
  <2>4. Len(SubSeq(u, 1, Len(s))) = Len(s)
    BY <1>1, <2>2
  <2> QED
    BY <2>2, <2>3, <2>4, SeqEqual
<1>4. SubSeq(u, Len(s) + 1, Len(s) + Len(t)) = t
  <2> DEFINE a == Len(s) + 1
             b == Len(s) + Len(t)
             w == SubSeq(u, a, b)
  <2>0. a \in Int /\ b \in Int /\ b - a + 1 = Len(t) /\ (a <= b <=> 1 <= Len(t))
    BY <1>1
  <2>1. \A i \in a..b : u[i] \in S
    <3> TAKE i \in a..b
    <3>1. i - Len(s) \in 1..Len(t) /\ Len(s) + (i - Len(s)) = i
      BY <1>1
    <3> QED
      BY <1>1, <1>2, <3>1
  <2> HIDE DEF a, b
  <2>2. /\ w \in Seq(S)
        /\ Len(w) = IF a <= b THEN b - a + 1 ELSE 0
        /\ \A i \in 1..b - a + 1 : w[i] = u[a + i - 1]
    BY <2>0, <2>1, SubSeqProperties
  <2> HIDE DEF w
  <2>3. \A i \in 1..Len(t) : w[i] = t[i]
    <3> TAKE i \in 1..Len(t)
    <3>1. a + i - 1 = Len(s) + i
      BY <1>1 DEF a
    <3> QED
      BY <1>1, <2>0, <2>2, <3>1
  <2>4. Len(w) = Len(t)
    BY <1>1, <2>0, <2>2
  <2> QED
    BY <2>2, <2>3, <2>4, SeqEqual DEF w, a, b
<1> QED
  BY <1>3, <1>4 DEF u

LEMMA ParsesRtuFrame ==
    ASSUME NEW i \in 1..Len(Messages)
    PROVE  LET m == Messages[i] IN
           parse_rtu_frame(SecureFrame(m)) =
               [address |-> m.address, function |-> SECURE_FUNCTION_CODE,
                payload |-> build_apdu(m.tag, m.payload)]
<1> DEFINE m == Messages[i]
           frame == SecureFrame(m)
           check == LittleEndian(crc16_modbus(Body(m)))
           front == <<m.address, SECURE_FUNCTION_CODE>>
           apdu == build_apdu(m.tag, m.payload)
<1>1. frame = Body(m) \o check /\ Len(check) = 2 /\ check \in Stream /\ Body(m) \in Stream
  BY SecureFrameIs, Zenon
<1>2. Len(frame) = Len(m.payload) + 7 /\ Len(m.payload) \in Nat
  BY SecureFrameIs, BodyIs, Zenon
<1>3. Body(m) = front \o apdu /\ apdu \in Seq(Nat) /\ Len(Body(m)) = Len(m.payload) + 5
  BY BodyIs, Zenon DEF Body
<1>4. Len(apdu) = Len(m.payload) + 3
  BY BodyIs, Zenon
<1>5. front \in Seq(Nat) /\ Len(front) = 2 /\ front[1] = m.address /\ front[2] = SECURE_FUNCTION_CODE
  <2>1. m.address \in Nat
    BY MessagesAre
  <2> QED
    BY <2>1 DEF SECURE_FUNCTION_CODE
<1> HIDE DEF m, frame, check, front, apdu
<1>6. SubSeq(frame, 1, Len(Body(m))) = Body(m)
  BY <1>1, BothParts, Zenon DEF Stream
<1>7. SubSeq(frame, Len(Body(m)) + 1, Len(Body(m)) + Len(check)) = check
  BY <1>1, BothParts, Zenon DEF Stream
<1>8. /\ Len(frame) - 2 = Len(Body(m)) /\ Len(frame) - 1 = Len(Body(m)) + 1
      /\ Len(frame) = Len(Body(m)) + Len(check) /\ ~(Len(frame) < 4)
  BY <1>1, <1>2, <1>3
<1>9. SubSeq(front \o apdu, Len(front) + 1, Len(front) + Len(apdu)) = apdu
  BY <1>3, <1>5, BothParts, Zenon
<1>10. Len(front) + 1 = 3 /\ Len(front) + Len(apdu) = Len(Body(m))
  BY <1>2, <1>3, <1>4, <1>5
<1>11. Body(m)[1] = m.address /\ Body(m)[2] = SECURE_FUNCTION_CODE
  <2>1. \A k \in 1..Len(front) : (front \o apdu)[k] = front[k]
    BY <1>3, <1>5, Joined, Zenon
  <2>2. 1 \in 1..Len(front) /\ 2 \in 1..Len(front)
    BY <1>5
  <2>a. Body(m) = front \o apdu
    BY <1>3
  <2>b. \A k \in 1..Len(front) : Body(m)[k] = front[k]
    BY <2>1, <2>a
  <2>3. Body(m)[1] = front[1] /\ Body(m)[2] = front[2]
    BY <2>2, <2>b
  <2> QED
    BY <1>5, <2>3
<1>12. SubSeq(frame, 1, Len(frame) - 2) = Body(m)
  BY <1>6, <1>8
<1>13. SubSeq(frame, Len(frame) - 1, Len(frame)) = LittleEndian(crc16_modbus(Body(m)))
  BY <1>7, <1>8 DEF check
<1>14. SubSeq(Body(m), 3, Len(Body(m))) = apdu
  BY <1>3, <1>9, <1>10
<1>15. parse_rtu_frame(frame) = [address |-> Body(m)[1], function |-> Body(m)[2],
                                 payload |-> SubSeq(Body(m), 3, Len(Body(m)))]
  BY <1>8, <1>12, <1>13, Zenon DEF parse_rtu_frame
<1> QED
  BY <1>11, <1>14, <1>15, Zenon DEF frame, m, apdu

LEMMA ParsesApdu ==
    ASSUME NEW i \in 1..Len(Messages)
    PROVE  LET m == Messages[i] IN
           parse_apdu(build_apdu(m.tag, m.payload)) = [tag |-> m.tag, payload |-> m.payload]
<1> DEFINE m == Messages[i]
           size == BigEndian(Len(m.payload))
           front == <<m.tag>> \o size
           apdu == front \o m.payload
<1>1. m.payload \in Seq(Nat) /\ m.tag \in Nat /\ Len(m.payload) \in Nat
  <2>1. m.payload \in Seq(Byte) /\ m.tag \in Byte
    BY MessagesAre
  <2>2. Byte \subseteq Nat
    BY DEF Byte
  <2>3. Seq(Byte) \subseteq Seq(Nat)
    BY <2>2, SeqMonotonic
  <2> QED
    BY <2>1, <2>2, <2>3, LenProperties
<1> HIDE DEF m
<1>2. size \in Seq(Nat) /\ Len(size) = 2
  BY <1>1, BigEndianIs
<1>3. <<m.tag>> \in Seq(Nat) /\ Len(<<m.tag>>) = 1 /\ <<m.tag>>[1] = m.tag
  BY <1>1
<1> HIDE DEF size
<1>4. /\ front \in Seq(Nat) /\ Len(front) = Len(<<m.tag>>) + Len(size)
      /\ \A k \in 1..Len(<<m.tag>>) : front[k] = <<m.tag>>[k]
  BY <1>2, <1>3, Joined, Zenon
<1>5. SubSeq(front, Len(<<m.tag>>) + 1, Len(<<m.tag>>) + Len(size)) = size
  BY <1>2, <1>3, BothParts, Zenon
<1>6. Len(front) = 3 /\ Len(<<m.tag>>) + 1 = 2 /\ Len(<<m.tag>>) + Len(size) = 3
  BY <1>2, <1>3, <1>4
<1>7. SubSeq(front, 2, 3) = size
  BY <1>5, <1>6
<1>8. front[1] = m.tag
  <2>1. 1 \in 1..Len(<<m.tag>>)
    BY <1>3
  <2> QED
    BY <1>3, <1>4, <2>1
<1> HIDE DEF front
<1>8a. front \in Seq(Nat)
  BY <1>4
<1>9. /\ apdu \in Seq(Nat) /\ Len(apdu) = Len(front) + Len(m.payload)
      /\ \A k \in 1..Len(front) : apdu[k] = front[k]
  <2>1. m.payload \in Seq(Nat)
    BY <1>1
  <2>2. /\ front \o m.payload \in Seq(Nat)
        /\ Len(front \o m.payload) = Len(front) + Len(m.payload)
    BY <1>8a, <2>1, NumbersJoined, Zenon
  <2>3. \A k \in 1..Len(front) : (front \o m.payload)[k] = front[k]
    BY <1>8a, <2>1, Joined, Zenon
  <2> QED
    BY <2>2, <2>3
<1>9a. /\ SubSeq(apdu, 1, Len(front)) = front
       /\ SubSeq(apdu, Len(front) + 1, Len(front) + Len(m.payload)) = m.payload
  BY <1>1, <1>4, BothParts, Zenon
<1> HIDE DEF apdu
<1>10. /\ apdu[1] = m.tag /\ ~(Len(apdu) < 3) /\ Len(apdu) - 3 = Len(m.payload)
       /\ SubSeq(apdu, 4, Len(apdu)) = m.payload
  <2>1. 1 \in 1..Len(front) /\ Len(front) + 1 = 4 /\ Len(front) + Len(m.payload) = Len(apdu)
    BY <1>6, <1>9
  <2> QED
    BY <1>1, <1>6, <1>8, <1>9, <1>9a, <2>1
<1>11. SubSeq(apdu, 2, 3) = size
  <2>1. SubSeq(SubSeq(apdu, 1, 3), 2, 3) = SubSeq(apdu, 1 + 2 - 1, 1 + 3 - 1)
    <3>1. 1 \in 1..Len(apdu) /\ 3 \in 1..Len(apdu) /\ 2 \in 1..3 - 1 + 1 /\ 3 \in 1..3 - 1 + 1
      BY <1>1, <1>6, <1>9
    <3> QED
      BY <1>9, <3>1, SubSeqOfSubSeq
  <2>2. SubSeq(apdu, 1, 3) = front
    BY <1>6, <1>9a
  <2> QED
    BY <1>7, <2>1, <2>2
<1>12. parse_apdu(apdu) = [tag |-> apdu[1], payload |-> SubSeq(apdu, 4, Len(apdu))]
  BY <1>10, <1>11 DEF parse_apdu, size
<1>13. build_apdu(m.tag, m.payload) = apdu
  BY DEF build_apdu, apdu, front, size
<1> QED
  BY <1>10, <1>12, <1>13, Zenon DEF m

(* Parsing undoes building, whatever the CRC of the body is *)
LEMMA ReceivedIsSent ==
    ASSUME NEW i \in 1..Len(Messages)
    PROVE  /\ Received(SecureFrame(Messages[i]), Address) = Messages[i]
           /\ Messages[i] # ProtocolError
<1> DEFINE m == Messages[i]
           rtu == [address |-> m.address, function |-> SECURE_FUNCTION_CODE,
                   payload |-> build_apdu(m.tag, m.payload)]
           apdu == [tag |-> m.tag, payload |-> m.payload]
<1>1. parse_rtu_frame(SecureFrame(m)) = rtu /\ parse_apdu(rtu.payload) = apdu
  BY ParsesRtuFrame, ParsesApdu
<1>2. rtu # ProtocolError /\ apdu # ProtocolError
  <2>1. "raised" \in DOMAIN ProtocolError
    BY DEF ProtocolError
  <2>2. "raised" \notin DOMAIN rtu /\ "raised" \notin DOMAIN apdu
    OBVIOUS
  <2> QED
    BY <2>1, <2>2
<1>3. m.address = Address /\ m = [address |-> m.address, tag |-> m.tag, payload |-> m.payload]
  BY MessagesAre
<1>4. m # ProtocolError
  <2>1. "raised" \in DOMAIN ProtocolError
    BY DEF ProtocolError
  <2>2. "raised" \notin DOMAIN m
    BY <1>3
  <2> QED
    BY <2>1, <2>2
<1>5. /\ rtu.address = Address /\ rtu.function = SECURE_FUNCTION_CODE
      /\ apdu.tag = m.tag /\ apdu.payload = m.payload
  BY <1>3
<1> HIDE DEF rtu, apdu
<1>6. Received(SecureFrame(m), Address) =
          [address |-> rtu.address, tag |-> apdu.tag, payload |-> apdu.payload]
  BY <1>1, <1>2, <1>5, Zenon DEF Received
<1> QED
  BY <1>3, <1>4, <1>5, <1>6

-----------------------------------------------------------------------------
(* Messages in a stream *)

LEMMA RecordLength ==
    ASSUME Prefixed, NEW i \in 1..Len(Messages)
    PROVE  /\ Record(Messages[i]) \in Stream
           /\ Len(Record(Messages[i])) \in Nat /\ 2 <= Len(Record(Messages[i]))
           /\ Len(Record(Messages[i])) = Len(SecureFrame(Messages[i])) + 2
<1>1. /\ Record(Messages[i]) \in Stream
      /\ Len(SecureFrame(Messages[i])) \in Nat
      /\ Len(Record(Messages[i])) = Len(SecureFrame(Messages[i])) + 2
  BY RecordIs, Zenon
<1> QED
  BY <1>1

LEMMA NothingLaid ==
    ASSUME NEW n \in Nat
    PROVE  /\ Laid(<<>>, n + 1, n)
           /\ \A stream : Laid(stream, n + 1, n) => Len(stream) = 0
<1>1. LaidAt(<<>>, n + 1, n, [i \in Nat |-> 0])
  <2>1. (n + 1)..n = {}
    OBVIOUS
  <2>2. Len(<<>>) = 0
    OBVIOUS
  <2> QED
    BY <2>1, <2>2 DEF LaidAt
<1> QED
  BY <1>1 DEF Laid, LaidAt

LEMMA FirstLaid ==
    ASSUME Prefixed, NEW stream \in Stream, NEW first \in Nat \ {0}, NEW last \in Nat,
           first <= last, last <= Len(Messages), Laid(stream, first, last)
    PROVE  /\ Len(Record(Messages[first])) <= Len(stream)
           /\ \A k \in 1..Len(Record(Messages[first])) :
                 stream[k] = Record(Messages[first])[k]
<1> DEFINE record == Record(Messages[first])
<1>1. PICK at : LaidAt(stream, first, last, at)
  BY DEF Laid
<1>2. Len(record) \in Nat
  BY RecordLength
<1>a. /\ at \in [Nat -> Nat]
      /\ at[first] = 0 /\ at[last + 1] = Len(stream)
      /\ \A i, j \in first..(last + 1) : i <= j => at[i] <= at[j]
      /\ \A i \in first..last :
            /\ at[i + 1] = at[i] + Len(Record(Messages[i]))
            /\ \A k \in 1..Len(Record(Messages[i])) :
                  stream[at[i] + k] = Record(Messages[i])[k]
  BY <1>1, Zenon DEF LaidAt
<1>b. /\ first \in first..last /\ first + 1 \in first..(last + 1)
      /\ last + 1 \in first..(last + 1) /\ first + 1 <= last + 1
  OBVIOUS
<1>3. at[first + 1] <= at[last + 1]
  BY <1>a, <1>b
<1>4. /\ at[first] = 0 /\ at[first + 1] = at[first] + Len(record) /\ at[last + 1] = Len(stream)
      /\ \A k \in 1..Len(record) : stream[at[first] + k] = record[k]
  BY <1>a, <1>b
<1> HIDE DEF record
<1>5. \A k \in 1..Len(record) : stream[k] = record[k]
  BY <1>2, <1>4
<1> QED
  BY <1>2, <1>3, <1>4, <1>5 DEF record

(* A record more, at the end *)
LEMMA RecordAppended ==
    ASSUME Prefixed, NEW stream \in Stream, NEW first \in Nat \ {0}, NEW last \in Nat,
           first <= last + 1, last + 1 <= Len(Messages), Laid(stream, first, last)
    PROVE  Laid(stream \o Record(Messages[last + 1]), first, last + 1)
<1> DEFINE record == Record(Messages[last + 1])
           longer == stream \o record
<1>1. PICK at : LaidAt(stream, first, last, at)
  BY DEF Laid
<1>2. record \in Stream /\ Len(record) \in Nat
  BY RecordLength
<1> HIDE DEF record
<1>3. /\ Len(longer) = Len(stream) + Len(record) /\ Len(stream) \in Nat
      /\ \A i \in 1..Len(stream) : longer[i] = stream[i]
      /\ \A i \in 1..Len(record) : longer[Len(stream) + i] = record[i]
  BY <1>2, StreamsJoined
<1>s. /\ Len(longer) = Len(stream) + Len(record) /\ Len(record) \in Nat /\ Len(stream) \in Nat
      /\ Len(longer) \in Nat /\ Len(stream) <= Len(longer)
  <2>1. /\ Len(longer) = Len(stream) + Len(record)
        /\ Len(record) \in Nat /\ Len(stream) \in Nat
    BY <1>2, <1>3
  <2> HIDE DEF longer
  <2> QED
    BY <2>1
<1> DEFINE next == [i \in Nat |-> IF i = last + 2 THEN Len(longer) ELSE at[i]]
<1>4. /\ at \in [Nat -> Nat] /\ at[first] = 0 /\ at[last + 1] = Len(stream)
      /\ \A i, j \in first..(last + 1) : i <= j => at[i] <= at[j]
      /\ \A i \in first..last :
            /\ at[i + 1] = at[i] + Len(Record(Messages[i]))
            /\ \A k \in 1..Len(Record(Messages[i])) :
                  stream[at[i] + k] = Record(Messages[i])[k]
  BY <1>1, Zenon DEF LaidAt
<1>4a. \A i \in first..(last + 1) :
           /\ i \in Nat /\ at[i] \in Nat /\ i # last + 2 /\ last + 1 \in first..(last + 1)
           /\ at[i] <= Len(stream)
  <2> TAKE i \in first..(last + 1)
  <2>1. i \in Nat /\ i <= last + 1 /\ i # last + 2 /\ last + 1 \in first..(last + 1)
    OBVIOUS
  <2>2. at[i] <= at[last + 1]
    BY <1>4, <2>1
  <2> QED
    BY <1>4, <2>1, <2>2
<1> HIDE DEF longer
<1>5. /\ next \in [Nat -> Nat] /\ next[last + 2] = Len(longer)
      /\ \A i \in first..(last + 1) : next[i] = at[i] /\ i \in Nat
  <2>a. at \in [Nat -> Nat] /\ Len(longer) \in Nat
    BY <1>s, <1>4, Zenon
  <2>b. last + 2 \in Nat
    OBVIOUS
  <2> QED
    BY <1>4a, <2>a, <2>b
<1> HIDE DEF next
<1>6. next[first] = 0 /\ next[(last + 1) + 1] = Len(longer)
  BY <1>4, <1>5
<1>7. \A i, j \in first..((last + 1) + 1) : i <= j => next[i] <= next[j]
  <2> TAKE i, j \in first..((last + 1) + 1)
  <2> HAVE i <= j
  <2>1. CASE j <= last + 1
    <3>1. i \in first..(last + 1) /\ j \in first..(last + 1)
      BY <2>1
    <3> QED
      BY <1>4, <1>5, <3>1
  <2>2. CASE j = last + 2 /\ i <= last + 1
    <3>1. i \in first..(last + 1)
      BY <2>2
    <3>2. next[i] \in Nat /\ next[i] <= Len(stream)
      BY <1>4a, <1>5, <3>1
    <3>3. next[j] = Len(longer)
      BY <1>5, <2>2
    <3> QED
      BY <1>s, <3>2, <3>3
  <2>3. CASE j = last + 2 /\ i = last + 2
    BY <1>s, <1>5, <2>3
  <2> QED
    BY <2>1, <2>2, <2>3
<1>8. ASSUME NEW i \in first..(last + 1)
      PROVE  /\ next[i + 1] = next[i] + Len(Record(Messages[i]))
             /\ \A k \in 1..Len(Record(Messages[i])) :
                   longer[next[i] + k] = Record(Messages[i])[k]
  <2>1. CASE i = last + 1
    <3>0. last + 1 \in first..(last + 1) /\ i + 1 = last + 2
      BY <2>1
    <3>1. next[i] = Len(stream) /\ next[i + 1] = Len(longer)
      BY <1>4, <1>5, <2>1, <3>0
    <3>2. \A k \in 1..Len(record) : longer[next[i] + k] = record[k]
      BY <1>3, <3>1
    <3> QED
      BY <1>3, <2>1, <3>1, <3>2 DEF record
  <2>2. CASE i # last + 1
    <3>1. i \in first..last /\ i + 1 \in first..(last + 1)
      BY <2>2
    <3> DEFINE this == Record(Messages[i])
    <3>2. /\ next[i] = at[i] /\ next[i + 1] = at[i + 1] /\ at[i + 1] = at[i] + Len(this)
          /\ at[i + 1] <= Len(stream) /\ at[i] \in Nat /\ at[i + 1] \in Nat
      <4>1. i \in first..(last + 1)
        BY <3>1
      <4> QED
        BY <1>4, <1>4a, <1>5, <3>1, <4>1
    <3>3. Len(this) \in Nat
      <4>1. i \in 1..Len(Messages)
        BY MessagesAre
      <4> QED
        BY <4>1, RecordLength
    <3>4. \A k \in 1..Len(this) : stream[at[i] + k] = this[k]
      BY <1>4, <3>1
    <3> HIDE DEF this
    <3>5. \A k \in 1..Len(this) : longer[at[i] + k] = this[k]
      <4> TAKE k \in 1..Len(this)
      <4>1. at[i] + k \in 1..Len(stream)
        BY <1>3, <3>2, <3>3
      <4> QED
        BY <1>3, <3>4, <4>1
    <3> QED
      BY <3>2, <3>5 DEF this
  <2> QED
    BY <2>1, <2>2
<1>9. LaidAt(longer, first, last + 1, next)
  BY <1>5, <1>6, <1>7, <1>8 DEF LaidAt
<1> QED
  BY <1>9 DEF Laid, longer, record

LEMMA WithinRest ==
    ASSUME NEW n \in Nat, NEW r \in Nat, NEW t \in Nat, NEW x \in Nat, NEW y \in Nat,
           y <= t, 1 <= y, r + n + t <= r + x
    PROVE  n + y \in 1..x
OBVIOUS

(* A record less, at the front *)
LEMMA RecordTaken ==
    ASSUME Prefixed, NEW rest \in Stream, NEW first \in Nat \ {0}, NEW last \in Nat,
           first <= last, last <= Len(Messages),
           Laid(Record(Messages[first]) \o rest, first, last)
    PROVE  Laid(rest, first + 1, last)
<1> DEFINE record == Record(Messages[first])
           stream == record \o rest
<1>1. PICK at : LaidAt(stream, first, last, at)
  BY DEF Laid
<1>2. record \in Stream /\ Len(record) \in Nat
  BY RecordLength
<1>4. /\ at \in [Nat -> Nat] /\ at[first] = 0 /\ at[last + 1] = Len(stream)
      /\ \A i, j \in first..(last + 1) : i <= j => at[i] <= at[j]
      /\ \A i \in first..last :
            /\ at[i + 1] = at[i] + Len(Record(Messages[i]))
            /\ \A k \in 1..Len(Record(Messages[i])) :
                  stream[at[i] + k] = Record(Messages[i])[k]
  BY <1>1, Zenon DEF LaidAt
<1>4a. at[first + 1] = Len(record)
  <2>1. first \in first..last
    OBVIOUS
  <2>2. at[first + 1] = at[first] + Len(record)
    BY <1>4, <2>1, Zenon
  <2> QED
    BY <1>2, <1>4, <2>2
<1> HIDE DEF record
<1>3. /\ Len(stream) = Len(record) + Len(rest) /\ Len(rest) \in Nat
      /\ \A i \in 1..Len(rest) : stream[Len(record) + i] = rest[i]
  BY <1>2, StreamsJoined
<1> HIDE DEF stream
<1>s. /\ Len(stream) = Len(record) + Len(rest)
      /\ Len(record) \in Nat /\ Len(rest) \in Nat /\ Len(stream) \in Nat
  BY <1>2, <1>3
<1> DEFINE next == [i \in Nat |-> IF i \in (first + 1)..(last + 1) THEN at[i] - Len(record) ELSE 0]
<1>5. \A i \in (first + 1)..(last + 1) :
          i \in Nat /\ at[i] \in Nat /\ Len(record) <= at[i] /\ at[i] <= Len(stream)
  <2> TAKE i \in (first + 1)..(last + 1)
  <2>1. /\ i \in Nat /\ i \in first..(last + 1) /\ first + 1 <= i /\ i <= last + 1
        /\ first + 1 \in first..(last + 1) /\ last + 1 \in first..(last + 1)
    OBVIOUS
  <2>2. at[first + 1] <= at[i] /\ at[i] <= at[last + 1]
    BY <1>4, <2>1
  <2> QED
    BY <1>4, <1>4a, <2>1, <2>2
<1>6. /\ next \in [Nat -> Nat]
      /\ \A i \in (first + 1)..(last + 1) : next[i] = at[i] - Len(record)
  BY <1>2, <1>5
<1> HIDE DEF next
<1>7. next[first + 1] = 0 /\ next[last + 1] = Len(rest)
  <2>1. first + 1 \in (first + 1)..(last + 1) /\ last + 1 \in (first + 1)..(last + 1)
    OBVIOUS
  <2>2. /\ next[first + 1] = at[first + 1] - Len(record)
        /\ next[last + 1] = at[last + 1] - Len(record)
    BY <1>6, <2>1
  <2>3. at[first + 1] = Len(record) /\ at[last + 1] = Len(stream)
    BY <1>4, <1>4a
  <2> QED
    BY <1>s, <2>2, <2>3
<1>8. \A i, j \in (first + 1)..(last + 1) : i <= j => next[i] <= next[j]
  <2> TAKE i, j \in (first + 1)..(last + 1)
  <2> HAVE i <= j
  <2>1. i \in first..(last + 1) /\ j \in first..(last + 1)
    OBVIOUS
  <2>2. at[i] <= at[j]
    BY <1>4, <2>1
  <2>3. next[i] = at[i] - Len(record) /\ next[j] = at[j] - Len(record)
    BY <1>6
  <2>4. at[i] \in Nat /\ at[j] \in Nat
    BY <1>5
  <2> QED
    BY <1>s, <2>2, <2>3, <2>4
<1>9. ASSUME NEW i \in (first + 1)..last
      PROVE  /\ next[i + 1] = next[i] + Len(Record(Messages[i]))
             /\ \A k \in 1..Len(Record(Messages[i])) :
                   rest[next[i] + k] = Record(Messages[i])[k]
  <2> DEFINE this == Record(Messages[i])
  <2>1. /\ i \in first..last /\ i \in (first + 1)..(last + 1) /\ i + 1 \in (first + 1)..(last + 1)
        /\ i \in 1..Len(Messages)
    BY MessagesAre
  <2>2. Len(this) \in Nat
    BY <2>1, RecordLength
  <2>3. at[i + 1] = at[i] + Len(this) /\ \A k \in 1..Len(this) : stream[at[i] + k] = this[k]
    BY <1>4, <2>1
  <2>4. at[i + 1] <= Len(stream) /\ Len(record) <= at[i] /\ at[i] \in Nat /\ at[i + 1] \in Nat
    BY <1>5, <2>1
  <2>5. next[i] = at[i] - Len(record) /\ next[i + 1] = at[i + 1] - Len(record)
    BY <1>6, <2>1
  <2> HIDE DEF this
  <2>6. \A k \in 1..Len(this) : rest[next[i] + k] = this[k]
    <3> TAKE k \in 1..Len(this)
    <3>a. at[i] + Len(this) <= Len(stream) /\ Len(stream) = Len(record) + Len(rest)
      BY <1>3, <2>3, <2>4
    <3>b. next[i] \in Nat /\ Len(record) + next[i] = at[i]
      BY <1>s, <2>4, <2>5
    <3>c. k \in Nat /\ 1 <= k /\ k <= Len(this)
      BY <2>2
    <3>e. Len(record) + next[i] + Len(this) <= Len(record) + Len(rest)
      BY <3>a, <3>b
    <3>f. next[i] + k \in 1..Len(rest)
      BY <1>s, <2>2, <3>b, <3>c, <3>e, WithinRest
    <3>1. next[i] + k \in 1..Len(rest) /\ Len(record) + (next[i] + k) = at[i] + k
      BY <1>s, <3>b, <3>c, <3>f
    <3> QED
      BY <1>3, <2>3, <3>1
  <2> QED
    BY <1>2, <2>2, <2>3, <2>4, <2>5, <2>6 DEF this
<1>10. LaidAt(rest, first + 1, last, next)
  BY <1>6, <1>7, <1>8, <1>9 DEF LaidAt
<1> QED
  BY <1>10 DEF Laid

-----------------------------------------------------------------------------
(* Bytes under way *)

LEMMA StreamFacts ==
    ASSUME NEW s \in Stream
    PROVE  /\ Len(s) \in Nat /\ DOMAIN s = 1..Len(s)
           /\ s = <<>> <=> Len(s) = 0
           /\ <<>> \in Stream /\ <<>> \o s = s /\ s \o <<>> = s
<1> DEFINE S == OnTheLine
<1>1. s \in Seq(S)
  BY DEF Stream
<1> HIDE DEF S
<1>2. Len(s) \in Nat /\ DOMAIN s = 1..Len(s)
  BY <1>1, LenProperties
<1>3. s = <<>> <=> Len(s) = 0
  BY <1>1, EmptySeq
<1>4. <<>> \in Seq(S) /\ <<>> \o s = s /\ s \o <<>> = s
  BY <1>1, EmptySeq, ConcatEmptySeq
<1> QED
  BY <1>2, <1>3, <1>4 DEF S, Stream

LEMMA Regrouped ==
    ASSUME NEW s \in Stream, NEW t \in Stream, NEW u \in Stream
    PROVE  (s \o t) \o u = s \o (t \o u)
<1> DEFINE S == OnTheLine
<1>1. s \in Seq(S) /\ t \in Seq(S) /\ u \in Seq(S)
  BY DEF Stream
<1> HIDE DEF S
<1> QED
  BY <1>1, ConcatAssociative

LEMMA CutInTwo ==
    ASSUME NEW s \in Stream, NEW n \in 0..Len(s)
    PROVE  /\ SubSeq(s, 1, n) \in Stream /\ SubSeq(s, n + 1, Len(s)) \in Stream
           /\ Len(SubSeq(s, 1, n)) = n
           /\ SubSeq(s, 1, n) \o SubSeq(s, n + 1, Len(s)) = s
<1> DEFINE S == OnTheLine
<1>1. s \in Seq(S)
  BY DEF Stream
<1> HIDE DEF S
<1>2. Len(s) \in Nat /\ \A i \in 1..Len(s) : s[i] \in S
  BY <1>1, LenProperties, ElementOfSeq
<1>3. SubSeq(s, 1, n) \in Seq(S) /\ Len(SubSeq(s, 1, n)) = n
  <2>1. \A i \in 1..n : s[i] \in S
    BY <1>2
  <2>2. /\ SubSeq(s, 1, n) \in Seq(S)
        /\ Len(SubSeq(s, 1, n)) = IF 1 <= n THEN n - 1 + 1 ELSE 0
    BY <1>2, <2>1, SubSeqProperties
  <2> QED
    BY <1>2, <2>2
<1>4. SubSeq(s, n + 1, Len(s)) \in Seq(S)
  <2>1. \A i \in (n + 1)..Len(s) : s[i] \in S
    BY <1>2
  <2> QED
    BY <1>2, <2>1, SubSeqProperties
<1>5. SubSeq(s, 1, n) \o SubSeq(s, n + 1, Len(s)) = SubSeq(s, 1, Len(s))
  <2>1. 1 \in 1..Len(s) + 1 /\ n \in 1 - 1..Len(s) /\ Len(s) \in n..Len(s)
    BY <1>2
  <2> QED
    BY <1>1, <2>1, ConcatAdjacentSubSeq
<1>6. SubSeq(s, 1, Len(s)) = s
  BY <1>1, SubSeqFull
<1> QED
  BY <1>3, <1>4, <1>5, <1>6 DEF S, Stream

(* What recv_exact reads at a time *)
LEMMA Chunks ==
    ASSUME LinkTypes
    PROVE  /\ Chunk \in Stream /\ Collected \in Stream
           /\ Len(Collected) = Len(part) + Len(Chunk) /\ Len(part) \in Nat /\ Len(Chunk) \in Nat
           /\ ~Complete => Chunk = buffer /\ Len(buffer) < want
           /\ Complete =>
                 /\ SubSeq(buffer, want + 1, Len(buffer)) \in Stream
                 /\ UnderWay = Collected \o (SubSeq(buffer, want + 1, Len(buffer)) \o wire)
<1>1. /\ buffer \in Stream /\ part \in Stream /\ wire \in Stream /\ want \in Nat /\ want # 0
      /\ Len(buffer) \in Nat
  BY StreamFacts DEF LinkTypes
<1> DEFINE n == IF Len(buffer) < want THEN Len(buffer) ELSE want
<1>2. n \in 0..Len(buffer) /\ Chunk = SubSeq(buffer, 1, n)
  BY <1>1 DEF Chunk
<1>3. Len(buffer) < want => n = Len(buffer)
  OBVIOUS
<1>4. ~(Len(buffer) < want) => n = want
  OBVIOUS
<1> HIDE DEF n
<1>5. /\ Chunk \in Stream /\ SubSeq(buffer, n + 1, Len(buffer)) \in Stream
      /\ Len(Chunk) = n
      /\ Chunk \o SubSeq(buffer, n + 1, Len(buffer)) = buffer
  BY <1>1, <1>2, CutInTwo
<1>6. /\ Collected \in Stream
      /\ Len(Collected) = Len(part) + Len(Chunk) /\ Len(part) \in Nat /\ Len(Chunk) \in Nat
  BY <1>1, <1>5, StreamsJoined DEF Collected
<1>7. Complete <=> ~(Len(buffer) < want)
  BY <1>1, <1>3, <1>4, <1>5 DEF Complete
<1>8. ASSUME Len(buffer) < want
      PROVE  Chunk = buffer
  <2>1. n = Len(buffer)
    BY <1>3, <1>8
  <2>2. Chunk = SubSeq(buffer, 1, Len(buffer))
    BY <1>2, <2>1
  <2>3. SubSeq(buffer, 1, Len(buffer)) = buffer
    BY <1>1, SubSeqFull, Zenon DEF Stream
  <2> QED
    BY <2>2, <2>3
<1>9. ASSUME ~(Len(buffer) < want)
      PROVE  /\ SubSeq(buffer, want + 1, Len(buffer)) \in Stream
             /\ UnderWay = Collected \o (SubSeq(buffer, want + 1, Len(buffer)) \o wire)
  <2> DEFINE rest == SubSeq(buffer, want + 1, Len(buffer))
  <2>1. n = want
    BY <1>4, <1>9
  <2>2. rest \in Stream /\ Chunk \o rest = buffer
    BY <1>5, <2>1
  <2> HIDE DEF rest
  <2>a. rest \o wire \in Stream
    BY <1>1, <2>2, StreamsJoined
  <2>b. (Chunk \o rest) \o wire = Chunk \o (rest \o wire)
    <3>1. Chunk \in Stream /\ rest \in Stream /\ wire \in Stream
      BY <1>1, <1>5, <2>2
    <3> QED
      BY <3>1, Regrouped
  <2>3. buffer \o wire = Chunk \o (rest \o wire) /\ rest \o wire \in Stream
    BY <2>2, <2>a, <2>b
  <2>4. part \o (Chunk \o (rest \o wire)) = (part \o Chunk) \o (rest \o wire)
    <3>1. part \in Stream /\ Chunk \in Stream /\ rest \o wire \in Stream
      BY <1>1, <1>5, <2>3
    <3> QED
      BY <3>1, Regrouped
  <2> QED
    BY <2>2, <2>3, <2>4 DEF UnderWay, Collected, rest
<1> QED
  BY <1>5, <1>6, <1>7, <1>8, <1>9

LEMMA AheadIs ==
    ASSUME Prefixed, LinkTypes, InStep
    PROVE  /\ UnderWay \in Stream /\ Ahead \in Stream
           /\ Len(UnderWay) = Len(part) + (Len(buffer) + Len(wire))
           /\ {Len(part), Len(buffer), Len(wire)} \subseteq Nat
           /\ Len(received) \in Nat /\ Len(received) <= written
           /\ written \in Nat /\ written <= Len(Messages) /\ Len(Messages) \in Nat
           /\ reading = "length" => Ahead = UnderWay /\ Len(Ahead) = Len(UnderWay)
           /\ reading = "frame" =>
                 /\ Current \in 1..Len(Messages)
                 /\ Ahead = BigEndian(Len(SecureFrame(Messages[Current]))) \o UnderWay
                 /\ Len(Ahead) = 2 + Len(UnderWay)
<1>1. buffer \in Stream /\ part \in Stream /\ wire \in Stream /\ reading \in {"length", "frame"}
  BY DEF LinkTypes
<1>2. /\ buffer \o wire \in Stream /\ Len(buffer \o wire) = Len(buffer) + Len(wire)
      /\ Len(buffer) \in Nat /\ Len(wire) \in Nat
  BY <1>1, StreamsJoined
<1>3. /\ UnderWay \in Stream /\ Len(UnderWay) = Len(part) + Len(buffer \o wire)
      /\ Len(part) \in Nat
  BY <1>1, <1>2, StreamsJoined DEF UnderWay
<1>4. /\ written \in Nat /\ written <= Len(Messages) /\ Len(Messages) \in Nat
      /\ Len(received) \in Nat /\ Len(received) <= written
  BY MessagesAre DEF LinkTypes, InStep
<1>5. reading = "length" => Ahead = UnderWay
  BY DEF Ahead
<1>6. ASSUME reading = "frame"
      PROVE  /\ Current \in 1..Len(Messages)
             /\ Ahead = BigEndian(Len(SecureFrame(Messages[Current]))) \o UnderWay
             /\ Ahead \in Stream /\ Len(Ahead) = 2 + Len(UnderWay)
  <2> DEFINE size == BigEndian(Len(SecureFrame(Messages[Current])))
  <2>1. Len(received) < written
    BY <1>6 DEF InStep
  <2>2. Current \in 1..Len(Messages)
    BY <1>4, <2>1 DEF Current
  <2>3. Ahead = size \o UnderWay
    BY <1>6 DEF Ahead
  <2>4. size \in Stream /\ Len(size) = 2
    BY <2>2, RecordIs, Zenon
  <2> HIDE DEF size
  <2>5. size \o UnderWay \in Stream /\ Len(size \o UnderWay) = Len(size) + Len(UnderWay)
    BY <1>3, <2>4, StreamsJoined
  <2>6. Len(size \o UnderWay) = 2 + Len(UnderWay)
    BY <2>4, <2>5
  <2> QED
    BY <2>2, <2>3, <2>5, <2>6 DEF size
<1> QED
  BY <1>1, <1>2, <1>3, <1>4, <1>5, <1>6

(* As long as something is ahead, there is a message the receiver lacks *)
LEMMA SomethingAhead ==
    ASSUME Prefixed, LinkTypes, InStep
    PROVE  /\ Len(Ahead) > 0 => Current <= written
           /\ Current <= written =>
                 /\ Current \in 1..Len(Messages)
                 /\ Len(SecureFrame(Messages[Current])) \in Nat
                 /\ Len(SecureFrame(Messages[Current])) + 2 <= Len(Ahead)
                 /\ \A k \in 1..Len(Record(Messages[Current])) :
                       Ahead[k] = Record(Messages[Current])[k]
<1>1. /\ Ahead \in Stream /\ Len(Ahead) \in Nat /\ Laid(Ahead, Current, written)
      /\ Len(received) \in Nat /\ Len(received) <= written
      /\ written \in Nat /\ written <= Len(Messages) /\ Len(Messages) \in Nat
  BY AheadIs, StreamFacts DEF InStep
<1>2. Current \in Nat \ {0} /\ Current = Len(received) + 1
  BY <1>1 DEF Current
<1>3. ASSUME ~(Current <= written)
      PROVE  Len(Ahead) = 0
  <2>1. Current = written + 1
    BY <1>1, <1>2, <1>3
  <2> QED
    BY <1>1, <2>1, NothingLaid
<1>4. ASSUME Current <= written
      PROVE  /\ Current \in 1..Len(Messages)
             /\ Len(SecureFrame(Messages[Current])) \in Nat
             /\ Len(SecureFrame(Messages[Current])) + 2 <= Len(Ahead)
             /\ \A k \in 1..Len(Record(Messages[Current])) :
                   Ahead[k] = Record(Messages[Current])[k]
  <2>1. Current \in 1..Len(Messages)
    BY <1>1, <1>2, <1>4
  <2>2. /\ Len(Record(Messages[Current])) <= Len(Ahead)
        /\ \A k \in 1..Len(Record(Messages[Current])) :
              Ahead[k] = Record(Messages[Current])[k]
    BY <1>1, <1>2, <1>4, FirstLaid
  <2>3. /\ Len(SecureFrame(Messages[Current])) \in Nat
        /\ Len(Record(Messages[Current])) = Len(SecureFrame(Messages[Current])) + 2
    BY <2>1, RecordIs, Zenon
  <2> QED
    BY <2>1, <2>2, <2>3
<1> QED
  BY <1>1, <1>3, <1>4

-----------------------------------------------------------------------------
(* The steps *)

LEMMA InitInStep ==
    ASSUME Init
    PROVE  LinkInvariant
<1>1. /\ written = 0 /\ wire = <<>> /\ buffer = <<>> /\ part = <<>> /\ want = 2
      /\ reading = "length" /\ received = <<>> /\ errors = 0 /\ faults = 0
  BY DEF Init
<1>2. <<>> \in Stream /\ <<>> \o <<>> = <<>> /\ Len(<<>>) = 0
  <2>1. <<>> \in Stream
    BY EmptySeq DEF Stream
  <2> QED
    BY <2>1, StreamFacts
<1>3. Ahead = <<>>
  BY <1>1, <1>2 DEF Ahead, UnderWay
<1>4. LinkTypes
  BY <1>1, <1>2, MessagesAre DEF LinkTypes
<1>5. Current = 1 /\ Laid(<<>>, 1, 0)
  <2>1. Current = 1
    BY <1>1 DEF Current
  <2>2. Laid(<<>>, 0 + 1, 0)
    BY NothingLaid
  <2> QED
    BY <2>1, <2>2
<1>6. received = SubSeq(Messages, 1, Len(received))
  BY <1>1, SubSeqEmpty
<1>7. InStep
  BY <1>1, <1>3, <1>5, <1>6 DEF InStep
<1> QED
  BY <1>1, <1>4, <1>7 DEF LinkInvariant

LEMMA WriteInStep ==
    ASSUME Prefixed, LinkTypes, InStep, Write
    PROVE  LinkTypes' /\ InStep'
<1> DEFINE record == Record(Messages[written + 1])
<1>1. /\ written < Len(Messages) /\ written' = written + 1 /\ wire' = wire \o record
      /\ UNCHANGED <<buffer, part, want, reading, received, errors, faults>>
  BY DEF Write
<1>2. /\ written \in Nat /\ Len(Messages) \in Nat /\ Len(received) \in Nat
      /\ Len(received) <= written /\ UnderWay \in Stream /\ Ahead \in Stream
  BY AheadIs
<1>3. /\ buffer \in Stream /\ part \in Stream /\ wire \in Stream
      /\ faults \in Nat /\ want \in Nat \ {0} /\ reading \in {"length", "frame"}
  BY DEF LinkTypes
<1>4. written + 1 \in 1..Len(Messages)
  BY <1>1, <1>2
<1>5. record \in Stream
  BY <1>4, RecordLength
<1> HIDE DEF record
<1>6. wire' \in Stream
  BY <1>1, <1>3, <1>5, StreamsJoined
<1>7. LinkTypes'
  BY <1>1, <1>2, <1>3, <1>6 DEF LinkTypes
<1>8. UnderWay' = UnderWay \o record
  <2>1. buffer \o wire \in Stream
    BY <1>3, StreamsJoined
  <2>2. (buffer \o wire) \o record = buffer \o (wire \o record)
    BY <1>3, <1>5, Regrouped
  <2>3. (part \o (buffer \o wire)) \o record = part \o ((buffer \o wire) \o record)
    BY <1>3, <1>5, <2>1, Regrouped
  <2> QED
    BY <1>1, <2>2, <2>3 DEF UnderWay
<1>9. Current' = Current
  BY <1>1 DEF Current
<1>10. Ahead' = Ahead \o record
  <2>1. CASE reading = "length"
    BY <1>1, <1>8, <2>1 DEF Ahead
  <2>2. CASE reading = "frame"
    <3> DEFINE size == BigEndian(Len(SecureFrame(Messages[Current])))
    <3>1. Current \in 1..Len(Messages)
      BY <2>2, AheadIs
    <3>2. size \in Stream
      BY <3>1, RecordIs, Zenon
    <3>3. Ahead = size \o UnderWay
      BY <2>2 DEF Ahead
    <3>4. Ahead' = size \o UnderWay'
      BY <1>1, <1>9, <2>2 DEF Ahead
    <3> HIDE DEF size
    <3>5. (size \o UnderWay) \o record = size \o (UnderWay \o record)
      BY <1>2, <1>5, <3>2, Regrouped
    <3> QED
      BY <1>8, <3>3, <3>4, <3>5
  <2> QED
    BY <1>3, <2>1, <2>2
<1>11. Laid(Ahead', Current', written')
  <2>1. Laid(Ahead, Current, written)
    BY DEF InStep
  <2>2. Current \in Nat \ {0} /\ Current <= written + 1 /\ written + 1 <= Len(Messages)
    BY <1>2, <1>4 DEF Current
  <2>3. Laid(Ahead \o record, Current, written + 1)
    BY <1>2, <2>1, <2>2, RecordAppended DEF record
  <2> QED
    BY <1>1, <1>9, <1>10, <2>3
<1>12. /\ errors = 0 /\ received = SubSeq(Messages, 1, Len(received))
       /\ reading = "length" => want + Len(part) = 2
       /\ reading = "frame" =>
             /\ Len(received) < written
             /\ want + Len(part) = Len(SecureFrame(Messages[Current]))
  BY DEF InStep
<1>13. Len(received') \in 0..written' /\ (reading' = "frame" => Len(received') < written')
  BY <1>1, <1>2, <1>12
<1>14. InStep'
  BY <1>1, <1>9, <1>11, <1>12, <1>13 DEF InStep
<1> QED
  BY <1>7, <1>14

(* Nothing changes but how the bytes under way are divided *)
LEMMA OnlyMoved ==
    ASSUME Prefixed, LinkTypes, InStep, LinkTypes', UnderWay' = UnderWay,
           UNCHANGED <<written, reading, received, errors>>,
           want' + Len(part') = want + Len(part)
    PROVE  InStep'
<1>1. Current' = Current
  BY DEF Current
<1>2. Ahead' = Ahead
  BY <1>1 DEF Ahead
<1> QED
  BY <1>1, <1>2 DEF InStep

LEMMA ArriveInStep ==
    ASSUME Prefixed, LinkTypes, InStep, Arrive
    PROVE  LinkTypes' /\ InStep'
<1>1. /\ buffer \in Stream /\ part \in Stream /\ wire \in Stream /\ Len(wire) \in Nat
      /\ UNCHANGED <<written, part, want, reading, received, errors, faults>>
  BY StreamFacts DEF LinkTypes, Arrive
<1>2. PICK n \in 1..Len(wire) : /\ buffer' = buffer \o SubSeq(wire, 1, n)
                                 /\ wire' = SubSeq(wire, n + 1, Len(wire))
  BY DEF Arrive
<1> DEFINE moved == SubSeq(wire, 1, n)
<1>3. n \in 0..Len(wire)
  BY <1>1, <1>2
<1>4. moved \in Stream /\ wire' \in Stream /\ moved \o wire' = wire
  BY <1>1, <1>2, <1>3, CutInTwo
<1> HIDE DEF moved
<1>5. buffer' = buffer \o moved
  BY <1>2 DEF moved
<1>6. buffer' \in Stream
  BY <1>1, <1>4, <1>5, StreamsJoined
<1>7. (buffer \o moved) \o wire' = buffer \o (moved \o wire')
  <2>1. buffer \in Stream /\ moved \in Stream /\ wire' \in Stream
    BY <1>1, <1>4
  <2> QED
    BY <2>1, Regrouped
<1>8. UnderWay' = UnderWay
  BY <1>1, <1>4, <1>5, <1>7 DEF UnderWay
<1>9. LinkTypes'
  BY <1>1, <1>4, <1>6 DEF LinkTypes
<1> QED
  BY <1>1, <1>8, <1>9, OnlyMoved

LEMMA ReadMoreInStep ==
    ASSUME Prefixed, LinkTypes, InStep, ReadMore
    PROVE  LinkTypes' /\ InStep'
<1>1. /\ buffer \in Stream /\ part \in Stream /\ wire \in Stream /\ want \in Nat
      /\ ~Complete /\ part' = Collected /\ want' = want - Len(Chunk) /\ buffer' = <<>>
      /\ UNCHANGED <<written, wire, reading, received, errors, faults>>
  BY DEF LinkTypes, ReadMore
<1>2. /\ Chunk = buffer /\ Len(buffer) < want /\ Len(Chunk) \in Nat /\ Collected \in Stream
      /\ Len(Collected) = Len(part) + Len(Chunk) /\ Len(part) \in Nat
  BY <1>1, Chunks
<1>3. <<>> \in Stream /\ <<>> \o wire = wire
  BY <1>1, StreamFacts
<1>4. want' \in Nat \ {0} /\ want' + Len(part') = want + Len(part)
  BY <1>1, <1>2
<1>5. LinkTypes'
  BY <1>1, <1>2, <1>3, <1>4 DEF LinkTypes
<1>6. (part \o buffer) \o wire = part \o (buffer \o wire)
  <2>1. part \in Stream /\ buffer \in Stream /\ wire \in Stream
    BY <1>1
  <2> QED
    BY <2>1, Regrouped
<1>7. UnderWay' = UnderWay
  BY <1>1, <1>2, <1>3, <1>6 DEF UnderWay, Collected
<1> QED
  BY <1>1, <1>4, <1>5, <1>7, OnlyMoved

LEMMA ReadLengthInStep ==
    ASSUME Prefixed, LinkTypes, InStep, ReadLength
    PROVE  LinkTypes' /\ InStep'
<1> DEFINE rest == SubSeq(buffer, want + 1, Len(buffer))
           frame == SecureFrame(Messages[Current])
           size == BigEndian(Len(frame))
<1>1. /\ part \in Stream /\ wire \in Stream /\ want \in Nat \ {0}
      /\ Complete /\ reading = "length" /\ buffer' = rest
      /\ UNCHANGED <<written, wire, received, faults>>
      /\ want + Len(part) = 2 /\ errors = 0
  BY DEF LinkTypes, ReadLength, InStep
<1>2. /\ rest \in Stream /\ Collected \in Stream /\ UnderWay = Collected \o (rest \o wire)
      /\ Len(Collected) = Len(part) + Len(Chunk) /\ Len(Chunk) = want
      /\ Len(part) \in Nat
  BY <1>1, Chunks DEF Complete
<1>3. Len(Collected) = 2
  BY <1>1, <1>2
<1> HIDE DEF rest
<1>4. /\ Ahead = Collected \o (rest \o wire) /\ rest \o wire \in Stream
      /\ Len(Ahead) = Len(Collected) + Len(rest \o wire) /\ Len(rest \o wire) \in Nat
      /\ \A k \in 1..Len(Collected) : Ahead[k] = Collected[k]
  <2>1. Ahead = Collected \o (rest \o wire)
    BY <1>1, <1>2, AheadIs
  <2>2. rest \o wire \in Stream
    BY <1>1, <1>2, StreamsJoined
  <2>3. /\ Len(Collected \o (rest \o wire)) = Len(Collected) + Len(rest \o wire)
        /\ Len(rest \o wire) \in Nat
        /\ \A k \in 1..Len(Collected) : (Collected \o (rest \o wire))[k] = Collected[k]
    BY <1>2, <2>2, StreamsJoined
  <2> QED
    BY <2>1, <2>2, <2>3
<1>5. Current <= written
  <2>1. Len(Ahead) > 0
    BY <1>3, <1>4
  <2> QED
    BY <2>1, SomethingAhead
<1>6. /\ Current \in 1..Len(Messages)
      /\ \A k \in 1..Len(Record(Messages[Current])) : Ahead[k] = Record(Messages[Current])[k]
  BY <1>5, SomethingAhead
<1>7. /\ Record(Messages[Current]) = size \o frame
      /\ frame \in Stream /\ Len(frame) \in Nat /\ 7 <= Len(frame)
      /\ size \in Stream /\ Len(size) = 2 /\ LengthOf(size) = Len(frame)
      /\ Len(Record(Messages[Current])) = Len(frame) + 2
  BY <1>6, RecordIs, Zenon
<1> HIDE DEF frame, size
<1>8. Collected = size
  <2>1. \A k \in 1..Len(size) : (size \o frame)[k] = size[k]
    BY <1>7, StreamsJoined
  <2>2. \A k \in 1..2 : k \in 1..Len(Record(Messages[Current]))
    BY <1>7
  <2>3. \A k \in 1..2 : Ahead[k] = size[k]
    BY <1>6, <1>7, <2>1, <2>2
  <2>4. \A k \in 1..2 : Ahead[k] = Collected[k]
    BY <1>3, <1>4
  <2>5. \A k \in 1..Len(Collected) : Collected[k] = size[k]
    BY <1>3, <2>3, <2>4
  <2>6. Len(Collected) = Len(size)
    BY <1>3, <1>7
  <2> QED
    BY <1>2, <1>7, <2>5, <2>6, SeqEqual, Zenon DEF Stream
<1>9. LengthOf(Collected) = Len(frame) /\ LengthOf(Collected) # 0
  BY <1>7, <1>8
<1>10. part' = <<>> /\ want' = Len(frame) /\ reading' = "frame" /\ errors' = errors
  BY <1>9 DEF ReadLength
<1>11. <<>> \in Stream /\ <<>> \o (rest \o wire) = rest \o wire /\ Len(<<>>) = 0
  BY <1>1, <1>4, StreamFacts
<1>12. LinkTypes'
  BY <1>1, <1>2, <1>7, <1>10, <1>11 DEF LinkTypes
<1>13. Current' = Current
  BY <1>1 DEF Current
<1>14. Ahead' = Ahead
  <2>1. UnderWay' = rest \o wire
    BY <1>1, <1>10, <1>11 DEF UnderWay
  <2>2. Ahead' = size \o UnderWay'
    BY <1>10, <1>13 DEF Ahead, size, frame
  <2> QED
    BY <1>4, <1>8, <2>1, <2>2
<1>15. Len(received) \in 0..written /\ Len(received) < written
  BY <1>5, AheadIs DEF Current
<1>16. want' + Len(part') = Len(frame)
  BY <1>7, <1>10, <1>11
<1>17. frame = SecureFrame(Messages[Current'])
  BY <1>13 DEF frame
<1>18. InStep'
  BY <1>1, <1>10, <1>13, <1>14, <1>15, <1>16, <1>17 DEF InStep
<1> QED
  BY <1>12, <1>18

LEMMA ReadFrameInStep ==
    ASSUME Prefixed, LinkTypes, InStep, ReadFrame
    PROVE  LinkTypes' /\ InStep'
<1> DEFINE rest == SubSeq(buffer, want + 1, Len(buffer))
           frame == SecureFrame(Messages[Current])
           size == BigEndian(Len(frame))
           record == Record(Messages[Current])
<1>1. /\ part \in Stream /\ wire \in Stream /\ want \in Nat \ {0}
      /\ Complete /\ reading = "frame" /\ buffer' = rest /\ StartOver
      /\ UNCHANGED <<written, wire, faults>>
      /\ want + Len(part) = Len(frame) /\ errors = 0 /\ Len(received) < written
  BY DEF LinkTypes, ReadFrame, InStep
<1>2. /\ rest \in Stream /\ Collected \in Stream /\ UnderWay = Collected \o (rest \o wire)
      /\ Len(Collected) = Len(part) + Len(Chunk) /\ Len(Chunk) = want
      /\ Len(part) \in Nat
  BY <1>1, Chunks DEF Complete
<1>3. Len(Collected) = Len(frame)
  BY <1>1, <1>2
<1> HIDE DEF rest
<1>4. rest \o wire \in Stream
  BY <1>1, <1>2, StreamsJoined
<1>5. /\ Len(received) \in Nat /\ written \in Nat /\ Len(Messages) \in Nat
      /\ written <= Len(Messages)
      /\ Current = Len(received) + 1 /\ Current <= written
  BY <1>1, AheadIs DEF Current
<1>6. /\ Current \in 1..Len(Messages)
      /\ \A k \in 1..Len(record) : Ahead[k] = record[k]
  BY <1>5, SomethingAhead
<1>7. /\ record = size \o frame /\ record \in Stream
      /\ frame \in Stream /\ Len(frame) \in Nat
      /\ size \in Stream /\ Len(size) = 2
      /\ Len(record) = Len(frame) + 2
  BY <1>6, RecordIs, Zenon
<1>8. Ahead = size \o (Collected \o (rest \o wire))
  BY <1>1, <1>2, AheadIs
<1>9. Received(frame, Address) = Messages[Current] /\ Messages[Current] # ProtocolError
  BY <1>6, ReceivedIsSent
<1> HIDE DEF frame, size, record
<1>10. Ahead = (size \o Collected) \o (rest \o wire) /\ size \o Collected \in Stream
  <2>1. size \in Stream /\ Collected \in Stream /\ rest \o wire \in Stream
    BY <1>2, <1>4, <1>7
  <2>2. size \o (Collected \o (rest \o wire)) = (size \o Collected) \o (rest \o wire)
    BY <2>1, Regrouped
  <2>3. size \o Collected \in Stream
    BY <2>1, StreamsJoined
  <2> QED
    BY <1>8, <2>2, <2>3
<1>11. Collected = frame
  <2>1. /\ \A j \in 1..Len(size \o Collected) :
               ((size \o Collected) \o (rest \o wire))[j] = (size \o Collected)[j]
        /\ Len(size \o Collected) = Len(size) + Len(Collected)
        /\ \A j \in 1..Len(Collected) : (size \o Collected)[Len(size) + j] = Collected[j]
        /\ \A j \in 1..Len(frame) : (size \o frame)[Len(size) + j] = frame[j]
    BY <1>2, <1>4, <1>7, <1>10, StreamsJoined
  <2>2. ASSUME NEW j \in 1..Len(Collected)
        PROVE  Collected[j] = frame[j]
    <3>1. 2 + j \in 1..Len(record) /\ 2 + j \in 1..Len(size \o Collected) /\ j \in 1..Len(frame)
      BY <1>3, <1>7, <2>1
    <3>2. Ahead[2 + j] = Collected[j]
      BY <1>7, <1>10, <2>1, <3>1
    <3>3. record[2 + j] = frame[j]
      BY <1>7, <2>1, <3>1
    <3> QED
      BY <1>6, <3>1, <3>2, <3>3
  <2> QED
    BY <1>2, <1>3, <1>7, <2>2, SeqEqual, Zenon DEF Stream
<1>12. errors' = errors /\ received' = Append(received, Messages[Current])
  BY <1>9, <1>11 DEF ReadFrame
<1>13. /\ received' = SubSeq(Messages, 1, Len(received')) /\ Len(received') = Current
  <2> DEFINE S == [address : {Address}, tag : Byte, payload : Seq(Byte)]
  <2>1. Messages \in Seq(S) /\ received = SubSeq(Messages, 1, Len(received))
    BY UartAssumption DEF InStep
  <2> HIDE DEF S
  <2>2. received \in Seq(S)
    <3>1. \A i \in 1..Len(received) : Messages[i] \in S
      BY <1>5, <2>1, ElementOfSeq
    <3>2. SubSeq(Messages, 1, Len(received)) \in Seq(S)
      BY <1>5, <3>1, SubSeqProperties
    <3> QED
      BY <2>1, <3>2
  <2>3. Messages[Current] \in S
    BY <1>6, <2>1, ElementOfSeq
  <2>4. /\ received' \in Seq(S) /\ Len(received') = Len(received) + 1
        /\ \A i \in 1..Len(received) : received'[i] = received[i]
        /\ received'[Len(received) + 1] = Messages[Current]
    BY <1>5, <1>12, <2>2, <2>3, AppendProperties
  <2>5. /\ SubSeq(Messages, 1, Current) \in Seq(S) /\ Len(SubSeq(Messages, 1, Current)) = Current
        /\ \A i \in 1..Current : SubSeq(Messages, 1, Current)[i] = Messages[i]
    <3>1. \A i \in 1..Current : Messages[i] \in S
      BY <1>5, <2>1, ElementOfSeq
    <3>2. /\ SubSeq(Messages, 1, Current) \in Seq(S)
          /\ Len(SubSeq(Messages, 1, Current)) = IF 1 <= Current THEN Current - 1 + 1 ELSE 0
          /\ \A i \in 1..Current - 1 + 1 : SubSeq(Messages, 1, Current)[i] = Messages[1 + i - 1]
      BY <1>5, <3>1, SubSeqProperties
    <3> QED
      BY <1>5, <3>2
  <2>6. \A i \in 1..Len(received) : received[i] = Messages[i]
    <3>1. \A i \in 1..Len(received) : Messages[i] \in S
      BY <1>5, <2>1, ElementOfSeq
    <3>2. \A i \in 1..Len(received) - 1 + 1 : SubSeq(Messages, 1, Len(received))[i] = Messages[1 + i - 1]
      BY <1>5, <3>1, SubSeqProperties
    <3> QED
      BY <1>5, <2>1, <3>2
  <2>7. Len(received') = Current
    BY <1>5, <2>4
  <2>8. \A i \in 1..Current : received'[i] = SubSeq(Messages, 1, Current)[i]
    <3> TAKE i \in 1..Current
    <3>1. CASE i = Current
      BY <1>5, <2>4, <2>5, <3>1
    <3>2. CASE i # Current
      <4>1. i \in 1..Len(received)
        BY <1>5, <3>2
      <4> QED
        BY <2>4, <2>5, <2>6, <4>1
    <3> QED
      BY <3>1, <3>2
  <2>9. received' = SubSeq(Messages, 1, Current)
    BY <2>4, <2>5, <2>7, <2>8, SeqEqual
  <2> QED
    BY <2>7, <2>9
<1>14. part' = <<>> /\ want' = 2 /\ reading' = "length" /\ <<>> \in Stream /\ Len(<<>>) = 0
  BY <1>1, StreamFacts DEF StartOver
<1>15. LinkTypes'
  BY <1>1, <1>2, <1>14 DEF LinkTypes
<1>16. Ahead' = rest \o wire
  <2>1. <<>> \o (rest \o wire) = rest \o wire
    BY <1>4, StreamFacts
  <2> QED
    BY <1>1, <1>14, <2>1 DEF Ahead, UnderWay
<1>17. Current' = Current + 1
  BY <1>13 DEF Current
<1>18. Laid(rest \o wire, Current + 1, written)
  <2>1. Laid(record \o (rest \o wire), Current, written)
    BY <1>7, <1>10, <1>11 DEF InStep
  <2>2. Current \in Nat \ {0}
    BY <1>5
  <2> QED
    BY <1>4, <1>5, <2>1, <2>2, RecordTaken DEF record
<1>19. Laid(Ahead', Current', written')
  BY <1>1, <1>16, <1>17, <1>18
<1>20. Len(received') \in 0..written'
  BY <1>1, <1>5, <1>13
<1>21. want' + Len(part') = 2
  BY <1>14
<1>22. errors' = 0 /\ reading' # "frame"
  BY <1>1, <1>12, <1>14
<1>23. InStep'
  BY <1>13, <1>19, <1>20, <1>21, <1>22 DEF InStep
<1> QED
  BY <1>15, <1>23

(* Nothing is left when the line is empty, so nobody waits in vain *)
LEMMA AllReceived ==
    ASSUME Prefixed, LinkTypes, InStep, wire = <<>>, buffer = <<>>
    PROVE  Len(received) = written /\ reading = "length" /\ part = <<>>
<1>1. /\ part \in Stream /\ Len(buffer) = 0 /\ Len(wire) = 0
      /\ Len(UnderWay) = Len(part) + (Len(buffer) + Len(wire)) /\ Len(part) \in Nat
      /\ want \in Nat \ {0} /\ reading \in {"length", "frame"}
      /\ Len(received) \in Nat /\ written \in Nat /\ Len(received) <= written
      /\ Current = Len(received) + 1
  BY AheadIs, StreamFacts DEF LinkTypes, Current
<1>2. Len(UnderWay) = Len(part)
  BY <1>1
<1>3. ASSUME reading = "frame"
      PROVE  FALSE
  <2>1. /\ Len(received) < written /\ want + Len(part) = Len(SecureFrame(Messages[Current]))
        /\ Len(Ahead) = 2 + Len(UnderWay)
    BY <1>3, AheadIs DEF InStep
  <2>2. Len(SecureFrame(Messages[Current])) + 2 <= Len(Ahead)
    BY <1>1, <2>1, SomethingAhead
  <2> QED
    BY <1>1, <1>2, <2>1, <2>2
<1>4. /\ reading = "length" /\ want + Len(part) = 2 /\ Len(Ahead) = Len(UnderWay)
  BY <1>1, <1>3, AheadIs DEF InStep
<1>5. Len(part) < 2
  BY <1>1, <1>4
<1>6. ~(Current <= written)
  <2> SUFFICES ASSUME Current <= written PROVE FALSE
    OBVIOUS
  <2>1. /\ Len(SecureFrame(Messages[Current])) \in Nat
        /\ Len(SecureFrame(Messages[Current])) + 2 <= Len(Ahead)
    BY SomethingAhead
  <2> QED
    BY <1>1, <1>2, <1>4, <1>5, <2>1
<1>7. ~(Len(Ahead) > 0)
  BY <1>6, SomethingAhead
<1>8. Len(part) = 0
  BY <1>1, <1>2, <1>4, <1>7
<1> QED
  BY <1>1, <1>4, <1>6, <1>8, StreamFacts

LEMMA StepInStep ==
    ASSUME Prefixed, LinkInvariant, [Next]_vars
    PROVE  LinkInvariant'
<1>1. faults \in Nat
  BY DEF LinkInvariant
<1>2. CASE GiveUpEarly \/ Noise \/ Damage
  <2>1. faults' \in Nat /\ faults' # 0
    BY <1>1, <1>2, UartAssumption DEF GiveUpEarly, Noise, Damage
  <2> QED
    BY <2>1 DEF LinkInvariant
<1>3. ASSUME faults # 0, UNCHANGED faults
      PROVE  LinkInvariant'
  BY <1>1, <1>3 DEF LinkInvariant
<1>4. ASSUME faults = 0, UNCHANGED faults, LinkTypes' /\ InStep'
      PROVE  LinkInvariant'
  BY <1>1, <1>4 DEF LinkInvariant
<1>5. ASSUME faults = 0
      PROVE  LinkTypes /\ InStep
  BY <1>5 DEF LinkInvariant
<1>6. CASE Write
  BY <1>3, <1>4, <1>5, <1>6, WriteInStep DEF Write
<1>7. CASE Arrive
  BY <1>3, <1>4, <1>5, <1>7, ArriveInStep DEF Arrive
<1>8. CASE ReadMore
  BY <1>3, <1>4, <1>5, <1>8, ReadMoreInStep DEF ReadMore
<1>9. CASE ReadLength
  BY <1>3, <1>4, <1>5, <1>9, ReadLengthInStep DEF ReadLength
<1>10. CASE ReadFrame
  BY <1>3, <1>4, <1>5, <1>10, ReadFrameInStep DEF ReadFrame
<1>11. CASE GiveUpInVain
  <2>1. wire = <<>> /\ buffer = <<>> /\ (reading = "frame" \/ part # <<>>) /\ UNCHANGED faults
    BY <1>11 DEF GiveUpInVain
  <2>2. faults # 0
    BY <1>5, <2>1, AllReceived
  <2> QED
    BY <1>3, <2>1, <2>2
<1>12. CASE UNCHANGED vars
  <2>1. /\ UNCHANGED <<written, wire, buffer, part, want, reading, received, errors, faults>>
    BY <1>12 DEF vars
  <2> QED
    BY <2>1 DEF LinkInvariant, LinkTypes, InStep, Current, Ahead, UnderWay
<1> QED
  BY <1>2, <1>6, <1>7, <1>8, <1>9, <1>10, <1>11, <1>12 DEF Next

(* Without faults the receiver is in step with the stream: what is ahead of  *)
(* it are the records of the messages it lacks, and it reads the length    *)
(* where a record begins.                                                   *)
THEOREM LinkInductive ==
    ASSUME Prefixed
    PROVE  Spec => []LinkInvariant
<1>1. Init => LinkInvariant
  BY InitInStep
<1>2. LinkInvariant /\ [Next]_vars => LinkInvariant'
  BY StepInStep
<1> QED
  BY <1>1, <1>2, PTL DEF Spec

(* With the length in front of each frame, as send_packet and send_record    *)
(* write it, every message arrives on a line without faults, whatever its   *)
(* bytes and however the UART cuts them up.                                 *)
THEOREM PrefixedFramesArrive ==
    ASSUME Prefixed
    PROVE  Spec => []EveryFrameArrives
<1>1. LinkInvariant => EveryFrameArrives
  BY AllReceived DEF LinkInvariant, InStep, EveryFrameArrives
<1> QED
  BY <1>1, LinkInductive, PTL
=============================================================================
