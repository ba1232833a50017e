------------------------ MODULE RegisterAccess_proof ------------------------
(***************************************************************************)
(* Proofs about RegisterAccess, for every number of registers and all      *)
(* integers that callers pass.                                             *)
(***************************************************************************)
EXTENDS RegisterAccess, SequenceTheorems, TLAPS

-----------------------------------------------------------------------------
(* What handle_pdu answers, and how the master reads the answer *)

(* The bit that marks an exception is not set in a function code the slave  *)
(* echoes, and set in its exceptions                                       *)
LEMMA ExceptionIsMarked ==
    /\ \A data : ~Refused(Pdu(ReadHolding, data)) /\ ~Refused(Pdu(WriteSingle, data))
    /\ \A fn \in {ReadHolding, WriteSingle} : \A code : Refused(Exception(fn, code))
<1>1. 3 \div 128 = 0 /\ 6 \div 128 = 0 /\ 131 \div 128 = 1 /\ 134 \div 128 = 1
  OBVIOUS
<1>2. 0 % 2 = 0 /\ 1 % 2 = 1
  OBVIOUS
<1> QED
  BY <1>1, <1>2 DEF Refused, Exception, Pdu, ReadHolding, WriteSingle

IsMap(f) == f = [x \in DOMAIN f |-> f[x]]

LEMMA SameFunction ==
    ASSUME NEW f, NEW g, IsMap(f), IsMap(g),
           DOMAIN f = DOMAIN g, \A x \in DOMAIN f : f[x] = g[x]
    PROVE  f = g
BY DEF IsMap

LEMMA SizeIsNumber == Size \in Int /\ 1 <= Size /\ Size <= 65536
BY SizeAssumption DEF MaxWord

LEMMA WordIs == \A x \in Int : x \in Word <=> 0 <= x /\ x <= 65535
BY DEF Word, MaxWord

LEMMA WordsAre ==
    ASSUME NEW word \in Word
    PROVE  word \in Int /\ 0 <= word /\ word <= 65535 /\ word % 65536 = word
<1>1. word \in Int /\ 0 <= word /\ word <= 65535
  BY DEF Word, MaxWord
<1>2. word % 65536 = word
  BY <1>1
<1> QED
  BY <1>1, <1>2

LEMMA InRange ==
    ASSUME NEW start \in Int, NEW quantity \in Int
    PROVE  ReadInRange(start, quantity)
             <=> 1 <= quantity /\ quantity <= 125 /\ start + quantity <= Size
BY SizeIsNumber DEF ReadInRange

(* Slicing cuts nothing off a range the slave has checked, and masking a    *)
(* register to 16 bits leaves it alone                                     *)
LEMMA SliceInRange ==
    ASSUME NEW registers \in Bank, NEW start \in Word, NEW quantity \in Word,
           ReadInRange(start, quantity)
    PROVE  /\ Slice(registers, start, start + quantity)
                = [i \in 1..quantity |-> registers[start + i - 1]]
           /\ Len(Slice(registers, start, start + quantity)) = quantity
<1> DEFINE stop == IF start + quantity > Size THEN Size ELSE start + quantity
           slice == Slice(registers, start, start + quantity)
<1>1. start \in Int /\ 0 <= start /\ quantity \in Int
  BY WordsAre
<1>2. 1 <= quantity /\ start + quantity <= Size
  BY <1>1, InRange
<1>3. stop - start = quantity
  BY <1>1, <1>2, SizeIsNumber
<1>4. ASSUME NEW i \in 1..quantity
      PROVE  registers[start + i - 1] % 65536 = registers[start + i - 1]
  <2>1. start + i - 1 \in 0..(Size - 1)
    BY <1>1, <1>2, SizeIsNumber
  <2>2. registers[start + i - 1] \in Word
    BY <2>1 DEF Bank
  <2> QED
    BY <2>2, WordsAre
<1>5. slice = [i \in 1..(stop - start) |-> registers[start + i - 1] % 65536]
  BY DEF Slice
<1> HIDE DEF stop, slice
<1>6. /\ IsMap(slice)
      /\ DOMAIN slice = 1..(stop - start)
      /\ \A i \in 1..(stop - start) : slice[i] = registers[start + i - 1] % 65536
  BY <1>5 DEF IsMap
<1>7. DOMAIN slice = 1..quantity
  BY <1>3, <1>6
<1>8. \A i \in 1..quantity : slice[i] = registers[start + i - 1]
  BY <1>3, <1>4, <1>6
<1>9. slice = [i \in 1..quantity |-> registers[start + i - 1]]
  <2> DEFINE asked == [i \in 1..quantity |-> registers[start + i - 1]]
  <2>1. /\ IsMap(asked) /\ DOMAIN asked = 1..quantity
        /\ \A i \in 1..quantity : asked[i] = registers[start + i - 1]
    BY DEF IsMap
  <2> HIDE DEF asked
  <2>2. DOMAIN slice = DOMAIN asked /\ \A i \in DOMAIN slice : slice[i] = asked[i]
    BY <1>7, <1>8, <2>1
  <2>3. IsMap(slice)
    BY <1>6
  <2>4. IsMap(asked)
    BY <2>1
  <2>5. DOMAIN slice = DOMAIN asked
    BY <2>2
  <2>6. \A i \in DOMAIN slice : slice[i] = asked[i]
    BY <2>2
  <2>7. slice = asked
    BY <2>3, <2>4, <2>5, <2>6, SameFunction
  <2> QED
    BY <2>7 DEF asked
<1>10. Len(slice) = quantity
  BY <1>1, <1>2, <1>9
<1> QED
  BY <1>9, <1>10 DEF slice

LEMMA BeforeAppended ==
    ASSUME NEW S, NEW head \in S, NEW tail \in Seq(S)
    PROVE  /\ Len(<<head>> \o tail) = Len(tail) + 1
           /\ (<<head>> \o tail)[1] = head
           /\ \A i \in 1..Len(tail) : (<<head>> \o tail)[i + 1] = tail[i]
<1>1. <<head>> \in Seq(S) /\ Len(<<head>>) = 1 /\ <<head>>[1] = head
  OBVIOUS
<1>2. Len(tail) \in Nat
  BY LenProperties
<1> QED
  BY <1>1, <1>2, ConcatProperties

(* What a read of the registers is answered *)
LEMMA AnswerToRead ==
    ASSUME NEW registers \in Bank, NEW start \in Word, NEW quantity \in Word
    PROVE  LET pdu == Pdu(ReadHolding, <<start, quantity>>)
               answer == Answer(registers, pdu)
           IN  /\ After(registers, pdu) = registers
               /\ ~ReadInRange(start, quantity) => Refused(answer)
               /\ ReadInRange(start, quantity) =>
                     /\ ~Refused(answer) /\ answer.fn = ReadHolding
                     /\ answer.data[1] = 2 * quantity
                     /\ ReadValues(answer, quantity)
                          = [i \in 1..quantity |-> registers[start + i - 1]]
<1> DEFINE pdu == Pdu(ReadHolding, <<start, quantity>>)
           answer == Answer(registers, pdu)
           slice == Slice(registers, start, start + quantity)
           data == <<2 * quantity>> \o slice
           asked == [i \in 1..quantity |-> registers[start + i - 1]]
<1>1. /\ pdu.fn = ReadHolding /\ pdu.data[1] = start /\ pdu.data[2] = quantity
      /\ ReadHolding # WriteSingle
  BY DEF Pdu, ReadHolding, WriteSingle
<1>2. answer = IF ReadInRange(start, quantity) THEN Pdu(ReadHolding, data)
               ELSE Exception(ReadHolding, IllegalAddress)
  BY <1>1 DEF Answer
<1>3. After(registers, pdu) = registers
  BY <1>1 DEF After, Writes
<1>4. ~ReadInRange(start, quantity) => Refused(answer)
  BY <1>2, ExceptionIsMarked
<1>5. ASSUME ReadInRange(start, quantity)
      PROVE  /\ ~Refused(answer) /\ answer.fn = ReadHolding
             /\ answer.data[1] = 2 * quantity
             /\ ReadValues(answer, quantity) = asked
  <2>1. answer = Pdu(ReadHolding, data)
    BY <1>2, <1>5
  <2>2. answer.fn = ReadHolding /\ answer.data = data /\ ~Refused(answer)
    <3> HIDE DEF answer, data
    <3> QED
      BY <2>1, ExceptionIsMarked DEF Pdu
  <2>3. /\ quantity \in Int /\ start \in Int /\ 0 <= start
        /\ 1 <= quantity /\ start + quantity <= Size
    BY <1>5, WordsAre, InRange
  <2>4. slice = asked /\ Len(slice) = quantity
    BY <1>5, SliceInRange
  <2>5. asked \in Seq(Int)
    <3>1. ASSUME NEW i \in 1..quantity
          PROVE  registers[start + i - 1] \in Int
      <4>1. start + i - 1 \in 0..(Size - 1)
        BY <2>3, SizeIsNumber
      <4> QED
        BY <4>1, WordsAre DEF Bank
    <3>2. quantity \in Nat
      BY <2>3
    <3> QED
      BY <3>1, <3>2
  <2>6. /\ Len(data) = quantity + 1 /\ data[1] = 2 * quantity
        /\ \A i \in 1..quantity : data[i + 1] = slice[i]
    <3> HIDE DEF slice
    <3>1. slice \in Seq(Int) /\ 2 * quantity \in Int
      BY <2>3, <2>4, <2>5
    <3> DEFINE length == 2 * quantity
    <3> HIDE DEF length
    <3>2. /\ Len(<<length>> \o slice) = Len(slice) + 1
          /\ (<<length>> \o slice)[1] = length
          /\ \A i \in 1..Len(slice) : (<<length>> \o slice)[i + 1] = slice[i]
      BY <3>1, BeforeAppended DEF length
    <3> QED
      BY <2>4, <3>2 DEF length
  <2>7. \A i \in 1..quantity : i < Len(data) /\ data[i + 1] = registers[start + i - 1]
    <3> HIDE DEF slice, data
    <3> QED
      BY <2>3, <2>4, <2>6
  <2>8. ReadValues(answer, quantity) = asked
    <3> DEFINE values == ReadValues(answer, quantity)
    <3> HIDE DEF answer, data, slice
    <3>1. /\ IsMap(values) /\ DOMAIN values = 1..quantity
          /\ \A i \in 1..quantity :
                values[i] = IF i < Len(answer.data) THEN answer.data[i + 1] ELSE 0
      BY DEF ReadValues, IsMap
    <3>2. /\ IsMap(asked) /\ DOMAIN asked = 1..quantity
          /\ \A i \in 1..quantity : asked[i] = registers[start + i - 1]
      BY DEF IsMap
    <3> HIDE DEF values, asked
    <3>3. IsMap(values) /\ IsMap(asked)
      BY <3>1, <3>2
    <3>4. DOMAIN values = DOMAIN asked
      BY <3>1, <3>2
    <3>5. \A i \in DOMAIN values : values[i] = asked[i]
      BY <2>2, <2>7, <3>1, <3>2
    <3>6. values = asked
      BY <3>3, <3>4, <3>5, SameFunction
    <3> QED
      BY <3>6 DEF values
  <2> HIDE DEF answer, asked
  <2> QED
    BY <2>2, <2>6, <2>8
<1> HIDE DEF answer
<1> QED
  BY <1>3, <1>4, <1>5 DEF answer

(* What a write of a register is answered *)
LEMMA AnswerToWrite ==
    ASSUME NEW registers \in Bank, NEW register \in Word, NEW value \in Word
    PROVE  LET pdu == Pdu(WriteSingle, <<register, value>>)
               answer == Answer(registers, pdu)
           IN  /\ ~WriteInRange(register) =>
                     Refused(answer) /\ After(registers, pdu) = registers
               /\ WriteInRange(register) =>
                     /\ ~Refused(answer) /\ answer = pdu
                     /\ After(registers, pdu) = [registers EXCEPT ![register] = value]
<1> DEFINE pdu == Pdu(WriteSingle, <<register, value>>)
           answer == Answer(registers, pdu)
<1>1. /\ pdu.fn = WriteSingle /\ pdu.data[1] = register /\ pdu.data[2] = value
      /\ WriteSingle # ReadHolding
  BY DEF Pdu, ReadHolding, WriteSingle
<1>2. ~Refused(pdu)
  BY ExceptionIsMarked
<1> HIDE DEF pdu
<1>3. answer = IF WriteInRange(register) THEN pdu ELSE Exception(WriteSingle, IllegalAddress)
  BY <1>1 DEF Answer
<1>4. /\ ~WriteInRange(register) => After(registers, pdu) = registers
      /\ WriteInRange(register) =>
            After(registers, pdu) = [registers EXCEPT ![register] = value]
  BY <1>1 DEF After, Writes
<1> HIDE DEF answer
<1>5. ~WriteInRange(register) => Refused(answer)
  BY <1>3, ExceptionIsMarked
<1> QED
  BY <1>2, <1>3, <1>4, <1>5 DEF pdu, answer

-----------------------------------------------------------------------------
(* Every operation *)

(* The bank holds what the successful writes left there.  That is all the   *)
(* properties need to be inductive.                                        *)
AccessInvariant ==
    bank \in Bank /\ wrote = bank /\ ReadsReturnWrites /\ FailsExactlyOutside

LEMMA OutcomeFields ==
    ASSUME NEW op, NEW a, NEW b, NEW kind, NEW values
    PROVE  LET o == Outcome(op, a, b, kind, values)
           IN  o.op = op /\ o.a = a /\ o.b = b /\ o.kind = kind /\ o.values = values
BY DEF Outcome

LEMMA MeaningfulRead ==
    ASSUME NEW start \in Int, NEW quantity \in Int, NEW o,
           o.op = "read", o.a = start, o.b = quantity
    PROVE  Meaningful(o) <=> Packs(start, quantity) /\ ReadInRange(start, quantity)
<1>1. ASSUME Meaningful(o)
      PROVE  Packs(start, quantity) /\ ReadInRange(start, quantity)
  <2>1. 1 <= quantity /\ quantity <= 125
        /\ start..(start + quantity - 1) \subseteq 0..(Size - 1)
    BY <1>1 DEF Meaningful
  <2>2. start \in start..(start + quantity - 1)
        /\ start + quantity - 1 \in start..(start + quantity - 1)
    BY <2>1
  <2>3. 0 <= start /\ start + quantity <= Size
    BY <2>1, <2>2, SizeIsNumber
  <2>4. start \in Word /\ quantity \in Word
    BY <2>1, <2>3, SizeIsNumber, WordIs
  <2> QED
    BY <2>1, <2>3, <2>4, InRange DEF Packs
<1>2. ASSUME Packs(start, quantity), ReadInRange(start, quantity)
      PROVE  Meaningful(o)
  <2>1. 0 <= start
    BY <1>2, WordsAre DEF Packs
  <2>2. 1 <= quantity /\ quantity <= 125 /\ start + quantity <= Size
    BY <1>2, InRange
  <2>3. start..(start + quantity - 1) \subseteq 0..(Size - 1)
    BY <2>1, <2>2, SizeIsNumber
  <2> QED
    BY <2>2, <2>3 DEF Meaningful
<1> QED
  BY <1>1, <1>2

LEMMA MeaningfulWrite ==
    ASSUME NEW register \in Int, NEW value \in Int, NEW o,
           o.op = "write", o.a = register, o.b = value
    PROVE  Meaningful(o) <=> Packs(register, value) /\ WriteInRange(register)
<1>1. register \in 0..(Size - 1) <=> register \in Word /\ WriteInRange(register)
  BY SizeIsNumber, WordIs DEF WriteInRange
<1>2. Meaningful(o) <=> register \in 0..(Size - 1) /\ value \in Word
  BY DEF Meaningful
<1> QED
  BY <1>1, <1>2 DEF Packs

LEMMA ReadKeeps ==
    ASSUME AccessInvariant, NEW start \in Int, NEW quantity \in Int, Read(start, quantity)
    PROVE  AccessInvariant'
<1> DEFINE pdu == Pdu(ReadHolding, <<start, quantity>>)
           answer == Answer(bank, pdu)
           served == Packs(start, quantity) /\ ReadInRange(start, quantity)
           asked == [i \in 1..quantity |-> bank[start + i - 1]]
<1>1. bank \in Bank /\ wrote = bank /\ wrote' = wrote
  BY DEF AccessInvariant, Read
<1>2. Packs(start, quantity) => start \in Word /\ quantity \in Word
  BY DEF Packs
<1>3. bank' = bank
  BY <1>1, <1>2, AnswerToRead DEF Read
<1>4. outcome' = IF served THEN Outcome("read", start, quantity, "ok", asked)
                 ELSE Outcome("read", start, quantity, "error", <<>>)
  <2>1. CASE served
    <3>1. /\ ~Refused(answer) /\ answer.fn = ReadHolding
          /\ answer.data[1] = 2 * quantity /\ ReadValues(answer, quantity) = asked
      BY <1>1, <1>2, <2>1, AnswerToRead
    <3> HIDE DEF answer, asked
    <3> QED
      BY <2>1, <3>1 DEF Read, answer
  <2>2. CASE Packs(start, quantity) /\ ~ReadInRange(start, quantity)
    <3>1. Refused(answer)
      BY <1>1, <1>2, <2>2, AnswerToRead
    <3> HIDE DEF answer, asked
    <3> QED
      BY <2>2, <3>1 DEF Read, answer
  <2>3. CASE ~Packs(start, quantity)
    <3> HIDE DEF answer, asked
    <3> QED
      BY <2>3 DEF Read, answer
  <2> QED
    BY <2>1, <2>2, <2>3
<1> HIDE DEF asked
<1>5. /\ outcome'.op = "read" /\ outcome'.a = start /\ outcome'.b = quantity
      /\ outcome'.kind = IF served THEN "ok" ELSE "error"
      /\ served => outcome'.values = asked
  BY <1>4, OutcomeFields
<1>6. FailsExactlyOutside'
  <2>1. Meaningful(outcome)' <=> served
    BY <1>5, MeaningfulRead DEF Meaningful
  <2> QED
    BY <1>5, <2>1 DEF FailsExactlyOutside
<1>7. ReadsReturnWrites'
  BY <1>1, <1>5 DEF ReadsReturnWrites, asked
<1> QED
  BY <1>1, <1>3, <1>6, <1>7 DEF AccessInvariant

LEMMA WriteKeeps ==
    ASSUME AccessInvariant, NEW register \in Int, NEW value \in Int, Write(register, value)
    PROVE  AccessInvariant'
<1> DEFINE pdu == Pdu(WriteSingle, <<register, value>>)
           answer == Answer(bank, pdu)
           served == Packs(register, value) /\ WriteInRange(register)
<1>1. bank \in Bank /\ wrote = bank
  BY DEF AccessInvariant
<1>2. Packs(register, value) => register \in Word /\ value \in Word
  BY DEF Packs
<1>3. /\ outcome' = Outcome("write", register, value, IF served THEN "ok" ELSE "error", <<>>)
      /\ bank' = IF served THEN [bank EXCEPT ![register] = value] ELSE bank
      /\ wrote' = IF served THEN [wrote EXCEPT ![register] = value] ELSE wrote
  <2>1. CASE served
    <3>1. /\ ~Refused(answer) /\ answer = pdu
          /\ After(bank, pdu) = [bank EXCEPT ![register] = value]
      BY <1>1, <1>2, <2>1, AnswerToWrite
    <3> HIDE DEF answer, pdu
    <3> QED
      BY <2>1, <3>1 DEF Write, answer, pdu
  <2>2. CASE Packs(register, value) /\ ~WriteInRange(register)
    <3>1. Refused(answer) /\ After(bank, pdu) = bank
      BY <1>1, <1>2, <2>2, AnswerToWrite
    <3> HIDE DEF answer, pdu
    <3> QED
      BY <2>2, <3>1 DEF Write, answer, pdu
  <2>3. CASE ~Packs(register, value)
    <3> HIDE DEF answer, pdu
    <3> QED
      BY <2>3 DEF Write, answer, pdu
  <2> QED
    BY <2>1, <2>2, <2>3
<1>4. /\ outcome'.op = "write" /\ outcome'.a = register /\ outcome'.b = value
      /\ outcome'.kind = IF served THEN "ok" ELSE "error"
  BY <1>3, OutcomeFields
<1>5. FailsExactlyOutside'
  <2>1. Meaningful(outcome)' <=> served
    BY <1>4, MeaningfulWrite DEF Meaningful
  <2> QED
    BY <1>4, <2>1 DEF FailsExactlyOutside
<1>6. bank' \in Bank
  BY <1>1, <1>2, <1>3 DEF Bank
<1> QED
  BY <1>1, <1>3, <1>4, <1>5, <1>6 DEF AccessInvariant, ReadsReturnWrites

(* AccessInvariant holds in every behaviour *)
THEOREM AccessInductive == Spec => []AccessInvariant
<1>1. Init => AccessInvariant
  <2> SUFFICES ASSUME Init
               PROVE  AccessInvariant
    OBVIOUS
  <2>1. outcome.op = "none"
    BY OutcomeFields DEF Init
  <2>2. bank \in Bank
    <3>1. 0..(Size - 1) \subseteq Word
      BY SizeIsNumber, WordIs
    <3> QED
      BY <3>1 DEF Init, InitialBank, Bank
  <2> QED
    BY <2>1, <2>2 DEF Init, AccessInvariant, ReadsReturnWrites, FailsExactlyOutside
<1>2. AccessInvariant /\ [Next]_vars => AccessInvariant'
  <2> SUFFICES ASSUME AccessInvariant, [Next]_vars
               PROVE  AccessInvariant'
    OBVIOUS
  <2>1. ASSUME NEW start \in Numbers, NEW quantity \in Quantities, Read(start, quantity)
        PROVE  AccessInvariant'
    BY <2>1, ReadKeeps, AccessAssumption
  <2>2. ASSUME NEW register \in Numbers, NEW value \in Values, Write(register, value)
        PROVE  AccessInvariant'
    BY <2>2, WriteKeeps, AccessAssumption
  <2>3. ASSUME UNCHANGED vars
        PROVE  AccessInvariant'
    BY <2>3 DEF vars, AccessInvariant, ReadsReturnWrites, FailsExactlyOutside, Meaningful
  <2> QED
    BY <2>1, <2>2, <2>3 DEF Next
<1> QED
  BY <1>1, <1>2, PTL DEF Spec

(* A successful read returns what the last successful writes left *)
THEOREM ReadsReturnLastWrites == Spec => []ReadsReturnWrites
<1>1. AccessInvariant => ReadsReturnWrites
  BY DEF AccessInvariant
<1> QED
  BY <1>1, AccessInductive, PTL

(* Exactly the operations that mean nothing to the bank fail *)
THEOREM OnlyMeaninglessFail == Spec => []FailsExactlyOutside
<1>1. AccessInvariant => FailsExactlyOutside
  BY DEF AccessInvariant
<1> QED
  BY <1>1, AccessInductive, PTL
=============================================================================
