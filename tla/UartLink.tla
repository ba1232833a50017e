------------------------------ MODULE UartLink ------------------------------
(***************************************************************************)
(* One direction of the UART, byte by byte: the sender hands frames to     *)
(* writeUART, bytes arrive one after the other, the receiver collects them *)
(* with readUART, first a two-byte length and then as many bytes as it     *)
(* says, and parses what it has.  send_packet writes the length in front   *)
(* of the frame (Prefixed), as send_record of the other two profiles does; *)
(* send_secure_apdu, as it stands, writes the frame alone.                 *)
(*                                                                         *)
(* After an error the receiver starts over with the bytes that are still   *)
(* to come: nothing in the code looks for the start of a record.           *)
(*                                                                         *)
(* A name that ends in an underscore and a capitalised word belongs to a   *)
(* variant, with a plausible bug, of the definition named before that      *)
(* underscore; no specification uses it.                                   *)
(***************************************************************************)
EXTENDS RtuFrame

CONSTANTS Prefixed,    \* the sender writes the length
          Messages,    \* what the sender sends: [address, tag, payload]
          Address,     \* the address the receiver expects
          MaxFaults,   \* bound: bytes lost or changed, reads given up early
          MaxBurst     \* bound: bits a burst spans

ASSUME UartAssumption ==
    /\ Prefixed \in BOOLEAN /\ MaxFaults \in Nat /\ MaxBurst \in Nat
    /\ Address \in 1..247
    /\ Messages \in Seq([address : {Address}, tag : Byte, payload : Seq(Byte)])

(* send_packet and send_record raise ValueError for a longer frame *)
ASSUME FramesFit == \A i \in DOMAIN Messages : Len(SecureFrame(Messages[i])) <= 65535

VARIABLES written,  \* messages written
          wire,     \* bytes under way
          buffer,   \* bytes in the receive buffer
          part,     \* recv_exact: bytes collected
          want,     \* recv_exact: bytes still to read
          reading,  \* recv_packet is at the "length" or the "frame"
          received, \* messages accepted
          errors,   \* ProtocolErrors raised
          faults    \* faults so far

vars == <<written, wire, buffer, part, want, reading, received, errors, faults>>

Record_LittleEndian(m) ==
    IF Prefixed THEN LittleEndian(Len(SecureFrame(m))) \o SecureFrame(m)
                ELSE SecureFrame(m)
Record(m) ==
    IF Prefixed THEN BigEndian(Len(SecureFrame(m))) \o SecureFrame(m)
                ELSE SecureFrame(m)

Init ==
    /\ written = 0 /\ wire = <<>> /\ buffer = <<>>
    /\ part = <<>> /\ want = 2 /\ reading = "length"
    /\ received = <<>> /\ errors = 0 /\ faults = 0

(* send_packet, send_secure_apdu *)
Write ==
    /\ written < Len(Messages)
    /\ written' = written + 1
    /\ wire' = wire \o Record(Messages[written + 1])
    /\ UNCHANGED <<buffer, part, want, reading, received, errors, faults>>

(* Some bytes reach the buffer *)
Arrive ==
    /\ \E n \in 1..Len(wire) :
        /\ buffer' = buffer \o SubSeq(wire, 1, n)
        /\ wire' = SubSeq(wire, n + 1, Len(wire))
    /\ UNCHANGED <<written, part, want, reading, received, errors, faults>>

StartOver == part' = <<>> /\ want' = 2 /\ reading' = "length"

(* readUART returns at most the bytes asked for; chunks are joined until    *)
(* nothing remains to read                                                  *)
Chunk == LET n == IF Len(buffer) < want THEN Len(buffer) ELSE want IN SubSeq(buffer, 1, n)
Collected == part \o Chunk
Complete == Len(Chunk) = want

(* The two bytes of the length are there: read as many more.  A length of   *)
(* zero reads nothing, and the empty frame is too short.                    *)
LengthOf(bytes) == 256 * bytes[1] + bytes[2]

ReadMore ==
    /\ buffer # <<>> /\ ~Complete
    /\ part' = Collected /\ want' = want - Len(Chunk) /\ buffer' = <<>>
    /\ UNCHANGED <<written, wire, reading, received, errors, faults>>

ReadLength ==
    /\ buffer # <<>> /\ Complete /\ reading = "length"
    /\ buffer' = SubSeq(buffer, want + 1, Len(buffer))
    /\ IF LengthOf(Collected) = 0
       THEN StartOver /\ errors' = errors + 1
       ELSE /\ part' = <<>> /\ want' = LengthOf(Collected) /\ reading' = "frame"
            /\ UNCHANGED errors
    /\ UNCHANGED <<written, wire, received, faults>>

ReadFrame ==
    /\ buffer # <<>> /\ Complete /\ reading = "frame"
    /\ buffer' = SubSeq(buffer, want + 1, Len(buffer))
    /\ StartOver
    /\ IF Received(Collected, Address) = ProtocolError
       THEN errors' = errors + 1 /\ UNCHANGED received
       ELSE received' = Append(received, Received(Collected, Address)) /\ UNCHANGED errors
    /\ UNCHANGED <<written, wire, faults>>

(* readUART returns nothing, and what was collected is dropped.  In vain:   *)
(* the sender has written all it has to say.                                *)
GiveUpInVain ==
    /\ wire = <<>> /\ buffer = <<>> /\ written = Len(Messages)
    /\ reading = "frame" \/ part # <<>>
    /\ StartOver
    /\ errors' = errors + 1
    /\ UNCHANGED <<written, wire, buffer, received, faults>>

(* Too early: the rest of the record is still to come *)
GiveUpEarly ==
    /\ buffer = <<>> /\ (wire # <<>> \/ written < Len(Messages))
    /\ faults < MaxFaults /\ faults' = faults + 1
    /\ StartOver
    /\ errors' = errors + 1
    /\ UNCHANGED <<written, wire, buffer, received>>

Noise ==
    /\ faults < MaxFaults /\ faults' = faults + 1
    /\ \E i \in DOMAIN wire :
        \/ wire' = RemoveAt(wire, i)
        \/ \E bit \in 0..7 : wire' = ReplaceAt(wire, i, Flip(wire[i], bit))
    /\ UNCHANGED <<written, buffer, part, want, reading, received, errors>>

(* Bits of a sequence of bytes, in the order of transmission: the least      *)
(* significant bit of a byte first                                          *)
Bits(bytes) == 0..(8 * Len(bytes) - 1)
Flipped(bytes, bits) ==
    [i \in DOMAIN bytes |->
        FoldLeft(LAMBDA byte, k : IF 8 * (i - 1) + k \in bits THEN Flip(byte, k) ELSE byte,
                 bytes[i], <<0, 1, 2, 3, 4, 5, 6, 7>>)]

(* More noise than a byte: a burst, which flips its first and last bit and   *)
(* every or no bit between, any two bits, or a run of bytes lost.  Bound:   *)
(* it is the only fault, and what it leaves of all messages arrives at once *)
Damage ==
    /\ faults = 0 /\ MaxFaults > 0 /\ faults' = MaxFaults
    /\ written = Len(Messages) /\ received = <<>>
    /\ reading = "length" /\ part = <<>> /\ buffer = <<>>
    /\ \/ \E first, last \in Bits(wire), full \in BOOLEAN :
            /\ first <= last /\ last < first + MaxBurst
            /\ buffer' = Flipped(wire, IF full THEN first..last ELSE {first, last})
       \/ \E a, b \in Bits(wire) : a < b /\ buffer' = Flipped(wire, {a, b})
       \/ \E first, last \in DOMAIN wire :
            /\ first <= last
            /\ buffer' = SubSeq(wire, 1, first - 1) \o SubSeq(wire, last + 1, Len(wire))
    /\ wire' = <<>>
    /\ UNCHANGED <<written, part, want, reading, received, errors>>

Next == Write \/ Arrive \/ ReadMore \/ ReadLength \/ ReadFrame
        \/ GiveUpInVain \/ GiveUpEarly \/ Noise \/ Damage
Spec == Init /\ [][Next]_vars

-----------------------------------------------------------------------------
(* AcceptedWereSent (frame.py:24-56, 65-82): whatever bytes are lost or      *)
(* changed, by one error or by a burst of up to MaxBurst bits, and wherever *)
(* the receiver starts over in the middle of a record, the frames it        *)
(* accepts are some of those that were sent, in their order.  The length *)
(* in front of a record is not under the CRC, and a CRC over one byte less  *)
(* can match: then it is the length in the APDU that tells.                 *)
AcceptedWereSent ==
    \E at \in [DOMAIN received -> 1..written] :
        /\ \A i \in DOMAIN received : received[i] = Messages[at[i]]
        /\ \A i, j \in DOMAIN received : i < j => at[i] < at[j]

(* EveryFrameArrives: README.md:8 (protocols-ECC) says that every frame is  *)
(* read from and sent through UART.  On a line without faults the receiver  *)
(* raises no error, and has every frame once the line has nothing more for  *)
(* it.                                                                      *)
EveryFrameArrives ==
    faults = 0 =>
        /\ errors = 0
        /\ wire = <<>> /\ buffer = <<>> => received = SubSeq(Messages, 1, written)
=============================================================================
