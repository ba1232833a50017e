---------------------------- MODULE RegisterBank ----------------------------
(***************************************************************************)
(* The holding registers of the section 6.2 slave and the function codes   *)
(* it serves (RegisterBank.handle_pdu).                                    *)
(*                                                                         *)
(* A PDU is its function code and the 16-bit words of its data; odd bytes  *)
(* only matter as "not four bytes", which Len(data) # 2 stands for.        *)
(*                                                                         *)
(* A definition with an underscore in its name is the one before the       *)
(* underscore with a plausible bug; no specification uses it.  Replacing   *)
(* the original by it shows that a property can fail.                      *)
(***************************************************************************)
EXTENDS Integers, Sequences

CONSTANT Size     \* number of registers, 128 in the code

MaxWord == 65535
Word == 0..MaxWord

ASSUME SizeAssumption == Size \in 1..(MaxWord + 1)

ReadHolding == 3
WriteSingle == 6
IllegalFunction == 1
IllegalAddress == 2

Bank == [0..(Size - 1) -> Word]
InitialBank == [r \in 0..(Size - 1) |-> r]

Pdu(fn, data) == [fn |-> fn, data |-> data]

(* function | 0x80 *)
Exception(fn, code) ==
    Pdu(IF (fn \div 128) % 2 = 1 THEN fn ELSE fn + 128, <<code>>)

(* handle_pdu raises ProtocolError, which ends the connection *)
Malformed(pdu) == pdu.fn \in {ReadHolding, WriteSingle} /\ Len(pdu.data) # 2

ReadInRange_Inclusive(start, quantity) ==
    ~(quantity < 1 \/ quantity > 125 \/ start + quantity >= Size)
ReadInRange(start, quantity) ==
    ~(quantity < 1 \/ quantity > 125 \/ start + quantity > Size)
WriteInRange(register) == ~(register >= Size)

Writes(pdu) == pdu.fn = WriteSingle /\ WriteInRange(pdu.data[1])

(* registers[start : stop]: a slice that reaches beyond the end is shorter *)
Slice(registers, start, stop) ==
    [i \in 1..((IF stop > Size THEN Size ELSE stop) - start)
        |-> registers[start + i - 1] % 65536]

(* The registers after pdu, and its answer, for a pdu that is not malformed *)
After_OneBased(registers, pdu) ==
    IF Writes(pdu) THEN [registers EXCEPT ![pdu.data[1] - 1] = pdu.data[2]] ELSE registers
After(registers, pdu) ==
    IF Writes(pdu) THEN [registers EXCEPT ![pdu.data[1]] = pdu.data[2]] ELSE registers

Answer(registers, pdu) ==
    CASE pdu.fn = ReadHolding ->
            IF ReadInRange(pdu.data[1], pdu.data[2])
            THEN Pdu(ReadHolding,
                     <<2 * pdu.data[2]>>
                     \o Slice(registers, pdu.data[1], pdu.data[1] + pdu.data[2]))
            ELSE Exception(pdu.fn, IllegalAddress)
      [] pdu.fn = WriteSingle ->
            IF WriteInRange(pdu.data[1]) THEN pdu ELSE Exception(pdu.fn, IllegalAddress)
      [] OTHER -> Exception(pdu.fn, IllegalFunction)
=============================================================================
