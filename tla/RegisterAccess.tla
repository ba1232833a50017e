--------------------------- MODULE RegisterAccess ---------------------------
(***************************************************************************)
(* The register operations of the master (read_holding_registers and       *)
(* write_single_register) against the registers of the slave, over a link  *)
(* that answers: what the caller gets for integers of any size, also at    *)
(* the ends of the register bank and of the 16-bit words.                  *)
(***************************************************************************)
EXTENDS RegisterBank

CONSTANTS Numbers,     \* the integers a caller passes as start or register
          Quantities,  \* the quantities a caller asks for
          Values       \* the values a caller writes

ASSUME AccessAssumption == Numbers \cup Quantities \cup Values \subseteq Int

VARIABLES bank,     \* the slave's registers
          wrote,    \* history: wrote[r]: the last value a write to r reported
          outcome   \* the last operation and what its caller got

vars == <<bank, wrote, outcome>>

(* struct.pack(">HH"), or struct.error before anything is sent *)
Packs(a, b) == a \in Word /\ b \in Word

Outcome(op, a, b, kind, values) ==
    [op |-> op, a |-> a, b |-> b, kind |-> kind, values |-> values]

Refused(answer) == (answer.fn \div 128) % 2 = 1

(* The values of a read: response[2 + 2i : 4 + 2i], 0 beyond the end *)
ReadValues(answer, quantity) ==
    [i \in 1..quantity |-> IF i < Len(answer.data) THEN answer.data[i + 1] ELSE 0]

Read(start, quantity) ==
    LET pdu == Pdu(ReadHolding, <<start, quantity>>)
        answer == Answer(bank, pdu)
    IN  /\ bank' = IF Packs(start, quantity) THEN After(bank, pdu) ELSE bank
        /\ outcome' =
              IF /\ Packs(start, quantity) /\ ~Refused(answer)
                 /\ answer.fn = ReadHolding /\ answer.data[1] = 2 * quantity
              THEN Outcome("read", start, quantity, "ok", ReadValues(answer, quantity))
              ELSE Outcome("read", start, quantity, "error", <<>>)
        /\ UNCHANGED wrote

Write(register, value) ==
    LET pdu == Pdu(WriteSingle, <<register, value>>)
        answer == Answer(bank, pdu)
        ok == Packs(register, value) /\ ~Refused(answer) /\ answer = pdu
    IN  /\ bank' = IF Packs(register, value) THEN After(bank, pdu) ELSE bank
        /\ outcome' = Outcome("write", register, value, IF ok THEN "ok" ELSE "error", <<>>)
        /\ wrote' = IF ok THEN [wrote EXCEPT ![register] = value] ELSE wrote

Init ==
    /\ bank = InitialBank
    /\ wrote = InitialBank
    /\ outcome = Outcome("none", 0, 0, "ok", <<>>)

Next ==
    \/ \E start \in Numbers, quantity \in Quantities : Read(start, quantity)
    \/ \E register \in Numbers, value \in Values : Write(register, value)

Spec == Init /\ [][Next]_vars

-----------------------------------------------------------------------------
(* A read that succeeds returns, for each register asked for, what the last *)
(* successful write left there (handle_pdu with read_holding_registers).    *)
ReadsReturnWrites ==
    outcome.op = "read" /\ outcome.kind = "ok" =>
        outcome.values = [i \in 1..outcome.b |-> wrote[outcome.a + i - 1]]

(* An operation fails exactly if it names a register that does not exist, a *)
(* value that is no word, or none or more registers than fit into a PDU.    *)
Meaningful(o) ==
    IF o.op = "read"
    THEN o.b \in 1..125 /\ o.a..(o.a + o.b - 1) \subseteq 0..(Size - 1)
    ELSE o.a \in 0..(Size - 1) /\ o.b \in Word
FailsExactlyOutside ==
    outcome.op # "none" => (outcome.kind = "ok" <=> Meaningful(outcome))
=============================================================================
