----------------------------- MODULE SerialLine -----------------------------
(***************************************************************************)
(* The serial line between one master and one slave as the PSK and the     *)
(* post-quantum profiles use it: send_record hands a record to the UART,   *)
(* recv_record takes the next one out of the receive buffer.  line[e] is   *)
(* what was sent to end e and not read yet.  The buffer belongs to the     *)
(* port, not to the program: what a program left in it may still be there  *)
(* when the next one starts.                                               *)
(*                                                                         *)
(* A record is [addr, tag, send]: slave address, APDU tag, and the items   *)
(* of the DATA payload (or of the ciphertext).  Damage to the bytes of a   *)
(* record is found by the CRC or the length checks of the receiver.        *)
(***************************************************************************)
EXTENDS Naturals, Sequences, SequencesExt

Ends == {"master", "slave"}
NoItems == [x \in {} |-> 0]
Apdu(addr, tag, send) == [addr |-> addr, tag |-> tag, send |-> send]
Garbled == Apdu(0, "garbled", NoItems)

QuietLine == [e \in Ends |-> <<>>]
Sent(line, to, record) == [line EXCEPT ![to] = Append(@, record)]
Taken(line, at) == [line EXCEPT ![at] = Tail(@)]

(* A program that opens the port finds its buffer as it was, or emptied *)
OpenedPort(line, at) == {line, [line EXCEPT ![at] = <<>>]}

(* Noise: one record is lost or damaged *)
Lost(line, e, i) == [line EXCEPT ![e] = RemoveAt(@, i)]
Damaged(line, e, i) == [line EXCEPT ![e] = ReplaceAt(@, i, Garbled)]
Disturbed(line) ==
    UNION {UNION {{Lost(line, e, i), Damaged(line, e, i)} : i \in DOMAIN line[e]} : e \in Ends}

Has(record, types) == types \subseteq DOMAIN record.send
=============================================================================
