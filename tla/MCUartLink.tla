----------------------------- MODULE MCUartLink -----------------------------
(* Instances of UartLink for TLC *)
EXTENDS UartLink

Message(tag, payload) == [address |-> 1, tag |-> tag, payload |-> payload]

(* The last byte of the second payload makes the CRC match one byte early:  *)
(* it is the low byte of the CRC of what is before it.                      *)
MCMessages == <<Message(1, <<>>), Message(3, <<1, 193>>)>>
=============================================================================
