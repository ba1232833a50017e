------------------------------ MODULE RtuFrame ------------------------------
(***************************************************************************)
(* The RTU frame and the APDU of the three profiles, on real bytes.  The   *)
(* text is protocols-ECC/secure_modbus/frame.py; the PSK and post-quantum  *)
(* files hold copies of its CRC and RTU frame.                             *)
(*                                                                         *)
(* A name that ends in an underscore and a capitalised word belongs to a   *)
(* variant, with a plausible bug, of the definition named before that      *)
(* underscore; no specification uses it.                                   *)
(***************************************************************************)
EXTENDS Naturals, Sequences, SequencesExt

Byte == 0..255

BigEndian(n) == <<n \div 256, n % 256>>
LittleEndian(n) == <<n % 256, n \div 256>>

(* The outcome of a parser that raised ProtocolError *)
ProtocolError == [raised |-> TRUE]

(* n ^ (1 << bit), and a ^ byte *)
HasBit(n, bit) == (n \div 2^bit) % 2 = 1
Flip(n, bit) == IF HasBit(n, bit) THEN n - 2^bit ELSE n + 2^bit
XorByte(n, byte) ==
    FoldLeft(LAMBDA word, bit : IF HasBit(byte, bit) THEN Flip(word, bit) ELSE word,
             n, <<0, 1, 2, 3, 4, 5, 6, 7>>)

(* 0xA001 has the bits 0, 13 and 15 *)
ShiftOut(crc) ==
    IF HasBit(crc, 0) THEN FoldLeft(Flip, crc \div 2, <<0, 13, 15>>) ELSE crc \div 2
crc16_modbus(data) ==
    LET shifted[crc \in 0..65535, bits \in 0..8] ==
            IF bits = 0 THEN crc ELSE shifted[ShiftOut(crc), bits - 1]
        over[n \in 0..Len(data)] ==
            IF n = 0 THEN 65535 ELSE shifted[XorByte(over[n - 1], data[n]), 8]
    IN  over[Len(data)]

build_rtu_frame(address, function_code, payload) ==
    LET body == <<address, function_code>> \o payload
    IN  body \o LittleEndian(crc16_modbus(body))

parse_rtu_frame_LowByte(frame) ==
    LET body == SubSeq(frame, 1, Len(frame) - 2)
    IN  IF Len(frame) < 4 \/ frame[Len(frame) - 1] # crc16_modbus(body) % 256
        THEN ProtocolError
        ELSE [address |-> body[1], function |-> body[2], payload |-> SubSeq(body, 3, Len(body))]
parse_rtu_frame(frame) ==
    LET body == SubSeq(frame, 1, Len(frame) - 2)
    IN  IF Len(frame) < 4 \/ SubSeq(frame, Len(frame) - 1, Len(frame))
                               # LittleEndian(crc16_modbus(body))
        THEN ProtocolError
        ELSE [address |-> body[1], function |-> body[2], payload |-> SubSeq(body, 3, Len(body))]

build_apdu(tag, payload) == <<tag>> \o BigEndian(Len(payload)) \o payload
parse_apdu(data) ==
    IF Len(data) < 3 \/ SubSeq(data, 2, 3) # BigEndian(Len(data) - 3) THEN ProtocolError
    ELSE [tag |-> data[1], payload |-> SubSeq(data, 4, Len(data))]

(* send_secure_apdu and recv_secure_apdu without the reads and writes *)
SECURE_FUNCTION_CODE == 0
SecureFrame(m) ==
    build_rtu_frame(m.address, SECURE_FUNCTION_CODE, build_apdu(m.tag, m.payload))

Received_WithoutLength(bytes, expected_address) ==
    LET rtu == parse_rtu_frame(bytes)
    IN  IF rtu = ProtocolError \/ rtu.address # expected_address \/ Len(rtu.payload) < 3
        THEN ProtocolError
        ELSE [address |-> rtu.address, tag |-> rtu.payload[1],
              payload |-> SubSeq(rtu.payload, 4, Len(rtu.payload))]
Received(bytes, expected_address) ==
    LET rtu == parse_rtu_frame(bytes)
        apdu == parse_apdu(rtu.payload)
    IN  IF \/ rtu = ProtocolError
           \/ rtu.address # expected_address \/ rtu.function # SECURE_FUNCTION_CODE
           \/ apdu = ProtocolError
        THEN ProtocolError
        ELSE [address |-> rtu.address, tag |-> apdu.tag, payload |-> apdu.payload]
=============================================================================
