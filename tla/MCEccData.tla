----------------------------- MODULE MCEccData -----------------------------
(* Instances of EccData for TLC *)
EXTENDS EccData, TLC

(* A write of register 0 and a read of all registers tell every order of    *)
(* the calls apart                                                         *)
MCPdus == {Pdu(WriteSingle, <<0, 7>>), Pdu(ReadHolding, <<0, Size>>)}
MCOnePdu == {Pdu(WriteSingle, <<0, 7>>)}
Symmetry == Permutations(Threads)
=============================================================================
