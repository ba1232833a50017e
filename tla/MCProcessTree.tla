--------------------------- MODULE MCProcessTree ---------------------------
(* Instances of ProcessTree for TLC *)
EXTENDS ProcessTree

MCPreferred == [k \in Projects |-> 1 + k]
MCMaxEvents == <<4, 2>>
=============================================================================
