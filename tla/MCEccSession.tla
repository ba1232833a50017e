---------------------------- MODULE MCEccSession ----------------------------
(* Instances of EccSession for TLC *)
EXTENDS EccSession, TLC

(* The device id of a slave is its name *)
MCSlaveId == [s \in Slaves |-> s]
(* The slaves are interchangeable *)
MCSymmetry == Permutations(Slaves)
=============================================================================
