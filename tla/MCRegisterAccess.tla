-------------------------- MODULE MCRegisterAccess --------------------------
(* The boundaries of RegisterAccess for TLC *)
EXTENDS RegisterAccess

MCNumbers == {-1, 0, 3, 4, 127, 128, 65535, 65536}
MCQuantities == {-1, 0, 1, 2, 124, 125, 126, 128, 65535, 65536}
MCValues == {-1, 7, 65535, 65536}
=============================================================================
