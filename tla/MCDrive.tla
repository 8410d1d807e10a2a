------------------------------ MODULE MCDrive ------------------------------
(* Standstill and both directions, starting from a configured ratio, and   *)
(* drives of both kinds of reset.                                          *)
EXTENDS Drive

CONSTANT none

Reverse == {-100, 0}
=============================================================================
