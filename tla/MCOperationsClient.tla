------------------------- MODULE MCOperationsClient -------------------------
(* A machine that is stopped or in an emergency, and a program that waits  *)
(* for the emergency and asks for two modes.                               *)
EXTENDS OperationsClient

FewModes  == {"Stopped", "Emergency"}
EntryOnly == {[on |-> "entry", mode |-> "Emergency"]}
Commands  == {"Running", "Stopped"}
=============================================================================
