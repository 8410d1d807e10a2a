----------------------------- MODULE MCOperations -----------------------------
(* Deployments of the operations server: which inputs are wired up.        *)
EXTENDS Operations

(* set_mode asks for the modes of the other two buttons as well.           *)
Line == {"run_button", "emergency_in", "fault_in", "set_mode", "stop_with_reason"}

StartOnly       == {"run_button", "starting_finished", "stop_with_reason"}
RunAndEmergency == {"run_button", "emergency_in"}
===============================================================================
