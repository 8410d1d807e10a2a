----------------------------- MODULE ModeMachine -----------------------------
(***************************************************************************)
(* What the operations server promises to everything around it, with no    *)
(* events, timers or inputs: the operation mode moves along the arrows of  *)
(* the mode graph, each move replaces the one pending update, and the      *)
(* pending update is announced on D-Bus later.  The pending update is a    *)
(* single cell (a tokio watch channel), so moves made before it is         *)
(* announced leave no trace of their own.                                  *)
(***************************************************************************)

VARIABLES
  mode,       (* state of the machine; "Init" before the first event      *)
  update,     (* last OperationsUpdate stored in the watch channel        *)
  pending     (* TRUE while that update has not been announced            *)

vars == <<mode, update, pending>>

-----------------------------------------------------------------------------
(* The nine states of the machine; the eight that drive an output signal.  *)
Outputs == {"Stopped", "Starting", "Running", "Stopping", "Cleaning",
            "Emergency", "Fault", "Maintenance"}
Modes   == Outputs \union {"Init"}

(* OperationMode::from: Init is reported as Unknown, the others as such.   *)
ReportedModes == Outputs \union {"Unknown"}
Reported(m) == IF m = "Init" THEN "Unknown" ELSE m

Updates == [old : ReportedModes, new : ReportedModes]

(* The arrows of the mode graph.  Emergency can be entered from every      *)
(* state, itself included.                                                 *)
Edge(from, to) ==
  \/ to = "Emergency"
  \/ from = "Init"     /\ to = "Stopped"
  \/ from = "Stopped"  /\ to \in {"Starting", "Cleaning", "Fault", "Maintenance"}
  \/ from = "Starting" /\ to \in {"Running", "Stopped"}
  \/ from = "Running"  /\ to \in {"Stopping", "Fault"}
  \/ from = "Emergency" /\ to = "Fault"
  \/ from \in {"Stopping", "Cleaning", "Emergency", "Fault", "Maintenance"}
       /\ to = "Stopped"

-----------------------------------------------------------------------------
Init ==
  /\ mode    = "Init"
  /\ update  = [old |-> "Unknown", new |-> "Unknown"]
  /\ pending = FALSE

Move(to) ==
  /\ Edge(mode, to)
  /\ mode'    = to
  /\ update'  = [old |-> Reported(mode), new |-> Reported(to)]
  /\ pending' = TRUE

Announce ==
  /\ pending
  /\ pending' = FALSE
  /\ UNCHANGED <<mode, update>>

Next ==
  \/ \E to \in Modes : Move(to)
  \/ Announce

Safety == Init /\ [][Next]_vars
Spec   == Safety /\ WF_vars(Announce)
==============================================================================
