------------------------------ MODULE MCButton ------------------------------
(* A signal and a slot with both bridges, a button on its own and one on a *)
(* slot that OPC UA shows.                                                 *)
EXTENDS Button

Both == {"dbus", "opcua"}
FourDeployments ==
  {[side |-> s, bridges |-> Both, button |-> FALSE] : s \in {"signal", "slot"}}
    \union {[side |-> "slot", bridges |-> b, button |-> TRUE] : b \in {{}, {"opcua"}}}
=============================================================================
