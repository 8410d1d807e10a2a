----------------------------- MODULE WatchCell -----------------------------
(***************************************************************************)
(* The watch channel of a signal or a slot and those who share it          *)
(* (src/src/ipc.rs, src/src/ipc/dbus.rs, src/src/ipc/opcua.rs): the program*)
(* that sends or the receive task that delivers, the D-Bus object and the  *)
(* OPC UA node that show the value, and the clients that write over it.    *)
(*                                                                         *)
(* A task that panics ends; operations and ethercat abort when one does.   *)
(***************************************************************************)
EXTENDS Integers

CONSTANTS
  Values,      (* values of the channel                                    *)
  None,        (* no value yet, or nothing written                         *)
  Deployments  (* what there is: [side : {"signal", "slot"},               *)
               (*   bridges : SUBSET Bridges, button : BOOLEAN]            *)

Bridges == {"dbus", "opcua"}

ASSUME ValuesAssumption == None \notin Values
ASSUME DeploymentsAssumption ==
  \A d \in Deployments : d.side \in {"signal", "slot"} /\ d.bridges \subseteq Bridges

VARIABLES
  deployment, (* the one of this behaviour                                 *)
  owned,      (* the Signal or Slot has not been dropped                   *)
  value,      (* in the watch channel                                      *)
  last,       (* unfiltered_last_value of the receive task                 *)
  receivers,  (* who holds a receiver of the channel                       *)
  unseen,     (* those whose task has not looked at the value              *)
  object,     (* the D-Bus object: "none", "coming" or "up"                *)
  channel,    (* what a bridge's client wrote and is not forwarded         *)
  shown,      (* what a bridge shows its clients                           *)
  dead,       (* tasks that panicked                                       *)
  overwritten (* a client wrote the node of a signal since it was shown    *)

cell     == <<value, last, receivers, unseen>>
bridge   == <<object, channel, shown, dead, overwritten>>
cellVars == <<deployment, owned, cell, bridge>>

IsSlot    == deployment.side = "slot"
Listening == receivers \ dead

Init ==
  /\ deployment \in Deployments /\ owned = TRUE
  /\ value = None /\ last = None /\ receivers = {} /\ unseen = {}
  /\ object = "none" /\ dead = {} /\ overwritten = FALSE
  /\ channel = [b \in Bridges |-> None] /\ shown = channel

(* watch::Sender::send.  A signal's monitor task always listens; without a *)
(* receiver the task that sends to a slot panics.                          *)
Sent(v, task) ==
  IF IsSlot /\ receivers = {}
  THEN dead' = dead \union {task} /\ UNCHANGED <<value, unseen>>
  ELSE value' = v /\ unseen' = Listening /\ UNCHANGED dead

-----------------------------------------------------------------------------
(* The owner.                                                              *)

(* Signal::send and async_send.                                            *)
Send(v) ==
  /\ ~IsSlot /\ owned
  /\ Sent(v, "program")
  /\ UNCHANGED <<deployment, owned, last, receivers, object, channel, shown, overwritten>>

(* A value gets past the filters of a slot.  What a client wrote is not    *)
(* what they compare with.                                                 *)
Arrive(v) ==
  /\ IsSlot /\ owned /\ "receive" \notin dead
  /\ v # last
  /\ Sent(v, "receive")
  /\ last' = IF receivers = {} THEN last ELSE v
  /\ UNCHANGED <<deployment, owned, receivers, object, channel, shown, overwritten>>

(* The channel of a signal closes; that of a slot is kept by the tasks that*)
(* forward to it, and a button shares its slot with its tasks.             *)
Drop ==
  /\ owned /\ ~deployment.button
  /\ owned' = FALSE
  /\ UNCHANGED <<deployment, cell, bridge>>

-----------------------------------------------------------------------------
(* The bridges.                                                            *)

(* Mutant: the OPC UA task waits for a change before it looks.             *)
MutExpose(b) ==
  /\ b \in deployment.bridges \ receivers /\ owned
  /\ receivers' = receivers \union {b}
  /\ object'    = IF b = "dbus" THEN "coming" ELSE object
  /\ UNCHANGED <<deployment, owned, value, last, unseen, channel, shown, dead, overwritten>>

(* register: the OPC UA task looks at the value before it waits for a      *)
(* change, the D-Bus task waits at once.                                   *)
Expose(b) ==
  /\ b \in deployment.bridges \ receivers /\ owned
  /\ receivers' = receivers \union {b}
  /\ unseen'    = IF b = "opcua" THEN unseen \union {b} ELSE unseen
  /\ object'    = IF b = "dbus" THEN "coming" ELSE object
  /\ UNCHANGED <<deployment, owned, value, last, channel, shown, dead, overwritten>>

(* object_server().at is through.                                          *)
ObjectUp ==
  /\ object = "coming"
  /\ object' = "up"
  /\ UNCHANGED <<deployment, owned, cell, channel, shown, dead, overwritten>>

(* The D-Bus signal "Value".  The task of a signal waits for its object    *)
(* before it waits for a change.                                           *)
Emit ==
  /\ "dbus" \in unseen /\ object = "up"
  /\ unseen' = unseen \ {"dbus"}
  /\ shown'  = [shown EXCEPT !["dbus"] = value]
  /\ UNCHANGED <<deployment, owned, value, last, receivers, object, channel, dead, overwritten>>

(* The task of a slot looks for its object after a change.                 *)
EmitFails ==
  /\ IsSlot /\ "dbus" \in unseen /\ object # "up"
  /\ unseen' = unseen \ {"dbus"}
  /\ dead'   = dead \union {"dbus"}
  /\ UNCHANGED <<deployment, owned, value, last, receivers, object, channel, shown, overwritten>>

(* set_value of the OPC UA node, unless there is no value.                 *)
Show ==
  /\ "opcua" \in unseen
  /\ unseen' = unseen \ {"opcua"}
  /\ IF value = None
     THEN UNCHANGED <<shown, overwritten>>
     ELSE shown' = [shown EXCEPT !["opcua"] = value] /\ overwritten' = FALSE
  /\ UNCHANGED <<deployment, owned, value, last, receivers, object, channel, dead>>

(* changed() of a closed channel fails once the last value was seen.       *)
WatchFails(b) ==
  /\ ~IsSlot /\ ~owned /\ b \in Listening \ unseen
  /\ b = "dbus" => object = "up"
  /\ dead' = dead \union {b}
  /\ UNCHANGED <<deployment, owned, cell, object, channel, shown, overwritten>>

-----------------------------------------------------------------------------
(* Clients of the bridges of a slot: tinker and the write callback.        *)

Write(b, v) ==
  /\ IsSlot /\ b \in receivers
  /\ b = "dbus" => object = "up"
  /\ channel' = [channel EXCEPT ![b] = v]
  /\ UNCHANGED <<deployment, owned, cell, object, shown, dead, overwritten>>

(* The task of channel().                                                  *)
Forward(b) ==
  /\ channel[b] # None
  /\ channel' = [channel EXCEPT ![b] = None]
  /\ Sent(channel[b], "forward")
  /\ UNCHANGED <<deployment, owned, last, receivers, object, shown, overwritten>>

(* The node of a signal is writable and nobody is told.                    *)
WriteNode(v) ==
  /\ ~IsSlot /\ "opcua" \in receivers
  /\ shown' = [shown EXCEPT !["opcua"] = v] /\ overwritten' = TRUE
  /\ UNCHANGED <<deployment, owned, cell, object, channel, dead>>

-----------------------------------------------------------------------------
Tell == ObjectUp \/ Emit \/ EmitFails \/ Show

Next ==
  \/ \E v \in Values : Send(v) \/ Arrive(v) \/ WriteNode(v)
  \/ Drop \/ Tell
  \/ \E b \in Bridges : Expose(b) \/ WatchFails(b) \/ Forward(b)
  \/ \E b \in Bridges, v \in Values : Write(b, v)

(* Tasks that can go on do.                                                *)
Fairness ==
  /\ WF_cellVars(ObjectUp) /\ WF_cellVars(Emit) /\ WF_cellVars(Show)
  /\ \A b \in Bridges : WF_cellVars(Forward(b))

-----------------------------------------------------------------------------
(* What D-Bus and OPC UA show is the value in the end, whoever wrote it, if*)
(* it stays and even if its signal is dropped, unless a client writes over *)
(* the node of a signal.  D-Bus only tells of changes: it has to be exposed*)
(* before the first, and the object of a slot to be up by then.            *)
InTime(b) ==
  b = "dbus" /\ value # None => b \in receivers /\ (IsSlot => object = "up")

ShowsLast ==
  \A b \in Bridges, v \in Values :
    []InTime(b) /\ <>(b \in receivers) /\ <>[](value = v) =>
      <>[](shown[b] = v \/ (b = "opcua" /\ overwritten))
=============================================================================
