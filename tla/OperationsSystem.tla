--------------------------- MODULE OperationsSystem ---------------------------
(***************************************************************************)
(* The operations server and a program that follows its mode, in one       *)
(* system: the server of Operations with its events and timers in the      *)
(* place of the abstract one the client was written for, and the calls of  *)
(* the client among the callers of the server.                             *)
(*                                                                         *)
(* They meet in three places: a set_mode or stop the client proxies puts an*)
(* event into the event channel before the call returns, an announced      *)
(* update goes to the client, and the calls of a client fail until the     *)
(* server has registered its object.                                       *)
(***************************************************************************)
EXTENDS Operations, Sequences

CONSTANTS Used, Subs, Requests, Drops, MaxStream  (* see OperationsClient *)

VARIABLES
  stream, proxy, asked, fresh, called, calling, view, subs, waiting, dropped,
  unlooked   (* the subscriptions that have not looked at the view         *)

Client == INSTANCE OperationsClient WITH unseen <- unlooked

inside  == <<cell, taken, level, unseen, sleeping, firing, out, modeSignal, stopReason>>
program == <<stream, proxy, asked, fresh, called, calling, view, subs, waiting, dropped, unlooked>>
system  == <<vars, program>>

-----------------------------------------------------------------------------
SystemInit == Init /\ Client!Init

(* The event a call the server takes puts into the channel.                *)
CallEvent(k, arg) ==
  IF k = "stop" THEN SetStopped(arg)
  ELSE CASE arg \in {"Stopped", "Stopping"} -> SetStopped("manual")
         [] arg \in {"Starting", "Running"} -> Plain("SetStarting")
         [] arg = "Cleaning"    -> Plain("SetCleaning")
         [] arg = "Emergency"   -> Plain("SetEmergency")
         [] arg = "Fault"       -> Plain("SetFault")
         [] arg = "Maintenance" -> Plain("SetMaintenance")

(* The call is executed and answered.                                      *)
Call ==
  /\ Client!EndCall
  /\ IF Client!Accepts(calling, called[calling])
     THEN Send(CallEvent(calling, called[calling])) ELSE UNCHANGED cell
  /\ UNCHANGED <<machine, taken, level, unseen, firing, pending>>

(* The update signal.                                                      *)
Tell == Announce /\ Client!Announce

(* The server on its own; its inputs include other callers.                *)
ServerStep ==
  /\ \/ Input
     \/ \E s \in Levels : Callback(s)
     \/ \E k \in Timed : Wake(k) \/ Fire(k)
     \/ Take \/ Process \/ Register
  /\ UNCHANGED program

(* The client and the program it is part of.                               *)
ClientStep ==
  /\ \/ Client!Listen \/ Client!TakeUpdate
     \/ \E k \in Client!Methods : Client!BeginCall(k)
     \/ \E m \in Requests : Client!SetMode(m)
     \/ Client!Stop
     \/ \E s \in Subs : Client!Subscribe(s) \/ Client!Wait(s) \/ Client!Watch(s)
     \/ Client!Drop
  /\ UNCHANGED inside

SystemNext == ServerStep \/ ClientStep \/ Call \/ Tell

SystemSafety == SystemInit /\ [][SystemNext]_system

-----------------------------------------------------------------------------
(* To the client the server is the abstract one.                           *)
ImplementsClient == Client!Safety

(* To the server the client is one of its callers.                         *)
ImplementsServer == Safety
=============================================================================
