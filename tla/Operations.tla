------------------------------ MODULE Operations ------------------------------
(***************************************************************************)
(* The operations server (tfc-exes/operations/src/operations/server.rs and *)
(* dbus_service.rs): a state machine of operation modes, driven by events  *)
(* that reach it through one tokio watch channel.  A watch channel holds   *)
(* one value; a send replaces a value nobody has taken yet.                *)
(*                                                                         *)
(* Processes: the tasks that call back on the seven input slots, the D-Bus *)
(* executor that runs set_mode and stop_with_reason, the tasks that sleep  *)
(* through the start and stop delays, the event task and the D-Bus task.   *)
(***************************************************************************)
EXTENDS Integers

CONSTANTS
  Sources,    (* the inputs that are wired up and used in this deployment  *)
  Reasons,    (* reasons callers pass to stop_with_reason                  *)
  Delays,     (* what the configuration may say when a delay is read:      *)
              (* TRUE is Some(time), FALSE is None                         *)
  MaxFiring   (* bound: timer tasks of one kind past their sleep that have *)
              (* not sent yet                                              *)

Buttons   == {"run_button", "cleaning_button", "maintenance_button",
              "starting_finished", "stopping_finished"}
Levels    == {"emergency_in", "fault_in"}
DBusCalls == {"set_mode", "stop_with_reason"}

ASSUME SourcesAssumption == Sources \subseteq Buttons \union Levels \union DBusCalls
ASSUME DelaysAssumption  == Delays \subseteq BOOLEAN /\ Delays # {}
ASSUME FiringAssumption  == MaxFiring \in Nat

VARIABLES
  mode,        (* state of the machine                                     *)
  cell,        (* the event waiting in sm_event, NoEvent once it was taken *)
  taken,       (* the event the event task has cloned and not processed    *)
  level,       (* last value in the watch of each level input slot         *)
  unseen,      (* level inputs whose value has not been called back        *)
  sleeping,    (* [Timed -> BOOLEAN] the timer task held by the handle     *)
  firing,      (* [Timed -> Nat] timer tasks past their sleep, before send *)
  out,         (* [Outputs -> BOOLEAN] the eight mode signals              *)
  modeSignal,  (* the signal "mode"                                        *)
  stopReason,  (* the signal "stop_reason"                                 *)
  update,      (* last value of the mode_update watch                      *)
  pending,     (* TRUE while the D-Bus task has not taken it               *)
  serving      (* TRUE once the D-Bus object is registered                 *)

machine == <<mode, out, modeSignal, stopReason, update, sleeping>>
vars == <<mode, cell, taken, level, unseen, sleeping, firing, out, modeSignal,
          stopReason, update, pending, serving>>

MM == INSTANCE ModeMachine WITH mode <- mode, update <- update, pending <- pending

Outputs == MM!Outputs
Modes   == MM!Modes
Timed   == {"Starting", "Stopping"}

-----------------------------------------------------------------------------
(* Events.  SetStopped carries the reason; the others carry none.          *)
Plain(t)      == [type |-> t, reason |-> ""]
SetStopped(r) == [type |-> "SetStopped", reason |-> r]
NoEvent       == Plain("none")
Timeout       == [k \in Timed |-> Plain(IF k = "Starting" THEN "StartingTimeout"
                                                         ELSE "StoppingTimeout")]

AllReasons == Reasons \union {"init", "manual", ""}
EventTypes == {"SetStopped", "SetStarting", "SetCleaning", "SetEmergency",
               "SetFault", "SetMaintenance", "RunButton", "CleaningButton",
               "MaintenanceButton", "StartingFinished", "StoppingFinished",
               "StartingTimeout", "StoppingTimeout", "EmergencyOn",
               "EmergencyOff", "FaultOn", "FaultOff"}
Events == [type : EventTypes, reason : AllReasons]

(* The event each button slot sends when its value is true.                *)
ButtonEvent ==
  [b \in Buttons |->
     Plain(CASE b = "run_button"         -> "RunButton"
             [] b = "cleaning_button"    -> "CleaningButton"
             [] b = "maintenance_button" -> "MaintenanceButton"
             [] b = "starting_finished"  -> "StartingFinished"
             [] b = "stopping_finished"  -> "StoppingFinished")]

(* The event a level slot sends for its value.                             *)
LevelEvent(s, v) ==
  Plain(IF s = "emergency_in" THEN IF v THEN "EmergencyOn" ELSE "EmergencyOff"
                              ELSE IF v THEN "FaultOn"     ELSE "FaultOff")

(* The events set_mode can produce; every other name is refused.           *)
SetModeEvents ==
  {SetStopped("manual")} \union
  {Plain(t) : t \in {"SetStarting", "SetCleaning", "SetEmergency", "SetFault",
                     "SetMaintenance"}}

(* Mutant: the run button is ignored in Starting.                          *)
MutRunButtonIgnored(e, to) ==
  \/ e \in {"StartingTimeout", "StartingFinished"} /\ to = "Running"
  \/ e = "SetStopped"                              /\ to = "Stopped"

(* Mutant: Starting is stopped by way of Stopping.                         *)
MutThroughStopping(e, to) ==
  \/ e \in {"StartingTimeout", "StartingFinished"} /\ to = "Running"
  \/ e \in {"RunButton", "SetStopped"}             /\ to = "Stopping"

(* The statemachine! table: event e moves the machine from one state to    *)
(* another, given what is_fault reads.  Anything else is InvalidEvent.     *)
(* The rows of Starting have an operator of their own.                     *)
FromStarting(e, to) ==
  \/ e \in {"StartingTimeout", "StartingFinished"} /\ to = "Running"
  \/ e \in {"RunButton", "SetStopped"}             /\ to = "Stopped"

Transition(from, e, isFault, to) ==
  \/ from = "Init"     /\ e = "SetStopped"                              /\ to = "Stopped"
  \/ from = "Stopped"  /\ e \in {"SetStarting", "RunButton"}            /\ to = "Starting"
  \/ from = "Starting" /\ FromStarting(e, to)
  \/ from = "Running"  /\ e \in {"RunButton", "SetStopped"}             /\ to = "Stopping"
  \/ from = "Stopping" /\ e \in {"StoppingTimeout", "StoppingFinished"} /\ to = "Stopped"
  \/ from = "Stopped"  /\ e \in {"CleaningButton", "SetCleaning"}       /\ to = "Cleaning"
  \/ from = "Cleaning" /\ e \in {"CleaningButton", "SetStopped"}        /\ to = "Stopped"
  \/ e \in {"SetEmergency", "EmergencyOn"}                              /\ to = "Emergency"
  \/ from = "Emergency" /\ e = "EmergencyOff" /\ ~isFault               /\ to = "Stopped"
  \/ from = "Emergency" /\ e = "EmergencyOff" /\ isFault                /\ to = "Fault"
  \/ from \in {"Stopped", "Running"} /\ e \in {"FaultOn", "SetFault"}   /\ to = "Fault"
  \/ from = "Fault"    /\ e = "FaultOff"                                /\ to = "Stopped"
  \/ from = "Stopped"  /\ e \in {"MaintenanceButton", "SetMaintenance"} /\ to = "Maintenance"
  \/ from = "Maintenance" /\ e \in {"MaintenanceButton", "SetStopped"}  /\ to = "Stopped"

-----------------------------------------------------------------------------
(* The constructor has sent the first values and SetStopped("init"), the   *)
(* tasks have been spawned and none has run.                               *)
Init ==
  /\ mode       = "Init"
  /\ cell       = SetStopped("init")
  /\ taken      = NoEvent
  /\ level      = [s \in Levels |-> FALSE]
  /\ unseen     = {}
  /\ sleeping   = [k \in Timed |-> FALSE]
  /\ firing     = [k \in Timed |-> 0]
  /\ out        = [m \in Outputs |-> FALSE]
  /\ modeSignal = "Unknown"
  /\ stopReason = ""
  /\ update     = [old |-> "Unknown", new |-> "Unknown"]
  /\ pending    = FALSE
  /\ serving    = FALSE

(* watch::Sender::send on the event channel.                               *)
Send(e) == cell' = e

-----------------------------------------------------------------------------
(* Inputs.                                                                 *)

(* A true value of a button slot is called back.  Nothing else reads these *)
(* slots and a false value changes nothing.                                *)
Press(b) ==
  /\ b \in Sources
  /\ Send(ButtonEvent[b])
  /\ UNCHANGED <<machine, taken, level, unseen, firing, pending, serving>>

(* Mutant: the callback is woken for true values only.                     *)
MutReceive(s, v) ==
  /\ s \in Sources
  /\ level'  = [level EXCEPT ![s] = v]
  /\ unseen' = IF v THEN unseen \union {s} ELSE unseen
  /\ UNCHANGED <<machine, cell, taken, firing, pending, serving>>

(* The receive task of a level slot stores a value; is_fault sees it now.  *)
Receive(s, v) ==
  /\ s \in Sources
  /\ level'  = [level EXCEPT ![s] = v]
  /\ unseen' = unseen \union {s}
  /\ UNCHANGED <<machine, cell, taken, firing, pending, serving>>

(* The callback task of the slot runs on the latest value.                 *)
Callback(s) ==
  /\ s \in unseen
  /\ unseen' = unseen \ {s}
  /\ Send(LevelEvent(s, level[s]))
  /\ UNCHANGED <<machine, taken, level, firing, pending, serving>>

SetMode(e) ==
  /\ "set_mode" \in Sources /\ serving
  /\ Send(e)
  /\ UNCHANGED <<machine, taken, level, unseen, firing, pending, serving>>

StopWithReason(r) ==
  /\ "stop_with_reason" \in Sources /\ serving
  /\ Send(SetStopped(r))
  /\ UNCHANGED <<machine, taken, level, unseen, firing, pending, serving>>

-----------------------------------------------------------------------------
(* Timers.  A timer task is held by its handle while it sleeps.  Once its  *)
(* sleep is over it is being polled: an abort no longer stops its send.    *)

Wake(k) ==
  /\ sleeping[k] /\ firing[k] < MaxFiring
  /\ sleeping' = [sleeping EXCEPT ![k] = FALSE]
  /\ firing'   = [firing EXCEPT ![k] = @ + 1]
  /\ UNCHANGED <<mode, cell, taken, level, unseen, out, modeSignal, stopReason,
                 update, pending, serving>>

Fire(k) ==
  /\ firing[k] > 0
  /\ firing' = [firing EXCEPT ![k] = @ - 1]
  /\ Send(Timeout[k])
  /\ UNCHANGED <<machine, taken, level, unseen, pending, serving>>

-----------------------------------------------------------------------------
(* The event task.                                                         *)

(* changed() and borrow_and_update().clone(): the latest event is taken.   *)
Take ==
  /\ taken = NoEvent
  /\ cell # NoEvent
  /\ taken' = cell
  /\ cell'  = NoEvent
  /\ UNCHANGED <<machine, level, unseen, firing, pending, serving>>

(* Mutant: on_exit_* leaves the signal of the old mode up.                 *)
MutSignalsAfter(to) == [m \in Outputs |-> IF m = to THEN TRUE ELSE out[m]]

(* on_exit_*: the signal of the old mode drops and its timer is aborted.   *)
(* on_entry_*: the signal of the new mode rises and its delay starts; with *)
(* no delay configured the timeout is sent at once (see Accept).           *)
SignalsAfter(to) ==
  [m \in Outputs |-> IF m = to THEN TRUE ELSE IF m = mode THEN FALSE ELSE out[m]]

(* Mutant: on_exit_* does not abort the timer.                             *)
MutTimersAfter(to, delayed) ==
  [k \in Timed |-> IF k = to THEN delayed ELSE sleeping[k]]

TimersAfter(to, delayed) ==
  [k \in Timed |-> IF k = to   THEN delayed
              ELSE IF k = mode THEN FALSE ELSE sleeping[k]]

(* Mutant: only on_exit_stopped clears the reason.                         *)
MutReasonAfter ==
  IF taken.type = "SetStopped" THEN taken.reason
  ELSE IF mode = "Stopped" THEN "" ELSE stopReason

(* on_exit_stopped clears the reason and the event task then sets it to    *)
(* that of the event.                                                      *)
ReasonAfter == IF taken.type = "SetStopped" THEN taken.reason ELSE ""

(* process_event for an event the table accepts, transition() and          *)
(* update_stop_reason included, all under the machine's lock.              *)
Accept(to) ==
  /\ Transition(mode, taken.type, level["fault_in"], to)
  /\ \E delayed \in Delays :
       /\ sleeping' = TimersAfter(to, delayed)
       /\ IF to \in Timed /\ ~delayed THEN Send(Timeout[to]) ELSE UNCHANGED cell
  /\ mode'       = to
  /\ out'        = SignalsAfter(to)
  /\ modeSignal' = MM!Reported(to)
  /\ update'     = [old |-> MM!Reported(mode), new |-> MM!Reported(to)]
  /\ pending'    = TRUE
  /\ stopReason' = ReasonAfter
  /\ taken'      = NoEvent
  /\ UNCHANGED <<level, unseen, firing, serving>>

(* process_event returns an error: it is logged and nothing changes.       *)
Reject ==
  /\ taken # NoEvent
  /\ \A to \in Modes : ~Transition(mode, taken.type, level["fault_in"], to)
  /\ taken' = NoEvent
  /\ UNCHANGED <<machine, cell, level, unseen, firing, pending, serving>>

-----------------------------------------------------------------------------
(* The D-Bus task.                                                         *)

Register ==
  /\ ~serving
  /\ serving' = TRUE
  /\ UNCHANGED <<machine, cell, taken, level, unseen, firing, pending>>

(* Mutant: the first update, which has no old mode, is not taken.          *)
MutAnnounce ==
  /\ serving /\ pending /\ update.old # "Unknown"
  /\ pending' = FALSE
  /\ UNCHANGED <<machine, cell, taken, level, unseen, firing, serving>>

Announce ==
  /\ serving /\ pending
  /\ pending' = FALSE
  /\ UNCHANGED <<machine, cell, taken, level, unseen, firing, serving>>

-----------------------------------------------------------------------------
Input ==
  \/ \E b \in Buttons : Press(b)
  \/ \E s \in Levels, v \in BOOLEAN : Receive(s, v)
  \/ \E e \in SetModeEvents : SetMode(e)
  \/ \E r \in Reasons : StopWithReason(r)

Process == (\E to \in Modes : Accept(to)) \/ Reject

Next ==
  \/ Input
  \/ \E s \in Levels : Callback(s)
  \/ \E k \in Timed : Wake(k) \/ Fire(k)
  \/ Take
  \/ Process
  \/ Register
  \/ Announce

(* The tokio scheduler polls every task that is ready; nothing obliges an  *)
(* input to change or a caller to call.                                    *)
Fairness ==
  /\ \A s \in Levels : WF_vars(Callback(s))
  /\ \A k \in Timed : WF_vars(Wake(k)) /\ WF_vars(Fire(k))
  /\ WF_vars(Take) /\ WF_vars(Process)
  /\ WF_vars(Register) /\ WF_vars(Announce)

Safety == Init /\ [][Next]_vars
Spec   == Safety /\ Fairness
-----------------------------------------------------------------------------
(* Types.  The value of every variable stays within the sets the code      *)
(* declares for it.                                                        *)
TypeOK ==
  /\ mode       \in Modes
  /\ cell       \in Events \union {NoEvent}
  /\ taken      \in Events \union {NoEvent}
  /\ level      \in [Levels -> BOOLEAN]
  /\ unseen     \subseteq Levels
  /\ sleeping   \in [Timed -> BOOLEAN]
  /\ firing     \in [Timed -> 0..MaxFiring]
  /\ out        \in [Outputs -> BOOLEAN]
  /\ modeSignal \in MM!ReportedModes
  /\ stopReason \in AllReasons
  /\ update     \in MM!Updates
  /\ pending    \in BOOLEAN
  /\ serving    \in BOOLEAN

(* Exactly the signal of the current mode is true, and the "mode" signal   *)
(* and the update waiting for D-Bus name that mode: no sequence of         *)
(* on_entry_*, on_exit_* and transition() calls leaves a second output up  *)
(* or an old mode published.                                               *)
OutputsMirrorMode ==
  /\ \A m \in Outputs : out[m] <=> (m = mode)
  /\ modeSignal = MM!Reported(mode)
  /\ update.new = MM!Reported(mode)

(* A delay is only running in the mode that started it, whichever of the   *)
(* ways out of Starting and Stopping was taken: on_exit_starting and       *)
(* on_exit_stopping leave no sleeping timer behind.                        *)
NoLeakedDelay == \A k \in Timed : sleeping[k] => mode = k

(* A stop reason never outlives the stop it explains: outside Stopping and *)
(* Stopped the signal "stop_reason" is empty.                              *)
ReasonOnlyForStop == stopReason # "" => mode \in {"Stopping", "Stopped"}

(* The event that waits in the channel agrees with a level input that has  *)
(* been called back, and the event task only ever works on an outdated one *)
(* while a newer event is waiting: a callback reads the slot and sends the *)
(* event in one step, so an old EmergencyOff never follows a new           *)
(* EmergencyOn.                                                            *)
LevelEventsCurrent ==
  \A s \in Levels \ unseen, v \in BOOLEAN :
    /\ cell = LevelEvent(s, v) => level[s] = v
    /\ taken = LevelEvent(s, v) /\ level[s] # v => cell # NoEvent

(* The server implements the mode machine: every event, timer and input    *)
(* step is a move along an arrow of the mode graph, the announcement of    *)
(* the pending update or no step at all.                                   *)
ImplementsModeMachine == MM!Safety

(* The same with its liveness: the last mode is always announced in the    *)
(* end, however many updates it replaced.                                  *)
ImplementsFairModeMachine == MM!Spec

(* An emergency input that stays on ends in Emergency ("_ + EmergencyOn =  *)
(* Emergency"), which says that its event reaches the event task.          *)
EmergencyReached == <>[]level["emergency_in"] => <>[](mode = "Emergency")

(* "Delay to run initial sequences": Starting ends, by the timeout at the  *)
(* latest.  Whatever replaces the timeout in the channel ends Starting too.*)
StartingEnds == mode = "Starting" ~> mode # "Starting"
===============================================================================
