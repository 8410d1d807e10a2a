--------------------------- MODULE OperationsProofs ---------------------------
(***************************************************************************)
(* Proofs about the operations server, for every set of wired inputs,    *)
(* every set of stop reasons and every configuration of the delays; about*)
(* its client, for any subscriptions and requests; and about the two     *)
(* together.                                                             *)
(***************************************************************************)
EXTENDS OperationsSystem, TLAPS

-----------------------------------------------------------------------------
(* Every event the server produces is an event of the enum.              *)
LEMMA EventsTyped ==
  /\ \A b \in Buttons : ButtonEvent[b] \in Events
  /\ \A s \in Levels, v \in BOOLEAN : LevelEvent(s, v) \in Events
  /\ \A k \in Timed : Timeout[k] \in Events
  /\ \A r \in Reasons : SetStopped(r) \in Events
  /\ SetModeEvents \subseteq Events
  /\ SetStopped("init") \in Events
  /\ NoEvent \notin Events
<1> USE DEF Events, EventTypes, AllReasons, Plain, SetStopped
<1>1. \A b \in Buttons : ButtonEvent[b] \in Events
  BY DEF Buttons, ButtonEvent
<1>2. \A s \in Levels, v \in BOOLEAN : LevelEvent(s, v) \in Events
  BY DEF Levels, LevelEvent
<1>3. \A k \in Timed : Timeout[k] \in Events
  BY DEF Timed, Timeout
<1>4. SetModeEvents \subseteq Events
  <2>1. \A t \in EventTypes : Plain(t) \in Events
    OBVIOUS
  <2>2. SetStopped("manual") \in Events
    OBVIOUS
  <2> HIDE DEF Plain, SetStopped, Events
  <2> QED BY <2>1, <2>2 DEF SetModeEvents
<1>5. NoEvent \notin Events
  BY DEF NoEvent
<1> QED BY <1>1, <1>2, <1>3, <1>4, <1>5

(* The table only leads to states that drive an output signal, and only  *)
(* along the arrows of the mode graph.                                   *)
LEMMA TransitionsFollowEdges ==
  ASSUME NEW from \in Modes, NEW e, NEW isFault, NEW to, Transition(from, e, isFault, to)
  PROVE  to \in Outputs /\ MM!Edge(from, to)
BY DEF Transition, FromStarting, Modes, Outputs, MM!Modes, MM!Outputs, MM!Edge

(* No event is rejected for want of one: an accepted event is not NoEvent.*)
LEMMA AcceptedIsEvent ==
  ASSUME NEW to, Accept(to)
  PROVE  taken # NoEvent
<1>1. \A from, isFault, m : ~Transition(from, "none", isFault, m)
  BY DEF Transition, FromStarting
<1>2. Transition(mode, taken.type, level["fault_in"], to)
  BY DEF Accept
<1>3. NoEvent.type = "none"
  BY DEF NoEvent, Plain
<1> QED BY <1>1, <1>2, <1>3

-----------------------------------------------------------------------------
(* Type correctness: every handler, timer and task of the server keeps   *)
(* every variable within its type.                                       *)
THEOREM TypeCorrect == Safety => []TypeOK
<1>1. Init => TypeOK
  <2> SUFFICES ASSUME Init PROVE TypeOK
    OBVIOUS
  <2>1. mode \in Modes /\ modeSignal \in MM!ReportedModes /\ update \in MM!Updates
    BY DEF Init, Modes, MM!Modes, MM!ReportedModes, MM!Updates
  <2>2. cell \in Events \union {NoEvent} /\ stopReason \in AllReasons
    BY EventsTyped DEF Init, AllReasons
  <2>3. firing \in [Timed -> 0..MaxFiring]
    <3>1. 0 \in 0..MaxFiring
      BY FiringAssumption
    <3> QED BY <3>1 DEF Init
  <2> QED BY <2>1, <2>2, <2>3 DEF Init, TypeOK
<1>2. TypeOK /\ [Next]_vars => TypeOK'
  <2> SUFFICES ASSUME TypeOK, [Next]_vars PROVE TypeOK'
    OBVIOUS
  <2> USE DEF TypeOK
  <2>1. ASSUME NEW b \in Buttons, Press(b) PROVE TypeOK'
    BY <2>1, EventsTyped DEF Press, Send, machine
  <2>2. ASSUME NEW s \in Levels, NEW v \in BOOLEAN, Receive(s, v) PROVE TypeOK'
    BY <2>2 DEF Receive, machine
  <2>3. ASSUME NEW e \in SetModeEvents, SetMode(e) PROVE TypeOK'
    BY <2>3, EventsTyped DEF SetMode, Send, machine
  <2>4. ASSUME NEW r \in Reasons, StopWithReason(r) PROVE TypeOK'
    BY <2>4, EventsTyped DEF StopWithReason, Send, machine
  <2>5. ASSUME NEW s \in Levels, Callback(s) PROVE TypeOK'
    BY <2>5, EventsTyped DEF Callback, Send, machine
  <2>6. ASSUME NEW k \in Timed, Wake(k) PROVE TypeOK'
    BY <2>6, FiringAssumption DEF Wake
  <2>7. ASSUME NEW k \in Timed, Fire(k) PROVE TypeOK'
    BY <2>7, EventsTyped, FiringAssumption DEF Fire, Send, machine
  <2>8. CASE Take
    BY <2>8 DEF Take, machine
  <2>9. ASSUME NEW to \in Modes, Accept(to) PROVE TypeOK'
    <3>1. to \in Outputs
      BY <2>9, TransitionsFollowEdges DEF Accept
    <3>2. MM!Reported(to) \in MM!ReportedModes /\ MM!Reported(mode) \in MM!ReportedModes
      BY DEF Modes, MM!Modes, MM!Reported, MM!ReportedModes
    <3>3. sleeping' \in [Timed -> BOOLEAN]
      BY <2>9, DelaysAssumption DEF Accept, TimersAfter
    <3>4. cell' \in Events \union {NoEvent}
      BY <2>9, EventsTyped DEF Accept, Send
    <3>5. stopReason' \in AllReasons
      BY <2>9, AcceptedIsEvent DEF Accept, ReasonAfter, Events, AllReasons
    <3>6. out' \in [Outputs -> BOOLEAN]
      BY <2>9 DEF Accept, SignalsAfter
    <3> QED BY <2>9, <3>2, <3>3, <3>4, <3>5, <3>6 DEF Accept, MM!Updates
  <2>10. CASE Reject
    BY <2>10 DEF Reject, machine
  <2>11. CASE Register
    BY <2>11 DEF Register, machine
  <2>12. CASE Announce
    BY <2>12 DEF Announce, machine
  <2>13. CASE UNCHANGED vars
    BY <2>13 DEF vars
  <2> QED
    BY <2>1, <2>2, <2>3, <2>4, <2>5, <2>6, <2>7, <2>8, <2>9, <2>10, <2>11,
       <2>12, <2>13 DEF Next, Input, Process
<1> QED BY <1>1, <1>2, PTL DEF Safety

-----------------------------------------------------------------------------
(* A step that is not an accepted event leaves the machine as it is, the *)
(* timers and the pending flag apart.                                    *)
LEMMA OnlyAcceptChangesMode ==
  ASSUME [Next]_vars, \A to \in Modes : ~Accept(to)
  PROVE  UNCHANGED <<mode, out, modeSignal, stopReason, update>>
<1>1. CASE Input
  BY <1>1 DEF Input, Press, Receive, SetMode, StopWithReason, machine
<1>2. CASE \E s \in Levels : Callback(s)
  BY <1>2 DEF Callback, machine
<1>3. CASE \E k \in Timed : Wake(k) \/ Fire(k)
  BY <1>3 DEF Wake, Fire, machine
<1>4. CASE Take \/ Reject \/ Register \/ Announce
  BY <1>4 DEF Take, Reject, Register, Announce, machine
<1>5. CASE UNCHANGED vars
  BY <1>5 DEF vars
<1> QED BY <1>1, <1>2, <1>3, <1>4, <1>5 DEF Next, Process

(* Exactly the output of the current mode is up, whatever sequence of    *)
(* events the inputs, callers and timers produce.                        *)
THEOREM OutputsFollowMode == Safety => []OutputsMirrorMode
<1>1. Init => OutputsMirrorMode
  <2>1. "Init" \notin Outputs
    BY DEF Outputs, MM!Outputs
  <2>2. Init => \A m \in Outputs : ~out[m] /\ m # mode
    BY <2>1 DEF Init
  <2>3. Init => modeSignal = MM!Reported(mode) /\ update.new = MM!Reported(mode)
    <3>1. Init => /\ mode = "Init" /\ modeSignal = "Unknown"
                  /\ update = [old |-> "Unknown", new |-> "Unknown"]
      BY DEF Init
    <3>2. MM!Reported("Init") = "Unknown"
      BY DEF MM!Reported
    <3> QED BY <3>1, <3>2
  <2> QED BY <2>2, <2>3 DEF OutputsMirrorMode
<1>2. TypeOK /\ OutputsMirrorMode /\ [Next]_vars => OutputsMirrorMode'
  <2> SUFFICES ASSUME TypeOK, OutputsMirrorMode, [Next]_vars
               PROVE  OutputsMirrorMode'
    OBVIOUS
  <2>1. ASSUME NEW to \in Modes, Accept(to) PROVE OutputsMirrorMode'
    <3>1. mode' = to /\ modeSignal' = MM!Reported(to) /\ update'.new = MM!Reported(to)
      BY <2>1 DEF Accept
    <3>2. ASSUME NEW m \in Outputs PROVE out'[m] <=> (m = to)
      BY <2>1 DEF Accept, SignalsAfter, OutputsMirrorMode, TypeOK
    <3> QED BY <3>1, <3>2 DEF OutputsMirrorMode
  <2>2. CASE \A to \in Modes : ~Accept(to)
    BY <2>2, OnlyAcceptChangesMode DEF OutputsMirrorMode
  <2> QED BY <2>1, <2>2
<1> QED BY <1>1, <1>2, TypeCorrect, PTL DEF Safety

(* No way out of Starting or Stopping leaves its delay running.          *)
THEOREM DelaysEndWithMode == Safety => []NoLeakedDelay
<1>1. Init => NoLeakedDelay
  BY DEF Init, NoLeakedDelay
<1>2. TypeOK /\ NoLeakedDelay /\ [Next]_vars => NoLeakedDelay'
  <2> SUFFICES ASSUME TypeOK, NoLeakedDelay, [Next]_vars
               PROVE  NoLeakedDelay'
    OBVIOUS
  <2>1. ASSUME NEW to \in Modes, Accept(to) PROVE NoLeakedDelay'
    BY <2>1 DEF Accept, TimersAfter, NoLeakedDelay
  <2>2. ASSUME NEW k \in Timed, Wake(k) PROVE NoLeakedDelay'
    BY <2>2 DEF Wake, NoLeakedDelay, TypeOK
  <2>3. CASE UNCHANGED <<mode, sleeping>>
    BY <2>3 DEF NoLeakedDelay
  <2> QED
    BY <2>1, <2>2, <2>3
       DEF Next, Input, Process, Press, Receive, SetMode, StopWithReason,
           Callback, Fire, Take, Reject, Register, Announce, machine, vars
<1> QED BY <1>1, <1>2, TypeCorrect, PTL DEF Safety

(* A stop reason is gone as soon as the stop it explains is over.        *)
THEOREM ReasonsEndWithStop == Safety => []ReasonOnlyForStop
<1>1. Init => ReasonOnlyForStop
  BY DEF Init, ReasonOnlyForStop
<1>2. ReasonOnlyForStop /\ [Next]_vars => ReasonOnlyForStop'
  <2> SUFFICES ASSUME ReasonOnlyForStop, [Next]_vars PROVE ReasonOnlyForStop'
    OBVIOUS
  <2>1. ASSUME NEW to \in Modes, Accept(to) PROVE ReasonOnlyForStop'
    <3>1. taken.type = "SetStopped" => to \in {"Stopping", "Stopped"}
      BY <2>1 DEF Accept, Transition, FromStarting
    <3>2. mode' = to /\ stopReason' = ReasonAfter
      BY <2>1 DEF Accept
    <3> QED BY <3>1, <3>2 DEF ReasonAfter, ReasonOnlyForStop
  <2>2. CASE \A to \in Modes : ~Accept(to)
    BY <2>2, OnlyAcceptChangesMode DEF ReasonOnlyForStop
  <2> QED BY <2>1, <2>2
<1> QED BY <1>1, <1>2, PTL DEF Safety

-----------------------------------------------------------------------------
(* The event of a level input names the input and its value, and no other*)
(* sender produces it.                                                   *)
LEMMA LevelEventsDistinct ==
  ASSUME NEW s \in Levels, NEW v \in BOOLEAN
  PROVE  /\ LevelEvent(s, v) # NoEvent
         /\ \A s2 \in Levels, v2 \in BOOLEAN :
              LevelEvent(s, v) = LevelEvent(s2, v2) => s = s2 /\ v = v2
         /\ \A b \in Buttons : LevelEvent(s, v) # ButtonEvent[b]
         /\ \A k \in Timed : LevelEvent(s, v) # Timeout[k]
         /\ \A r : LevelEvent(s, v) # SetStopped(r)
         /\ LevelEvent(s, v) \notin SetModeEvents
<1> DEFINE t == LevelEvent(s, v).type
<1>1. t \in {"EmergencyOn", "EmergencyOff", "FaultOn", "FaultOff"}
  BY DEF LevelEvent, Plain
<1>2. NoEvent.type = "none"
  BY DEF NoEvent, Plain
<1>3. \A s2 \in Levels, v2 \in BOOLEAN :
        LevelEvent(s, v) = LevelEvent(s2, v2) => s = s2 /\ v = v2
  <2>1. \A t1, t2 : Plain(t1) = Plain(t2) => t1 = t2
    BY DEF Plain
  <2> QED BY <2>1 DEF LevelEvent, Levels
<1>4. \A b \in Buttons : ButtonEvent[b].type \in
        {"RunButton", "CleaningButton", "MaintenanceButton", "StartingFinished",
         "StoppingFinished"}
  BY DEF ButtonEvent, Buttons, Plain
<1>5. \A k \in Timed : Timeout[k].type \in {"StartingTimeout", "StoppingTimeout"}
  BY DEF Timeout, Plain
<1>6. \A r : SetStopped(r).type = "SetStopped"
  BY DEF SetStopped
<1>7. \A e \in SetModeEvents : e.type \in
        {"SetStopped", "SetStarting", "SetCleaning", "SetEmergency", "SetFault",
         "SetMaintenance"}
  <2>1. \A t2 : Plain(t2).type = t2
    BY DEF Plain
  <2> QED BY <2>1, <1>6 DEF SetModeEvents
<1> QED BY <1>1, <1>2, <1>3, <1>4, <1>5, <1>6, <1>7

(* An event of a level input is only ever outdated when a newer event is *)
(* already waiting, for every interleaving of callbacks, callers and     *)
(* timers.                                                               *)
THEOREM LevelsStayCurrent == Safety => []LevelEventsCurrent
<1>1. Init => LevelEventsCurrent
  BY LevelEventsDistinct DEF Init, LevelEventsCurrent
<1>2. TypeOK /\ LevelEventsCurrent /\ [Next]_vars => LevelEventsCurrent'
  <2> SUFFICES ASSUME TypeOK, LevelEventsCurrent, [Next]_vars,
                      NEW s \in Levels \ unseen', NEW v \in BOOLEAN
               PROVE  /\ cell' = LevelEvent(s, v) => level'[s] = v
                      /\ taken' = LevelEvent(s, v) /\ level'[s] # v => cell' # NoEvent
    BY DEF LevelEventsCurrent
  <2> DEFINE Goal == /\ cell' = LevelEvent(s, v) => level'[s] = v
                     /\ taken' = LevelEvent(s, v) /\ level'[s] # v => cell' # NoEvent
  <2>1. ASSUME NEW b \in Buttons, Press(b) PROVE Goal
    <3>1. ButtonEvent[b] # NoEvent
      BY DEF ButtonEvent, Buttons, NoEvent, Plain
    <3> QED BY <2>1, <3>1, LevelEventsDistinct DEF Press, Send
  <2>2. ASSUME NEW s2 \in Levels, NEW v2 \in BOOLEAN, Receive(s2, v2) PROVE Goal
    BY <2>2 DEF Receive, LevelEventsCurrent, TypeOK
  <2>3. ASSUME NEW e \in SetModeEvents, SetMode(e) PROVE Goal
    <3>1. e # NoEvent
      BY EventsTyped
    <3> QED BY <2>3, <3>1, LevelEventsDistinct DEF SetMode, Send
  <2>4. ASSUME NEW r \in Reasons, StopWithReason(r) PROVE Goal
    <3>1. SetStopped(r) # NoEvent
      BY DEF SetStopped, NoEvent, Plain
    <3> QED BY <2>4, <3>1, LevelEventsDistinct DEF StopWithReason, Send
  <2>5. ASSUME NEW s2 \in Levels, Callback(s2) PROVE Goal
    <3>1. level[s2] \in BOOLEAN /\ cell' = LevelEvent(s2, level[s2]) /\ UNCHANGED level
      BY <2>5 DEF Callback, Send, TypeOK
    <3>2. cell' # NoEvent
      BY <3>1, LevelEventsDistinct
    <3>3. cell' = LevelEvent(s, v) => s = s2 /\ v = level[s2]
      BY <3>1, LevelEventsDistinct
    <3> QED BY <3>1, <3>2, <3>3
  <2>6. ASSUME NEW k \in Timed, Wake(k) PROVE Goal
    BY <2>6 DEF Wake, LevelEventsCurrent
  <2>7. ASSUME NEW k \in Timed, Fire(k) PROVE Goal
    <3>1. Timeout[k] # NoEvent
      BY DEF Timeout, NoEvent, Plain
    <3> QED BY <2>7, <3>1, LevelEventsDistinct DEF Fire, Send
  <2>8. CASE Take
    BY <2>8, LevelEventsDistinct DEF Take, LevelEventsCurrent
  <2>9. ASSUME NEW to \in Modes, Accept(to) PROVE Goal
    <3>1. taken' = NoEvent /\ UNCHANGED <<level, unseen>>
      BY <2>9 DEF Accept
    <3>2. cell' = cell \/ \E k \in Timed : cell' = Timeout[k]
      BY <2>9 DEF Accept, Send
    <3> QED BY <3>1, <3>2, LevelEventsDistinct DEF LevelEventsCurrent
  <2>10. CASE Reject
    BY <2>10, LevelEventsDistinct DEF Reject, LevelEventsCurrent
  <2>11. CASE Register \/ Announce
    BY <2>11 DEF Register, Announce, LevelEventsCurrent
  <2>12. CASE UNCHANGED vars
    BY <2>12 DEF vars, LevelEventsCurrent
  <2> QED
    BY <2>1, <2>2, <2>3, <2>4, <2>5, <2>6, <2>7, <2>8, <2>9, <2>10, <2>11,
       <2>12 DEF Next, Input, Process
<1> QED BY <1>1, <1>2, TypeCorrect, PTL DEF Safety

-----------------------------------------------------------------------------
(* The way out of Starting.                                              *)

(* What the inputs of the run for Starting can send.                     *)
StartSources == {"run_button", "starting_finished", "stop_with_reason"}

(* Events that end Starting.                                             *)
Exits == {"StartingTimeout", "StartingFinished", "RunButton", "SetStopped"}

(* No event of these inputs is one that Starting ignores, the timeout of *)
(* Stopping apart.                                                       *)
StartEvents ==
  /\ cell.type \in Exits \union {"StoppingTimeout", "none"}
  /\ taken.type \in Exits \union {"StoppingTimeout", "none"}
  /\ taken.type = "none" => taken = NoEvent
  /\ unseen = {}

(* A timeout of Stopping exists once, and in Stopping only: its task sleeps*)
(* or is about to send, or the event waits or has been taken.            *)
OneStoppingTimeout ==
  /\ sleeping["Stopping"] => firing["Stopping"] = 0
  /\ firing["Stopping"] \in {0, 1}
  /\ sleeping["Stopping"] \/ firing["Stopping"] = 1 =>
       cell.type # "StoppingTimeout" /\ taken.type # "StoppingTimeout"
  /\ cell.type = "StoppingTimeout" => taken.type # "StoppingTimeout"
  /\ \/ sleeping["Stopping"] \/ firing["Stopping"] = 1
     \/ cell.type = "StoppingTimeout" \/ taken.type = "StoppingTimeout"
     => mode = "Stopping"

(* Its timer runs, or the event task will see an event that ends it.     *)
WayOut ==
  sleeping["Starting"] \/ firing["Starting"] > 0 \/ cell.type \in Exits \/ taken.type \in Exits

StartInv == StartEvents /\ OneStoppingTimeout /\ (mode = "Starting" => WayOut)

(* What each of the inputs and timers sends.                             *)
LEMMA StartEventTypes ==
  /\ \A b \in Buttons \intersect StartSources : ButtonEvent[b].type \in Exits
  /\ \A r : SetStopped(r).type \in Exits
  /\ Timeout["Starting"].type \in Exits /\ Timeout["Stopping"].type = "StoppingTimeout"
  /\ NoEvent.type = "none"
  BY DEF Buttons, StartSources, ButtonEvent, Exits, SetStopped, Timeout, Timed, NoEvent, Plain

(* A sent event that ends Starting disturbs nothing.                     *)
LEMMA SendExit ==
  ASSUME StartInv, cell'.type \in Exits,
         UNCHANGED <<mode, sleeping, firing, taken, unseen>>
  PROVE  StartInv'
  BY DEF StartInv, StartEvents, OneStoppingTimeout, WayOut, Exits

(* Starting keeps its way out: one step per action.                         *)
LEMMA StartStep ==
  ASSUME Sources \subseteq StartSources, TypeOK, StartInv, [Next]_vars
  PROVE  StartInv'
<1> USE DEF machine
<1>1. ASSUME NEW b \in Buttons, Press(b) PROVE StartInv'
  BY <1>1, StartEventTypes, SendExit DEF Press, Send
<1>2. ASSUME NEW s \in Levels, NEW v \in BOOLEAN, Receive(s, v) PROVE FALSE
  BY <1>2 DEF Receive, StartSources, Levels
<1>3. ASSUME NEW e \in SetModeEvents, SetMode(e) PROVE FALSE
  BY <1>3 DEF SetMode, StartSources
<1>4. ASSUME NEW r \in Reasons, StopWithReason(r) PROVE StartInv'
  BY <1>4, StartEventTypes, SendExit DEF StopWithReason, Send
<1>5. ASSUME NEW s \in Levels, Callback(s) PROVE FALSE
  BY <1>5 DEF Callback, StartInv, StartEvents
<1>6. ASSUME NEW k \in Timed, Wake(k) PROVE StartInv'
  <2>1. /\ sleeping[k] /\ sleeping' = [sleeping EXCEPT ![k] = FALSE]
        /\ firing' = [firing EXCEPT ![k] = firing[k] + 1]
        /\ UNCHANGED <<mode, cell, taken, unseen>>
    BY <1>6 DEF Wake
  <2>2. CASE k = "Starting"
    <3>1. firing'["Starting"] > 0
      BY <2>1, <2>2 DEF TypeOK, Timed
    <3>2. UNCHANGED <<sleeping["Stopping"], firing["Stopping"]>>
      BY <2>1, <2>2 DEF TypeOK, Timed
    <3> QED
      BY <2>1, <3>1, <3>2 DEF StartInv, StartEvents, OneStoppingTimeout, WayOut
  <2>3. CASE k = "Stopping"
    <3>1. sleeping'["Stopping"] = FALSE /\ firing'["Stopping"] = 1
      BY <2>1, <2>3 DEF TypeOK, Timed, StartInv, OneStoppingTimeout
    <3>2. UNCHANGED <<sleeping["Starting"], firing["Starting"]>>
      BY <2>1, <2>3 DEF TypeOK, Timed
    <3>3. sleeping["Stopping"]
      BY <2>1, <2>3
    <3> QED
      BY <2>1, <3>1, <3>2, <3>3 DEF StartInv, StartEvents, OneStoppingTimeout, WayOut
  <2> QED
    BY <2>2, <2>3 DEF Timed
<1>7. ASSUME NEW k \in Timed, Fire(k) PROVE StartInv'
  <2>1. /\ firing[k] > 0 /\ firing' = [firing EXCEPT ![k] = firing[k] - 1] /\ cell' = Timeout[k]
        /\ UNCHANGED <<mode, sleeping, taken, unseen>>
    BY <1>7 DEF Fire, Send
  <2>2. CASE k = "Starting"
    <3>1. cell'.type \in Exits /\ UNCHANGED firing["Stopping"]
      BY <2>1, <2>2, StartEventTypes DEF TypeOK, Timed
    <3> QED
      BY <2>1, <3>1 DEF StartInv, StartEvents, OneStoppingTimeout, WayOut, Exits
  <2>3. CASE k = "Stopping"
    <3>1. cell'.type = "StoppingTimeout" /\ firing["Stopping"] = 1 /\ firing'["Stopping"] = 0
      BY <2>1, <2>3, StartEventTypes DEF TypeOK, Timed, StartInv, OneStoppingTimeout
    <3>2. mode = "Stopping"
      BY <3>1 DEF StartInv, OneStoppingTimeout
    <3> QED
      BY <2>1, <3>1, <3>2 DEF StartInv, StartEvents, OneStoppingTimeout
  <2> QED
    BY <2>2, <2>3 DEF Timed
<1>8. CASE Take
  <2>1. taken = NoEvent /\ cell # NoEvent /\ taken' = cell /\ cell' = NoEvent
        /\ UNCHANGED <<mode, sleeping, firing, unseen>>
    BY <1>8 DEF Take
  <2>2. cell \in Events /\ cell.type # "none"
    BY <2>1 DEF TypeOK, Events, EventTypes
  <2> QED
    BY <2>1, <2>2, StartEventTypes DEF StartInv, StartEvents, OneStoppingTimeout, WayOut, Exits
<1>9. ASSUME NEW to \in Modes, Accept(to) PROVE StartInv'
  <2>1. PICK delayed \in Delays :
          /\ sleeping' = TimersAfter(to, delayed)
          /\ IF to \in Timed /\ ~delayed THEN Send(Timeout[to]) ELSE UNCHANGED cell
    BY <1>9 DEF Accept
  <2>2. /\ Transition(mode, taken.type, level["fault_in"], to) /\ mode' = to /\ taken' = NoEvent
        /\ UNCHANGED <<firing, unseen>>
    BY <1>9 DEF Accept
  <2>3. taken.type \in Exits \union {"StoppingTimeout"}
    <3>1. taken # NoEvent
      BY <1>9, AcceptedIsEvent
    <3> QED
      BY <3>1 DEF StartInv, StartEvents
  <2>4. /\ sleeping'["Starting"] = IF to = "Starting" THEN delayed
                                   ELSE IF mode = "Starting" THEN FALSE ELSE sleeping["Starting"]
        /\ sleeping'["Stopping"] = IF to = "Stopping" THEN delayed
                                   ELSE IF mode = "Stopping" THEN FALSE ELSE sleeping["Stopping"]
        /\ delayed \in BOOLEAN
    BY <2>1, DelaysAssumption DEF TimersAfter, Timed
  <2>5. \/ mode # "Stopping" /\ to \in {"Stopped", "Running"}
        \/ mode = "Stopped" /\ to = "Starting"
        \/ mode = "Running" /\ to = "Stopping"
        \/ mode = "Stopping" /\ to = "Stopped" /\ taken.type = "StoppingTimeout"
    <3> DEFINE e == taken.type
    <3>1. Transition(mode, e, level["fault_in"], to) /\ e \in Exits \union {"StoppingTimeout"}
      BY <2>2, <2>3
    <3> HIDE DEF e
    <3>2. \/ mode # "Stopping" /\ to \in {"Stopped", "Running"}
          \/ mode = "Stopped" /\ to = "Starting"
          \/ mode = "Running" /\ to = "Stopping"
          \/ mode = "Stopping" /\ to = "Stopped" /\ e = "StoppingTimeout"
      BY <3>1 DEF Transition, FromStarting, Exits
    <3> QED
      BY <3>2 DEF e
  <2>6. to \in Timed /\ ~delayed => cell' = Timeout[to]
    BY <2>1 DEF Send
  <2>7. ~(to \in Timed /\ ~delayed) => cell' = cell
    BY <2>1
  <2>8. CASE to = "Starting"
    <3>1. mode = "Stopped" /\ UNCHANGED <<sleeping["Stopping"], firing>>
      BY <2>2, <2>4, <2>5, <2>8
    <3>2. sleeping'["Starting"] \/ cell'.type \in Exits
      BY <2>4, <2>6, <2>8, StartEventTypes DEF Timed
    <3>3. cell' = cell \/ cell'.type \in Exits
      BY <2>6, <2>7, <2>8, StartEventTypes
    <3> QED
      BY <2>2, <2>8, <3>1, <3>2, <3>3, StartEventTypes
      DEF StartInv, StartEvents, OneStoppingTimeout, WayOut, Exits
  <2>9. CASE to = "Stopping"
    <3>1. mode = "Running" /\ sleeping'["Stopping"] = delayed
      BY <2>2, <2>4, <2>5, <2>9
    <3>2. ~sleeping["Stopping"] /\ firing["Stopping"] = 0 /\ cell.type # "StoppingTimeout"
      BY <3>1 DEF StartInv, OneStoppingTimeout
    <3>3. IF delayed THEN cell' = cell ELSE cell'.type = "StoppingTimeout"
      BY <2>4, <2>6, <2>7, <2>9, StartEventTypes DEF Timed
    <3> QED
      BY <2>2, <2>4, <2>9, <3>1, <3>2, <3>3, StartEventTypes
      DEF StartInv, StartEvents, OneStoppingTimeout
  <2>10. CASE to \in {"Stopped", "Running"}
    <3>1. cell' = cell /\ to \notin Timed
      BY <2>7, <2>10 DEF Timed
    <3>2. /\ ~sleeping'["Stopping"] /\ firing["Stopping"] = 0 /\ cell.type # "StoppingTimeout"
      BY <2>2, <2>4, <2>5, <2>10 DEF StartInv, OneStoppingTimeout
    <3> QED
      BY <2>2, <2>10, <3>1, <3>2, StartEventTypes DEF StartInv, StartEvents, OneStoppingTimeout
  <2> QED
    BY <2>5, <2>8, <2>9, <2>10
<1>10. CASE Reject
  <2>1. /\ taken # NoEvent /\ taken' = NoEvent /\ UNCHANGED <<mode, cell, sleeping, firing, unseen>>
        /\ \A to \in Modes : ~Transition(mode, taken.type, level["fault_in"], to)
    BY <1>10 DEF Reject
  <2>2. taken.type \in Exits => mode # "Starting"
    <3>1. Transition("Starting", "StartingTimeout", level["fault_in"], "Running")
          /\ Transition("Starting", "StartingFinished", level["fault_in"], "Running")
          /\ Transition("Starting", "RunButton", level["fault_in"], "Stopped")
          /\ Transition("Starting", "SetStopped", level["fault_in"], "Stopped")
      BY DEF Transition, FromStarting
    <3> QED
      BY <2>1, <3>1 DEF Exits, Modes, MM!Modes, MM!Outputs
  <2>3. taken.type \in Exits \union {"StoppingTimeout"}
    BY <2>1 DEF StartInv, StartEvents
  <2>4. mode # "Starting"
    BY <2>2, <2>3 DEF StartInv, OneStoppingTimeout
  <2> QED
    BY <2>1, <2>4, StartEventTypes DEF StartInv, StartEvents, OneStoppingTimeout
<1>11. CASE Register \/ Announce
  BY <1>11 DEF Register, Announce, StartInv, StartEvents, OneStoppingTimeout, WayOut
<1>12. CASE UNCHANGED vars
  BY <1>12 DEF vars, StartInv, StartEvents, OneStoppingTimeout, WayOut
<1> QED
  BY <1>1, <1>2, <1>3, <1>4, <1>5, <1>6, <1>7, <1>8, <1>9, <1>10, <1>11, <1>12
  DEF Next, Input, Process

(* The safety core of StartingEnds: with a run button, starting_finished *)
(* and stop_with_reason, Starting always has a way out, whatever events  *)
(* replace one another in the channel.  stopping_finished is not among   *)
(* them: Starting ignores its event, which may have replaced the timeout.*)
THEOREM StartingHasAnEnd ==
  ASSUME Sources \subseteq StartSources
  PROVE  Safety => [](mode = "Starting" => WayOut)
<1>1. Init => StartInv
  <2> SUFFICES ASSUME Init PROVE StartInv
    OBVIOUS
  <2>1. cell.type = "SetStopped" /\ taken.type = "none" /\ taken = NoEvent
    BY DEF Init, SetStopped, NoEvent, Plain
  <2>2. /\ ~sleeping["Stopping"] /\ firing["Stopping"] = 0
        /\ mode = "Init" /\ unseen = {}
    BY DEF Init, Timed
  <2> QED
    BY <2>1, <2>2 DEF StartInv, StartEvents, OneStoppingTimeout, Exits
<1>2. TypeOK /\ StartInv /\ [Next]_vars => StartInv'
  BY StartStep
<1>3. StartInv => (mode = "Starting" => WayOut)
  BY DEF StartInv
<1> QED
  BY <1>1, <1>2, <1>3, TypeCorrect, PTL DEF Safety

-----------------------------------------------------------------------------
(* The server implements the mode machine: whatever the inputs, callers  *)
(* and timers do, what the rest of the system can see of it is moves along*)
(* the mode graph and announcements of the latest of them.               *)
THEOREM Implementation == Safety => ImplementsModeMachine
<1>1. Init => MM!Init
  BY DEF Init, MM!Init
<1>2. TypeOK /\ [Next]_vars => [MM!Next]_(MM!vars)
  <2> SUFFICES ASSUME TypeOK, [Next]_vars PROVE [MM!Next]_(MM!vars)
    OBVIOUS
  <2>1. ASSUME NEW to \in Modes, Accept(to) PROVE MM!Next
    <3>1. MM!Edge(mode, to)
      BY <2>1, TransitionsFollowEdges DEF Accept, TypeOK
    <3>2. MM!Move(to)
      BY <2>1, <3>1 DEF Accept, MM!Move
    <3> QED BY <3>2 DEF MM!Next, Modes
  <2>2. CASE Announce
    BY <2>2 DEF Announce, MM!Announce, MM!Next, machine
  <2>3. CASE UNCHANGED <<mode, update, pending>>
    BY <2>3 DEF MM!vars
  <2> QED
    BY <2>1, <2>2, <2>3
       DEF Next, Input, Process, Press, Receive, SetMode, StopWithReason,
           Callback, Wake, Fire, Take, Reject, Register, machine, vars
<1> QED BY <1>1, <1>2, TypeCorrect, PTL DEF Safety, ImplementsModeMachine, MM!Safety

-----------------------------------------------------------------------------
(* The client.  These are theorems of OperationsClient, whose assumptions*)
(* on its constants are a hypothesis here.                               *)
ClientConstants ==
  /\ Used \subseteq Client!Server!Modes /\ Requests \subseteq Client!Server!ReportedModes
  /\ Subs \subseteq [on : {"entry", "exit"}, mode : Used]
  /\ Drops \in BOOLEAN /\ MaxStream \in Nat

IsMove(u) ==
  \E from, to \in Client!Server!Modes :
    /\ Client!Server!Edge(from, to)
    /\ u = [old |-> Client!Server!Reported(from), new |-> Client!Server!Reported(to)]

(* A move is announced, sent and shown whole.                            *)
OnlyMoves ==
  /\ pending => IsMove(update)
  /\ \A i \in 1..Len(stream) : IsMove(stream[i])
  /\ view # Client!NoUpdate => IsMove(view)

-----------------------------------------------------------------------------
(* Every mode of the machine is reported as a mode of the protocol.      *)
LEMMA Reports ==
  \A m \in Client!Server!Modes : Client!Server!Reported(m) \in Client!Server!ReportedModes
  BY DEF Client!Server!Modes, Client!Server!Reported, Client!Server!ReportedModes

(* The update a client begins with is one.                               *)
LEMMA NoUpdateIsUpdate == Client!NoUpdate \in Client!Server!Updates
  BY DEF Client!NoUpdate, Client!Server!Updates, Client!Server!ReportedModes

(* The empty stream.                                                     *)
LEMMA NoUpdates == <<>> \in Seq(Client!Server!Updates) /\ Len(<<>>) = 0
  OBVIOUS

(* A stream has a length.                                                *)
LEMMA LenIsNat == \A q \in Seq(Client!Server!Updates) : Len(q) \in Nat
  OBVIOUS

(* Appending an update.                                                  *)
LEMMA AppendUpdate ==
  ASSUME NEW q \in Seq(Client!Server!Updates), NEW u \in Client!Server!Updates
  PROVE  /\ Append(q, u) \in Seq(Client!Server!Updates)
         /\ Len(Append(q, u)) = Len(q) + 1 /\ Len(q) \in Nat
         /\ \A i \in 1..Len(q) : Append(q, u)[i] = q[i]
         /\ Append(q, u)[Len(q) + 1] = u
  OBVIOUS

(* Taking the oldest update.                                             *)
LEMMA TakenUpdate ==
  ASSUME NEW q \in Seq(Client!Server!Updates), q # <<>>
  PROVE  /\ Head(q) \in Client!Server!Updates /\ Head(q) = q[1] /\ Len(q) \in Nat \ {0}
         /\ Tail(q) \in Seq(Client!Server!Updates) /\ Len(Tail(q)) = Len(q) - 1
         /\ \A i \in 1..Len(Tail(q)) : Tail(q)[i] = q[i + 1] /\ i + 1 \in 1..Len(q)
  OBVIOUS

-----------------------------------------------------------------------------
(* Types of the channels and tasks of it.                                *)
THEOREM ClientTypeCorrect ==
  ASSUME ClientConstants
  PROVE  Client!Safety => []Client!TypeOK
<1> USE DEF ClientConstants
<1>1. Client!Init => Client!TypeOK
  <2> SUFFICES ASSUME Client!Init PROVE Client!TypeOK
    OBVIOUS
  <2>1. mode \in Client!Server!Modes /\ update = Client!NoUpdate /\ pending = FALSE
    BY DEF Client!Init, Client!Server!Init, Client!Server!Modes, Client!NoUpdate
  <2>2. asked \in [Client!Methods -> Requests \union {"", "reason"}] /\ called = asked
    BY DEF Client!Init
  <2>3. waiting \in [Subs -> Client!Server!Modes \union {""}]
    BY DEF Client!Init
  <2>4. stream \in Seq(Client!Server!Updates) /\ proxy = "starting" /\ calling = "none"
    BY NoUpdates DEF Client!Init
  <2>5. QED
    BY <2>1, <2>2, <2>3, <2>4, NoUpdateIsUpdate DEF Client!Init, Client!TypeOK
<1>2. Client!TypeOK /\ [Client!Next]_(Client!vars) => Client!TypeOK'
  <2> SUFFICES ASSUME Client!TypeOK, [Client!Next]_(Client!vars) PROVE Client!TypeOK'
    OBVIOUS
  <2> USE DEF Client!TypeOK, Client!server, Client!watches
  <2>1. ASSUME NEW to \in Used, Client!Move(to) PROVE Client!TypeOK'
    <3>1. mode' \in Client!Server!Modes /\ pending' = TRUE
      BY <2>1 DEF Client!Move, Client!Server!Move
    <3>2. update' \in Client!Server!Updates
      BY <2>1, Reports DEF Client!Move, Client!Server!Move, Client!Server!Updates
    <3>3. QED
      BY <2>1, <3>1, <3>2 DEF Client!Move
  <2>2. CASE Client!Serve \/ Client!Listen \/ Client!Drop
    BY <2>2 DEF Client!Serve, Client!Listen, Client!Drop, Client!Methods
  <2>3. CASE Client!Announce
    <3>1. stream' \in Seq(Client!Server!Updates) /\ pending' = FALSE /\ UNCHANGED <<mode, update>>
      BY <2>3, AppendUpdate DEF Client!Announce, Client!Server!Announce
    <3>2. QED
      BY <2>3, <3>1 DEF Client!Announce
  <2>4. CASE Client!EndCall
    <3>1. stream' \in Seq(Client!Server!Updates) /\ proxy' \in {"idle", "dead"}
      BY <2>4, NoUpdates DEF Client!EndCall
    <3>2. QED
      BY <2>4, <3>1 DEF Client!EndCall, Client!Methods
  <2>5. CASE Client!TakeUpdate
    <3>1. Head(stream) \in Client!Server!Updates /\ stream' \in Seq(Client!Server!Updates)
      BY <2>5, TakenUpdate DEF Client!TakeUpdate
    <3>2. view' \in Client!Server!Updates /\ unlooked' \subseteq subs
      BY <2>5, <3>1 DEF Client!TakeUpdate, Client!Show
    <3>3. QED
      BY <2>5, <3>1, <3>2 DEF Client!TakeUpdate
  <2>6. ASSUME NEW k \in Client!Methods, Client!BeginCall(k) PROVE Client!TypeOK'
    <3>1. called' \in [Client!Methods -> Requests \union {"", "reason"}]
      BY <2>6 DEF Client!BeginCall
    <3>2. k # "none"
      BY DEF Client!Methods
    <3>3. QED
      BY <2>6, <3>1, <3>2 DEF Client!BeginCall
  <2>7. ASSUME NEW k \in Client!Methods, NEW arg \in Requests \union {"reason"},
               Client!Ask(k, arg)
        PROVE  Client!TypeOK'
    BY <2>7 DEF Client!Ask
  <2>8. ASSUME NEW s \in Subs, Client!Subscribe(s) PROVE Client!TypeOK'
    BY <2>8 DEF Client!Subscribe
  <2>9. ASSUME NEW s \in Subs, Client!Wait(s) PROVE Client!TypeOK'
    BY <2>9 DEF Client!Wait
  <2>10. ASSUME NEW s \in Subs, Client!Watch(s) PROVE Client!TypeOK'
    BY <2>10 DEF Client!Watch
  <2>11. CASE UNCHANGED Client!vars
    BY <2>11 DEF Client!vars
  <2>12. QED
    BY <2>1, <2>2, <2>3, <2>4, <2>5, <2>6, <2>7, <2>8, <2>9, <2>10, <2>11
    DEF Client!Next, Client!SetMode, Client!Stop, Client!Methods
<1>3. QED
  BY <1>1, <1>2, PTL DEF Client!Safety

(* The update a client knows is a move of the server: its two modes belong*)
(* together, whatever was conflated, ignored or missed.                  *)
THEOREM ViewsAreMoves ==
  ASSUME ClientConstants
  PROVE  Client!Safety => []Client!ViewIsMove
<1>1. Client!Init => OnlyMoves
  <2> SUFFICES ASSUME Client!Init PROVE OnlyMoves
    OBVIOUS
  <2>1. pending = FALSE /\ view = Client!NoUpdate /\ stream = <<>>
    BY DEF Client!Init, Client!Server!Init
  <2>2. \A i \in 1..Len(stream) : FALSE
    BY <2>1, NoUpdates
  <2>3. QED
    BY <2>1, <2>2 DEF OnlyMoves
<1>2. Client!TypeOK /\ OnlyMoves /\ [Client!Next]_(Client!vars) => OnlyMoves'
  <2> SUFFICES ASSUME Client!TypeOK, OnlyMoves, [Client!Next]_(Client!vars) PROVE OnlyMoves'
    OBVIOUS
  <2>0. stream \in Seq(Client!Server!Updates) /\ update \in Client!Server!Updates /\ Len(stream) \in Nat
    BY LenIsNat DEF Client!TypeOK
  <2>1. ASSUME NEW to \in Used, Client!Move(to) PROVE OnlyMoves'
    <3>1. IsMove(update')
      BY <2>1 DEF ClientConstants, Client!Move, Client!Server!Move, IsMove, Client!TypeOK
    <3>2. QED
      BY <2>1, <3>1 DEF Client!Move, OnlyMoves, Client!watches
  <2>2. CASE Client!Announce
    <3>1. IsMove(update) /\ pending' = FALSE /\ UNCHANGED <<update, view>>
      BY <2>2 DEF Client!Announce, Client!Server!Announce, OnlyMoves, Client!watches
    <3>2. CASE stream' = Append(stream, update)
      <4>1. /\ Len(stream') = Len(stream) + 1 /\ stream'[Len(stream) + 1] = update
            /\ \A i \in 1..Len(stream) : stream'[i] = stream[i]
        BY <3>2, <2>0, AppendUpdate
      <4>2. ASSUME NEW i \in 1..Len(stream') PROVE IsMove(stream'[i])
        <5>1. i \in 1..Len(stream) \/ i = Len(stream) + 1
          BY <2>0, <4>1
        <5>2. QED
          BY <5>1, <4>1, <3>1 DEF OnlyMoves
      <4>3. QED
        BY <3>1, <4>2 DEF OnlyMoves
    <3>3. CASE stream' = stream
      BY <3>1, <3>3 DEF OnlyMoves
    <3>4. QED
      BY <2>2, <3>2, <3>3 DEF Client!Announce
  <2>3. CASE Client!TakeUpdate
    <3>1. /\ Head(stream) = stream[1] /\ 1 \in 1..Len(stream)
          /\ \A i \in 1..Len(stream') : stream'[i] = stream[i + 1] /\ i + 1 \in 1..Len(stream)
      BY <2>0, <2>3, TakenUpdate DEF Client!TakeUpdate
    <3>2. view' \in {view, stream[1]}
      BY <2>3, <3>1 DEF Client!TakeUpdate, Client!Show
    <3>3. QED
      BY <2>3, <3>1, <3>2 DEF Client!TakeUpdate, OnlyMoves, Client!server
  <2>4. CASE Client!EndCall
    BY <2>4 DEF Client!EndCall, OnlyMoves, Client!server, Client!watches
  <2>5. CASE UNCHANGED <<Client!server, stream, view>>
    BY <2>5 DEF OnlyMoves, Client!server
  <2>6. QED
    BY <2>1, <2>2, <2>3, <2>4, <2>5
       DEF Client!Next, Client!Serve, Client!Listen, Client!BeginCall, Client!SetMode, Client!Stop,
           Client!Ask, Client!Subscribe, Client!Wait, Client!Watch, Client!Drop, Client!vars, Client!watches
<1>3. OnlyMoves => Client!ViewIsMove
  BY DEF OnlyMoves, Client!ViewIsMove, IsMove
<1>4. QED
  BY <1>1, <1>2, <1>3, ClientTypeCorrect, PTL DEF Client!Safety

(* A request that is not waiting has been proxied as it was made last.   *)
RequestsTaken ==
  \A k \in Client!Methods : k \notin fresh => called[k] = asked[k]

(* The safety core of RequestsProxied: of the requests of one kind made  *)
(* while another is proxied the last one is left to be proxied, unless it*)
(* is the one the server has been called with.                           *)
THEOREM RequestsKept ==
  ASSUME ClientConstants
  PROVE  Client!Safety => []RequestsTaken
<1>1. Client!Init => RequestsTaken
  BY DEF Client!Init, RequestsTaken
<1>2. Client!TypeOK /\ RequestsTaken /\ [Client!Next]_(Client!vars) => RequestsTaken'
  <2> SUFFICES ASSUME Client!TypeOK, RequestsTaken, [Client!Next]_(Client!vars)
               PROVE  RequestsTaken'
    OBVIOUS
  <2>0. DOMAIN asked = Client!Methods /\ DOMAIN called = Client!Methods
        /\ asked = [k \in Client!Methods |-> asked[k]] /\ called = [k \in Client!Methods |-> called[k]]
    BY DEF Client!TypeOK
  <2>1. ASSUME NEW k \in Client!Methods, Client!BeginCall(k) PROVE RequestsTaken'
    <3>1. /\ called' = [called EXCEPT ![k] = asked[k]] /\ asked' = asked /\ fresh' = fresh \ {k}
      BY <2>1 DEF Client!BeginCall
    <3> QED
      BY <2>0, <3>1 DEF RequestsTaken
  <2>2. ASSUME NEW k \in Client!Methods, NEW arg, Client!Ask(k, arg) PROVE RequestsTaken'
    <3>1. /\ asked' = [asked EXCEPT ![k] = arg] /\ called' = called /\ fresh' = fresh \union {k}
      BY <2>2 DEF Client!Ask
    <3> QED
      BY <2>0, <3>1 DEF RequestsTaken
  <2>3. CASE UNCHANGED <<asked, called, fresh>>
    BY <2>3 DEF RequestsTaken
  <2>4. {"set_mode", "stop"} \subseteq Client!Methods
    BY DEF Client!Methods
  <2> QED
    BY <2>1, <2>2, <2>3, <2>4
    DEF Client!Next, Client!Move, Client!Serve, Client!Announce, Client!Listen, Client!EndCall,
        Client!TakeUpdate, Client!SetMode, Client!Stop, Client!Subscribe, Client!Wait,
        Client!Watch, Client!Drop, Client!vars
<1> QED
  BY <1>1, <1>2, ClientTypeCorrect, PTL DEF Client!Safety

-----------------------------------------------------------------------------
(* A client that listens.                                                *)
Listens == mode # "Init" => proxy \in {"idle", "calling"} /\ subs # {}

(* The newest word of the mode is the update to be announced, else the last*)
(* one in the stream, else the view, unless it is one to be ignored.     *)
CatchesUp ==
  /\ mode = "Init" => ~pending /\ stream = <<>>
  /\ mode # "Init" => update.new = mode /\ (Client!Change(update) \/ Client!Repeated)
  /\ ~pending /\ stream # <<>> => stream[Len(stream)] = update
  /\ ~pending /\ stream = <<>> /\ mode # "Init" => view.new = mode \/ Client!Repeated

(* A move along an arrow is worth telling, from Emergency to itself not. *)
LEMMA MovesAreChanges ==
  ASSUME NEW from \in Client!Server!Modes, NEW to \in Client!Server!Modes,
         Client!Server!Edge(from, to)
  PROVE  LET u == [old |-> Client!Server!Reported(from), new |-> Client!Server!Reported(to)]
         IN  /\ u.new = to /\ to # "Init"
             /\ Client!Change(u) \/ u = [old |-> "Emergency", new |-> "Emergency"]
<1>1. to # "Init"
  BY DEF Client!Server!Edge
<1>2. Client!Server!Reported(to) = to /\ to # "Unknown"
  BY <1>1 DEF Client!Server!Reported, Client!Server!Modes, Client!Server!Outputs
<1>3. CASE from # to
  <2>1. Client!Server!Reported(from) # to
    BY <1>2, <1>3 DEF Client!Server!Reported
  <2> QED
    BY <1>1, <1>2, <2>1 DEF Client!Change
<1>4. CASE from = to
  <2>1. to = "Emergency"
    BY <1>4 DEF Client!Server!Edge
  <2> QED
    BY <1>2, <1>4, <2>1 DEF Client!Server!Reported
<1> QED
  BY <1>3, <1>4

(* Nothing on the way of an update loses the newest one.                 *)
LEMMA CatchesUpStep ==
  ASSUME ClientConstants, Client!TypeOK, CatchesUp, Listens, Listens',
         [Client!Next]_(Client!vars)
  PROVE  CatchesUp'
<1> USE DEF Client!server, Client!watches
<1>0. stream \in Seq(Client!Server!Updates) /\ update \in Client!Server!Updates
      /\ Len(stream) \in Nat
  BY LenIsNat DEF Client!TypeOK
<1>1. ASSUME NEW to \in Used, Client!Move(to) PROVE CatchesUp'
  <2>1. to \in Client!Server!Modes /\ mode \in Client!Server!Modes
    BY <1>1 DEF ClientConstants, Client!TypeOK, Client!Move
  <2>2. /\ mode' = to /\ pending' = TRUE /\ UNCHANGED <<stream, view>>
        /\ update' = [old |-> Client!Server!Reported(mode), new |-> Client!Server!Reported(to)]
        /\ Client!Server!Edge(mode, to)
    BY <1>1 DEF Client!Move, Client!Server!Move
  <2>3. /\ update'.new = mode' /\ mode' # "Init"
        /\ (Client!Change(update) \/ Client!Repeated)'
    BY <2>1, <2>2, MovesAreChanges DEF Client!Change, Client!Repeated
  <2> QED
    BY <2>2, <2>3 DEF CatchesUp
<1>2. CASE Client!Announce
  <2>1. /\ pending /\ pending' = FALSE /\ UNCHANGED <<mode, update, view, proxy>>
        /\ stream' = IF proxy \in {"idle", "calling"} THEN Append(stream, update) ELSE stream
    BY <1>2 DEF Client!Announce, Client!Server!Announce
  <2>2. mode # "Init" /\ proxy \in {"idle", "calling"}
    BY <2>1 DEF CatchesUp, Listens
  <2>3. stream' = Append(stream, update)
    BY <2>1, <2>2
  <2>4. Len(stream') = Len(stream) + 1 /\ stream'[Len(stream) + 1] = update
    BY <2>3, <1>0, AppendUpdate
  <2>5. stream' # <<>> /\ stream'[Len(stream')] = update
    BY <1>0, <2>4, NoUpdates
  <2> QED
    BY <2>1, <2>2, <2>5 DEF CatchesUp, Client!Change, Client!Repeated
<1>3. CASE Client!TakeUpdate
  <2>1. /\ stream # <<>> /\ stream' = Tail(stream) /\ Client!Show(Head(stream))
        /\ UNCHANGED <<mode, update, pending, subs>>
    BY <1>3 DEF Client!TakeUpdate
  <2>2. /\ Head(stream) = stream[1] /\ 1 \in 1..Len(stream) /\ Len(stream) \in Nat \ {0}
        /\ Tail(stream) \in Seq(Client!Server!Updates) /\ Len(stream') = Len(stream) - 1
        /\ \A i \in 1..Len(stream') : stream'[i] = stream[i + 1] /\ i + 1 \in 1..Len(stream)
    BY <1>0, <2>1, TakenUpdate
  <2>3. mode # "Init" /\ subs # {}
    BY <2>1 DEF CatchesUp, Listens
  <2>4. Client!Change(stream[1]) => view' = stream[1]
    BY <2>1, <2>2, <2>3 DEF Client!Show
  <2>5. ASSUME ~pending, stream' # <<>> PROVE stream'[Len(stream')] = update
    <3>1. Len(stream') # 0
      BY <2>1, <2>2, <2>5
    <3>2. Len(stream') \in 1..Len(stream') /\ Len(stream') + 1 = Len(stream)
      BY <2>2, <3>1
    <3> QED
      BY <2>1, <2>2, <2>5, <3>2 DEF CatchesUp
  <2>6. ASSUME ~pending, stream' = <<>> PROVE view'.new = mode \/ Client!Repeated
    <3>1. Len(stream) = 1
      BY <2>2, <2>6, NoUpdates
    <3>2. stream[1] = update
      BY <2>1, <2>6, <3>1 DEF CatchesUp
    <3> QED
      BY <2>3, <2>4, <3>2 DEF CatchesUp
  <2> QED
    BY <2>1, <2>3, <2>5, <2>6 DEF CatchesUp, Client!Change, Client!Repeated
<1>4. CASE Client!EndCall
  <2>1. UNCHANGED <<mode, update, pending, view>> /\ stream' \in {stream, <<>>}
    BY <1>4 DEF Client!EndCall
  <2>2. mode # "Init" => stream' = stream
    BY <1>4, <2>1 DEF Client!EndCall, Listens
  <2>3. stream' = stream
    BY <2>1, <2>2 DEF CatchesUp
  <2> QED
    BY <2>1, <2>3 DEF CatchesUp, Client!Change, Client!Repeated
<1>5. CASE UNCHANGED <<mode, update, pending, stream, view>>
  BY <1>5 DEF CatchesUp, Client!Change, Client!Repeated
<1> QED
  BY <1>1, <1>2, <1>3, <1>4, <1>5
  DEF Client!Next, Client!Serve, Client!Listen, Client!BeginCall, Client!SetMode, Client!Stop,
      Client!Ask, Client!Subscribe, Client!Wait, Client!Watch, Client!Drop, Client!vars

(* It holds at the start.                                                *)
LEMMA CatchesUpInit == Client!Init => CatchesUp
<1>1. Client!Init => mode = "Init" /\ pending = FALSE /\ stream = <<>>
  BY DEF Client!Init, Client!Server!Init
<1>2. Len(<<>>) = 0
  BY NoUpdates
<1> QED
  BY <1>1, <1>2 DEF CatchesUp

(* The safety core of FollowsMode: mode() of the client is the mode of the*)
(* server whenever no update is on its way, however many were conflated, *)
(* but for an Emergency the server has been told of again.               *)
THEOREM ViewCatchesUp ==
  ASSUME ClientConstants
  PROVE  Client!Safety /\ Client!ListensFirst =>
           [](~pending /\ stream = <<>> /\ mode # "Init" =>
                view.new = mode \/ Client!Repeated)
<1>1. Client!TypeOK /\ CatchesUp /\ Listens /\ Listens' /\ [Client!Next]_(Client!vars) => CatchesUp'
  BY CatchesUpStep
<1>2. CatchesUp => (~pending /\ stream = <<>> /\ mode # "Init" =>
                      view.new = mode \/ Client!Repeated)
  BY DEF CatchesUp
<1>3. Client!Safety => []Client!TypeOK
  BY ClientTypeCorrect
<1>4. Client!ListensFirst => []Listens
  BY PTL DEF Client!ListensFirst, Listens
<1> QED
  BY <1>1, <1>2, <1>3, <1>4, CatchesUpInit, PTL DEF Client!Safety

(* Who began to wait for the entry of the mode before the server was in it.*)
Waits(s) == s.on = "entry" /\ mode = s.mode /\ waiting[s] \notin {"", s.mode}

(* None of them waits in vain: the update is on its way, or the task of the*)
(* subscription has yet to look at it, or it is one to be ignored.       *)
NoneInVain ==
  /\ \A s \in Subs : waiting[s] # "" => s \in subs
  /\ mode = "Init" => \A s \in Subs : waiting[s] \in {"", "Init"}
  /\ \A s \in Subs :
       Waits(s) => pending \/ stream # <<>> \/ s \in unlooked \/ Client!Repeated

(* An announcement reaches the stream, and the last update taken from it *)
(* is shown to every subscription, unless it is one to be ignored.       *)
LEMMA UpdatesTravel ==
  ASSUME Client!TypeOK, CatchesUp, Listens
  PROVE  /\ Client!Announce => stream' # <<>>
         /\ Client!TakeUpdate =>
              pending \/ stream' # <<>> \/ unlooked' = subs \/ Client!Repeated
<1>0. stream \in Seq(Client!Server!Updates) /\ update \in Client!Server!Updates
      /\ Len(stream) \in Nat
  BY LenIsNat DEF Client!TypeOK
<1>1. ASSUME Client!Announce PROVE stream' # <<>>
  <2>1. pending /\ stream' = IF proxy \in {"idle", "calling"} THEN Append(stream, update) ELSE stream
    BY <1>1 DEF Client!Announce, Client!Server!Announce
  <2>2. stream' = Append(stream, update)
    BY <2>1 DEF CatchesUp, Listens
  <2>3. Len(stream') = Len(stream) + 1
    BY <1>0, <2>2, AppendUpdate
  <2> QED
    BY <1>0, <2>3, NoUpdates
<1>2. ASSUME Client!TakeUpdate, ~pending, stream' = <<>>
      PROVE  unlooked' = subs \/ Client!Repeated
  <2>1. stream # <<>> /\ stream' = Tail(stream) /\ Client!Show(Head(stream))
    BY <1>2 DEF Client!TakeUpdate
  <2>2. Head(stream) = stream[1] /\ Len(stream) \in Nat /\ Len(stream') = Len(stream) - 1
    BY <1>0, <2>1, TakenUpdate
  <2>3. Len(stream) = 1
    BY <1>2, <2>2, NoUpdates
  <2>4. stream[Len(stream)] = update /\ mode # "Init"
    BY <1>2, <2>1 DEF CatchesUp
  <2>5. Head(stream) = update
    BY <2>2, <2>3, <2>4
  <2> QED
    BY <2>1, <2>4, <2>5 DEF CatchesUp, Listens, Client!Show
<1> QED
  BY <1>1, <1>2

(* Looking at the view ends the wait, if it is the newest update.        *)
LEMMA NoneInVainStep ==
  ASSUME Client!TypeOK, CatchesUp, Listens, Listens', NoneInVain,
         [Client!Next]_(Client!vars)
  PROVE  NoneInVain'
<1> USE DEF NoneInVain, Waits, Client!server, Client!watches, Client!Repeated
<1>1. ASSUME NEW to \in Used, Client!Move(to) PROVE NoneInVain'
  <2>1. pending' = TRUE /\ mode' = to /\ to # "Init" /\ UNCHANGED <<waiting, subs>>
    BY <1>1 DEF Client!Move, Client!Server!Move, Client!Server!Edge
  <2> QED
    BY <2>1
<1>2. CASE Client!Announce
  BY <1>2, UpdatesTravel DEF Client!Announce, Client!Server!Announce
<1>3. CASE Client!TakeUpdate
  BY <1>3, UpdatesTravel DEF Client!TakeUpdate
<1>4. ASSUME NEW s \in Subs, Client!Wait(s) PROVE NoneInVain'
  BY <1>4 DEF Client!Wait, Client!TypeOK
<1>5. ASSUME NEW s \in Subs, Client!Watch(s) PROVE NoneInVain'
  <2>1. /\ waiting' = IF Client!Matches(s, view) THEN [waiting EXCEPT ![s] = ""] ELSE waiting
        /\ unlooked' = unlooked \ {s} /\ UNCHANGED <<mode, update, pending, stream, view, subs>>
    BY <1>5 DEF Client!Watch
  <2>2. ASSUME Waits(s), ~pending, stream = <<>>, ~Client!Repeated PROVE waiting'[s] = ""
    <3>1. mode # "Init" /\ mode = s.mode /\ s.on = "entry"
      BY <2>2
    <3>2. view.new = mode
      BY <2>2, <3>1 DEF CatchesUp
    <3> QED
      BY <2>1, <3>1, <3>2 DEF Client!Matches, Client!TypeOK
  <2>3. ASSUME NEW r \in Subs, r # s PROVE waiting'[r] = waiting[r] /\ (r \in unlooked' <=> r \in unlooked)
    BY <2>1, <2>3 DEF Client!TypeOK
  <2>4. waiting'[s] \in {waiting[s], ""}
    BY <2>1 DEF Client!TypeOK
  <2> QED
    BY <2>1, <2>2, <2>3, <2>4
<1>6. ASSUME NEW s \in Subs, Client!Subscribe(s) PROVE NoneInVain'
  BY <1>6 DEF Client!Subscribe
<1>7. CASE Client!EndCall
  BY <1>7 DEF Client!EndCall, CatchesUp, Listens
<1>8. CASE UNCHANGED <<mode, update, pending, stream, waiting, subs, unlooked>>
  BY <1>8
<1> QED
  BY <1>1, <1>2, <1>3, <1>4, <1>5, <1>6, <1>7, <1>8
  DEF Client!Next, Client!Serve, Client!Listen, Client!BeginCall, Client!SetMode, Client!Stop,
      Client!Ask, Client!Drop, Client!vars

(* The safety core of EntryNotified: a program is not left waiting for the*)
(* entry of a mode the server has gone into since; what ends its wait is *)
(* still in the watch of the server, in the stream or unlooked at, but for*)
(* an Emergency the server has been told of again.                       *)
THEOREM EntriesAreTold ==
  ASSUME ClientConstants
  PROVE  Client!Safety /\ Client!ListensFirst =>
           [](\A s \in Subs :
                Waits(s) => pending \/ stream # <<>> \/ s \in unlooked \/ Client!Repeated)
<1>1. Client!TypeOK /\ CatchesUp /\ Listens /\ Listens' /\ [Client!Next]_(Client!vars) => CatchesUp'
  BY CatchesUpStep
<1>2. /\ Client!TypeOK /\ CatchesUp /\ Listens /\ Listens' /\ NoneInVain
      /\ [Client!Next]_(Client!vars)
      => NoneInVain'
  BY NoneInVainStep
<1>3. Client!Init => NoneInVain
  BY DEF Client!Init, NoneInVain, Waits
<1>4. NoneInVain =>
        \A s \in Subs :
          Waits(s) => pending \/ stream # <<>> \/ s \in unlooked \/ Client!Repeated
  BY DEF NoneInVain
<1>5. Client!Safety => []Client!TypeOK
  BY ClientTypeCorrect
<1>6. Client!ListensFirst => []Listens
  BY PTL DEF Client!ListensFirst, Listens
<1> QED
  BY <1>1, <1>2, <1>3, <1>4, <1>5, <1>6, CatchesUpInit, PTL DEF Client!Safety

-----------------------------------------------------------------------------
(* Both together.                                                        *)

(* What set_mode and stop are called with.                               *)
CallsTyped ==
  /\ asked \in [Client!Methods -> Requests \union {"", "reason"}]
  /\ called \in [Client!Methods -> Requests \union {"", "reason"}]
  /\ asked["set_mode"] \in Requests \union {""} /\ called["set_mode"] \in Requests \union {""}
  /\ asked["stop"] \in {"", "reason"} /\ called["stop"] \in {"", "reason"}
  /\ calling \in Client!Methods \union {"none"} /\ (proxy = "calling" => calling \in Client!Methods)

(* Only the program and the proxying task touch a request.               *)
LEMMA CallsTypedStep == CallsTyped /\ [SystemNext]_system => CallsTyped'
<1> SUFFICES ASSUME CallsTyped, [SystemNext]_system PROVE CallsTyped'
  OBVIOUS
<1> USE DEF CallsTyped, Client!Methods
<1>1. CASE UNCHANGED <<asked, called, calling, proxy>>
  BY <1>1
<1>2. ASSUME NEW k \in Client!Methods, Client!BeginCall(k) PROVE CallsTyped'
  <2>1. k = "set_mode" \/ k = "stop"
    OBVIOUS
  <2> QED
    BY <1>2, <2>1 DEF Client!BeginCall
<1>3. ASSUME NEW m \in Requests, Client!SetMode(m) PROVE CallsTyped'
  BY <1>3 DEF Client!SetMode, Client!Ask
<1>4. CASE Client!Stop
  BY <1>4 DEF Client!Stop, Client!Ask
<1>5. CASE Client!EndCall
  BY <1>5 DEF Client!EndCall
<1>6. CASE Client!Listen
  BY <1>6 DEF Client!Listen
<1> QED
  BY <1>1, <1>2, <1>3, <1>4, <1>5, <1>6
  DEF SystemNext, ServerStep, ClientStep, Call, Tell, program, system, Client!TakeUpdate,
      Client!Subscribe, Client!Wait, Client!Watch, Client!Drop, Client!Announce, Client!watches

(* What the server does on its own is a move of the abstract one, its    *)
(* registration or nothing a client could see.                           *)
LEMMA ServerStepsMap ==
  ASSUME Outputs \subseteq Used, mode \in Modes, ServerStep
  PROVE  [Client!Next]_(Client!vars)
<1> USE DEF program, machine, Client!server, Client!watches
<1>1. ASSUME NEW to \in Modes, Accept(to) PROVE Client!Next
  <2>1. to \in Outputs /\ MM!Edge(mode, to)
    BY <1>1, TransitionsFollowEdges DEF Accept
  <2>2. Client!Server!Move(to)
    BY <1>1, <2>1 DEF Accept, MM!Edge, MM!Reported, Client!Server!Edge, Client!Server!Reported,
       Client!Server!Move
  <2>3. Client!Move(to)
    BY <1>1, <2>2 DEF Accept, Client!Move, ServerStep
  <2> QED
    BY <2>1, <2>3 DEF Client!Next
<1>2. CASE Register
  BY <1>2 DEF Register, Client!Serve, Client!Next, ServerStep
<1>3. CASE UNCHANGED <<mode, update, pending, serving>>
  BY <1>3 DEF Client!vars, ServerStep
<1> QED
  BY <1>1, <1>2, <1>3 DEF ServerStep, Input, Process, Press, Receive, SetMode, StopWithReason,
     Callback, Wake, Fire, Take, Reject

(* For its client the real server, with its events, timers and other     *)
(* callers, is the abstract one: what was checked and proved of the client*)
(* against that holds of the two together.                               *)
THEOREM SystemImplementsClient ==
  ASSUME ClientConstants, Outputs \subseteq Used
  PROVE  SystemSafety => ImplementsClient
<1>1. SystemInit => Client!Init /\ mode \in Modes
  BY DEF SystemInit, Init, Modes, MM!Modes
<1>2. mode \in Modes /\ [SystemNext]_system => [Client!Next]_(Client!vars)
  <2> SUFFICES ASSUME mode \in Modes, [SystemNext]_system PROVE [Client!Next]_(Client!vars)
    OBVIOUS
  <2>1. CASE ServerStep
    BY <2>1, ServerStepsMap
  <2>2. CASE ClientStep
    BY <2>2 DEF ClientStep, Client!Next
  <2>3. CASE Call \/ Tell
    BY <2>3 DEF Call, Tell, Client!Next
  <2>4. CASE UNCHANGED system
    BY <2>4 DEF system, vars, program, Client!vars, Client!server, Client!watches
  <2> QED
    BY <2>1, <2>2, <2>3, <2>4 DEF SystemNext
<1>3. mode \in Modes /\ [SystemNext]_system => (mode \in Modes)'
  <2> SUFFICES ASSUME mode \in Modes, [SystemNext]_system PROVE mode' \in Modes
    OBVIOUS
  <2>1. ASSUME NEW to \in Modes, Accept(to) PROVE mode' \in Modes
    BY <2>1 DEF Accept
  <2>2. CASE UNCHANGED mode
    BY <2>2
  <2> QED
    BY <2>1, <2>2 DEF SystemNext, ServerStep, ClientStep, Call, Tell, system, vars, machine, Input,
       Process, Press, Receive, SetMode, StopWithReason, Callback, Wake, Fire, Take, Reject,
       Register, Announce, Client!server, Client!watches, Client!Listen, Client!TakeUpdate,
       Client!BeginCall, Client!SetMode, Client!Stop, Client!Ask, Client!Subscribe, Client!Wait,
       Client!Watch, Client!Drop, Client!EndCall
<1> QED
  BY <1>1, <1>2, <1>3, PTL DEF SystemSafety, ImplementsClient, Client!Safety

(* The calls of the client are calls a D-Bus client may make.            *)
LEMMA CallsMap ==
  ASSUME ClientConstants, DBusCalls \subseteq Sources, {"", "reason"} \subseteq Reasons,
         CallsTyped, Call
  PROVE  [Next]_vars
<1> DEFINE arg == called[calling]
<1>1. /\ proxy = "calling" /\ calling \in Client!Methods
      /\ UNCHANGED <<mode, update, pending, serving>>
      /\ IF Client!Accepts(calling, arg) THEN Send(CallEvent(calling, arg)) ELSE UNCHANGED cell
      /\ UNCHANGED <<machine, taken, level, unseen, firing>>
  BY DEF Call, Client!EndCall, CallsTyped, Client!server, machine
<1>2. CASE ~Client!Accepts(calling, arg)
  BY <1>1, <1>2 DEF vars, machine
<1>3. CASE Client!Accepts(calling, arg) /\ calling = "stop"
  <2>1. arg \in Reasons /\ serving /\ Send(SetStopped(arg))
    BY <1>1, <1>3 DEF CallsTyped, CallEvent, Client!Accepts
  <2>2. StopWithReason(arg)
    BY <1>1, <2>1 DEF StopWithReason, DBusCalls
  <2> QED
    BY <2>1, <2>2 DEF Next, Input
<1>4. CASE Client!Accepts(calling, arg) /\ calling = "set_mode"
  <2>1. serving /\ arg \in Outputs
    <3>1. arg \in Requests \union {""} /\ arg \notin {"", "Unknown"} /\ serving
      BY <1>4 DEF CallsTyped, Client!Accepts
    <3> QED
      BY <3>1 DEF ClientConstants, Client!Server!ReportedModes, Client!Server!Outputs, Outputs, MM!Outputs
  <2> HIDE DEF arg
  <2>2. CallEvent("set_mode", arg) \in SetModeEvents
    BY <2>1 DEF CallEvent, SetModeEvents, Outputs, MM!Outputs
  <2>3. SetMode(CallEvent("set_mode", arg))
    BY <1>1, <1>4, <2>1 DEF SetMode, DBusCalls
  <2> QED
    BY <2>2, <2>3 DEF Next, Input
<1> QED
  BY <1>1, <1>2, <1>3, <1>4 DEF Client!Methods

(* For the server its client is one of its callers, whatever it asks for *)
(* and even when it has been dropped: what is proved of the server for any*)
(* callers holds of the two together.                                    *)
THEOREM SystemImplementsServer ==
  ASSUME ClientConstants, DBusCalls \subseteq Sources, {"", "reason"} \subseteq Reasons
  PROVE  SystemSafety => ImplementsServer
<1>1. SystemInit => Init /\ CallsTyped
  BY DEF SystemInit, CallsTyped, Client!Init, Client!Methods
<1>2. CallsTyped /\ [SystemNext]_system => [Next]_vars
  <2> SUFFICES ASSUME CallsTyped, [SystemNext]_system PROVE [Next]_vars
    OBVIOUS
  <2>1. CASE ServerStep
    BY <2>1 DEF ServerStep, Next
  <2>2. CASE ClientStep
    <3>1. UNCHANGED <<mode, update, pending, serving>>
      BY <2>2 DEF ClientStep, Client!server, Client!watches, Client!Listen, Client!TakeUpdate,
         Client!BeginCall, Client!SetMode, Client!Stop, Client!Ask, Client!Subscribe,
         Client!Wait, Client!Watch, Client!Drop
    <3> QED
      BY <2>2, <3>1 DEF ClientStep, inside, vars
  <2>3. CASE Call
    BY <2>3, CallsMap
  <2>4. CASE Tell
    BY <2>4 DEF Tell, Next
  <2>5. CASE UNCHANGED system
    BY <2>5 DEF system
  <2> QED
    BY <2>1, <2>2, <2>3, <2>4, <2>5 DEF SystemNext
<1> QED
  BY <1>1, <1>2, CallsTypedStep, PTL DEF SystemSafety, ImplementsServer, Safety

(* So with a client in the system the signals still show the mode, the   *)
(* events of the levels are current and what a client knows is an arrow of*)
(* the mode graph, under one and the same set of assumptions.            *)
THEOREM SystemIsSafe ==
  ASSUME ClientConstants, DBusCalls \subseteq Sources, {"", "reason"} \subseteq Reasons,
         Outputs \subseteq Used
  PROVE  SystemSafety => [](OutputsMirrorMode /\ LevelEventsCurrent /\ Client!ViewIsMove)
<1>1. SystemSafety => Safety
  BY SystemImplementsServer DEF ImplementsServer
<1>2. SystemSafety => Client!Safety
  BY SystemImplementsClient DEF ImplementsClient
<1> QED
  BY <1>1, <1>2, OutputsFollowMode, LevelsStayCurrent, ViewsAreMoves, PTL
=============================================================================
