------------------------------- MODULE CiA402 -------------------------------
(***************************************************************************)
(* The drive profile as the code sees it                                   *)
(* (tfc-exes/ethercat/src/devices/CiA402.rs): what a status word says and  *)
(* which control word answers it.  A word is the set of its bits that are  *)
(* set; bits the code does not look at are left out.                       *)
(***************************************************************************)
EXTENDS Integers

States == {"NotReadyToSwitchOn", "SwitchOnDisabled", "ReadyToSwitchOn", "SwitchedOn",
           "OperationEnabled", "QuickStopActive", "FaultReactionActive", "Fault"}

StatusBits  == {"ready", "on", "enabled", "fault", "voltage", "quick", "disabled"}
ControlBits == {"on", "voltage", "quick", "enable", "reset"}

ParseState(w) ==
  CASE "fault" \in w /\ {"enabled", "on", "ready"} \subseteq w       -> "FaultReactionActive"
    [] "fault" \in w /\ ~({"enabled", "on", "ready"} \subseteq w)    -> "Fault"
    [] "fault" \notin w /\ w \intersect {"ready", "on", "enabled", "disabled"} = {}
                                                                    -> "NotReadyToSwitchOn"
    [] OTHER ->
       IF "disabled" \in w                          THEN "SwitchOnDisabled"
       ELSE IF "quick" \notin w                     THEN "QuickStopActive"
       ELSE IF "ready" \in w /\ "on" \notin w       THEN "ReadyToSwitchOn"
       ELSE IF ~({"ready", "on", "voltage"} \subseteq w) THEN "NotReadyToSwitchOn"
       ELSE IF "enabled" \in w THEN "OperationEnabled" ELSE "SwitchedOn"

(* The constructors of ControlWord.                                        *)
Shutdown         == {"voltage", "quick"}
DisableOperation == {"on", "voltage", "quick"}
EnableOperation  == {"on", "voltage", "quick", "enable"}
QuickStop        == {"voltage"}
DisableVoltage   == {}
FaultReset       == {"reset"}

Actions == {"None", "Run", "Stop", "QuickStop", "FreewheelStop", "Reset"}

WhileEnabled(action) ==
  CASE action = "QuickStop"     -> QuickStop
    [] action = "FreewheelStop" -> DisableVoltage
    [] action = "Run"           -> EnableOperation
    [] OTHER                    -> DisableOperation

(* Mutant: the shortcut from ready to switch on is not taken.              *)
MutTransition(state, action, autoReset) ==
  CASE state \in {"SwitchOnDisabled", "NotReadyToSwitchOn", "ReadyToSwitchOn"} -> Shutdown
    [] state = "SwitchedOn" ->
         IF action = "Run" THEN EnableOperation ELSE DisableOperation
    [] state = "OperationEnabled" -> WhileEnabled(action)
    [] state = "Fault" ->
         IF action = "Reset" \/ autoReset THEN FaultReset ELSE Shutdown
    [] state = "QuickStopActive" ->
         IF action = "QuickStop" THEN QuickStop ELSE DisableVoltage
    [] state = "FaultReactionActive" -> DisableVoltage

Transition(state, action, autoReset) ==
  CASE state \in {"SwitchOnDisabled", "NotReadyToSwitchOn"} -> Shutdown
    [] state \in {"SwitchedOn", "ReadyToSwitchOn"} ->
         IF action = "Run" THEN EnableOperation ELSE DisableOperation
    [] state = "OperationEnabled" -> WhileEnabled(action)
    [] state = "Fault" ->
         IF action = "Reset" \/ autoReset THEN FaultReset ELSE Shutdown
    [] state = "QuickStopActive" ->
         IF action = "QuickStop" THEN QuickStop ELSE DisableVoltage
    [] state = "FaultReactionActive" -> DisableVoltage

(* The table in the comment of parse_state: the bits that are set and those*)
(* that are not; the others may be either.                                 *)
Ones == [NotReadyToSwitchOn  |-> {},
         SwitchOnDisabled    |-> {"disabled"},
         ReadyToSwitchOn     |-> {"quick", "ready"},
         SwitchedOn          |-> {"quick", "voltage", "on", "ready"},
         OperationEnabled    |-> {"quick", "voltage", "enabled", "on", "ready"},
         QuickStopActive     |-> {"voltage", "enabled", "on", "ready"},
         FaultReactionActive |-> {"fault", "enabled", "on", "ready"},
         Fault               |-> {"fault"}]
Either == [NotReadyToSwitchOn  |-> {"quick", "voltage"},
           SwitchOnDisabled    |-> {"quick", "voltage"},
           ReadyToSwitchOn     |-> {"voltage"},
           SwitchedOn          |-> {},
           OperationEnabled    |-> {},
           QuickStopActive     |-> {},
           FaultReactionActive |-> {"quick", "voltage"},
           Fault               |-> {"quick", "voltage"}]

StatusWords(state) == {Ones[state] \union x : x \in SUBSET Either[state]}
=============================================================================
