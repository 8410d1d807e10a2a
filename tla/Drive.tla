------------------------------- MODULE Drive -------------------------------
(***************************************************************************)
(* An i550 inverter on the bus (tfc-exes/ethercat/src/devices/lenze/       *)
(* i550.rs): its slots for the speed ratio and for the permission to run,  *)
(* the tasks that cache what arrives in them, the cyclic processing of a   *)
(* status word into a control word, and the drive at the other end.        *)
(*                                                                         *)
(* The drive is external and follows the profile the code implements; its  *)
(* status words are those of the table at parse_state.                     *)
(***************************************************************************)
EXTENDS Integers, CiA402

CONSTANTS
  Ratios,     (* speed ratios, in percent                                  *)
  NoRatio,    (* the slot has no value yet                                 *)
  StartRatio, (* the speed ratio of the configuration                      *)
  MinSpeed, MaxSpeed,  (* of the configuration, in either order            *)
  FreeBits    (* the bits that may be either where the table has an x      *)

ASSUME RatiosAssumption ==
  /\ Ratios \subseteq Int /\ NoRatio \notin Ratios /\ StartRatio \in Int
ASSUME SpeedsAssumption == MinSpeed \in Nat /\ MaxSpeed \in Nat
ASSUME BitsAssumption == FreeBits \subseteq StatusBits

VARIABLES
  ratio, ratioSeen,  (* the channel of the speedratio slot                 *)
  run, runSeen,      (* the channel of the run slot                        *)
  rpm_setpoint, run_cached,
  pc,        (* process_data: "idle", "decide", "check" or "pack"          *)
  status,    (* the status word of the last exchange                       *)
  word,      (* control_word                                               *)
  output,    (* control word and speed for the next exchange               *)
  power,     (* the state the drive is in                                  *)
  reported,  (* the state its last status word was made in                 *)
  command,   (* control word and speed the drive has                       *)
  resets,    (* whether it resets a fault on the "level" of the reset bit  *)
             (* or, as the profile has it, on its rising "edge"            *)
  edge,      (* the reset bit of it has risen and is not used up           *)
  cause      (* there is a cause for a fault                               *)

slots   == <<ratio, ratioSeen, run, runSeen>>
cached  == <<rpm_setpoint, run_cached>>
process == <<pc, word, output>>
drive   == <<power, command, resets, edge, cause>>
wire    == <<status, reported>>
vars    == <<slots, cached, process, wire, drive>>

-----------------------------------------------------------------------------
(* percentage_to_rpm: from the first percent on, the ratio is mapped to the*)
(* speeds, cut to an integer and saturated at 16 bits.                     *)
AbsOf(n)     == IF n < 0 THEN -n ELSE n
Saturated(n) == IF n > 32767 THEN 32767 ELSE IF n < -32768 THEN -32768 ELSE n

(* Truncates towards zero; d is positive.                                  *)
Quotient(n, d) == IF n < 0 THEN -((-n) \div d) ELSE n \div d

Mapped(p) ==
  LET clamped == IF p > 100 THEN 100 ELSE IF p < 1 THEN 1 ELSE p
  IN  Quotient((clamped - 1) * (MaxSpeed - MinSpeed) + MinSpeed * 99, 99)

(* Mutant: a negative ratio is cut to a negative percent by the clamp.     *)
MutRpm(p) ==
  IF AbsOf(p) < 1 THEN 0 ELSE Saturated(Mapped(p))

Rpm(p) ==
  IF AbsOf(p) < 1 THEN 0
  ELSE IF p < 0 THEN Saturated(-Mapped(-p)) ELSE Saturated(Mapped(p))

-----------------------------------------------------------------------------
Stopped == [word |-> {}, speed |-> 0]

Init ==
  /\ ratio = NoRatio /\ ratioSeen = TRUE /\ run = FALSE /\ runSeen = TRUE
  /\ rpm_setpoint = Rpm(StartRatio) /\ run_cached = FALSE
  /\ pc = "idle" /\ word = {} /\ output = Stopped
  /\ power \in {"NotReadyToSwitchOn", "SwitchOnDisabled", "Fault"}
  /\ reported = power /\ status \in {Ones[power]}
  /\ command = Stopped /\ resets \in {"level", "edge"} /\ edge = FALSE /\ cause \in BOOLEAN

(* Another program sends to a slot.                                        *)
SendRatio(p) ==
  /\ p # ratio
  /\ ratio' = p /\ ratioSeen' = FALSE
  /\ UNCHANGED <<run, runSeen, cached, process, wire, drive>>

SendRun(b) ==
  /\ b # run
  /\ run' = b /\ runSeen' = FALSE
  /\ UNCHANGED <<ratio, ratioSeen, cached, process, wire, drive>>

(* The two tasks.                                                          *)
TakeRatio ==
  /\ ~ratioSeen
  /\ rpm_setpoint' = Rpm(ratio) /\ ratioSeen' = TRUE
  /\ UNCHANGED <<ratio, run, runSeen, run_cached, process, wire, drive>>

TakeRun ==
  /\ ~runSeen
  /\ run_cached' = run /\ runSeen' = TRUE
  /\ UNCHANGED <<ratio, ratioSeen, run, rpm_setpoint, process, wire, drive>>

-----------------------------------------------------------------------------
(* process_data; the tasks run on other threads and get between its loads. *)

(* Mutant: a fault waits for somebody to ask for its reset.                *)
MutTold(action) == Transition(ParseState(status), action, FALSE)

Told(action) == Transition(ParseState(status), action, TRUE)

(* Mutant: the permission to run is looked at whatever the setpoint is.    *)
MutDecide ==
  /\ pc = "decide"
  /\ word' = Told("Stop") /\ pc' = "check"
  /\ UNCHANGED <<slots, cached, output, wire, drive>>

(* The word for a stop, and the first load of the setpoint.                *)
Decide ==
  /\ pc = "decide"
  /\ word' = Told("Stop")
  /\ pc'   = IF rpm_setpoint # 0 THEN "check" ELSE "pack"
  /\ UNCHANGED <<slots, cached, output, wire, drive>>

(* Mutant: a drive that runs is told to go on.                             *)
MutCheck ==
  /\ pc = "check"
  /\ word' = IF run_cached \/ ParseState(status) = "OperationEnabled" THEN Told("Run") ELSE word
  /\ pc'   = "pack"
  /\ UNCHANGED <<slots, cached, output, wire, drive>>

Check ==
  /\ pc = "check"
  /\ word' = IF run_cached THEN Told("Run") ELSE word
  /\ pc'   = "pack"
  /\ UNCHANGED <<slots, cached, output, wire, drive>>

(* The setpoint is loaded again.                                           *)
Pack ==
  /\ pc = "pack"
  /\ output' = [word |-> word, speed |-> rpm_setpoint]
  /\ pc' = "idle"
  /\ UNCHANGED <<slots, cached, word, wire, drive>>

(* What the drive may say of a state.                                      *)
Reports(state) == {w \in StatusWords(state) : w \ Ones[state] \subseteq FreeBits}

(* The next exchange of the bus: the drive gets the output, and the status *)
(* it answers with was made before it acts on it.                          *)
Exchange ==
  /\ pc = "idle"
  /\ command'  = output
  /\ edge'     = (edge \/ (resets = "edge" /\ "reset" \in output.word \ command.word))
  /\ reported' = power /\ status' \in Reports(power)
  /\ pc' = "decide"
  /\ UNCHANGED <<slots, cached, word, output, power, resets, cause>>

-----------------------------------------------------------------------------
(* The drive.                                                              *)

(* What a control word makes of a state.                                   *)
Ready(w) ==
  IF "on" \notin w THEN "ReadyToSwitchOn"
  ELSE IF "enable" \in w THEN "OperationEnabled" ELSE "SwitchedOn"

Obeyed(state, w) ==
  CASE state = "SwitchOnDisabled" ->
         IF {"voltage", "quick"} \subseteq w /\ "on" \notin w THEN Ready(w) ELSE state
    [] state \in {"ReadyToSwitchOn", "SwitchedOn", "OperationEnabled"} ->
         IF {"voltage", "quick"} \subseteq w THEN Ready(w)
         ELSE IF "voltage" \in w /\ state = "OperationEnabled" THEN "QuickStopActive"
         ELSE "SwitchOnDisabled"
    [] state = "QuickStopActive" -> IF "voltage" \notin w THEN "SwitchOnDisabled" ELSE state
    [] state = "NotReadyToSwitchOn"  -> "SwitchOnDisabled"
    [] state = "FaultReactionActive" -> "Fault"
    [] state = "Fault" -> state

Obey ==
  /\ Obeyed(power, command.word) # power
  /\ power' = Obeyed(power, command.word)
  /\ UNCHANGED <<slots, cached, process, wire, command, resets, edge, cause>>

(* A reset while the cause is there is of no use.                          *)
ResetFault ==
  /\ power = "Fault"
  /\ IF resets = "edge" THEN edge ELSE (~cause /\ "reset" \in command.word)
  /\ power' = IF cause THEN power ELSE "SwitchOnDisabled"
  /\ edge'  = FALSE
  /\ UNCHANGED <<slots, cached, process, wire, command, resets, cause>>

Trip ==
  /\ cause /\ power \notin {"FaultReactionActive", "Fault"}
  /\ power' = "FaultReactionActive"
  /\ UNCHANGED <<slots, cached, process, wire, command, resets, edge, cause>>

(* Somebody stops it at the drive itself.                                  *)
StopLocally ==
  /\ power = "OperationEnabled"
  /\ power' = "QuickStopActive"
  /\ UNCHANGED <<slots, cached, process, wire, command, resets, edge, cause>>

Cause ==
  /\ cause' = ~cause
  /\ UNCHANGED <<slots, cached, process, wire, power, command, resets, edge>>

-----------------------------------------------------------------------------
Next ==
  \/ \E p \in Ratios : SendRatio(p)
  \/ \E b \in BOOLEAN : SendRun(b)
  \/ TakeRatio \/ TakeRun
  \/ Decide \/ Check \/ Pack \/ Exchange
  \/ Obey \/ ResetFault \/ Trip \/ StopLocally \/ Cause

(* Tasks are polled, the bus keeps its cycle and the drive does what it is *)
(* told; nobody has to send or to clear a fault.                           *)
Fairness ==
  /\ WF_vars(TakeRatio) /\ WF_vars(TakeRun)
  /\ WF_vars(Decide \/ Check \/ Pack \/ Exchange)
  /\ WF_vars(Obey) /\ WF_vars(ResetFault)

Safety == Init /\ [][Next]_vars
Spec   == Safety /\ Fairness

-----------------------------------------------------------------------------
Speeds == {Rpm(p) : p \in Ratios \union {StartRatio}}
Words  == {Transition(s, "Stop", TRUE) : s \in States}
            \union {Transition(s, "Run", TRUE) : s \in States} \union {{}}

(* Types of the slots, the words and the drive.                            *)
TypeOK ==
  /\ ratio \in Ratios \union {NoRatio} /\ run \in BOOLEAN
  /\ ratioSeen \in BOOLEAN /\ runSeen \in BOOLEAN
  /\ rpm_setpoint \in Speeds /\ run_cached \in BOOLEAN
  /\ pc \in {"idle", "decide", "check", "pack"} /\ word \in Words
  /\ output \in [word : Words, speed : Speeds \union {0}] /\ command \in [word : Words, speed : Speeds \union {0}]
  /\ power \in States /\ reported \in States /\ status \in SUBSET StatusBits
  /\ resets \in {"level", "edge"} /\ edge \in BOOLEAN /\ cause \in BOOLEAN

(* The ratio that counts.                                                  *)
Wanted == IF ratio = NoRatio THEN StartRatio ELSE ratio

Slowest == IF MinSpeed <= MaxSpeed THEN MinSpeed ELSE MaxSpeed

(* A faster ratio never gives a slower setpoint (unless the speeds of the  *)
(* configuration are the wrong way round), the other way round gives the   *)
(* same one the other way round (but for the last step of 16 bits), and    *)
(* there is no setpoint between standstill and the slowest speed, or what  *)
(* 16 bits hold of it.                                                     *)
SpeedFollowsRatio ==
  ratioSeen =>
    /\ \A q \in Ratios \union {StartRatio} :
         /\ MinSpeed <= MaxSpeed /\ q <= Wanted => Rpm(q) <= rpm_setpoint
         /\ q = -Wanted => AbsOf(Rpm(q) + rpm_setpoint) <= 1
    /\ rpm_setpoint = 0 \/ AbsOf(rpm_setpoint) >= Saturated(Slowest)

(* Once the permission to run is withdrawn for good the drive stays out of *)
(* operation, whatever ratios still arrive.                                *)
StopsWhenTold == <>[]~run => <>[](power # "OperationEnabled")

(* It does the same while the ratio is in the dead band.                   *)
RestsInDeadBand == <>[](Rpm(Wanted) = 0) => <>[](power # "OperationEnabled")

(* A drive that goes by the edge is in a fault, and the reset it is sent   *)
(* with every exchange has no edge left: the edge came while the cause was *)
(* there, or the bit was still up from the fault before.  process_data     *)
(* never takes the bit back while a fault is reported.                     *)
ResetSpent == power = "Fault" /\ resets = "edge" /\ ~edge /\ "reset" \in command.word

(* A permission and a ratio that stay bring the drive into operation again *)
(* and again, at that speed, whatever state it was found in or falls into  *)
(* and whatever faults there were before, unless the reset of one is spent.*)
RunsWhenTold ==
  \A p \in Ratios \union {StartRatio} :
    Rpm(p) # 0 /\ <>[](run /\ Wanted = p /\ ~cause) =>
      []<>((power = "OperationEnabled" /\ command.speed = Rpm(p)) \/ ResetSpent)

(* A drive that goes by the level is not left in a fault that has no cause *)
(* any more; one that goes by the edge only if its reset is spent.         *)
LeavesFault == <>[]~cause => []<>(power # "Fault" \/ ResetSpent)
=============================================================================
