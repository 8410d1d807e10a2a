---------------------------- MODULE TerminalBus ----------------------------
(***************************************************************************)
(* Digital input and output terminals                                      *)
(* (tfc-exes/ethercat/src/devices/beckhoff/el1xxx.rs and el2xxx.rs) on the *)
(* bus of EtherCatBus: inputs become signals, slots become outputs, when   *)
(* the bus processes the data of an exchange, one device after the other.  *)
(*                                                                         *)
(* One bit stands for the bits of a terminal, which are treated alike.     *)
(***************************************************************************)
EXTENDS EtherCatBus

CONSTANTS
  Inputs, Outputs, (* kinds of input and of output terminals               *)
  Longer           (* those with more process data than the code expects   *)

ASSUME TerminalsAssumption ==
  /\ Inputs \union Outputs \subseteq Implemented /\ Inputs \intersect Outputs = {}
  /\ Longer \subseteq Inputs \union Outputs
ASSUME NoneAssumption == None \notin BOOLEAN

VARIABLES
  wires,     (* what is connected to the inputs                            *)
  driven,    (* what the output terminals switch                           *)
  image,     (* the process data of the group                              *)
  turn,      (* the device that processes it next, 0 before the exchange   *)
  error,     (* of the object of either kind                               *)
  last_bits, (* of the object of an input terminal                         *)
  sent,      (* the value of its signal                                    *)
  slots,     (* the value of the slot of the object of an output terminal  *)
  unseen,    (* slots whose callback has not stored it                     *)
  stored     (* last_bits of that object                                   *)

plant     == <<wires, driven>>
input     == <<last_bits, sent>>
output    == <<slots, unseen, stored>>
terminals == <<plant, image, turn, error, input, output>>
allVars   == <<vars, terminals>>

Off   == [i \in Positions |-> FALSE]
Unset == [i \in Positions |-> None]

TerminalsInit ==
  /\ Init
  /\ wires = Off /\ driven = Off /\ image = Off /\ turn = 0 /\ error = Off
  /\ last_bits = Unset /\ sent = Unset
  /\ slots = Unset /\ unseen = {} /\ stored = Off

-----------------------------------------------------------------------------
(* The plant.                                                              *)

Switch(i) ==
  /\ i <= Len(line) /\ line[i] \in Inputs
  /\ wires' = [wires EXCEPT ![i] = ~@]
  /\ UNCHANGED <<vars, driven, image, turn, error, input, output>>

(* A terminal that is unplugged switches nothing and is told nothing.      *)
Replug ==
  /\ \E l \in Lines : Plug(l)
  /\ driven' = [i \in Positions |-> driven[i] /\ i \in Answering']
  /\ wires'  = [i \in Positions |-> wires[i] /\ i <= Len(line') /\ line'[i] \in Inputs]
  /\ UNCHANGED <<image, turn, error, input, output>>

-----------------------------------------------------------------------------
(* The slots of the output terminals.                                      *)

(* What a signal the slot is connected to sent.                            *)
SetSlot(i, b) ==
  /\ phase # "ended" /\ devices[i] \in Outputs /\ slots[i] # b
  /\ slots' = [slots EXCEPT ![i] = b] /\ unseen' = unseen \union {i}
  /\ UNCHANGED <<vars, plant, image, turn, error, input, stored>>

(* The recv callback.                                                      *)
Store(i) ==
  /\ phase # "ended" /\ i \in unseen
  /\ stored' = [stored EXCEPT ![i] = slots[i]] /\ unseen' = unseen \ {i}
  /\ UNCHANGED <<vars, plant, image, turn, error, input, slots>>

-----------------------------------------------------------------------------
(* Initialisation.  A new object knows nothing of the one before it.       *)
Renewed(f, initial) ==
  [i \in Positions |-> IF devices'[i] = devices[i] THEN f[i] ELSE initial[i]]

(* Mutant: a terminal goes on with what its predecessor was told.          *)
MutNewObjects ==
  /\ error'     = Renewed(error, Off)
  /\ last_bits' = Renewed(last_bits, Unset) /\ sent' = Renewed(sent, Unset)
  /\ slots'     = Renewed(slots, Unset)
  /\ unseen'    = {i \in unseen : devices'[i] = devices[i]}
  /\ UNCHANGED stored

NewObjects ==
  /\ error'     = Renewed(error, Off)
  /\ last_bits' = Renewed(last_bits, Unset) /\ sent'   = Renewed(sent, Unset)
  /\ slots'     = Renewed(slots, Unset)     /\ stored' = Renewed(stored, Off)
  /\ unseen'    = {i \in unseen : devices'[i] = devices[i]}

(* Outputs are off until the group is operational.                         *)
Initialise ==
  /\ InitFails \/ InitGroup
  /\ NewObjects
  /\ driven' = Off /\ image' = Off
  /\ UNCHANGED <<wires, turn>>

-----------------------------------------------------------------------------
(* An exchange reaches those that answer; while the line is disturbed, some*)
(* of them.                                                                *)
Reached(S) == S \subseteq Answering /\ (disturbed \/ S = Answering)

Exchanged(S) ==
  /\ driven' = [i \in Positions |-> IF i \in S /\ group[i] \in Outputs THEN image[i]
                                                                       ELSE driven[i]]
  /\ image'  = [i \in Positions |-> IF i \in S /\ group[i] \in Inputs THEN wires[i]
                                                                      ELSE image[i]]

(* One whose data is not processed is not looked at.                       *)
Cycle ==
  /\ turn = 0
  /\ \E wc \in 0..MaxDevices, S \in SUBSET Positions :
       /\ Counts(wc) /\ Reached(S)
       /\ Exchanged(S)
       /\ \/ Mismatch(wc) /\ UNCHANGED turn
          \/ Process(wc)  /\ turn' = IF group = <<>> THEN 0 ELSE 1
  /\ UNCHANGED <<wires, error, input, output>>

(* Everything else the bus does.                                           *)
Elsewhere ==
  /\ turn = 0
  /\ \/ Retry \/ SafeOpFails \/ IntoOp \/ ExchangeFails
     \/ \E wc \in 0..MaxDevices : Counts(wc) /\ Search(wc)
  /\ UNCHANGED terminals

-----------------------------------------------------------------------------
(* process_data.                                                           *)

NextTurn == turn' = IF turn = Len(group) THEN 0 ELSE turn + 1

(* An unexpected length is an error, unless it was one the time before.    *)
Refused == devices[turn] \in Longer /\ ~error[turn]

(* Mutant: a terminal starts with its bit off.                             *)
MutChanged == image[turn] # (IF last_bits[turn] = None THEN FALSE ELSE last_bits[turn])

(* The first value is a change.                                            *)
Changed == last_bits[turn] # image[turn]

ReadInputs ==
  /\ devices[turn] \in Inputs
  /\ IF Refused
     THEN UNCHANGED input
     ELSE /\ sent'      = IF Changed THEN [sent EXCEPT ![turn] = image[turn]] ELSE sent
          /\ last_bits' = [last_bits EXCEPT ![turn] = image[turn]]
  /\ UNCHANGED image

(* Mutant: the bits are set, not written.                                  *)
MutWritten == image[turn] \/ stored[turn]

Written == stored[turn]

WriteOutputs ==
  /\ devices[turn] \in Outputs
  /\ image' = IF Refused THEN image ELSE [image EXCEPT ![turn] = Written]
  /\ UNCHANGED input

Others ==
  /\ devices[turn] \notin Inputs \union Outputs
  /\ UNCHANGED <<image, input>>

ProcessData ==
  /\ phase # "ended" /\ turn > 0
  /\ ReadInputs \/ WriteOutputs \/ Others
  /\ error' = [error EXCEPT ![turn] = Refused]
  /\ NextTurn
  /\ UNCHANGED <<vars, plant, output>>

-----------------------------------------------------------------------------
BusTask == Initialise \/ Cycle \/ Elsewhere

BusNext ==
  \/ BusTask \/ ProcessData \/ Replug
  \/ (Disturb \/ Abort) /\ UNCHANGED terminals
  \/ \E i \in Positions :
       Switch(i) \/ Store(i) \/ \E b \in BOOLEAN : SetSlot(i, b)

(* The bus as in EtherCatBus; a device takes its turn, callbacks are called*)
BusFairness ==
  /\ WF_allVars(~disturbed /\ BusTask) /\ WF_allVars(ProcessData)
  /\ WF_allVars(Abort /\ UNCHANGED terminals)
  /\ \A i \in Positions : WF_allVars(Store(i))

TerminalSafety == TerminalsInit /\ [][BusNext]_allVars
TerminalSpec   == TerminalSafety /\ BusFairness

-----------------------------------------------------------------------------
(* An output is only on if the slot of the object that is there now was    *)
(* told something: not before, not because of what a predecessor was told, *)
(* and not because of what the process data held.                          *)
OffUntilTold == \A i \in Positions : driven[i] => slots[i] # None

Served(i, kinds) ==
  ~disturbed /\ phase = "op" /\ i \in Answering /\ devices[i] \in kinds

(* An input that stays is the value of its signal in the end, even if the  *)
(* terminal is new, never changes or has data of another length.           *)
InputsReported ==
  \A i \in Positions, b \in BOOLEAN :
    <>[](Served(i, Inputs) /\ wires[i] = b) => <>[](sent[i] = b)

(* A slot that stays is what its terminal switches in the end.             *)
OutputsWritten ==
  \A i \in Positions, b \in BOOLEAN :
    <>[](Served(i, Outputs) /\ slots[i] = b) => <>[](driven[i] = b)
=============================================================================
