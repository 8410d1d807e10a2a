------------------------- MODULE TerminalBusProofs -------------------------
(***************************************************************************)
(* The bus gives data only to objects made for the device it is of, and it *)
(* is initialised again only for failures in a row.  With its terminals it *)
(* is still the bus, of which all this holds; no output is on before its   *)
(* slot was told something, and what a slot was told or an input read is   *)
(* not forgotten: for any line, any limits and any order of disturbances,  *)
(* swaps, retries and writes.                                              *)
(***************************************************************************)
EXTENDS TerminalBus, TLAPS

-----------------------------------------------------------------------------
(* The bus without its terminals.                                          *)

(* The counters before they are compared with their limits.                *)
WithinLimits ==
  /\ phase \in {"init", "sleep", "safe_op"} => attempts <= InitLimit
  /\ phase = "safe_op" => tries <= TryLimit

(* An object is one of a kind that is implemented, or there is none.       *)
ObjectsKnown == \A i \in Positions : devices[i] \in Implemented \union {None}

(* Not more failures are counted than exchanges were missed in a row.      *)
FailuresMissed == failures <= missed

TypeInv == TypeOK /\ WithinLimits

ObjectInv == ObjectsKnown /\ DevicesMatch

-----------------------------------------------------------------------------
(* Positions of a line are positions of the bus, with a kind in each.      *)
LEMMA LinePositions ==
  ASSUME TypeOK
  PROVE  /\ Len(line) \in Nat /\ Len(line) <= MaxDevices
         /\ \A i \in 1..Len(line) : line[i] \in Kinds /\ i \in Positions
<1>1. line \in Seq(Kinds) /\ Len(line) <= MaxDevices /\ MaxDevices \in Nat
  BY LinesAssumption DEF TypeOK
<1>2. Len(line) \in Nat /\ \A i \in 1..Len(line) : line[i] \in Kinds
  BY <1>1
<1> QED
  BY <1>1, <1>2 DEF Positions

(* The objects after an attempt that came to position n.                   *)
LEMMA ObjectsAfter ==
  ASSUME TypeOK, NEW n \in 0..Len(line)
  PROVE  /\ DevicesUpTo(n) \in [Positions -> Kinds \union {None}]
         /\ ObjectsKnown =>
              \A i \in Positions : DevicesUpTo(n)[i] \in Implemented \union {None}
         /\ ObjectsKnown =>
              \A i \in 1..n : i \in Positions /\ DevicesUpTo(n)[i] = MakeDevice(line[i])
<1>1. Len(line) \in Nat /\ \A i \in 1..Len(line) : line[i] \in Kinds /\ i \in Positions
  BY LinePositions
<1>2. \A i \in Positions : i <= n => i \in 1..n /\ i \in 1..Len(line)
  BY <1>1, LinesAssumption DEF Positions
<1>3. \A i \in Positions : devices[i] \in Kinds \union {None}
  BY DEF TypeOK
<1>4. \A i \in 1..n : Made(i) \in Kinds \union {None}
  BY <1>1, <1>3, LinesAssumption DEF Made, MakeDevice
<1>5. DevicesUpTo(n) \in [Positions -> Kinds \union {None}]
  BY <1>2, <1>3, <1>4 DEF DevicesUpTo
<1>6. ASSUME ObjectsKnown, NEW i \in 1..n
      PROVE  Made(i) = MakeDevice(line[i]) /\ Made(i) \in Implemented \union {None}
  <2>1. i \in Positions /\ line[i] \in Kinds
    BY <1>1
  <2>2. devices[i] = line[i] => line[i] \in Implemented
    BY <1>6, <2>1, LinesAssumption DEF ObjectsKnown
  <2> QED
    BY <2>2 DEF Made, MakeDevice
<1>7. \A i \in Positions : DevicesUpTo(n)[i] = IF i <= n THEN Made(i) ELSE devices[i]
  BY DEF DevicesUpTo
<1>8. \A i \in 1..n : i \in Positions /\ i <= n
  BY <1>1
<1> QED
  BY <1>2, <1>5, <1>6, <1>7, <1>8 DEF ObjectsKnown

(* The same attempt with what it drops.                                    *)
LEMMA SetupObjects ==
  ASSUME TypeOK, NEW n \in 0..Len(line), Setup(n)
  PROVE  /\ devices' = DevicesUpTo(n) /\ devices' \in [Positions -> Kinds \union {None}]
         /\ orphaned' \in BOOLEAN
<1>1. devices' = DevicesUpTo(n) /\ orphaned' \in BOOLEAN
  BY DEF Setup, TypeOK
<1> QED
  BY <1>1, ObjectsAfter

-----------------------------------------------------------------------------
(* Every variable of the bus keeps its type, and no counter exceeds its    *)
(* limit by more than the one that is compared with it.                    *)
LEMMA TypeStep == TypeInv /\ [Next]_vars => TypeInv'
<1> SUFFICES ASSUME TypeInv, [Next]_vars PROVE TypeInv'
  OBVIOUS
<1> USE LinesAssumption, LimitsAssumption DEF TypeInv, TypeOK, WithinLimits
<1>1. ASSUME NEW l \in Lines, Plug(l) PROVE TypeInv'
  BY <1>1 DEF Plug, objects, search, run
<1>2. CASE Disturb
  BY <1>2 DEF Disturb, objects, search, run
<1>3. CASE InitFails
  <2>1. devices' \in [Positions -> Kinds \union {None}] /\ orphaned' \in BOOLEAN
    BY <1>3, SetupObjects DEF InitFails
  <2> QED
    BY <1>3, <2>1 DEF InitFails, Failed, environment, search, run
<1>4. CASE InitGroup
  <2>1. Len(line) \in 0..Len(line)
    BY LinePositions
  <2>2. devices' \in [Positions -> Kinds \union {None}] /\ orphaned' \in BOOLEAN
    BY <1>4, <2>1, SetupObjects DEF InitGroup
  <2> QED
    BY <1>4, <2>2 DEF InitGroup, environment, run
<1>5. CASE Retry
  BY <1>5 DEF Retry, environment, objects, search, run
<1>6. CASE SafeOpFails
  BY <1>6 DEF SafeOpFails, Failed, environment, objects, search, run
<1>7. CASE IntoOp
  BY <1>7 DEF IntoOp, environment, objects, search
<1>8. ASSUME NEW wc \in 0..MaxDevices, Search(wc) PROVE TypeInv'
  <2>1. stable' \in 0..StableCount
    BY <1>8 DEF Search, StableAfter
  <2>2. tries' \in 0..(TryLimit + 1) /\ lastWc' \in 0..MaxDevices
    BY <1>8 DEF Search
  <2>3. /\ attempts' \in 0..(InitLimit + 1) /\ phase' \in {"sleep", "safe_op", "ended"}
        /\ phase' \in {"sleep", "safe_op"} => attempts' <= InitLimit
        /\ phase' = "safe_op" => tries' <= TryLimit
    BY <1>8, <2>2 DEF Search, Failed
  <2> QED
    BY <1>8, <2>1, <2>2, <2>3 DEF Search, environment, objects, run
<1>9. ASSUME NEW wc \in 0..MaxDevices, Mismatch(wc) PROVE TypeInv'
  BY <1>9 DEF Mismatch, Counted, environment, objects, search
<1>10. ASSUME NEW wc \in 0..MaxDevices, Process(wc) PROVE TypeInv'
  BY <1>10 DEF Process, environment, objects, search
<1>11. CASE ExchangeFails
  BY <1>11 DEF ExchangeFails, Counted, environment, objects, search
<1>12. CASE Abort
  BY <1>12 DEF Abort, environment, objects, search, run
<1>13. CASE UNCHANGED vars
  BY <1>13 DEF vars, environment, objects, search, run
<1> QED
  BY <1>1, <1>2, <1>3, <1>4, <1>5, <1>6, <1>7, <1>8, <1>9, <1>10, <1>11, <1>12, <1>13
     DEF Next, Task, Exchange

(* Types of the line, the group and the counters, for all limits.          *)
THEOREM TypeCorrect == Safety => []TypeInv
<1>1. Init => TypeInv
  <2> SUFFICES ASSUME Init PROVE TypeInv
    OBVIOUS
  <2>1. devices \in [Positions -> Kinds \union {None}] /\ orphaned \in BOOLEAN
    BY DEF Init
  <2>2. line \in Lines /\ group \in Lines \union {<<>>} /\ disturbed \in BOOLEAN
    BY DEF Init
  <2>3. /\ attempts = 0 /\ tries = 0 /\ stable = 0 /\ lastWc = 0 /\ expected = 0
        /\ failures = 0 /\ missed = 0 /\ phase = "init"
    BY DEF Init
  <2> QED
    BY <2>1, <2>2, <2>3, LinesAssumption, LimitsAssumption DEF TypeInv, TypeOK, WithinLimits
<1> QED
  BY <1>1, TypeStep, PTL DEF Safety

-----------------------------------------------------------------------------
(* The bus leaves operation only when FailLimit exchanges in a row were    *)
(* not processed, or with the program, whatever came before.               *)
THEOREM RestartsAreCaused == Safety => RestartsForCause
<1>1. Init => FailuresMissed
  BY DEF Init, FailuresMissed
<1>2. TypeInv /\ FailuresMissed /\ [Next]_vars => FailuresMissed'
  <2> SUFFICES ASSUME TypeInv, FailuresMissed, [Next]_vars PROVE FailuresMissed'
    OBVIOUS
  <2> USE LimitsAssumption DEF FailuresMissed, TypeInv, TypeOK
  <2>1. CASE UNCHANGED run
    BY <2>1 DEF run
  <2>2. CASE IntoOp
    BY <2>2 DEF IntoOp
  <2>3. ASSUME NEW wc \in 0..MaxDevices, Mismatch(wc) \/ Process(wc) PROVE FailuresMissed'
    BY <2>3 DEF Mismatch, Process, Counted
  <2>4. CASE ExchangeFails
    BY <2>4 DEF ExchangeFails, Counted
  <2> QED
    BY <2>1, <2>2, <2>3, <2>4
       DEF Next, Task, Exchange, Plug, Disturb, InitFails, InitGroup, Retry, SafeOpFails,
           Search, Abort, vars
<1>3. TypeInv /\ FailuresMissed /\ [Next]_vars
        => [phase = "op" /\ phase' # "op"
                => missed + 1 >= FailLimit \/ orphaned]_vars
  <2> SUFFICES ASSUME TypeInv, FailuresMissed, Next, phase = "op", phase' # "op",
                      ~orphaned
               PROVE  missed + 1 >= FailLimit
    OBVIOUS
  <2>1. PICK wc \in 0..MaxDevices : Mismatch(wc)
    BY DEF Next, Task, Exchange, Plug, Disturb, InitFails, InitGroup, Retry, SafeOpFails,
           IntoOp, Search, Process, ExchangeFails, Abort
  <2> QED
    BY <2>1, LimitsAssumption DEF Mismatch, FailuresMissed, TypeInv, TypeOK
<1> QED
  BY <1>1, <1>2, <1>3, TypeCorrect, PTL DEF Safety, RestartsForCause

-----------------------------------------------------------------------------
(* An attempt at initialisation, whatever the objects were before, leaves  *)
(* the objects of the group; nothing else touches them.                    *)
LEMMA ObjectStep == TypeInv /\ ObjectInv /\ [Next]_vars => ObjectInv'
<1> SUFFICES ASSUME TypeInv, ObjectInv, [Next]_vars PROVE ObjectInv'
  OBVIOUS
<1>1. CASE UNCHANGED <<devices, group>> /\ (phase' \in {"safe_op", "op"} => phase \in {"safe_op", "op"})
  BY <1>1 DEF ObjectInv, ObjectsKnown, DevicesMatch
<1>2. CASE InitFails
  <2>1. PICK n \in 0..Len(line) : devices' = DevicesUpTo(n)
    BY <1>2 DEF InitFails, Setup
  <2>2. ObjectsKnown'
    BY <2>1, ObjectsAfter DEF TypeInv, ObjectInv, ObjectsKnown
  <2>3. phase' \notin {"safe_op", "op"}
    BY <1>2 DEF InitFails, Failed
  <2> QED
    BY <2>2, <2>3 DEF ObjectInv, DevicesMatch
<1>3. CASE InitGroup
  <2>1. Len(line) \in 0..Len(line)
    BY LinePositions DEF TypeInv
  <2>2. devices' = DevicesUpTo(Len(line)) /\ group' = line
    BY <1>3 DEF InitGroup, Setup
  <2>3. ObjectsKnown'
    BY <2>1, <2>2, ObjectsAfter DEF TypeInv, ObjectInv, ObjectsKnown
  <2>4. \A i \in 1..Len(line) : devices'[i] = MakeDevice(line[i])
    BY <2>1, <2>2, ObjectsAfter DEF TypeInv, ObjectInv
  <2> QED
    BY <2>2, <2>3, <2>4 DEF ObjectInv, DevicesMatch, MakeDevice
<1> QED
  BY <1>1, <1>2, <1>3
     DEF Next, Task, Exchange, Plug, Disturb, Retry, SafeOpFails, IntoOp, Search, Failed,
         Mismatch, Process, ExchangeFails, Abort, objects, vars

(* Data never meets an object made for another kind of device.             *)
THEOREM ObjectsMatch == Safety => []DevicesMatch
<1>1. Init => ObjectInv
  BY DEF Init, ObjectInv, ObjectsKnown, DevicesMatch
<1>2. Safety => []ObjectInv
  BY <1>1, ObjectStep, TypeCorrect, PTL DEF Safety
<1> QED
  BY <1>2, PTL DEF ObjectInv

-----------------------------------------------------------------------------
(* The bus with its terminals.                                             *)

(* Every variable of the terminals has its type.                           *)
TerminalTypes ==
  /\ wires \in [Positions -> BOOLEAN] /\ driven \in [Positions -> BOOLEAN]
  /\ image \in [Positions -> BOOLEAN] /\ stored \in [Positions -> BOOLEAN]
  /\ slots \in [Positions -> BOOLEAN \union {None}] /\ unseen \subseteq Positions

(* What was stored, and what is to be, came from the slot of the object.   *)
StoredFromSlot ==
  /\ \A p \in unseen : slots[p] # None
  /\ \A p \in Positions : stored[p] => slots[p] # None

(* So does what the process data holds for an output.                      *)
ImageFromSlot ==
  \A p \in Positions :
    p <= Len(group) /\ group[p] \in Outputs /\ image[p] => slots[p] # None

OutputInv == TerminalTypes /\ StoredFromSlot /\ ImageFromSlot /\ OffUntilTold

-----------------------------------------------------------------------------
(* A step of the bus with its terminals is one of the bus, or leaves it.   *)
LEMMA BusStep == [BusNext]_allVars => [Next]_vars
<1> SUFFICES ASSUME [BusNext]_allVars PROVE Next \/ UNCHANGED vars
  OBVIOUS
<1>1. CASE BusTask
  BY <1>1 DEF BusTask, Initialise, Cycle, Elsewhere, Next, Task, Exchange
<1>2. CASE ProcessData
  BY <1>2 DEF ProcessData
<1>3. CASE Replug \/ ((Disturb \/ Abort) /\ UNCHANGED terminals)
  BY <1>3 DEF Replug, Next
<1>4. ASSUME NEW p \in Positions, Switch(p) \/ Store(p) \/ \E b \in BOOLEAN : SetSlot(p, b)
      PROVE  UNCHANGED vars
  BY <1>4 DEF Switch, Store, SetSlot
<1>5. CASE UNCHANGED allVars
  BY <1>5 DEF allVars
<1> QED
  BY <1>1, <1>2, <1>3, <1>4, <1>5 DEF BusNext

(* The composition implements the bus: what is proved of the bus holds of  *)
(* it, however terminals and swaps interleave with its task.               *)
THEOREM StaysTheBus == TerminalSafety => Safety
<1>1. TerminalsInit => Init
  BY DEF TerminalsInit
<1> QED
  BY <1>1, BusStep, PTL DEF TerminalSafety, Safety

(* Data of a terminal never meets an object of another kind.               *)
THEOREM TerminalsMatch == TerminalSafety => []DevicesMatch
  BY StaysTheBus, ObjectsMatch, PTL

-----------------------------------------------------------------------------
(* New objects and an attempt at initialisation.                           *)
LEMMA InitialiseStep == OutputInv /\ Initialise => OutputInv'
<1> SUFFICES ASSUME OutputInv, Initialise PROVE OutputInv'
  OBVIOUS
<1>1. /\ NewObjects /\ driven' = Off /\ image' = Off /\ wires' = wires
  BY DEF Initialise
<1>2. /\ slots' = [p \in Positions |-> IF devices'[p] = devices[p] THEN slots[p] ELSE None]
      /\ stored' = [p \in Positions |-> IF devices'[p] = devices[p] THEN stored[p] ELSE FALSE]
      /\ unseen' = {p \in unseen : devices'[p] = devices[p]}
  BY <1>1 DEF NewObjects, Renewed, Off, Unset
<1>3. TerminalTypes'
  BY <1>1, <1>2 DEF OutputInv, TerminalTypes, Off
<1>4. StoredFromSlot'
  BY <1>2 DEF OutputInv, TerminalTypes, StoredFromSlot
<1>5. ImageFromSlot' /\ OffUntilTold'
  BY <1>1 DEF ImageFromSlot, OffUntilTold, Off
<1> QED
  BY <1>3, <1>4, <1>5 DEF OutputInv

(* An exchange drives outputs from the process data and no other way.      *)
LEMMA CycleStep == TypeInv /\ OutputInv /\ Cycle => OutputInv'
<1> SUFFICES ASSUME TypeInv, OutputInv, Cycle PROVE OutputInv'
  OBVIOUS
<1>1. PICK S \in SUBSET Positions : Reached(S) /\ Exchanged(S)
  BY DEF Cycle
<1>2. UNCHANGED <<wires, slots, unseen, stored>>
  BY DEF Cycle, output
<1>3. group' = group
  BY DEF Cycle, Mismatch, Process
<1>4. /\ driven' = [p \in Positions |-> IF p \in S /\ group[p] \in Outputs
                                          THEN image[p] ELSE driven[p]]
      /\ image' = [p \in Positions |-> IF p \in S /\ group[p] \in Inputs
                                         THEN wires[p] ELSE image[p]]
  BY <1>1 DEF Exchanged
<1>5. \A p \in S : p \in Positions /\ p <= Len(group)
  <2>1. Len(group) \in Nat
    BY LinesAssumption DEF TypeInv, TypeOK
  <2> QED
    BY <1>1, <2>1 DEF Reached, Answering
<1>6. TerminalTypes'
  BY <1>2, <1>4 DEF OutputInv, TerminalTypes
<1>7. ImageFromSlot'
  BY <1>2, <1>3, <1>4, TerminalsAssumption DEF OutputInv, ImageFromSlot
<1>8. OffUntilTold'
  BY <1>2, <1>4, <1>5 DEF OutputInv, ImageFromSlot, OffUntilTold
<1> QED
  BY <1>2, <1>6, <1>7, <1>8 DEF OutputInv, StoredFromSlot

(* A turn writes what was stored, or nothing.                              *)
LEMMA TurnStep == OutputInv /\ ProcessData => OutputInv'
<1> SUFFICES ASSUME OutputInv, ProcessData PROVE OutputInv'
  OBVIOUS
<1>1. UNCHANGED <<wires, driven, slots, unseen, stored, group>>
  BY DEF ProcessData, vars, plant, output
<1>2. \/ image' = image
      \/ image' = [image EXCEPT ![turn] = stored[turn]]
  BY DEF ProcessData, ReadInputs, WriteOutputs, Others, Written
<1>3. TerminalTypes' /\ ImageFromSlot'
  <2>1. CASE image' = image
    BY <1>1, <2>1 DEF OutputInv, TerminalTypes, ImageFromSlot
  <2>2. CASE image' = [image EXCEPT ![turn] = stored[turn]]
    <3>1. \A p \in Positions :
            /\ image'[p] = IF p = turn THEN stored[p] ELSE image[p]
            /\ image'[p] \in BOOLEAN
      BY <2>2 DEF OutputInv, TerminalTypes
    <3>2. image' \in [Positions -> BOOLEAN]
      BY <2>2, <3>1 DEF OutputInv, TerminalTypes
    <3> QED
      BY <1>1, <3>1, <3>2 DEF OutputInv, TerminalTypes, StoredFromSlot, ImageFromSlot
  <2> QED
    BY <1>2, <2>1, <2>2
<1> QED
  BY <1>1, <1>3 DEF OutputInv, StoredFromSlot, OffUntilTold

(* A slot is told something, and its callback stores that.                 *)
LEMMA SlotStep ==
  ASSUME OutputInv, NEW p \in Positions, Store(p) \/ \E b \in BOOLEAN : SetSlot(p, b)
  PROVE  OutputInv'
<1>1. CASE Store(p)
  <2>1. /\ slots[p] # None /\ stored' = [stored EXCEPT ![p] = slots[p]]
        /\ unseen' \subseteq unseen
        /\ UNCHANGED <<wires, driven, image, slots, group>>
    BY <1>1 DEF Store, OutputInv, StoredFromSlot, vars, plant
  <2>2. stored' \in [Positions -> BOOLEAN]
    BY <2>1 DEF OutputInv, TerminalTypes
  <2>3. \A q \in Positions : stored'[q] => slots[q] # None
    BY <2>1 DEF OutputInv, TerminalTypes, StoredFromSlot
  <2> QED
    BY <2>1, <2>2, <2>3
       DEF OutputInv, TerminalTypes, StoredFromSlot, ImageFromSlot, OffUntilTold
<1>2. ASSUME NEW b \in BOOLEAN, SetSlot(p, b) PROVE OutputInv'
  <2>1. /\ slots' = [slots EXCEPT ![p] = b] /\ unseen' = unseen \union {p}
        /\ UNCHANGED <<wires, driven, image, stored, group>>
    BY <1>2 DEF SetSlot, vars, plant
  <2>2. b # None
    BY NoneAssumption
  <2>3. slots' \in [Positions -> BOOLEAN \union {None}] /\ slots'[p] # None
    BY <2>1, <2>2 DEF OutputInv, TerminalTypes
  <2>4. \A q : q # p => slots'[q] = slots[q]
    BY <2>1 DEF OutputInv, TerminalTypes
  <2> QED
    BY <2>1, <2>3, <2>4
       DEF OutputInv, TerminalTypes, StoredFromSlot, ImageFromSlot, OffUntilTold
<1> QED
  BY <1>1, <1>2

(* What the rest of the system does switches nothing on.                   *)
LEMMA OtherStep ==
  ASSUME OutputInv,
         \/ Elsewhere \/ Replug \/ ((Disturb \/ Abort) /\ UNCHANGED terminals)
         \/ \E p \in Positions : Switch(p)
         \/ UNCHANGED allVars
  PROVE  OutputInv'
<1>1. /\ UNCHANGED <<image, slots, unseen, stored, group>>
      /\ wires' \in [Positions -> BOOLEAN] /\ driven' \in [Positions -> BOOLEAN]
      /\ \A p \in Positions : driven'[p] => driven[p]
  <2> USE DEF OutputInv, TerminalTypes
  <2>1. CASE Elsewhere
    BY <2>1 DEF Elsewhere, terminals, plant, output, Retry, SafeOpFails, IntoOp,
                ExchangeFails, Search
  <2>2. CASE Replug
    BY <2>2 DEF Replug, Plug, output
  <2>3. CASE (Disturb \/ Abort) /\ UNCHANGED terminals
    BY <2>3 DEF Disturb, Abort, terminals, plant, output
  <2>4. ASSUME NEW p \in Positions, Switch(p)
        PROVE  /\ UNCHANGED <<image, slots, unseen, stored, group, driven>>
               /\ wires' \in [Positions -> BOOLEAN]
    BY <2>4 DEF Switch, vars, output
  <2>5. CASE UNCHANGED allVars
    BY <2>5 DEF allVars, vars, terminals, plant, output
  <2> QED
    BY <2>1, <2>2, <2>3, <2>4, <2>5
<1> QED
  BY <1>1 DEF OutputInv, TerminalTypes, StoredFromSlot, ImageFromSlot, OffUntilTold

(* What outputs rest on holds throughout.                                  *)
LEMMA OutputsKept == TerminalSafety => []OutputInv
<1>1. TerminalsInit => OutputInv
  BY DEF TerminalsInit, OutputInv, TerminalTypes, StoredFromSlot, ImageFromSlot,
         OffUntilTold, Off, Unset
<1>2. TypeInv /\ OutputInv /\ [BusNext]_allVars => OutputInv'
  BY InitialiseStep, CycleStep, TurnStep, SlotStep, OtherStep DEF BusNext, BusTask
<1>3. TerminalSafety => []TypeInv
  BY StaysTheBus, TypeCorrect, PTL
<1> QED
  BY <1>1, <1>2, <1>3, PTL DEF TerminalSafety

(* No output is on that its slot was not told of, even right after a swap, *)
(* a failed attempt or a restart of the bus.                               *)
THEOREM OutputsWaitForTheirSlots == TerminalSafety => []OffUntilTold
  BY OutputsKept, PTL DEF OutputInv
(* The composition is initialised again only for failures in a row, too.   *)
THEOREM TerminalsRestartForCause == TerminalSafety => RestartsForCause
  BY StaysTheBus, RestartsAreCaused, PTL

-----------------------------------------------------------------------------
(* What a slot was told is stored or its callback is still to come; what is*)
(* known of an input is what its signal was sent.                          *)
NothingForgotten ==
  /\ \A p \in Positions : p \in unseen \/ stored[p] = IF slots[p] = None THEN FALSE ELSE slots[p]
  /\ last_bits \in [Positions -> BOOLEAN \union {None}] /\ sent = last_bits

(* That is kept when objects are replaced one by one, when bits are refused*)
(* for their length and when the slot is told more than the callback takes.*)
THEOREM ToldIsKept == TerminalSafety => []NothingForgotten
<1>1. TerminalsInit => NothingForgotten
  BY DEF TerminalsInit, NothingForgotten, Off, Unset
<1>2. OutputInv /\ NothingForgotten /\ [BusNext]_allVars => NothingForgotten'
  <2> SUFFICES ASSUME OutputInv, NothingForgotten, [BusNext]_allVars PROVE NothingForgotten'
    OBVIOUS
  <2>1. CASE UNCHANGED <<input, output>>
    BY <2>1 DEF NothingForgotten, input, output
  <2>2. CASE Initialise
    <3>1. /\ slots' = [p \in Positions |-> IF devices'[p] = devices[p] THEN slots[p] ELSE None]
          /\ stored' = [p \in Positions |-> IF devices'[p] = devices[p] THEN stored[p] ELSE FALSE]
          /\ unseen' = {p \in unseen : devices'[p] = devices[p]}
          /\ last_bits' \in [Positions -> BOOLEAN \union {None}] /\ sent' = last_bits'
      BY <2>2 DEF Initialise, NewObjects, Renewed, Off, Unset, NothingForgotten
    <3> QED
      BY <3>1 DEF NothingForgotten
  <2>3. CASE ProcessData
    <3>1. UNCHANGED output
      BY <2>3 DEF ProcessData
    <3>2. CASE last_bits' = [last_bits EXCEPT ![turn] = image[turn]]
               /\ sent' = IF Changed THEN [sent EXCEPT ![turn] = image[turn]] ELSE sent
      <4>1. last_bits' \in [Positions -> BOOLEAN \union {None}]
        <5>1. CASE turn \in Positions
          BY <3>2, <5>1 DEF OutputInv, TerminalTypes, NothingForgotten
        <5>2. CASE turn \notin Positions
          BY <3>2, <5>2 DEF NothingForgotten
        <5> QED
          BY <5>1, <5>2
      <4>2. sent' = last_bits'
        <5>1. CASE Changed
          BY <3>2, <5>1 DEF NothingForgotten
        <5>2. CASE ~Changed
          <6>1. last_bits' = last_bits
            BY <3>2, <5>2 DEF NothingForgotten, Changed
          <6> QED
            BY <3>2, <5>2, <6>1 DEF NothingForgotten
        <5> QED
          BY <5>1, <5>2
      <4> QED
        BY <3>1, <4>1, <4>2 DEF NothingForgotten, output
    <3>3. CASE UNCHANGED input
      BY <3>1, <3>3 DEF NothingForgotten, input, output
    <3> QED
      BY <2>3, <3>2, <3>3 DEF ProcessData, ReadInputs, WriteOutputs, Others
  <2>4. ASSUME NEW p \in Positions, Store(p) PROVE NothingForgotten'
    <3>1. /\ stored' = [stored EXCEPT ![p] = slots[p]] /\ unseen' = unseen \ {p}
          /\ slots' = slots /\ slots[p] # None /\ UNCHANGED input
      BY <2>4 DEF Store, OutputInv, StoredFromSlot
    <3>2. \A q \in Positions : stored'[q] = IF q = p THEN slots[p] ELSE stored[q]
      BY <3>1 DEF OutputInv, TerminalTypes
    <3> QED
      BY <3>1, <3>2 DEF NothingForgotten, input
  <2>5. ASSUME NEW p \in Positions, NEW b \in BOOLEAN, SetSlot(p, b) PROVE NothingForgotten'
    <3>1. /\ slots' = [slots EXCEPT ![p] = b] /\ unseen' = unseen \union {p}
          /\ stored' = stored /\ UNCHANGED input
      BY <2>5 DEF SetSlot
    <3>2. \A q \in Positions : q # p => slots'[q] = slots[q]
      BY <3>1 DEF OutputInv, TerminalTypes
    <3> QED
      BY <3>1, <3>2 DEF NothingForgotten, input
  <2> QED
    BY <2>1, <2>2, <2>3, <2>4, <2>5
       DEF BusNext, BusTask, Cycle, Elsewhere, Replug, Switch, allVars, terminals
<1>3. TerminalSafety => []OutputInv
  BY OutputsKept
<1> QED
  BY <1>1, <1>2, <1>3, PTL DEF TerminalSafety
=============================================================================
