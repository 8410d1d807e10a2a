---------------------------- MODULE EtherCatBus ----------------------------
(***************************************************************************)
(* The life of the EtherCAT bus (tfc-exes/ethercat/src/bus.rs): attempts to*)
(* initialise it, the search for a stable working counter, the cyclic      *)
(* exchange that counts failures, and the way back to initialisation.      *)
(*                                                                         *)
(* The line is external.  While it is disturbed devices come and go and    *)
(* anything may fail; otherwise every device that is where it was when the *)
(* group was initialised adds one to the working counter.                  *)
(***************************************************************************)
EXTENDS Integers, Sequences, FiniteSets

CONSTANTS
  Kinds,       (* identities (vendor and product) of devices               *)
  Implemented, (* those make_device knows                                  *)
  Speaking,    (* those whose object has signals that D-Bus and OPC UA show*)
  None,        (* identity of an UnimplementedDevice                       *)
  Lines,       (* what may be plugged in: sequences of identities          *)
  MaxDevices,  (* MAX_SUBDEVICES                                           *)
  MinCount,    (* subdevice_min_count                                      *)
  InitLimit,   (* failed attempts before giving up; 10 in the code         *)
  StableCount, (* equal working counters wanted; 3 in the code             *)
  TryLimit,    (* exchanges to get them; 100 in the code                   *)
  FailLimit,   (* failures before the bus is initialised again; 100        *)
  Errors       (* whether an exchange may fail with an error               *)

ASSUME LinesAssumption ==
  /\ Speaking \subseteq Implemented /\ Implemented \subseteq Kinds /\ None \notin Kinds
  /\ MaxDevices \in Nat
  /\ Lines # {} /\ \A l \in Lines : l \in Seq(Kinds) /\ Len(l) <= MaxDevices
ASSUME LimitsAssumption ==
  /\ MinCount \in Nat /\ InitLimit \in Nat /\ TryLimit \in Nat
  /\ StableCount \in Nat \ {0} /\ FailLimit \in Nat \ {0}
ASSUME ErrorsAssumption == Errors \in BOOLEAN

VARIABLES
  line,      (* what is plugged in                                         *)
  disturbed, (* the line is                                                *)
  phase,     (* "init", "sleep", "safe_op", "op" or "ended"                *)
  attempts,  (* cnt of init_and_run                                        *)
  group,     (* identities of the group that was initialised last          *)
  devices,   (* identity each device object was made for                   *)
  orphaned,  (* a task that shows a signal has lost it                     *)
  tries, stable, lastWc,  (* of the search                                 *)
  expected,  (* expected_working_counter                                   *)
  failures,  (* expected_working_counter_failures_cnt                      *)
  missed     (* exchanges in a row after which no data was processed       *)

environment == <<line, disturbed>>
search == <<tries, stable, lastWc>>
run    == <<expected, failures, missed>>
objects == <<devices, orphaned>>
vars   == <<environment, phase, attempts, group, objects, search, run>>

Positions == 1..MaxDevices

Init ==
  /\ line \in Lines /\ disturbed = TRUE
  /\ phase = "init" /\ attempts = 0 /\ group = <<>>
  /\ devices = [i \in Positions |-> None] /\ orphaned = FALSE
  /\ tries = 0 /\ stable = 0 /\ lastWc = 0
  /\ expected = 0 /\ failures = 0 /\ missed = 0

-----------------------------------------------------------------------------
(* The line.                                                               *)

Plug(l) ==
  /\ disturbed /\ l # line
  /\ line' = l
  /\ UNCHANGED <<disturbed, phase, attempts, group, objects, search, run>>

Disturb ==
  /\ disturbed' = ~disturbed
  /\ UNCHANGED <<line, phase, attempts, group, objects, search, run>>

Answering == {i \in 1..Len(group) : i <= Len(line) /\ line[i] = group[i]}

(* The working counter of an exchange.                                     *)
Counts(wc) ==
  \/ wc = Cardinality(Answering)
  \/ disturbed /\ wc \in 0..MaxDevices

-----------------------------------------------------------------------------
(* Initialisation.                                                         *)

MakeDevice(kind) == IF kind \in Implemented THEN kind ELSE None

(* Mutant: a device object is made once for every position.                *)
MutMade(i) == IF devices[i] = None THEN MakeDevice(line[i]) ELSE devices[i]

(* A device object is kept if it was made for the same kind of device.     *)
Made(i) == IF devices[i] # line[i] THEN MakeDevice(line[i]) ELSE devices[i]

DevicesUpTo(n) == [i \in Positions |-> IF i <= n THEN Made(i) ELSE devices[i]]

(* An object that is replaced drops its signals (see WatchCell).           *)
Setup(n) ==
  /\ devices'  = DevicesUpTo(n)
  /\ orphaned' = (orphaned \/ \E i \in Positions :
                               devices[i] \in Speaking /\ devices'[i] # devices[i])

(* init_and_run after an error of init.                                    *)
Failed ==
  /\ attempts' = attempts + 1
  /\ phase'    = IF attempts' > InitLimit THEN "ended" ELSE "sleep"

(* No group, too few devices, or an error from the setup of one of them:   *)
(* those before it have their objects already.                             *)
InitFails ==
  /\ phase = "init"
  /\ disturbed \/ Len(line) < MinCount
  /\ \E n \in 0..Len(line) :
       /\ n > 0 => Len(line) >= MinCount
       /\ Setup(n)
  /\ Failed
  /\ UNCHANGED <<environment, group, search, run>>

InitGroup ==
  /\ phase = "init" /\ Len(line) >= MinCount
  /\ group'   = line
  /\ Setup(Len(line))
  /\ phase'   = "safe_op"
  /\ tries' = 0 /\ stable' = 0 /\ lastWc' = 0
  /\ UNCHANGED <<environment, attempts, run>>

Retry ==
  /\ phase  = "sleep"
  /\ phase' = "init"
  /\ UNCHANGED <<environment, attempts, group, objects, search, run>>

StableAfter(wc) == IF wc = lastWc THEN stable + 1 ELSE 1

(* An exchange of the search.  One that comes after too many is an error   *)
(* even if it is the last that was needed.                                 *)
Search(wc) ==
  /\ phase = "safe_op" /\ stable < StableCount
  /\ tries' = tries + 1 /\ stable' = StableAfter(wc) /\ lastWc' = wc
  /\ IF tries' > TryLimit THEN Failed ELSE UNCHANGED <<phase, attempts>>
  /\ UNCHANGED <<environment, group, objects, run>>

(* An exchange or the change to safe operational or operational fails, or a*)
(* device does not answer the request to change.                           *)
SafeOpFails ==
  /\ phase = "safe_op" /\ (disturbed \/ Answering # 1..Len(group))
  /\ Failed
  /\ UNCHANGED <<environment, group, objects, search, run>>

IntoOp ==
  /\ phase = "safe_op" /\ stable >= StableCount
  /\ phase'    = "op"
  /\ expected' = lastWc
  /\ failures' = 0 /\ missed' = 0
  /\ UNCHANGED <<environment, attempts, group, objects, search>>

(* The task that shows a signal panics once the signal is dropped, and the *)
(* panic hook aborts the program.                                          *)
Abort ==
  /\ orphaned /\ phase # "ended"
  /\ phase' = "ended"
  /\ UNCHANGED <<environment, attempts, group, objects, search, run>>

-----------------------------------------------------------------------------
(* The cyclic exchange.                                                    *)

(* Bound: a longer series of errors goes on as this one.                   *)
Counted(n) == IF n < FailLimit THEN n + 1 ELSE n

(* An error is counted but not compared with the limit.                    *)
ExchangeFails ==
  /\ phase = "op" /\ disturbed /\ Errors
  /\ failures' = Counted(failures) /\ missed' = Counted(missed)
  /\ UNCHANGED <<environment, phase, attempts, group, objects, search, expected>>

(* Mutant: the failure is not counted.                                     *)
MutMismatch(wc) ==
  /\ phase = "op" /\ wc # expected
  /\ missed' = Counted(missed)
  /\ UNCHANGED <<environment, phase, attempts, group, objects, search, expected, failures>>

(* At the limit init_and_run starts over.                                  *)
Mismatch(wc) ==
  /\ phase = "op" /\ wc # expected
  /\ IF failures + 1 >= FailLimit
     THEN phase' = "init" /\ attempts' = 0 /\ failures' = 0 /\ missed' = 0
     ELSE /\ failures' = Counted(failures) /\ missed' = Counted(missed)
          /\ UNCHANGED <<phase, attempts>>
  /\ UNCHANGED <<environment, group, objects, search, expected>>

(* Mutant: failures add up although data was processed between them.       *)
MutProcess(wc) ==
  /\ phase = "op" /\ wc = expected
  /\ missed' = 0
  /\ UNCHANGED <<environment, phase, attempts, group, objects, search, expected, failures>>

(* Every device of the group processes its data.                           *)
Process(wc) ==
  /\ phase = "op" /\ wc = expected
  /\ failures' = 0 /\ missed' = 0
  /\ UNCHANGED <<environment, phase, attempts, group, objects, search, expected>>

Exchange ==
  \E wc \in 0..MaxDevices : Counts(wc) /\ (Search(wc) \/ Mismatch(wc) \/ Process(wc))

-----------------------------------------------------------------------------
(* The task of the bus.                                                    *)
Task ==
  \/ InitFails \/ InitGroup \/ Retry \/ SafeOpFails \/ IntoOp
  \/ Exchange \/ ExchangeFails

Next == Task \/ Abort \/ Disturb \/ \E l \in Lines : Plug(l)

(* The tasks go on; the line does what it likes.                           *)
Fairness == WF_vars(~disturbed /\ Task) /\ WF_vars(Abort)

Safety == Init /\ [][Next]_vars
Spec   == Safety /\ Fairness

-----------------------------------------------------------------------------
(* Types of the line, the group and the counters.                          *)
TypeOK ==
  /\ line     \in Lines /\ disturbed \in BOOLEAN
  /\ phase    \in {"init", "sleep", "safe_op", "op", "ended"}
  /\ attempts \in 0..(InitLimit + 1)
  /\ group    \in Lines \union {<<>>}
  /\ devices  \in [Positions -> Kinds \union {None}] /\ orphaned \in BOOLEAN
  /\ tries    \in 0..(TryLimit + 1)
  /\ stable   \in 0..StableCount
  /\ lastWc   \in 0..MaxDevices /\ expected \in 0..MaxDevices
  /\ failures \in 0..FailLimit  /\ missed   \in 0..FailLimit

(* Data of a device is never given to an object made for another kind, nor *)
(* to none if there is one for its kind, whatever was plugged in before and*)
(* however far an attempt came.                                            *)
DevicesMatch ==
  phase \in {"safe_op", "op"} =>
    \A i \in 1..Len(group) :
      devices[i] = IF group[i] \in Implemented THEN group[i] ELSE None

(* Operation is only left for failures in a row, or by a program that lost *)
(* the signals of a device.                                                *)
RestartsForCause ==
  [][phase = "op" /\ phase' # "op" => missed + 1 >= FailLimit \/ orphaned]_vars

(* Once the line is undisturbed with enough devices on it, the bus ends up *)
(* processing data after every exchange, unless it has given up before or  *)
(* a device with signals was swapped, which aborts the program.            *)
Recovers ==
  []~orphaned /\ <>[](~disturbed /\ Len(line) >= MinCount) =>
    <>[](phase = "op" /\ missed = 0) \/ <>(phase = "ended")
=============================================================================
