------------------------------ MODULE IpcRuler ------------------------------
(***************************************************************************)
(* The IPC ruler (tfc-exes/ipc-ruler/src/lib.rs): the service on D-Bus     *)
(* that knows every signal and slot and which signal each slot is          *)
(* connected to.  Its tables are a file and outlive it.  A method runs its *)
(* statements under the lock of the database, releases it and then emits   *)
(* connection_change; methods of several callers run as tasks of their own *)
(* and may be between the two at the same time.                            *)
(***************************************************************************)
EXTENDS Integers, Sequences, FiniteSets

CONSTANTS
  Slots,         (* names of slots                                         *)
  Signals,       (* names of signals                                       *)
  TypeOf,        (* the type of each, which is part of its full name       *)
  Operators,     (* clients that connect and disconnect                    *)
  NoSignal,      (* the empty name: not connected                          *)
  Unregistered,  (* the slot has no row                                    *)
  NoCall,        (* the caller waits for no reply                          *)
  MaxStream      (* bound: connection changes on their way to one slot     *)

Callers == Operators \union Slots

ASSUME NamesAssumption ==
  /\ Slots \intersect Signals = {} /\ Operators \intersect Slots = {}
  /\ NoSignal \notin Signals /\ Unregistered \notin Signals \union {NoSignal}
ASSUME NoCallAssumption == NoCall \notin [slot : Slots, signal : Signals \union {NoSignal}]
ASSUME StreamAssumption == MaxStream \in Nat

VARIABLES
  ruler,       (* whether the ruler runs                                   *)
  registered,  (* table signals                                            *)
  wired,       (* column connected_to of table slots                       *)
  call,        (* the change a caller's method is about to emit            *)
  listening,   (* slots whose program receives connection_change           *)
  stream,      (* the changes each of them has not looked at yet           *)
  told,        (* history: the last change emitted for each slot           *)
  raced        (* history: slots whose last method was not alone with them *)
               (* from its lock to its emission                            *)

tables == <<registered, wired>>
history == <<told, raced>>
rulerVars == <<ruler, tables, call, listening, stream, history>>

Change == [slot : Slots, signal : Signals \union {NoSignal}]

RulerInit ==
  /\ ruler      = TRUE
  /\ registered = {}
  /\ wired      = [s \in Slots |-> Unregistered]
  /\ call       = [c \in Callers |-> NoCall]
  /\ listening  = {}
  /\ stream     = [s \in Slots |-> <<>>]
  /\ told       = [s \in Slots |-> NoSignal]
  /\ raced      = {}

(* A method for slot s has released the lock and not emitted its change.   *)
Busy(s) == \E c \in Callers : call[c] # NoCall /\ call[c].slot = s

(* The method of caller c may start.                                       *)
Free(c, s) ==
  /\ ruler /\ call[c] = NoCall
  /\ Len(stream[s]) + Cardinality({d \in Callers : call[d] # NoCall}) < MaxStream

-----------------------------------------------------------------------------
(* register_signal: it inserts or updates one row and emits nothing.       *)
RegisterSignal(n) ==
  /\ ruler
  /\ registered' = registered \union {n}
  /\ UNCHANGED <<ruler, wired, call, listening, stream, history>>

(* What register_slot answers: the connection of a row that was there, and *)
(* the empty name for a new one.                                           *)
Stored(s) == IF wired[s] = Unregistered THEN NoSignal ELSE wired[s]

(* The method of caller c leaves the lock with a change to emit.           *)
Released(c, s, n) ==
  /\ call'  = [call EXCEPT ![c] = [slot |-> s, signal |-> n]]
  /\ raced' = IF Busy(s) THEN raced \union {s} ELSE raced \ {s}
  /\ UNCHANGED <<ruler, registered, listening, stream, told>>

(* Mutant: a slot that registers again is told the empty name.             *)
MutRegisterSlot(s) ==
  /\ s \in listening /\ Free(s, s)
  /\ wired' = [wired EXCEPT ![s] = Stored(s)]
  /\ Released(s, s, NoSignal)

RegisterSlot(s) ==
  /\ s \in listening /\ Free(s, s)
  /\ wired' = [wired EXCEPT ![s] = Stored(s)]
  /\ Released(s, s, Stored(s))

(* Mutant: the types are not compared.                                     *)
MutConnectable(s, n) ==
  /\ wired[s] # Unregistered
  /\ n = NoSignal \/ n \in registered

(* The checks of connect_impl.                                             *)
Connectable(s, n) ==
  /\ wired[s] # Unregistered
  /\ n = NoSignal \/ (n \in registered /\ TypeOf[n] = TypeOf[s])

(* connect, and disconnect, which is connect with the empty name.          *)
Connect(o, s, n) ==
  /\ Free(o, s)
  /\ Connectable(s, n)
  /\ wired' = [wired EXCEPT ![s] = n]
  /\ Released(o, s, n)

(* connection_change goes to everyone who listens, and the method replies. *)
Emit(c) ==
  /\ call[c] # NoCall
  /\ call' = [call EXCEPT ![c] = NoCall]
  /\ LET s == call[c].slot  n == call[c].signal IN
       /\ told'   = [told EXCEPT ![s] = n]
       /\ stream' = IF s \in listening THEN [stream EXCEPT ![s] = Append(@, n)] ELSE stream
  /\ UNCHANGED <<ruler, tables, listening, raced>>

(* The process ends, calls fail, the tables stay.                          *)
RulerStop ==
  /\ ruler
  /\ ruler' = FALSE
  /\ call'  = [c \in Callers |-> NoCall]
  /\ raced' = raced \union {s \in Slots : Busy(s)}
  /\ UNCHANGED <<tables, listening, stream, told>>

RulerStart ==
  /\ ~ruler
  /\ ruler' = TRUE
  /\ UNCHANGED <<tables, call, listening, stream, history>>

-----------------------------------------------------------------------------
(* Types of the tables, the calls and the changes on their way.            *)
RulerTypeOK ==
  /\ ruler      \in BOOLEAN
  /\ registered \subseteq Signals
  /\ wired      \in [Slots -> Signals \union {NoSignal, Unregistered}]
  /\ call       \in [Callers -> Change \union {NoCall}]
  /\ listening  \subseteq Slots
  /\ stream     \in [Slots -> Seq(Signals \union {NoSignal})]
  /\ told       \in [Slots -> Signals \union {NoSignal}]
  /\ raced      \subseteq Slots

(* A stored connection names a signal the ruler knows, of the type of the  *)
(* slot: registration, reconnection and restarts of the ruler keep what    *)
(* connect_impl has checked (the tables declare no foreign key).           *)
ConnectionsExist ==
  \A s \in Slots : wired[s] \in Signals =>
    wired[s] \in registered /\ TypeOf[wired[s]] = TypeOf[s]

(* The last connection_change a slot could hear is what the table says of  *)
(* it, whatever methods for other slots ran in between.  It is not when two*)
(* methods for the slot overlapped, which may emit in another order than   *)
(* they wrote, or when the ruler was stopped before the emission; the next *)
(* method that has the slot for itself puts it right.                      *)
ToldWhatIsStored ==
  \A s \in Slots :
    wired[s] # Unregistered /\ ~Busy(s) /\ s \notin raced => told[s] = wired[s]
=============================================================================
