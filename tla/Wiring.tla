------------------------------- MODULE Wiring -------------------------------
(***************************************************************************)
(* How a slot gets the socket it receives from (src/src/ipc.rs): its       *)
(* connection task registers it at the ruler and follows connection_change,*)
(* one change at a time; its reconnect task connects again to a signal     *)
(* that was lost; its receive task takes whatever socket either of them    *)
(* has made last.  Programs of slots and signals start and stop.           *)
(***************************************************************************)
EXTENDS IpcRuler

CONSTANTS
  Stops,     (* who may stop while the others run: "ruler", and the slots  *)
             (* and signals whose programs may                             *)
  MaxSocks   (* sockets in the channel to the receive task (the code: 8)   *)

ASSUME WiringAssumption == Stops \subseteq {"ruler"} \union Slots \union Signals /\ MaxSocks \in Nat

VARIABLES
  up,        (* signals that are bound to their endpoint                   *)
  enrolled,  (* slots whose register_slot has been answered                *)
  target,    (* the signal the connection task is connecting to            *)
  lost,      (* disconnected_notifier: the name not yet looked at          *)
  retry,     (* the signal the reconnect task is connecting to             *)
  socks,     (* sockets on their way to the receive task                   *)
  sock       (* the socket the receive task receives from                  *)

slotVars == <<enrolled, target, lost, retry, socks, sock>>
vars == <<rulerVars, up, slotVars>>

(* A socket is connected to the endpoint of a signal until that closes.    *)
Socket(n) == [to |-> n, open |-> TRUE]
Without(n, k) == IF k.to = n THEN [k EXCEPT !.open = FALSE] ELSE k
NoSocket  == [to |-> NoSignal, open |-> FALSE]
Sockets   == [to : Signals, open : BOOLEAN]

Init ==
  /\ RulerInit
  /\ up       = {}
  /\ enrolled = {}
  /\ target   = [s \in Slots |-> NoSignal]
  /\ lost     = [s \in Slots |-> NoSignal]
  /\ retry    = [s \in Slots |-> NoSignal]
  /\ socks    = [s \in Slots |-> <<>>]
  /\ sock     = [s \in Slots |-> NoSocket]

-----------------------------------------------------------------------------
(* Programs.                                                               *)

(* Signal::new_raw binds the endpoint; the registration follows.           *)
SignalStart(n) ==
  /\ n \notin up
  /\ up' = up \union {n}
  /\ UNCHANGED <<rulerVars, slotVars>>

SignalRegister(n) ==
  /\ n \in up /\ n \notin registered
  /\ RegisterSignal(n)
  /\ UNCHANGED <<up, slotVars>>

(* Every socket that was connected to the endpoint is closed.              *)
SignalStop(n) ==
  /\ n \in Stops \intersect up
  /\ up'    = up \ {n}
  /\ socks' = [s \in Slots |-> [i \in DOMAIN socks[s] |-> Without(n, socks[s][i])]]
  /\ sock'  = [s \in Slots |-> Without(n, sock[s])]
  /\ UNCHANGED <<rulerVars, enrolled, target, lost, retry>>

(* Slot::new: the stream of changes is there before the registration.  The *)
(* bound: the registration of the program before it is over.               *)
SlotStart(s) ==
  /\ s \notin listening /\ call[s] = NoCall
  /\ listening' = listening \union {s}
  /\ UNCHANGED <<ruler, tables, call, stream, history, up, slotVars>>

(* The program of a slot ends, with everything its tasks hold.             *)
SlotStop(s) ==
  /\ s \in Stops \intersect listening
  /\ listening' = listening \ {s}
  /\ stream'    = [stream EXCEPT ![s] = <<>>]
  /\ enrolled'  = enrolled \ {s}
  /\ target'    = [target EXCEPT ![s] = NoSignal]
  /\ lost'      = [lost EXCEPT ![s] = NoSignal]
  /\ retry'     = [retry EXCEPT ![s] = NoSignal]
  /\ socks'     = [socks EXCEPT ![s] = <<>>]
  /\ sock'      = [sock EXCEPT ![s] = NoSocket]
  /\ UNCHANGED <<ruler, tables, call, history, up>>

-----------------------------------------------------------------------------
(* The ruler, as the programs see it.                                      *)

(* register_slot is called until it is answered.                           *)
SlotRegister(s) ==
  /\ s \notin enrolled
  /\ RegisterSlot(s)
  /\ UNCHANGED <<up, slotVars>>

OperatorConnect(o, s, n) ==
  /\ Connect(o, s, n)
  /\ UNCHANGED <<up, slotVars>>

Announce(c) ==
  /\ Emit(c)
  /\ enrolled' = IF c \in listening THEN enrolled \union {c} ELSE enrolled
  /\ UNCHANGED <<up, target, lost, retry, socks, sock>>

RulerStops  == "ruler" \in Stops /\ RulerStop /\ UNCHANGED <<up, slotVars>>
RulerStarts == RulerStart /\ UNCHANGED <<up, slotVars>>

-----------------------------------------------------------------------------
(* The tasks of a slot.                                                    *)

(* The connection task looks at the next change.  async_connect_ refuses   *)
(* the empty name: the error is logged and the socket stays.               *)
TakeChange(s) ==
  /\ target[s] = NoSignal /\ stream[s] # <<>>
  /\ target' = [target EXCEPT ![s] = Head(stream[s])]
  /\ stream' = [stream EXCEPT ![s] = Tail(@)]
  /\ UNCHANGED <<ruler, tables, call, listening, history, up, enrolled, lost, retry, socks, sock>>

(* async_connect_ tries until the endpoint answers, then hands the socket  *)
(* over, waiting for room in the channel.                                  *)
Connected(s, n) ==
  /\ n \in up /\ Len(socks[s]) < MaxSocks
  /\ socks' = [socks EXCEPT ![s] = Append(@, Socket(n))]

ConnectTarget(s) ==
  /\ Connected(s, target[s])
  /\ target' = [target EXCEPT ![s] = NoSignal]
  /\ UNCHANGED <<rulerVars, up, enrolled, lost, retry, sock>>

(* The receive task drops the socket it has for the new one.               *)
TakeSocket(s) ==
  /\ socks[s] # <<>>
  /\ sock'  = [sock EXCEPT ![s] = Head(socks[s])]
  /\ socks' = [socks EXCEPT ![s] = Tail(@)]
  /\ UNCHANGED <<rulerVars, up, enrolled, target, lost, retry>>

(* Mutant: the reconnect task is not told.                                 *)
MutLose(s) ==
  /\ sock[s] # NoSocket /\ ~sock[s].open
  /\ sock' = [sock EXCEPT ![s] = NoSocket]
  /\ UNCHANGED <<rulerVars, up, enrolled, target, lost, retry, socks>>

(* recv of a closed socket fails: it is dropped, the reconnect task told.  *)
Lose(s) ==
  /\ sock[s] # NoSocket /\ ~sock[s].open
  /\ lost' = [lost EXCEPT ![s] = sock[s].to]
  /\ sock' = [sock EXCEPT ![s] = NoSocket]
  /\ UNCHANGED <<rulerVars, up, enrolled, target, retry, socks>>

TakeLost(s) ==
  /\ retry[s] = NoSignal /\ lost[s] # NoSignal
  /\ retry' = [retry EXCEPT ![s] = lost[s]]
  /\ lost'  = [lost EXCEPT ![s] = NoSignal]
  /\ UNCHANGED <<rulerVars, up, enrolled, target, socks, sock>>

Reconnect(s) ==
  /\ Connected(s, retry[s])
  /\ retry' = [retry EXCEPT ![s] = NoSignal]
  /\ UNCHANGED <<rulerVars, up, enrolled, target, lost, sock>>

-----------------------------------------------------------------------------
SlotTask(s) == TakeChange(s) \/ ConnectTarget(s) \/ TakeSocket(s) \/ Lose(s)
                 \/ TakeLost(s) \/ Reconnect(s)

Next ==
  \/ \E n \in Signals : SignalStart(n) \/ SignalRegister(n) \/ SignalStop(n)
  \/ \E s \in Slots : SlotStart(s) \/ SlotRegister(s) \/ SlotStop(s) \/ SlotTask(s)
  \/ \E o \in Operators, s \in Slots, n \in Signals \union {NoSignal} : OperatorConnect(o, s, n)
  \/ \E c \in Callers : Announce(c)
  \/ RulerStops \/ RulerStarts

(* Tasks that can go on do; registrations are repeated until they succeed. *)
(* Nobody has to start, stop or connect anything.                          *)
Fairness ==
  /\ \A n \in Signals : WF_vars(SignalRegister(n))
  /\ \A c \in Callers : WF_vars(Announce(c))
  /\ \A s \in Slots :
       /\ WF_vars(SlotRegister(s)) /\ WF_vars(TakeChange(s)) /\ WF_vars(ConnectTarget(s))
       /\ WF_vars(TakeSocket(s)) /\ WF_vars(Lose(s)) /\ WF_vars(TakeLost(s))
       /\ WF_vars(Reconnect(s))

Safety == Init /\ [][Next]_vars
Spec   == Safety /\ Fairness

-----------------------------------------------------------------------------
(* Types of the ruler's and the slots' state.                              *)
TypeOK ==
  /\ RulerTypeOK
  /\ up       \subseteq Signals
  /\ enrolled \subseteq Slots
  /\ target   \in [Slots -> Signals \union {NoSignal}]
  /\ lost     \in [Slots -> Signals \union {NoSignal}]
  /\ retry    \in [Slots -> Signals \union {NoSignal}]
  /\ socks    \in [Slots -> Seq(Sockets)]
  /\ sock     \in [Slots -> Sockets \union {NoSocket}]

(* Signals a slot may hear of.                                             *)
Fit(s) == {n \in Signals : TypeOf[n] = TypeOf[s]}

(* A slot receives only from signals of its own type, by whatever path the *)
(* socket came to it; a packet of another type makes the receive task      *)
(* panic.                                                                  *)
ReceivesOwnType ==
  \A s \in Slots : sock[s] # NoSocket => sock[s].to \in Fit(s)

(* The ruler, the slot and every signal it could have been connected to    *)
(* stay up; the slot stays connected to n, and no method raced for it.     *)
Settled(s, n) ==
  /\ ruler /\ s \in listening /\ Fit(s) \subseteq up
  /\ wired[s] = n /\ ~Busy(s) /\ s \notin raced

(* The reconnect task has no other signal in hand than the stored one.     *)
NotOutdated(s) == {lost[s], retry[s]} \subseteq {NoSignal, wired[s]}

(* A slot that stays connected at the ruler ends up receiving, whatever    *)
(* stopped, restarted or was wired anew before.  It receives from the      *)
(* signal it is connected to if it was never wired to another one while it *)
(* tried to reconnect to the old; the old one may win otherwise.           *)
Joins ==
  \A s \in Slots : \A n \in Fit(s) : <>[]Settled(s, n) =>
    /\ <>[]sock[s].open
    /\ []NotOutdated(s) => <>[](sock[s] = Socket(n))
=============================================================================
