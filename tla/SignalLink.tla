----------------------------- MODULE SignalLink -----------------------------
(***************************************************************************)
(* A value on its way from a signal to what a program does with a slot     *)
(* (src/src/ipc.rs, src/src/filter.rs): the watch channel of the signal,   *)
(* the monitor task that publishes it and repeats the last value to whoever*)
(* connects, the ZeroMQ sockets, the receive task with its filters and the *)
(* watch channel of the slot, which programs that expose the slot (D-Bus,  *)
(* OPC UA) write as well.                                                  *)
(*                                                                         *)
(* A slot may have two sockets to the signal: the one it receives from, and*)
(* one that a task of Wiring has connected and not handed over.            *)
(*                                                                         *)
(* A message carries a value; its number is kept to state properties.      *)
(***************************************************************************)
EXTENDS Integers, Sequences

CONSTANTS
  Values,      (* values of the type of the signal                         *)
  None,        (* no value yet                                             *)
  Delayed,     (* values a configured FilterTimer holds back for a time    *)
  Prompt,      (* whether a subscription takes less than the 100 ms the    *)
               (* monitor waits before it repeats the last value           *)
  Consumers,   (* what the program uses of the slot: "recv", "async_recv", *)
               (* "channel"                                                *)
  MaxSends,    (* bound: values sent                                       *)
  MaxWire,     (* bound: messages on a connection                          *)
  MaxAccepts   (* bound: connections the monitor has not looked at         *)

ASSUME ValuesAssumption == None \notin Values /\ Delayed \subseteq Values
ASSUME ConsumersAssumption == Consumers \subseteq {"recv", "async_recv", "channel"} /\ Prompt \in BOOLEAN
ASSUME BoundsAssumption == MaxSends \in Nat /\ MaxWire \in Nat /\ MaxAccepts \in Nat

VARIABLES
  current,   (* the value in the signal's watch channel                    *)
  fresh,     (* the monitor has not seen it as a change                    *)
  accepts,   (* Accepted events the monitor has not taken                  *)
  greeting,  (* the value the monitor repeats after its sleep              *)
  link,      (* each socket as the signal sees it                          *)
  wire,      (* messages published to each socket and not received         *)
  floor,     (* history: the number of the value the slot showed when the  *)
             (* socket subscribed, or has shown from it since              *)
  task,      (* the receive task: "idle", "filtering" or "dead"            *)
  item,      (* the message a filter holds back                            *)
  last,      (* unfiltered_last_value                                      *)
  value,     (* the value in the slot's watch channel                      *)
  overridden,(* history: not the signal but the program wrote it           *)
  exposed,   (* the program has asked for a channel() to the slot          *)
  receivers, (* receivers of that channel                                  *)
  unseen     (* those of them that have not looked at it                   *)

signal == <<current, fresh, accepts, greeting>>
conn   == <<link, wire, floor>>
slot   == <<task, item, last, value, overridden>>
reader == <<exposed, receivers, unseen>>
vars   == <<signal, conn, slot, reader>>

(* The socket of the receive task, and the one on its way to it.  One of   *)
(* these is the bound: the channel takes eight.                            *)
Ends == {"used", "coming"}

Message == [val : Values, num : 1..MaxSends]
Shown   == [val : Values \union {None}, num : 0..MaxSends]
Nothing == [val |-> None, num |-> 0]

(* Signal::new_raw and Slot::new.                                          *)
Init ==
  /\ current   = Nothing /\ fresh = FALSE /\ accepts = 0 /\ greeting = Nothing
  /\ link      = [e \in Ends |-> "none"] /\ wire = [e \in Ends |-> <<>>]
  /\ floor     = [e \in Ends |-> 0]
  /\ task      = "idle" /\ item = Nothing /\ last = None
  /\ value     = Nothing /\ overridden = FALSE
  /\ exposed   = FALSE /\ receivers = {} /\ unseen = {}

-----------------------------------------------------------------------------
(* The signal.                                                             *)

Send(v) ==
  /\ current.num < MaxSends
  /\ current' = [val |-> v, num |-> current.num + 1]
  /\ fresh'   = TRUE
  /\ UNCHANGED <<accepts, greeting, conn, slot, reader>>

(* Mutant: the last value is not repeated.                                 *)
MutAccepted ==
  /\ greeting = Nothing /\ accepts > 0
  /\ accepts'  = accepts - 1
  /\ UNCHANGED <<current, fresh, greeting, conn, slot, reader>>

(* The monitor takes an Accepted event and borrows the value; it does not  *)
(* mark it as seen.  Without a value there is nothing to repeat.           *)
Accepted ==
  /\ greeting = Nothing /\ accepts > 0
  /\ accepts'  = accepts - 1
  /\ greeting' = current
  /\ UNCHANGED <<current, fresh, conn, slot, reader>>

(* A publisher drops what is sent to someone who has not subscribed.       *)
Published(m) ==
  /\ \A e \in Ends : Len(wire[e]) < MaxWire
  /\ wire' = [e \in Ends |-> IF link[e] = "subscribed" THEN Append(wire[e], m) ELSE wire[e]]

(* The sleep of 100 ms is over.  A Prompt socket that has connected has    *)
(* subscribed by then, unless its own event is still waiting.              *)
Greet ==
  /\ greeting # Nothing
  /\ Prompt => accepts > 0 \/ \A e \in Ends : link[e] # "accepted"
  /\ Published(greeting)
  /\ greeting' = Nothing
  /\ UNCHANGED <<current, fresh, accepts, link, floor, slot, reader>>

(* Mutant: the monitor publishes while it waits to repeat a value.         *)
MutPublish ==
  /\ fresh
  /\ Published(current)
  /\ fresh' = FALSE
  /\ UNCHANGED <<current, accepts, greeting, link, floor, slot, reader>>

(* changed(): the monitor is not asleep and publishes the latest value.    *)
Publish ==
  /\ greeting = Nothing /\ fresh
  /\ Published(current)
  /\ fresh' = FALSE
  /\ UNCHANGED <<current, accepts, greeting, link, floor, slot, reader>>

-----------------------------------------------------------------------------
(* The sockets (see Wiring).                                               *)

(* async_connect_, whether or not the slot receives from another socket.   *)
Connect ==
  /\ link["coming"] = "none" /\ task # "dead" /\ accepts < MaxAccepts
  /\ link'    = [link EXCEPT !["coming"] = "accepted"]
  /\ accepts' = accepts + 1
  /\ UNCHANGED <<current, fresh, greeting, wire, floor, slot, reader>>

(* The subscription reaches the signal, before or after the socket reached *)
(* the receive task.                                                       *)
Subscribe(e) ==
  /\ link[e] = "accepted"
  /\ link'  = [link EXCEPT ![e] = "subscribed"]
  /\ floor' = [floor EXCEPT ![e] = value.num]
  /\ UNCHANGED <<signal, wire, slot, reader>>

(* What was on the way is lost.                                            *)
Disconnect(e) ==
  /\ link[e] \in {"accepted", "subscribed"}
  /\ link'  = [link EXCEPT ![e] = "closed"]
  /\ wire'  = [wire EXCEPT ![e] = <<>>]
  /\ UNCHANGED <<signal, floor, slot, reader>>

(* Another slot connects to the signal.                                    *)
OtherConnects ==
  /\ accepts < MaxAccepts
  /\ accepts' = accepts + 1
  /\ UNCHANGED <<current, fresh, greeting, conn, slot, reader>>

-----------------------------------------------------------------------------
(* The receive task of the slot.                                           *)

(* It drops the socket it has, with what was on its way, for the new one.  *)
TakeSocket ==
  /\ task = "idle" /\ link["coming"] # "none"
  /\ link'  = [link EXCEPT !["used"] = link["coming"], !["coming"] = "none"]
  /\ wire'  = [wire EXCEPT !["used"] = wire["coming"], !["coming"] = <<>>]
  /\ floor' = [floor EXCEPT !["used"] = floor["coming"], !["coming"] = 0]
  /\ UNCHANGED <<signal, slot, reader>>

(* watch::Sender::send: without a receiver it fails and the expect() on it *)
(* ends the task.                                                          *)
Deliver(m) ==
  IF receivers = {} /\ ~exposed
  THEN task' = "dead" /\ UNCHANGED <<last, value, overridden, floor, unseen>>
  ELSE /\ value' = m /\ overridden' = FALSE /\ unseen' = receivers /\ task' = "idle"
       /\ floor' = [floor EXCEPT !["used"] = m.num]
       /\ last'  = m.val

Same(m) == m.val = last          (* FilterNewState drops it                *)
Held(m) == m.val \in Delayed     (* FilterTimer makes the task wait        *)

(* The task takes a message and awaits its filters.                        *)
Receive ==
  /\ task = "idle" /\ wire["used"] # <<>>
  /\ wire' = [wire EXCEPT !["used"] = Tail(@)]
  /\ LET m == Head(wire["used"]) IN
       \/ /\ Same(m)
          /\ last' = m.val
          /\ UNCHANGED <<task, item, value, overridden, floor, unseen>>
       \/ /\ ~Same(m) /\ Held(m)
          /\ task' = "filtering" /\ item' = m
          /\ UNCHANGED <<last, value, overridden, floor, unseen>>
       \/ /\ ~Same(m) /\ ~Held(m)
          /\ Deliver(m)
          /\ UNCHANGED item
  /\ UNCHANGED <<signal, link, exposed, receivers>>

(* The sleep of FilterTimer is over.                                       *)
TimerEnds ==
  /\ task = "filtering"
  /\ Deliver(item)
  /\ item' = Nothing
  /\ UNCHANGED <<signal, link, wire, exposed, receivers>>

(* A task that has ended drops its sockets.                                *)
SocketDropped ==
  /\ task = "dead" /\ \E e \in Ends : link[e] # "none"
  /\ link' = [e \in Ends |-> "none"]
  /\ wire' = [e \in Ends |-> <<>>]
  /\ UNCHANGED <<signal, floor, slot, reader>>

-----------------------------------------------------------------------------
(* The program.                                                            *)

(* recv registers a callback, for good.                                    *)
Recv ==
  /\ "recv" \in Consumers \ receivers
  /\ receivers' = receivers \union {"recv"}
  /\ UNCHANGED <<signal, conn, slot, exposed, unseen>>

(* The callback of recv is run with the value that is there now.           *)
Callback ==
  /\ "recv" \in unseen
  /\ unseen' = unseen \ {"recv"}
  /\ UNCHANGED <<signal, conn, slot, exposed, receivers>>

(* async_recv subscribes: what is there already is not a change.           *)
AsyncRecv ==
  /\ "async_recv" \in Consumers \ receivers
  /\ receivers' = receivers \union {"async_recv"}
  /\ UNCHANGED <<signal, conn, slot, exposed, unseen>>

AsyncRecvReturns ==
  /\ "async_recv" \in unseen
  /\ unseen'    = unseen \ {"async_recv"}
  /\ receivers' = receivers \ {"async_recv"}
  /\ UNCHANGED <<signal, conn, slot, exposed>>

(* channel(): whoever exposes the slot keeps a receiver of its own.        *)
Expose ==
  /\ "channel" \in Consumers /\ ~exposed
  /\ exposed' = TRUE
  /\ UNCHANGED <<signal, conn, slot, receivers, unseen>>

(* The task of channel() writes the slot; the receive task does not know.  *)
Override(v) ==
  /\ exposed
  /\ value' = [value EXCEPT !.val = v]
  /\ overridden' = TRUE
  /\ unseen' = receivers
  /\ UNCHANGED <<signal, conn, task, item, last, exposed, receivers>>

-----------------------------------------------------------------------------
Monitor == Accepted \/ Greet \/ Publish

Next ==
  \/ \E v \in Values : Send(v) \/ Override(v)
  \/ \E e \in Ends : Subscribe(e) \/ Disconnect(e)
  \/ Monitor
  \/ Connect \/ OtherConnects
  \/ TakeSocket \/ Receive \/ TimerEnds \/ SocketDropped
  \/ Recv \/ Callback \/ AsyncRecv \/ AsyncRecvReturns \/ Expose

(* Tasks that can go on do; nobody has to send, connect or ask.            *)
Fairness ==
  /\ WF_vars(Accepted) /\ WF_vars(Greet) /\ WF_vars(Publish)
  /\ \A e \in Ends : WF_vars(Subscribe(e))
  /\ WF_vars(TakeSocket) /\ WF_vars(Receive) /\ WF_vars(TimerEnds) /\ WF_vars(SocketDropped)
  /\ WF_vars(Callback) /\ WF_vars(AsyncRecvReturns)

Safety == Init /\ [][Next]_vars
Spec   == Safety /\ Fairness

-----------------------------------------------------------------------------
(* Types of the channels, the connection and the tasks.                    *)
TypeOK ==
  /\ current   \in Message \union {Nothing}
  /\ fresh     \in BOOLEAN
  /\ accepts   \in 0..MaxAccepts
  /\ greeting  \in Message \union {Nothing}
  /\ link      \in [Ends -> {"none", "accepted", "subscribed", "closed"}]
  /\ wire      \in [Ends -> Seq(Message)]
  /\ floor     \in [Ends -> 0..MaxSends]
  /\ task      \in {"idle", "filtering", "dead"}
  /\ item      \in Message \union {Nothing}
  /\ last      \in Values \union {None}
  /\ value     \in Shown
  /\ overridden \in BOOLEAN
  /\ exposed   \in BOOLEAN
  /\ receivers \subseteq Consumers
  /\ unseen    \subseteq receivers

(* What the receive task shows is never older than what the slot showed    *)
(* when the socket subscribed, nor than what it has shown from the same    *)
(* socket: the value repeated to a new connection, which is read 100 ms    *)
(* before it is sent, values held by a filter, and reconnections do not    *)
(* reorder what the signal sent.  Only what the old socket delivered while *)
(* both were subscribed may be shown again, older values after newer ones. *)
NeverBack == [][value' # value /\ ~overridden' => value'.num >= floor["used"]]_vars

(* A socket of the slot is connected to the signal.                        *)
Joined == \E e \in Ends : link[e] \in {"accepted", "subscribed"}

(* If a connection stays up and no other replaces it, the filters end up   *)
(* with the last value of the signal, and the slot shows it unless the     *)
(* program has overridden it since: an equal value does not take that back.*)
(* The callback has been run with the last value if nothing stays          *)
(* overridden.                                                             *)
(* Values may be conflated, repeated, lost with a socket that is replaced, *)
(* or dropped for being equal to the one before.                           *)
Converges ==
  <>[](link["used"] = "subscribed" /\ link["coming"] = "none") =>
    /\ <>[](last = current.val /\ (overridden \/ value.val = current.val))
    /\ <>[]~overridden => <>[](value.val = current.val /\ "recv" \notin unseen)

(* This holds for a program that registers the callback before its slot    *)
(* connects, and for a signal that has a value before anything connects to *)
(* it.                                                                     *)
ConvergesOnceSent ==
  [](Joined => "recv" \in receivers /\ current # Nothing) => Converges
=============================================================================
