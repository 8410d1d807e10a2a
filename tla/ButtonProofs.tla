---------------------------- MODULE ButtonProofs ----------------------------
(***************************************************************************)
(* A button reports no press twice and leaves no consumer asleep beside an *)
(* event, for any number of tasks, any bridges that write to its slot and  *)
(* any order of presses, polls and reports.                                *)
(***************************************************************************)
EXTENDS Button, TLAPS

(* The variables the steps of a task count on.                             *)
TaskTypes ==
  /\ waiting \in Nat
  /\ stage \in {"none", "first", "second", "third", "pressing", "holding", "tapping"}

(* Only a task in async_recv has a receiver, and what it has not looked at *)
(* came after it subscribed.                                               *)
Subscribed ==
  stage \in {"none", "first", "second", "third"} => "press" \notin receivers \union unseen

(* A press that is heard, and one to be heard, has not been reported.      *)
PressIsNew ==
  /\ "press" \in unseen /\ value = TRUE => armed
  /\ stage \in {"second", "holding", "third", "tapping"} => armed

PressInv == TaskTypes /\ Subscribed /\ PressIsNew

(* Whoever waits will be woken.                                            *)
WaitInv == TaskTypes /\ AwaitsAnAnswer

-----------------------------------------------------------------------------
(* What the rest of the program does to the slot.                          *)
LEMMA CellStep ==
  CellNext => /\ UNCHANGED <<waiting, stage, ready, taken, consumer, woken>>
              /\ "press" \in receivers' => "press" \in receivers
              /\ "press" \in unseen' => "press" \in receivers \union unseen
              /\ "press" \in unseen' /\ value' = TRUE => armed'
              /\ armed => armed'
<1> SUFFICES ASSUME CellNext
             PROVE  /\ "press" \in receivers' => "press" \in receivers
                    /\ "press" \in unseen' => "press" \in receivers \union unseen
  BY DEF CellNext, tasks, poll
<1> USE DEF cell, bridge, Sent, Listening, Bridges
<1>1. ASSUME NEW v \in Values, Send(v) \/ Arrive(v) \/ WriteNode(v)
      PROVE  /\ "press" \in receivers' => "press" \in receivers
             /\ "press" \in unseen' => "press" \in receivers \union unseen
  BY <1>1 DEF Send, Arrive, WriteNode
<1>2. ASSUME Drop \/ Tell
      PROVE  /\ "press" \in receivers' => "press" \in receivers
             /\ "press" \in unseen' => "press" \in receivers \union unseen
  BY <1>2 DEF Drop, Tell, ObjectUp, Emit, EmitFails, Show
<1>3. ASSUME NEW b \in Bridges, Expose(b) \/ WatchFails(b) \/ Forward(b)
      PROVE  /\ "press" \in receivers' => "press" \in receivers
             /\ "press" \in unseen' => "press" \in receivers \union unseen
  BY <1>3 DEF Expose, WatchFails, Forward
<1>4. ASSUME NEW b \in Bridges, NEW v \in Values, Write(b, v)
      PROVE  /\ "press" \in receivers' => "press" \in receivers
             /\ "press" \in unseen' => "press" \in receivers \union unseen
  BY <1>4 DEF Write
<1> QED
  BY <1>1, <1>2, <1>3, <1>4 DEF CellNext, Next

(* Every press is the cause of one event at most.                          *)
LEMMA PressStep == PressInv /\ [ButtonNext \/ CellNext]_vars => PressInv'
<1> SUFFICES ASSUME PressInv, [ButtonNext \/ CellNext]_vars PROVE PressInv'
  OBVIOUS
<1> USE DEF PressInv, TaskTypes, Subscribed, PressIsNew
<1>1. CASE Lock
  BY <1>1 DEF Lock, cellVars, cell
<1>2. CASE Subscribe
  BY <1>2 DEF Subscribe, Listens
<1>3. CASE Hear
  BY <1>3 DEF Hear, Returned
<1>4. ASSUME NEW e, Report(e) PROVE PressInv'
  BY <1>4 DEF Report, Returned
<1>5. CASE Pull \/ PollUnasked
  BY <1>5 DEF Pull, Poll, Take, Wake, PollUnasked, cellVars, cell, tasks
<1>6. CASE CellNext
  BY <1>6, CellStep
<1>7. CASE UNCHANGED vars
  BY <1>7 DEF vars, cellVars, cell, buttonVars, tasks
<1> QED
  BY <1>1, <1>2, <1>3, <1>4, <1>5, <1>6, <1>7
     DEF ButtonNext, Press, HeldOn, LetGo, TapsAgain

(* No event without a press of its own, however many tasks there are.      *)
THEOREM EventsHavePresses == Safety => OneEventPerPress
<1>1. ButtonInit => PressInv
  BY DEF Init, ButtonInit, PressInv, TaskTypes, Subscribed, PressIsNew
<1>2. PressInv /\ [ButtonNext \/ CellNext]_vars
        => [ready' \notin {ready, NoEvent} => armed]_vars
  <2> SUFFICES ASSUME PressInv, ButtonNext \/ CellNext, ready' \notin {ready, NoEvent}
               PROVE  armed
    OBVIOUS
  <2>1. stage \in {"holding", "tapping"}
    BY CellStep DEF ButtonNext, Press, Pull, Lock, Subscribe, Hear, HeldOn, LetGo,
                    TapsAgain, Poll, Take, Wake, PollUnasked, NoEvent
  <2> QED
    BY <2>1 DEF PressInv, PressIsNew
<1> QED
  BY <1>1, <1>2, PressStep, PTL DEF Safety, OneEventPerPress

-----------------------------------------------------------------------------
(* Who waits is answered: one step per action.                             *)
LEMMA WaitStep == WaitInv /\ [ButtonNext \/ CellNext]_vars => WaitInv'
<1> SUFFICES ASSUME WaitInv, [ButtonNext \/ CellNext]_vars PROVE WaitInv'
  OBVIOUS
<1> USE DEF WaitInv, TaskTypes, AwaitsAnAnswer
<1>1. CASE Lock
  BY <1>1 DEF Lock, poll
<1>2. CASE Subscribe
  BY <1>2 DEF Subscribe, Listens, poll
<1>3. CASE Hear
  BY <1>3 DEF Hear, poll
<1>4. ASSUME NEW e, Report(e) PROVE WaitInv'
  BY <1>4 DEF Report, poll
<1>5. CASE Poll
  BY <1>5 DEF Poll
<1>6. CASE Take \/ Wake \/ PollUnasked
  BY <1>6 DEF Take, Wake, PollUnasked, tasks
<1>7. CASE CellNext
  BY <1>7, CellStep
<1>8. CASE UNCHANGED vars
  BY <1>8 DEF vars, buttonVars, tasks, poll
<1> QED
  BY <1>1, <1>2, <1>3, <1>4, <1>5, <1>6, <1>7, <1>8
     DEF ButtonNext, Press, Pull, HeldOn, LetGo, TapsAgain

(* No order of polls, reports and resets loses the wake-up of a consumer.  *)
THEOREM ConsumersAreAnswered == Safety => []AwaitsAnAnswer
<1>1. ButtonInit => WaitInv
  BY DEF ButtonInit, WaitInv, TaskTypes, AwaitsAnAnswer
<1> QED
  BY <1>1, WaitStep, PTL DEF Safety, WaitInv

-----------------------------------------------------------------------------
(* The safety core of ShowsLast.                                           *)

(* A bridge with nothing left to look at shows the value.                  *)
Shows(b) ==
  b \in receivers \ unseen /\ value # None => shown[b] = value \/ (b = "opcua" /\ overwritten)

(* Types of what the bridges hold.                                         *)
BridgeTypes ==
  /\ value \in Values \union {None}
  /\ shown \in [Bridges -> Values \union {None}] /\ channel \in [Bridges -> Values \union {None}]

(* Clients write to slots only; who looks at D-Bus has a value to see; and *)
(* only the end of a signal ends the task of a bridge, so that it misses   *)
(* nothing that is sent.                                                   *)
Looking(b) ==
  /\ \A o \in Bridges : channel[o] # None => IsSlot
  /\ b = "dbus" /\ b \in unseen => value # None
  /\ b \in dead => ~IsSlot /\ ~owned

BridgeInv(b) == BridgeTypes /\ Looking(b) /\ Shows(b)

(* A send reaches every bridge that is not dead.                           *)
LEMMA SentReaches ==
  ASSUME NEW b \in Bridges, BridgeInv(b), b \notin dead, NEW v \in Values, NEW t, t \notin Bridges,
         Sent(v, t), UNCHANGED <<deployment, owned, receivers, shown, overwritten>>,
         \/ UNCHANGED channel
         \/ \E o \in Bridges : channel' = [channel EXCEPT ![o] = None]
  PROVE  BridgeInv(b)'
<1> USE DEF BridgeInv, Shows, BridgeTypes, Looking, IsSlot
<1>1. /\ channel' \in [Bridges -> Values \union {None}]
      /\ \A o \in Bridges : channel'[o] \in {channel[o], None}
  BY DEF BridgeTypes
<1>2. CASE IsSlot /\ receivers = {}
  BY <1>1, <1>2 DEF Sent
<1>3. CASE ~(IsSlot /\ receivers = {})
  <2>1. value' = v /\ unseen' = receivers \ dead /\ dead' = dead /\ v # None
    BY <1>3, ValuesAssumption DEF Sent, Listening
  <2> QED
    BY <1>1, <2>1
<1> QED
  BY <1>2, <1>3

(* One step per action of the channel.                                     *)
LEMMA BridgeCellStep ==
  ASSUME NEW b \in Bridges, BridgeInv(b), InTime(b), Next
  PROVE  BridgeInv(b)'
<1>1. ASSUME NEW v \in Values, Send(v) PROVE BridgeInv(b)'
  <2>1. b \notin dead /\ "program" \notin Bridges
    BY <1>1 DEF Send, BridgeInv, Looking, Bridges
  <2> QED
    BY <1>1, <2>1, SentReaches DEF Send
<1>2. ASSUME NEW v \in Values, Arrive(v) PROVE BridgeInv(b)'
  <2>1. b \notin dead /\ "receive" \notin Bridges
    BY <1>2 DEF Arrive, BridgeInv, Looking, Bridges
  <2> QED
    BY <1>2, <2>1, SentReaches DEF Arrive
<1>3. ASSUME NEW o \in Bridges, Forward(o) PROVE BridgeInv(b)'
  <2>1. b \notin dead /\ "forward" \notin Bridges /\ channel[o] \in Values
    BY <1>3 DEF Forward, BridgeInv, BridgeTypes, Looking, Bridges
  <2> QED
    BY <1>3, <2>1, SentReaches DEF Forward
<1> USE DEF BridgeInv, BridgeTypes, Looking, Shows, IsSlot, cell, bridge
<1>4. ASSUME NEW v \in Values, WriteNode(v) PROVE BridgeInv(b)'
  BY <1>4 DEF WriteNode, Bridges
<1>5. CASE Drop \/ ObjectUp
  BY <1>5 DEF Drop, ObjectUp
<1>6. CASE Emit
  BY <1>6 DEF Emit, Bridges
<1>7. CASE EmitFails
  BY <1>7 DEF EmitFails, InTime, Bridges
<1>8. CASE Show
  BY <1>8 DEF Show, Bridges
<1>9. ASSUME NEW o \in Bridges, Expose(o) PROVE BridgeInv(b)'
  BY <1>9 DEF Expose, InTime, Bridges
<1>10. ASSUME NEW o \in Bridges, WatchFails(o) PROVE BridgeInv(b)'
  BY <1>10 DEF WatchFails
<1>11. ASSUME NEW o \in Bridges, NEW v \in Values, Write(o, v) PROVE BridgeInv(b)'
  BY <1>11 DEF Write
<1> QED
  BY <1>1, <1>2, <1>3, <1>4, <1>5, <1>6, <1>7, <1>8, <1>9, <1>10, <1>11 DEF Next, Tell

(* The tasks of a button come and go as receivers and touch no bridge.     *)
LEMMA BridgeStep ==
  ASSUME NEW b \in Bridges, BridgeInv(b), InTime(b), [ButtonNext \/ CellNext]_vars
  PROVE  BridgeInv(b)'
<1>1. CASE CellNext
  BY <1>1, BridgeCellStep DEF CellNext
<1>2. CASE ~CellNext
  <2>1. /\ UNCHANGED <<deployment, owned, value, shown, channel, dead, overwritten>>
        /\ b \in receivers' <=> b \in receivers
        /\ b \in unseen' <=> b \in unseen
    BY <1>2 DEF Bridges, ButtonNext, Press, Pull, Lock, Subscribe, Hear, HeldOn, LetGo, TapsAgain,
                Report, Returned, Poll, Take, Wake, PollUnasked, vars, cellVars, cell, bridge
  <2> QED
    BY <2>1 DEF BridgeInv, BridgeTypes, Looking, Shows, IsSlot
<1> QED
  BY <1>1, <1>2

(* The safety core of ShowsLast: what a bridge shows is the value, as soon *)
(* as its task has looked, whoever wrote it and even if the signal was     *)
(* dropped; D-Bus if it was exposed before the first value.                *)
THEOREM BridgesShowTheValue ==
  ASSUME NEW b \in Bridges
  PROVE  Safety /\ []InTime(b) => []Shows(b)
<1>1. ButtonInit => BridgeInv(b)
  <2> SUFFICES ASSUME ButtonInit PROVE BridgeInv(b)
    OBVIOUS
  <2>1. /\ channel = [o \in Bridges |-> None] /\ shown = channel /\ value = None
        /\ receivers = {} /\ unseen = {} /\ dead = {}
    BY DEF ButtonInit, Init
  <2> QED
    BY <2>1 DEF BridgeInv, BridgeTypes, Looking, Shows
<1>2. BridgeInv(b) => Shows(b)
  BY DEF BridgeInv
<1>3. BridgeInv(b) /\ InTime(b) /\ [ButtonNext \/ CellNext]_vars => BridgeInv(b)'
  BY BridgeStep
<1> QED
  BY <1>1, <1>2, <1>3, PTL DEF Safety
=============================================================================
