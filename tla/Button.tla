------------------------------- MODULE Button -------------------------------
(***************************************************************************)
(* The button (src/src/button.rs): a stream of taps, double taps and long  *)
(* presses made of the values of a slot.  Every poll that finds no event   *)
(* spawns a task; tasks take turns through the mutex of the slot and each  *)
(* of their async_recv subscribes anew.                                    *)
(*                                                                         *)
(* Tasks are alike (they wake the same consumer), so that those that wait  *)
(* for the mutex are counted.                                              *)
(***************************************************************************)
EXTENDS WatchCell

CONSTANT MaxTasks  (* bound: tasks at a time, for polls nobody was woken to *)

ASSUME TasksAssumption == MaxTasks \in Nat \ {0}
ASSUME PressAssumption == Values = BOOLEAN

VARIABLES
  waiting,  (* tasks that wait for the mutex                               *)
  stage,    (* of the one that has it: "none"; before an async_recv        *)
            (* "first", "second" or "third", in it "pressing", "holding"   *)
            (* or "tapping"                                                *)
  ready,    (* the event of the last task that ended                       *)
  taken,    (* what the poll has read and not yet reset                    *)
  consumer, (* "polling", "taking" or "awaiting"                           *)
  woken,    (* the consumer was woken since it polled last                 *)
  armed     (* a press reached a task since the last event                 *)

tasks == <<waiting, stage>>
poll  == <<taken, consumer>>
buttonVars == <<tasks, ready, poll, woken, armed>>
vars  == <<cellVars, buttonVars>>

NoEvent == "none"
ButtonEvents == {"Tap", "DoubleTap", "LongTap"}

ButtonInit ==
  /\ Init
  /\ waiting = 0 /\ stage = "none" /\ ready = NoEvent /\ taken = NoEvent
  /\ consumer = "polling" /\ woken = FALSE /\ armed = FALSE

-----------------------------------------------------------------------------
(* The task of a press.                                                    *)

Lock ==
  /\ stage = "none" /\ waiting > 0
  /\ stage'   = "first"
  /\ waiting' = waiting - 1
  /\ UNCHANGED <<cellVars, ready, poll, woken, armed>>

Listens == [first |-> "pressing", second |-> "holding", third |-> "tapping"]

(* Mutant: a subscription finds the value that is there.                   *)
MutSubscribe ==
  /\ stage \in DOMAIN Listens
  /\ stage'     = Listens[stage]
  /\ receivers' = receivers \union {"press"}
  /\ unseen'    = unseen \union (IF value = None THEN {} ELSE {"press"})
  /\ UNCHANGED <<deployment, owned, value, last, bridge, waiting, ready, poll, woken, armed>>

(* async_recv: what is there already is not a change.                      *)
Subscribe ==
  /\ stage \in DOMAIN Listens
  /\ stage'     = Listens[stage]
  /\ receivers' = receivers \union {"press"}
  /\ UNCHANGED <<deployment, owned, value, last, unseen, bridge, waiting, ready, poll,
                 woken, armed>>

Returned ==
  /\ receivers' = receivers \ {"press"} /\ unseen' = unseen \ {"press"}
  /\ UNCHANGED <<deployment, owned, value, last, bridge>>

(* The first value that is true begins a press; the one after it, a release*)
(* or not, ends the wait for a long one.                                   *)
Hear ==
  /\ "press" \in unseen
  /\ \/ stage = "pressing" /\ stage' = IF value THEN "second" ELSE "first"
     \/ stage = "holding"  /\ stage' = "third"
  /\ Returned
  /\ UNCHANGED <<waiting, ready, poll, woken, armed>>

(* Mutant: a tap does not wake the consumer.                               *)
MutReport(e) ==
  /\ stage' = "none" /\ ready' = e /\ armed' = FALSE
  /\ woken' = (woken \/ e # "Tap")
  /\ Returned
  /\ UNCHANGED <<waiting, poll>>

Report(e) ==
  /\ stage' = "none" /\ ready' = e /\ armed' = FALSE
  /\ woken' = TRUE
  /\ Returned
  /\ UNCHANGED <<waiting, poll>>

(* timeout looks for a value before it looks at its clock.                 *)
HeldOn    == stage = "holding" /\ "press" \notin unseen /\ Report("LongTap")
LetGo     == stage = "tapping" /\ "press" \notin unseen /\ Report("Tap")
TapsAgain == stage = "tapping" /\ "press" \in unseen    /\ Report("DoubleTap")

-----------------------------------------------------------------------------
(* The stream.                                                             *)

(* The first look at ready.                                                *)
Poll ==
  /\ consumer = "polling" /\ woken' = FALSE
  /\ IF ready # NoEvent
     THEN consumer' = "taking"   /\ taken' = ready /\ UNCHANGED waiting
     ELSE consumer' = "awaiting" /\ waiting' = waiting + 1 /\ UNCHANGED taken
  /\ UNCHANGED <<cellVars, stage, ready, armed>>

(* The second.  What was stored in between is lost.                        *)
Take ==
  /\ consumer = "taking"
  /\ ready' = NoEvent /\ taken' = NoEvent
  /\ consumer' = "polling"
  /\ UNCHANGED <<cellVars, tasks, woken, armed>>

Wake ==
  /\ consumer = "awaiting" /\ woken
  /\ consumer' = "polling"
  /\ UNCHANGED <<cellVars, tasks, ready, taken, woken, armed>>

(* Something else the consumer waits for made it poll.                     *)
PollUnasked ==
  /\ consumer = "awaiting" /\ waiting + 1 < MaxTasks
  /\ consumer' = "polling"
  /\ UNCHANGED <<cellVars, tasks, ready, taken, woken, armed>>

-----------------------------------------------------------------------------
Press == Lock \/ Subscribe \/ Hear \/ HeldOn \/ LetGo \/ TapsAgain
Pull  == Poll \/ Take \/ Wake

ButtonNext == deployment.button /\ (Press \/ Pull \/ PollUnasked)

(* A press is a value true in the channel, from wherever it came.          *)
CellNext ==
  /\ Next
  /\ armed' = (armed \/ (value' = TRUE /\ "press" \in unseen'))
  /\ UNCHANGED <<tasks, ready, poll, woken>>

ButtonFairness ==
  /\ WF_vars(deployment.button /\ Lock) /\ WF_vars(deployment.button /\ Subscribe)
  /\ WF_vars(deployment.button /\ Hear) /\ WF_vars(deployment.button /\ Pull)
  /\ WF_vars(deployment.button /\ (HeldOn \/ LetGo \/ TapsAgain))

Safety == ButtonInit /\ [][ButtonNext \/ CellNext]_vars
Spec   == Safety /\ Fairness /\ ButtonFairness

-----------------------------------------------------------------------------
(* Every event has a press of its own: however many tasks polls have       *)
(* spawned, no two report the same press, a value that stays true is not   *)
(* pressed again, and neither is one that a task has heard half of.        *)
OneEventPerPress == [][ready' \notin {ready, NoEvent} => armed]_vars

(* Who waits has been woken, or a task will wake it and no event is there  *)
(* already: no order of polls, reports and resets leaves the consumer      *)
(* asleep beside its event.                                                *)
AwaitsAnAnswer ==
  consumer = "awaiting" => woken \/ (ready = NoEvent /\ (waiting > 0 \/ stage # "none"))

(* A press that was heard is followed by an event for the consumer, though *)
(* its slot may never change again and its receive task may have panicked. *)
(* It need not be the event of that press: ready holds one event, which may*)
(* be overwritten before it is taken, and one that is stored between the   *)
(* two looks of a poll is reset with the one the poll has read.            *)
HeardIsAnswered ==
  deployment.button /\ stage = "second" ~> consumer = "taking"
=============================================================================
