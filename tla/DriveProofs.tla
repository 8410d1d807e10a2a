---------------------------- MODULE DriveProofs ----------------------------
(***************************************************************************)
(* The setpoint of an inverter follows the ratio it was sent, for any two  *)
(* speeds, and without a permission to run, or with a ratio in the dead *)
(* band, it is never brought into operation, whatever it says, whatever    *)
(* faults there are and wherever the tasks get between the loads of the    *)
(* cyclic processing.                                                      *)
(***************************************************************************)
EXTENDS Drive, TLAPS

-----------------------------------------------------------------------------
(* Speeds.                                                                 *)

(* Division by 99 as Quotient does it keeps order and bounds.              *)
LEMMA Hundredths ==
  ASSUME NEW a \in Nat, NEW b \in Nat, a <= b, NEW m \in Nat, 99 * m <= a
  PROVE  /\ Quotient(a, 99) \in Nat /\ Quotient(b, 99) \in Nat
         /\ m <= Quotient(a, 99) /\ Quotient(a, 99) <= Quotient(b, 99)
  BY DEF Quotient

Clamped(p) == IF p > 100 THEN 100 ELSE IF p < 1 THEN 1 ELSE p

(* A point of the line through the two speeds is between them.             *)
LEMMA Between ==
  ASSUME NEW c \in 0..99, NEW x \in Nat, NEW y \in Nat, NEW m \in Nat, m <= x, m <= y
  PROVE  c * (y - x) + x * 99 \in Nat /\ 99 * m <= c * (y - x) + x * 99
<1>1. c \in Nat /\ 99 - c \in Nat
  OBVIOUS
<1>2. c * (y - x) + x * 99 = c * y + (99 - c) * x
  BY <1>1
<1>3. c * m <= c * y /\ c * y \in Nat /\ c * m \in Nat
  BY <1>1
<1>4. (99 - c) * m <= (99 - c) * x /\ (99 - c) * x \in Nat /\ (99 - c) * m \in Nat
  BY <1>1
<1>5. c * m + (99 - c) * m = 99 * m
  BY <1>1
<1> QED
  BY <1>2, <1>3, <1>4, <1>5

(* So it is nowhere below the slower one.                                  *)
LEMMA MappedBounds ==
  ASSUME NEW p \in Int
  PROVE  /\ Mapped(p) \in Nat /\ Slowest \in Nat /\ Slowest <= Mapped(p)
<1> DEFINE c == Clamped(p) - 1
           a == c * (MaxSpeed - MinSpeed) + MinSpeed * 99
<1>1. /\ c \in 0..99 /\ MinSpeed \in Nat /\ MaxSpeed \in Nat
      /\ Slowest \in Nat /\ Slowest <= MinSpeed /\ Slowest <= MaxSpeed
  BY SpeedsAssumption DEF Clamped, Slowest
<1>2. Mapped(p) = Quotient(a, 99)
  BY DEF Mapped, Clamped
<1> HIDE DEF c
<1>3. a \in Nat /\ 99 * Slowest <= a
  BY <1>1, Between
<1> HIDE DEF a
<1> QED
  BY <1>1, <1>2, <1>3, Hundredths

(* It rises, if the speeds are the right way round.                        *)
LEMMA MappedRises ==
  ASSUME MinSpeed <= MaxSpeed, NEW p \in Int, NEW q \in Int, p <= q
  PROVE  Mapped(p) <= Mapped(q)
<1> DEFINE c == Clamped(p) - 1
           d == Clamped(q) - 1
           s == MaxSpeed - MinSpeed
<1>1. c \in Nat /\ d \in Nat /\ c <= d /\ s \in Nat /\ MinSpeed \in Nat
  BY SpeedsAssumption DEF Clamped
<1>2. /\ Mapped(p) = Quotient(c * s + MinSpeed * 99, 99)
      /\ Mapped(q) = Quotient(d * s + MinSpeed * 99, 99)
  BY DEF Mapped, Clamped
<1> HIDE DEF c, d, s
<1>3. c * s \in Nat /\ d * s \in Nat /\ c * s <= d * s
  BY <1>1
<1> DEFINE a == c * s + MinSpeed * 99
           b == d * s + MinSpeed * 99
<1>4. a \in Nat /\ b \in Nat /\ a <= b /\ 99 * MinSpeed <= a
  BY <1>1, <1>3
<1> HIDE DEF a, b
<1>5. Quotient(a, 99) <= Quotient(b, 99)
  BY <1>1, <1>4, Hundredths
<1> QED
  BY <1>2, <1>5 DEF a, b

(* The speed of a ratio: forward it is a mapped one, the other way  *)
(* round it is the negative of one, and 0 between the two.                 *)
LEMMA RpmCases ==
  ASSUME NEW p \in Int
  PROVE  /\ p >= 1  => Rpm(p) = Saturated(Mapped(p))
         /\ p <= -1 => Rpm(p) = Saturated(-Mapped(-p))
         /\ p = 0   => Rpm(p) = 0
<1>1. p >= 1 => AbsOf(p) >= 1 /\ ~(AbsOf(p) < 1) /\ ~(p < 0)
  BY DEF AbsOf
<1>2. p <= -1 => ~(AbsOf(p) < 1) /\ p < 0
  BY DEF AbsOf
<1>3. p = 0 => AbsOf(p) < 1
  BY DEF AbsOf
<1> QED
  BY <1>1, <1>2, <1>3, Zenon DEF Rpm

(* What 16 bits do to speeds.                                              *)
LEMMA SaturatedFacts ==
  ASSUME NEW a \in Nat, NEW b \in Nat, a <= b, NEW m \in Nat, m <= a
  PROVE  /\ Saturated(a) \in Nat /\ Saturated(a) <= Saturated(b) /\ Saturated(m) <= Saturated(a)
         /\ -Saturated(-a) \in Nat /\ Saturated(-b) <= Saturated(-a) /\ Saturated(m) <= -Saturated(-a)
         /\ AbsOf(Saturated(a) + Saturated(-a)) <= 1
  BY DEF Saturated, AbsOf

(* A speed has the sign of its ratio.                                      *)
LEMMA RpmSigned ==
  ASSUME NEW r \in Int
  PROVE  /\ Rpm(r) \in Int
         /\ r >= 0 => Rpm(r) >= 0
         /\ r <= 0 => Rpm(r) <= 0
<1>1. CASE r >= 1
  <2>1. Mapped(r) \in Nat
    BY MappedBounds
  <2>2. Saturated(Mapped(r)) \in Nat
    BY <2>1, SaturatedFacts
  <2> QED
    BY <1>1, <2>2, RpmCases
<1>2. CASE r <= -1
  <2>1. -r \in Int /\ Mapped(-r) \in Nat
    BY MappedBounds
  <2>2. Saturated(-Mapped(-r)) \in Int /\ -Saturated(-Mapped(-r)) \in Nat
    BY <2>1 DEF Saturated
  <2> QED
    BY <1>2, <2>2, RpmCases
<1>3. CASE r = 0
  BY <1>3, RpmCases
<1> QED
  BY <1>1, <1>2, <1>3

(* A faster ratio never gives a slower speed.                              *)
LEMMA RpmRises ==
  ASSUME MinSpeed <= MaxSpeed, NEW p \in Int, NEW q \in Int, p <= q
  PROVE  Rpm(p) <= Rpm(q)
<1>1. \A r \in Int : /\ Rpm(r) \in Int
                     /\ r >= 0 => Rpm(r) >= 0
                     /\ r <= 0 => Rpm(r) <= 0
  BY RpmSigned
<1>2. CASE p >= 1
  <2>1. Mapped(p) \in Nat /\ Mapped(q) \in Nat /\ Mapped(p) <= Mapped(q)
    BY MappedBounds, MappedRises
  <2>2. Saturated(Mapped(p)) <= Saturated(Mapped(q))
    BY <2>1 DEF Saturated
  <2>3. Rpm(p) = Saturated(Mapped(p)) /\ Rpm(q) = Saturated(Mapped(q))
    BY <1>2, RpmCases
  <2> QED
    BY <1>1, <2>2, <2>3
<1>3. CASE q <= -1
  <2>1. -q <= -p /\ -q \in Int /\ -p \in Int
    OBVIOUS
  <2>2. Mapped(-q) \in Nat /\ Mapped(-p) \in Nat /\ Mapped(-q) <= Mapped(-p)
    BY <2>1, MappedBounds, MappedRises
  <2>3. Saturated(-Mapped(-p)) <= Saturated(-Mapped(-q))
    BY <2>2 DEF Saturated
  <2>4. Rpm(p) = Saturated(-Mapped(-p)) /\ Rpm(q) = Saturated(-Mapped(-q))
    BY <1>3, RpmCases
  <2> QED
    BY <1>1, <2>3, <2>4
<1>4. CASE p <= 0 /\ q >= 0
  BY <1>1, <1>4
<1> QED
  BY <1>2, <1>3, <1>4

(* The other way round is the same speed but for the last step.            *)
LEMMA RpmMirrors ==
  ASSUME NEW p \in Int
  PROVE  AbsOf(Rpm(-p) + Rpm(p)) <= 1
<1>1. ASSUME NEW r \in Int, r >= 1 PROVE AbsOf(Rpm(r) + Rpm(-r)) <= 1
  <2>1. Mapped(r) \in Nat
    BY MappedBounds
  <2>2. Rpm(r) = Saturated(Mapped(r))
    BY <1>1, RpmCases
  <2>3. Rpm(-r) = Saturated(-Mapped(r))
    <3>1. -r \in Int /\ -r <= -1 /\ -(-r) = r
      BY <1>1
    <3> QED
      BY <3>1, RpmCases
  <2>4. AbsOf(Saturated(Mapped(r)) + Saturated(-Mapped(r))) <= 1
    BY <2>1 DEF Saturated, AbsOf
  <2> QED
    BY <2>2, <2>3, <2>4
<1>2. CASE p >= 1
  <2>1. Rpm(-p) \in Int /\ Rpm(p) \in Int
    BY RpmSigned
  <2>2. Rpm(-p) + Rpm(p) = Rpm(p) + Rpm(-p)
    BY <2>1
  <2> QED
    BY <1>1, <1>2, <2>2
<1>3. CASE p <= -1
  <2>1. -p \in Int /\ -p >= 1 /\ -(-p) = p
    BY <1>3
  <2> QED
    BY <1>1, <2>1
<1>4. CASE p = 0
  <2>1. Rpm(-p) = 0 /\ Rpm(p) = 0
    BY <1>4, RpmCases
  <2> QED
    BY <2>1 DEF AbsOf
<1> QED
  BY <1>2, <1>3, <1>4

(* There is no speed between standstill and the slowest.                   *)
LEMMA NoCreeping ==
  ASSUME NEW p \in Int
  PROVE  Rpm(p) = 0 \/ AbsOf(Rpm(p)) >= Saturated(Slowest)
<1>1. CASE p >= 1
  <2>1. Mapped(p) \in Nat /\ Slowest <= Mapped(p) /\ Slowest \in Nat
    BY MappedBounds
  <2>2. AbsOf(Saturated(Mapped(p))) >= Saturated(Slowest)
    BY <2>1 DEF Saturated, AbsOf
  <2> QED
    BY <1>1, <2>2, RpmCases
<1>2. CASE p <= -1
  <2>1. -p \in Int
    OBVIOUS
  <2>2. Mapped(-p) \in Nat /\ Slowest <= Mapped(-p) /\ Slowest \in Nat
    BY <2>1, MappedBounds
  <2>3. AbsOf(Saturated(-Mapped(-p))) >= Saturated(Slowest)
    BY <2>2 DEF Saturated, AbsOf
  <2> QED
    BY <1>2, <2>3, RpmCases
<1>3. CASE p = 0
  BY <1>3, RpmCases
<1> QED
  BY <1>1, <1>2, <1>3

-----------------------------------------------------------------------------
(* The setpoint.                                                           *)

(* What the cached setpoint is: the speed of the ratio that counts, unless *)
(* a ratio has been received that the task has not taken.                  *)
SetpointInv ==
  /\ ratio \in Ratios \union {NoRatio}
  /\ ~ratioSeen => ratio \in Ratios
  /\ ratioSeen => rpm_setpoint = Rpm(Wanted)

(* Only the receive task and the task of the slot touch it.                *)
LEMMA SetpointStep == SetpointInv /\ [Next]_vars => SetpointInv'
<1> SUFFICES ASSUME SetpointInv, [Next]_vars PROVE SetpointInv'
  OBVIOUS
<1> USE RatiosAssumption DEF SetpointInv, Wanted
<1>1. ASSUME NEW p \in Ratios, SendRatio(p) PROVE SetpointInv'
  BY <1>1 DEF SendRatio
<1>2. CASE TakeRatio
  BY <1>2 DEF TakeRatio
<1>3. CASE UNCHANGED <<ratio, ratioSeen, rpm_setpoint>>
  BY <1>3
<1>4. QED
  BY <1>1, <1>2, <1>3 DEF Next, vars, slots, cached, SendRun, TakeRun, Decide, Check, Pack,
     Exchange, Obey, ResetFault, Trip, StopLocally, Cause

(* What the invariant says of any two ratios is what the property says.    *)
LEMMA SetpointSuffices ==
  ASSUME SetpointInv
  PROVE  SpeedFollowsRatio
<1> SUFFICES ASSUME ratioSeen PROVE SpeedFollowsRatio
  BY DEF SpeedFollowsRatio
<1>1. Wanted \in Int /\ rpm_setpoint = Rpm(Wanted)
  BY RatiosAssumption DEF SetpointInv, Wanted
<1>2. ASSUME NEW q \in Ratios \union {StartRatio}
      PROVE  /\ MinSpeed <= MaxSpeed /\ q <= Wanted => Rpm(q) <= rpm_setpoint
             /\ q = -Wanted => AbsOf(Rpm(q) + rpm_setpoint) <= 1
  <2>1. q \in Int
    BY RatiosAssumption
  <2>2. MinSpeed <= MaxSpeed /\ q <= Wanted => Rpm(q) <= Rpm(Wanted)
    BY <1>1, <2>1, RpmRises
  <2>3. AbsOf(Rpm(-Wanted) + Rpm(Wanted)) <= 1
    BY <1>1, RpmMirrors
  <2> QED
    BY <1>1, <2>2, <2>3
<1>3. Rpm(Wanted) = 0 \/ AbsOf(Rpm(Wanted)) >= Saturated(Slowest)
  BY <1>1, NoCreeping
<1> QED
  BY <1>1, <1>2, <1>3 DEF SpeedFollowsRatio

(* The setpoint follows the ratio for any two speeds a configuration may   *)
(* give, those above 16 bits and those the wrong way round included.       *)
THEOREM SetpointFollows == Safety => []SpeedFollowsRatio
<1>1. Init => SetpointInv
  BY RatiosAssumption DEF Init, SetpointInv, Wanted
<1>2. SetpointInv => SpeedFollowsRatio
  BY SetpointSuffices
<1> QED
  BY <1>1, <1>2, SetpointStep, PTL DEF Safety

-----------------------------------------------------------------------------
(* Types: a state machine that is told anything stays within its words.    *)

(* Every word answers some state of the profile, whatever is reported.     *)
LEMMA WordsTold ==
  ASSUME NEW w, NEW a \in {"Stop", "Run"}
  PROVE  ParseState(w) \in States /\ Transition(ParseState(w), a, TRUE) \in Words
<1>1. ParseState(w) \in States
  BY DEF ParseState, States
<1> QED
  BY <1>1 DEF Words

(* A drive does not leave the profile.                                     *)
LEMMA ObeyedIsState ==
  ASSUME NEW s \in States, NEW w
  PROVE  Obeyed(s, w) \in States
  BY DEF Obeyed, States, Ready

(* Types, as the code declares them.                                       *)
THEOREM TypeCorrect == Safety => []TypeOK
<1>1. Init => TypeOK
  <2> SUFFICES ASSUME Init PROVE TypeOK
    OBVIOUS
  <2>1. Rpm(StartRatio) \in Speeds /\ {} \in Words
    BY DEF Speeds, Words
  <2>2. power \in States /\ status \in SUBSET StatusBits
    BY DEF Init, States, StatusBits, Ones
  <2>3. Stopped \in [word : Words, speed : Speeds \union {0}]
    BY <2>1 DEF Stopped
  <2> QED
    BY <2>1, <2>2, <2>3 DEF Init, TypeOK
<1>2. TypeOK /\ SetpointInv /\ [Next]_vars => TypeOK'
  <2> SUFFICES ASSUME TypeOK, SetpointInv, [Next]_vars PROVE TypeOK'
    OBVIOUS
  <2> USE DEF TypeOK
  <2>1. ASSUME NEW p \in Ratios, SendRatio(p) PROVE TypeOK'
    BY <2>1 DEF SendRatio, cached, process, wire, drive
  <2>2. ASSUME NEW b \in BOOLEAN, SendRun(b) PROVE TypeOK'
    BY <2>2 DEF SendRun, cached, process, wire, drive
  <2>3. CASE TakeRatio
    <3>1. Rpm(ratio) \in Speeds
      BY <2>3 DEF TakeRatio, SetpointInv, Speeds
    <3> QED
      BY <2>3, <3>1 DEF TakeRatio, process, wire, drive
  <2>4. CASE TakeRun
    BY <2>4 DEF TakeRun, process, wire, drive
  <2>5. CASE Decide
    BY <2>5, WordsTold DEF Decide, Told, slots, cached, wire, drive
  <2>6. CASE Check
    BY <2>6, WordsTold DEF Check, Told, slots, cached, wire, drive
  <2>7. CASE Pack
    BY <2>7 DEF Pack, slots, cached, wire, drive
  <2>8. CASE Exchange
    <3>1. Reports(power) \subseteq SUBSET StatusBits
      BY DEF Reports, StatusWords, Ones, Either, StatusBits, States
    <3> QED
      BY <2>8, <3>1, BitsAssumption DEF Exchange, slots, cached
  <2>9. CASE Obey
    BY <2>9, ObeyedIsState DEF Obey, slots, cached, process, wire
  <2>10. CASE ResetFault
    <3>1. power' \in States
      BY <2>10 DEF ResetFault, States
    <3> QED
      BY <2>10, <3>1 DEF ResetFault, slots, cached, process, wire
  <2>11. CASE Trip
    BY <2>11 DEF Trip, slots, cached, process, wire, States
  <2>12. CASE StopLocally
    BY <2>12 DEF StopLocally, slots, cached, process, wire, States
  <2>13. CASE Cause
    BY <2>13 DEF Cause, slots, cached, process, wire
  <2>14. CASE UNCHANGED vars
    BY <2>14 DEF vars, slots, cached, process, wire, drive
  <2> QED
    BY <2>1, <2>2, <2>3, <2>4, <2>5, <2>6, <2>7, <2>8, <2>9, <2>10, <2>11, <2>12, <2>13, <2>14
    DEF Next
<1>3. Init => SetpointInv
  BY RatiosAssumption DEF Init, SetpointInv, Wanted
<1> QED
  BY <1>1, <1>2, <1>3, SetpointStep, PTL DEF Safety

-----------------------------------------------------------------------------
(* The profile.                                                            *)

(* parse_state reads the table in its comment: whatever a drive may say of *)
(* a state is parsed as that state, so no two rows overlap.                *)
THEOREM TableIsParsed ==
  \A s \in States : \A w \in StatusWords(s) : ParseState(w) = s
<1> SUFFICES ASSUME NEW s \in States, NEW x \in SUBSET Either[s]
             PROVE  ParseState(Ones[s] \union x) = s
  BY DEF StatusWords
<1> USE DEF Ones, Either, ParseState
<1>1. CASE s = "NotReadyToSwitchOn"
  BY <1>1
<1>2. CASE s = "SwitchOnDisabled"
  BY <1>2
<1>3. CASE s = "ReadyToSwitchOn"
  BY <1>3
<1>4. CASE s = "SwitchedOn"
  BY <1>4
<1>5. CASE s = "OperationEnabled"
  BY <1>5
<1>6. CASE s = "QuickStopActive"
  BY <1>6
<1>7. CASE s = "FaultReactionActive"
  BY <1>7
<1>8. CASE s = "Fault"
  BY <1>8
<1> QED
  BY <1>1, <1>2, <1>3, <1>4, <1>5, <1>6, <1>7, <1>8 DEF States

(* The word for a stop enables no state.                                   *)
LEMMA StopEnablesNothing ==
  ASSUME NEW w
  PROVE  "enable" \notin Transition(ParseState(w), "Stop", TRUE)
<1>1. ParseState(w) \in States
  BY WordsTold
<1>2. ASSUME NEW s \in States PROVE "enable" \notin Transition(s, "Stop", TRUE)
  BY <1>2 DEF States, Transition, WhileEnabled, Shutdown, DisableOperation, EnableOperation,
     QuickStop, DisableVoltage, FaultReset
<1> QED
  BY <1>1, <1>2

(* The drive runs for nothing but an enabling word.                        *)
LEMMA RunsForEnable ==
  ASSUME NEW s \in States, s # "OperationEnabled", NEW w, "enable" \notin w
  PROVE  Obeyed(s, w) # "OperationEnabled"
  BY DEF Obeyed, Ready, States

-----------------------------------------------------------------------------
(* Standstill.                                                             *)

(* Neither the word at hand, nor the one sent, nor the one the drive has   *)
(* enables it.                                                             *)
Disabled ==
  /\ power \in States \ {"OperationEnabled"}
  /\ "enable" \notin word /\ "enable" \notin output.word /\ "enable" \notin command.word

(* What keeps a drive disabled: that Check does not ask for "Run".         *)
LEMMA StaysDisabled ==
  ASSUME Disabled, [Next]_vars, Check => ~run_cached
  PROVE  Disabled'
<1> USE DEF Disabled
<1>1. CASE Decide
  BY <1>1, StopEnablesNothing DEF Decide, Told, wire, drive
<1>2. CASE Check
  BY <1>2 DEF Check, wire, drive
<1>3. CASE Pack
  BY <1>3 DEF Pack, wire, drive
<1>4. CASE Exchange
  BY <1>4 DEF Exchange
<1>5. CASE Obey
  BY <1>5, ObeyedIsState, RunsForEnable DEF Obey, process
<1>6. CASE ResetFault
  <2>1. power' \in States \ {"OperationEnabled"}
    BY <1>6 DEF ResetFault, States
  <2> QED
    BY <1>6, <2>1 DEF ResetFault, process
<1>7. CASE Trip
  BY <1>7 DEF Trip, process, States
<1>8. CASE StopLocally
  BY <1>8 DEF StopLocally
<1>9. CASE UNCHANGED <<power, process, command>>
  BY <1>9 DEF process
<1> QED
  BY <1>1, <1>2, <1>3, <1>4, <1>5, <1>6, <1>7, <1>8, <1>9
  DEF Next, vars, slots, cached, wire, drive, SendRatio, SendRun, TakeRatio, TakeRun, Cause

(* The safety core of StopsWhenTold: a drive that is never permitted to run*)
(* is never in operation, for any ratios, whatever its status words say.   *)
THEOREM NeverUntold ==
  Safety /\ []~run => [](power # "OperationEnabled")
<1> DEFINE Inv == Disabled /\ ~run_cached
<1>1. Init => Inv
  BY DEF Init, Disabled, Stopped, States
<1>2. Inv /\ ~run /\ [Next]_vars => Inv'
  <2> SUFFICES ASSUME Inv, ~run, [Next]_vars PROVE Inv'
    OBVIOUS
  <2>1. Disabled'
    BY StaysDisabled
  <2>2. run_cached' = FALSE
    <3>1. CASE TakeRun
      BY <3>1 DEF TakeRun
    <3>2. CASE UNCHANGED run_cached
      BY <3>2
    <3> QED
      BY <3>1, <3>2 DEF Next, vars, slots, cached, SendRatio, SendRun, TakeRatio, Decide, Check,
         Pack, Exchange, Obey, ResetFault, Trip, StopLocally, Cause
  <2> QED
    BY <2>1, <2>2
<1>3. Inv => power # "OperationEnabled"
  BY DEF Disabled
<1> QED
  BY <1>1, <1>2, <1>3, PTL DEF Safety

(* The safety core of RestsInDeadBand: with the ratio in the dead band the *)
(* drive is never in operation and has no speed, whatever the permission:  *)
(* no second load of the setpoint sees another speed than the first.       *)
THEOREM NeverInDeadBand ==
  Safety /\ [](Rpm(Wanted) = 0) => [](power # "OperationEnabled" /\ command.speed = 0)
<1> DEFINE Rests == rpm_setpoint = 0 /\ output.speed = 0 /\ command.speed = 0
           Inv == Disabled /\ Rests /\ pc # "check" /\ SetpointInv
<1>1. Init /\ Rpm(Wanted) = 0 => Inv
  BY RatiosAssumption DEF Init, Disabled, Stopped, States, SetpointInv, Wanted
<1>2. Inv /\ Rpm(Wanted) = 0 /\ [Next]_vars => Inv'
  <2> SUFFICES ASSUME Inv, Rpm(Wanted) = 0, [Next]_vars PROVE Inv'
    OBVIOUS
  <2>1. Disabled'
    BY StaysDisabled DEF Check
  <2>2. SetpointInv'
    BY SetpointStep
  <2>3. Rests' /\ (pc # "check")'
    <3>1. CASE TakeRatio
      BY <3>1, RatiosAssumption DEF TakeRatio, SetpointInv, Wanted, process, drive
    <3>2. CASE Decide
      BY <3>2 DEF Decide, cached, drive
    <3>3. CASE Pack
      BY <3>3 DEF Pack, cached, drive
    <3>4. CASE Exchange
      BY <3>4 DEF Exchange, cached
    <3>5. CASE UNCHANGED <<rpm_setpoint, process, command>>
      BY <3>5 DEF process
    <3> QED
      BY <3>1, <3>2, <3>3, <3>4, <3>5 DEF Next, vars, slots, cached, process, wire, drive,
         SendRatio, SendRun, TakeRun, Check, Obey, ResetFault, Trip, StopLocally, Cause
  <2> QED
    BY <2>1, <2>2, <2>3
<1>3. Inv => power # "OperationEnabled" /\ command.speed = 0
  BY DEF Disabled
<1> QED
  BY <1>1, <1>2, <1>3, PTL DEF Safety

-----------------------------------------------------------------------------
(* Reports and answers.                                                    *)

(* The words process_data has for a state.                                 *)
Answers(s) == {Transition(s, "Stop", TRUE), Transition(s, "Run", TRUE)}

(* A status word is one of the state it was made in, and the control word  *)
(* at hand answers it.                                                     *)
StatusRead ==
  /\ reported \in States /\ status \in StatusWords(reported)
  /\ pc \in {"check", "pack"} => word \in Answers(reported)

(* A drive is answered what it reported, however long ago the setpoint and *)
(* the permission were loaded.                                             *)
AnswersReports == [][Pack => output'.word \in Answers(reported)]_vars

(* The safety core of LeavesFault and RunsWhenTold: every fault a drive    *)
(* reports is answered with a reset, and only a drive that is ready or runs*)
(* is told to run.                                                         *)
ResetsFaults ==
  [][Pack => /\ reported = "Fault" => "reset" \in output'.word
             /\ "enable" \in output'.word =>
                  reported \in {"ReadyToSwitchOn", "SwitchedOn", "OperationEnabled"}]_vars

(* The words for the states.                                               *)
LEMMA AnswersFit ==
  ASSUME NEW s \in States, NEW w \in Answers(s)
  PROVE  /\ s = "Fault" => "reset" \in w
         /\ "enable" \in w => s \in {"ReadyToSwitchOn", "SwitchedOn", "OperationEnabled"}
  BY DEF Answers, States, Transition, WhileEnabled, Shutdown, DisableOperation, EnableOperation,
     QuickStop, DisableVoltage, FaultReset

(* Only an exchange brings a status word and only process_data a control   *)
(* word: one step per action.                                              *)
LEMMA StatusStep ==
  ASSUME TypeOK, StatusRead, [Next]_vars
  PROVE  StatusRead'
<1> USE DEF StatusRead
<1>1. CASE Decide
  <2>1. ParseState(status) = reported
    BY TableIsParsed
  <2> QED
    BY <1>1, <2>1 DEF Decide, Told, Answers, wire, drive
<1>2. CASE Check
  <2>1. ParseState(status) = reported
    BY TableIsParsed
  <2> QED
    BY <1>2, <2>1 DEF Check, Told, Answers, wire, drive
<1>3. CASE Pack
  BY <1>3 DEF Pack, wire, drive
<1>4. CASE Exchange
  BY <1>4 DEF Exchange, Reports, TypeOK
<1>5. CASE UNCHANGED <<pc, word, wire>>
  BY <1>5 DEF wire
<1> QED
  BY <1>1, <1>2, <1>3, <1>4, <1>5
  DEF Next, vars, slots, cached, process, wire, drive, SendRatio, SendRun, TakeRatio, TakeRun,
      Obey, ResetFault, Trip, StopLocally, Cause

(* No report is left unanswered or answered as another one.                *)
THEOREM EveryReportIsAnswered == Safety => AnswersReports /\ ResetsFaults
<1>1. Init => StatusRead
  <2> SUFFICES ASSUME Init PROVE StatusRead
    OBVIOUS
  <2>1. power \in States /\ reported = power /\ status = Ones[power] /\ pc = "idle"
    BY DEF Init, States
  <2>2. status = Ones[power] \union {} /\ {} \in SUBSET Either[power]
    BY <2>1
  <2> QED
    BY <2>1, <2>2 DEF StatusRead, StatusWords
<1>2. Safety => []StatusRead
  BY <1>1, StatusStep, TypeCorrect, PTL DEF Safety
<1>3. StatusRead /\ [Next]_vars => [Pack => output'.word \in Answers(reported)]_vars
  BY DEF StatusRead, Pack
<1>4. StatusRead /\ [Next]_vars =>
        [Pack => /\ reported = "Fault" => "reset" \in output'.word
                 /\ "enable" \in output'.word =>
                      reported \in {"ReadyToSwitchOn", "SwitchedOn", "OperationEnabled"}]_vars
  <2> SUFFICES ASSUME StatusRead, Pack
               PROVE  /\ reported = "Fault" => "reset" \in output'.word
                      /\ "enable" \in output'.word =>
                           reported \in {"ReadyToSwitchOn", "SwitchedOn", "OperationEnabled"}
    OBVIOUS
  <2>1. output'.word \in Answers(reported) /\ reported \in States
    BY DEF StatusRead, Pack
  <2> QED
    BY <2>1, AnswersFit
<1> QED
  BY <1>2, <1>3, <1>4, PTL DEF Safety, AnswersReports, ResetsFaults
=============================================================================
