------------------------------ MODULE Weigher ------------------------------
(***************************************************************************)
(* A weighing terminal                                                     *)
(* (tfc-exes/ethercat/src/devices/beckhoff/el3356.rs): the slots for taring*)
(* and the two calibrations, whose values are kept in flags, the ratio of a*)
(* scale on a vessel, and the cyclic processing of a reading.              *)
(*                                                                         *)
(* Numbers are integers that every mean of two readings and every division *)
(* of a reading by a ratio comes out even in; the resolution is 1.  What is*)
(* configured and used differs from terminal to terminal.                  *)
(***************************************************************************)
EXTENDS MedianFilter

CONSTANTS
  Capacity,  (* filter_window                                              *)
  Load,      (* calibration_load                                           *)
  StartCalibration, (* calibration_signal_read of the configuration        *)
  Terminals, (* [mode : {"scale", "reference"}, readings, ratios,          *)
             (* commands]: the raw readings, what may be sent to the slot  *)
             (* for the ratio of a scale, and which commands are given:    *)
             (* "tare", "zero", "calibrate"                                *)
  MaxTare,   (* bound: a tare further from 0 is not added to               *)
  None       (* nothing was sent yet                                       *)

ASSUME TerminalsAssumption ==
  \A t \in Terminals :
    /\ t.mode \in {"scale", "reference"}
    /\ t.commands \subseteq {"tare", "zero", "calibrate"}
    /\ t.readings # {} /\ t.readings \subseteq Int
    /\ t.ratios \subseteq Nat \ {0} /\ 1 \in t.ratios
    /\ \A f, g \in t.readings, r, s \in t.ratios : (f + g) % (2 * r * s) = 0
ASSUME ConfigAssumption ==
  /\ Capacity \in Nat \ {0} /\ Load \in Nat \ {0} /\ MaxTare \in Nat
  /\ StartCalibration \in Int /\ None \notin Int \union [of : Int, full : Int]

VARIABLES
  terminal, (* the one of Terminals this is                                *)
  flags,    (* tare_cmd, zero_calibrate_cmd, calibrate_cmd: those set      *)
  ratio,    (* of a scale                                                  *)
  zero,     (* zero_signal_read                                            *)
  calibration,  (* calibration_signal_read                                 *)
  tare,     (* of a scale                                                  *)
  pc,       (* process_data: "idle", "zero", "calibrate", "mass", "send"   *)
  raw,      (* the last raw reading                                        *)
  filter,   (* the readings behind signal_filtered                         *)
  reading,  (* effective_signal and zeroed_calibration_signal              *)
  mass,     (* last_mass of a scale                                        *)
  share,    (* last_ratio of a reference                                   *)
  sent      (* the last value of its mass or ratio signal                  *)

inputs == <<terminal, raw, filter>>
config == <<zero, calibration>>
values == <<mass, share, sent>>
vars   == <<inputs, flags, ratio, config, tare, pc, reading, values>>

Init ==
  /\ terminal \in Terminals /\ raw \in terminal.readings /\ filter = EmptyFilter
  /\ flags = {} /\ ratio = 1 /\ zero = 0 /\ calibration = StartCalibration /\ tare = 0
  /\ pc = "idle" /\ reading = [of |-> 0, full |-> 1]
  /\ mass = 0 /\ share = [of |-> 1, full |-> 1] /\ sent = None

-----------------------------------------------------------------------------
(* What arrives in the slots.                                              *)

Press(c) ==
  /\ c \in terminal.commands
  /\ c = "tare" => tare \in -MaxTare..MaxTare
  /\ flags' = flags \union {c}
  /\ UNCHANGED <<inputs, ratio, config, tare, pc, reading, values>>

Release(c) ==
  /\ c \in flags
  /\ flags' = flags \ {c}
  /\ UNCHANGED <<inputs, ratio, config, tare, pc, reading, values>>

SetRatio(r) ==
  /\ terminal.mode = "scale" /\ r # ratio
  /\ ratio' = r
  /\ UNCHANGED <<inputs, flags, config, tare, pc, reading, values>>

-----------------------------------------------------------------------------
(* process_data, with what it loads again and again in steps of their own. *)
signal == Median(filter)

Measure(v) ==
  /\ pc = "idle" /\ pc' = "zero"
  /\ raw' = v /\ filter' \in Consumed(filter, v, Capacity)
  /\ UNCHANGED <<terminal, flags, ratio, config, tare, reading, values>>

(* Mutant: the reading is kept as it is.                                   *)
MutZeroCalibrate ==
  /\ pc = "zero" /\ pc' = "calibrate"
  /\ IF "zero" \in flags
     THEN zero' = signal /\ flags' = flags \ {"zero"}
     ELSE UNCHANGED <<zero, flags>>
  /\ UNCHANGED <<inputs, ratio, calibration, tare, reading, values>>

ZeroCalibrate ==
  /\ pc = "zero" /\ pc' = "calibrate"
  /\ IF "zero" \in flags
     THEN zero' = signal \div ratio /\ flags' = flags \ {"zero"}
     ELSE UNCHANGED <<zero, flags>>
  /\ UNCHANGED <<inputs, ratio, calibration, tare, reading, values>>

(* Mutant: the zero that was taken off is not added again.                 *)
MutCalibrate ==
  /\ pc = "calibrate" /\ pc' = "mass"
  /\ IF "calibrate" \in flags
     THEN calibration' = (signal - zero) \div ratio /\ flags' = flags \ {"calibrate"}
     ELSE UNCHANGED <<calibration, flags>>
  /\ UNCHANGED <<inputs, ratio, zero, tare, reading, values>>

Calibrate ==
  /\ pc = "calibrate" /\ pc' = "mass"
  /\ IF "calibrate" \in flags
     THEN /\ calibration' = (signal - zero) \div ratio + zero
          /\ flags' = flags \ {"calibrate"}
     ELSE UNCHANGED <<calibration, flags>>
  /\ UNCHANGED <<inputs, ratio, zero, tare, reading, values>>

(* The signal above the zero, and that of the calibration load.            *)
Reading(f) ==
  [of |-> f - (zero + tare) * ratio, full |-> (calibration - (zero + tare)) * ratio]

Weigh ==
  /\ pc = "mass" /\ pc' = "send"
  /\ reading' = Reading(signal)
  /\ UNCHANGED <<inputs, flags, ratio, config, tare, values>>

(* The mass to the resolution; halves are rounded away from zero.          *)
Rounded(n, d) ==
  LET half(a, b) == (2 * a + b) \div (2 * b)
      top == IF d < 0 THEN -n ELSE n
      bottom == IF d < 0 THEN -d ELSE d
  IN  IF top < 0 THEN -half(-top, bottom) ELSE half(top, bottom)

Mass(r) == Rounded(r.of * Load, r.full)

(* Mutant: the signal becomes the tare instead of being added to it.       *)
MutTared == IF "tare" \in flags THEN reading.of ELSE tare

Tared == IF "tare" \in flags THEN tare + reading.of ELSE tare

(* Mutant: the mass that was sent is not remembered.                       *)
MutPublish(m) ==
  IF m = mass THEN UNCHANGED values
  ELSE sent' = m /\ UNCHANGED <<mass, share>>

(* Nothing is sent if the mass is the last one.                            *)
Publish(m) ==
  IF m = mass THEN UNCHANGED values
  ELSE mass' = m /\ sent' = m /\ UNCHANGED share

(* A scale takes the tare first; a mass that is no number is an error.  The*)
(* outputs are made up but not written.                                    *)
SendMass ==
  /\ terminal.mode = "scale" /\ pc = "send" /\ pc' = "idle"
  /\ tare' = Tared /\ flags' = flags \ {"tare"}
  /\ IF reading.full = 0 THEN UNCHANGED values ELSE Publish(Mass(reading))
  /\ UNCHANGED <<inputs, ratio, config, reading>>

(* |p - q| > 0.001 and 0 < p < 2 for fractions with positive denominators.  *)
Positive(r)  == IF r.full < 0 THEN [of |-> -r.of, full |-> -r.full] ELSE r
Differ(p, q) ==
  LET d == p.of * q.full - q.of * p.full
  IN  1000 * (IF d < 0 THEN -d ELSE d) > p.full * q.full
InBounds(p)  == 0 < p.of /\ p.of < 2 * p.full

(* Mutant: the share is remembered although it was not sent.               *)
MutShareAfter(new) ==
  /\ share' = new
  /\ sent'  = IF Differ(new, share) THEN new ELSE sent

ShareAfter(new) ==
  IF Differ(new, share) THEN share' = new /\ sent' = new ELSE UNCHANGED <<share, sent>>

(* A reference leaves the tare flag set.  A share out of bounds, or one    *)
(* that is no number, is an error or nothing.                              *)
SendShare ==
  /\ terminal.mode = "reference" /\ pc = "send" /\ pc' = "idle"
  /\ IF reading.full # 0 /\ InBounds(Positive(reading))
     THEN ShareAfter(Positive(reading)) ELSE UNCHANGED <<share, sent>>
  /\ UNCHANGED <<inputs, flags, ratio, config, tare, reading, mass>>

-----------------------------------------------------------------------------
Process == ZeroCalibrate \/ Calibrate \/ Weigh \/ SendMass \/ SendShare

Next ==
  \/ \E c \in {"tare", "zero", "calibrate"} : Press(c) \/ Release(c)
  \/ \E r \in terminal.ratios : SetRatio(r)
  \/ \E v \in terminal.readings : Measure(v)
  \/ Process

(* The bus keeps its cycle.                                                *)
Fairness == WF_vars(Process \/ \E v \in terminal.readings : Measure(v))

Safety == Init /\ [][Next]_vars
Spec   == Safety /\ Fairness

-----------------------------------------------------------------------------
(* The signal that is weighed is the median of the window by its           *)
(* definition.                                                             *)
SignalIsMiddle == filter.window # <<>> => IsMiddle(signal, filter.window)

(* "Offset current weight on cell as tare, meaning it will zero out the    *)
(* current weight": with the tare that was taken the signal it was taken   *)
(* of weighs nothing, if the ratio is 1 and was when the signal was read.  *)
(* With any other it weighs something: the tare is a signal that has been  *)
(* scaled, and is scaled once more when it is taken off.                   *)
TareZeroes ==
  [][tare' # tare /\ ratio = 1 /\ reading = Reading(signal) => Reading(signal).of' = 0]_vars

(* "Offset current weight on cell as zero": with the zero that was taken   *)
(* the signal it was taken of weighs nothing, unless there is a tare.      *)
ZeroZeroes == [][zero' # zero /\ tare = 0 => Reading(signal).of' = 0]_vars

(* "Take current weight as calibration point, according to calibration load*)
(* in config": with it the signal weighs the calibration load, if the ratio*)
(* is 1 or nothing was zeroed.  Otherwise it does not: the zero, a signal  *)
(* without the ratio, is taken off one that has it.                        *)
CalibrationWeighs ==
  [][calibration' # calibration /\ (zero = 0 \/ ratio = 1) =>
       Reading(signal).of' = Reading(signal).full']_vars

Shown ==
  terminal.mode = "scale" /\ Reading(signal).full # 0 =>
    (IF sent = None THEN 0 ELSE sent) = Mass(Reading(signal))

(* A reading that stays, with nothing pressed and the ratio left alone,    *)
(* ends up as the mass that is shown; only a mass of 0 need not be sent    *)
(* before another one was.                                                 *)
ShowsMass ==
  <>[][raw' = raw /\ ratio' = ratio /\ flags' = {}]_vars => <>[]Shown

Shared ==
  LET new == Positive(Reading(signal))
      old == IF sent = None THEN [of |-> 1, full |-> 1] ELSE sent
  IN  terminal.mode = "reference" /\ Reading(signal).full # 0 /\ InBounds(new)
        => ~Differ(new, old)

(* What a reference has sent does not stay behind a reading that stays and *)
(* is in bounds, however small the steps were in which it was reached.     *)
ShareFollows ==
  <>[][raw' = raw /\ flags' \subseteq {"tare"}]_vars => <>[]Shared
=============================================================================
