------------------------------ MODULE MCWeigher ------------------------------
(* A scale that only weighs; one that is tared, zeroed and calibrated; two *)
(* on vessels whose ratio is sent, one of them tared and the other zeroed  *)
(* and calibrated; and a reference, for which the two readings differ by   *)
(* more than its threshold and their mean does not.                        *)
EXTENDS Weigher

CONSTANT none

Light == {0, 8}
Heavy == {4000, 4008}
All   == {"tare", "zero", "calibrate"}

Scale(readings, ratios, commands) ==
  [mode |-> "scale", readings |-> readings, ratios |-> ratios, commands |-> commands]

FiveTerminals ==
  {Scale(Heavy \union {4020}, {1}, {}),
   Scale(Light, {1}, All),
   Scale(Light, {1, 2}, {"tare"}),
   Scale(Heavy, {1, 2}, {"zero", "calibrate"}),
   [mode |-> "reference", readings |-> Heavy, ratios |-> {1}, commands |-> All]}
=============================================================================
