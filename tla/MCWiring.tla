------------------------------ MODULE MCWiring ------------------------------
(* A boolean slot, two boolean signals and one of integers.                *)
EXTENDS Wiring

CONSTANTS lamp, button, door, meter

Types == [n \in Slots \union Signals |-> IF n = meter THEN "i64" ELSE "bool"]

Stopping == {"ruler", lamp, button}
=============================================================================
