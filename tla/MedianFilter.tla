---------------------------- MODULE MedianFilter ----------------------------
(***************************************************************************)
(* The median filter of a weighing terminal (src/src/median_filter.rs): a  *)
(* ring buffer with the latest readings and a vector with the same readings*)
(* in order, in which every reading is found by binary search.             *)
(*                                                                         *)
(* Readings are integers: they stand for floats that compare.  A NaN is not*)
(* among them; with one the unwrap of a comparison panics.  The binary     *)
(* search of the standard library may stop at any of several equal ones.   *)
(***************************************************************************)
EXTENDS Integers, Sequences, SequencesExt

(* window: the latest readings, oldest first; sorted: smallest first.      *)
EmptyFilter == [window |-> <<>>, sorted |-> <<>>]

(* Where a binary search finds v, or where it would have to be.            *)
Found(s, v)  == {i \in 1..Len(s) : s[i] = v}
Places(s, v) ==
  IF Found(s, v) # {} THEN Found(s, v)
  ELSE {i \in 1..(Len(s) + 1) : /\ \A j \in 1..(i - 1)  : s[j] < v
                                /\ \A j \in i..Len(s) : s[j] > v}

(* Mutant: the reading in the middle leaves the vector, not the oldest.    *)
MutWithoutOldest(f, capacity) ==
  IF Len(f.window) < capacity THEN {f.sorted}
  ELSE {RemoveAt(f.sorted, (capacity + 1) \div 2)}

(* Without a place where it is found the code panics and this is empty.    *)
WithoutOldest(f, capacity) ==
  IF Len(f.window) < capacity THEN {f.sorted}
  ELSE {RemoveAt(f.sorted, i) : i \in Found(f.sorted, f.window[1])}

(* consume: what the filter may be after it took v.                        *)
Consumed(f, v, capacity) ==
  LET window == Append(IF Len(f.window) < capacity THEN f.window ELSE Tail(f.window), v)
  IN  {[window |-> window, sorted |-> s] :
         s \in UNION {{InsertAt(r, i, v) : i \in Places(r, v)} : r \in WithoutOldest(f, capacity)}}

(* The sum of two readings comes out even (see Weigher).                   *)
Median(f) ==
  LET n == Len(f.sorted) IN
  IF n = 0 THEN 0
  ELSE IF n % 2 = 1 THEN f.sorted[n \div 2 + 1]
  ELSE (f.sorted[n \div 2] + f.sorted[n \div 2 + 1]) \div 2

-----------------------------------------------------------------------------
Below(w, v) == {i \in 1..Len(w) : w[i] <= v}
Above(w, v) == {i \in 1..Len(w) : w[i] >= v}

(* m is the mean of the smallest reading that half of the window does not  *)
(* exceed and the greatest one that half of it does not fall below.        *)
IsMiddle(m, w) ==
  \E low, high \in ToSet(w) :
    /\ 2 * m = low + high
    /\ 2 * Cardinality(Below(w, low))  >= Len(w)
    /\ 2 * Cardinality(Above(w, high)) >= Len(w)
    /\ \A v \in ToSet(w) : v < low  => 2 * Cardinality(Below(w, v)) < Len(w)
    /\ \A v \in ToSet(w) : v > high => 2 * Cardinality(Above(w, v)) < Len(w)
=============================================================================
