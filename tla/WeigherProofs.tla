--------------------------- MODULE WeigherProofs ---------------------------
(***************************************************************************)
(* The median filter gives the median of its window for every capacity and*)
(* every freedom of its binary searches; what a weighing terminal zeroes,*)
(* tares and calibrates is exact, for any readings and any order of      *)
(* commands and cycles.                                                  *)
(***************************************************************************)
EXTENDS Weigher, FiniteSetTheorems, FunctionTheorems, WellFoundedInduction,
        SequenceTheorems, TLAPS

Ascending(s) == \A i, j \in 1..Len(s) : i <= j => s[i] <= s[j]

(* s holds the readings of w, in another order.                          *)
Arranges(s, w) ==
  /\ Len(s) = Len(w)
  /\ \E p \in Bijection(1..Len(s), 1..Len(s)) : \A i \in 1..Len(s) : s[i] = w[p[i]]

(* What the two parts of a filter are to each other.                     *)
Sound(f, R) ==
  /\ f.window \in Seq(R) /\ f.sorted \in Seq(R)
  /\ Ascending(f.sorted) /\ Arranges(f.sorted, f.window)

-----------------------------------------------------------------------------
(* Sequences.                                                            *)

(* A sequence without one of its elements.                               *)
LEMMA Removed ==
  ASSUME NEW R, NEW s \in Seq(R), NEW i \in 1..Len(s)
  PROVE  /\ RemoveAt(s, i) \in Seq(R) /\ Len(RemoveAt(s, i)) = Len(s) - 1
         /\ \A j \in 1..(Len(s) - 1) : RemoveAt(s, i)[j] = s[IF j < i THEN j ELSE j + 1]
<1> DEFINE a == SubSeq(s, 1, i - 1)
           b == SubSeq(s, i + 1, Len(s))
<1>1. Len(s) \in Nat /\ \A j \in 1..Len(s) : s[j] \in R
  OBVIOUS
<1>2. a \in Seq(R) /\ Len(a) = i - 1 /\ \A j \in 1..(i - 1) : a[j] = s[j]
  BY <1>1, SubSeqProperties
<1>3. /\ b \in Seq(R) /\ Len(b) = Len(s) - i
      /\ \A j \in 1..(Len(s) - i) : b[j] = s[j + i]
  BY <1>1, SubSeqProperties
<1> HIDE DEF a, b
<1>4. /\ a \o b \in Seq(R) /\ Len(a \o b) = Len(a) + Len(b)
      /\ \A j \in 1..(Len(a) + Len(b)) :
           (a \o b)[j] = IF j <= Len(a) THEN a[j] ELSE b[j - Len(a)]
  <2> SUFFICES a \in Seq(R) /\ b \in Seq(R)
    BY ConcatProperties
  <2> QED
    BY <1>2, <1>3
<1>5. ASSUME NEW j \in 1..(Len(s) - 1)
      PROVE  (a \o b)[j] = s[IF j < i THEN j ELSE j + 1]
  <2>1. CASE j < i
    BY <1>1, <1>2, <1>3, <1>4, <2>1
  <2>2. CASE ~(j < i)
    <3>1. j - (i - 1) \in 1..(Len(s) - i) /\ (j - (i - 1)) + i = j + 1
      BY <1>1, <2>2
    <3>2. j \in 1..(Len(a) + Len(b)) /\ ~(j <= Len(a)) /\ j - Len(a) = j - (i - 1)
      BY <1>1, <1>2, <1>3, <2>2
    <3>3. (a \o b)[j] = b[j - (i - 1)]
      BY <1>4, <3>2
    <3>4. b[j - (i - 1)] = s[j + 1]
      BY <1>3, <3>1
    <3> QED
      BY <2>2, <3>3, <3>4
  <2> QED
    BY <2>1, <2>2
<1>6. Len(a \o b) = Len(s) - 1
  BY <1>1, <1>2, <1>3, <1>4
<1> QED
  BY <1>4, <1>5, <1>6 DEF RemoveAt, a, b

(* A sequence with one element more.                                     *)
LEMMA Inserted ==
  ASSUME NEW R, NEW s \in Seq(R), NEW i \in 1..(Len(s) + 1), NEW e \in R
  PROVE  /\ InsertAt(s, i, e) \in Seq(R) /\ Len(InsertAt(s, i, e)) = Len(s) + 1
         /\ \A j \in 1..(Len(s) + 1) :
              InsertAt(s, i, e)[j] = IF j < i THEN s[j] ELSE IF j = i THEN e ELSE s[j - 1]
<1> DEFINE a == SubSeq(s, 1, i - 1)
           b == SubSeq(s, i, Len(s))
           c == a \o <<e>>
<1>1. Len(s) \in Nat /\ \A j \in 1..Len(s) : s[j] \in R
  OBVIOUS
<1>2. a \in Seq(R) /\ Len(a) = i - 1 /\ \A j \in 1..(i - 1) : a[j] = s[j]
  BY <1>1, SubSeqProperties
<1>3. /\ b \in Seq(R) /\ Len(b) = Len(s) - i + 1
      /\ \A j \in 1..(Len(s) - i + 1) : b[j] = s[j + i - 1]
  BY <1>1, SubSeqProperties
<1> HIDE DEF a, b
<1>4. c \in Seq(R) /\ Len(c) = i /\ c[i] = e /\ \A j \in 1..(i - 1) : c[j] = a[j]
  <2>1. c = Append(a, e)
    BY <1>2, AppendIsConcat
  <2>2. /\ Append(a, e) \in Seq(R) /\ Len(Append(a, e)) = Len(a) + 1
        /\ Append(a, e)[Len(a) + 1] = e /\ \A j \in 1..Len(a) : Append(a, e)[j] = a[j]
    BY <1>2, AppendProperties
  <2> HIDE DEF c
  <2> QED
    BY <1>1, <1>2, <2>1, <2>2
<1> HIDE DEF c
<1>5. /\ c \o b \in Seq(R) /\ Len(c \o b) = Len(c) + Len(b)
      /\ \A j \in 1..(Len(c) + Len(b)) :
           (c \o b)[j] = IF j <= Len(c) THEN c[j] ELSE b[j - Len(c)]
  <2> SUFFICES c \in Seq(R) /\ b \in Seq(R)
    BY ConcatProperties
  <2> QED
    BY <1>3, <1>4
<1>6. ASSUME NEW j \in 1..(Len(s) + 1)
      PROVE  (c \o b)[j] = IF j < i THEN s[j] ELSE IF j = i THEN e ELSE s[j - 1]
  <2>1. CASE j <= i
    <3>1. j \in 1..(Len(c) + Len(b)) /\ j <= Len(c)
      BY <1>1, <1>3, <1>4, <2>1
    <3>2. (c \o b)[j] = c[j]
      BY <1>5, <3>1
    <3>3. CASE j = i
      BY <1>4, <3>2, <3>3
    <3>4. CASE j # i
      BY <1>2, <1>4, <2>1, <3>2, <3>4
    <3> QED
      BY <3>3, <3>4
  <2>2. CASE j > i
    <3>1. j - i \in 1..(Len(s) - i + 1) /\ (j - i) + i - 1 = j - 1
      BY <1>1, <2>2
    <3>2. j \in 1..(Len(c) + Len(b)) /\ ~(j <= Len(c)) /\ j - Len(c) = j - i
      BY <1>1, <1>3, <1>4, <2>2
    <3>3. (c \o b)[j] = b[j - i]
      BY <1>5, <3>2
    <3>4. b[j - i] = s[j - 1]
      BY <1>3, <3>1
    <3>5. ~(j < i) /\ j # i
      BY <1>1, <2>2
    <3> QED
      BY <3>3, <3>4, <3>5
  <2>3. j <= i \/ j > i
    BY <1>1
  <2> QED
    BY <2>1, <2>2, <2>3, Zenon
<1>7. Len(c \o b) = Len(s) + 1
  BY <1>1, <1>3, <1>4, <1>5
<1> QED
  BY <1>5, <1>6, <1>7 DEF InsertAt, a, b, c

(* The elements of the tail, and of a sequence with one more at the end. *)
LEMMA TailFacts ==
  ASSUME NEW R, NEW s \in Seq(R), Len(s) > 0
  PROVE  /\ Tail(s) \in Seq(R) /\ Len(Tail(s)) = Len(s) - 1
         /\ \A j \in 1..(Len(s) - 1) : Tail(s)[j] = s[j + 1]
  OBVIOUS

(* One more element at the end leaves the others where they are.            *)
LEMMA AppendFacts ==
  ASSUME NEW R, NEW s \in Seq(R), NEW e \in R
  PROVE  /\ Append(s, e) \in Seq(R) /\ Len(Append(s, e)) = Len(s) + 1
         /\ Append(s, e)[Len(s) + 1] = e
         /\ \A j \in 1..Len(s) : Append(s, e)[j] = s[j]
  OBVIOUS

-----------------------------------------------------------------------------
(* The sorted vector.                                                    *)

(* It stays in order when a reading leaves it, wherever it was found.    *)
LEMMA RemovedAscending ==
  ASSUME NEW R \in SUBSET Int, NEW s \in Seq(R), NEW i \in 1..Len(s), Ascending(s)
  PROVE  Ascending(RemoveAt(s, i))
<1> DEFINE r == RemoveAt(s, i)
           at(j) == IF j < i THEN j ELSE j + 1
<1>1. Len(s) \in Nat /\ Len(r) = Len(s) - 1 /\ \A j \in 1..(Len(s) - 1) : r[j] = s[at(j)]
  BY Removed
<1> HIDE DEF r
<1>2. ASSUME NEW j \in 1..Len(r), NEW k \in 1..Len(r), j <= k PROVE r[j] <= r[k]
  <2>1. at(j) \in 1..Len(s) /\ at(k) \in 1..Len(s) /\ at(j) <= at(k)
    BY <1>1, <1>2
  <2>2. r[j] = s[at(j)] /\ r[k] = s[at(k)]
    BY <1>1
  <2> QED
    BY <2>1, <2>2 DEF Ascending
<1> QED
  BY <1>2 DEF Ascending, r

(* It stays in order when one comes in where it was found or would have to*)
(* be.                                                                   *)
LEMMA InsertedAscending ==
  ASSUME NEW R \in SUBSET Int, NEW s \in Seq(R), NEW v \in R, NEW i \in Places(s, v),
         Ascending(s)
  PROVE  i \in 1..(Len(s) + 1) /\ Ascending(InsertAt(s, i, v))
<1> DEFINE r == InsertAt(s, i, v)
<1>1. Len(s) \in Nat /\ (\A j \in 1..Len(s) : s[j] \in Int) /\ v \in Int
  <2>1. Len(s) \in Nat /\ \A j \in 1..Len(s) : s[j] \in R
    BY LenProperties, ElementOfSeq
  <2> QED
    BY <2>1
<1>2. i \in 1..(Len(s) + 1)
  BY <1>1 DEF Places, Found
<1>3. ASSUME NEW j \in 1..Len(s) PROVE (j < i => s[j] <= v) /\ (j >= i => v <= s[j])
  <2>1. CASE Found(s, v) # {}
    <3>1. i \in 1..Len(s) /\ s[i] = v
      BY <2>1 DEF Places, Found
    <3> QED
      BY <1>1, <3>1 DEF Ascending
  <2>2. CASE Found(s, v) = {}
    <3>1. /\ \A k \in 1..(i - 1) : s[k] < v
          /\ \A k \in i..Len(s) : s[k] > v
      BY <2>2 DEF Places
    <3> QED
      BY <1>1, <1>2, <3>1
  <2> QED
    BY <2>1, <2>2
<1>4. /\ Len(r) = Len(s) + 1
      /\ \A j \in 1..(Len(s) + 1) : r[j] = IF j < i THEN s[j] ELSE IF j = i THEN v ELSE s[j - 1]
  BY <1>2, Inserted
<1> HIDE DEF r
<1>5. ASSUME NEW j \in 1..Len(r), NEW k \in 1..Len(r), j <= k PROVE r[j] <= r[k]
  <2>1. CASE k < i
    BY <1>1, <1>2, <1>4, <1>5, <2>1 DEF Ascending
  <2>2. CASE j > i
    <3>1. r[j] = s[j - 1] /\ r[k] = s[k - 1]
      BY <1>1, <1>2, <1>4, <1>5, <2>2
    <3>2. j - 1 \in 1..Len(s) /\ k - 1 \in 1..Len(s) /\ j - 1 <= k - 1
      BY <1>1, <1>2, <1>4, <1>5, <2>2
    <3> QED
      BY <3>1, <3>2 DEF Ascending
  <2>3. CASE j <= i /\ i <= k
    <3>1. r[j] <= v
      <4>1. CASE j = i
        <5>1. r[j] = v
          BY <1>1, <1>2, <1>4, <4>1
        <5> QED
          BY <1>1, <5>1
      <4>2. CASE j # i
        <5>1. r[j] = s[j] /\ j \in 1..Len(s) /\ j < i
          BY <1>1, <1>2, <1>4, <2>3, <4>2
        <5> QED
          BY <1>3, <5>1
      <4> QED
        BY <4>1, <4>2
    <3>2. v <= r[k]
      <4>1. CASE k = i
        <5>1. r[k] = v
          BY <1>1, <1>2, <1>4, <4>1
        <5> QED
          BY <1>1, <5>1
      <4>2. CASE k # i
        <5>1. r[k] = s[k - 1] /\ k - 1 \in 1..Len(s) /\ k - 1 >= i
          BY <1>1, <1>2, <1>4, <2>3, <4>2
        <5> QED
          BY <1>3, <5>1
      <4> QED
        BY <4>1, <4>2
    <3>3. r[j] \in Int /\ r[k] \in Int
      <4>1. ASSUME NEW m \in 1..Len(r) PROVE r[m] \in Int
        <5>1. m < i => r[m] = s[m] /\ m \in 1..Len(s)
          BY <1>1, <1>2, <1>4
        <5>2. m > i => r[m] = s[m - 1] /\ m - 1 \in 1..Len(s)
          BY <1>1, <1>2, <1>4
        <5>3. m = i => r[m] = v
          BY <1>1, <1>2, <1>4
        <5> QED
          BY <1>1, <1>2, <5>1, <5>2, <5>3
      <4> QED
        BY <4>1
    <3> QED
      BY <3>1, <3>2, <3>3
  <2> QED
    BY <1>1, <1>2, <1>4, <2>1, <2>2, <2>3
<1> QED
  BY <1>2, <1>5 DEF Ascending, r

-----------------------------------------------------------------------------
(* Arrangements.                                                         *)

(* A bijection, by its elements.                                         *)
LEMMA IsBijection ==
  ASSUME NEW S, NEW T, NEW F \in [S -> T],
         \A a, b \in S : F[a] = F[b] => a = b,
         \A t \in T : \E a \in S : F[a] = t
  PROVE  F \in Bijection(S, T)
  BY Fun_IsBij

(* A bijection takes different values everywhere and each of them once.     *)
LEMMA BijectionFacts ==
  ASSUME NEW S, NEW T, NEW F \in Bijection(S, T)
  PROVE  /\ F \in [S -> T]
         /\ \A a, b \in S : F[a] = F[b] => a = b
         /\ \A t \in T : \E a \in S : F[a] = t
<1>1. F \in [S -> T] /\ IsInjective(F)
  BY DEF Bijection, Injection
<1>2. \A t \in T : \E a \in S : F[a] = t
  BY DEF Bijection, Surjection
<1>3. \A a, b \in S : F[a] = F[b] => a = b
  BY <1>1 DEF IsInjective
<1> QED
  BY <1>1, <1>2, <1>3

(* A permutation, by its elements.                                       *)
LEMMA PermutationFacts ==
  ASSUME NEW n \in Nat, NEW F \in Bijection(1..n, 1..n)
  PROVE  /\ F \in [1..n -> 1..n]
         /\ \A a \in 1..n : \A b \in 1..n : F[a] = F[b] => a = b
         /\ \A t \in 1..n : \E a \in 1..n : F[a] = t
<1>1. F \in [1..n -> 1..n]
  BY BijectionFacts
<1>2. ASSUME NEW a \in 1..n, NEW b \in 1..n, F[a] = F[b] PROVE a = b
  BY <1>2, BijectionFacts
<1>3. ASSUME NEW t \in 1..n PROVE \E a \in 1..n : F[a] = t
  BY SMT DEF Bijection, Surjection
<1> QED
  BY <1>1, <1>2, <1>3

(* One can be changed to begin at a given place.                         *)
LEMMA Rerouted ==
  ASSUME NEW n \in Nat, NEW p \in Bijection(1..n, 1..n), NEW i \in 1..n, NEW j \in 1..n, p[j] = 1
  PROVE  [k \in 1..n |-> IF k = i THEN 1 ELSE IF k = j THEN p[i] ELSE p[k]]
           \in Bijection(1..n, 1..n)
<1> DEFINE q == [k \in 1..n |-> IF k = i THEN 1 ELSE IF k = j THEN p[i] ELSE p[k]]
<1>1. /\ p \in [1..n -> 1..n]
      /\ \A a \in 1..n : \A b \in 1..n : p[a] = p[b] => a = b
      /\ \A t \in 1..n : \E k \in 1..n : p[k] = t
  BY PermutationFacts
<1>2. q \in [1..n -> 1..n]
  BY <1>1
<1>3. ASSUME NEW a \in 1..n, NEW b \in 1..n, q[a] = q[b] PROVE a = b
  BY <1>1, <1>3
<1>4. ASSUME NEW t \in 1..n PROVE \E k \in 1..n : q[k] = t
  <2>1. PICK k \in 1..n : p[k] = t
    BY <1>1
  <2>2. CASE k = j
    <3>1. q[i] = t
      BY <2>1, <2>2
    <3> QED
      BY <3>1
  <2>3. CASE k = i /\ k # j
    <3>1. q[j] = t
      BY <2>1, <2>3
    <3> QED
      BY <3>1
  <2>4. CASE k # i /\ k # j
    <3>1. q[k] = t
      BY <2>1, <2>4
    <3> QED
      BY <3>1
  <2> QED
    BY <2>2, <2>3, <2>4
<1> HIDE DEF q
<1>5. q \in Bijection(1..n, 1..n)
  BY <1>2, <1>3, <1>4, IsBijection
<1> QED
  BY <1>5 DEF q

(* One of the places but the first, when that is taken away.             *)
LEMMA Shrunk ==
  ASSUME NEW n \in Nat \ {0}, NEW q \in Bijection(1..n, 1..n), NEW i \in 1..n, q[i] = 1
  PROVE  [k \in 1..(n - 1) |-> q[IF k < i THEN k ELSE k + 1] - 1]
           \in Bijection(1..(n - 1), 1..(n - 1))
<1> DEFINE at(k) == IF k < i THEN k ELSE k + 1
           r == [k \in 1..(n - 1) |-> q[at(k)] - 1]
<1>1. /\ q \in [1..n -> 1..n]
      /\ \A a \in 1..n : \A b \in 1..n : q[a] = q[b] => a = b
      /\ \A t \in 1..n : \E k \in 1..n : q[k] = t
  BY PermutationFacts
<1>2. \A k \in 1..(n - 1) : at(k) \in 1..n /\ at(k) # i
  OBVIOUS
<1>3. \A m \in 1..n : m # i => q[m] - 1 \in 1..(n - 1)
  <2> SUFFICES ASSUME NEW m \in 1..n, m # i PROVE q[m] - 1 \in 1..(n - 1)
    OBVIOUS
  <2>1. q[m] \in 1..n /\ q[m] # 1
    BY <1>1
  <2> QED
    BY <2>1
<1>4. r \in [1..(n - 1) -> 1..(n - 1)]
  BY <1>2, <1>3
<1>5. ASSUME NEW a \in 1..(n - 1), NEW b \in 1..(n - 1), r[a] = r[b] PROVE a = b
  <2>1. q[at(a)] \in 1..n /\ q[at(b)] \in 1..n /\ q[at(a)] - 1 = q[at(b)] - 1
    BY <1>1, <1>2, <1>5
  <2>2. q[at(a)] = q[at(b)]
    BY <2>1
  <2>3. at(a) = at(b)
    BY <1>1, <1>2, <2>2
  <2> QED
    BY <2>3
<1>6. ASSUME NEW t \in 1..(n - 1) PROVE \E k \in 1..(n - 1) : r[k] = t
  <2>1. PICK m \in 1..n : q[m] = t + 1
    BY <1>1
  <2>2. m # i
    BY <2>1
  <2> DEFINE k == IF m < i THEN m ELSE m - 1
  <2>3. k \in 1..(n - 1) /\ at(k) = m
    BY <2>2
  <2>4. r[k] = q[m] - 1
    BY <2>3
  <2> HIDE DEF k, r, at
  <2>5. r[k] = t
    BY <2>1, <2>4
  <2> QED
    BY <2>3, <2>5
<1> HIDE DEF r
<1>7. r \in Bijection(1..(n - 1), 1..(n - 1))
  BY <1>4, <1>5, <1>6, IsBijection
<1> QED
  BY <1>7 DEF r

(* One of one place more.                                                *)
LEMMA Grown ==
  ASSUME NEW n \in Nat, NEW p \in Bijection(1..n, 1..n), NEW i \in 1..(n + 1)
  PROVE  [k \in 1..(n + 1) |-> IF k < i THEN p[k] ELSE IF k = i THEN n + 1 ELSE p[k - 1]]
           \in Bijection(1..(n + 1), 1..(n + 1))
<1> DEFINE r == [k \in 1..(n + 1) |-> IF k < i THEN p[k] ELSE IF k = i THEN n + 1 ELSE p[k - 1]]
<1>1. /\ p \in [1..n -> 1..n]
      /\ \A a \in 1..n : \A b \in 1..n : p[a] = p[b] => a = b
      /\ \A t \in 1..n : \E k \in 1..n : p[k] = t
  BY PermutationFacts
<1>2. ASSUME NEW k \in 1..(n + 1)
      PROVE  /\ k < i => k \in 1..n /\ r[k] = p[k] /\ r[k] \in 1..n
             /\ k = i => r[k] = n + 1
             /\ k > i => k - 1 \in 1..n /\ r[k] = p[k - 1] /\ r[k] \in 1..n
  <2>1. CASE k < i
    BY <1>1, <2>1
  <2>2. CASE k = i
    BY <2>2
  <2>3. CASE k > i
    <3>1. k - 1 \in 1..n /\ ~(k < i) /\ k # i
      BY <2>3
    <3> QED
      BY <1>1, <3>1
  <2> QED
    BY <2>1, <2>2, <2>3
<1>3. r \in [1..(n + 1) -> 1..(n + 1)]
  <2>1. ASSUME NEW k \in 1..(n + 1) PROVE r[k] \in 1..(n + 1)
    <3> HIDE DEF r
    <3>1. r[k] \in 1..n \/ r[k] = n + 1
      BY <1>2
    <3> QED
      BY <3>1
  <2>2. DOMAIN r = 1..(n + 1)
    OBVIOUS
  <2> HIDE DEF r
  <2>3. r = [k \in 1..(n + 1) |-> r[k]]
    BY <2>2 DEF r
  <2> QED
    BY <2>1, <2>3
<1> HIDE DEF r
<1>4. ASSUME NEW a \in 1..(n + 1), NEW b \in 1..(n + 1), r[a] = r[b] PROVE a = b
  <2>1. CASE a = i \/ b = i
    BY <1>2, <1>4, <2>1
  <2>2. CASE a < i /\ b < i
    BY <1>1, <1>2, <1>4, <2>2
  <2>3. CASE a > i /\ b > i
    <3>1. a - 1 = b - 1
      BY <1>1, <1>2, <1>4, <2>3
    <3> QED
      BY <3>1
  <2>4. CASE a < i /\ b > i
    <3>1. a = b - 1
      BY <1>1, <1>2, <1>4, <2>4
    <3> QED
      BY <2>4, <3>1
  <2>5. CASE a > i /\ b < i
    <3>1. a - 1 = b
      BY <1>1, <1>2, <1>4, <2>5
    <3> QED
      BY <2>5, <3>1
  <2> QED
    BY <2>1, <2>2, <2>3, <2>4, <2>5
<1>5. ASSUME NEW t \in 1..(n + 1) PROVE \E k \in 1..(n + 1) : r[k] = t
  <2>1. CASE t = n + 1
    BY <1>2, <2>1
  <2>2. CASE t # n + 1
    <3>1. t \in 1..n
      BY <2>2
    <3>2. PICK m \in 1..n : p[m] = t
      BY <1>1, <3>1
    <3>3. CASE m < i
      <4>1. m \in 1..(n + 1) /\ r[m] = t
        BY <1>2, <3>2, <3>3
      <4> QED
        BY <4>1
    <3>4. CASE ~(m < i)
      <4>1. m + 1 \in 1..(n + 1) /\ m + 1 > i /\ (m + 1) - 1 = m
        BY <3>4
      <4>2. r[m + 1] = t
        BY <1>2, <3>2, <4>1
      <4> QED
        BY <4>1, <4>2
    <3> QED
      BY <3>3, <3>4
  <2> QED
    BY <2>1, <2>2
<1>6. r \in Bijection(1..(n + 1), 1..(n + 1))
  BY <1>3, <1>4, <1>5, IsBijection
<1> QED
  BY <1>6 DEF r

(* The oldest reading is among the sorted ones: the filter finds it.     *)
LEMMA OldestFound ==
  ASSUME NEW R, NEW s \in Seq(R), NEW w \in Seq(R), Arranges(s, w), Len(w) > 0
  PROVE  Found(s, w[1]) # {}
<1> DEFINE n == Len(s)
<1>1. n \in Nat /\ n = Len(w) /\ n > 0
  BY DEF Arranges
<1>2. PICK p \in Bijection(1..n, 1..n) : \A k \in 1..n : s[k] = w[p[k]]
  BY DEF Arranges
<1>3. 1 \in 1..n
  BY <1>1
<1> HIDE DEF n
<1>4. PICK j \in 1..n : p[j] = 1
  BY <1>1, <1>3, PermutationFacts
<1>5. s[j] = w[1]
  BY <1>2, <1>4
<1> QED
  BY <1>4, <1>5 DEF Found, n

(* Without the oldest, wherever a reading like it was found, the sorted  *)
(* ones are those of the window without its first.                       *)
LEMMA RemovedArranges ==
  ASSUME NEW R, NEW s \in Seq(R), NEW w \in Seq(R), Arranges(s, w), Len(w) > 0,
         NEW i \in Found(s, w[1])
  PROVE  Arranges(RemoveAt(s, i), Tail(w))
<1> DEFINE n == Len(s)
           at(k) == IF k < i THEN k ELSE k + 1
<1>1. n \in Nat \ {0} /\ n = Len(w)
  BY DEF Arranges
<1>2. PICK p \in Bijection(1..n, 1..n) : \A k \in 1..n : s[k] = w[p[k]]
  BY DEF Arranges
<1>3. i \in 1..n /\ s[i] = w[1]
  BY DEF Found
<1>4. /\ Len(RemoveAt(s, i)) = n - 1
      /\ \A k \in 1..(n - 1) : RemoveAt(s, i)[k] = s[at(k)]
  BY <1>3, Removed
<1>5. /\ Len(Tail(w)) = n - 1
      /\ \A k \in 1..(n - 1) : Tail(w)[k] = w[k + 1]
  BY <1>1, TailFacts
<1> HIDE DEF n
<1>6. 1 \in 1..n
  BY <1>1
<1>7. PICK j \in 1..n : p[j] = 1
  BY <1>1, <1>6, PermutationFacts
<1> DEFINE q == [k \in 1..n |-> IF k = i THEN 1 ELSE IF k = j THEN p[i] ELSE p[k]]
<1>8. q \in Bijection(1..n, 1..n)
  BY <1>1, <1>3, <1>7, Rerouted
<1>9. q[i] = 1 /\ \A k \in 1..n : s[k] = w[q[k]]
  BY <1>2, <1>3, <1>7
<1> HIDE DEF q
<1> DEFINE r == [k \in 1..(n - 1) |-> q[at(k)] - 1]
<1>10. r \in Bijection(1..(n - 1), 1..(n - 1))
  BY <1>1, <1>3, <1>8, <1>9, Shrunk
<1>11. ASSUME NEW k \in 1..(n - 1) PROVE RemoveAt(s, i)[k] = Tail(w)[r[k]]
  <2>1. at(k) \in 1..n
    BY <1>1, <1>3
  <2>2. q[at(k)] \in Int
    <3>1. q \in [1..n -> 1..n]
      BY <1>1, <1>8, PermutationFacts
    <3> QED
      BY <2>1, <3>1
  <2>3. r[k] = q[at(k)] - 1
    OBVIOUS
  <2> HIDE DEF r, at
  <2>4. r[k] \in 1..(n - 1)
    <3>1. n - 1 \in Nat
      BY <1>1
    <3>2. r \in [1..(n - 1) -> 1..(n - 1)]
      BY <1>10, <3>1, PermutationFacts
    <3> QED
      BY <3>2
  <2>5. r[k] + 1 = q[at(k)]
    BY <2>2, <2>3
  <2>6. Tail(w)[r[k]] = w[r[k] + 1]
    BY <1>5, <2>4
  <2>7. RemoveAt(s, i)[k] = s[at(k)] /\ s[at(k)] = w[q[at(k)]]
    BY <1>4, <1>9, <2>1
  <2> QED
    BY <2>5, <2>6, <2>7, Zenon
<1> HIDE DEF r
<1> QED
  BY <1>4, <1>5, <1>10, <1>11 DEF Arranges

(* A new reading comes into both, wherever it is inserted.               *)
LEMMA InsertedArranges ==
  ASSUME NEW R, NEW s \in Seq(R), NEW w \in Seq(R), Arranges(s, w),
         NEW v \in R, NEW i \in 1..(Len(s) + 1)
  PROVE  Arranges(InsertAt(s, i, v), Append(w, v))
<1> DEFINE n == Len(s)
<1>1. n \in Nat /\ n = Len(w)
  BY DEF Arranges
<1>2. PICK p \in Bijection(1..n, 1..n) : \A k \in 1..n : s[k] = w[p[k]]
  BY DEF Arranges
<1>3. /\ Len(InsertAt(s, i, v)) = n + 1
      /\ \A k \in 1..(n + 1) :
           InsertAt(s, i, v)[k] = IF k < i THEN s[k] ELSE IF k = i THEN v ELSE s[k - 1]
  BY Inserted
<1>4. /\ Len(Append(w, v)) = n + 1
      /\ Append(w, v)[n + 1] = v
      /\ \A k \in 1..n : Append(w, v)[k] = w[k]
  BY <1>1, AppendFacts
<1>5. i \in 1..(n + 1)
  OBVIOUS
<1> HIDE DEF n
<1> DEFINE r == [k \in 1..(n + 1) |-> IF k < i THEN p[k] ELSE IF k = i THEN n + 1 ELSE p[k - 1]]
<1>6. r \in Bijection(1..(n + 1), 1..(n + 1))
  BY <1>1, <1>2, <1>5, Grown
<1>7. p \in [1..n -> 1..n]
  BY <1>1, PermutationFacts
<1>8. ASSUME NEW k \in 1..(n + 1) PROVE InsertAt(s, i, v)[k] = Append(w, v)[r[k]]
  <2>1. CASE k < i
    <3>1. k \in 1..n /\ r[k] = p[k]
      BY <1>1, <1>5, <2>1
    <3>2. InsertAt(s, i, v)[k] = s[k]
      BY <1>3, <2>1
    <3>3. p[k] \in 1..n /\ s[k] = w[p[k]]
      BY <1>2, <1>7, <3>1
    <3>4. Append(w, v)[p[k]] = w[p[k]]
      BY <1>4, <3>3
    <3> QED
      BY <3>1, <3>2, <3>3, <3>4, Zenon
  <2>2. CASE k = i
    <3>1. r[k] = n + 1 /\ InsertAt(s, i, v)[k] = v
      BY <1>1, <1>3, <2>2
    <3> QED
      BY <1>4, <3>1
  <2>3. CASE k > i
    <3>1. k - 1 \in 1..n /\ r[k] = p[k - 1]
      BY <1>1, <1>5, <2>3
    <3>2. InsertAt(s, i, v)[k] = s[k - 1]
      BY <1>3, <1>5, <2>3
    <3>3. p[k - 1] \in 1..n /\ s[k - 1] = w[p[k - 1]]
      BY <1>2, <1>7, <3>1
    <3>4. Append(w, v)[p[k - 1]] = w[p[k - 1]]
      BY <1>4, <3>3
    <3> QED
      BY <3>1, <3>2, <3>3, <3>4, Zenon
  <2>4. k < i \/ k = i \/ k > i
    BY <1>1, <1>5
  <2> QED
    BY <2>1, <2>2, <2>3, <2>4, Zenon
<1> HIDE DEF r
<1> QED
  BY <1>3, <1>4, <1>6, <1>8 DEF Arranges

-----------------------------------------------------------------------------
(* The filter.                                                           *)

(* The least of some natural numbers.                                    *)
LEMMA LeastNumber ==
  ASSUME NEW A \in SUBSET Nat, A # {}
  PROVE  \E i \in A : \A k \in A : i <= k
<1>1. PICK i \in A : \A k \in A : ~(<<k, i>> \in OpToRel(<, Nat))
  BY WFMin, NatLessThanWellFounded
<1>2. \A k \in A : ~(k < i)
  BY <1>1 DEF OpToRel
<1> QED
  BY <1>2

(* There is always a place for a reading.                                *)
LEMMA PlaceExists ==
  ASSUME NEW R \in SUBSET Int, NEW s \in Seq(R), NEW v \in R, Ascending(s)
  PROVE  Places(s, v) # {}
<1> DEFINE A == {i \in 1..(Len(s) + 1) : i = Len(s) + 1 \/ s[i] > v}
<1>1. Len(s) \in Nat /\ (\A j \in 1..Len(s) : s[j] \in Int) /\ v \in Int
  <2>1. Len(s) \in Nat /\ \A j \in 1..Len(s) : s[j] \in R
    BY LenProperties, ElementOfSeq
  <2> QED
    BY <2>1
<1>2. CASE Found(s, v) # {}
  BY <1>2 DEF Places
<1>3. CASE Found(s, v) = {}
  <2>1. A \in SUBSET Nat /\ Len(s) + 1 \in A
    BY <1>1
  <2>2. PICK i \in A : \A k \in A : i <= k
    BY <2>1, LeastNumber
  <2>3. i \in 1..(Len(s) + 1)
    OBVIOUS
  <2>4. ASSUME NEW j \in 1..(i - 1) PROVE s[j] < v
    <3>1. j \in 1..Len(s) /\ j < i
      BY <1>1, <2>3
    <3>2. ~(s[j] > v)
      <4>1. j \notin A
        BY <2>2, <2>3, <3>1
      <4> QED
        BY <1>1, <3>1, <4>1
    <3>3. s[j] # v
      BY <1>3, <3>1 DEF Found
    <3> QED
      BY <1>1, <3>1, <3>2, <3>3
  <2>5. ASSUME NEW j \in i..Len(s) PROVE s[j] > v
    <3>1. i \in 1..Len(s) /\ j \in 1..Len(s) /\ i <= j
      BY <1>1, <2>3
    <3>2. s[i] > v
      BY <1>1, <2>2, <3>1
    <3>3. s[i] <= s[j]
      BY <3>1 DEF Ascending
    <3>4. s[i] \in Int /\ s[j] \in Int
      BY <1>1, <3>1
    <3> QED
      BY <1>1, <3>2, <3>3, <3>4
  <2> QED
    BY <1>3, <2>3, <2>4, <2>5 DEF Places
<1> QED
  BY <1>2, <1>3

(* What the vector is when the oldest reading had to leave it.           *)
LEMMA OldestLeaves ==
  ASSUME NEW R \in SUBSET Int, NEW f, Sound(f, R), NEW c \in Nat \ {0}, Len(f.window) <= c
  PROVE  LET kept == IF Len(f.window) < c THEN f.window ELSE Tail(f.window)
         IN  /\ kept \in Seq(R) /\ Len(kept) < c
             /\ WithoutOldest(f, c) # {}
             /\ \A r \in WithoutOldest(f, c) :
                  r \in Seq(R) /\ Ascending(r) /\ Arranges(r, kept)
<1> DEFINE w == f.window
           s == f.sorted
           kept == IF Len(w) < c THEN w ELSE Tail(w)
<1>1. /\ w \in Seq(R) /\ s \in Seq(R) /\ Ascending(s) /\ Arranges(s, w)
      /\ Len(w) \in Nat /\ Len(w) <= c
  BY DEF Sound
<1>2. CASE Len(w) < c
  BY <1>1, <1>2 DEF WithoutOldest
<1>3. CASE ~(Len(w) < c)
  <2>1. Len(w) > 0 /\ Len(w) = c
    BY <1>1, <1>3
  <2>2. WithoutOldest(f, c) = {RemoveAt(s, i) : i \in Found(s, w[1])}
    BY <1>3 DEF WithoutOldest
  <2>3. kept = Tail(w)
    BY <1>3
  <2> HIDE DEF w, s, kept
  <2>4. Found(s, w[1]) # {}
    BY <1>1, <2>1, OldestFound
  <2>5. ASSUME NEW i \in Found(s, w[1])
        PROVE  /\ RemoveAt(s, i) \in Seq(R) /\ Ascending(RemoveAt(s, i))
               /\ Arranges(RemoveAt(s, i), Tail(w))
    <3>1. i \in 1..Len(s)
      BY DEF Found
    <3>2. RemoveAt(s, i) \in Seq(R)
      BY <1>1, <3>1, Removed
    <3>3. Ascending(RemoveAt(s, i))
      BY <1>1, <3>1, RemovedAscending
    <3>4. Arranges(RemoveAt(s, i), Tail(w))
      BY <1>1, <2>1, RemovedArranges
    <3> QED
      BY <3>2, <3>3, <3>4
  <2>6. kept \in Seq(R) /\ Len(kept) < c
    BY <1>1, <2>1, <2>3, TailFacts
  <2>7. /\ WithoutOldest(f, c) # {}
        /\ \A r \in WithoutOldest(f, c) : r \in Seq(R) /\ Ascending(r) /\ Arranges(r, kept)
    BY <2>2, <2>3, <2>4, <2>5
  <2> QED
    BY <2>6, <2>7 DEF w, kept
<1> QED
  BY <1>2, <1>3

(* A sound filter takes every reading and is sound after it.             *)
LEMMA ConsumedSound ==
  ASSUME NEW R \in SUBSET Int, NEW f, Sound(f, R), NEW c \in Nat \ {0}, Len(f.window) <= c,
         NEW v \in R
  PROVE  /\ Consumed(f, v, c) # {}
         /\ \A g \in Consumed(f, v, c) : Sound(g, R) /\ Len(g.window) \in 1..c
<1> DEFINE kept == IF Len(f.window) < c THEN f.window ELSE Tail(f.window)
           W == WithoutOldest(f, c)
           w == Append(kept, v)
<1>1. /\ kept \in Seq(R) /\ Len(kept) \in Nat /\ Len(kept) < c
      /\ W # {} /\ \A r \in W : r \in Seq(R) /\ Ascending(r) /\ Arranges(r, kept)
  BY OldestLeaves, LenProperties
<1>2. Consumed(f, v, c) = {[window |-> w, sorted |-> s] :
        s \in UNION {{InsertAt(r, i, v) : i \in Places(r, v)} : r \in W}}
  BY DEF Consumed
<1> HIDE DEF kept, W
<1>3. w \in Seq(R) /\ Len(w) \in 1..c
  BY <1>1, AppendFacts
<1>4. ASSUME NEW r \in W, NEW i \in Places(r, v)
      PROVE  /\ InsertAt(r, i, v) \in Seq(R) /\ Ascending(InsertAt(r, i, v))
             /\ Arranges(InsertAt(r, i, v), w)
  <2>1. r \in Seq(R) /\ Ascending(r) /\ Arranges(r, kept)
    BY <1>1
  <2>2. i \in 1..(Len(r) + 1) /\ Ascending(InsertAt(r, i, v))
    BY <2>1, InsertedAscending
  <2>3. InsertAt(r, i, v) \in Seq(R)
    BY <2>1, <2>2, Inserted
  <2>4. Arranges(InsertAt(r, i, v), w)
    BY <1>1, <2>1, <2>2, InsertedArranges
  <2> QED
    BY <2>2, <2>3, <2>4
<1> HIDE DEF w
<1>5. ASSUME NEW g \in Consumed(f, v, c) PROVE Sound(g, R) /\ Len(g.window) \in 1..c
  <2>1. PICK r \in W : \E i \in Places(r, v) : g = [window |-> w, sorted |-> InsertAt(r, i, v)]
    <3>1. PICK s \in UNION {{InsertAt(r, i, v) : i \in Places(r, v)} : r \in W} :
            g = [window |-> w, sorted |-> s]
      BY <1>2, Zenon
    <3>2. PICK T \in {{InsertAt(r, i, v) : i \in Places(r, v)} : r \in W} : s \in T
      BY <3>1, Zenon
    <3>3. PICK r \in W : T = {InsertAt(r, i, v) : i \in Places(r, v)}
      BY <3>2, Zenon
    <3> QED
      BY <3>1, <3>2, <3>3, Zenon
  <2>2. PICK i \in Places(r, v) : g = [window |-> w, sorted |-> InsertAt(r, i, v)]
    BY <2>1
  <2>3. g.window = w /\ g.sorted = InsertAt(r, i, v)
    BY <2>2
  <2> QED
    BY <1>3, <1>4, <2>3 DEF Sound
<1>6. Consumed(f, v, c) # {}
  <2>1. PICK r \in W : r \in Seq(R) /\ Ascending(r)
    BY <1>1
  <2>2. PICK i \in Places(r, v) : TRUE
    BY <2>1, PlaceExists
  <2>3. {InsertAt(r, j, v) : j \in Places(r, v)}
          \in {{InsertAt(q, j, v) : j \in Places(q, v)} : q \in W}
    BY <2>1, Zenon
  <2>4. InsertAt(r, i, v) \in {InsertAt(r, j, v) : j \in Places(r, v)}
    BY <2>2, Zenon
  <2>5. InsertAt(r, i, v) \in UNION {{InsertAt(q, j, v) : j \in Places(q, v)} : q \in W}
    BY <2>3, <2>4, Zenon
  <2>6. [window |-> w, sorted |-> InsertAt(r, i, v)] \in Consumed(f, v, c)
    BY <1>2, <2>5, Zenon
  <2> QED
    BY <2>6
<1> QED
  BY <1>5, <1>6

-----------------------------------------------------------------------------
(* The median.                                                           *)

(* A permutation keeps the size of a set.                                *)
LEMMA SameSize ==
  ASSUME NEW n \in Nat, NEW p \in Bijection(1..n, 1..n),
         NEW S \in SUBSET (1..n), NEW T \in SUBSET (1..n),
         \A k \in 1..n : k \in S <=> p[k] \in T
  PROVE  Cardinality(S) = Cardinality(T)
<1> DEFINE q == [k \in S |-> p[k]]
<1>1. /\ p \in [1..n -> 1..n]
      /\ \A a \in 1..n : \A b \in 1..n : p[a] = p[b] => a = b
      /\ \A t \in 1..n : \E k \in 1..n : p[k] = t
  BY PermutationFacts
<1>2. q \in [S -> T]
  BY <1>1
<1>3. \A a, b \in S : q[a] = q[b] => a = b
  BY <1>1
<1>4. ASSUME NEW t \in T PROVE \E a \in S : q[a] = t
  <2>1. PICK k \in 1..n : p[k] = t
    BY <1>1
  <2>2. k \in S /\ q[k] = t
    BY <2>1
  <2> QED
    BY <2>2
<1> HIDE DEF q
<1>5. q \in Bijection(S, T)
  BY <1>2, <1>3, <1>4, IsBijection
<1>6. IsFiniteSet(S)
  <2>1. IsFiniteSet(1..n)
    BY FS_Interval
  <2> QED
    BY <2>1, FS_Subset
<1>7. ExistsBijection(S, T)
  BY <1>5 DEF ExistsBijection
<1> QED
  BY <1>6, <1>7, FS_Bijection

(* As many readings of the window as of the sorted ones are at most v, and*)
(* at least v.                                                           *)
LEMMA SameCounts ==
  ASSUME NEW R \in SUBSET Int, NEW s \in Seq(R), NEW w \in Seq(R), Arranges(s, w), NEW v \in Int
  PROVE  /\ Cardinality(Below(w, v)) = Cardinality(Below(s, v))
         /\ Cardinality(Above(w, v)) = Cardinality(Above(s, v))
<1> DEFINE n == Len(s)
<1>1. n \in Nat /\ n = Len(w)
  BY DEF Arranges
<1>2. PICK p \in Bijection(1..n, 1..n) : \A k \in 1..n : s[k] = w[p[k]]
  BY DEF Arranges
<1>3. p \in [1..n -> 1..n]
  BY <1>1, PermutationFacts
<1>4. /\ Below(s, v) = {k \in 1..n : s[k] <= v} /\ Below(w, v) = {k \in 1..n : w[k] <= v}
      /\ Above(s, v) = {k \in 1..n : s[k] >= v} /\ Above(w, v) = {k \in 1..n : w[k] >= v}
  BY <1>1 DEF Below, Above
<1> HIDE DEF n
<1>5. \A k \in 1..n : p[k] \in 1..n
  BY <1>3
<1>6. \A k \in 1..n : k \in Below(s, v) <=> p[k] \in Below(w, v)
  BY <1>2, <1>4, <1>5
<1>7. \A k \in 1..n : k \in Above(s, v) <=> p[k] \in Above(w, v)
  BY <1>2, <1>4, <1>5
<1>8. /\ Below(s, v) \in SUBSET (1..n) /\ Below(w, v) \in SUBSET (1..n)
      /\ Above(s, v) \in SUBSET (1..n) /\ Above(w, v) \in SUBSET (1..n)
  BY <1>4
<1>9. n \in Nat /\ p \in Bijection(1..n, 1..n)
  BY <1>1, <1>2
<1>10. Cardinality(Below(s, v)) = Cardinality(Below(w, v))
  BY <1>6, <1>8, <1>9, SameSize
<1>11. Cardinality(Above(s, v)) = Cardinality(Above(w, v))
  BY <1>7, <1>8, <1>9, SameSize
<1> QED
  BY <1>10, <1>11

(* How many of the sorted readings are at most v, and at least v, by the *)
(* one at place k.                                                       *)
LEMMA SortedCounts ==
  ASSUME NEW R \in SUBSET Int, NEW s \in Seq(R), Ascending(s), NEW k \in 1..Len(s), NEW v \in Int
  PROVE  /\ Cardinality(Below(s, v)) \in Nat /\ Cardinality(Above(s, v)) \in Nat
         /\ s[k] <= v => Cardinality(Below(s, v)) >= k
         /\ v < s[k]  => Cardinality(Below(s, v)) <= k - 1
         /\ s[k] >= v => Cardinality(Above(s, v)) >= Len(s) - k + 1
         /\ v > s[k]  => Cardinality(Above(s, v)) <= Len(s) - k
<1> DEFINE n == Len(s)
<1>1. n \in Nat /\ \A j \in 1..n : s[j] \in Int
  <2>1. n \in Nat /\ \A j \in 1..n : s[j] \in R
    BY LenProperties, ElementOfSeq
  <2> QED
    BY <2>1
<1>2. Below(s, v) = {j \in 1..n : s[j] <= v} /\ Above(s, v) = {j \in 1..n : s[j] >= v}
  BY DEF Below, Above
<1>3. \A i \in 1..n : \A j \in 1..n : i <= j => s[i] <= s[j]
  BY DEF Ascending
<1>4. k \in 1..n
  OBVIOUS
<1> HIDE DEF n
<1>5. IsFiniteSet(1..n)
  BY <1>1, FS_Interval
<1>6. IsFiniteSet(Below(s, v)) /\ IsFiniteSet(Above(s, v))
  <2>1. Below(s, v) \in SUBSET (1..n) /\ Above(s, v) \in SUBSET (1..n)
    BY <1>2
  <2> QED
    BY <1>5, <2>1, FS_Subset
<1>7. Cardinality(Below(s, v)) \in Nat /\ Cardinality(Above(s, v)) \in Nat
  BY <1>6, FS_CardinalityType
<1>8. /\ Cardinality(1..k) = k /\ Cardinality(1..(k - 1)) = k - 1
      /\ Cardinality(k..n) = n - k + 1 /\ Cardinality((k + 1)..n) = n - k
  <2>1. k \in Int /\ n \in Int /\ 1 <= k /\ k <= n
    BY <1>1, <1>4
  <2>2. Cardinality(1..k) = k
    BY <2>1, FS_Interval
  <2>3. Cardinality(1..(k - 1)) = k - 1
    BY <2>1, FS_Interval
  <2>4. Cardinality(k..n) = n - k + 1
    BY <2>1, FS_Interval
  <2>5. Cardinality((k + 1)..n) = n - k
    BY <2>1, FS_Interval
  <2> QED
    BY <2>2, <2>3, <2>4, <2>5
<1>9. IsFiniteSet(1..(k - 1)) /\ IsFiniteSet((k + 1)..n)
  BY <1>1, <1>4, FS_Interval
<1>10. ASSUME s[k] <= v PROVE Cardinality(Below(s, v)) >= k
  <2>1. 1..k \subseteq Below(s, v)
    <3> SUFFICES ASSUME NEW j \in 1..k PROVE j \in 1..n /\ s[j] <= v
      BY <1>2
    <3>1. j \in 1..n /\ s[j] <= s[k]
      BY <1>1, <1>3, <1>4
    <3> QED
      BY <1>1, <1>4, <1>10, <3>1
  <2>2. Cardinality(1..k) <= Cardinality(Below(s, v))
    BY <1>6, <2>1, FS_Subset
  <2> QED
    BY <1>4, <1>7, <1>8, <2>2
<1>11. ASSUME v < s[k] PROVE Cardinality(Below(s, v)) <= k - 1
  <2>1. Below(s, v) \subseteq 1..(k - 1)
    <3> SUFFICES ASSUME NEW j \in 1..n, s[j] <= v PROVE j \in 1..(k - 1)
      BY <1>2
    <3>1. ~(k <= j)
      BY <1>1, <1>3, <1>4, <1>11
    <3> QED
      BY <1>1, <1>4, <3>1
  <2>2. Cardinality(Below(s, v)) <= Cardinality(1..(k - 1))
    BY <1>9, <2>1, FS_Subset
  <2> QED
    BY <1>8, <2>2
<1>12. ASSUME s[k] >= v PROVE Cardinality(Above(s, v)) >= n - k + 1
  <2>1. k..n \subseteq Above(s, v)
    <3> SUFFICES ASSUME NEW j \in k..n PROVE j \in 1..n /\ s[j] >= v
      BY <1>2
    <3>1. j \in 1..n /\ s[k] <= s[j]
      BY <1>1, <1>3, <1>4
    <3> QED
      BY <1>1, <1>4, <1>12, <3>1
  <2>2. Cardinality(k..n) <= Cardinality(Above(s, v))
    BY <1>6, <2>1, FS_Subset
  <2> QED
    BY <1>1, <1>4, <1>7, <1>8, <2>2
<1>13. ASSUME v > s[k] PROVE Cardinality(Above(s, v)) <= n - k
  <2>1. Above(s, v) \subseteq (k + 1)..n
    <3> SUFFICES ASSUME NEW j \in 1..n, s[j] >= v PROVE j \in (k + 1)..n
      BY <1>2
    <3>1. ~(j <= k)
      BY <1>1, <1>3, <1>4, <1>13
    <3> QED
      BY <1>1, <1>4, <3>1
  <2>2. Cardinality(Above(s, v)) <= Cardinality((k + 1)..n)
    BY <1>9, <2>1, FS_Subset
  <2> QED
    BY <1>8, <2>2
<1> QED
  BY <1>7, <1>10, <1>11, <1>12, <1>13 DEF n

(* What a filter with readings gives is the median of its window.        *)
LEMMA MedianIsMiddle ==
  ASSUME NEW R \in SUBSET Int, \A a, b \in R : (a + b) % 2 = 0,
         NEW f, Sound(f, R), Len(f.window) > 0
  PROVE  IsMiddle(Median(f), f.window)
<1> DEFINE s == f.sorted
           w == f.window
           n == Len(s)
           a == IF n % 2 = 1 THEN n \div 2 + 1 ELSE n \div 2
           b == n \div 2 + 1
<1>1. s \in Seq(R) /\ w \in Seq(R) /\ Ascending(s) /\ Arranges(s, w)
  BY DEF Sound
<1>2. n \in Nat /\ n > 0 /\ n = Len(w)
  BY <1>1 DEF Arranges
<1>3. PICK p \in Bijection(1..n, 1..n) : \A k \in 1..n : s[k] = w[p[k]]
  BY <1>1 DEF Arranges
<1>4. p \in [1..n -> 1..n]
  BY <1>2, PermutationFacts
<1>5. /\ \A k \in 1..n : s[k] \in R /\ s[k] \in Int
      /\ \A k \in 1..n : w[k] \in R /\ w[k] \in Int
  <2>1. \A k \in 1..Len(s) : s[k] \in R
    BY <1>1, ElementOfSeq
  <2>2. \A k \in 1..Len(w) : w[k] \in R
    BY <1>1, ElementOfSeq
  <2> QED
    BY <1>2, <2>1, <2>2
<1>6. ToSet(w) = {w[k] : k \in 1..n}
  BY <1>1, <1>2, LenProperties DEF ToSet
<1>7. Median(f) = IF n % 2 = 1 THEN s[b] ELSE (s[n \div 2] + s[b]) \div 2
  <2>1. n # 0
    BY <1>2
  <2> QED
    BY <2>1, Zenon DEF Median
<1> HIDE DEF s, w, n
<1>8. /\ a \in 1..n /\ b \in 1..n
      /\ 2 * a >= n /\ 2 * (n - b + 1) >= n /\ 2 * (a - 1) < n /\ 2 * (n - b) < n
  BY <1>2
<1>9. 2 * Median(f) = s[a] + s[b]
  <2>1. CASE n % 2 = 1
    <3>1. Median(f) = s[b] /\ a = b
      BY <1>7, <2>1
    <3>2. s[b] \in Int
      BY <1>5, <1>8
    <3> QED
      BY <3>1, <3>2
  <2>2. CASE n % 2 # 1
    <3>1. a = n \div 2
      BY <2>2
    <3>2. Median(f) = (s[a] + s[b]) \div 2
      BY <1>7, <2>2, <3>1
    <3> HIDE DEF a, b
    <3>3. s[a] \in Int /\ s[b] \in Int /\ (s[a] + s[b]) % 2 = 0
      BY <1>5, <1>8
    <3> QED
      BY <3>2, <3>3
  <2> QED
    BY <2>1, <2>2
<1> HIDE DEF a, b
<1>10. ASSUME NEW k \in 1..n PROVE s[k] \in ToSet(w)
  <2>1. p[k] \in 1..n
    BY <1>4
  <2> QED
    BY <1>3, <1>6, <2>1
<1>11. \A v \in ToSet(w) : v \in Int
  BY <1>5, <1>6
<1>12. ASSUME NEW v \in Int, NEW k \in 1..n
       PROVE  /\ Cardinality(Below(w, v)) \in Nat /\ Cardinality(Above(w, v)) \in Nat
              /\ s[k] <= v => Cardinality(Below(w, v)) >= k
              /\ v < s[k]  => Cardinality(Below(w, v)) <= k - 1
              /\ s[k] >= v => Cardinality(Above(w, v)) >= n - k + 1
              /\ v > s[k]  => Cardinality(Above(w, v)) <= n - k
  <2>1. k \in 1..Len(s)
    BY DEF n
  <2>2. /\ Cardinality(Below(w, v)) = Cardinality(Below(s, v))
        /\ Cardinality(Above(w, v)) = Cardinality(Above(s, v))
    BY <1>1, SameCounts
  <2> QED
    BY <1>1, <2>1, <2>2, SortedCounts DEF n
<1>13. s[a] \in Int /\ s[b] \in Int /\ s[a] <= s[a] /\ s[b] >= s[b]
  <2>1. s[a] \in Int /\ s[b] \in Int
    BY <1>5, <1>8
  <2> QED
    BY <2>1
<1>14. 2 * Cardinality(Below(w, s[a])) >= Len(w)
  <2>1. Cardinality(Below(w, s[a])) >= a /\ Cardinality(Below(w, s[a])) \in Nat
    BY <1>8, <1>12, <1>13
  <2> QED
    BY <1>2, <1>8, <2>1
<1>15. 2 * Cardinality(Above(w, s[b])) >= Len(w)
  <2>1. Cardinality(Above(w, s[b])) >= n - b + 1 /\ Cardinality(Above(w, s[b])) \in Nat
    BY <1>8, <1>12, <1>13
  <2> QED
    BY <1>2, <1>8, <2>1
<1>16. ASSUME NEW v \in ToSet(w), v < s[a] PROVE 2 * Cardinality(Below(w, v)) < Len(w)
  <2>1. Cardinality(Below(w, v)) <= a - 1 /\ Cardinality(Below(w, v)) \in Nat
    BY <1>8, <1>11, <1>12, <1>16
  <2> QED
    BY <1>2, <1>8, <2>1
<1>17. ASSUME NEW v \in ToSet(w), v > s[b] PROVE 2 * Cardinality(Above(w, v)) < Len(w)
  <2>1. Cardinality(Above(w, v)) <= n - b /\ Cardinality(Above(w, v)) \in Nat
    BY <1>8, <1>11, <1>12, <1>17
  <2> QED
    BY <1>2, <1>8, <2>1
<1>18. s[a] \in ToSet(w) /\ s[b] \in ToSet(w)
  BY <1>8, <1>10
<1>19. IsMiddle(Median(f), w)
  BY <1>9, <1>14, <1>15, <1>16, <1>17, <1>18 DEF IsMiddle
<1> QED
  BY <1>19 DEF w

-----------------------------------------------------------------------------
(* Numbers.                                                              *)

(* What a divisor goes into.                                             *)
LEMMA Divided ==
  ASSUME NEW a \in Int, NEW r \in Nat \ {0}, a % r = 0
  PROVE  (a \div r) \in Int /\ (a \div r) * r = a
  OBVIOUS

(* Half of a number that comes out even in two times r comes out even in r.*)
LEMMA HalfDivided ==
  ASSUME NEW a \in Int, NEW r \in Nat \ {0}, a % (2 * r) = 0
  PROVE  (a \div 2) \in Int /\ (a \div 2) % r = 0
<1> DEFINE k == a \div (2 * r)
<1>1. 2 * r \in Nat \ {0}
  OBVIOUS
<1>2. k \in Int /\ k * (2 * r) = a
  BY <1>1, Divided
<1> HIDE DEF k
<1>3. a \div 2 = k * r
  BY <1>2
<1>4. (k * r) % r = 0
  BY <1>2
<1> QED
  BY <1>2, <1>3, <1>4

(* The median of even readings is a reading or a mean, and comes out even*)
(* in every ratio.                                                       *)
LEMMA MedianDivided ==
  ASSUME NEW R \in SUBSET Int, NEW r \in Nat \ {0}, \A a, b \in R : (a + b) % (2 * r) = 0,
         NEW f, Sound(f, R)
  PROVE  Median(f) \in Int /\ Median(f) % r = 0
<1> DEFINE s == f.sorted
           n == Len(s)
<1>1. n \in Nat /\ \A k \in 1..n : s[k] \in R /\ s[k] \in Int
  <2>1. s \in Seq(R)
    BY DEF Sound
  <2>2. n \in Nat /\ \A k \in 1..n : s[k] \in R
    BY <2>1, LenProperties, ElementOfSeq
  <2> QED
    BY <2>2
<1>2. Median(f) = IF n = 0 THEN 0 ELSE IF n % 2 = 1 THEN s[n \div 2 + 1]
                  ELSE (s[n \div 2] + s[n \div 2 + 1]) \div 2
  BY Zenon DEF Median
<1> HIDE DEF s, n
<1>3. CASE n = 0
  <2>1. 0 % r = 0
    OBVIOUS
  <2> QED
    BY <1>2, <1>3, <2>1
<1>4. CASE n # 0 /\ n % 2 = 1
  <2> DEFINE a == s[n \div 2 + 1]
  <2>1. n \div 2 + 1 \in 1..n
    BY <1>1, <1>4
  <2>2. a \in Int /\ (a + a) % (2 * r) = 0
    BY <1>1, <2>1
  <2>3. Median(f) = a
    BY <1>2, <1>4, Zenon
  <2> HIDE DEF a
  <2>4. a + a \in Int /\ (a + a) \div 2 = a
    BY <2>2
  <2>5. a % r = 0
    BY <2>2, <2>4, HalfDivided
  <2> QED
    BY <2>2, <2>3, <2>5
<1>5. CASE n # 0 /\ n % 2 # 1
  <2> DEFINE a == s[n \div 2]
             b == s[n \div 2 + 1]
  <2>1. n \div 2 \in 1..n /\ n \div 2 + 1 \in 1..n
    BY <1>1, <1>5
  <2>2. a \in Int /\ b \in Int /\ (a + b) % (2 * r) = 0
    BY <1>1, <2>1
  <2>3. Median(f) = (a + b) \div 2
    BY <1>2, <1>5, Zenon
  <2> HIDE DEF a, b
  <2>4. a + b \in Int
    BY <2>2
  <2> QED
    BY <2>2, <2>3, <2>4, HalfDivided
<1> QED
  BY <1>3, <1>4, <1>5

-----------------------------------------------------------------------------
(* The invariants.                                                       *)

FilterKept ==
  /\ terminal \in Terminals
  /\ Sound(filter, terminal.readings) /\ Len(filter.window) <= Capacity

(* The numbers the calibrations are made of; until it is used, a reading is*)
(* that of the numbers it was made of, if the ratio cannot change; a zero*)
(* and a tare are only those of a terminal with the command.             *)
NumbersKept ==
  /\ flags \subseteq terminal.commands /\ ratio \in terminal.ratios
  /\ zero \in Int /\ calibration \in Int /\ tare \in Int
  /\ reading.of \in Int
  /\ pc = "send" /\ terminal.ratios = {1} => reading.of = Reading(signal).of
  /\ "zero" \notin terminal.commands => zero = 0

WeigherInv == FilterKept /\ NumbersKept

(* What the assumption on the terminals says of the one this is.         *)
LEMMA ThisTerminal ==
  ASSUME terminal \in Terminals
  PROVE  /\ terminal.readings \in SUBSET Int
         /\ terminal.ratios \in SUBSET (Nat \ {0}) /\ 1 \in terminal.ratios
         /\ \A a, b \in terminal.readings : (a + b) % 2 = 0
         /\ \A r \in terminal.ratios : \A a, b \in terminal.readings : (a + b) % (2 * r) = 0
<1>1. /\ terminal.readings \in SUBSET Int
      /\ terminal.ratios \in SUBSET (Nat \ {0}) /\ 1 \in terminal.ratios
  BY TerminalsAssumption
<1>2. ASSUME NEW a \in terminal.readings, NEW b \in terminal.readings, NEW r \in terminal.ratios
      PROVE  (a + b) % (2 * r) = 0
  <2>1. (a + b) % (2 * 1 * r) = 0
    BY <1>1, TerminalsAssumption
  <2>2. 2 * 1 * r = 2 * r
    BY <1>1
  <2> QED
    BY <2>1, <2>2
<1>3. \A a, b \in terminal.readings : (a + b) % 2 = 0
  <2>1. \A a, b \in terminal.readings : (a + b) % (2 * 1) = 0
    BY <1>1, <1>2
  <2> QED
    BY <2>1
<1> QED
  BY <1>1, <1>2, <1>3

(* The signal, whatever is in the filter.                                *)
LEMMA SignalNumber ==
  ASSUME FilterKept
  PROVE  signal \in Int /\ \A r \in terminal.ratios : signal % r = 0
<1>1. /\ terminal \in Terminals /\ Sound(filter, terminal.readings)
      /\ terminal.readings \in SUBSET Int
      /\ terminal.ratios \in SUBSET (Nat \ {0}) /\ 1 \in terminal.ratios
  BY ThisTerminal DEF FilterKept
<1>2. ASSUME NEW r \in terminal.ratios PROVE Median(filter) \in Int /\ Median(filter) % r = 0
  <2>1. r \in Nat \ {0} /\ \A a, b \in terminal.readings : (a + b) % (2 * r) = 0
    BY <1>1, ThisTerminal
  <2> QED
    BY <1>1, <2>1, MedianDivided
<1> QED
  BY <1>1, <1>2 DEF signal

-----------------------------------------------------------------------------
(* The empty filter.                                                     *)
LEMMA EmptyIsSound ==
  ASSUME NEW R
  PROVE  Sound(EmptyFilter, R) /\ Len(EmptyFilter.window) = 0
<1>1. <<>> \in Seq(R) /\ Len(<<>>) = 0
  OBVIOUS
<1>2. Ascending(<<>>)
  BY <1>1 DEF Ascending
<1>3. Arranges(<<>>, <<>>)
  <2> DEFINE p == [k \in 1..0 |-> k]
  <2>1. p \in [1..0 -> 1..0]
    OBVIOUS
  <2>2. p \in Bijection(1..0, 1..0)
    BY <2>1, IsBijection
  <2> HIDE DEF p
  <2> QED
    BY <1>1, <2>2 DEF Arranges
<1> QED
  BY <1>1, <1>2, <1>3 DEF Sound, EmptyFilter

(* Only Measure touches the filter, and it consumes one reading.            *)
LEMMA FilterStep == FilterKept /\ [Next]_vars => FilterKept'
<1> SUFFICES ASSUME FilterKept, [Next]_vars PROVE FilterKept'
  OBVIOUS
<1>1. terminal \in Terminals /\ terminal.readings \in SUBSET Int /\ Capacity \in Nat \ {0}
  BY ThisTerminal, ConfigAssumption DEF FilterKept
<1>2. ASSUME NEW v \in terminal.readings, Measure(v) PROVE FilterKept'
  <2>1. terminal' = terminal /\ filter' \in Consumed(filter, v, Capacity)
    BY <1>2 DEF Measure
  <2>2. Sound(filter', terminal.readings) /\ Len(filter'.window) \in 1..Capacity
    BY <1>1, <2>1, ConsumedSound DEF FilterKept
  <2>3. Len(filter'.window) <= Capacity
    BY <1>1, <2>2
  <2> QED
    BY <1>1, <2>1, <2>2, <2>3 DEF FilterKept
<1>3. UNCHANGED <<terminal, filter>> => FilterKept'
  BY DEF FilterKept
<1>4. CASE UNCHANGED vars
  BY <1>3, <1>4 DEF vars, inputs
<1>5. ASSUME NEW c, Press(c) \/ Release(c) PROVE FilterKept'
  BY <1>3, <1>5 DEF Press, Release, inputs
<1>6. ASSUME NEW r, SetRatio(r) PROVE FilterKept'
  BY <1>3, <1>6 DEF SetRatio, inputs
<1>7. CASE Process
  BY <1>3, <1>7 DEF Process, ZeroCalibrate, Calibrate, Weigh, SendMass, SendShare, inputs
<1> QED
  BY <1>2, <1>4, <1>5, <1>6, <1>7 DEF Next

(* The sorted readings are those of the window, in order, and no more than*)
(* the capacity.                                                         *)
THEOREM FilterSound == Spec => []FilterKept
<1>1. Init => FilterKept
  <2> SUFFICES ASSUME Init PROVE FilterKept
    OBVIOUS
  <2>1. terminal \in Terminals /\ filter = EmptyFilter
    BY DEF Init
  <2>2. Capacity \in Nat
    BY ConfigAssumption
  <2>3. Sound(EmptyFilter, terminal.readings) /\ Len(EmptyFilter.window) = 0
    BY EmptyIsSound
  <2> QED
    BY <2>1, <2>2, <2>3 DEF FilterKept
<1> QED
  BY <1>1, FilterStep, PTL DEF Spec, Safety

(* Every reading that is a number is taken, if those before it were: the *)
(* oldest is found in the sorted vector wherever the binary searches end,*)
(* so that consume does not come to its own panic.  With a NaN, which no *)
(* reading of the model is, it panics at the unwrap of a comparison.     *)
THEOREM NumbersAreTaken ==
  Spec => [](\A v \in terminal.readings : Consumed(filter, v, Capacity) # {})
<1>1. FilterKept => \A v \in terminal.readings : Consumed(filter, v, Capacity) # {}
  <2> SUFFICES ASSUME FilterKept, NEW v \in terminal.readings
               PROVE  Consumed(filter, v, Capacity) # {}
    OBVIOUS
  <2>1. terminal.readings \in SUBSET Int /\ Capacity \in Nat \ {0}
    BY ThisTerminal, ConfigAssumption DEF FilterKept
  <2> QED
    BY <2>1, ConsumedSound DEF FilterKept
<1> QED
  BY <1>1, FilterSound, PTL

(* The signal that is weighed is the median of the latest readings, for  *)
(* every capacity and any readings, equal ones included.                 *)
THEOREM SignalIsMedian == Spec => []SignalIsMiddle
<1>1. FilterKept => SignalIsMiddle
  <2> SUFFICES ASSUME FilterKept, filter.window # <<>>
               PROVE  IsMiddle(Median(filter), filter.window)
    BY DEF SignalIsMiddle, signal
  <2>1. /\ terminal.readings \in SUBSET Int /\ \A a, b \in terminal.readings : (a + b) % 2 = 0
        /\ Sound(filter, terminal.readings)
    BY ThisTerminal DEF FilterKept
  <2>2. Len(filter.window) > 0
    BY <2>1 DEF Sound
  <2> QED
    BY <2>1, <2>2, MedianIsMiddle
<1> QED
  BY <1>1, FilterSound, PTL

(* A new scale has the ratio 1, no zero and no tare.                        *)
LEMMA NumbersInit == Init => NumbersKept
<1> SUFFICES ASSUME Init PROVE NumbersKept
  OBVIOUS
<1>1. 1 \in terminal.ratios /\ StartCalibration \in Int
  BY ThisTerminal, ConfigAssumption DEF Init
<1> QED
  BY <1>1 DEF Init, NumbersKept

(* Every block of process_data, press and ratio keeps the numbers: one step *)
(* per action.                                                              *)
LEMMA NumbersStep == WeigherInv /\ [Next]_vars => NumbersKept'
<1> SUFFICES ASSUME FilterKept, NumbersKept, [Next]_vars PROVE NumbersKept'
  BY DEF WeigherInv
<1>1. /\ terminal.ratios \in SUBSET (Nat \ {0})
      /\ signal \in Int /\ \A r \in terminal.ratios : signal % r = 0
  BY ThisTerminal, SignalNumber DEF FilterKept
<1>2. ratio \in Nat \ {0}
  BY <1>1 DEF NumbersKept
<1>3. filter' = filter => signal' = signal
  BY DEF signal
<1>4. CASE UNCHANGED vars
  BY <1>3, <1>4 DEF NumbersKept, Reading, vars, inputs, config
<1>5. ASSUME NEW c \in {"tare", "zero", "calibrate"}, Press(c) PROVE NumbersKept'
  BY <1>3, <1>5 DEF Press, NumbersKept, Reading, inputs, config
<1>6. ASSUME NEW c \in {"tare", "zero", "calibrate"}, Release(c) PROVE NumbersKept'
  BY <1>3, <1>6 DEF Release, NumbersKept, Reading, inputs, config
<1>7. ASSUME NEW r \in terminal.ratios, SetRatio(r) PROVE NumbersKept'
  <2>1. terminal.ratios # {1}
    BY <1>7 DEF SetRatio, NumbersKept
  <2> QED
    BY <1>7, <2>1 DEF SetRatio, NumbersKept, inputs, config
<1>8. ASSUME NEW v \in terminal.readings, Measure(v) PROVE NumbersKept'
  BY <1>8 DEF Measure, NumbersKept, config
<1>9. CASE ZeroCalibrate
  <2>1. signal \div ratio \in Int
    BY <1>1, <1>2
  <2> QED
    BY <1>9, <2>1 DEF ZeroCalibrate, NumbersKept, inputs
<1>10. CASE Calibrate
  <2>1. (signal - zero) \div ratio + zero \in Int
    BY <1>1, <1>2 DEF NumbersKept
  <2> QED
    BY <1>10, <2>1 DEF Calibrate, NumbersKept, inputs
<1>11. CASE Weigh
  <2>1. Reading(signal).of \in Int
    BY <1>1, <1>2 DEF NumbersKept, Reading
  <2>2. Reading(signal)' = Reading(signal)
    BY <1>3, <1>11 DEF Weigh, Reading, inputs, config
  <2>3. reading'.of = Reading(signal).of
    BY <1>11 DEF Weigh
  <2> QED
    BY <1>11, <2>1, <2>2, <2>3 DEF Weigh, NumbersKept, inputs, config
<1>12. CASE SendMass
  <2>1. Tared \in Int
    BY DEF Tared, NumbersKept
  <2> QED
    BY <1>12, <2>1 DEF SendMass, NumbersKept, inputs, config
<1>13. CASE SendShare
  BY <1>13 DEF SendShare, NumbersKept, inputs, config
<1> QED
  BY <1>4, <1>5, <1>6, <1>7, <1>8, <1>9, <1>10, <1>11, <1>12, <1>13 DEF Next, Process

(* The inductive invariant of the scale: the filter is sound and ratio,     *)
(* calibration, zero and tare are numbers that fit the terminal, the ratio  *)
(* never 0, whatever order the blocks, presses and ratios come in.          *)
THEOREM WeigherInvariant == Spec => []WeigherInv
<1>1. Init => WeigherInv
  <2>1. Init => FilterKept
    <3> SUFFICES ASSUME Init PROVE FilterKept
      OBVIOUS
    <3>1. Sound(EmptyFilter, terminal.readings) /\ Len(EmptyFilter.window) = 0
      BY EmptyIsSound
    <3> QED
      BY <3>1, ConfigAssumption DEF FilterKept, Init
  <2> QED
    BY <2>1, NumbersInit DEF WeigherInv
<1>2. WeigherInv /\ [Next]_vars => WeigherInv'
  BY FilterStep, NumbersStep DEF WeigherInv
<1> QED
  BY <1>1, <1>2, PTL DEF Spec, Safety

-----------------------------------------------------------------------------
(* What the commands do.                                                 *)

(* With the tare that is taken the signal it was taken of weighs nothing,*)
(* if the ratio is 1 and was when the signal was read; the terminal, the *)
(* zero, the tares before and the presses in between make no difference. *)
THEOREM TareIsExact == Spec => TareZeroes
<1>1. WeigherInv /\ [Next]_vars =>
        [tare' # tare /\ ratio = 1 /\ reading = Reading(signal) => Reading(signal).of' = 0]_vars
  <2> SUFFICES ASSUME FilterKept, NumbersKept, Next, tare' # tare, ratio = 1,
                      reading = Reading(signal)
               PROVE  Reading(signal).of' = 0
    BY DEF WeigherInv
  <2>1. SendMass
    BY DEF Next, Press, Release, SetRatio, Measure, Process, ZeroCalibrate, Calibrate, Weigh,
           SendShare, config
  <2>2. tare' = tare + reading.of
    BY <2>1 DEF SendMass, Tared
  <2>3. reading.of = signal - (zero + tare) * 1
    BY DEF Reading
  <2>4. Reading(signal).of' = signal - (zero + tare') * 1
    BY <2>1 DEF SendMass, Reading, signal, inputs, config
  <2>5. signal \in Int /\ zero \in Int /\ tare \in Int
    BY SignalNumber DEF NumbersKept
  <2> QED
    BY <2>2, <2>3, <2>4, <2>5
<1> QED
  BY <1>1, WeigherInvariant, PTL DEF Spec, Safety, TareZeroes

(* With the zero that is taken the signal it was taken of weighs nothing,*)
(* whatever the ratio, unless there is a tare.                           *)
THEOREM ZeroIsExact == Spec => ZeroZeroes
<1>1. WeigherInv /\ [Next]_vars => [zero' # zero /\ tare = 0 => Reading(signal).of' = 0]_vars
  <2> SUFFICES ASSUME FilterKept, NumbersKept, Next, zero' # zero, tare = 0
               PROVE  Reading(signal).of' = 0
    BY DEF WeigherInv
  <2>1. ZeroCalibrate
    BY DEF Next, Press, Release, SetRatio, Measure, Process, Calibrate, Weigh,
           SendMass, SendShare, config
  <2>2. zero' = signal \div ratio /\ filter' = filter /\ ratio' = ratio /\ tare' = 0
    BY <2>1 DEF ZeroCalibrate, inputs
  <2>3. signal \in Int /\ ratio \in Nat \ {0} /\ signal % ratio = 0
    BY SignalNumber, ThisTerminal DEF FilterKept, NumbersKept
  <2>4. zero' \in Int /\ zero' * ratio = signal
    BY <2>2, <2>3, Divided
  <2>5. Reading(signal).of' = signal - (zero' + 0) * ratio
    BY <2>2 DEF Reading, signal
  <2> DEFINE z == zero'
  <2> HIDE DEF z
  <2>6. z \in Int /\ z * ratio = signal
    BY <2>4 DEF z
  <2>7. z + 0 = z
    BY <2>6
  <2>8. Reading(signal).of' = signal - (z + 0) * ratio
    BY <2>5 DEF z
  <2>9. Reading(signal).of' = signal - z * ratio
    BY <2>7, <2>8, Zenon
  <2> QED
    BY <2>3, <2>6, <2>9
<1> QED
  BY <1>1, WeigherInvariant, PTL DEF Spec, Safety, ZeroZeroes

(* With the calibration that is taken the signal it was taken of weighs the*)
(* calibration load, if nothing was zeroed or the ratio is 1: the code   *)
(* takes the zero off the signal before it divides by the ratio.         *)
THEOREM CalibrationIsExact == Spec => CalibrationWeighs
<1>1. WeigherInv /\ [Next]_vars =>
        [calibration' # calibration /\ (zero = 0 \/ ratio = 1) =>
           Reading(signal).of' = Reading(signal).full']_vars
  <2> SUFFICES ASSUME FilterKept, NumbersKept, Next, calibration' # calibration,
                      zero = 0 \/ ratio = 1
               PROVE  Reading(signal).of' = Reading(signal).full'
    BY DEF WeigherInv
  <2>1. Calibrate
    BY DEF Next, Press, Release, SetRatio, Measure, Process, ZeroCalibrate, Weigh,
           SendMass, SendShare, config
  <2>2. /\ "calibrate" \in flags /\ calibration' = (signal - zero) \div ratio + zero
        /\ filter' = filter /\ ratio' = ratio /\ tare' = tare /\ zero' = zero
    BY <2>1 DEF Calibrate, inputs
  <2>3. /\ signal \in Int /\ ratio \in Nat \ {0} /\ signal % ratio = 0
        /\ zero \in Int /\ tare \in Int
    BY SignalNumber, ThisTerminal DEF FilterKept, NumbersKept
  <2>4. /\ Reading(signal).of' = signal - (zero + tare) * ratio
        /\ Reading(signal).full' = (calibration' - (zero + tare)) * ratio
    BY <2>2 DEF Reading, signal
  <2>5. CASE ratio = 1
    <3>1. calibration' = signal
      BY <2>2, <2>3, <2>5
    <3> QED
      BY <2>3, <2>4, <2>5, <3>1
  <2>6. CASE zero = 0
    <3>1. calibration' \in Int /\ calibration' * ratio = signal
      <4>1. calibration' = signal \div ratio /\ (signal \div ratio) \in Int
        BY <2>2, <2>3, <2>6
      <4> QED
        BY <2>3, <4>1, Divided
    <3> DEFINE c == calibration'
    <3> HIDE DEF c
    <3>2. c \in Int /\ c * ratio = signal
      BY <3>1 DEF c
    <3>3. Reading(signal).of' = c * ratio - tare * ratio
      BY <2>3, <2>4, <2>6, <3>2
    <3>4. Reading(signal).full' = (c - tare) * ratio
      BY <2>3, <2>4, <2>6, <3>2 DEF c
    <3>5. (c - tare) * ratio = c * ratio - tare * ratio
      BY <2>3, <3>2
    <3> QED
      BY <3>3, <3>4, <3>5
  <2> QED
    BY <2>5, <2>6
<1> QED
  BY <1>1, WeigherInvariant, PTL DEF Spec, Safety, CalibrationWeighs

-----------------------------------------------------------------------------
(* What a scale shows: nothing is a mass of 0.                           *)
ShownIsMass ==
  /\ reading.full \in Int /\ mass \in Int
  /\ terminal.mode = "scale" => (IF sent = None THEN 0 ELSE sent) = mass

(* Rounding gives an integer.                                               *)
LEMMA RoundedNumber ==
  ASSUME NEW n \in Int, NEW d \in Int, d # 0
  PROVE  Rounded(n, d) \in Int
<1> DEFINE half(a, b) == (2 * a + b) \div (2 * b)
           top == IF d < 0 THEN -n ELSE n
           bottom == IF d < 0 THEN -d ELSE d
<1>1. top \in Int /\ bottom \in Nat \ {0}
  OBVIOUS
<1>2. \A a \in Int, b \in Nat \ {0} : half(a, b) \in Int
  OBVIOUS
<1>3. Rounded(n, d) = IF top < 0 THEN -half(-top, bottom) ELSE half(top, bottom)
  BY Zenon DEF Rounded
<1> HIDE DEF top, bottom, half
<1>4. half(-top, bottom) \in Int /\ half(top, bottom) \in Int
  BY <1>1, <1>2
<1> QED
  BY <1>3, <1>4

(* A mass is sent when it differs from the one before: one step per action. *)
LEMMA ShownStep == WeigherInv /\ ShownIsMass /\ [Next]_vars => ShownIsMass'
<1> SUFFICES ASSUME FilterKept, NumbersKept, ShownIsMass, [Next]_vars PROVE ShownIsMass'
  BY DEF WeigherInv
<1>1. CASE UNCHANGED vars
  BY <1>1 DEF ShownIsMass, vars, inputs, values
<1>2. ASSUME NEW c, Press(c) \/ Release(c) PROVE ShownIsMass'
  BY <1>2 DEF Press, Release, ShownIsMass, inputs, values
<1>3. ASSUME NEW r, SetRatio(r) PROVE ShownIsMass'
  BY <1>3 DEF SetRatio, ShownIsMass, inputs, values
<1>4. ASSUME NEW v, Measure(v) PROVE ShownIsMass'
  BY <1>4 DEF Measure, ShownIsMass, values
<1>5. CASE ZeroCalibrate \/ Calibrate
  BY <1>5 DEF ZeroCalibrate, Calibrate, ShownIsMass, inputs, values
<1>6. CASE Weigh
  <2>1. reading'.full \in Int
    <3>1. reading'.full = (calibration - (zero + tare)) * ratio
      BY <1>6 DEF Weigh, Reading
    <3>2. ratio \in Nat /\ calibration \in Int /\ zero \in Int /\ tare \in Int
      BY ThisTerminal DEF FilterKept, NumbersKept
    <3> QED
      BY <3>1, <3>2
  <2> QED
    BY <1>6, <2>1 DEF Weigh, ShownIsMass, inputs, values
<1>7. CASE SendMass
  <2>1. terminal' = terminal /\ reading' = reading /\ terminal.mode = "scale"
    BY <1>7 DEF SendMass, inputs
  <2>2. CASE reading.full = 0 \/ Mass(reading) = mass
    <3>1. UNCHANGED values
      BY <1>7, <2>2 DEF SendMass, Publish
    <3> QED
      BY <2>1, <3>1 DEF ShownIsMass, values
  <2>3. CASE reading.full # 0 /\ Mass(reading) # mass
    <3>1. mass' = Mass(reading) /\ sent' = Mass(reading)
      BY <1>7, <2>3 DEF SendMass, Publish
    <3>2. reading.of * Load \in Int /\ reading.full \in Int
      BY ConfigAssumption DEF NumbersKept, ShownIsMass
    <3>3. Mass(reading) \in Int
      BY <2>3, <3>2, RoundedNumber DEF Mass
    <3>4. Mass(reading) # None
      BY <3>3, ConfigAssumption
    <3> QED
      BY <2>1, <3>1, <3>3, <3>4 DEF ShownIsMass
  <2> QED
    BY <2>2, <2>3
<1>8. CASE SendShare
  BY <1>8 DEF SendShare, ShownIsMass, inputs
<1> QED
  BY <1>1, <1>2, <1>3, <1>4, <1>5, <1>6, <1>7, <1>8 DEF Next, Process

(* What a scale last sent is the mass it compares the next one with, so  *)
(* that a mass is not sent only if it is the one that is shown.          *)
THEOREM ScaleShowsItsMass == Spec => []ShownIsMass
<1>1. Init => ShownIsMass
  BY DEF Init, ShownIsMass
<1> QED
  BY <1>1, ShownStep, WeigherInvariant, PTL DEF Spec, Safety

-----------------------------------------------------------------------------
(* The last value of either kind; before the first one nothing counts as a*)
(* mass of 0 and a share of 1.                                             *)
ShownMass  == IF sent = None THEN 0 ELSE sent
ShownShare == IF sent = None THEN [of |-> 1, full |-> 1] ELSE sent

(* What a reference compares the next share with is the one it shows.      *)
ShareIsShown ==
  /\ reading \in [of : Int, full : Int]
  /\ terminal.mode = "reference" => share = ShownShare

(* A cycle ends with the mass of its reading shown, or with a share that is*)
(* less than 0.001 away, whatever was shown before and changed meanwhile.  *)
CyclesShowTheirReading ==
  [][pc = "send" /\ pc' = "idle" =>
       /\ terminal.mode = "scale" /\ reading.full # 0 => ShownMass' = Mass(reading)
       /\ terminal.mode = "reference" /\ reading.full # 0 /\ InBounds(Positive(reading)) =>
            ~Differ(Positive(reading), ShownShare')]_vars

(* A share does not differ from itself.                                    *)
LEMMA SameDoesNotDiffer ==
  ASSUME NEW p \in [of : Int, full : Int]
  PROVE  ~Differ(p, p)
<1>1. p.full \in Int /\ p.of \in Int
  OBVIOUS
<1>2. p.of * p.full - p.of * p.full = 0
  BY <1>1
<1>3. p.full * p.full >= 0
  BY <1>1
<1>4. p.full * p.full \in Int
  BY <1>1
<1> QED
  BY <1>2, <1>3, <1>4 DEF Differ

(* A reading with the sign changed is one, too.                            *)
LEMMA PositiveIsShare ==
  ASSUME NEW r \in [of : Int, full : Int]
  PROVE  Positive(r) \in [of : Int, full : Int] /\ Positive(r) # None
<1>1. Positive(r) \in [of : Int, full : Int]
  BY DEF Positive
<1> QED
  BY <1>1, ConfigAssumption

(* What a reference does with a share.                                     *)
LEMMA ShareSent ==
  ASSUME ShareIsShown, SendShare
  PROVE  /\ share' = ShownShare'
         /\ reading.full # 0 /\ InBounds(Positive(reading)) =>
              ~Differ(Positive(reading), ShownShare')
<1> DEFINE p == Positive(reading)
<1>1. p \in [of : Int, full : Int] /\ p # None /\ share = ShownShare
  BY PositiveIsShare DEF ShareIsShown, SendShare
<1>2. ~Differ(p, p)
  BY <1>1, SameDoesNotDiffer
<1> HIDE DEF p
<1>3. CASE reading.full # 0 /\ InBounds(p) /\ Differ(p, share)
  <2>1. share' = p /\ sent' = p
    BY <1>3 DEF SendShare, ShareAfter, p
  <2> QED
    BY <2>1, <1>1, <1>2 DEF ShownShare, p
<1>4. CASE ~(reading.full # 0 /\ InBounds(p) /\ Differ(p, share))
  <2>1. share' = share /\ sent' = sent
    BY <1>4 DEF SendShare, ShareAfter, p
  <2> QED
    BY <2>1, <1>1, <1>4 DEF ShownShare, p
<1> QED
  BY <1>3, <1>4

(* Only SendShare sends a share: one step per action.                      *)
LEMMA ShareStep == WeigherInv /\ ShareIsShown /\ [Next]_vars => ShareIsShown'
<1> SUFFICES ASSUME FilterKept, NumbersKept, ShareIsShown, [Next]_vars PROVE ShareIsShown'
  BY DEF WeigherInv
<1>1. CASE UNCHANGED <<terminal, reading, share, sent>>
  BY <1>1 DEF ShareIsShown, ShownShare
<1>2. CASE Weigh
  <2>1. reading' = Reading(signal) /\ UNCHANGED <<terminal, share, sent>>
    BY <1>2 DEF Weigh, inputs, values
  <2>2. ratio \in Int /\ calibration \in Int /\ zero \in Int /\ tare \in Int
    BY ThisTerminal DEF FilterKept, NumbersKept
  <2>3. Reading(signal).full \in Int
    BY <2>2 DEF Reading
  <2>4. Reading(signal).of \in Int
    BY <2>1, NumbersStep DEF WeigherInv, NumbersKept
  <2>5. Reading(signal) \in [of : Int, full : Int]
    BY <2>3, <2>4 DEF Reading
  <2> QED
    BY <2>1, <2>5 DEF ShareIsShown, ShownShare
<1>3. CASE SendMass
  BY <1>3 DEF SendMass, inputs, ShareIsShown
<1>4. CASE SendShare
  BY <1>4, ShareSent DEF SendShare, inputs, ShareIsShown
<1> QED
  BY <1>1, <1>2, <1>3, <1>4 DEF Next, Process, vars, inputs, values, Press, Release, SetRatio,
     Measure, ZeroCalibrate, Calibrate

(* The safety core of ShowsMass and ShareFollows: what is shown never stays*)
(* behind the reading of a cycle that is over, however small the steps it  *)
(* was reached in.                                                         *)
THEOREM CyclesShow == Spec => CyclesShowTheirReading
<1>1. Init => ShareIsShown
  BY DEF Init, ShareIsShown, ShownShare
<1>2. Spec => []ShareIsShown
  BY <1>1, ShareStep, WeigherInvariant, PTL DEF Spec, Safety
<1>3. ShownIsMass /\ ShareIsShown /\ [Next]_vars =>
        [pc = "send" /\ pc' = "idle" =>
           /\ terminal.mode = "scale" /\ reading.full # 0 => ShownMass' = Mass(reading)
           /\ terminal.mode = "reference" /\ reading.full # 0 /\ InBounds(Positive(reading)) =>
                ~Differ(Positive(reading), ShownShare')]_vars
  <2> SUFFICES ASSUME ShownIsMass, ShareIsShown, Next, pc = "send", pc' = "idle"
               PROVE  /\ terminal.mode = "scale" /\ reading.full # 0 => ShownMass' = Mass(reading)
                      /\ terminal.mode = "reference" /\ reading.full # 0
                           /\ InBounds(Positive(reading)) =>
                             ~Differ(Positive(reading), ShownShare')
    OBVIOUS
  <2>1. SendMass \/ SendShare
    BY DEF Next, Process, Press, Release, SetRatio, Measure, ZeroCalibrate, Calibrate, Weigh
  <2>2. CASE SendShare
    BY <2>2, ShareSent DEF SendShare
  <2>3. CASE SendMass
    <3>1. CASE reading.full = 0
      BY <2>3, <3>1 DEF SendMass
    <3>2. CASE reading.full # 0 /\ Mass(reading) = mass
      BY <2>3, <3>2 DEF SendMass, Publish, values, ShownIsMass, ShownMass
    <3>3. CASE reading.full # 0 /\ Mass(reading) # mass
      <4>1. sent' = Mass(reading)
        BY <2>3, <3>3 DEF SendMass, Publish
      <4>2. reading.of * Load \in Int /\ reading.full \in Int
        BY ConfigAssumption DEF ShareIsShown
      <4>3. Mass(reading) \in Int
        BY <3>3, <4>2, RoundedNumber DEF Mass
      <4>4. Mass(reading) # None
        BY <4>3, ConfigAssumption
      <4> QED
        BY <2>3, <4>1, <4>4 DEF SendMass, ShownMass
    <3> QED
      BY <3>1, <3>2, <3>3
  <2> QED
    BY <2>1, <2>2, <2>3
<1> QED
  BY <1>2, <1>3, ScaleShowsItsMass, PTL DEF Spec, Safety, CyclesShowTheirReading
=============================================================================
