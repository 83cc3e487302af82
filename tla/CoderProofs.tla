---------------------------- MODULE CoderProofs ----------------------------
(***************************************************************************)
(* Facts about the adaptive tables and the range coder, for every base,    *)
(* width, capacity and word.                                               *)
(*                                                                         *)
(* Tables: a Fenwick tree answers the prefix sums of its counts through    *)
(* any additions and, modulo Word, subtractions; the search finds the one  *)
(* symbol whose part of the line holds a value; a row keeps its counts,    *)
(* tree and total in step, and an update, a growth and their undoing       *)
(* cancel.                                                                 *)
(*                                                                         *)
(* Coder: the digits written, the digits held back and low together stand  *)
(* for one number.  A shift appends a place to it and changes nothing      *)
(* else, carries included; a symbol narrows the interval above it; a flush *)
(* writes it out; and a decoder whose value lies in the interval of a      *)
(* symbol follows the coder to the next one.                               *)
(*                                                                         *)
(* The loops of the model are recursive functions on 0 .. n.  Each of them *)
(* gets a lemma that there is a function that runs through the loop, and   *)
(* induction is stated over sets of numbers.                               *)
(***************************************************************************)
EXTENDS CountTable, RangeCoder, TLAPS, WellFoundedInduction, FiniteSetTheorems


----------------------------------------------------------------------------
(* Induction over sets of numbers, and the functions that recursive        *)
(* definitions choose.                                                     *)

\* A nonempty set of numbers has a least element.
LEMMA LeastNumber ==
  ASSUME NEW S \in SUBSET Nat, S # {}
  PROVE  \E n \in S : \A m \in S : n <= m
<1> DEFINE R == OpToRel(<, Nat)
<1>1. IsWellFoundedOn(R, Nat)
  BY NatLessThanWellFounded
<1>2. \A m, n \in Nat : m < n => <<m, n>> \in R
  BY DEF OpToRel
<1> HIDE DEF R
<1>3. PICK n \in S : \A m \in S : ~(<<m, n>> \in R)
  BY <1>1, WFMin, Zenon
<1>4. \A m \in S : ~(m < n)
  BY <1>2, <1>3
<1> QED
  BY <1>3, <1>4, SMT

\* Strong induction over the numbers.
LEMMA StrongInduction ==
  ASSUME NEW S, \A n \in Nat : (\A m \in 0 .. n - 1 : m \in S) => n \in S
  PROVE  \A n \in Nat : n \in S
<1> DEFINE T == Nat \ S
<1>1. SUFFICES ASSUME T # {} PROVE FALSE
  OBVIOUS
<1>2. PICK n \in T : \A m \in T : n <= m
  BY <1>1, LeastNumber, Zenon
<1>3. \A m \in 0 .. n - 1 : m \in S
  BY <1>2
<1> QED
  BY <1>2, <1>3

\* Induction up to a bound.
LEMMA InductionUpTo ==
  ASSUME NEW N \in Nat, NEW S, 0 \in S, \A n \in 0 .. N - 1 : n \in S => n + 1 \in S
  PROVE  \A n \in 0 .. N : n \in S
<1> DEFINE T == {n \in Nat : n <= N => n \in S}
<1>1. ASSUME NEW n \in Nat, \A m \in 0 .. n - 1 : m \in T PROVE n \in T
  <2>1. CASE n = 0
    BY <2>1
  <2>2. CASE n # 0
    <3>1. n - 1 \in T
      BY <1>1, <2>2
    <3>2. n <= N => n - 1 \in 0 .. N - 1 /\ n - 1 \in S /\ n = (n - 1) + 1
      BY <2>2, <3>1
    <3> QED
      BY <3>2
  <2> QED
    BY <2>1, <2>2
<1>2. \A n \in Nat : n \in T
  <2> HIDE DEF T
  <2> QED
    BY <1>1, StrongInduction
<1> QED
  BY <1>2

\* A recursion on X: where it starts, the step from the value at one smaller number, and
\* which one.
Recursion(X, x0, st, p) ==
  /\ x0 \in X /\ st \in [Nat -> [X -> X]]
  /\ p \in [Nat -> Nat] /\ \A n \in Nat \ {0} : p[n] < n

Solves(f, X, x0, st, p) ==
  f \in [Nat -> X] /\ f[0] = x0 /\ \A n \in Nat \ {0} : f[n] = st[n][f[p[n]]]

\* It has a solution.
LEMMA Descending ==
  ASSUME NEW X, NEW x0, NEW st, NEW p, Recursion(X, x0, st, p)
  PROVE  \E f : Solves(f, X, x0, st, p)
<1> USE DEF Recursion
<1> DEFINE G(g, n) == /\ g \in [0 .. n -> X] /\ g[0] = x0
                      /\ \A m \in 1 .. n : g[m] = st[m][g[p[m]]]
<1>0. \A n \in Nat \ {0} : p[n] \in 0 .. n - 1
  OBVIOUS
<1>1. ASSUME NEW a \in Nat, NEW b \in Nat, NEW g, NEW h, G(g, a), G(h, b)
      PROVE  \A k \in Nat : k <= a /\ k <= b => g[k] = h[k]
  <2> DEFINE S == {k \in Nat : k <= a /\ k <= b => g[k] = h[k]}
  <2>1. ASSUME NEW k \in Nat, \A m \in 0 .. k - 1 : m \in S PROVE k \in S
    <3>1. SUFFICES ASSUME k <= a, k <= b PROVE g[k] = h[k]
      OBVIOUS
    <3>2. CASE k = 0
      <4>1. g[0] = x0 /\ h[0] = x0
        BY <1>1
      <4> QED
        BY <3>2, <4>1
    <3>3. CASE k # 0
      <4>1. p[k] \in 0 .. k - 1
        BY <1>0, <3>3
      <4>2. p[k] \in Nat /\ p[k] <= a /\ p[k] <= b /\ p[k] \in S
        BY <2>1, <3>1, <4>1
      <4>3. g[p[k]] = h[p[k]]
        BY <4>2
      <4>4. k \in 1 .. a /\ k \in 1 .. b
        BY <3>1, <3>3
      <4>5. \A m \in 1 .. a : g[m] = st[m][g[p[m]]]
        BY <1>1
      <4>6. \A m \in 1 .. b : h[m] = st[m][h[p[m]]]
        BY <1>1
      <4> QED
        BY <4>3, <4>4, <4>5, <4>6
    <3> QED
      BY <3>2, <3>3
  <2> HIDE DEF S
  <2>2. \A k \in Nat : k \in S
    BY <2>1, StrongInduction
  <2> QED
    BY <2>2 DEF S
<1>2. \A n \in Nat : \E g : G(g, n)
  <2> DEFINE S == {n \in Nat : \E g : G(g, n)}
  <2>1. ASSUME NEW n \in Nat, \A m \in 0 .. n - 1 : m \in S PROVE n \in S
    <3>1. CASE n = 0
      <4>1. G([m \in 0 .. 0 |-> x0], 0)
        OBVIOUS
      <4> QED
        BY <3>1, <4>1
    <3>2. CASE n # 0
      <4>1. n - 1 \in 0 .. n - 1
        BY <3>2
      <4>2. PICK g : G(g, n - 1)
        BY <2>1, <4>1
      <4>3. p[n] \in 0 .. n - 1
        BY <1>0, <3>2
      <4>4. g \in [0 .. n - 1 -> X] /\ g[p[n]] \in X
        BY <4>2, <4>3
      <4> DEFINE v == st[n][g[p[n]]]
      <4>5. v \in X
        BY <4>4
      <4> HIDE DEF v
      <4> DEFINE h == [m \in 0 .. n |-> IF m = n THEN v ELSE g[m]]
      <4>6. h \in [0 .. n -> X]
        BY <4>4, <4>5
      <4>7. \A m \in 0 .. n - 1 : h[m] = g[m]
        BY <4>6
      <4>8. h[n] = v
        OBVIOUS
      <4> HIDE DEF h
      <4>9. h[0] = x0
        BY <3>2, <4>2, <4>7
      <4>10. \A m \in 1 .. n : h[m] = st[m][h[p[m]]]
        <5> TAKE m \in 1 .. n
        <5>1. CASE m = n
          <6>1. h[p[m]] = g[p[m]]
            BY <4>3, <4>7, <5>1
          <6> QED
            BY <4>8, <5>1, <6>1 DEF v
        <5>2. CASE m # n
          <6>1. p[m] \in 0 .. m - 1 /\ m \in 1 .. n - 1
            BY <1>0, <5>2
          <6>2. h[p[m]] = g[p[m]] /\ h[m] = g[m]
            BY <4>7, <6>1
          <6>3. g[m] = st[m][g[p[m]]]
            BY <4>2, <6>1
          <6> QED
            BY <6>2, <6>3
        <5> QED
          BY <5>1, <5>2
      <4>11. G(h, n)
        BY <4>6, <4>9, <4>10
      <4> QED
        BY <4>11
    <3> QED
      BY <3>1, <3>2
  <2> HIDE DEF S
  <2>2. \A n \in Nat : n \in S
    BY <2>1, StrongInduction
  <2> QED
    BY <2>2 DEF S
<1> DEFINE upto(n) == CHOOSE g : G(g, n)
           f == [n \in Nat |-> upto(n)[n]]
<1>3. \A n \in Nat : G(upto(n), n)
  BY <1>2
<1>4. \A a, b \in Nat : \A k \in Nat : k <= a /\ k <= b => upto(a)[k] = upto(b)[k]
  <2> TAKE a, b \in Nat
  <2>1. G(upto(a), a) /\ G(upto(b), b)
    BY <1>3
  <2> HIDE DEF upto, G
  <2> QED
    BY <1>1, <2>1
<1> HIDE DEF upto
<1>5. f \in [Nat -> X] /\ f[0] = x0
  BY <1>3
<1>6. ASSUME NEW n \in Nat \ {0} PROVE f[n] = st[n][f[p[n]]]
  <2>1. p[n] \in 0 .. n - 1 /\ p[n] \in Nat
    BY <1>0
  <2>2. upto(n)[p[n]] = upto(p[n])[p[n]]
    BY <1>4, <2>1
  <2>3. f[n] = upto(n)[n] /\ f[p[n]] = upto(p[n])[p[n]]
    BY <2>1
  <2>4. upto(n)[n] = st[n][upto(n)[p[n]]]
    BY <1>3
  <2> QED
    BY <2>2, <2>3, <2>4
<1> HIDE DEF f
<1>7. Solves(f, X, x0, st, p)
  BY <1>5, <1>6 DEF Solves
<1> QED
  BY <1>7

\* A loop on X of N turns, and the states it runs through.
Loop(N, X, x0, st) == N \in Nat /\ x0 \in X /\ st \in [1 .. N -> [X -> X]]

Turns(f, N, X, x0, st) ==
  f \in [0 .. N -> X] /\ f[0] = x0 /\ \A k \in 1 .. N : f[k] = st[k][f[k - 1]]

\* It runs.
LEMMA Looping ==
  ASSUME NEW N, NEW X, NEW x0, NEW st, Loop(N, X, x0, st)
  PROVE  \E f : Turns(f, N, X, x0, st)
<1> USE DEF Loop
<1> DEFINE same == [x \in X |-> x]
           st2 == [n \in Nat |-> IF n \in 1 .. N THEN st[n] ELSE same]
           p == [n \in Nat |-> IF n = 0 THEN 0 ELSE n - 1]
<1>1. st2 \in [Nat -> [X -> X]]
  <2>1. same \in [X -> X]
    OBVIOUS
  <2> HIDE DEF same
  <2> QED
    BY <2>1
<1>2. p \in [Nat -> Nat] /\ \A n \in Nat \ {0} : p[n] < n /\ p[n] = n - 1
  OBVIOUS
<1>3. \A n \in 1 .. N : st2[n] = st[n]
  OBVIOUS
<1> HIDE DEF st2, p
<1>4. PICK f : Solves(f, X, x0, st2, p)
  <2>1. Recursion(X, x0, st2, p)
    BY <1>1, <1>2 DEF Recursion
  <2> QED
    BY <2>1, Descending
<1> DEFINE h == [k \in 0 .. N |-> f[k]]
<1>5. h \in [0 .. N -> X] /\ h[0] = x0
  BY <1>4 DEF Solves
<1>6. ASSUME NEW k \in 1 .. N PROVE h[k] = st[k][h[k - 1]]
  <2>1. k - 1 \in 0 .. N /\ k \in Nat \ {0} /\ k \in 0 .. N
    OBVIOUS
  <2>2. f[k] = st2[k][f[k - 1]]
    BY <1>2, <1>4, <2>1 DEF Solves
  <2>3. h[k] = f[k] /\ h[k - 1] = f[k - 1]
    BY <2>1
  <2> QED
    BY <1>3, <2>2, <2>3
<1> HIDE DEF h
<1>7. Turns(h, N, X, x0, st)
  BY <1>5, <1>6 DEF Turns
<1> QED
  BY <1>7

----------------------------------------------------------------------------
(* The lowest set bit, and the nodes an update climbs through.             *)

\* Halving: an even number has twice the lowest bit of its half.
LEMMA LowBitFacts ==
  \A i \in Nat \ {0} :
    /\ LowBit[i] = IF i % 2 = 1 THEN 1 ELSE 2 * LowBit[i \div 2]
    /\ LowBit[i] \in 1 .. i
<1> DEFINE X == Nat \ {0}
           st == [n \in Nat |-> [x \in X |-> IF n % 2 = 1 THEN 1 ELSE 2 * x]]
           p == [n \in Nat |-> n \div 2]
           G(f) == f = [i \in X |-> IF i % 2 = 1 THEN 1 ELSE 2 * f[i \div 2]]
<1>1. st \in [Nat -> [X -> X]]
  <2>1. \A x \in X : 2 * x \in X /\ 1 \in X
    OBVIOUS
  <2> HIDE DEF X
  <2> QED
    BY <2>1
<1>2. \A n \in Nat, x \in X : st[n][x] = IF n % 2 = 1 THEN 1 ELSE 2 * x
  OBVIOUS
<1>3. p \in [Nat -> Nat] /\ \A n \in Nat : p[n] = n \div 2
  OBVIOUS
<1>4. Recursion(X, 1, st, p)
  <2>1. \A n \in Nat \ {0} : p[n] < n
    BY <1>3
  <2> QED
    BY <1>1, <1>3, <2>1 DEF Recursion
<1> HIDE DEF st, p
<1>5. PICK f : Solves(f, X, 1, st, p)
  BY <1>4, Descending
<1> DEFINE g == [i \in X |-> f[i]]
<1>6. \A i \in X : g[i] \in X /\ g[i] = IF i % 2 = 1 THEN 1 ELSE 2 * g[i \div 2]
  <2> TAKE i \in X
  <2>1. f[i] = st[i][f[i \div 2]] /\ f[i \div 2] \in X /\ f[i] \in X
    BY <1>3, <1>5 DEF Solves
  <2>2. f[i] = IF i % 2 = 1 THEN 1 ELSE 2 * f[i \div 2]
    BY <1>2, <2>1
  <2>3. i % 2 # 1 => i \div 2 \in X
    OBVIOUS
  <2> QED
    BY <2>1, <2>2, <2>3
<1>7. g = [i \in X |-> g[i]]
  OBVIOUS
<1> HIDE DEF g
<1>8. G(g)
  BY <1>6, <1>7
<1>9. G(LowBit)
  BY <1>8 DEF LowBit
<1>10. \A i \in X : LowBit[i] = IF i % 2 = 1 THEN 1 ELSE 2 * LowBit[i \div 2]
  BY <1>9
<1> DEFINE S == {i \in Nat : i # 0 => LowBit[i] \in 1 .. i}
<1>11. ASSUME NEW i \in Nat, \A j \in 0 .. i - 1 : j \in S PROVE i \in S
  <2>1. SUFFICES ASSUME i # 0 PROVE LowBit[i] \in 1 .. i
    OBVIOUS
  <2>2. CASE i % 2 = 1
    BY <1>10, <2>1, <2>2
  <2>3. CASE i % 2 # 1
    <3>1. i \div 2 \in 1 .. i - 1 /\ 2 * (i \div 2) = i
      BY <2>1, <2>3
    <3>2. LowBit[i \div 2] \in 1 .. i \div 2
      BY <1>11, <3>1
    <3>3. LowBit[i] = 2 * LowBit[i \div 2]
      BY <1>10, <2>1, <2>3
    <3> QED
      BY <3>1, <3>2, <3>3
  <2> QED
    BY <2>2, <2>3
<1> HIDE DEF S
<1>12. \A i \in Nat : i \in S
  BY <1>11, StrongInduction
<1> QED
  BY <1>10, <1>12 DEF S

\* Between a number and its sum with its lowest bit, bits are lower still.
LEMMA LowBitBetween ==
  \A j \in Nat \ {0} : \A r \in Nat : 0 < r /\ r < LowBit[j] => LowBit[j + r] <= r
<1> DEFINE S == {j \in Nat : j # 0 => \A r \in Nat : 0 < r /\ r < LowBit[j] => LowBit[j + r] <= r}
<1>1. ASSUME NEW j \in Nat, \A k \in 0 .. j - 1 : k \in S PROVE j \in S
  <2>1. SUFFICES ASSUME j # 0, NEW r \in Nat, 0 < r, r < LowBit[j] PROVE LowBit[j + r] <= r
    OBVIOUS
  <2>2. j % 2 # 1 /\ LowBit[j] = 2 * LowBit[j \div 2] /\ LowBit[j \div 2] \in Nat
    BY <2>1, LowBitFacts
  <2>3. j \div 2 \in 1 .. j - 1
    BY <2>1, <2>2
  <2>4. CASE r % 2 = 1
    <3>1. (j + r) % 2 = 1
      BY <2>2, <2>4
    <3> QED
      BY <2>1, <3>1, LowBitFacts
  <2>5. CASE r % 2 # 1
    <3>1. (j + r) % 2 # 1 /\ (j + r) \div 2 = j \div 2 + r \div 2
      BY <2>2, <2>5
    <3>2. r \div 2 \in Nat /\ 0 < r \div 2 /\ r \div 2 < LowBit[j \div 2] /\ 2 * (r \div 2) = r
      BY <2>1, <2>2, <2>5
    <3>3. LowBit[j \div 2 + r \div 2] <= r \div 2
      BY <1>1, <2>3, <3>2
    <3>4. LowBit[j + r] = 2 * LowBit[j \div 2 + r \div 2]
      <4>1. PICK i \in Nat \ {0} : i = j + r
        BY <2>1
      <4>2. LowBit[i] = 2 * LowBit[i \div 2]
        BY <3>1, <4>1, LowBitFacts
      <4> QED
        BY <3>1, <4>1, <4>2
    <3>5. LowBit[j \div 2 + r \div 2] \in Nat
      BY <2>3, <3>2, LowBitFacts
    <3> QED
      BY <3>2, <3>3, <3>4, <3>5
  <2> QED
    BY <2>4, <2>5
<1> HIDE DEF S
<1>2. \A j \in Nat : j \in S
  BY <1>1, StrongInduction
<1> QED
  BY <1>2 DEF S

\* From there on, no node's range begins in between.
LEMMA LowBitBeyond ==
  \A j, i \in Nat \ {0} :
    i >= j + LowBit[j] => i - LowBit[i] < j \/ i - LowBit[i] >= j + LowBit[j]
<1> DEFINE S == {j \in Nat : j # 0 => \A i \in Nat \ {0} : i >= j + LowBit[j] =>
                               i - LowBit[i] < j \/ i - LowBit[i] >= j + LowBit[j]}
<1>1. ASSUME NEW j \in Nat, \A k \in 0 .. j - 1 : k \in S PROVE j \in S
  <2>1. SUFFICES ASSUME j # 0, NEW i \in Nat \ {0}, i >= j + LowBit[j]
                 PROVE  i - LowBit[i] < j \/ i - LowBit[i] >= j + LowBit[j]
    OBVIOUS
  <2>2. LowBit[i] = (IF i % 2 = 1 THEN 1 ELSE 2 * LowBit[i \div 2]) /\ LowBit[i] \in 1 .. i
    BY LowBitFacts
  <2>3. LowBit[j] = (IF j % 2 = 1 THEN 1 ELSE 2 * LowBit[j \div 2]) /\ LowBit[j] \in 1 .. j
    BY <2>1, LowBitFacts
  <2>4. i % 2 # 1 => i \div 2 \in Nat \ {0} /\ LowBit[i \div 2] \in 1 .. i \div 2
    BY <2>1, LowBitFacts
  <2>5. j % 2 # 1 => j \div 2 \in 1 .. j - 1 /\ LowBit[j \div 2] \in 1 .. j \div 2
    BY <2>1, LowBitFacts
  <2>6. CASE j % 2 = 1
    BY <2>1, <2>2, <2>3, <2>4, <2>6
  <2>7. CASE j % 2 # 1 /\ i % 2 = 1
    BY <2>1, <2>2, <2>3, <2>5, <2>7
  <2>8. CASE j % 2 # 1 /\ i % 2 # 1
    <3>1. j = 2 * (j \div 2) /\ i = 2 * (i \div 2)
      BY <2>1, <2>8
    <3>2. i \div 2 >= j \div 2 + LowBit[j \div 2]
      BY <2>1, <2>3, <2>5, <2>8, <3>1
    <3>3. i \div 2 - LowBit[i \div 2] < j \div 2 \/ i \div 2 - LowBit[i \div 2] >= j \div 2 + LowBit[j \div 2]
      BY <1>1, <2>4, <2>5, <2>8, <3>2
    <3> QED
      BY <2>2, <2>3, <2>4, <2>5, <2>8, <3>1, <3>3
  <2> QED
    BY <2>6, <2>7, <2>8
<1> HIDE DEF S
<1>2. \A j \in Nat : j \in S
  BY <1>1, StrongInduction
<1> QED
  BY <1>2 DEF S

\* The nodes an update of symbol idx climbs through are those whose range holds it.
ClimbOK(up, n) ==
  /\ DOMAIN up = 1 .. 2 * n
  /\ \A j \in 1 .. 2 * n : up[j] = IF j > n THEN {} ELSE {j} \cup up[j + LowBit[j]]

\* The path from a node, one climb at a time.
LEMMA ClimbDef ==
  ASSUME NEW n \in Nat
  PROVE  ClimbOK(Climb(n), n)
<1> DEFINE X == SUBSET Nat
           M == 2 * n + 1
           st == [k \in Nat |-> [x \in X |-> IF k <= n \/ k > 2 * n THEN {} ELSE {M - k} \cup x]]
           p == [k \in Nat |-> IF k <= n \/ k > 2 * n THEN 0 ELSE k - LowBit[M - k]]
           G(f) == f = [i \in 1 .. 2 * n |-> IF i > n THEN {} ELSE {i} \cup f[i + LowBit[i]]]
<1>1. st \in [Nat -> [X -> X]]
  <2>1. \A k \in Nat, x \in X : ~(k <= n \/ k > 2 * n) => {M - k} \cup x \in X
    OBVIOUS
  <2>2. {} \in X
    OBVIOUS
  <2> HIDE DEF X, M
  <2> QED
    BY <2>1, <2>2
<1>2. \A k \in Nat, x \in X : st[k][x] = IF k <= n \/ k > 2 * n THEN {} ELSE {M - k} \cup x
  OBVIOUS
<1>3. \A k \in Nat : /\ k <= n \/ k > 2 * n => p[k] = 0
                     /\ ~(k <= n \/ k > 2 * n) => p[k] = k - LowBit[M - k]
  OBVIOUS
<1>4. \A k \in Nat : ~(k <= n \/ k > 2 * n) => M - k \in 1 .. n /\ LowBit[M - k] \in 1 .. M - k
  BY LowBitFacts
<1>5. \A k \in Nat : p[k] \in Nat /\ (k # 0 => p[k] < k)
  BY <1>3, <1>4
<1>6. p \in [Nat -> Nat]
  BY <1>5
<1> HIDE DEF st, p
<1>7. Recursion(X, {}, st, p)
  BY <1>1, <1>5, <1>6 DEF Recursion
<1>8. PICK f : Solves(f, X, {}, st, p)
  BY <1>7, Descending
<1> DEFINE g == [i \in 1 .. 2 * n |-> f[M - i]]
<1>9. \A i \in 1 .. 2 * n : g[i] = IF i > n THEN {} ELSE {i} \cup g[i + LowBit[i]]
  <2> TAKE i \in 1 .. 2 * n
  <2>1. PICK k \in Nat \ {0} : k = M - i
    OBVIOUS
  <2>2. f[k] = st[k][f[p[k]]] /\ f[p[k]] \in X
    BY <1>5, <1>8 DEF Solves
  <2> HIDE DEF X
  <2>a. f[k] = IF k <= n \/ k > 2 * n THEN {} ELSE {M - k} \cup f[p[k]]
    BY <1>2, <2>2
  <2>b. g[i] = f[k]
    BY <2>1
  <2> HIDE DEF g
  <2>3. CASE i > n
    <3>1. k <= n
      BY <2>1, <2>3
    <3> QED
      BY <2>3, <2>a, <2>b, <3>1
  <2>4. CASE i <= n
    <3>1. ~(k <= n \/ k > 2 * n) /\ M - k = i
      BY <2>1, <2>4
    <3>2. p[k] = k - LowBit[i] /\ LowBit[i] \in 1 .. i
      BY <1>3, <1>4, <3>1
    <3>3. f[k] = {i} \cup f[k - LowBit[i]]
      BY <2>a, <3>1, <3>2
    <3>4. i + LowBit[i] \in 1 .. 2 * n /\ M - (i + LowBit[i]) = k - LowBit[i]
      BY <2>1, <2>4, <3>2
    <3>5. g[i + LowBit[i]] = f[k - LowBit[i]]
      BY <2>1, <3>4 DEF g
    <3> QED
      BY <2>4, <2>b, <3>3, <3>5
  <2> QED
    BY <2>3, <2>4
<1>10. g = [i \in 1 .. 2 * n |-> g[i]]
  OBVIOUS
<1> HIDE DEF g
<1>11. G(g)
  BY <1>9, <1>10
<1>12. G(Climb(n))
  BY <1>11 DEF Climb
<1> QED
  BY <1>12 DEF ClimbOK

\* They are the nodes whose range holds the symbol.
LEMMA ClimbFacts ==
  ASSUME NEW n \in Nat, NEW s \in 0 .. n - 1
  PROVE  Climb(n)[s + 1] = {i \in 1 .. n : i - LowBit[i] <= s /\ s < i}
<1> DEFINE up == Climb(n)
           H(j) == {i \in j .. n : i - LowBit[i] < j}
           S == {k \in Nat : k < 2 * n => up[2 * n - k] = H(2 * n - k)}
<1>1. \A j \in 1 .. 2 * n : up[j] = IF j > n THEN {} ELSE {j} \cup up[j + LowBit[j]]
  BY ClimbDef DEF ClimbOK
<1> HIDE DEF up
<1>2. ASSUME NEW k \in Nat, \A m \in 0 .. k - 1 : m \in S PROVE k \in S
  <2>1. SUFFICES ASSUME k < 2 * n PROVE up[2 * n - k] = H(2 * n - k)
    OBVIOUS
  <2>2. PICK j \in 1 .. 2 * n : j = 2 * n - k
    BY <2>1
  <2>3. CASE j > n
    <3>1. H(j) = {}
      BY <2>3
    <3> QED
      BY <1>1, <2>2, <2>3, <3>1
  <2>4. CASE j <= n
    <3>1. LowBit[j] \in 1 .. j
      BY LowBitFacts
    <3>2. PICK j2 \in 1 .. 2 * n : j2 = j + LowBit[j]
      BY <2>4, <3>1
    <3>3. k - LowBit[j] \in 0 .. k - 1 /\ 2 * n - (k - LowBit[j]) = j2
      BY <2>2, <2>4, <3>1, <3>2
    <3>4. up[j2] = H(j2)
      BY <1>2, <3>1, <3>2, <3>3
    <3>5. H(j) = {j} \cup H(j2)
      <4>1. ASSUME NEW i \in j .. n, i # j PROVE i - LowBit[i] < j <=> i >= j2 /\ i - LowBit[i] < j2
        <5>1. LowBit[i] \in 1 .. i /\ i \in Nat \ {0} /\ j \in Nat \ {0}
          BY LowBitFacts
        <5>2. CASE i >= j2
          BY <3>1, <3>2, <5>1, <5>2, LowBitBeyond
        <5>3. CASE i < j2
          <6>1. PICK r \in Nat : r = i - j
            OBVIOUS
          <6>2. 0 < r /\ r < LowBit[j] /\ j + r = i
            BY <3>1, <3>2, <4>1, <5>3, <6>1
          <6>3. LowBit[j + r] <= r
            BY <5>1, <6>2, LowBitBetween
          <6> QED
            BY <5>1, <5>3, <6>1, <6>2, <6>3
        <5> QED
          BY <3>2, <5>2, <5>3
      <4>2. j \in H(j)
        BY <2>4, <3>1
      <4>3. j2 > j
        BY <3>1, <3>2
      <4> QED
        BY <4>1, <4>2, <4>3
    <3>6. up[j] = {j} \cup up[j2]
      <4>1. up[j] = IF j > n THEN {} ELSE {j} \cup up[j + LowBit[j]]
        BY <1>1
      <4>2. ~(j > n)
        BY <2>4
      <4> QED
        BY <3>2, <4>1, <4>2
    <3> HIDE DEF H
    <3> QED
      BY <2>2, <3>4, <3>5, <3>6
  <2> QED
    BY <2>3, <2>4
<1> HIDE DEF S
<1>3. \A k \in Nat : k \in S
  BY <1>2, StrongInduction
<1>4. PICK k \in Nat : k = 2 * n - (s + 1)
  OBVIOUS
<1>5. up[s + 1] = H(s + 1)
  <2>1. k < 2 * n /\ 2 * n - k = s + 1
    BY <1>4
  <2> QED
    BY <1>3, <2>1 DEF S
<1>6. H(s + 1) = {i \in 1 .. n : i - LowBit[i] <= s /\ s < i}
  <2>1. \A i \in 1 .. n : LowBit[i] \in Nat
    BY LowBitFacts
  <2> QED
    BY <2>1
<1> QED
  BY <1>5, <1>6 DEF up

----------------------------------------------------------------------------
(* A Fenwick tree of n nodes: its prefixes, what an update does to them,   *)
(* and the search.                                                         *)

Tree(n) == [1 .. n -> 0 .. Word - 1]

\* Remainders of small numbers.
LEMMA SmallRemainder ==
  ASSUME NEW w \in Nat, NEW a \in Nat, a < w
  PROVE  a % w = a /\ (a + w) % w = a
<1>1. a % w = a
  OBVIOUS
<1>2. (a + w) % w = a
  OBVIOUS
<1> QED
  BY <1>1, <1>2

\* A function on 1 .. n is a sequence.
LEMMA FunctionIsSeq ==
  ASSUME NEW S, NEW n \in Nat, NEW f \in [1 .. n -> S]
  PROVE  f \in Seq(S) /\ Len(f) = n
<1>1. f \in Seq(S)
  OBVIOUS
<1>2. DOMAIN f = 1 .. n
  OBVIOUS
<1> QED
  BY <1>1, <1>2

\* A tree has as many nodes as its length says.
LEMMA TreeLength ==
  ASSUME NEW n \in Nat, NEW tree \in Tree(n)
  PROVE  Len(tree) = n /\ DOMAIN tree = 1 .. n
<1>1. DOMAIN tree = 1 .. n
  BY DEF Tree
<1>2. Len(tree) = n
  BY FunctionIsSeq DEF Tree
<1> QED
  BY <1>1, <1>2

\* A prefix is a node and the prefix before the node's range.
PrefixStep(tree, n) ==
  /\ FenwickPrefix(tree, 0) = 0
  /\ \A k \in 1 .. n : FenwickPrefix(tree, k) = tree[k] + FenwickPrefix(tree, k - LowBit[k])

\* A prefix is a number, and a node adds what its range holds to the prefix before it.
LEMMA PrefixFacts ==
  ASSUME NEW n \in Nat, NEW tree \in Tree(n)
  PROVE  /\ PrefixStep(tree, n)
         /\ \A k \in 0 .. n : FenwickPrefix(tree, k) \in Nat
         /\ \A k \in 1 .. n : tree[k] <= FenwickPrefix(tree, k)
<1> DEFINE st == [k \in Nat |-> [x \in Nat |-> IF k \in 1 .. n THEN tree[k] + x ELSE 0]]
           p == [k \in Nat |-> IF k = 0 THEN 0 ELSE k - LowBit[k]]
           G(f) == f = [i \in 0 .. Len(tree) |-> IF i = 0 THEN 0 ELSE tree[i] + f[i - LowBit[i]]]
<1>1. Len(tree) = n
  BY TreeLength
<1>2. \A k \in 1 .. n : tree[k] \in Nat
  BY WordAssumption DEF Tree
<1>3. st \in [Nat -> [Nat -> Nat]]
  BY <1>2
<1>4. \A k \in 1 .. n, x \in Nat : st[k][x] = tree[k] + x
  OBVIOUS
<1>5. \A k \in Nat \ {0} : p[k] = k - LowBit[k] /\ p[k] \in 0 .. k - 1
  BY LowBitFacts
<1>6. p \in [Nat -> Nat]
  <2>1. p[0] = 0
    OBVIOUS
  <2>2. \A k \in Nat : p[k] \in Nat
    BY <1>5, <2>1
  <2> QED
    BY <2>2
<1> HIDE DEF st, p
<1>7. Recursion(Nat, 0, st, p)
  <2>1. \A k \in Nat \ {0} : p[k] < k
    BY <1>5
  <2> QED
    BY <1>3, <1>6, <2>1 DEF Recursion
<1>8. PICK f : Solves(f, Nat, 0, st, p)
  BY <1>7, Descending
<1> DEFINE g == [i \in 0 .. n |-> f[i]]
<1>9. g[0] = 0 /\ \A i \in 1 .. n : g[i] = tree[i] + g[i - LowBit[i]]
  <2>1. f[0] = 0
    BY <1>8 DEF Solves
  <2>2. ASSUME NEW i \in 1 .. n PROVE g[i] = tree[i] + g[i - LowBit[i]]
    <3>1. p[i] = i - LowBit[i] /\ p[i] \in 0 .. i - 1
      BY <1>5
    <3>2. f[i] = st[i][f[i - LowBit[i]]] /\ f[i - LowBit[i]] \in Nat
      BY <1>8, <3>1 DEF Solves
    <3>3. g[i] = f[i] /\ g[i - LowBit[i]] = f[i - LowBit[i]]
      BY <3>1
    <3> QED
      BY <1>4, <3>2, <3>3
  <2>3. g[0] = 0
    BY <2>1
  <2> HIDE DEF g
  <2> QED
    BY <2>2, <2>3
<1>10. g = [i \in 0 .. n |-> g[i]] /\ \A i \in 0 .. n : g[i] \in Nat
  BY <1>8 DEF Solves
<1> HIDE DEF g
<1>11. G(g)
  <2>1. \A i \in 0 .. n : g[i] = IF i = 0 THEN 0 ELSE tree[i] + g[i - LowBit[i]]
    BY <1>9
  <2>2. g = [i \in 0 .. n |-> IF i = 0 THEN 0 ELSE tree[i] + g[i - LowBit[i]]]
    BY <1>10, <2>1
  <2> QED
    BY <1>1, <2>2
<1>12. G(Descent(tree))
  BY <1>11 DEF Descent
<1> DEFINE d == Descent(tree)
<1> HIDE DEF d
<1>13. d[0] = 0 /\ \A i \in 1 .. n : d[i] = tree[i] + d[i - LowBit[i]]
  <2>1. d = [i \in 0 .. n |-> IF i = 0 THEN 0 ELSE tree[i] + d[i - LowBit[i]]]
    BY <1>1, <1>12 DEF d
  <2> QED
    BY <2>1
<1>14. \A k \in 0 .. n : FenwickPrefix(tree, k) = d[k]
  BY <1>1 DEF FenwickPrefix, d
<1>15. \A k \in 1 .. n : k - LowBit[k] \in 0 .. k - 1
  BY LowBitFacts
<1>16. PrefixStep(tree, n)
  BY <1>13, <1>14, <1>15 DEF PrefixStep
<1> DEFINE S == {k \in Nat : k <= n => d[k] \in Nat}
<1>17. ASSUME NEW k \in Nat, \A m \in 0 .. k - 1 : m \in S PROVE k \in S
  <2>1. SUFFICES ASSUME k \in 1 .. n PROVE d[k] \in Nat
    BY <1>13
  <2>2. k - LowBit[k] \in S /\ k - LowBit[k] <= n
    BY <1>15, <1>17, <2>1
  <2> QED
    BY <1>2, <1>13, <2>1, <2>2
<1> HIDE DEF S
<1>18. \A k \in Nat : k \in S
  BY <1>17, StrongInduction
<1>19. \A k \in 0 .. n : d[k] \in Nat
  BY <1>18 DEF S
<1>20. \A k \in 1 .. n : tree[k] <= d[k]
  <2> TAKE k \in 1 .. n
  <2>1. d[k] = tree[k] + d[k - LowBit[k]] /\ d[k - LowBit[k]] \in Nat /\ tree[k] \in Nat
    BY <1>2, <1>13, <1>15, <1>19
  <2> QED
    BY <2>1
<1> QED
  BY <1>14, <1>16, <1>19, <1>20

\* Trees with the same prefixes are the same.
LEMMA PrefixesDecide ==
  ASSUME NEW n \in Nat, NEW t1 \in Tree(n), NEW t2 \in Tree(n),
         \A k \in 0 .. n : FenwickPrefix(t1, k) = FenwickPrefix(t2, k)
  PROVE  t1 = t2
<1>1. ASSUME NEW k \in 1 .. n PROVE t1[k] = t2[k]
  <2>1. k - LowBit[k] \in 0 .. n
    BY LowBitFacts
  <2>2. FenwickPrefix(t1, k) = t1[k] + FenwickPrefix(t1, k - LowBit[k])
    BY PrefixFacts DEF PrefixStep
  <2>3. FenwickPrefix(t2, k) = t2[k] + FenwickPrefix(t2, k - LowBit[k])
    BY PrefixFacts DEF PrefixStep
  <2>4. t1[k] \in Int /\ t2[k] \in Int
    BY WordAssumption DEF Tree
  <2>5. FenwickPrefix(t1, k - LowBit[k]) \in Nat /\ FenwickPrefix(t1, k) \in Nat
    BY <2>1, PrefixFacts
  <2>6. FenwickPrefix(t1, k) = FenwickPrefix(t2, k)
        /\ FenwickPrefix(t1, k - LowBit[k]) = FenwickPrefix(t2, k - LowBit[k])
    BY <2>1
  <2> QED
    BY <2>2, <2>3, <2>4, <2>5, <2>6
<1> QED
  BY <1>1 DEF Tree

\* Changing the nodes that hold a symbol by e changes the prefixes beyond it by e.
LEMMA ShiftedPrefix ==
  ASSUME NEW n \in Nat, NEW t1 \in Tree(n), NEW t2 \in Tree(n), NEW s \in 0 .. n - 1,
         NEW e \in Int,
         \A i \in 1 .. n : t2[i] = IF i - LowBit[i] <= s /\ s < i THEN t1[i] + e ELSE t1[i]
  PROVE  \A k \in 0 .. n :
           FenwickPrefix(t2, k) = FenwickPrefix(t1, k) + (IF k > s THEN e ELSE 0)
<1> DEFINE P1(k) == FenwickPrefix(t1, k)
           P2(k) == FenwickPrefix(t2, k)
           S == {k \in Nat : k <= n => P2(k) = P1(k) + (IF k > s THEN e ELSE 0)}
<1>1. /\ P1(0) = 0 /\ \A k \in 1 .. n : P1(k) = t1[k] + P1(k - LowBit[k])
      /\ P2(0) = 0 /\ \A k \in 1 .. n : P2(k) = t2[k] + P2(k - LowBit[k])
  BY PrefixFacts DEF PrefixStep
<1>2. \A k \in 0 .. n : P1(k) \in Nat /\ P2(k) \in Nat
  BY PrefixFacts
<1>3. \A k \in 1 .. n : t1[k] \in Nat /\ LowBit[k] \in 1 .. k
  BY WordAssumption, LowBitFacts DEF Tree
<1> HIDE DEF P1, P2
<1>4. ASSUME NEW k \in Nat, \A m \in 0 .. k - 1 : m \in S PROVE k \in S
  <2>1. CASE k = 0
    BY <1>1, <1>2, <2>1
  <2>2. CASE k \in 1 .. n
    <3>1. PICK j \in 0 .. k - 1 : j = k - LowBit[k]
      BY <1>3, <2>2
    <3>2. P2(j) = P1(j) + (IF j > s THEN e ELSE 0)
      BY <1>4, <2>2, <3>1
    <3>3. P1(k) = t1[k] + P1(j) /\ P2(k) = t2[k] + P2(j)
      BY <1>1, <2>2, <3>1
    <3>4. t2[k] = IF j <= s /\ s < k THEN t1[k] + e ELSE t1[k]
      BY <2>2, <3>1
    <3>5. P1(j) \in Nat /\ t1[k] \in Nat
      BY <1>2, <1>3, <2>2
    <3> QED
      BY <3>2, <3>3, <3>4, <3>5
  <2> QED
    BY <2>1, <2>2
<1> HIDE DEF S
<1>5. \A k \in Nat : k \in S
  BY <1>4, StrongInduction
<1> QED
  BY <1>5 DEF S, P1, P2

\* An update gives a tree.
LEMMA AddTree ==
  ASSUME NEW n \in Nat, NEW tree \in Tree(n), NEW s \in 0 .. n - 1, NEW d \in Nat
  PROVE  /\ FenwickAdd(tree, s, d) \in Tree(n)
         /\ \A i \in 1 .. n : FenwickAdd(tree, s, d)[i] =
              IF i - LowBit[i] <= s /\ s < i THEN (tree[i] + d) % Word ELSE tree[i]
<1>1. Len(tree) = n
  BY TreeLength
<1>2. Climb(n)[s + 1] = {i \in 1 .. n : i - LowBit[i] <= s /\ s < i}
  BY ClimbFacts
<1>3. FenwickAdd(tree, s, d) =
        [i \in 1 .. n |-> IF i - LowBit[i] <= s /\ s < i THEN (tree[i] + d) % Word ELSE tree[i]]
  <2>1. \A i \in 1 .. n : i \in Climb(n)[s + 1] <=> i - LowBit[i] <= s /\ s < i
    BY <1>2
  <2>2. FenwickAdd(tree, s, d) =
          [i \in 1 .. n |-> IF i \in Climb(n)[s + 1] THEN (tree[i] + d) % Word ELSE tree[i]]
    BY <1>1 DEF FenwickAdd
  <2> QED
    BY <2>1, <2>2
<1>4. \A i \in 1 .. n : tree[i] \in 0 .. Word - 1 /\ (tree[i] + d) % Word \in 0 .. Word - 1
  BY WordAssumption DEF Tree
<1> QED
  BY <1>3, <1>4 DEF Tree

\* Adding to a symbol, when no node overflows.
LEMMA AddFacts ==
  ASSUME NEW n \in Nat, NEW tree \in Tree(n), NEW s \in 0 .. n - 1, NEW d \in Nat,
         \A i \in 1 .. n : tree[i] + d < Word
  PROVE  /\ FenwickAdd(tree, s, d) \in Tree(n)
         /\ \A k \in 0 .. n : FenwickPrefix(FenwickAdd(tree, s, d), k)
                                = FenwickPrefix(tree, k) + (IF k > s THEN d ELSE 0)
<1> DEFINE t2 == FenwickAdd(tree, s, d)
<1>1. t2 \in Tree(n) /\ \A i \in 1 .. n :
        t2[i] = IF i - LowBit[i] <= s /\ s < i THEN (tree[i] + d) % Word ELSE tree[i]
  BY AddTree
<1>2. \A i \in 1 .. n : (tree[i] + d) % Word = tree[i] + d
  <2> TAKE i \in 1 .. n
  <2>1. tree[i] + d \in Nat /\ Word \in Nat /\ tree[i] + d < Word
    BY WordAssumption DEF Tree
  <2> QED
    BY <2>1, SmallRemainder
<1> HIDE DEF t2
<1>3. \A i \in 1 .. n : t2[i] = IF i - LowBit[i] <= s /\ s < i THEN tree[i] + d ELSE tree[i]
  BY <1>1, <1>2
<1>4. \A k \in 0 .. n : FenwickPrefix(t2, k) = FenwickPrefix(tree, k) + (IF k > s THEN d ELSE 0)
  BY <1>1, <1>3, ShiftedPrefix
<1> QED
  BY <1>1, <1>4 DEF t2

\* Taking one from a symbol that has one.
LEMMA TakeFacts ==
  ASSUME NEW n \in Nat, NEW tree \in Tree(n), NEW s \in 0 .. n - 1,
         \A i \in 1 .. n : i - LowBit[i] <= s /\ s < i => tree[i] >= 1
  PROVE  /\ FenwickAdd(tree, s, MinusOne) \in Tree(n)
         /\ \A k \in 0 .. n : FenwickPrefix(FenwickAdd(tree, s, MinusOne), k)
                                = FenwickPrefix(tree, k) + (IF k > s THEN -1 ELSE 0)
<1> DEFINE t2 == FenwickAdd(tree, s, MinusOne)
<1>0. MinusOne \in Nat /\ MinusOne = Word - 1
  BY WordAssumption DEF MinusOne
<1>1. t2 \in Tree(n) /\ \A i \in 1 .. n :
        t2[i] = IF i - LowBit[i] <= s /\ s < i THEN (tree[i] + MinusOne) % Word ELSE tree[i]
  BY <1>0, AddTree
<1>2. \A i \in 1 .. n : i - LowBit[i] <= s /\ s < i => (tree[i] + MinusOne) % Word = tree[i] + (-1)
  <2>1. SUFFICES ASSUME NEW i \in 1 .. n, i - LowBit[i] <= s, s < i
                 PROVE  (tree[i] + MinusOne) % Word = tree[i] + (-1)
    OBVIOUS
  <2>2. PICK a \in Nat : a = tree[i] - 1 /\ a < Word
    BY <2>1, WordAssumption DEF Tree
  <2>3. tree[i] + MinusOne = a + Word /\ tree[i] + (-1) = a
    <3>1. tree[i] \in Nat
      BY WordAssumption DEF Tree
    <3> QED
      BY <1>0, <2>2, <3>1, WordAssumption
  <2>4. (a + Word) % Word = a
    BY <2>2, SmallRemainder, WordAssumption
  <2> QED
    BY <2>3, <2>4
<1> HIDE DEF t2
<1>3. \A i \in 1 .. n : t2[i] = IF i - LowBit[i] <= s /\ s < i THEN tree[i] + (-1) ELSE tree[i]
  BY <1>1, <1>2
<1>4. \A k \in 0 .. n : FenwickPrefix(t2, k) = FenwickPrefix(tree, k) + (IF k > s THEN -1 ELSE 0)
  BY <1>1, <1>3, ShiftedPrefix
<1> QED
  BY <1>1, <1>4 DEF t2

\* Prefixes do not fall.
Rising(tree, n) ==
  \A k \in 0 .. n - 1 : FenwickPrefix(tree, k) <= FenwickPrefix(tree, k + 1)

\* Prefixes rise over any distance.
LEMMA RisingFacts ==
  ASSUME NEW n \in Nat, NEW tree \in Tree(n), Rising(tree, n)
  PROVE  \A b \in 0 .. n : \A a \in 0 .. b : FenwickPrefix(tree, a) <= FenwickPrefix(tree, b)
<1> DEFINE P(k) == FenwickPrefix(tree, k)
           S == {b \in Nat : \A a \in 0 .. b : P(a) <= P(b)}
<1>1. \A k \in 0 .. n : P(k) \in Nat
  BY PrefixFacts
<1>2. \A k \in 0 .. n - 1 : P(k) <= P(k + 1)
  BY DEF Rising
<1> HIDE DEF P
<1>3. 0 \in S
  BY <1>1
<1>4. ASSUME NEW b \in 0 .. n - 1, b \in S PROVE b + 1 \in S
  <2>1. ASSUME NEW a \in 0 .. b + 1 PROVE P(a) <= P(b + 1)
    <3>1. CASE a = b + 1
      BY <1>1, <3>1
    <3>2. CASE a \in 0 .. b
      <4>1. P(a) <= P(b) /\ P(b) <= P(b + 1)
        BY <1>2, <1>4, <3>2
      <4>2. P(a) \in Nat /\ P(b) \in Nat /\ P(b + 1) \in Nat
        BY <1>1, <3>2
      <4> QED
        BY <4>1, <4>2
    <3> QED
      BY <3>1, <3>2
  <2> QED
    BY <2>1
<1> HIDE DEF S
<1>5. \A b \in 0 .. n : b \in S
  BY <1>3, <1>4, InductionUpTo
<1> QED
  BY <1>5 DEF S, P

\* Powers of two.
LEMMA TwoToFacts ==
  /\ TwoTo[0] = 1
  /\ \A k \in Nat : TwoTo[k] \in Nat \ {0} /\ TwoTo[k + 1] = 2 * TwoTo[k] /\ TwoTo[k] >= k
<1> DEFINE st == [n \in Nat |-> [x \in Nat |-> 2 * x]]
           p == [n \in Nat |-> IF n = 0 THEN 0 ELSE n - 1]
           G(f) == f = [k \in Nat |-> IF k = 0 THEN 1 ELSE 2 * f[k - 1]]
<1>1. st \in [Nat -> [Nat -> Nat]] /\ \A n, x \in Nat : st[n][x] = 2 * x
  OBVIOUS
<1>2. p \in [Nat -> Nat] /\ \A n \in Nat \ {0} : p[n] = n - 1
  OBVIOUS
<1> HIDE DEF st, p
<1>3. Recursion(Nat, 1, st, p)
  <2>1. \A n \in Nat \ {0} : p[n] < n
    BY <1>2
  <2> QED
    BY <1>1, <1>2, <2>1 DEF Recursion
<1>4. PICK f : Solves(f, Nat, 1, st, p)
  BY <1>3, Descending
<1>5. f \in [Nat -> Nat] /\ f[0] = 1
  BY <1>4 DEF Solves
<1>6. \A k \in Nat \ {0} : f[k] = 2 * f[k - 1]
  <2> TAKE k \in Nat \ {0}
  <2>1. f[k] = st[k][f[k - 1]]
    BY <1>2, <1>4 DEF Solves
  <2>2. k \in Nat /\ f[k - 1] \in Nat
    BY <1>5
  <2> QED
    BY <1>1, <2>1, <2>2
<1>7. G(f)
  <2>1. \A k \in Nat : f[k] = IF k = 0 THEN 1 ELSE 2 * f[k - 1]
    BY <1>5, <1>6
  <2> QED
    BY <1>5, <2>1
<1>8. G(TwoTo)
  BY <1>7 DEF TwoTo
<1> HIDE DEF G
<1>9. TwoTo[0] = 1 /\ \A k \in Nat : TwoTo[k + 1] = 2 * TwoTo[k]
  BY <1>8 DEF G
<1> DEFINE S == {k \in Nat : TwoTo[k] \in Nat \ {0} /\ TwoTo[k] >= k}
<1>10. ASSUME NEW k \in Nat, \A m \in 0 .. k - 1 : m \in S PROVE k \in S
  <2>1. CASE k = 0
    BY <1>9, <2>1
  <2>2. CASE k # 0
    <3>1. PICK j \in Nat : k = j + 1
      BY <2>2
    <3>2. TwoTo[j] \in Nat \ {0} /\ TwoTo[j] >= j
      BY <1>10, <3>1
    <3>3. TwoTo[j + 1] = 2 * TwoTo[j]
      BY <1>9
    <3> QED
      BY <3>1, <3>2, <3>3
  <2> QED
    BY <2>1, <2>2
<1> HIDE DEF S
<1>11. \A k \in Nat : k \in S
  BY <1>10, StrongInduction
<1> QED
  BY <1>9, <1>11 DEF S

\* Half way between two multiples of a power, the half is the lowest bit.
LEMMA LowBitOdd ==
  \A k \in Nat : \A q \in Nat : LowBit[TwoTo[k] * (2 * q + 1)] = TwoTo[k]
<1> DEFINE S == {k \in Nat : \A q \in Nat : LowBit[TwoTo[k] * (2 * q + 1)] = TwoTo[k]}
<1>1. ASSUME NEW k \in Nat, \A m \in 0 .. k - 1 : m \in S PROVE k \in S
  <2>1. SUFFICES ASSUME NEW q \in Nat PROVE LowBit[TwoTo[k] * (2 * q + 1)] = TwoTo[k]
    OBVIOUS
  <2>2. CASE k = 0
    <3>1. TwoTo[k] * (2 * q + 1) = 2 * q + 1 /\ TwoTo[k] = 1
      BY <2>2, TwoToFacts
    <3>2. (2 * q + 1) % 2 = 1 /\ 2 * q + 1 \in Nat \ {0}
      OBVIOUS
    <3> QED
      BY <3>1, <3>2, LowBitFacts
  <2>3. CASE k # 0
    <3>1. PICK j \in Nat : k = j + 1
      BY <2>3
    <3>2. TwoTo[k] = 2 * TwoTo[j] /\ TwoTo[j] \in Nat \ {0}
      BY <3>1, TwoToFacts
    <3>3. PICK y \in Nat \ {0} : y = TwoTo[j] * (2 * q + 1)
      <4>1. \A a \in Nat \ {0}, b \in Nat : a * (2 * b + 1) \in Nat \ {0}
        OBVIOUS
      <4> QED
        BY <3>2, <4>1
    <3>4. TwoTo[k] * (2 * q + 1) = 2 * y
      <4>1. \A a, b \in Nat : (2 * a) * b = 2 * (a * b)
        OBVIOUS
      <4> QED
        BY <3>2, <3>3, <4>1
    <3>5. LowBit[y] = TwoTo[j]
      BY <1>1, <3>1, <3>3
    <3>6. PICK x \in Nat \ {0} : x = 2 * y
      OBVIOUS
    <3>7. x % 2 # 1 /\ x \div 2 = y
      BY <3>6
    <3>8. LowBit[x] = 2 * LowBit[y]
      BY <3>7, LowBitFacts
    <3> QED
      BY <3>2, <3>4, <3>5, <3>6, <3>8
  <2> QED
    BY <2>2, <2>3
<1> HIDE DEF S
<1>2. \A k \in Nat : k \in S
  BY <1>1, StrongInduction
<1> QED
  BY <1>2 DEF S

\* The search finds the symbol whose interval holds the value.
Searches(tree, n, val, bits, f) ==
  /\ bits \in Nat /\ TwoTo[bits] >= n
  /\ f[0] = [cur |-> 0, seen |-> 0]
  /\ \A k \in 1 .. bits : f[k] = Enter(tree, val, f[k - 1], TwoTo[bits - k])
  /\ FindGt(tree, val) = f[bits].cur

\* The search is a loop.
LEMMA SearchRuns ==
  ASSUME NEW n \in Nat, NEW tree \in Tree(n), NEW val \in Nat
  PROVE  \E bits, f : Searches(tree, n, val, bits, f)
<1> DEFINE fits(p) == TwoTo[p] >= n /\ \A q \in 0 .. (p - 1) : TwoTo[q] < n
           bits == CHOOSE p \in 0 .. n : TwoTo[p] >= n /\ \A q \in 0 .. (p - 1) : TwoTo[q] < n
<1>1. Len(tree) = n
  BY TreeLength
<1>2. \E p \in 0 .. n : fits(p)
  <2> DEFINE S == {p \in Nat : TwoTo[p] >= n}
  <2>1. n \in S
    BY TwoToFacts
  <2>2. PICK p \in S : \A m \in S : p <= m
    <3>1. S \in SUBSET Nat /\ S # {}
      BY <2>1
    <3> HIDE DEF S
    <3> QED
      BY <3>1, LeastNumber
  <2>3. p \in 0 .. n
    BY <2>1, <2>2
  <2>4. \A q \in 0 .. p - 1 : TwoTo[q] < n
    <3> TAKE q \in 0 .. p - 1
    <3>1. q \notin S /\ q \in Nat /\ TwoTo[q] \in Nat
      BY <2>2, TwoToFacts
    <3> QED
      BY <3>1
  <2> QED
    BY <2>2, <2>3, <2>4
<1>3. bits \in 0 .. n /\ TwoTo[bits] >= n
  BY <1>2
<1> HIDE DEF bits
<1> DEFINE X == [cur : Nat, seen : Nat]
           st == [k \in 1 .. bits |-> [x \in X |-> Enter(tree, val, x, TwoTo[bits - k])]]
           start == [cur |-> 0, seen |-> 0]
           G(f) == f = [k \in 0 .. bits |-> IF k = 0 THEN start
                                            ELSE Enter(tree, val, f[k - 1], TwoTo[bits - k])]
<1>4. start \in X
  OBVIOUS
<1>5. \A x \in X : \A k \in 1 .. bits : Enter(tree, val, x, TwoTo[bits - k]) \in X
  <2> TAKE x \in X
  <2> TAKE k \in 1 .. bits
  <2>1. PICK b \in Nat \ {0} : b = TwoTo[bits - k]
    BY <1>3, TwoToFacts
  <2>2. x.cur + b <= n => tree[x.cur + b] \in Nat
    BY WordAssumption DEF Tree
  <2> QED
    BY SMTT(30), <1>1, <2>1, <2>2 DEF Enter
<1> HIDE DEF X, start
<1>6. st \in [1 .. bits -> [X -> X]]
  BY <1>5
<1>7. \A k \in 1 .. bits : \A x \in X : st[k][x] = Enter(tree, val, x, TwoTo[bits - k])
  OBVIOUS
<1> HIDE DEF st
<1>8. Loop(bits, X, start, st)
  BY <1>3, <1>4, <1>6 DEF Loop
<1>9. PICK f : Turns(f, bits, X, start, st)
  BY <1>8, Looping
<1>10. f \in [0 .. bits -> X] /\ f[0] = start
  BY <1>9 DEF Turns
<1>11. \A k \in 1 .. bits : f[k] = Enter(tree, val, f[k - 1], TwoTo[bits - k])
  <2> TAKE k \in 1 .. bits
  <2>1. f[k] = st[k][f[k - 1]] /\ f[k - 1] \in X
    BY <1>3, <1>9, <1>10 DEF Turns
  <2> QED
    BY <1>7, <2>1
<1>12. G(f)
  <2>1. \A k \in 0 .. bits : f[k] = IF k = 0 THEN start
                                    ELSE Enter(tree, val, f[k - 1], TwoTo[bits - k])
    BY <1>10, <1>11
  <2> QED
    BY <1>10, <2>1
<1> DEFINE h == CHOOSE h : G(h)
<1>13. G(h)
  BY <1>12
<1>14. FindGt(tree, val) = h[bits].cur
  BY <1>1 DEF FindGt, bits, start
<1> HIDE DEF h
<1>15. h[0] = start /\ \A k \in 1 .. bits : h[k] = Enter(tree, val, h[k - 1], TwoTo[bits - k])
  BY <1>3, <1>13
<1>16. Searches(tree, n, val, bits, h)
  BY <1>3, <1>14, <1>15 DEF Searches, start
<1> QED
  BY <1>16

\* The search finds the symbol whose part of the line holds the value.
LEMMA SearchFacts ==
  ASSUME NEW n \in Nat, NEW tree \in Tree(n), Rising(tree, n),
         NEW val \in Nat, val < FenwickPrefix(tree, n)
  PROVE  /\ FindGt(tree, val) \in 0 .. n - 1
         /\ FenwickPrefix(tree, FindGt(tree, val)) <= val
         /\ val < FenwickPrefix(tree, FindGt(tree, val) + 1)
<1> DEFINE P(k) == FenwickPrefix(tree, k)
<1>1. PICK bits, f : Searches(tree, n, val, bits, f)
  BY SearchRuns
<1>2. bits \in Nat /\ TwoTo[bits] >= n /\ Len(tree) = n
  BY <1>1, TreeLength DEF Searches
<1>3. P(0) = 0 /\ \A k \in 1 .. n : P(k) = tree[k] + P(k - LowBit[k]) /\ tree[k] \in Nat
  <2>1. \A k \in 1 .. n : tree[k] \in Nat
    BY WordAssumption DEF Tree
  <2>2. PrefixStep(tree, n)
    BY PrefixFacts
  <2> QED
    BY <2>1, <2>2 DEF PrefixStep
<1>4. \A k \in 0 .. n : P(k) \in Nat
  BY PrefixFacts
<1>5. val < P(n)
  OBVIOUS
<1> HIDE DEF P
<1> DEFINE Found(x, b) == /\ x = [cur |-> x.cur, seen |-> x.seen]
                          /\ x.cur \in 0 .. n /\ x.seen = P(x.cur) /\ x.seen <= val
                          /\ (x.cur + b <= n => val < P(x.cur + b))
                          /\ \E q \in Nat : x.cur = b * q
           S == {k \in Nat : Found(f[k], TwoTo[bits - k])}
<1>6. 0 \in S
  <2>1. f[0] = [cur |-> 0, seen |-> 0]
    BY <1>1 DEF Searches
  <2>2. TwoTo[bits] \in Nat
    BY <1>2, TwoToFacts
  <2>3. 0 + TwoTo[bits] <= n => TwoTo[bits] = n
    BY <1>2, <2>2
  <2>4. 0 = TwoTo[bits] * 0
    BY <2>2
  <2> QED
    BY <1>2, <1>3, <1>5, <2>1, <2>2, <2>3, <2>4
<1>7. ASSUME NEW k \in 0 .. bits - 1, k \in S PROVE k + 1 \in S
  <2>1. PICK j \in Nat : j = bits - (k + 1)
    BY <1>2
  <2>2. PICK b \in Nat \ {0} : b = TwoTo[j]
    BY TwoToFacts
  <2>3. TwoTo[bits - k] = 2 * b
    <3>1. bits - k = j + 1
      BY <1>2, <2>1
    <3> QED
      BY <2>2, <3>1, TwoToFacts
  <2>4. PICK x : x = f[k] /\ Found(x, 2 * b)
    BY <1>7, <2>3
  <2>5. f[k + 1] = Enter(tree, val, x, b)
    <3>1. k + 1 \in 1 .. bits /\ (k + 1) - 1 = k
      BY <1>2
    <3> QED
      BY <1>1, <2>1, <2>2, <2>4, <3>1 DEF Searches
  <2>6. PICK q \in Nat : x.cur = (2 * b) * q
    BY <2>4
  <2>7. PICK c \in 0 .. n : c = x.cur
    BY <2>4
  <2>8. c = b * (2 * q) /\ c + b = b * (2 * q + 1)
    <3>1. \A u, v \in Nat : (2 * u) * v = u * (2 * v) /\ u * (2 * v) + u = u * (2 * v + 1)
      OBVIOUS
    <3> QED
      BY <2>6, <2>7, <3>1
  <2>9. CASE c + b <= n /\ P(c + b) <= val
    <3>1. c + b \in 1 .. n
      BY <2>2, <2>7, <2>9
    <3>2. LowBit[c + b] = b
      BY <2>2, <2>8, LowBitOdd
    <3>3. P(c + b) = tree[c + b] + P(c)
      <4>1. (c + b) - b = c
        BY <2>7
      <4> QED
        BY <1>3, <3>1, <3>2, <4>1
    <3>4. x.seen + tree[c + b] = P(c + b)
      BY <1>3, <1>4, <2>4, <2>7, <3>1, <3>3
    <3>5. f[k + 1] = [cur |-> c + b, seen |-> P(c + b)]
      BY <1>2, <2>5, <2>7, <2>9, <3>4 DEF Enter
    <3>6. (c + b) + b <= n => val < P((c + b) + b)
      <4>1. (c + b) + b = c + 2 * b
        BY <2>2, <2>7
      <4> QED
        BY <2>4, <2>7, <4>1
    <3>7. Found(f[k + 1], b)
      BY <2>8, <2>9, <3>1, <3>5, <3>6
    <3> QED
      BY <2>1, <2>2, <3>7
  <2>10. CASE ~(c + b <= n /\ P(c + b) <= val)
    <3>1. c + b <= n => x.seen + tree[c + b] > val
      <4>1. SUFFICES ASSUME c + b <= n PROVE x.seen + tree[c + b] > val
        OBVIOUS
      <4>2. c + b \in 1 .. n
        BY <2>2, <2>7, <4>1
      <4>3. LowBit[c + b] = b /\ (c + b) - b = c
        BY <2>2, <2>7, <2>8, LowBitOdd
      <4>4. P(c + b) = tree[c + b] + P(c)
        BY <1>3, <4>2, <4>3
      <4>5. P(c + b) > val
        BY <1>4, <2>10, <4>1, <4>2
      <4> QED
        BY <1>3, <1>4, <2>4, <2>7, <4>2, <4>4, <4>5
    <3>2. f[k + 1] = x
      <4>1. ~(c + b <= n /\ x.seen + tree[c + b] <= val)
        BY <1>3, <1>4, <2>2, <2>4, <2>7, <3>1
      <4> QED
        BY <1>2, <2>5, <2>7, <4>1 DEF Enter
    <3>3. c + b <= n => val < P(c + b)
      BY <1>4, <2>2, <2>7, <2>10
    <3>4. \E r \in Nat : c = b * r
      BY <2>8
    <3>5. Found(x, b)
      BY <2>4, <2>7, <3>3, <3>4
    <3> QED
      BY <2>1, <2>2, <3>2, <3>5
  <2> QED
    BY <2>9, <2>10
<1> HIDE DEF S
<1>8. \A k \in 0 .. bits : k \in S
  BY <1>2, <1>6, <1>7, InductionUpTo
<1>9. Found(f[bits], 1)
  <2>1. bits \in S /\ bits - bits = 0 /\ TwoTo[0] = 1
    BY <1>2, <1>8, TwoToFacts
  <2> HIDE DEF Found
  <2> QED
    BY <2>1 DEF S
<1>10. PICK c \in 0 .. n : c = FindGt(tree, val)
  BY <1>1, <1>9 DEF Searches
<1>11. P(c) <= val /\ (c + 1 <= n => val < P(c + 1))
  BY <1>1, <1>9, <1>10 DEF Searches
<1>12. c # n
  BY <1>4, <1>5, <1>11
<1> QED
  BY <1>10, <1>11, <1>12 DEF P

----------------------------------------------------------------------------
(* A tree stands for the weights of its symbols.                           *)

Weighs(tree, w, n) ==
  /\ n \in Nat /\ tree \in Tree(n) /\ w \in [0 .. n - 1 -> Nat]
  /\ \A k \in 0 .. n - 1 : FenwickPrefix(tree, k + 1) = FenwickPrefix(tree, k) + w[k]

\* Prefixes of a weighed tree rise, and no node exceeds the whole.
LEMMA WeighedFacts ==
  ASSUME NEW n, NEW tree, NEW w, Weighs(tree, w, n)
  PROVE  /\ Rising(tree, n)
         /\ \A i \in 1 .. n : tree[i] <= FenwickPrefix(tree, n)
         /\ \A b \in 0 .. n : \A a \in 0 .. b : FenwickPrefix(tree, a) <= FenwickPrefix(tree, b)
         /\ \A k \in 0 .. n : FenwickPrefix(tree, k) \in Nat
         /\ FenwickPrefix(tree, 0) = 0
<1>1. n \in Nat /\ tree \in Tree(n)
  BY DEF Weighs
<1>2. \A k \in 0 .. n : FenwickPrefix(tree, k) \in Nat
  BY <1>1, PrefixFacts
<1>3. Rising(tree, n)
  <2>1. ASSUME NEW k \in 0 .. n - 1 PROVE FenwickPrefix(tree, k) <= FenwickPrefix(tree, k + 1)
    <3>1. FenwickPrefix(tree, k + 1) = FenwickPrefix(tree, k) + w[k] /\ w[k] \in Nat
      BY DEF Weighs
    <3>2. FenwickPrefix(tree, k) \in Nat
      BY <1>1, <1>2
    <3> QED
      BY <3>1, <3>2
  <2> QED
    BY <2>1 DEF Rising
<1>4. \A b \in 0 .. n : \A a \in 0 .. b : FenwickPrefix(tree, a) <= FenwickPrefix(tree, b)
  BY <1>1, <1>3, RisingFacts
<1>5. \A i \in 1 .. n : tree[i] <= FenwickPrefix(tree, n)
  <2> TAKE i \in 1 .. n
  <2>1. tree[i] <= FenwickPrefix(tree, i)
    BY <1>1, PrefixFacts
  <2>2. FenwickPrefix(tree, i) <= FenwickPrefix(tree, n)
    BY <1>1, <1>4
  <2>3. tree[i] \in Nat
    BY <1>1, WordAssumption DEF Tree
  <2>4. FenwickPrefix(tree, i) \in Nat /\ FenwickPrefix(tree, n) \in Nat
    BY <1>1, <1>2
  <2> QED
    BY <2>1, <2>2, <2>3, <2>4
<1>6. FenwickPrefix(tree, 0) = 0
  BY <1>1, PrefixFacts DEF PrefixStep
<1> QED
  BY <1>2, <1>3, <1>4, <1>5, <1>6

\* The weights decide the tree.
LEMMA WeightsDecide ==
  ASSUME NEW n, NEW w, NEW t1, NEW t2, Weighs(t1, w, n), Weighs(t2, w, n)
  PROVE  t1 = t2
<1>1. n \in Nat /\ t1 \in Tree(n) /\ t2 \in Tree(n)
  BY DEF Weighs
<1> DEFINE S == {k \in Nat : FenwickPrefix(t1, k) = FenwickPrefix(t2, k)}
<1>2. 0 \in S
  BY WeighedFacts
<1>3. ASSUME NEW k \in 0 .. n - 1, k \in S PROVE k + 1 \in S
  BY <1>3 DEF Weighs
<1> HIDE DEF S
<1>4. \A k \in 0 .. n : k \in S
  BY <1>1, <1>2, <1>3, InductionUpTo
<1>5. \A k \in 0 .. n : FenwickPrefix(t1, k) = FenwickPrefix(t2, k)
  BY <1>4 DEF S
<1> QED
  BY <1>1, <1>5, PrefixesDecide

\* Adding a weight.
LEMMA AddWeight ==
  ASSUME NEW n, NEW tree, NEW w, Weighs(tree, w, n), NEW s \in 0 .. n - 1, NEW d \in Nat,
         FenwickPrefix(tree, n) + d < Word
  PROVE  /\ Weighs(FenwickAdd(tree, s, d), [w EXCEPT ![s] = @ + d], n)
         /\ FenwickPrefix(FenwickAdd(tree, s, d), n) = FenwickPrefix(tree, n) + d
<1> DEFINE t2 == FenwickAdd(tree, s, d)
           w2 == [w EXCEPT ![s] = @ + d]
<1>1. n \in Nat /\ tree \in Tree(n) /\ w \in [0 .. n - 1 -> Nat]
  BY DEF Weighs
<1>2. \A k \in 0 .. n : FenwickPrefix(tree, k) \in Nat
  BY WeighedFacts
<1>3. \A i \in 1 .. n : tree[i] + d < Word
  <2> TAKE i \in 1 .. n
  <2>1. tree[i] <= FenwickPrefix(tree, n) /\ FenwickPrefix(tree, n) \in Nat
    BY <1>1, <1>2, WeighedFacts
  <2>2. tree[i] \in Nat
    BY <1>1, WordAssumption DEF Tree
  <2> QED
    BY <2>1, <2>2, WordAssumption
<1>4. t2 \in Tree(n)
  BY <1>1, <1>3, AddFacts
<1>5. \A k \in 0 .. n : FenwickPrefix(t2, k) = FenwickPrefix(tree, k) + (IF k > s THEN d ELSE 0)
  BY <1>1, <1>3, AddFacts
<1> HIDE DEF t2
<1>6. w2 \in [0 .. n - 1 -> Nat]
  BY <1>1
<1>7. ASSUME NEW k \in 0 .. n - 1 PROVE FenwickPrefix(t2, k + 1) = FenwickPrefix(t2, k) + w2[k]
  <2>1. FenwickPrefix(tree, k + 1) = FenwickPrefix(tree, k) + w[k]
    BY DEF Weighs
  <2>2. w2[k] = IF k = s THEN w[k] + d ELSE w[k]
    BY <1>1
  <2>3. FenwickPrefix(tree, k) \in Nat /\ w[k] \in Nat
    BY <1>1, <1>2
  <2>4. FenwickPrefix(t2, k + 1) = FenwickPrefix(tree, k + 1) + (IF k + 1 > s THEN d ELSE 0)
    BY <1>1, <1>5
  <2>5. FenwickPrefix(t2, k) = FenwickPrefix(tree, k) + (IF k > s THEN d ELSE 0)
    BY <1>1, <1>5
  <2> HIDE DEF w2
  <2> QED
    BY <2>1, <2>2, <2>3, <2>4, <2>5
<1>8. FenwickPrefix(t2, n) = FenwickPrefix(tree, n) + d
  BY <1>1, <1>5
<1> QED
  BY <1>1, <1>4, <1>6, <1>7, <1>8 DEF Weighs, t2

\* Taking one.
LEMMA TakeWeight ==
  ASSUME NEW n, NEW tree, NEW w, Weighs(tree, w, n), NEW s \in 0 .. n - 1, w[s] >= 1
  PROVE  Weighs(FenwickAdd(tree, s, MinusOne), [w EXCEPT ![s] = @ - 1], n)
<1> DEFINE t2 == FenwickAdd(tree, s, MinusOne)
           w2 == [w EXCEPT ![s] = @ - 1]
<1>1. n \in Nat /\ tree \in Tree(n) /\ w \in [0 .. n - 1 -> Nat]
  BY DEF Weighs
<1>2. \A k \in 0 .. n : FenwickPrefix(tree, k) \in Nat
  BY WeighedFacts
<1>3. \A i \in 1 .. n : i - LowBit[i] <= s /\ s < i => tree[i] >= 1
  <2> TAKE i \in 1 .. n
  <2>1. SUFFICES ASSUME i - LowBit[i] <= s, s < i PROVE tree[i] >= 1
    OBVIOUS
  <2>2. PICK j \in 0 .. i - 1 : j = i - LowBit[i]
    BY LowBitFacts
  <2>3. FenwickPrefix(tree, i) = tree[i] + FenwickPrefix(tree, j)
    BY <1>1, <2>2, PrefixFacts DEF PrefixStep
  <2>a. \A b \in 0 .. n : \A a \in 0 .. b : FenwickPrefix(tree, a) <= FenwickPrefix(tree, b)
    BY WeighedFacts
  <2>4. FenwickPrefix(tree, j) <= FenwickPrefix(tree, s)
    <3>1. j \in 0 .. s /\ s \in 0 .. n
      BY <1>1, <2>1, <2>2
    <3> QED
      BY ONLY <2>a, <3>1
  <2>5. FenwickPrefix(tree, s + 1) <= FenwickPrefix(tree, i)
    <3>1. s + 1 \in 0 .. i /\ i \in 0 .. n
      BY <1>1, <2>1
    <3> QED
      BY ONLY <2>a, <3>1
  <2>6. FenwickPrefix(tree, s + 1) = FenwickPrefix(tree, s) + w[s]
    BY DEF Weighs
  <2>7. tree[i] \in Nat /\ w[s] \in Nat
    BY <1>1, WordAssumption DEF Tree
  <2>8. /\ FenwickPrefix(tree, i) \in Nat /\ FenwickPrefix(tree, j) \in Nat
        /\ FenwickPrefix(tree, s) \in Nat /\ FenwickPrefix(tree, s + 1) \in Nat
    BY SMTT(30), <1>1, <1>2, <2>2
  <2> QED
    BY <2>3, <2>4, <2>5, <2>6, <2>7, <2>8
<1>4. t2 \in Tree(n)
  BY <1>1, <1>3, TakeFacts
<1>5. \A k \in 0 .. n : FenwickPrefix(t2, k) = FenwickPrefix(tree, k) + (IF k > s THEN -1 ELSE 0)
  BY <1>1, <1>3, TakeFacts
<1> HIDE DEF t2
<1>6. w2 \in [0 .. n - 1 -> Nat]
  BY <1>1
<1>7. ASSUME NEW k \in 0 .. n - 1 PROVE FenwickPrefix(t2, k + 1) = FenwickPrefix(t2, k) + w2[k]
  <2>1. FenwickPrefix(tree, k + 1) = FenwickPrefix(tree, k) + w[k]
    BY DEF Weighs
  <2>2. w2[k] = IF k = s THEN w[k] - 1 ELSE w[k]
    BY <1>1
  <2>3. FenwickPrefix(tree, k) \in Nat /\ w[k] \in Nat
    BY <1>1, <1>2
  <2>4. FenwickPrefix(t2, k + 1) = FenwickPrefix(tree, k + 1) + (IF k + 1 > s THEN -1 ELSE 0)
    BY <1>1, <1>5
  <2>5. FenwickPrefix(t2, k) = FenwickPrefix(tree, k) + (IF k > s THEN -1 ELSE 0)
    BY <1>1, <1>5
  <2> HIDE DEF w2
  <2> QED
    BY <2>1, <2>2, <2>3, <2>4, <2>5
<1> QED
  BY <1>1, <1>4, <1>6, <1>7 DEF Weighs, t2

\* The turns of a range of updates.
RangeRuns(f, tree, lo, hi, d, n) ==
  /\ f \in [0 .. hi - lo -> Tree(n)] /\ f[0] = tree
  /\ \A k \in 1 .. hi - lo : f[k] = FenwickAdd(f[k - 1], lo + k - 1, d)
  /\ AddRange(tree, lo, hi, d) = f[hi - lo]

\* Adding over a range is a loop.
LEMMA AddRangeRuns ==
  ASSUME NEW n \in Nat, NEW tree \in Tree(n), NEW hi \in 0 .. n, NEW lo \in 0 .. hi,
         NEW d \in Nat
  PROVE  \E f : RangeRuns(f, tree, lo, hi, d, n)
<1> DEFINE N == hi - lo
           X == Tree(n)
           st == [k \in 1 .. N |-> [x \in X |-> FenwickAdd(x, lo + k - 1, d)]]
           G(f) == f = [k \in 0 .. N |-> IF k = 0 THEN tree ELSE FenwickAdd(f[k - 1], lo + k - 1, d)]
<1>1. N \in Nat /\ tree \in X
  OBVIOUS
<1>2. \A k \in 1 .. N : \A x \in X : FenwickAdd(x, lo + k - 1, d) \in X
  <2> TAKE k \in 1 .. N
  <2> TAKE x \in X
  <2>1. PICK s \in 0 .. n - 1 : s = lo + k - 1
    OBVIOUS
  <2> QED
    BY <2>1, AddTree
<1> HIDE DEF N, X
<1>3. st \in [1 .. N -> [X -> X]]
  BY <1>2
<1>4. \A k \in 1 .. N : \A x \in X : st[k][x] = FenwickAdd(x, lo + k - 1, d)
  OBVIOUS
<1> HIDE DEF st
<1>5. Loop(N, X, tree, st)
  BY <1>1, <1>3 DEF Loop
<1>6. PICK f : Turns(f, N, X, tree, st)
  BY <1>5, Looping
<1>7. f \in [0 .. N -> X] /\ f[0] = tree
  BY <1>6 DEF Turns
<1>8. \A k \in 1 .. N : f[k] = FenwickAdd(f[k - 1], lo + k - 1, d)
  <2> TAKE k \in 1 .. N
  <2>1. f[k] = st[k][f[k - 1]] /\ f[k - 1] \in X
    BY <1>1, <1>6, <1>7 DEF Turns
  <2> QED
    BY <1>4, <2>1
<1>9. G(f)
  <2>1. \A k \in 0 .. N : f[k] = IF k = 0 THEN tree ELSE FenwickAdd(f[k - 1], lo + k - 1, d)
    BY <1>7, <1>8
  <2> QED
    BY <1>7, <2>1
<1>10. \A g : G(g) => \A k \in 0 .. N : g[k] = f[k]
  <2> TAKE g
  <2>1. SUFFICES ASSUME G(g) PROVE \A k \in 0 .. N : g[k] = f[k]
    OBVIOUS
  <2>2. g[0] = tree /\ \A k \in 1 .. N : g[k] = FenwickAdd(g[k - 1], lo + k - 1, d)
    BY <1>1, <2>1
  <2> DEFINE S == {k \in Nat : g[k] = f[k]}
  <2> HIDE DEF G
  <2>3. 0 \in S
    BY <1>7, <2>2
  <2>4. ASSUME NEW k \in 0 .. N - 1, k \in S PROVE k + 1 \in S
    <3>1. k + 1 \in 1 .. N /\ (k + 1) - 1 = k
      BY <1>1
    <3>2. g[k + 1] = FenwickAdd(g[k], lo + (k + 1) - 1, d)
      BY <2>2, <3>1
    <3>3. f[k + 1] = FenwickAdd(f[k], lo + (k + 1) - 1, d)
      BY <1>8, <3>1
    <3> QED
      BY <2>4, <3>1, <3>2, <3>3
  <2> HIDE DEF S
  <2>5. \A k \in 0 .. N : k \in S
    BY <1>1, <2>3, <2>4, InductionUpTo
  <2> QED
    BY <2>5 DEF S
<1> DEFINE h == CHOOSE h : G(h)
<1>11. G(h)
  BY <1>9
<1>12. AddRange(tree, lo, hi, d) = h[N]
  BY DEF AddRange, N
<1> HIDE DEF h, G
<1>13. h[N] = f[N]
  BY <1>1, <1>10, <1>11
<1>14. RangeRuns(f, tree, lo, hi, d, n)
  BY <1>7, <1>8, <1>12, <1>13 DEF RangeRuns, N, X
<1> QED
  BY <1>14

\* Weights raised, or lowered, by one over a range.
Raised(w, lo, hi, n)  == [s \in 0 .. n - 1 |-> IF lo <= s /\ s < hi THEN w[s] + 1 ELSE w[s]]

Lowered(w, lo, hi, n) == [s \in 0 .. n - 1 |-> IF lo <= s /\ s < hi THEN w[s] - 1 ELSE w[s]]

\* One update of each symbol of a range raises its weights by one.
LEMMA AddOnes ==
  ASSUME NEW n, NEW tree, NEW w, Weighs(tree, w, n), NEW hi \in 0 .. n, NEW lo \in 0 .. hi,
         FenwickPrefix(tree, n) + (hi - lo) < Word
  PROVE  /\ Weighs(AddRange(tree, lo, hi, 1), Raised(w, lo, hi, n), n)
         /\ FenwickPrefix(AddRange(tree, lo, hi, 1), n) = FenwickPrefix(tree, n) + (hi - lo)
<1>1. n \in Nat /\ tree \in Tree(n) /\ w \in [0 .. n - 1 -> Nat]
  BY DEF Weighs
<1>2. PICK f : RangeRuns(f, tree, lo, hi, 1, n)
  BY <1>1, AddRangeRuns
<1> DEFINE P(t) == FenwickPrefix(t, n)
           S == {k \in Nat : /\ Weighs(f[k], Raised(w, lo, lo + k, n), n)
                             /\ P(f[k]) = P(tree) + k}
<1>3. P(tree) \in Nat /\ P(tree) + (hi - lo) < Word
  BY <1>1, WeighedFacts
<1>4. 0 \in S
  <2>1. Raised(w, lo, lo + 0, n) = w
    BY <1>1 DEF Raised
  <2> HIDE DEF P
  <2>2. f[0] = tree
    BY <1>2 DEF RangeRuns
  <2> QED
    BY <1>3, <2>1, <2>2
<1> HIDE DEF P
<1>5. ASSUME NEW k \in 0 .. hi - lo - 1, k \in S PROVE k + 1 \in S
  <2>1. PICK s \in 0 .. n - 1 : s = lo + k
    BY <1>1
  <2>2. f[k + 1] = FenwickAdd(f[k], s, 1)
    <3>1. k + 1 \in 1 .. hi - lo /\ (k + 1) - 1 = k /\ lo + (k + 1) - 1 = s
      BY <2>1
    <3> QED
      BY <1>2, <3>1 DEF RangeRuns
  <2>3. PICK w1 : w1 = Raised(w, lo, s, n)
    OBVIOUS
  <2>4. Weighs(f[k], w1, n) /\ P(f[k]) = P(tree) + k
    BY <1>5, <2>1, <2>3
  <2>5. P(f[k]) + 1 < Word
    BY <1>3, <2>4, WordAssumption
  <2>6. Weighs(FenwickAdd(f[k], s, 1), [w1 EXCEPT ![s] = @ + 1], n) /\ P(FenwickAdd(f[k], s, 1)) = P(f[k]) + 1
    BY <2>4, <2>5, AddWeight DEF P
  <2>7. [w1 EXCEPT ![s] = @ + 1] = Raised(w, lo, lo + (k + 1), n)
    <3>1. w1 = [x \in 0 .. n - 1 |-> IF lo <= x /\ x < s THEN w[x] + 1 ELSE w[x]]
      BY <2>3 DEF Raised
    <3>2. \A x \in 0 .. n - 1 : [w1 EXCEPT ![s] = @ + 1][x] = Raised(w, lo, lo + (k + 1), n)[x]
      BY <2>1, <3>1 DEF Raised
    <3> QED
      BY <3>1, <3>2 DEF Raised
  <2>8. P(f[k + 1]) = P(tree) + (k + 1)
    BY <1>3, <2>2, <2>4, <2>6
  <2> QED
    BY <2>2, <2>6, <2>7, <2>8
<1> HIDE DEF S
<1>6. PICK N \in Nat : N = hi - lo
  OBVIOUS
<1>7. \A k \in 0 .. N : k \in S
  BY <1>4, <1>5, <1>6, InductionUpTo
<1>8. N \in S /\ lo + N = hi
  BY <1>6, <1>7
<1> QED
  BY <1>2, <1>6, <1>8 DEF S, RangeRuns, P

\* One withdrawal from each symbol of a range lowers its weights by one.
LEMMA TakeOnes ==
  ASSUME NEW n, NEW tree, NEW w, Weighs(tree, w, n), NEW hi \in 0 .. n, NEW lo \in 0 .. hi,
         \A s \in lo .. hi - 1 : w[s] >= 1
  PROVE  Weighs(AddRange(tree, lo, hi, MinusOne), Lowered(w, lo, hi, n), n)
<1>1. n \in Nat /\ tree \in Tree(n) /\ w \in [0 .. n - 1 -> Nat]
  BY DEF Weighs
<1>2. PICK f : RangeRuns(f, tree, lo, hi, MinusOne, n)
  <2>1. MinusOne \in Nat
    BY WordAssumption DEF MinusOne
  <2> QED
    BY <1>1, <2>1, AddRangeRuns
<1> DEFINE S == {k \in Nat : Weighs(f[k], Lowered(w, lo, lo + k, n), n)}
<1>4. 0 \in S
  <2>1. Lowered(w, lo, lo + 0, n) = w
    BY <1>1 DEF Lowered
  <2>2. f[0] = tree
    BY <1>2 DEF RangeRuns
  <2> QED
    BY <2>1, <2>2
<1>5. ASSUME NEW k \in 0 .. hi - lo - 1, k \in S PROVE k + 1 \in S
  <2>1. PICK s \in 0 .. n - 1 : s = lo + k
    BY <1>1
  <2>2. f[k + 1] = FenwickAdd(f[k], s, MinusOne)
    <3>1. k + 1 \in 1 .. hi - lo /\ (k + 1) - 1 = k /\ lo + (k + 1) - 1 = s
      BY <2>1
    <3> QED
      BY <1>2, <3>1 DEF RangeRuns
  <2>3. PICK w1 : w1 = Lowered(w, lo, s, n)
    OBVIOUS
  <2>4. Weighs(f[k], w1, n)
    BY <1>5, <2>1, <2>3
  <2>5. w1 = [x \in 0 .. n - 1 |-> IF lo <= x /\ x < s THEN w[x] - 1 ELSE w[x]]
    BY <2>3 DEF Lowered
  <2>6. w1[s] >= 1
    <3>1. w1[s] = w[s] /\ s \in lo .. hi - 1
      BY <2>1, <2>5
    <3> QED
      BY <3>1
  <2>7. Weighs(FenwickAdd(f[k], s, MinusOne), [w1 EXCEPT ![s] = @ - 1], n)
    BY <2>4, <2>6, TakeWeight
  <2>8. [w1 EXCEPT ![s] = @ - 1] = Lowered(w, lo, lo + (k + 1), n)
    <3>1. \A x \in 0 .. n - 1 : [w1 EXCEPT ![s] = @ - 1][x] = Lowered(w, lo, lo + (k + 1), n)[x]
      BY <2>1, <2>5 DEF Lowered
    <3> QED
      BY <2>5, <3>1 DEF Lowered
  <2> QED
    BY <2>2, <2>7, <2>8
<1> HIDE DEF S
<1>6. PICK N \in Nat : N = hi - lo
  OBVIOUS
<1>7. \A k \in 0 .. N : k \in S
  BY <1>4, <1>5, <1>6, InductionUpTo
<1>8. N \in S /\ lo + N = hi
  BY <1>6, <1>7
<1> QED
  BY <1>2, <1>6, <1>8 DEF S, RangeRuns

\* The running sums of counts.
Sums(f, counts, n) ==
  f \in [0 .. n -> Nat] /\ f[0] = 0 /\ \A k \in 1 .. n : f[k] = f[k - 1] + counts[k - 1]

\* A sum of counts is a loop.
LEMMA SumRuns ==
  ASSUME NEW n \in Nat, NEW counts \in [0 .. n - 1 -> Nat]
  PROVE  \E f : Sums(f, counts, n) /\ \A k \in 0 .. n : SumCounts(counts, k) = f[k]
<1> DEFINE st == [k \in 1 .. n |-> [x \in Nat |-> x + counts[k - 1]]]
           G(g, k) == g = [i \in 0 .. k |-> IF i = 0 THEN 0 ELSE g[i - 1] + counts[i - 1]]
<1>1. \A k \in 1 .. n : \A x \in Nat : x + counts[k - 1] \in Nat
  OBVIOUS
<1>2. st \in [1 .. n -> [Nat -> Nat]] /\ \A k \in 1 .. n : \A x \in Nat : st[k][x] = x + counts[k - 1]
  BY <1>1
<1> HIDE DEF st
<1>3. Loop(n, Nat, 0, st)
  BY <1>2 DEF Loop
<1>4. PICK f : Turns(f, n, Nat, 0, st)
  BY <1>3, Looping
<1>5. f \in [0 .. n -> Nat] /\ f[0] = 0
  BY <1>4 DEF Turns
<1>6. \A k \in 1 .. n : f[k] = f[k - 1] + counts[k - 1]
  <2> TAKE k \in 1 .. n
  <2>1. f[k] = st[k][f[k - 1]] /\ f[k - 1] \in Nat
    BY <1>4, <1>5 DEF Turns
  <2> QED
    BY <1>2, <2>1
<1>7. ASSUME NEW k \in 0 .. n PROVE SumCounts(counts, k) = f[k]
  <2> DEFINE g0 == [i \in 0 .. k |-> f[i]]
             h == CHOOSE h : G(h, k)
  <2>1. G(g0, k)
    <3>1. \A i \in 0 .. k : g0[i] = IF i = 0 THEN 0 ELSE g0[i - 1] + counts[i - 1]
      BY <1>5, <1>6
    <3> QED
      BY <3>1
  <2>2. G(h, k)
    BY <2>1
  <2>3. SumCounts(counts, k) = h[k]
    BY DEF SumCounts
  <2> HIDE DEF h
  <2>4. h[0] = 0 /\ \A i \in 1 .. k : h[i] = h[i - 1] + counts[i - 1]
    BY <2>2
  <2> DEFINE S == {i \in Nat : h[i] = f[i]}
  <2>5. 0 \in S
    BY <1>5, <2>4
  <2>6. ASSUME NEW i \in 0 .. k - 1, i \in S PROVE i + 1 \in S
    <3>1. i + 1 \in 1 .. k /\ i + 1 \in 1 .. n /\ (i + 1) - 1 = i
      OBVIOUS
    <3>2. h[i + 1] = h[i] + counts[i] /\ f[i + 1] = f[i] + counts[i]
      BY <1>6, <2>4, <3>1
    <3> QED
      BY <2>6, <3>1, <3>2
  <2> HIDE DEF S
  <2>7. \A i \in 0 .. k : i \in S
    <3>1. k \in Nat
      OBVIOUS
    <3> QED
      BY <2>5, <2>6, <3>1, InductionUpTo
  <2>8. h[k] = f[k]
    BY <2>7 DEF S
  <2> QED
    BY <2>3, <2>8
<1>8. Sums(f, counts, n)
  BY <1>5, <1>6 DEF Sums
<1> QED
  BY <1>7, <1>8

\* A sum of counts grows by the count at each step.
LEMMA SumFacts ==
  ASSUME NEW n \in Nat, NEW counts \in [0 .. n - 1 -> Nat]
  PROVE  /\ SumCounts(counts, 0) = 0
         /\ \A k \in 0 .. n : SumCounts(counts, k) \in Nat
         /\ \A k \in 0 .. n - 1 : SumCounts(counts, k + 1) = SumCounts(counts, k) + counts[k]
<1>1. PICK f : Sums(f, counts, n) /\ \A k \in 0 .. n : SumCounts(counts, k) = f[k]
  BY SumRuns
<1>2. \A k \in 0 .. n - 1 : f[k + 1] = f[k] + counts[k]
  <2> TAKE k \in 0 .. n - 1
  <2>1. k + 1 \in 1 .. n /\ (k + 1) - 1 = k
    OBVIOUS
  <2> QED
    BY <1>1, <2>1 DEF Sums
<1>3. \A k \in 0 .. n : f[k] \in Nat
  BY <1>1 DEF Sums
<1>4. f[0] = 0
  BY <1>1 DEF Sums
<1>5. \A k \in 0 .. n : SumCounts(counts, k) = f[k]
  BY <1>1
<1>6. SumCounts(counts, 0) = 0
  BY <1>4, <1>5
<1>7. \A k \in 0 .. n : SumCounts(counts, k) \in Nat
  BY <1>3, <1>5
<1>8. ASSUME NEW k \in 0 .. n - 1 PROVE SumCounts(counts, k + 1) = SumCounts(counts, k) + counts[k]
  <2>1. k \in 0 .. n /\ k + 1 \in 0 .. n
    OBVIOUS
  <2> QED
    BY <1>2, <1>5, <2>1
<1> QED
  BY <1>6, <1>7, <1>8

\* Counts with nothing beyond the alphabet.
Wide(counts, n, cap) == [s \in 0 .. cap - 1 |-> IF s < n THEN counts[s] ELSE 0]

\* The prefixes of a tree that stands for counts are their sums.
LEMMA PrefixIsSum ==
  ASSUME NEW cap \in Nat, NEW n \in 0 .. cap, NEW counts \in [0 .. n - 1 -> Nat], NEW tree,
         Weighs(tree, Wide(counts, n, cap), cap)
  PROVE  /\ \A k \in 0 .. n : FenwickPrefix(tree, k) = SumCounts(counts, k)
         /\ FenwickPrefix(tree, cap) = SumCounts(counts, n)
<1> DEFINE P(k) == FenwickPrefix(tree, k)
           S == {k \in Nat : P(k) = SumCounts(counts, k)}
           T == {k \in Nat : P(n + k) = P(n)}
<1>0. n \in Nat
  OBVIOUS
<1>1. P(0) = 0 /\ \A k \in 0 .. cap : P(k) \in Nat
  BY WeighedFacts
<1>2. \A k \in 0 .. cap - 1 : P(k + 1) = P(k) + (IF k < n THEN counts[k] ELSE 0)
  <2> TAKE k \in 0 .. cap - 1
  <2>1. P(k + 1) = P(k) + Wide(counts, n, cap)[k]
    BY DEF Weighs
  <2>2. Wide(counts, n, cap)[k] = IF k < n THEN counts[k] ELSE 0
    BY DEF Wide
  <2> HIDE DEF P
  <2> QED
    BY <2>1, <2>2
<1> HIDE DEF P
<1>3. 0 \in S
  BY <1>1, SumFacts
<1>4. ASSUME NEW k \in 0 .. n - 1, k \in S PROVE k + 1 \in S
  <2>1. P(k + 1) = P(k) + counts[k]
    BY <1>2
  <2>2. SumCounts(counts, k + 1) = SumCounts(counts, k) + counts[k]
    BY SMTT(30), SumFacts
  <2> QED
    BY <1>4, <2>1, <2>2
<1> HIDE DEF S
<1>5. \A k \in 0 .. n : k \in S
  BY <1>0, <1>3, <1>4, InductionUpTo
<1>6. 0 \in T
  OBVIOUS
<1>7. ASSUME NEW k \in 0 .. cap - n - 1, k \in T PROVE k + 1 \in T
  <2>1. PICK j \in 0 .. cap - 1 : j = n + k
    OBVIOUS
  <2>2. P(j + 1) = P(j) + 0 /\ P(j) \in Nat
    BY <1>1, <1>2, <2>1
  <2>3. n + (k + 1) = j + 1
    BY <2>1
  <2> QED
    BY <1>7, <2>1, <2>2, <2>3
<1> HIDE DEF T
<1>8. PICK d \in Nat : d = cap - n
  OBVIOUS
<1>9. \A k \in 0 .. d : k \in T
  BY <1>6, <1>7, <1>8, InductionUpTo
<1>10. d \in T /\ n + d = cap /\ n \in S
  BY <1>5, <1>8, <1>9
<1> QED
  BY <1>5, <1>10 DEF P, S, T

\* Smaller counts have a smaller sum, by at least one for each symbol dropped.
LEMMA SumBelow ==
  ASSUME NEW n \in Nat, NEW m \in 0 .. n, NEW c1 \in [0 .. m - 1 -> Nat],
         NEW c2 \in [0 .. n - 1 -> Nat \ {0}], \A k \in 0 .. m - 1 : c1[k] <= c2[k]
  PROVE  SumCounts(c1, m) + (n - m) <= SumCounts(c2, n)
<1>1. c2 \in [0 .. n - 1 -> Nat] /\ m \in Nat
  OBVIOUS
<1> DEFINE A(k) == SumCounts(c1, k)
           B(k) == SumCounts(c2, k)
           S == {k \in Nat : A(k) <= B(k)}
           T == {k \in Nat : B(m) + k <= B(m + k)}
<1>2. A(0) = 0 /\ \A k \in 0 .. m : A(k) \in Nat
  BY <1>1, SumFacts
<1>3. B(0) = 0 /\ \A k \in 0 .. n : B(k) \in Nat
  BY <1>1, SumFacts
<1>4. \A k \in 0 .. m - 1 : A(k + 1) = A(k) + c1[k]
  BY <1>1, SumFacts
<1>5. \A k \in 0 .. n - 1 : B(k + 1) = B(k) + c2[k]
  BY <1>1, SumFacts
<1> HIDE DEF A, B
<1>6. 0 \in S
  BY <1>2, <1>3
<1>7. ASSUME NEW k \in 0 .. m - 1, k \in S PROVE k + 1 \in S
  <2>1. A(k + 1) = A(k) + c1[k] /\ B(k + 1) = B(k) + c2[k]
    BY <1>4, <1>5
  <2>2. A(k) \in Nat /\ B(k) \in Nat /\ c1[k] \in Nat /\ c2[k] \in Nat
    BY <1>1, <1>2, <1>3
  <2> QED
    BY <1>7, <2>1, <2>2
<1> HIDE DEF S
<1>8. \A k \in 0 .. m : k \in S
  BY <1>1, <1>6, <1>7, InductionUpTo
<1>9. 0 \in T
  BY <1>3
<1>10. ASSUME NEW k \in 0 .. n - m - 1, k \in T PROVE k + 1 \in T
  <2>1. PICK j \in 0 .. n - 1 : j = m + k
    OBVIOUS
  <2>2. B(j + 1) = B(j) + c2[j] /\ B(j) \in Nat /\ c2[j] \in Nat \ {0}
    BY <1>3, <1>5
  <2>3. m + (k + 1) = j + 1 /\ B(m) \in Nat
    BY <1>3, <2>1
  <2> QED
    BY SMTT(30), <1>10, <2>1, <2>2, <2>3
<1> HIDE DEF T
<1>11. PICK d \in Nat : d = n - m
  OBVIOUS
<1>12. \A k \in 0 .. d : k \in T
  BY <1>9, <1>10, <1>11, InductionUpTo
<1>13. A(m) <= B(m) /\ B(m) + d <= B(n)
  <2>1. m \in S /\ d \in T /\ m + d = n
    BY <1>8, <1>11, <1>12
  <2> QED
    BY <2>1 DEF S, T
<1>14. A(m) \in Nat /\ B(m) \in Nat /\ B(n) \in Nat
  BY <1>2, <1>3
<1> QED
  BY <1>11, <1>13, <1>14 DEF A, B

----------------------------------------------------------------------------
(* Trees built from counts.                                                *)

\* The empty tree.
LEMMA ZerosWeigh ==
  ASSUME NEW cap \in Nat
  PROVE  /\ Weighs(Zeros(cap), [s \in 0 .. cap - 1 |-> 0], cap)
         /\ FenwickPrefix(Zeros(cap), cap) = 0
<1> DEFINE z == Zeros(cap)
           S == {k \in Nat : k \in 0 .. cap => FenwickPrefix(z, k) = 0}
<1>1. z \in Tree(cap) /\ \A k \in 1 .. cap : z[k] = 0
  BY WordAssumption DEF Zeros, Tree
<1> HIDE DEF z
<1>2. ASSUME NEW k \in Nat, \A m \in 0 .. k - 1 : m \in S PROVE k \in S
  <2>1. SUFFICES ASSUME k \in 0 .. cap PROVE FenwickPrefix(z, k) = 0
    OBVIOUS
  <2>2. CASE k = 0
    BY <1>1, <2>2, PrefixFacts DEF PrefixStep
  <2>3. CASE k # 0
    <3>1. PICK j \in 0 .. k - 1 : j = k - LowBit[k]
      BY <2>3, LowBitFacts
    <3>2. FenwickPrefix(z, k) = z[k] + FenwickPrefix(z, j)
      BY <1>1, <2>1, <2>3, <3>1, PrefixFacts DEF PrefixStep
    <3>3. FenwickPrefix(z, j) = 0
      BY <1>2, <2>1, <3>1
    <3> QED
      BY <1>1, <2>1, <2>3, <3>2, <3>3
  <2> QED
    BY <2>2, <2>3
<1> HIDE DEF S
<1>3. \A k \in Nat : k \in S
  BY <1>2, StrongInduction
<1>4. \A k \in 0 .. cap : FenwickPrefix(z, k) = 0
  BY <1>3 DEF S
<1>5. \A k \in 0 .. cap - 1 :
        FenwickPrefix(z, k + 1) = FenwickPrefix(z, k) + [s \in 0 .. cap - 1 |-> 0][k]
  BY <1>4
<1>6. [s \in 0 .. cap - 1 |-> 0] \in [0 .. cap - 1 -> Nat]
  OBVIOUS
<1> QED
  BY <1>1, <1>4, <1>5, <1>6 DEF Weighs, z

\* An alphabet has as many symbols as it counts.
LEMMA AlphabetSize ==
  ASSUME NEW n \in Nat
  PROVE  Cardinality(0 .. n - 1) = n
BY FS_Interval

\* The turns of the building loop.
BuildRuns(f, counts, n, cap) ==
  /\ f[0] = Zeros(cap)
  /\ \A k \in 1 .. n : f[k] = FenwickAdd(f[k - 1], k - 1, counts[k - 1])
  /\ TreeOf(counts, cap) = f[n]

\* Building a tree is a loop.
LEMMA TreeOfRuns ==
  ASSUME NEW cap \in Nat, NEW n \in 0 .. cap, NEW counts \in [0 .. n - 1 -> Nat]
  PROVE  \E f : BuildRuns(f, counts, n, cap)
<1> DEFINE X == Tree(cap)
           z == Zeros(cap)
           st == [k \in 1 .. n |-> [x \in X |-> FenwickAdd(x, k - 1, counts[k - 1])]]
           G(f) == f = [k \in 0 .. n |-> IF k = 0 THEN z
                                         ELSE FenwickAdd(f[k - 1], k - 1, counts[k - 1])]
<1>1. z \in X /\ n \in Nat
  BY WordAssumption DEF Zeros, Tree
<1>2. \A k \in 1 .. n : \A x \in X : FenwickAdd(x, k - 1, counts[k - 1]) \in X
  <2> TAKE k \in 1 .. n
  <2> TAKE x \in X
  <2>1. PICK s \in 0 .. cap - 1 : s = k - 1
    OBVIOUS
  <2>2. counts[k - 1] \in Nat
    OBVIOUS
  <2> QED
    BY <2>1, <2>2, AddTree
<1> HIDE DEF X, z
<1>3. st \in [1 .. n -> [X -> X]]
  BY <1>2
<1>4. \A k \in 1 .. n : \A x \in X : st[k][x] = FenwickAdd(x, k - 1, counts[k - 1])
  OBVIOUS
<1> HIDE DEF st
<1>5. PICK f : Turns(f, n, X, z, st)
  <2>1. Loop(n, X, z, st)
    BY <1>1, <1>3 DEF Loop
  <2> QED
    BY <2>1, Looping
<1>6. f \in [0 .. n -> X] /\ f[0] = z
  BY <1>5 DEF Turns
<1>7. \A k \in 1 .. n : f[k] = FenwickAdd(f[k - 1], k - 1, counts[k - 1])
  <2> TAKE k \in 1 .. n
  <2>1. f[k] = st[k][f[k - 1]] /\ f[k - 1] \in X
    BY <1>1, <1>5, <1>6 DEF Turns
  <2> QED
    BY <1>4, <2>1
<1>8. G(f)
  <2>1. \A k \in 0 .. n : f[k] = IF k = 0 THEN z ELSE FenwickAdd(f[k - 1], k - 1, counts[k - 1])
    BY <1>6, <1>7
  <2> QED
    BY <1>6, <2>1
<1> DEFINE h == CHOOSE h : G(h)
<1>9. G(h)
  BY <1>8
<1>10. TreeOf(counts, cap) = h[n]
  <2>1. Cardinality(DOMAIN counts) = n
    BY AlphabetSize
  <2> QED
    BY <2>1 DEF TreeOf, z
<1> HIDE DEF h
<1>11. h[0] = z /\ \A k \in 1 .. n : h[k] = FenwickAdd(h[k - 1], k - 1, counts[k - 1])
  BY <1>1, <1>9
<1> QED
  BY <1>10, <1>11 DEF BuildRuns, z

\* The built tree stands for the counts.
LEMMA TreeOfFacts ==
  ASSUME NEW cap \in Nat, NEW n \in 0 .. cap, NEW counts \in [0 .. n - 1 -> Nat],
         SumCounts(counts, n) < Word
  PROVE  Weighs(TreeOf(counts, cap), Wide(counts, n, cap), cap)
<1>0. n \in Nat
  OBVIOUS
<1>1. PICK f : BuildRuns(f, counts, n, cap)
  BY TreeOfRuns
<1> DEFINE S == {k \in Nat : /\ Weighs(f[k], Wide(counts, k, cap), cap)
                             /\ FenwickPrefix(f[k], cap) = SumCounts(counts, k)}
<1>2. 0 \in S
  <2>1. Wide(counts, 0, cap) = [s \in 0 .. cap - 1 |-> 0]
    BY DEF Wide
  <2>2. f[0] = Zeros(cap)
    BY <1>1 DEF BuildRuns
  <2>3. SumCounts(counts, 0) = 0
    BY <1>0, SumFacts
  <2>4. Weighs(f[0], Wide(counts, 0, cap), cap)
    BY <2>1, <2>2, ZerosWeigh
  <2>5. FenwickPrefix(f[0], cap) = 0
    BY <2>2, ZerosWeigh
  <2> QED
    BY <2>3, <2>4, <2>5
<1>3. \A k \in 0 .. n : SumCounts(counts, k) < Word
  <2> DEFINE B(k) == SumCounts(counts, k)
             T == {k \in Nat : B(n - k) < Word}
  <2>1. \A k \in 0 .. n - 1 : B(k + 1) = B(k) + counts[k]
    BY SumFacts
  <2>2. \A k \in 0 .. n : B(k) \in Nat
    BY SumFacts
  <2> HIDE DEF B
  <2>3. 0 \in T
    BY DEF B
  <2>4. ASSUME NEW k \in 0 .. n - 1, k \in T PROVE k + 1 \in T
    <3>1. PICK j \in 0 .. n - 1 : j = n - (k + 1)
      OBVIOUS
    <3>2. B(j + 1) < Word
      <4>1. j + 1 = n - k
        BY <3>1
      <4> QED
        BY <2>4, <4>1
    <3>3. B(j) < Word
      BY <2>1, <2>2, <3>2, WordAssumption
    <3> QED
      BY <3>1, <3>3
  <2> HIDE DEF T
  <2>5. \A k \in 0 .. n : k \in T
    BY <1>0, <2>3, <2>4, InductionUpTo
  <2>6. ASSUME NEW k \in 0 .. n PROVE B(k) < Word
    <3>1. n - k \in T /\ n - (n - k) = k
      BY <2>5
    <3> QED
      BY <3>1 DEF T
  <2> QED
    BY <2>6 DEF B
<1>4. ASSUME NEW k \in 0 .. n - 1, k \in S PROVE k + 1 \in S
  <2>1. f[k + 1] = FenwickAdd(f[k], k, counts[k])
    <3>1. k + 1 \in 1 .. n /\ (k + 1) - 1 = k
      OBVIOUS
    <3> QED
      BY <1>1, <3>1 DEF BuildRuns
  <2>2. k \in 0 .. cap - 1 /\ counts[k] \in Nat
    OBVIOUS
  <2>3. PICK w : w = Wide(counts, k, cap)
    OBVIOUS
  <2>4. SumCounts(counts, k + 1) = SumCounts(counts, k) + counts[k]
    BY SumFacts
  <2>5. FenwickPrefix(f[k], cap) + counts[k] < Word
    <3>1. SumCounts(counts, k + 1) < Word
      BY <1>3
    <3> QED
      BY <1>4, <2>4, <3>1
  <2>6. Weighs(f[k + 1], [w EXCEPT ![k] = @ + counts[k]], cap)
        /\ FenwickPrefix(f[k + 1], cap) = FenwickPrefix(f[k], cap) + counts[k]
    <3>1. Weighs(f[k], w, cap)
      BY <1>4, <2>3
    <3> QED
      BY <2>1, <2>2, <2>5, <3>1, AddWeight
  <2>7. [w EXCEPT ![k] = @ + counts[k]] = Wide(counts, k + 1, cap)
    <3>1. w = [s \in 0 .. cap - 1 |-> IF s < k THEN counts[s] ELSE 0]
      BY <2>3 DEF Wide
    <3>2. w[k] = 0
      BY <2>2, <3>1
    <3>3. \A s \in 0 .. cap - 1 : [w EXCEPT ![k] = @ + counts[k]][s] = Wide(counts, k + 1, cap)[s]
      BY <2>2, <3>1, <3>2 DEF Wide
    <3> QED
      BY <3>1, <3>3 DEF Wide
  <2> QED
    BY <1>4, <2>4, <2>6, <2>7
<1> HIDE DEF S
<1>5. \A k \in 0 .. n : k \in S
  BY <1>0, <1>2, <1>4, InductionUpTo
<1>6. n \in S
  BY <1>5
<1> QED
  BY <1>1, <1>6 DEF S, BuildRuns

----------------------------------------------------------------------------
(* One adaptive table over n symbols, its tree of capacity cap.            *)

Row(t, n, cap) ==
  /\ cap \in Nat /\ n \in 1 .. cap
  /\ t = [counts |-> t.counts, tree |-> t.tree, total |-> t.total]
  /\ t.counts \in [0 .. n - 1 -> Nat \ {0}]
  /\ Weighs(t.tree, Wide(t.counts, n, cap), cap)
  /\ t.total = FenwickPrefix(t.tree, cap)

\* The counts of an alphabet, with zeros up to the capacity.
LEMMA WideFacts ==
  ASSUME NEW cap \in Nat, NEW n \in 0 .. cap, NEW c \in [0 .. n - 1 -> Nat]
  PROVE  /\ Wide(c, n, cap) \in [0 .. cap - 1 -> Nat]
         /\ \A x \in 0 .. cap - 1 : Wide(c, n, cap)[x] = IF x < n THEN c[x] ELSE 0
         /\ \A x \in 0 .. n - 1 : Wide(c, n, cap)[x] = c[x]
BY DEF Wide

\* A row's prefixes are the sums of its counts.
LEMMA RowFacts ==
  ASSUME NEW n, NEW cap, NEW t, Row(t, n, cap)
  PROVE  /\ cap \in Nat /\ n \in Nat \ {0} /\ n <= cap
         /\ t.counts \in [0 .. n - 1 -> Nat]
         /\ t.tree \in Tree(cap)
         /\ \A k \in 0 .. n : FenwickPrefix(t.tree, k) = SumCounts(t.counts, k)
         /\ t.total = SumCounts(t.counts, n)
         /\ t.total \in Nat /\ n <= t.total
<1>1. cap \in Nat /\ n \in Nat \ {0} /\ n <= cap /\ n \in 0 .. cap
  BY DEF Row
<1>2. t.counts \in [0 .. n - 1 -> Nat] /\ t.counts \in [0 .. n - 1 -> Nat \ {0}]
  BY DEF Row
<1>3. Weighs(t.tree, Wide(t.counts, n, cap), cap)
  BY DEF Row
<1>4. /\ \A k \in 0 .. n : FenwickPrefix(t.tree, k) = SumCounts(t.counts, k)
      /\ FenwickPrefix(t.tree, cap) = SumCounts(t.counts, n)
  BY <1>1, <1>2, <1>3, PrefixIsSum
<1>5. t.total = SumCounts(t.counts, n)
  BY <1>4 DEF Row
<1>6. SumCounts(t.counts, n) \in Nat
  BY <1>1, <1>2, SumFacts
<1>7. n <= SumCounts(t.counts, n)
  <2> DEFINE none == [s \in 0 .. 0 - 1 |-> 0]
  <2>1. none \in [0 .. 0 - 1 -> Nat] /\ \A k \in 0 .. 0 - 1 : none[k] <= t.counts[k]
    OBVIOUS
  <2> HIDE DEF none
  <2>2. 0 \in 0 .. n /\ n \in Nat
    BY <1>1
  <2>3. SumCounts(none, 0) + (n - 0) <= SumCounts(t.counts, n)
    BY <1>2, <2>1, <2>2, SumBelow
  <2>4. SumCounts(none, 0) = 0
    BY <2>1, SumFacts
  <2> QED
    BY <1>1, <1>6, <2>3, <2>4
<1>8. t.tree \in Tree(cap)
  BY <1>3 DEF Weighs
<1> QED
  BY <1>1, <1>2, <1>4, <1>5, <1>6, <1>7, <1>8

\* Its books balance.
LEMMA RowBalanced ==
  ASSUME NEW n, NEW cap, NEW t, Row(t, n, cap)
  PROVE  TableBalanced(t) /\ FenwickPrefix(t.tree, cap) = t.total
<1>1. Cardinality(DOMAIN t.counts) = n
  <2>1. DOMAIN t.counts = 0 .. n - 1 /\ n \in Nat
    BY RowFacts
  <2> QED
    BY <2>1, AlphabetSize
<1>2. \A s \in DOMAIN t.counts : t.counts[s] >= 1
  BY DEF Row
<1>3. TableBalanced(t)
  BY <1>1, <1>2, RowFacts DEF TableBalanced
<1> QED
  BY <1>3 DEF Row

\* Its counts decide it.
LEMMA RowDecides ==
  ASSUME NEW n, NEW cap, NEW t1, NEW t2, Row(t1, n, cap), Row(t2, n, cap),
         t1.counts = t2.counts
  PROVE  t1 = t2
<1>1. t1.tree = t2.tree
  <2>1. /\ Weighs(t1.tree, Wide(t1.counts, n, cap), cap)
        /\ Weighs(t2.tree, Wide(t1.counts, n, cap), cap)
    BY DEF Row
  <2> QED
    BY <2>1, WeightsDecide
<1> QED
  BY <1>1 DEF Row

\* Raising and lowering one count.
RaisedAt(w, s) == [w EXCEPT ![s] = @ + 1]

LoweredAt(w, s) == [w EXCEPT ![s] = @ - 1]

LEMMA UpAndDown ==
  ASSUME NEW D, NEW w \in [D -> Nat], NEW s \in D
  PROVE  RaisedAt(w, s) \in [D -> Nat] /\ RaisedAt(w, s)[s] >= 1 /\ LoweredAt(RaisedAt(w, s), s) = w
<1> DEFINE v == [w EXCEPT ![s] = @ + 1]
<1>1. v \in [D -> Nat] /\ v[s] = w[s] + 1 /\ w[s] \in Nat /\ \A x \in D : x # s => v[x] = w[x]
  OBVIOUS
<1> HIDE DEF v
<1>2. [v EXCEPT ![s] = @ - 1] = [x \in D |-> IF x = s THEN v[s] - 1 ELSE v[x]]
  BY <1>1
<1>3. v[s] - 1 = w[s]
  BY <1>1
<1>4. \A x \in D : (IF x = s THEN v[s] - 1 ELSE v[x]) = w[x]
  BY <1>1, <1>3
<1>5. [v EXCEPT ![s] = @ - 1] = w
  BY <1>2, <1>4
<1>6. v[s] >= 1
  BY <1>1
<1>7. v = RaisedAt(w, s) /\ [v EXCEPT ![s] = @ - 1] = LoweredAt(v, s)
  BY DEF v, RaisedAt, LoweredAt
<1> QED
  BY <1>1, <1>5, <1>6, <1>7

\* Raising a count of the alphabet raises the same one of the capacity.
LEMMA WideUpdate ==
  ASSUME NEW cap \in Nat, NEW n \in 0 .. cap, NEW c \in [0 .. n - 1 -> Nat], NEW s \in 0 .. n - 1
  PROVE  RaisedAt(Wide(c, n, cap), s) = Wide(RaisedAt(c, s), n, cap)
<1> DEFINE d == [c EXCEPT ![s] = @ + 1]
           w == Wide(c, n, cap)
           w2 == Wide(d, n, cap)
<1>1. d \in [0 .. n - 1 -> Nat] /\ \A x \in 0 .. n - 1 : d[x] = IF x = s THEN c[s] + 1 ELSE c[x]
  OBVIOUS
<1> HIDE DEF d
<1>2. /\ w2 \in [0 .. cap - 1 -> Nat]
      /\ \A x \in 0 .. cap - 1 : w2[x] = IF x < n THEN d[x] ELSE 0
  BY <1>1, WideFacts
<1>3. /\ w \in [0 .. cap - 1 -> Nat]
      /\ \A x \in 0 .. cap - 1 : w[x] = IF x < n THEN c[x] ELSE 0
  BY WideFacts
<1> HIDE DEF w, w2
<1>4. s \in 0 .. cap - 1 /\ s < n
  OBVIOUS
<1>5. ASSUME NEW x \in 0 .. cap - 1 PROVE w2[x] = IF x = s THEN w[s] + 1 ELSE w[x]
  BY <1>1, <1>2, <1>3, <1>4
<1>6. w2 = [w EXCEPT ![s] = @ + 1]
  BY <1>2, <1>3, <1>4, <1>5
<1> QED
  BY <1>6 DEF w, w2, d, RaisedAt

\* A coded symbol keeps a row a row, and undoing it restores the row.
LEMMA RowUpdate ==
  ASSUME NEW n, NEW cap, NEW t, Row(t, n, cap), NEW s \in 0 .. n - 1, t.total + 1 < Word
  PROVE  /\ Row(Update(t, s), n, cap)
         /\ Update(t, s).total = t.total + 1
         /\ Downdate(Update(t, s), s) = t
<1>1. PICK c, w, tree, total :
        c = t.counts /\ w = Wide(c, n, cap) /\ tree = t.tree /\ total = t.total
  OBVIOUS
<1>2. /\ cap \in Nat /\ n \in 1 .. cap
      /\ c \in [0 .. n - 1 -> Nat \ {0}]
      /\ Weighs(tree, w, cap) /\ total = FenwickPrefix(tree, cap)
  BY <1>1 DEF Row
<1>3. total \in Nat
  BY <1>1, RowFacts
<1>4. t = [counts |-> c, tree |-> tree, total |-> total]
  BY <1>1 DEF Row
<1>5. n \in 0 .. cap /\ s \in 0 .. cap - 1 /\ c \in [0 .. n - 1 -> Nat]
  BY <1>2
<1>6. PICK d : d = [c EXCEPT ![s] = @ + 1]
  OBVIOUS
<1>7. d \in [0 .. n - 1 -> Nat \ {0}]
  BY <1>2, <1>6
<1>8. PICK v : v = [w EXCEPT ![s] = @ + 1]
  OBVIOUS
<1>9. v = Wide(d, n, cap)
  <2>1. cap \in Nat
    BY <1>2
  <2>2. v = [Wide(c, n, cap) EXCEPT ![s] = @ + 1]
    BY <1>1, <1>8
  <2>3. v = Wide([c EXCEPT ![s] = @ + 1], n, cap)
    <3>1. n \in 0 .. cap
      BY <1>5
    <3>2. c \in [0 .. n - 1 -> Nat]
      BY <1>5
    <3>3. s \in 0 .. n - 1
      OBVIOUS
    <3>4. RaisedAt(Wide(c, n, cap), s) = Wide(RaisedAt(c, s), n, cap)
      BY ONLY <2>1, <3>1, <3>2, <3>3, WideUpdate
    <3> QED
      BY ONLY <2>2, <3>4 DEF RaisedAt
  <2> QED
    BY <1>6, <2>3
<1>10. PICK up : up = FenwickAdd(tree, s, 1)
  OBVIOUS
<1>11. Weighs(up, v, cap) /\ FenwickPrefix(up, cap) = total + 1
  <2>1. FenwickPrefix(tree, cap) + 1 < Word
    BY <1>1, <1>2
  <2> QED
    BY <1>2, <1>5, <1>8, <1>10, <2>1, AddWeight
<1>12. Update(t, s) = [counts |-> d, tree |-> up, total |-> total + 1]
  BY <1>1, <1>6, <1>10 DEF Update
<1>13. Row(Update(t, s), n, cap)
  BY <1>2, <1>7, <1>9, <1>11, <1>12 DEF Row
<1>14. Downdate(Update(t, s), s) = [counts |-> [d EXCEPT ![s] = @ - 1],
                                    tree |-> FenwickAdd(up, s, MinusOne), total |-> (total + 1) - 1]
  BY <1>12 DEF Downdate
<1>15. [d EXCEPT ![s] = @ - 1] = c
  <2>1. PICK D : D = 0 .. n - 1
    OBVIOUS
  <2>2. c \in [D -> Nat] /\ s \in D
    BY <1>5, <2>1
  <2>3. LoweredAt(RaisedAt(c, s), s) = c
    BY ONLY <2>2, UpAndDown
  <2> QED
    BY <1>6, <2>3 DEF RaisedAt, LoweredAt
<1>16. w \in [0 .. cap - 1 -> Nat]
  BY <1>2 DEF Weighs
<1>17. v[s] >= 1 /\ [v EXCEPT ![s] = @ - 1] = w
  <2>1. /\ [w EXCEPT ![s] = @ + 1][s] >= 1
        /\ [[w EXCEPT ![s] = @ + 1] EXCEPT ![s] = @ - 1] = w
    <3>1. PICK D : D = 0 .. cap - 1
      OBVIOUS
    <3>2. w \in [D -> Nat]
      BY <1>16, <3>1
    <3>3. s \in D
      BY <1>5, <3>1
    <3>4. RaisedAt(w, s)[s] >= 1 /\ LoweredAt(RaisedAt(w, s), s) = w
      BY ONLY <3>2, <3>3, UpAndDown
    <3> QED
      BY ONLY <3>4 DEF RaisedAt, LoweredAt
  <2> QED
    BY <1>8, <2>1
<1>18. FenwickAdd(up, s, MinusOne) = tree
  <2>1. Weighs(FenwickAdd(up, s, MinusOne), w, cap)
    BY <1>5, <1>11, <1>17, TakeWeight
  <2> QED
    BY <1>2, <2>1, WeightsDecide
<1>19. (total + 1) - 1 = total
  BY <1>3
<1> QED
  BY <1>1, <1>4, <1>12, <1>13, <1>14, <1>15, <1>18, <1>19

\* A new table.
LEMMA RowNew ==
  ASSUME NEW cap \in Nat, NEW n \in 1 .. cap, n < Word
  PROVE  /\ Row(NewTable(n, cap), n, cap) /\ NewTable(n, cap).total = n
<1> DEFINE ones == [s \in 0 .. (n - 1) |-> 1]
           t == NewTable(n, cap)
           S == {k \in Nat : SumCounts(ones, k) = k}
<1>0. n \in Nat /\ n \in 0 .. cap
  OBVIOUS
<1>1. ones \in [0 .. n - 1 -> Nat \ {0}] /\ ones \in [0 .. n - 1 -> Nat]
  OBVIOUS
<1>2. t.counts = ones /\ t.tree = TreeOf(ones, cap) /\ t.total = n
      /\ t = [counts |-> t.counts, tree |-> t.tree, total |-> t.total]
  BY DEF NewTable
<1>3. \A k \in 0 .. n - 1 : ones[k] = 1
  OBVIOUS
<1> HIDE DEF ones, t
<1>4. 0 \in S
  BY <1>0, <1>1, SumFacts
<1>5. ASSUME NEW k \in 0 .. n - 1, k \in S PROVE k + 1 \in S
  <2>1. SumCounts(ones, k + 1) = SumCounts(ones, k) + ones[k]
    BY <1>0, <1>1, SumFacts
  <2> QED
    BY <1>3, <1>5, <2>1
<1> HIDE DEF S
<1>6. \A k \in 0 .. n : k \in S
  BY <1>0, <1>4, <1>5, InductionUpTo
<1>7. SumCounts(ones, n) = n
  <2>1. n \in S
    BY <1>0, <1>6
  <2> QED
    BY <2>1 DEF S
<1>8. Weighs(TreeOf(ones, cap), Wide(ones, n, cap), cap)
  BY <1>0, <1>1, <1>7, TreeOfFacts
<1>9. FenwickPrefix(TreeOf(ones, cap), cap) = n
  BY <1>0, <1>1, <1>7, <1>8, PrefixIsSum
<1>10. Row(t, n, cap)
  BY <1>1, <1>2, <1>8, <1>9 DEF Row
<1> QED
  BY <1>2, <1>10 DEF t

----------------------------------------------------------------------------
(* The numbers behind the digits.                                          *)

\* Powers of the base are positive and grow by it.
LEMMA PowerFacts ==
  /\ DigitTo(0) = 1
  /\ \A n \in Nat : DigitTo(n) \in Nat \ {0} /\ DigitTo(n + 1) = Digit * DigitTo(n)
<1> DEFINE X == Nat \ {0}
           st == [n \in Nat |-> [x \in X |-> Digit * x]]
           p == [n \in Nat |-> IF n = 0 THEN 0 ELSE n - 1]
           G(g, k) == g = [i \in 0 .. k |-> IF i = 0 THEN 1 ELSE Digit * g[i - 1]]
<1>1. \A x \in X : Digit * x \in X
  BY CoderAssumption
<1>2. st \in [Nat -> [X -> X]] /\ \A n \in Nat : \A x \in X : st[n][x] = Digit * x
  BY <1>1
<1>3. p \in [Nat -> Nat] /\ \A n \in Nat \ {0} : p[n] = n - 1 /\ p[n] < n
  OBVIOUS
<1>4. 1 \in X
  OBVIOUS
<1> HIDE DEF st, p, X
<1>5. Recursion(X, 1, st, p)
  BY <1>2, <1>3, <1>4 DEF Recursion
<1>6. PICK f : Solves(f, X, 1, st, p)
  BY <1>5, Descending
<1>7. f \in [Nat -> X] /\ f[0] = 1
  BY <1>6 DEF Solves
<1>8. \A k \in Nat \ {0} : f[k] = Digit * f[k - 1]
  <2> TAKE k \in Nat \ {0}
  <2>1. f[k] = st[k][f[k - 1]]
    BY <1>3, <1>6 DEF Solves
  <2>2. k \in Nat /\ f[k - 1] \in X
    BY <1>7
  <2> QED
    BY <1>2, <2>1, <2>2
<1>9. ASSUME NEW k \in Nat PROVE DigitTo(k) = f[k]
  <2> DEFINE g0 == [i \in 0 .. k |-> f[i]]
             h == CHOOSE h : G(h, k)
  <2>1. G(g0, k)
    <3>1. \A i \in 0 .. k : g0[i] = IF i = 0 THEN 1 ELSE Digit * g0[i - 1]
      BY <1>7, <1>8
    <3> QED
      BY <3>1
  <2>2. G(h, k)
    BY <2>1
  <2>3. DigitTo(k) = h[k]
    BY DEF DigitTo
  <2> HIDE DEF h
  <2>4. h[0] = 1 /\ \A i \in 1 .. k : h[i] = Digit * h[i - 1]
    BY <2>2
  <2> DEFINE S == {i \in Nat : h[i] = f[i]}
  <2>5. 0 \in S
    BY <1>7, <2>4
  <2>6. ASSUME NEW i \in 0 .. k - 1, i \in S PROVE i + 1 \in S
    <3>1. i + 1 \in 1 .. k /\ i + 1 \in Nat \ {0} /\ (i + 1) - 1 = i
      OBVIOUS
    <3>2. h[i + 1] = Digit * h[i] /\ f[i + 1] = Digit * f[i]
      BY <1>8, <2>4, <3>1
    <3> QED
      BY <2>6, <3>1, <3>2
  <2> HIDE DEF S
  <2>7. \A i \in 0 .. k : i \in S
    BY <2>5, <2>6, InductionUpTo
  <2>8. h[k] = f[k]
    BY <2>7 DEF S
  <2> QED
    BY <2>3, <2>8
<1>10. ASSUME NEW n \in Nat
       PROVE  DigitTo(n) \in Nat \ {0} /\ DigitTo(n + 1) = Digit * DigitTo(n)
  <2>1. n + 1 \in Nat \ {0} /\ (n + 1) - 1 = n
    OBVIOUS
  <2>2. DigitTo(n) = f[n] /\ DigitTo(n + 1) = f[n + 1] /\ f[n + 1] = Digit * f[n]
    BY <1>8, <1>9, <2>1
  <2>3. f[n] \in Nat \ {0}
    BY <1>7 DEF X
  <2> QED
    BY <2>2, <2>3
<1>11. DigitTo(0) = 1
  BY <1>7, <1>9
<1> QED
  BY <1>10, <1>11

\* The powers that bound low and range.
LEMMA FullFacts ==
  /\ Digit \in Nat /\ Digit >= 2 /\ Top \in Nat /\ Top >= Digit /\ Full \in Nat
  /\ Full = Digit * Top /\ Full >= Digit /\ Top < Full /\ Full >= 2 * Top
<1>1. Digit \in Nat /\ Digit >= 2 /\ Width \in Nat /\ Width >= 2
  BY CoderAssumption
<1>2. PICK v \in Nat : Width = v + 2
  <2>1. Width - 2 \in Nat /\ Width = (Width - 2) + 2
    BY <1>1
  <2> QED
    BY <2>1
<1>3. PICK d \in Nat \ {0} : d = DigitTo(v)
  BY PowerFacts
<1>4. Top = Digit * d
  <2>1. Width - 1 = v + 1
    BY <1>2
  <2> QED
    BY <1>3, <2>1, PowerFacts DEF Top
<1>5. Full = Digit * Top
  <2>1. Width = (v + 1) + 1 /\ Width - 1 = v + 1 /\ v + 1 \in Nat
    BY <1>2
  <2>2. DigitTo((v + 1) + 1) = Digit * DigitTo(v + 1)
    BY <2>1, PowerFacts
  <2> QED
    BY <2>1, <2>2 DEF Full, Top
<1>6. \A a \in Nat : \A b \in Nat \ {0} : a * b \in Nat /\ a * b >= a
  OBVIOUS
<1>7. Top \in Nat /\ Top >= Digit
  BY <1>1, <1>3, <1>4, <1>6
<1>8. \A a, b \in Nat : a >= 2 => a * b \in Nat /\ a * b >= 2 * b
  OBVIOUS
<1>9. Full \in Nat /\ Full >= 2 * Top
  BY <1>1, <1>5, <1>7, <1>8
<1> QED
  BY <1>1, <1>5, <1>7, <1>9

Digits == 0 .. Digit - 1

DigitAt(s, i) == IF i <= Len(s) THEN s[i] ELSE 0

\* The number that the first k digits of a sequence stand for, zeros after its end.
Value(s, k) == LET v[i \in 0 .. k] == IF i = 0 THEN 0 ELSE Digit * v[i - 1] + DigitAt(s, i)
               IN  v[k]

\* A place of a sequence holds a digit.
LEMMA DigitAtFacts ==
  ASSUME NEW s \in Seq(Digits), NEW i \in Nat \ {0}
  PROVE  DigitAt(s, i) \in Nat /\ DigitAt(s, i) < Digit
<1>1. CASE i <= Len(s)
  <2>1. i \in 1 .. Len(s)
    BY <1>1
  <2>2. s[i] \in Digits
    BY <2>1
  <2> QED
    BY <1>1, <2>2, FullFacts DEF Digits, DigitAt
<1>2. CASE ~(i <= Len(s))
  BY <1>2, FullFacts DEF DigitAt
<1> QED
  BY <1>1, <1>2

\* A value grows digit by digit.
LEMMA ValueFacts ==
  ASSUME NEW s \in Seq(Digits)
  PROVE  /\ Value(s, 0) = 0
         /\ \A n \in Nat : Value(s, n) \in Nat /\ Value(s, n + 1) = Digit * Value(s, n) + DigitAt(s, n + 1)
<1> DEFINE st == [n \in Nat |-> [x \in Nat |-> IF n = 0 THEN 0 ELSE Digit * x + DigitAt(s, n)]]
           p == [n \in Nat |-> IF n = 0 THEN 0 ELSE n - 1]
           G(g, k) == g = [i \in 0 .. k |-> IF i = 0 THEN 0 ELSE Digit * g[i - 1] + DigitAt(s, i)]
<1>1. \A n \in Nat \ {0} : \A x \in Nat : Digit * x + DigitAt(s, n) \in Nat
  <2> TAKE n \in Nat \ {0}
  <2> TAKE x \in Nat
  <2>1. DigitAt(s, n) \in Nat
    BY DigitAtFacts
  <2>2. Digit * x \in Nat
    BY FullFacts
  <2> QED
    BY <2>1, <2>2
<1>2. st \in [Nat -> [Nat -> Nat]]
      /\ \A n \in Nat \ {0} : \A x \in Nat : st[n][x] = Digit * x + DigitAt(s, n)
  BY <1>1
<1>3. p \in [Nat -> Nat] /\ \A n \in Nat \ {0} : p[n] = n - 1 /\ p[n] < n
  OBVIOUS
<1> HIDE DEF st, p
<1>5. Recursion(Nat, 0, st, p)
  BY <1>2, <1>3 DEF Recursion
<1>6. PICK f : Solves(f, Nat, 0, st, p)
  BY <1>5, Descending
<1>7. f \in [Nat -> Nat] /\ f[0] = 0
  BY <1>6 DEF Solves
<1>8. \A k \in Nat \ {0} : f[k] = Digit * f[k - 1] + DigitAt(s, k)
  <2> TAKE k \in Nat \ {0}
  <2>1. f[k] = st[k][f[k - 1]]
    BY <1>3, <1>6 DEF Solves
  <2>2. k \in Nat /\ f[k - 1] \in Nat
    BY <1>7
  <2> QED
    BY <1>2, <2>1, <2>2
<1>9. ASSUME NEW k \in Nat PROVE Value(s, k) = f[k]
  <2> DEFINE g0 == [i \in 0 .. k |-> f[i]]
             h == CHOOSE h : G(h, k)
  <2>1. G(g0, k)
    <3>1. \A i \in 0 .. k : g0[i] = IF i = 0 THEN 0 ELSE Digit * g0[i - 1] + DigitAt(s, i)
      BY <1>7, <1>8
    <3> QED
      BY <3>1
  <2>2. G(h, k)
    BY <2>1
  <2>3. Value(s, k) = h[k]
    BY DEF Value
  <2> HIDE DEF h
  <2>4. h[0] = 0 /\ \A i \in 1 .. k : h[i] = Digit * h[i - 1] + DigitAt(s, i)
    BY <2>2
  <2> DEFINE S == {i \in Nat : h[i] = f[i]}
  <2>5. 0 \in S
    BY <1>7, <2>4
  <2>6. ASSUME NEW i \in 0 .. k - 1, i \in S PROVE i + 1 \in S
    <3>1. i + 1 \in 1 .. k /\ i + 1 \in Nat \ {0} /\ (i + 1) - 1 = i
      OBVIOUS
    <3>2. h[i + 1] = Digit * h[i] + DigitAt(s, i + 1) /\ f[i + 1] = Digit * f[i] + DigitAt(s, i + 1)
      BY <1>8, <2>4, <3>1
    <3> QED
      BY <2>6, <3>1, <3>2
  <2> HIDE DEF S
  <2>7. \A i \in 0 .. k : i \in S
    BY <2>5, <2>6, InductionUpTo
  <2>8. h[k] = f[k]
    BY <2>7 DEF S
  <2> QED
    BY <2>3, <2>8
<1>10. ASSUME NEW n \in Nat
       PROVE  Value(s, n) \in Nat /\ Value(s, n + 1) = Digit * Value(s, n) + DigitAt(s, n + 1)
  <2>1. n + 1 \in Nat \ {0} /\ (n + 1) - 1 = n
    OBVIOUS
  <2>2. Value(s, n) = f[n] /\ Value(s, n + 1) = f[n + 1]
        /\ f[n + 1] = Digit * f[n] + DigitAt(s, n + 1)
    BY <1>8, <1>9, <2>1
  <2>3. f[n] \in Nat
    BY <1>7
  <2> QED
    BY <2>2, <2>3
<1>11. Value(s, 0) = 0
  BY <1>7, <1>9
<1> QED
  BY <1>10, <1>11

\* The same digits have the same value.
LEMMA SameDigits ==
  ASSUME NEW s \in Seq(Digits), NEW t \in Seq(Digits), NEW n \in Nat,
         \A i \in 1 .. n : DigitAt(s, i) = DigitAt(t, i)
  PROVE  Value(s, n) = Value(t, n)
<1> DEFINE S == {k \in Nat : Value(s, k) = Value(t, k)}
<1>1. 0 \in S
  BY ValueFacts
<1>2. ASSUME NEW k \in 0 .. n - 1, k \in S PROVE k + 1 \in S
  <2>1. k \in Nat /\ k + 1 \in 1 .. n
    OBVIOUS
  <2>2. Value(s, k + 1) = Digit * Value(s, k) + DigitAt(s, k + 1)
    BY <2>1, ValueFacts
  <2>3. Value(t, k + 1) = Digit * Value(t, k) + DigitAt(t, k + 1)
    BY <2>1, ValueFacts
  <2> QED
    BY <1>2, <2>1, <2>2, <2>3
<1> HIDE DEF S
<1>3. \A k \in 0 .. n : k \in S
  BY <1>1, <1>2, InductionUpTo
<1>4. n \in S
  BY <1>3
<1> QED
  BY <1>4 DEF S

\* Digits of a sequence with others after it.
LEMMA JoinedDigits ==
  ASSUME NEW s \in Seq(Digits), NEW t \in Seq(Digits)
  PROVE  /\ s \o t \in Seq(Digits) /\ Len(s \o t) = Len(s) + Len(t)
         /\ \A i \in 1 .. Len(s) : DigitAt(s \o t, i) = s[i] /\ DigitAt(s, i) = s[i]
         /\ \A j \in 1 .. Len(t) : DigitAt(s \o t, Len(s) + j) = t[j]
<1>1. s \o t \in Seq(Digits) /\ Len(s \o t) = Len(s) + Len(t) /\ Len(s) \in Nat /\ Len(t) \in Nat
  OBVIOUS
<1>2. ASSUME NEW i \in 1 .. Len(s) PROVE DigitAt(s \o t, i) = s[i] /\ DigitAt(s, i) = s[i]
  <2>1. (s \o t)[i] = s[i] /\ i <= Len(s) /\ i <= Len(s \o t)
    BY <1>1
  <2> QED
    BY <2>1 DEF DigitAt
<1>3. ASSUME NEW j \in 1 .. Len(t) PROVE DigitAt(s \o t, Len(s) + j) = t[j]
  <2>1. (s \o t)[Len(s) + j] = t[j] /\ Len(s) + j <= Len(s \o t)
    BY <1>1
  <2> QED
    BY <2>1 DEF DigitAt
<1> QED
  BY <1>1, <1>2, <1>3

----------------------------------------------------------------------------
(* What a shift does.                                                      *)

Coder == [low : 0 .. 2 * Full - 1, range : 0 .. Full - 1, cache : Digits,
          cacheSize : Nat \ {0}, out : Seq(Digits)]

\* The digits written and held back, how many they are, and the number that they and low
\* stand for.
Held(e, carry) ==
  [i \in 1 .. e.cacheSize |-> ((IF i = 1 THEN e.cache ELSE Digit - 1) + carry) % Digit]

Places(e)  == Len(e.out) + e.cacheSize

Pending(e) == Value(e.out \o Held(e, 0), Places(e))

Number(e)  == Pending(e) * Full + e.low

\* What is held back is a sequence of digits.
LEMMA HeldFacts ==
  ASSUME NEW e \in Coder, NEW carry \in {0, 1}, e.cache = Digit - 1 => carry = 0
  PROVE  /\ Held(e, carry) \in Seq(Digits) /\ Len(Held(e, carry)) = e.cacheSize
         /\ \A i \in 1 .. e.cacheSize : Held(e, carry)[i] =
              IF i = 1 THEN e.cache + carry ELSE IF carry = 0 THEN Digit - 1 ELSE 0
<1>1. e.cache \in Nat /\ e.cache < Digit /\ e.cacheSize \in Nat
  BY FullFacts DEF Coder, Digits
<1>2. \A x \in Nat : x < Digit => x % Digit = x
  BY FullFacts
<1>3. Digit % Digit = 0
  BY FullFacts
<1> DEFINE h == Held(e, carry)
<1>4. ASSUME NEW i \in 1 .. e.cacheSize
      PROVE  h[i] = IF i = 1 THEN e.cache + carry ELSE IF carry = 0 THEN Digit - 1 ELSE 0
  <2>1. h[i] = ((IF i = 1 THEN e.cache ELSE Digit - 1) + carry) % Digit
    BY DEF Held
  <2>2. CASE i = 1
    <3>1. e.cache + carry \in Nat /\ e.cache + carry < Digit
      BY <1>1, FullFacts
    <3> HIDE DEF h
    <3> QED
      BY <1>2, <2>1, <2>2, <3>1
  <2>3. CASE i # 1 /\ carry = 0
    <3>1. Digit - 1 \in Nat /\ Digit - 1 < Digit /\ (Digit - 1) + 0 = Digit - 1
      BY FullFacts
    <3>2. h[i] = (Digit - 1) % Digit
      BY <2>1, <2>3, <3>1
    <3> HIDE DEF h
    <3> QED
      BY <1>2, <2>3, <3>1, <3>2
  <2>4. CASE i # 1 /\ carry = 1
    <3>1. (Digit - 1) + 1 = Digit
      BY FullFacts
    <3>2. h[i] = Digit % Digit
      BY <2>1, <2>4, <3>1
    <3> HIDE DEF h
    <3> QED
      BY <1>3, <2>4, <3>2
  <2> QED
    BY <2>2, <2>3, <2>4
<1>5. h = [i \in 1 .. e.cacheSize |-> h[i]]
  BY DEF Held
<1> HIDE DEF h
<1>6. \A i \in 1 .. e.cacheSize : h[i] \in Digits
  BY <1>1, <1>4, FullFacts DEF Digits
<1>7. h \in [1 .. e.cacheSize -> Digits]
  BY <1>5, <1>6
<1>8. h \in Seq(Digits) /\ Len(h) = e.cacheSize
  BY <1>1, <1>7, FunctionIsSeq
<1> QED
  BY <1>4, <1>8 DEF h

\* A carry adds one to the digits held.
LEMMA CarryFacts ==
  ASSUME NEW e \in Coder, NEW carry \in {0, 1}, e.cache = Digit - 1 => carry = 0
  PROVE  /\ e.out \o Held(e, carry) \in Seq(Digits)
         /\ Len(e.out \o Held(e, carry)) = Places(e)
         /\ Places(e) \in Nat
         /\ Pending(e) \in Nat
         /\ Value(e.out \o Held(e, carry), Places(e)) = Pending(e) + carry
<1>1. PICK o, s0, s1, n : o = e.out /\ n = e.cacheSize /\ s0 = Held(e, 0) /\ s1 = Held(e, carry)
  OBVIOUS
<1>2. o \in Seq(Digits) /\ n \in Nat \ {0} /\ Len(o) \in Nat /\ e.cache \in Nat /\ e.cache < Digit
  BY <1>1, FullFacts DEF Coder, Digits
<1>3. /\ s0 \in Seq(Digits) /\ Len(s0) = n
      /\ \A i \in 1 .. n : s0[i] = IF i = 1 THEN e.cache ELSE Digit - 1
  BY <1>1, <1>2, HeldFacts
<1>4. /\ s1 \in Seq(Digits) /\ Len(s1) = n
      /\ \A i \in 1 .. n : s1[i] = IF i = 1 THEN e.cache + carry ELSE IF carry = 0 THEN Digit - 1 ELSE 0
  BY <1>1, HeldFacts
<1>5. PICK p0, p1 : p0 = o \o s0 /\ p1 = o \o s1
  OBVIOUS
<1>6. /\ p0 \in Seq(Digits) /\ Len(p0) = Len(o) + n
      /\ \A i \in 1 .. Len(o) : DigitAt(p0, i) = o[i]
      /\ \A j \in 1 .. n : DigitAt(p0, Len(o) + j) = s0[j]
  BY <1>2, <1>3, <1>5, JoinedDigits
<1>7. /\ p1 \in Seq(Digits) /\ Len(p1) = Len(o) + n
      /\ \A i \in 1 .. Len(o) : DigitAt(p1, i) = o[i]
      /\ \A j \in 1 .. n : DigitAt(p1, Len(o) + j) = s1[j]
  BY <1>2, <1>4, <1>5, JoinedDigits
<1>8. Value(p1, Len(o)) = Value(p0, Len(o))
  <2>1. \A i \in 1 .. Len(o) : DigitAt(p1, i) = DigitAt(p0, i)
    BY <1>6, <1>7
  <2> QED
    BY <1>2, <1>6, <1>7, <2>1, SameDigits
<1>9. \A k \in Nat : Value(p0, k) \in Nat /\ Value(p0, k + 1) = Digit * Value(p0, k) + DigitAt(p0, k + 1)
  BY <1>6, ValueFacts
<1>10. \A k \in Nat : Value(p1, k) \in Nat /\ Value(p1, k + 1) = Digit * Value(p1, k) + DigitAt(p1, k + 1)
  BY <1>7, ValueFacts
<1> DEFINE S == {j \in Nat : j >= 1 => Value(p1, Len(o) + j) = Value(p0, Len(o) + j) + carry}
<1>11. 0 \in S
  OBVIOUS
<1>12. ASSUME NEW j \in 0 .. n - 1, j \in S PROVE j + 1 \in S
  <2>1. PICK k \in Nat : k = Len(o) + j
    BY <1>2
  <2>2. PICK v, w : v = Value(p0, k) /\ w = Value(p1, k)
    OBVIOUS
  <2>3. v \in Nat /\ w \in Nat
    BY <1>9, <1>10, <2>1, <2>2
  <2>4. Len(o) + (j + 1) = k + 1 /\ j + 1 \in 1 .. n /\ j \in Nat
    BY <1>2, <2>1
  <2>5. DigitAt(p0, k + 1) = s0[j + 1] /\ DigitAt(p1, k + 1) = s1[j + 1]
    BY <1>6, <1>7, <2>4
  <2>6. Value(p0, k + 1) = Digit * v + s0[j + 1] /\ Value(p1, k + 1) = Digit * w + s1[j + 1]
    BY <1>9, <1>10, <2>1, <2>2, <2>5
  <2>7. CASE j = 0
    <3>1. w = v
      BY <1>2, <1>8, <2>1, <2>2, <2>7
    <3>2. s0[j + 1] = e.cache /\ s1[j + 1] = e.cache + carry
      BY <1>3, <1>4, <2>4, <2>7
    <3>3. Digit * v \in Nat
      BY <2>3, FullFacts
    <3>4. Value(p1, k + 1) = Value(p0, k + 1) + carry
      BY <1>2, <2>6, <3>1, <3>2, <3>3
    <3> QED
      BY <2>4, <3>4
  <2>8. CASE j >= 1
    <3>1. w = v + carry
      BY <1>12, <2>1, <2>2, <2>8
    <3>2. s0[j + 1] = Digit - 1 /\ s1[j + 1] = IF carry = 0 THEN Digit - 1 ELSE 0
      BY <1>3, <1>4, <2>4, <2>8
    <3>3. CASE carry = 0
      BY <2>3, <2>4, <2>6, <3>1, <3>2, <3>3, FullFacts
    <3>4. CASE carry = 1
      <4>1. Digit * (v + 1) = Digit * v + Digit /\ Digit * v \in Nat
        BY <2>3, FullFacts
      <4>2. Value(p1, k + 1) = Value(p0, k + 1) + 1
        BY <2>6, <3>1, <3>2, <3>4, <4>1, FullFacts
      <4> QED
        BY <2>4, <3>4, <4>2
    <3> QED
      BY <3>3, <3>4
  <2> QED
    BY <2>4, <2>7, <2>8
<1> HIDE DEF S
<1>13. \A j \in 0 .. n : j \in S
  BY <1>2, <1>11, <1>12, InductionUpTo
<1>14. Value(p1, Len(o) + n) = Value(p0, Len(o) + n) + carry
  <2>1. n \in S
    BY <1>2, <1>13
  <2> QED
    BY <1>2, <2>1 DEF S
<1>15. Places(e) = Len(o) + n /\ Len(o) + n \in Nat
  BY <1>1, <1>2 DEF Places
<1>16. Pending(e) = Value(p0, Len(o) + n)
  BY <1>1, <1>5, <1>15 DEF Pending
<1> QED
  BY <1>1, <1>5, <1>7, <1>9, <1>14, <1>15, <1>16

\* Dividing low by the weight of its first digit.
LEMMA FirstDigit ==
  ASSUME NEW low \in 0 .. Full - 1
  PROVE  /\ low \div Top \in Digits
         /\ (low * Digit) % Full \in 0 .. Full - 1
         /\ Digit * low = (low \div Top) * Full + ((low * Digit) % Full)
         /\ low < (Digit - 1) * Top <=> low \div Top # Digit - 1
<1>1. PICK D, T, F : D = Digit /\ T = Top /\ F = Full
  OBVIOUS
<1>2. /\ D \in Nat /\ D >= 2 /\ T \in Nat /\ T >= D /\ F \in Nat /\ F = D * T /\ T \in Nat \ {0}
      /\ F \in Nat \ {0}
  BY <1>1, FullFacts
<1>3. low \in Nat /\ low < F
  BY <1>1, FullFacts
<1>4. PICK q, r : q = low \div T /\ r = low % T
  OBVIOUS
<1>5. q \in Nat /\ r \in Nat /\ r < T /\ low = T * q + r
  BY <1>2, <1>3, <1>4
<1>6. q < D
  <2>1. T * q < T * D
    <3>1. T * q \in Nat /\ T * D = D * T
      BY <1>2, <1>5
    <3> QED
      BY <1>2, <1>3, <1>5, <3>1
  <2>2. \A a, b \in Nat : \A c \in Nat : c * a < c * b => a < b
    OBVIOUS
  <2> QED
    BY <1>2, <1>5, <2>1, <2>2
<1>7. low * D = F * q + D * r
  <2>1. \A a, b, x, y \in Nat : (a * b + x) * y = (y * a) * b + y * x
    OBVIOUS
  <2> QED
    BY <1>2, <1>5, <2>1
<1>8. D * r \in Nat /\ D * r < F
  <2>1. \A a, b, c \in Nat : c >= 1 /\ a < b => c * a < c * b /\ c * a \in Nat
    OBVIOUS
  <2> QED
    BY <1>2, <1>5, <2>1
<1>9. (low * D) % F = D * r
  <2>1. \A b \in Nat \ {0} : \A x, y \in Nat : y < b => (b * x + y) % b = y
    OBVIOUS
  <2> QED
    BY <1>2, <1>5, <1>7, <1>8, <2>1
<1>10. D * low = q * F + D * r
  <2>1. D * low = low * D /\ F * q = q * F
    BY <1>2, <1>3, <1>5
  <2> QED
    BY <1>7, <2>1
<1>11. low < (D - 1) * T <=> q # D - 1
  <2>1. D - 1 \in Nat /\ (D - 1) * T \in Nat
    BY <1>2
  <2>2. CASE q = D - 1
    <3>1. low = (D - 1) * T + r
      <4>1. T * q = (D - 1) * T
        BY <1>2, <2>1, <2>2
      <4> QED
        BY <1>5, <4>1
    <3> QED
      BY <1>5, <2>1, <2>2, <3>1
  <2>3. CASE q # D - 1
    <3>1. q + 1 <= D - 1
      BY <1>2, <1>5, <1>6, <2>3
    <3>2. T * q + T = T * (q + 1)
      BY <1>2, <1>5
    <3>3. T * (q + 1) <= T * (D - 1)
      <4>1. \A a, b, c \in Nat : a <= b => c * a <= c * b
        OBVIOUS
      <4> QED
        BY <1>2, <1>5, <2>1, <3>1, <4>1
    <3>4. T * (D - 1) = (D - 1) * T /\ T * q \in Nat
      BY <1>2, <1>5, <2>1
    <3> QED
      BY <1>2, <1>3, <1>5, <2>1, <2>3, <3>2, <3>3, <3>4
  <2> QED
    BY <2>2, <2>3
<1> QED
  BY <1>1, <1>2, <1>4, <1>5, <1>6, <1>8, <1>9, <1>10, <1>11 DEF Digits

\* A shift, seen through its quotients.
Shifted(f, e, low, carry, first) ==
  /\ low \in 0 .. Full - 1 /\ carry \in {0, 1} /\ e.low = carry * Full + low
  /\ first = low \div Top
  /\ f.low = (low * Digit) % Full /\ f.range = e.range
  /\ IF first # Digit - 1 \/ carry # 0
     THEN f.out = e.out \o Held(e, carry) /\ f.cache = first /\ f.cacheSize = 1
     ELSE f.out = e.out /\ f.cache = e.cache /\ f.cacheSize = e.cacheSize + 1
  /\ f = [low |-> f.low, range |-> f.range, cache |-> f.cache, cacheSize |-> f.cacheSize,
          out |-> f.out]

\* A shift, field by field.
LEMMA ShiftSteps ==
  ASSUME NEW e \in Coder
  PROVE  \E low, carry, first : Shifted(ShiftLow(e), e, low, carry, first)
<1>1. e.low \in Nat /\ e.low < 2 * Full /\ Full \in Nat \ {0}
  BY FullFacts DEF Coder
<1>2. PICK low, carry, first : low = e.low % Full /\ carry = e.low \div Full /\ first = low \div Top
  OBVIOUS
<1>3. low \in 0 .. Full - 1 /\ carry \in Nat /\ e.low = Full * carry + low
  <2>1. \A a \in Nat : \A b \in Nat \ {0} :
          a % b \in 0 .. b - 1 /\ a \div b \in Nat /\ a = b * (a \div b) + (a % b)
    OBVIOUS
  <2> QED
    BY <1>1, <1>2, <2>1
<1>4. carry \in {0, 1}
  <2>1. CASE carry >= 2
    <3>1. \A a, b \in Nat : b >= 2 => a * b >= 2 * a
      OBVIOUS
    <3>2. Full * carry >= 2 * Full /\ Full * carry \in Nat
      BY <1>1, <1>3, <2>1, <3>1
    <3> QED
      BY <1>1, <1>3, <3>2
  <2> QED
    BY <1>3, <2>1
<1>5. Full * carry = carry * Full
  BY <1>1, <1>3
<1>6. low < (Digit - 1) * Top <=> first # Digit - 1
  BY <1>2, <1>3, FirstDigit
<1>7. PICK f : f = ShiftLow(e)
  OBVIOUS
<1>8. PICK go : go = (low < (Digit - 1) * Top \/ carry # 0)
  OBVIOUS
<1>9. f = [e EXCEPT !.out       = IF go THEN @ \o Held(e, carry) ELSE @,
                    !.cache     = IF go THEN low \div Top ELSE @,
                    !.cacheSize = IF go THEN 1 ELSE @ + 1,
                    !.low       = (low * Digit) % Full]
  BY <1>2, <1>7, <1>8 DEF ShiftLow, Held
<1>10. e = [low |-> e.low, range |-> e.range, cache |-> e.cache, cacheSize |-> e.cacheSize,
            out |-> e.out]
  BY DEF Coder
<1>11. go <=> first # Digit - 1 \/ carry # 0
  BY <1>6, <1>8
<1>12. /\ f.low = (low * Digit) % Full /\ f.range = e.range
       /\ f.out = IF go THEN e.out \o Held(e, carry) ELSE e.out
       /\ f.cache = IF go THEN first ELSE e.cache
       /\ f.cacheSize = IF go THEN 1 ELSE e.cacheSize + 1
       /\ f = [low |-> f.low, range |-> f.range, cache |-> f.cache, cacheSize |-> f.cacheSize,
               out |-> f.out]
  BY <1>2, <1>9, <1>10
<1>13. Shifted(f, e, low, carry, first)
  <2>1. CASE go
    BY <1>2, <1>3, <1>4, <1>5, <1>11, <1>12, <2>1 DEF Shifted
  <2>2. CASE ~go
    BY <1>2, <1>3, <1>4, <1>5, <1>11, <1>12, <2>2 DEF Shifted
  <2> QED
    BY <2>1, <2>2
<1> QED
  BY <1>7, <1>13

\* A shift leaves a coder.
LEMMA ShiftType ==
  ASSUME NEW e \in Coder
  PROVE  ShiftLow(e) \in Coder /\ ShiftLow(e).low < Full /\ ShiftLow(e).range = e.range
<1>1. PICK f : f = ShiftLow(e)
  OBVIOUS
<1>2. PICK low, carry, first : Shifted(f, e, low, carry, first)
  BY <1>1, ShiftSteps
<1>3. e.out \in Seq(Digits) /\ e.cacheSize \in Nat \ {0} /\ e.cache \in Digits /\ e.range \in 0 .. Full - 1
  BY DEF Coder
<1>4. Held(e, carry) \in Seq(Digits)
  <2>1. \A x \in Nat : x % Digit \in Digits
    BY FullFacts DEF Digits
  <2>2. \A i \in 1 .. e.cacheSize : (IF i = 1 THEN e.cache ELSE Digit - 1) + carry \in Nat
    <3>1. carry \in Nat /\ e.cache \in Nat /\ Digit - 1 \in Nat
      <4>1. carry \in {0, 1}
        BY <1>2 DEF Shifted
      <4>2. Digit \in Nat /\ Digit > 1
        BY CoderAssumption
      <4>3. e.cache \in Nat
        BY <1>3, <4>2 DEF Digits
      <4> QED
        BY <4>1, <4>2, <4>3
    <3>2. e.cache + carry \in Nat /\ (Digit - 1) + carry \in Nat
      BY <3>1
    <3> QED
      BY <3>2
  <2>3. \A i \in 1 .. e.cacheSize :
          ((IF i = 1 THEN e.cache ELSE Digit - 1) + carry) % Digit \in Digits
    BY <2>1, <2>2
  <2>4. Held(e, carry) \in [1 .. e.cacheSize -> Digits]
    BY <2>3 DEF Held
  <2>5. e.cacheSize \in Nat
    BY <1>3
  <2> QED
    BY <2>4, <2>5, FunctionIsSeq
<1>5. e.out \o Held(e, carry) \in Seq(Digits)
  BY <1>3, <1>4
<1>6. f.low \in 0 .. Full - 1 /\ first \in Digits
  BY <1>2, FirstDigit DEF Shifted
<1>7. f.low \in 0 .. 2 * Full - 1 /\ f.low < Full /\ f.range = e.range
  <2>1. f.range = e.range
    BY <1>2 DEF Shifted
  <2>2. Full \in Nat
    BY FullFacts
  <2>3. f.low \in 0 .. 2 * Full - 1 /\ f.low < Full
    BY ONLY <1>6, <2>2
  <2> QED
    BY <2>1, <2>3
<1>8. f.out \in Seq(Digits) /\ f.cache \in Digits /\ f.cacheSize \in Nat \ {0}
  <2>1. CASE first # Digit - 1 \/ carry # 0
    <3>1. f.out = e.out \o Held(e, carry) /\ f.cache = first /\ f.cacheSize = 1
      BY <1>2, <2>1 DEF Shifted
    <3> QED
      BY <1>5, <1>6, <3>1
  <2>2. CASE ~(first # Digit - 1 \/ carry # 0)
    BY <1>2, <1>3, <2>2 DEF Shifted
  <2> QED
    BY <2>1, <2>2
<1>9. f = [low |-> f.low, range |-> f.range, cache |-> f.cache, cacheSize |-> f.cacheSize,
           out |-> f.out]
  BY <1>2 DEF Shifted
<1>10. f \in Coder
  BY <1>3, <1>7, <1>8, <1>9 DEF Coder
<1> QED
  BY <1>1, <1>7, <1>10

\* A shift multiplies the number by the base: a carry finds a digit that can take it.
LEMMA ShiftNumber ==
  ASSUME NEW e \in Coder, e.cache = Digit - 1 => e.low < Full
  PROVE  /\ Places(ShiftLow(e)) = Places(e) + 1
         /\ Number(ShiftLow(e)) = Digit * Number(e)
<1>1. PICK f : f = ShiftLow(e)
  OBVIOUS
<1>2. PICK low, carry, first : Shifted(f, e, low, carry, first)
  BY <1>1, ShiftSteps
<1>3. f \in Coder
  BY <1>1, ShiftType
<1>4. /\ low \in Nat /\ low \in 0 .. Full - 1 /\ carry \in {0, 1} /\ e.low = carry * Full + low
      /\ f.low = (low * Digit) % Full
      /\ first = low \div Top
  BY <1>2, FullFacts DEF Shifted
<1>5. e.cache = Digit - 1 => carry = 0
  BY <1>4, FullFacts
<1>6. /\ e.out \o Held(e, carry) \in Seq(Digits)
      /\ Len(e.out \o Held(e, carry)) = Places(e) /\ Places(e) \in Nat /\ Pending(e) \in Nat
      /\ Value(e.out \o Held(e, carry), Places(e)) = Pending(e) + carry
  BY <1>4, <1>5, CarryFacts
<1>7. /\ f.out \o Held(f, 0) \in Seq(Digits) /\ Len(f.out \o Held(f, 0)) = Places(f)
      /\ Held(f, 0) \in Seq(Digits) /\ Len(Held(f, 0)) = f.cacheSize
      /\ \A i \in 1 .. f.cacheSize : Held(f, 0)[i] = IF i = 1 THEN f.cache + 0 ELSE Digit - 1
  BY <1>3, CarryFacts, HeldFacts
<1>8. first \in Digits /\ first \in Nat /\ f.low \in Nat /\ Digit * low = first * Full + f.low
  <2>1. /\ low \div Top \in Digits /\ (low * Digit) % Full \in 0 .. Full - 1
        /\ Digit * low = (low \div Top) * Full + ((low * Digit) % Full)
    BY <1>4, FirstDigit
  <2>2. first \in Digits /\ f.low \in 0 .. Full - 1 /\ Digit * low = first * Full + f.low
    BY <1>4, <2>1
  <2> QED
    BY <2>2, FullFacts DEF Digits
<1>9. PICK p, q : p = e.out \o Held(e, carry) /\ q = f.out \o Held(f, 0)
  OBVIOUS
<1>10. PICK k \in Nat : k = Places(e)
  BY <1>6
<1>11. /\ p \in Seq(Digits) /\ q \in Seq(Digits) /\ Len(p) = k /\ Len(q) = Places(f)
       /\ Value(p, k) = Pending(e) + carry
  BY <1>6, <1>7, <1>9, <1>10
<1>12. /\ Places(f) = k + 1 /\ DigitAt(q, k + 1) = first
       /\ \A i \in 1 .. k : DigitAt(q, i) = DigitAt(p, i)
  <2>1. CASE first # Digit - 1 \/ carry # 0
    <3>1. f.out = p /\ f.cache = first /\ f.cacheSize = 1
      BY <1>2, <1>9, <2>1 DEF Shifted
    <3>2. /\ \A i \in 1 .. Len(p) : DigitAt(q, i) = p[i] /\ DigitAt(p, i) = p[i]
          /\ \A j \in 1 .. Len(Held(f, 0)) : DigitAt(q, Len(p) + j) = Held(f, 0)[j]
      <4>1. q = p \o Held(f, 0)
        BY <1>9, <3>1
      <4>2. Held(f, 0) \in Seq(Digits)
        BY <1>7
      <4>3. /\ \A i \in 1 .. Len(p) : DigitAt(p \o Held(f, 0), i) = p[i] /\ DigitAt(p, i) = p[i]
            /\ \A j \in 1 .. Len(Held(f, 0)) : DigitAt(p \o Held(f, 0), Len(p) + j) = Held(f, 0)[j]
        BY <1>11, <4>2, JoinedDigits
      <4> QED
        BY <4>1, <4>3
    <3>3. Held(f, 0)[1] = first
      BY <1>7, <1>8, <3>1
    <3>4. 1 \in 1 .. Len(Held(f, 0))
      BY <1>7, <3>1
    <3>5. DigitAt(q, k + 1) = first
      BY <1>11, <3>2, <3>3, <3>4
    <3>6. Places(f) = k + 1
      BY <1>11, <3>1 DEF Places
    <3>7. \A i \in 1 .. k : DigitAt(q, i) = DigitAt(p, i)
      BY <1>11, <3>2
    <3> QED
      BY <3>5, <3>6, <3>7
  <2>2. CASE ~(first # Digit - 1 \/ carry # 0)
    <3>1. f.out = e.out /\ f.cache = e.cache /\ f.cacheSize = e.cacheSize + 1 /\ carry = 0
          /\ first = Digit - 1
      BY <1>2, <2>2 DEF Shifted
    <3>2. PICK o, n : o = e.out /\ n = e.cacheSize
      OBVIOUS
    <3>3. o \in Seq(Digits) /\ n \in Nat \ {0} /\ Len(o) \in Nat
      BY <3>2 DEF Coder
    <3>4. PICK s, t : s = Held(e, 0) /\ t = Held(f, 0)
      OBVIOUS
    <3>5. /\ s \in Seq(Digits) /\ Len(s) = n
          /\ \A i \in 1 .. n : s[i] = IF i = 1 THEN e.cache + 0 ELSE Digit - 1
      BY <3>2, <3>4, HeldFacts
    <3>6. /\ t \in Seq(Digits) /\ Len(t) = n + 1
          /\ \A i \in 1 .. n + 1 : t[i] = IF i = 1 THEN e.cache + 0 ELSE Digit - 1
      BY <1>7, <3>1, <3>2, <3>4
    <3>7. p = o \o s /\ q = o \o t
      BY <1>9, <3>1, <3>2, <3>4
    <3>8. /\ \A i \in 1 .. Len(o) : DigitAt(p, i) = o[i]
          /\ \A j \in 1 .. n : DigitAt(p, Len(o) + j) = s[j]
      BY <3>3, <3>5, <3>7, JoinedDigits
    <3>9. /\ \A i \in 1 .. Len(o) : DigitAt(q, i) = o[i]
          /\ \A j \in 1 .. n + 1 : DigitAt(q, Len(o) + j) = t[j]
      <4>1. /\ \A i \in 1 .. Len(o) : DigitAt(o \o t, i) = o[i]
            /\ \A j \in 1 .. Len(t) : DigitAt(o \o t, Len(o) + j) = t[j]
        BY <3>3, <3>6, JoinedDigits
      <4> QED
        BY <3>6, <3>7, <4>1
    <3>10. k = Len(o) + n /\ Places(f) = k + 1
      BY <1>10, <3>1, <3>2, <3>3 DEF Places
    <3>11. DigitAt(q, k + 1) = first
      <4>1. n + 1 \in 1 .. n + 1 /\ n + 1 # 1 /\ Len(o) + (n + 1) = k + 1
        BY <3>3, <3>10
      <4> QED
        BY <3>1, <3>6, <3>9, <4>1
    <3>12. ASSUME NEW i \in 1 .. k PROVE DigitAt(q, i) = DigitAt(p, i)
      <4>1. CASE i <= Len(o)
        <5>1. i \in 1 .. Len(o)
          BY <3>3, <4>1
        <5> QED
          BY <3>8, <3>9, <5>1
      <4>2. CASE ~(i <= Len(o))
        <5>1. PICK j \in 1 .. n : i = Len(o) + j
          <6>1. i - Len(o) \in 1 .. n /\ i = Len(o) + (i - Len(o))
            BY <1>10, <3>3, <3>10, <4>2
          <6> QED
            BY <6>1
        <5>2. j \in 1 .. n + 1 /\ t[j] = s[j]
          BY <3>3, <3>5, <3>6
        <5> QED
          BY <3>8, <3>9, <5>1, <5>2
      <4> QED
        BY <4>1, <4>2
    <3> QED
      BY <3>10, <3>11, <3>12
  <2> QED
    BY <2>1, <2>2
<1>13. Value(q, k + 1) = Digit * (Pending(e) + carry) + first
  <2>1. Value(q, k + 1) = Digit * Value(q, k) + DigitAt(q, k + 1)
    BY <1>11, ValueFacts
  <2>2. Value(q, k) = Value(p, k)
    BY <1>11, <1>12, SameDigits
  <2> QED
    BY <1>11, <1>12, <2>1, <2>2
<1>14. Pending(f) = Digit * (Pending(e) + carry) + first
  BY <1>9, <1>12, <1>13 DEF Pending
<1>15. Number(f) = Digit * Number(e)
  <2>1. PICK h, D, F, x : h = Pending(e) /\ D = Digit /\ F = Full /\ x = f.low
    OBVIOUS
  <2>2. h \in Nat /\ D \in Nat /\ F \in Nat /\ x \in Nat /\ low \in Nat /\ first \in Nat /\ carry \in Nat
    BY <1>4, <1>6, <1>8, <2>1, FullFacts
  <2>3. D * low = first * F + x
    BY <1>8, <2>1
  <2>4. Number(f) = (D * (h + carry) + first) * F + x
    BY <1>14, <2>1 DEF Number
  <2>5. (D * (h + carry) + first) * F + x = D * ((h + carry) * F) + (first * F + x)
    <3>1. \A a, b, c, d, g \in Nat : (a * b + c) * d + g = a * (b * d) + (c * d + g)
      OBVIOUS
    <3>2. h + carry \in Nat
      BY <2>2
    <3> QED
      BY <2>2, <3>1, <3>2
  <2>6. D * ((h + carry) * F) + D * low = D * (h * F + (carry * F + low))
    <3>1. \A a, b, c, d, g \in Nat : a * ((b + c) * d) + a * g = a * (b * d + (c * d + g))
      OBVIOUS
    <3> QED
      BY <2>2, <3>1
  <2>7. Number(e) = h * F + (carry * F + low)
    BY <1>4, <2>1 DEF Number
  <2> QED
    BY <2>1, <2>3, <2>4, <2>5, <2>6, <2>7
<1> QED
  BY <1>1, <1>10, <1>12, <1>15

----------------------------------------------------------------------------
(* A coded symbol.                                                         *)

\* What keeps a carry from passing a maximal digit: an interval of r above low never
\* reaches beyond the digit held back.
Tight(e, r) ==
  /\ r \in Nat /\ e.low + r <= 2 * Full - 1
  /\ e.cache = Digit - 1 => e.low + r <= Full

\* A shift leaves an interval that is still tight.
LEMMA ShiftTight ==
  ASSUME NEW e \in Coder, NEW r \in Nat \ {0}, r <= Top, Tight(e, r)
  PROVE  Tight(ShiftLow(e), Digit * r)
<1>1. PICK f : f = ShiftLow(e)
  OBVIOUS
<1>2. PICK low, carry, first : Shifted(f, e, low, carry, first)
  BY <1>1, ShiftSteps
<1>3. PICK D, T, F : D = Digit /\ T = Top /\ F = Full
  OBVIOUS
<1>4. D \in Nat /\ D >= 2 /\ T \in Nat /\ F \in Nat \ {0} /\ F = D * T
  BY <1>3, FullFacts
<1>5. /\ low \in Nat /\ low < F /\ carry \in {0, 1} /\ e.low = carry * F + low
      /\ first = low \div T /\ f.low = (low * D) % F
  BY <1>2, <1>3, <1>4 DEF Shifted
<1>6. f.low \in Nat /\ f.low < F /\ D * low = first * F + f.low
  <2>1. low \in 0 .. Full - 1
    BY <1>2 DEF Shifted
  <2>2. /\ (low * Digit) % Full \in 0 .. Full - 1
        /\ Digit * low = (low \div Top) * Full + ((low * Digit) % Full)
    BY <2>1, FirstDigit
  <2> QED
    BY <1>3, <1>4, <1>5, <2>2
<1>7. D * r \in Nat /\ D * r <= F
  <2>1. \A a, b, c \in Nat : a <= b => c * a <= c * b /\ c * a \in Nat
    OBVIOUS
  <2> QED
    BY <1>3, <1>4, <2>1
<1>8. ASSUME f.cache = D - 1 PROVE f.low + D * r <= F
  <2>1. first = D - 1 /\ low + r <= F
    <3>1. CASE first # D - 1 \/ carry # 0
      <4>1. f.cache = first
        BY <1>2, <1>3, <3>1 DEF Shifted
      <4>2. first = D - 1 /\ carry = 1
        BY <1>5, <1>8, <3>1, <4>1
      <4>3. e.low = F + low
        BY <1>4, <1>5, <4>2
      <4>4. e.low + r <= 2 * F - 1
        BY <1>3 DEF Tight
      <4> QED
        BY <1>4, <1>5, <4>2, <4>3, <4>4
    <3>2. CASE ~(first # D - 1 \/ carry # 0)
      <4>1. f.cache = e.cache /\ first = D - 1 /\ carry = 0
        BY <1>2, <1>3, <3>2 DEF Shifted
      <4>2. e.low + r <= F
        BY <1>3, <1>8, <4>1 DEF Tight
      <4>3. e.low = low
        BY <1>4, <1>5, <4>1
      <4> QED
        BY <4>1, <4>2, <4>3
    <3> QED
      BY <3>1, <3>2
  <2>2. D * low = (D - 1) * F + f.low
    BY <1>6, <2>1
  <2>3. D * low + D * r <= D * F
    <3>1. \A a, b, c, d \in Nat : b + c <= d => a * b + a * c <= a * d
      OBVIOUS
    <3> QED
      BY <1>4, <1>5, <2>1, <3>1
  <2>4. D * F = (D - 1) * F + F /\ (D - 1) * F \in Nat /\ D * F \in Nat
    BY <1>4
  <2> QED
    BY <1>4, <1>6, <1>7, <2>2, <2>3, <2>4
<1>9. Tight(f, D * r)
  BY <1>3, <1>4, <1>6, <1>7, <1>8 DEF Tight
<1> QED
  BY <1>1, <1>3, <1>9

\* One turn of the renormalisation.
Turn(p) == IF p.range < Top /\ p.range > 0 THEN [ShiftLow(p) EXCEPT !.range = @ * Digit] ELSE p

\* A wide enough range is left alone.
LEMMA TurnStays ==
  ASSUME NEW e, ~(e.range < Top /\ e.range > 0)
  PROVE  Turn(e) = e
BY DEF Turn

\* Only the digits and the held ones count.
LEMMA SamePending ==
  ASSUME NEW e, NEW f, f.out = e.out, f.cache = e.cache, f.cacheSize = e.cacheSize
  PROVE  Places(f) = Places(e) /\ Pending(f) = Pending(e)
<1>1. Places(f) = Places(e)
  BY DEF Places
<1>2. Held(f, 0) = Held(e, 0)
  BY DEF Held
<1> QED
  BY <1>1, <1>2 DEF Pending

\* A turn on a narrow range is a shift.
LEMMA TurnShifts ==
  ASSUME NEW e \in Coder, Tight(e, e.range), e.range < Top, e.range > 0
  PROVE  /\ Turn(e) \in Coder /\ Turn(e).range = Digit * e.range /\ Tight(Turn(e), Turn(e).range)
         /\ Places(Turn(e)) = Places(e) + 1
         /\ Number(Turn(e)) = Digit * Number(e)
<1>1. PICK f : f = ShiftLow(e)
  OBVIOUS
<1>2. f \in Coder /\ f.range = e.range
  BY <1>1, ShiftType
<1>3. PICK r : r = e.range
  OBVIOUS
<1>4. r \in Nat /\ r > 0 /\ r < Top
  <2>1. r \in 0 .. Full - 1
    BY <1>3 DEF Coder
  <2>2. r \in Nat
    BY <2>1
  <2> QED
    BY <1>3, <2>2
<1>5. PICK g : g = [f EXCEPT !.range = @ * Digit]
  OBVIOUS
<1>6. g = Turn(e)
  BY <1>1, <1>5 DEF Turn
<1>7. /\ g.low = f.low /\ g.range = r * Digit /\ g.out = f.out /\ g.cache = f.cache
      /\ g.cacheSize = f.cacheSize
      /\ g = [low |-> g.low, range |-> g.range, cache |-> g.cache, cacheSize |-> g.cacheSize,
              out |-> g.out]
  BY <1>2, <1>3, <1>5 DEF Coder
<1>8. r * Digit = Digit * r /\ Digit * r \in 0 .. Full - 1
  <2>1. Top \in Nat /\ Digit \in Nat /\ Digit >= 2 /\ Full = Digit * Top
    BY FullFacts
  <2>2. \A a, b, c \in Nat : a < b /\ c >= 2 => c * a < c * b /\ c * a \in Nat /\ c * a = a * c
    OBVIOUS
  <2>3. Digit * r < Digit * Top /\ Digit * r \in Nat /\ Digit * r = r * Digit
    BY <1>4, <2>1, <2>2
  <2> QED
    BY <2>1, <2>3, FullFacts
<1>9. f.low \in 0 .. 2 * Full - 1 /\ f.cache \in Digits /\ f.cacheSize \in Nat \ {0} /\ f.out \in Seq(Digits)
  BY <1>2 DEF Coder
<1>10. g \in Coder
  BY <1>7, <1>8, <1>9 DEF Coder
<1>11. Tight(f, Digit * r)
  <2>1. r \in Nat \ {0} /\ r <= Top
    BY <1>4, FullFacts
  <2>2. Tight(e, r)
    BY <1>3
  <2>3. Tight(ShiftLow(e), Digit * r)
    BY <2>1, <2>2, ShiftTight
  <2> QED
    BY <1>1, <2>3
<1>12. Tight(g, g.range)
  BY <1>7, <1>8, <1>11 DEF Tight
<1>13. e.cache = Digit - 1 => e.low < Full
  <2>1. e.low \in Nat /\ Full \in Nat
    BY FullFacts DEF Coder
  <2> QED
    BY <1>3, <1>4, <2>1 DEF Tight
<1>14. Places(f) = Places(e) + 1 /\ Number(f) = Digit * Number(e)
  BY <1>1, <1>13, ShiftNumber
<1>15. Places(g) = Places(f) /\ Number(g) = Number(f)
  BY <1>7, SamePending DEF Number
<1> QED
  BY <1>3, <1>6, <1>7, <1>8, <1>10, <1>12, <1>14, <1>15

\* How many shifts bring a width back to Top.
Enough(w, j) == DigitTo(j) * w >= Top /\ \A i \in 0 .. j - 1 : DigitTo(i) * w < Top

\* Some number of shifts is enough for any width.
LEMMA EnoughShifts ==
  ASSUME NEW w \in Nat \ {0}
  PROVE  \E j \in 0 .. Width - 1 : Enough(w, j)
<1> DEFINE S == {j \in Nat : DigitTo(j) * w >= Top}
<1>1. Width - 1 \in Nat
  BY CoderAssumption
<1>2. Width - 1 \in S
  <2>1. \A a \in Nat : \A b \in Nat \ {0} : a * b >= a
    OBVIOUS
  <2> QED
    BY <1>1, <2>1, FullFacts DEF Top
<1>3. PICK j \in S : \A m \in S : j <= m
  <2>1. S # {} /\ S \in SUBSET Nat
    BY <1>2
  <2> HIDE DEF S
  <2> QED
    BY <2>1, LeastNumber
<1>4. j \in 0 .. Width - 1
  <2>1. j <= Width - 1
    BY <1>2, <1>3
  <2> QED
    BY <1>1, <1>3, <2>1
<1>5. ASSUME NEW i \in 0 .. j - 1 PROVE DigitTo(i) * w < Top
  <2>1. i \in Nat /\ ~(j <= i)
    BY <1>4
  <2>2. ~(DigitTo(i) * w >= Top)
    BY <1>3, <2>1
  <2>3. DigitTo(i) * w \in Nat /\ Top \in Nat
    <3>1. PICK a \in Nat : a = DigitTo(i)
      BY <2>1, PowerFacts
    <3>2. a * w \in Nat
      OBVIOUS
    <3> QED
      BY <3>1, <3>2, FullFacts
  <2> QED
    BY <2>2, <2>3
<1> QED
  BY <1>3, <1>4, <1>5 DEF Enough

\* The interval of a symbol within a total.
Part(iv) ==
  /\ iv.start \in Nat /\ iv.size \in Nat \ {0} /\ iv.total \in Nat \ {0}
  /\ iv.start + iv.size <= iv.total

Scaled(e, iv) ==
  [e EXCEPT !.low = @ + iv.start * (e.range \div iv.total),
            !.range = (e.range \div iv.total) * iv.size]

\* What a symbol does to low and range before any shift.
LEMMA ScaledFacts ==
  ASSUME NEW e \in Coder, NEW iv, Tight(e, e.range), Part(iv)
  PROVE  /\ Scaled(e, iv) \in Coder
         /\ Scaled(e, iv).range = (e.range \div iv.total) * iv.size
         /\ Tight(Scaled(e, iv), Scaled(e, iv).range)
         /\ Places(Scaled(e, iv)) = Places(e)
         /\ Number(Scaled(e, iv)) = Number(e) + iv.start * (e.range \div iv.total)
         /\ (e.range \div iv.total) * iv.total <= e.range
         /\ e.range \div iv.total \in Nat
         /\ Number(e) \in Nat
<1>1. PICK g, u : g = Scaled(e, iv) /\ u = e.range \div iv.total
  OBVIOUS
<1>2. PICK st, sz, tot, r, F : st = iv.start /\ sz = iv.size /\ tot = iv.total /\ r = e.range /\ F = Full
  OBVIOUS
<1>3. st \in Nat /\ sz \in Nat \ {0} /\ tot \in Nat \ {0} /\ st + sz <= tot
  BY <1>2 DEF Part
<1>4. r \in Nat /\ r < F /\ F \in Nat /\ e.low \in Nat
  <2>1. r \in 0 .. F - 1 /\ e.low \in 0 .. 2 * F - 1 /\ F \in Nat
    BY <1>2, FullFacts DEF Coder
  <2> QED
    BY <2>1
<1>5. u \in Nat /\ u * tot <= r
  <2>1. \A a \in Nat : \A b \in Nat \ {0} : a \div b \in Nat /\ (a \div b) * b <= a
    OBVIOUS
  <2> QED
    BY <1>1, <1>2, <1>3, <1>4, <2>1
<1>6. st * u \in Nat /\ u * sz \in Nat /\ st * u + u * sz <= r
  <2>1. \A a, b, c, d \in Nat : a + b <= c => a * d + d * b <= d * c /\ a * d \in Nat /\ d * b \in Nat
    OBVIOUS
  <2>2. st * u + u * sz <= u * tot /\ st * u \in Nat /\ u * sz \in Nat /\ u * tot \in Nat
    BY <1>3, <1>5, <2>1
  <2> QED
    BY <1>4, <1>5, <2>2
<1>7. /\ g.low = e.low + st * u /\ g.range = u * sz /\ g.out = e.out /\ g.cache = e.cache
      /\ g.cacheSize = e.cacheSize
      /\ g = [low |-> g.low, range |-> g.range, cache |-> g.cache, cacheSize |-> g.cacheSize,
              out |-> g.out]
  BY <1>1, <1>2 DEF Coder, Scaled
<1>8. e.low + r <= 2 * F - 1 /\ (e.cache = Digit - 1 => e.low + r <= F)
  BY <1>2 DEF Tight
<1>9. g.low \in Nat /\ g.range \in Nat /\ g.low + g.range <= e.low + r /\ g.range <= r
  BY <1>4, <1>6, <1>7
<1>10. Tight(g, g.range)
  BY <1>2, <1>4, <1>7, <1>8, <1>9 DEF Tight
<1>11. g.low \in 0 .. 2 * F - 1 /\ g.range \in 0 .. F - 1
  BY <1>4, <1>8, <1>9
<1>12. e.cache \in Digits /\ e.cacheSize \in Nat \ {0} /\ e.out \in Seq(Digits)
  BY DEF Coder
<1>13. g \in Coder
  BY <1>2, <1>7, <1>11, <1>12 DEF Coder
<1>14. Places(g) = Places(e) /\ Pending(g) = Pending(e) /\ Pending(e) \in Nat
  <2>1. Pending(e) \in Nat
    BY CarryFacts
  <2> QED
    BY <1>7, <2>1, SamePending
<1>15. Number(e) \in Nat /\ Number(g) = Number(e) + st * u
  <2>1. PICK h : h = Pending(e)
    OBVIOUS
  <2>2. Number(e) = h * F + e.low /\ Number(g) = h * F + (e.low + st * u)
    BY <1>2, <1>7, <1>14, <2>1 DEF Number
  <2>3. h * F \in Nat
    BY <1>4, <1>14, <2>1
  <2> QED
    BY <1>4, <1>6, <2>2, <2>3
<1>16. g.range = (e.range \div iv.total) * iv.size
  BY <1>1, <1>2, <1>7
<1> QED
  BY <1>1, <1>2, <1>5, <1>10, <1>13, <1>14, <1>15, <1>16

\* The turns of a coded symbol.
TightCoder == {p \in Coder : Tight(p, p.range)}

EncodeRuns(f, e, iv) ==
  /\ f \in [0 .. Width -> TightCoder] /\ f[0] = Scaled(e, iv)
  /\ \A k \in 1 .. Width : f[k] = Turn(f[k - 1])
  /\ EncodeStep(e, iv) = f[Width]

\* Encoding is a loop of turns.
LEMMA EncodeRunning ==
  ASSUME NEW e \in TightCoder, NEW iv, Part(iv)
  PROVE  \E f : EncodeRuns(f, e, iv)
<1>1. PICK X : X = TightCoder
  OBVIOUS
<1>2. \A x \in X : Turn(x) \in X
  <2> TAKE x \in X
  <2>1. x \in Coder /\ Tight(x, x.range)
    BY <1>1 DEF TightCoder
  <2>2. CASE x.range < Top /\ x.range > 0
    BY <1>1, <2>1, <2>2, TurnShifts DEF TightCoder
  <2>3. CASE ~(x.range < Top /\ x.range > 0)
    BY <2>3, TurnStays
  <2> QED
    BY <2>2, <2>3
<1>3. PICK N, x0 : N = Width /\ x0 = Scaled(e, iv)
  OBVIOUS
<1>4. N \in Nat
  BY <1>3, CoderAssumption
<1>5. x0 \in X
  BY <1>1, <1>3, ScaledFacts DEF TightCoder
<1> DEFINE st == [k \in 1 .. N |-> [x \in X |-> Turn(x)]]
           G(g) == g = [k \in 0 .. N |-> IF k = 0 THEN x0 ELSE Turn(g[k - 1])]
<1>6. st \in [1 .. N -> [X -> X]]
  BY <1>2
<1>7. \A k \in 1 .. N : \A x \in X : st[k][x] = Turn(x)
  OBVIOUS
<1> HIDE DEF st
<1>8. PICK f : Turns(f, N, X, x0, st)
  BY <1>4, <1>5, <1>6, Looping DEF Loop
<1>9. f \in [0 .. N -> X] /\ f[0] = x0
  BY <1>8 DEF Turns
<1>10. \A k \in 1 .. N : f[k] = Turn(f[k - 1])
  <2> TAKE k \in 1 .. N
  <2>1. k - 1 \in 0 .. N
    BY <1>4
  <2>2. f[k] = st[k][f[k - 1]] /\ f[k - 1] \in X
    BY <1>8, <1>9, <2>1 DEF Turns
  <2> QED
    BY <1>7, <2>2
<1>11. G(f)
  <2>1. \A k \in 0 .. N : f[k] = IF k = 0 THEN x0 ELSE Turn(f[k - 1])
    BY <1>9, <1>10
  <2> QED
    BY <1>9, <2>1
<1> DEFINE h == CHOOSE h : G(h)
<1>12. G(h)
  BY <1>11
<1>13. EncodeStep(e, iv) = h[N]
  BY <1>3 DEF EncodeStep, Turn, Scaled
<1> HIDE DEF h
<1>14. h[0] = x0 /\ \A k \in 1 .. N : h[k] = Turn(h[k - 1])
  <2>1. 0 \in 0 .. N /\ \A k \in 1 .. N : k \in 0 .. N /\ k # 0
    BY <1>4
  <2> QED
    BY <1>12, <2>1
<1> HIDE DEF G
<1>15. h[N] = f[N]
  <2> DEFINE S == {k \in Nat : h[k] = f[k]}
  <2>1. 0 \in S
    BY <1>9, <1>14
  <2>2. ASSUME NEW k \in 0 .. N - 1, k \in S PROVE k + 1 \in S
    <3>1. k + 1 \in 1 .. N /\ (k + 1) - 1 = k
      BY <1>4
    <3>2. h[k + 1] = Turn(h[k]) /\ f[k + 1] = Turn(f[k])
      BY <1>10, <1>14, <3>1
    <3> QED
      BY <2>2, <3>1, <3>2
  <2> HIDE DEF S
  <2>3. \A k \in 0 .. N : k \in S
    BY <1>4, <2>1, <2>2, InductionUpTo
  <2>4. N \in S
    BY <1>4, <2>3
  <2> QED
    BY <2>4 DEF S
<1>16. EncodeRuns(f, e, iv)
  BY <1>1, <1>3, <1>9, <1>10, <1>13, <1>15 DEF EncodeRuns
<1> QED
  BY <1>16

\* A symbol's coder stays tight, whatever the counts are.
LEMMA EncodeType ==
  ASSUME NEW e \in TightCoder, NEW iv, Part(iv)
  PROVE  EncodeStep(e, iv) \in TightCoder
<1>1. PICK f : EncodeRuns(f, e, iv)
  BY EncodeRunning
<1>2. Width \in 0 .. Width
  BY CoderAssumption
<1> QED
  BY <1>1, <1>2 DEF EncodeRuns

\* A symbol with a positive share takes as many shifts as its width needs.
LEMMA EncodeFacts ==
  ASSUME NEW e \in TightCoder, NEW iv, Part(iv), NEW u, u = e.range \div iv.total, u >= 1,
         NEW w, w = u * iv.size, NEW j \in 0 .. Width - 1, Enough(w, j)
  PROVE  /\ EncodeStep(e, iv) \in TightCoder
         /\ w \in Nat \ {0} /\ u \in Nat /\ u * iv.total <= e.range
         /\ EncodeStep(e, iv).range = DigitTo(j) * w
         /\ Places(EncodeStep(e, iv)) = Places(e) + j
         /\ Number(EncodeStep(e, iv)) = DigitTo(j) * (Number(e) + iv.start * u)
<1>1. PICK f : EncodeRuns(f, e, iv)
  BY EncodeRunning
<1>2. PICK N \in Nat : N = Width
  BY CoderAssumption
<1>3. /\ f \in [0 .. N -> TightCoder] /\ f[0] = Scaled(e, iv)
      /\ \A k \in 1 .. N : f[k] = Turn(f[k - 1])
      /\ EncodeStep(e, iv) = f[N]
  BY <1>1, <1>2 DEF EncodeRuns
<1>4. PICK num, pl, v : num = Number(e) + iv.start * u /\ pl = Places(e) /\ v = f[0]
  OBVIOUS
<1>5. e \in Coder /\ Tight(e, e.range)
  BY DEF TightCoder
<1>6. /\ v.range = w /\ Places(v) = pl /\ Number(v) = num /\ u \in Nat /\ Number(e) \in Nat
      /\ u * iv.total <= e.range
  BY <1>3, <1>4, <1>5, ScaledFacts
<1>7. w \in Nat \ {0} /\ num \in Nat /\ pl \in Nat
  <2>1. iv.size \in Nat \ {0} /\ iv.start \in Nat
    BY DEF Part
  <2>2. \A a, b \in Nat \ {0} : a * b \in Nat \ {0}
    OBVIOUS
  <2>3. w \in Nat \ {0}
    BY <1>6, <2>1, <2>2
  <2>4. iv.start * u \in Nat
    BY <1>6, <2>1
  <2>5. Places(e) \in Nat
    BY <1>5, CarryFacts
  <2> QED
    BY <1>4, <1>6, <2>3, <2>4, <2>5
<1>8. j \in Nat /\ j <= N - 1 /\ DigitTo(j) * w >= Top /\ \A i \in 0 .. j - 1 : DigitTo(i) * w < Top
  BY <1>2 DEF Enough
<1> DEFINE S == {k \in Nat : /\ f[k].range = DigitTo(k) * w /\ Places(f[k]) = pl + k
                             /\ Number(f[k]) = DigitTo(k) * num}
<1>9. 0 \in S
  <2>1. DigitTo(0) * w = w /\ DigitTo(0) * num = num /\ pl + 0 = pl
    BY <1>7, PowerFacts
  <2> QED
    BY <1>4, <1>6, <2>1
<1>10. ASSUME NEW k \in 0 .. j - 1, k \in S PROVE k + 1 \in S
  <2>1. k \in Nat /\ k + 1 \in 1 .. N /\ k \in 0 .. N /\ (k + 1) - 1 = k
    BY <1>8
  <2>2. PICK x : x = f[k]
    OBVIOUS
  <2>3. PICK p \in Nat \ {0} : p = DigitTo(k)
    BY <2>1, PowerFacts
  <2>4. DigitTo(k + 1) = Digit * p
    BY <2>1, <2>3, PowerFacts
  <2>5. x.range = p * w /\ Places(x) = pl + k /\ Number(x) = p * num
    BY <1>10, <2>2, <2>3
  <2>6. x \in Coder /\ Tight(x, x.range)
    BY <1>3, <2>1, <2>2 DEF TightCoder
  <2>7. x.range < Top /\ x.range > 0
    <3>1. p * w < Top
      BY <1>8, <2>3
    <3>2. \A a, b \in Nat \ {0} : a * b > 0
      OBVIOUS
    <3> QED
      BY <1>7, <2>5, <3>1, <3>2
  <2>8. /\ Turn(x).range = Digit * x.range /\ Places(Turn(x)) = Places(x) + 1
        /\ Number(Turn(x)) = Digit * Number(x)
    BY <2>6, <2>7, TurnShifts
  <2>9. f[k + 1] = Turn(x)
    BY <1>3, <2>1, <2>2
  <2>10. \A a, b, c \in Nat : a * (b * c) = (a * b) * c
    OBVIOUS
  <2>11. Digit \in Nat
    BY FullFacts
  <2>12. f[k + 1].range = DigitTo(k + 1) * w
    BY <1>7, <2>3, <2>4, <2>5, <2>8, <2>9, <2>10, <2>11
  <2>13. Number(f[k + 1]) = DigitTo(k + 1) * num
    BY <1>7, <2>3, <2>4, <2>5, <2>8, <2>9, <2>10, <2>11
  <2>14. Places(f[k + 1]) = pl + (k + 1)
    BY <1>7, <2>1, <2>5, <2>8, <2>9
  <2> QED
    BY <2>1, <2>12, <2>13, <2>14
<1> HIDE DEF S
<1>11. \A k \in 0 .. j : k \in S
  BY <1>8, <1>9, <1>10, InductionUpTo
<1>12. j \in S
  BY <1>8, <1>11
<1>13. f[j].range = DigitTo(j) * w /\ Places(f[j]) = pl + j /\ Number(f[j]) = DigitTo(j) * num
  BY <1>12 DEF S
<1> DEFINE R == {i \in Nat : f[j + i] = f[j]}
<1>14. 0 \in R
  BY <1>8
<1>15. ASSUME NEW i \in 0 .. (N - j) - 1, i \in R PROVE i + 1 \in R
  <2>1. i \in Nat /\ j + (i + 1) \in 1 .. N /\ (j + (i + 1)) - 1 = j + i
    BY <1>8
  <2>2. f[j + (i + 1)] = Turn(f[j + i])
    BY <1>3, <2>1
  <2>3. ~(f[j].range < Top)
    <3>1. PICK p \in Nat \ {0} : p = DigitTo(j)
      BY <1>8, PowerFacts
    <3>2. p * w \in Nat
      BY <1>7
    <3> QED
      BY <1>8, <1>13, <3>1, <3>2, FullFacts
  <2>4. Turn(f[j]) = f[j]
    BY <2>3, TurnStays
  <2> QED
    BY <1>15, <2>1, <2>2, <2>4
<1> HIDE DEF R
<1>16. N - j \in Nat /\ j + (N - j) = N
  BY <1>8
<1>17. \A i \in 0 .. N - j : i \in R
  BY <1>14, <1>15, <1>16, InductionUpTo
<1>18. f[N] = f[j]
  <2>1. N - j \in R
    BY <1>16, <1>17
  <2> QED
    BY <1>16, <2>1 DEF R
<1>19. EncodeStep(e, iv) \in TightCoder
  BY EncodeType
<1> QED
  BY <1>3, <1>4, <1>6, <1>7, <1>13, <1>18, <1>19

\* A flush pushes out everything held and nothing else.
FlushRuns(f, e) ==
  /\ f \in [0 .. Width + 1 -> Coder] /\ f[0] = e
  /\ \A k \in 1 .. Width + 1 : f[k] = ShiftLow(f[k - 1])
  /\ Flush(e) = f[Width + 1].out

\* A flush is a loop of shifts.
LEMMA FlushRunning ==
  ASSUME NEW e \in Coder
  PROVE  \E f : FlushRuns(f, e)
<1>1. PICK X : X = Coder
  OBVIOUS
<1>2. \A x \in X : ShiftLow(x) \in X
  BY <1>1, ShiftType
<1>3. PICK N : N = Width + 1
  OBVIOUS
<1>4. N \in Nat
  BY <1>3, CoderAssumption
<1> DEFINE st == [k \in 1 .. N |-> [x \in X |-> ShiftLow(x)]]
           G(g) == g = [k \in 0 .. N |-> IF k = 0 THEN e ELSE ShiftLow(g[k - 1])]
<1>6. st \in [1 .. N -> [X -> X]]
  BY <1>2
<1>7. \A k \in 1 .. N : \A x \in X : st[k][x] = ShiftLow(x)
  OBVIOUS
<1> HIDE DEF st
<1>8. PICK f : Turns(f, N, X, e, st)
  BY <1>1, <1>4, <1>6, Looping DEF Loop
<1>9. f \in [0 .. N -> X] /\ f[0] = e
  BY <1>8 DEF Turns
<1>10. \A k \in 1 .. N : f[k] = ShiftLow(f[k - 1])
  <2> TAKE k \in 1 .. N
  <2>1. k - 1 \in 0 .. N
    BY <1>4
  <2>2. f[k] = st[k][f[k - 1]] /\ f[k - 1] \in X
    BY <1>8, <1>9, <2>1 DEF Turns
  <2> QED
    BY <1>7, <2>2
<1>11. G(f)
  <2>1. \A k \in 0 .. N : f[k] = IF k = 0 THEN e ELSE ShiftLow(f[k - 1])
    BY <1>9, <1>10
  <2> QED
    BY <1>9, <2>1
<1> DEFINE h == CHOOSE h : G(h)
<1>12. G(h)
  BY <1>11
<1>13. Flush(e) = h[N].out
  BY <1>3 DEF Flush
<1> HIDE DEF h
<1>14. h[0] = e /\ \A k \in 1 .. N : h[k] = ShiftLow(h[k - 1])
  <2>1. 0 \in 0 .. N /\ \A k \in 1 .. N : k \in 0 .. N /\ k # 0
    BY <1>4
  <2> QED
    BY <1>12, <2>1
<1> HIDE DEF G
<1>15. h[N] = f[N]
  <2> DEFINE S == {k \in Nat : h[k] = f[k]}
  <2>1. 0 \in S
    BY <1>9, <1>14
  <2>2. ASSUME NEW k \in 0 .. N - 1, k \in S PROVE k + 1 \in S
    <3>1. k + 1 \in 1 .. N /\ (k + 1) - 1 = k
      BY <1>4
    <3>2. h[k + 1] = ShiftLow(h[k]) /\ f[k + 1] = ShiftLow(f[k])
      BY <1>10, <1>14, <3>1
    <3> QED
      BY <2>2, <3>1, <3>2
  <2> HIDE DEF S
  <2>3. \A k \in 0 .. N : k \in S
    BY <1>4, <2>1, <2>2, InductionUpTo
  <2>4. N \in S
    BY <1>4, <2>3
  <2> QED
    BY <2>4 DEF S
<1>16. FlushRuns(f, e)
  BY <1>1, <1>3, <1>9, <1>10, <1>13, <1>15 DEF FlushRuns
<1> QED
  BY <1>16

\* A flush leaves digits.
LEMMA FlushType ==
  ASSUME NEW e \in Coder
  PROVE  Flush(e) \in Seq(Digits)
<1>1. PICK f : FlushRuns(f, e)
  BY FlushRunning
<1>2. Width + 1 \in 0 .. Width + 1
  BY CoderAssumption
<1> QED
  BY <1>1, <1>2 DEF FlushRuns, Coder

\* What a flush leaves is the number of the coder, to its last digit.
LEMMA FlushFacts ==
  ASSUME NEW e \in Coder, Tight(e, 1)
  PROVE  /\ Flush(e) \in Seq(Digits) /\ Len(Flush(e)) = Places(e) + Width
         /\ Value(Flush(e), Len(Flush(e))) = Number(e)
<1>1. PICK f : FlushRuns(f, e)
  BY FlushRunning
<1>2. PICK N \in Nat : N = Width
  BY CoderAssumption
<1>3. /\ f \in [0 .. N + 1 -> Coder] /\ f[0] = e
      /\ \A k \in 1 .. N + 1 : f[k] = ShiftLow(f[k - 1])
      /\ Flush(e) = f[N + 1].out
  BY <1>1, <1>2 DEF FlushRuns
<1>4. PICK num, pl : num = Number(e) /\ pl = Places(e)
  OBVIOUS
<1>5. num \in Nat /\ pl \in Nat
  <2>1. PICK h \in Nat : h = Pending(e)
    BY CarryFacts
  <2>2. e.low \in Nat /\ Full \in Nat
    BY FullFacts DEF Coder
  <2>3. h * Full + e.low \in Nat
    BY <2>2
  <2> QED
    BY <1>4, <2>1, <2>3, CarryFacts DEF Number
<1> DEFINE S == {k \in Nat : /\ Tight(f[k], 1) /\ Places(f[k]) = pl + k
                             /\ Number(f[k]) = DigitTo(k) * num}
<1>6. 0 \in S
  <2>1. DigitTo(0) * num = num /\ pl + 0 = pl
    BY <1>5, PowerFacts
  <2> QED
    BY <1>3, <1>4, <2>1
<1>7. ASSUME NEW k \in 0 .. N - 1, k \in S PROVE k + 1 \in S
  <2>1. k \in Nat /\ k + 1 \in 1 .. N + 1 /\ k \in 0 .. N + 1 /\ (k + 1) - 1 = k
    BY <1>2
  <2>2. PICK x : x = f[k]
    OBVIOUS
  <2>3. x \in Coder /\ Tight(x, 1) /\ Places(x) = pl + k /\ Number(x) = DigitTo(k) * num
    BY <1>3, <1>7, <2>1, <2>2
  <2>4. Tight(ShiftLow(x), 1)
    <3>1. 1 \in Nat \ {0} /\ 1 <= Top
      BY FullFacts
    <3>2. Tight(ShiftLow(x), Digit * 1)
      BY <2>3, <3>1, ShiftTight
    <3>3. ShiftLow(x) \in Coder
      BY <2>3, ShiftType
    <3>4. ShiftLow(x).low \in Nat /\ Digit * 1 = Digit /\ Digit >= 1 /\ Digit \in Nat
      BY <3>3, FullFacts DEF Coder
    <3> QED
      BY <3>2, <3>4, FullFacts DEF Tight
  <2>5. x.cache = Digit - 1 => x.low < Full
    <3>1. x.low \in Nat /\ Full \in Nat
      BY <2>3, FullFacts DEF Coder
    <3> QED
      BY <2>3, <3>1 DEF Tight
  <2>6. Places(ShiftLow(x)) = Places(x) + 1 /\ Number(ShiftLow(x)) = Digit * Number(x)
    BY <2>3, <2>5, ShiftNumber
  <2>7. f[k + 1] = ShiftLow(x)
    BY <1>3, <2>1, <2>2
  <2>8. PICK p \in Nat : p = DigitTo(k)
    BY <2>1, PowerFacts
  <2>9. DigitTo(k + 1) = Digit * p /\ Digit \in Nat
    BY <2>1, <2>8, PowerFacts, FullFacts
  <2>10. \A a, b, c \in Nat : a * (b * c) = (a * b) * c
    OBVIOUS
  <2>11. Number(f[k + 1]) = DigitTo(k + 1) * num
    BY <1>5, <2>3, <2>6, <2>7, <2>8, <2>9, <2>10
  <2>12. Places(f[k + 1]) = pl + (k + 1)
    BY <1>5, <2>1, <2>3, <2>6, <2>7
  <2> QED
    BY <2>1, <2>4, <2>7, <2>11, <2>12
<1> HIDE DEF S
<1>8. \A k \in 0 .. N : k \in S
  BY <1>6, <1>7, InductionUpTo
<1>9. PICK g : g = f[N]
  OBVIOUS
<1>10. g \in Coder /\ Tight(g, 1) /\ Places(g) = pl + N /\ Number(g) = Full * num
  <2>1. N \in S /\ N \in 0 .. N + 1
    BY <1>2, <1>8
  <2>2. Full = DigitTo(N)
    BY <1>2 DEF Full
  <2> QED
    BY <1>3, <1>9, <2>1, <2>2 DEF S
<1>11. PICK h \in Nat : h = Pending(g)
  BY <1>10, CarryFacts
<1>12. g.low = 0 /\ h = num
  <2>1. PICK x \in Coder : x = f[N - 1]
    <3>1. N - 1 \in 0 .. N + 1
      BY <1>2, CoderAssumption
    <3> QED
      BY <1>3, <3>1
  <2>2. g = ShiftLow(x)
    <3>1. N \in 1 .. N + 1
      BY <1>2, CoderAssumption
    <3> QED
      BY <1>3, <1>9, <2>1, <3>1
  <2>3. g.low \in Nat /\ g.low < Full
    <3>1. ShiftLow(x) \in Coder /\ ShiftLow(x).low < Full
      BY <2>1, ShiftType
    <3>2. g.low \in 0 .. 2 * Full - 1 /\ Full \in Nat
      BY <2>2, <3>1, FullFacts DEF Coder
    <3> QED
      BY <2>2, <3>1, <3>2
  <2>4. h * Full + g.low = Full * num
    BY <1>10, <1>11 DEF Number
  <2>5. \A a, b, c \in Nat : \A d \in Nat \ {0} : a * d + b = d * c /\ b < d => b = 0 /\ a = c
    <3> TAKE a, b, c \in Nat
    <3> TAKE d \in Nat \ {0}
    <3>1. SUFFICES ASSUME a * d + b = d * c, b < d PROVE b = 0 /\ a = c
      OBVIOUS
    <3>2. CASE a < c
      <4>1. d * c >= d * (a + 1)
        <5>1. \A p, q, r \in Nat : p <= q => r * p <= r * q
          OBVIOUS
        <5> QED
          BY <3>2, <5>1
      <4>2. d * (a + 1) = a * d + d /\ a * d \in Nat
        OBVIOUS
      <4> QED
        BY <3>1, <4>1, <4>2
    <3>3. CASE c < a
      <4>1. a * d >= (c + 1) * d
        <5>1. \A p, q, r \in Nat : p <= q => p * r <= q * r
          OBVIOUS
        <5> QED
          BY <3>3, <5>1
      <4>2. (c + 1) * d = d * c + d /\ d * c \in Nat
        OBVIOUS
      <4> QED
        BY <3>1, <4>1, <4>2
    <3>4. CASE a = c
      <4>1. a * d = d * c /\ a * d \in Nat
        BY <3>4
      <4> QED
        BY <3>1, <3>4, <4>1
    <3> QED
      BY <3>2, <3>3, <3>4
  <2>6. Full \in Nat \ {0}
    BY FullFacts
  <2> QED
    BY <1>5, <2>3, <2>4, <2>5, <2>6
<1>13. PICK low, carry, first : Shifted(ShiftLow(g), g, low, carry, first)
  BY <1>10, ShiftSteps
<1>14. carry = 0 /\ low = 0 /\ first = 0
  <2>1. low \in 0 .. Full - 1 /\ carry \in {0, 1} /\ 0 = carry * Full + low /\ first = low \div Top
    BY <1>12, <1>13 DEF Shifted
  <2>2. carry = 0 /\ low = 0
    BY <2>1, FullFacts
  <2>3. \A b \in Nat \ {0} : 0 \div b = 0
    OBVIOUS
  <2>4. Top \in Nat \ {0}
    BY FullFacts
  <2> QED
    BY <2>1, <2>2, <2>3, <2>4
<1>15. Flush(e) = g.out \o Held(g, 0)
  <2>1. first # Digit - 1
    BY <1>14, FullFacts
  <2>2. ShiftLow(g).out = g.out \o Held(g, 0)
    BY <1>13, <1>14, <2>1 DEF Shifted
  <2>3. f[N + 1] = ShiftLow(g)
    <3>1. N + 1 \in 1 .. N + 1 /\ (N + 1) - 1 = N
      OBVIOUS
    <3> QED
      BY <1>3, <1>9, <3>1
  <2> QED
    BY <1>3, <2>2, <2>3
<1>16. /\ g.out \o Held(g, 0) \in Seq(Digits) /\ Len(g.out \o Held(g, 0)) = Places(g)
       /\ Value(g.out \o Held(g, 0), Places(g)) = h
  <2>1. g.cache = Digit - 1 => 0 = 0
    OBVIOUS
  <2>2. /\ g.out \o Held(g, 0) \in Seq(Digits) /\ Len(g.out \o Held(g, 0)) = Places(g)
    BY <1>10, CarryFacts
  <2> QED
    BY <1>11, <2>2 DEF Pending
<1> QED
  BY <1>2, <1>4, <1>10, <1>12, <1>15, <1>16

\* Further digits refine a value by less than one unit.
LEMMA ValueRefines ==
  ASSUME NEW s \in Seq(Digits), NEW k \in Nat
  PROVE  \A j \in Nat : \E x \in 0 .. DigitTo(j) - 1 : Value(s, k + j) = DigitTo(j) * Value(s, k) + x
<1> DEFINE P(j) == \E x \in 0 .. DigitTo(j) - 1 : Value(s, k + j) = DigitTo(j) * Value(s, k) + x
           S == {j \in Nat : P(j)}
<1>1. PICK v \in Nat : v = Value(s, k)
  BY ValueFacts
<1>2. ASSUME NEW j \in Nat, \A m \in 0 .. j - 1 : m \in S PROVE j \in S
  <2>1. CASE j = 0
    <3>1. DigitTo(0) = 1 /\ k + 0 = k /\ 1 * v + 0 = v /\ 0 \in 0 .. 1 - 1
      BY PowerFacts
    <3>2. P(0)
      BY <1>1, <3>1
    <3> QED
      BY <2>1, <3>2
  <2>2. CASE j # 0
    <3>1. PICK i \in Nat : j = i + 1
      <4>1. j - 1 \in Nat /\ j = (j - 1) + 1
        BY <2>2
      <4> QED
        BY <4>1
    <3>2. P(i)
      <4>1. i \in 0 .. j - 1
        BY <3>1
      <4> QED
        BY <1>2, <4>1
    <3>3. PICK x \in 0 .. DigitTo(i) - 1 : Value(s, k + i) = DigitTo(i) * v + x
      BY <1>1, <3>2
    <3>4. PICK p \in Nat \ {0} : p = DigitTo(i)
      BY PowerFacts
    <3>5. DigitTo(j) = Digit * p /\ Digit \in Nat /\ Digit >= 2
      BY <3>1, <3>4, PowerFacts, FullFacts
    <3>6. x \in Nat /\ x <= p - 1
      BY <3>3, <3>4
    <3>7. PICK d \in Nat : d = DigitAt(s, k + j) /\ d < Digit
      <4>1. k + j \in Nat \ {0}
        BY <2>2
      <4> QED
        BY <4>1, DigitAtFacts
    <3>8. Value(s, k + j) = Digit * (p * v + x) + d
      <4>1. k + j = (k + i) + 1 /\ k + i \in Nat
        BY <3>1
      <4>2. Value(s, (k + i) + 1) = Digit * Value(s, k + i) + DigitAt(s, (k + i) + 1)
        BY <4>1, ValueFacts
      <4> QED
        BY <3>3, <3>4, <3>7, <4>1, <4>2
    <3>9. Digit * (p * v + x) + d = (Digit * p) * v + (Digit * x + d)
      <4>1. \A a, b, c, y, z \in Nat : a * (b * c + y) + z = (a * b) * c + (a * y + z)
        OBVIOUS
      <4>2. Digit \in Nat /\ p \in Nat /\ v \in Nat /\ x \in Nat /\ d \in Nat
        BY <3>5, <3>6
      <4> QED
        BY ONLY <4>1, <4>2
    <3>10. Digit * x + d \in 0 .. Digit * p - 1
      <4>1. \A a, b, c, z \in Nat : b <= c - 1 /\ z < a => a * b + z \in 0 .. a * c - 1
        <5> TAKE a, b, c, z \in Nat
        <5>1. SUFFICES ASSUME b <= c - 1, z < a PROVE a * b + z \in 0 .. a * c - 1
          OBVIOUS
        <5>2. \A y, w \in Nat : y <= w => a * y <= a * w
          OBVIOUS
        <5>3. a * (b + 1) <= a * c
          BY <5>1, <5>2
        <5>4. a * (b + 1) = a * b + a /\ a * b \in Nat /\ a * c \in Nat
          OBVIOUS
        <5> QED
          BY <5>1, <5>3, <5>4
      <4> QED
        BY <3>4, <3>5, <3>6, <3>7, <4>1
    <3>11. P(j)
      BY <1>1, <3>5, <3>8, <3>9, <3>10
    <3> QED
      BY <3>11
  <2> QED
    BY <2>1, <2>2
<1>3. \A j \in Nat : j \in S
  <2> HIDE DEF S
  <2> QED
    BY <1>2, StrongInduction
<1> QED
  BY <1>3

----------------------------------------------------------------------------
(* The decoder.                                                            *)

Decoder == [buf : Seq(Digits), pos : Nat, code : Nat, range : Nat]

\* Taking a digit appends it to the code.
LEMMA TakeDigitFacts ==
  ASSUME NEW d \in Decoder
  PROVE  /\ TakeDigit(d) \in Decoder /\ TakeDigit(d).buf = d.buf /\ TakeDigit(d).pos = d.pos + 1
         /\ TakeDigit(d).range = d.range
         /\ TakeDigit(d).code = (d.code * Digit + DigitAt(d.buf, d.pos + 1)) % Full
<1>1. PICK g : g = TakeDigit(d)
  OBVIOUS
<1>2. d.buf \in Seq(Digits) /\ d.pos \in Nat /\ d.code \in Nat /\ d.range \in Nat
  BY DEF Decoder
<1>3. ReadDigit(d) = DigitAt(d.buf, d.pos + 1)
  <2>1. d.pos < Len(d.buf) <=> d.pos + 1 <= Len(d.buf)
    BY <1>2
  <2> QED
    BY <2>1 DEF ReadDigit, DigitAt
<1>4. PICK x \in Nat : x = DigitAt(d.buf, d.pos + 1)
  <2>1. d.pos + 1 \in Nat \ {0}
    BY <1>2
  <2> QED
    BY <1>2, <2>1, DigitAtFacts
<1>5. g = [d EXCEPT !.code = (d.code * Digit + x) % Full, !.pos = d.pos + 1]
  BY <1>1, <1>3, <1>4 DEF TakeDigit
<1>6. /\ g.code = (d.code * Digit + x) % Full /\ g.pos = d.pos + 1 /\ g.buf = d.buf
      /\ g.range = d.range
      /\ g = [buf |-> g.buf, pos |-> g.pos, code |-> g.code, range |-> g.range]
  BY <1>5 DEF Decoder
<1>7. g.code \in Nat
  <2>1. d.code * Digit + x \in Nat
    BY <1>2, <1>4, FullFacts
  <2>2. \A a \in Nat : \A b \in Nat \ {0} : a % b \in Nat
    OBVIOUS
  <2>3. Full \in Nat \ {0}
    BY FullFacts
  <2> QED
    BY <1>6, <2>1, <2>2, <2>3
<1>8. g.pos \in Nat
  BY <1>2, <1>6
<1>9. g \in Decoder
  BY <1>2, <1>6, <1>7, <1>8 DEF Decoder
<1> QED
  BY <1>1, <1>4, <1>6, <1>9

\* The first digits.
FillRuns(f, buf) ==
  /\ f \in [0 .. Width + 1 -> Decoder]
  /\ f[0] = [buf |-> buf, pos |-> 0, code |-> 0, range |-> Full - 1]
  /\ \A k \in 1 .. Width + 1 : f[k] = TakeDigit(f[k - 1])
  /\ DecoderNew(buf) = f[Width + 1]

\* A new decoder is filled by a loop.
LEMMA FillRunning ==
  ASSUME NEW buf \in Seq(Digits)
  PROVE  \E f : FillRuns(f, buf)
<1>1. PICK X : X = Decoder
  OBVIOUS
<1>2. \A x \in X : TakeDigit(x) \in X
  BY <1>1, TakeDigitFacts
<1>3. PICK N : N = Width + 1
  OBVIOUS
<1>4. N \in Nat
  BY <1>3, CoderAssumption
<1>5. PICK e : e = [buf |-> buf, pos |-> 0, code |-> 0, range |-> Full - 1]
  OBVIOUS
<1>51. e \in X
  <2>1. Full - 1 \in Nat
    BY FullFacts
  <2> QED
    BY <1>1, <1>5, <2>1 DEF Decoder
<1> DEFINE st == [k \in 1 .. N |-> [x \in X |-> TakeDigit(x)]]
           G(g) == g = [k \in 0 .. N |-> IF k = 0 THEN e ELSE TakeDigit(g[k - 1])]
<1>6. st \in [1 .. N -> [X -> X]]
  BY <1>2
<1>7. \A k \in 1 .. N : \A x \in X : st[k][x] = TakeDigit(x)
  OBVIOUS
<1> HIDE DEF st
<1>8. PICK f : Turns(f, N, X, e, st)
  BY <1>4, <1>51, <1>6, Looping DEF Loop
<1>9. f \in [0 .. N -> X] /\ f[0] = e
  BY <1>8 DEF Turns
<1>10. \A k \in 1 .. N : f[k] = TakeDigit(f[k - 1])
  <2> TAKE k \in 1 .. N
  <2>1. k - 1 \in 0 .. N
    BY <1>4
  <2>2. f[k] = st[k][f[k - 1]] /\ f[k - 1] \in X
    BY <1>8, <1>9, <2>1 DEF Turns
  <2> QED
    BY <1>7, <2>2
<1>11. G(f)
  <2>1. \A k \in 0 .. N : f[k] = IF k = 0 THEN e ELSE TakeDigit(f[k - 1])
    BY <1>9, <1>10
  <2> QED
    BY <1>9, <2>1
<1> DEFINE h == CHOOSE h : G(h)
<1>12. G(h)
  BY <1>11
<1>13. DecoderNew(buf) = h[N]
  BY <1>3, <1>5 DEF DecoderNew
<1> HIDE DEF h
<1>14. h[0] = e /\ \A k \in 1 .. N : h[k] = TakeDigit(h[k - 1])
  <2>1. 0 \in 0 .. N /\ \A k \in 1 .. N : k \in 0 .. N /\ k # 0
    BY <1>4
  <2> QED
    BY <1>12, <2>1
<1> HIDE DEF G
<1>15. h[N] = f[N]
  <2> DEFINE S == {k \in Nat : h[k] = f[k]}
  <2>1. 0 \in S
    BY <1>9, <1>14
  <2>2. ASSUME NEW k \in 0 .. N - 1, k \in S PROVE k + 1 \in S
    <3>1. k + 1 \in 1 .. N /\ (k + 1) - 1 = k
      BY <1>4
    <3>2. h[k + 1] = TakeDigit(h[k]) /\ f[k + 1] = TakeDigit(f[k])
      BY <1>10, <1>14, <3>1
    <3> QED
      BY <2>2, <3>1, <3>2
  <2> HIDE DEF S
  <2>3. \A k \in 0 .. N : k \in S
    BY <1>4, <2>1, <2>2, InductionUpTo
  <2>4. N \in S
    BY <1>4, <2>3
  <2> QED
    BY <2>4 DEF S
<1>16. FillRuns(f, buf)
  BY <1>1, <1>3, <1>5, <1>9, <1>10, <1>13, <1>15 DEF FillRuns
<1> QED
  BY <1>16

\* A new decoder is one.
LEMMA DecoderNewType ==
  ASSUME NEW buf \in Seq(Digits)
  PROVE  DecoderNew(buf) \in Decoder
<1>1. PICK f : FillRuns(f, buf)
  BY FillRunning
<1>2. Width + 1 \in 0 .. Width + 1
  BY CoderAssumption
<1> QED
  BY <1>1, <1>2 DEF FillRuns

\* A new decoder holds the first digits, when they need no more than Width places.
LEMMA DecoderNewFacts ==
  ASSUME NEW buf \in Seq(Digits), Value(buf, Width + 1) < Full
  PROVE  /\ DecoderNew(buf) \in Decoder /\ DecoderNew(buf).buf = buf
         /\ DecoderNew(buf).pos = Width + 1 /\ DecoderNew(buf).range = Full - 1
         /\ DecoderNew(buf).code = Value(buf, Width + 1)
<1>1. PICK f : FillRuns(f, buf)
  BY FillRunning
<1>2. PICK N \in Nat : N = Width + 1
  BY CoderAssumption
<1>3. /\ f \in [0 .. N -> Decoder]
      /\ f[0] = [buf |-> buf, pos |-> 0, code |-> 0, range |-> Full - 1]
      /\ \A k \in 1 .. N : f[k] = TakeDigit(f[k - 1])
      /\ DecoderNew(buf) = f[N]
  BY <1>1, <1>2 DEF FillRuns
<1> DEFINE S == {k \in Nat : /\ f[k].buf = buf /\ f[k].pos = k /\ f[k].range = Full - 1
                             /\ f[k].code = Value(buf, k)}
<1>4. 0 \in S
  <2>1. Value(buf, 0) = 0
    BY ValueFacts
  <2>2. f[0].buf = buf /\ f[0].pos = 0 /\ f[0].range = Full - 1 /\ f[0].code = 0
    BY <1>3
  <2> QED
    BY <2>1, <2>2
<1>5. \A k \in 0 .. N : Value(buf, k) < Full
  <2> TAKE k \in 0 .. N
  <2>1. PICK j \in Nat : k + j = N /\ k \in Nat
    <3>1. N - k \in Nat /\ k + (N - k) = N /\ k \in Nat
      BY <1>2
    <3> QED
      BY <3>1
  <2>2. PICK x \in 0 .. DigitTo(j) - 1 : Value(buf, k + j) = DigitTo(j) * Value(buf, k) + x
    BY <2>1, ValueRefines
  <2>3. PICK p \in Nat \ {0} : p = DigitTo(j)
    BY PowerFacts
  <2>4. PICK v \in Nat : v = Value(buf, k)
    BY <2>1, ValueFacts
  <2>5. x \in Nat /\ p * v + x < Full /\ Full \in Nat
    BY <1>2, <2>1, <2>2, <2>3, <2>4, FullFacts
  <2>6. p * v >= v /\ p * v \in Nat
    <3>1. \A a \in Nat \ {0} : \A b \in Nat : a * b >= b /\ a * b \in Nat
      OBVIOUS
    <3> QED
      BY <3>1
  <2> QED
    BY <2>4, <2>5, <2>6
<1>6. ASSUME NEW k \in 0 .. N - 1, k \in S PROVE k + 1 \in S
  <2>1. k \in Nat /\ k + 1 \in 1 .. N /\ k \in 0 .. N /\ (k + 1) - 1 = k /\ k + 1 \in 0 .. N
    BY <1>2
  <2>2. PICK x : x = f[k]
    OBVIOUS
  <2>3. x \in Decoder /\ x.buf = buf /\ x.pos = k /\ x.range = Full - 1 /\ x.code = Value(buf, k)
    BY <1>3, <1>6, <2>1, <2>2
  <2>4. f[k + 1] = TakeDigit(x)
    BY <1>3, <2>1, <2>2
  <2>5. /\ TakeDigit(x).buf = buf /\ TakeDigit(x).pos = k + 1 /\ TakeDigit(x).range = Full - 1
        /\ TakeDigit(x).code = (Value(buf, k) * Digit + DigitAt(buf, k + 1)) % Full
    BY <2>3, TakeDigitFacts
  <2>6. PICK v \in Nat : v = Value(buf, k)
    BY <2>1, ValueFacts
  <2>7. v * Digit = Digit * v
    BY <2>6, FullFacts
  <2>8. Value(buf, k + 1) = v * Digit + DigitAt(buf, k + 1) /\ Value(buf, k + 1) \in Nat
    <3>1. /\ Value(buf, k + 1) = Digit * Value(buf, k) + DigitAt(buf, k + 1)
          /\ \A n \in Nat : Value(buf, n) \in Nat
      BY <2>1, ValueFacts
    <3>2. k + 1 \in Nat
      BY <2>1
    <3> QED
      BY <2>6, <2>7, <3>1, <3>2
  <2>9. Value(buf, k + 1) % Full = Value(buf, k + 1)
    <3>1. \A a \in Nat : \A b \in Nat \ {0} : a < b => a % b = a
      OBVIOUS
    <3>2. Full \in Nat \ {0}
      BY FullFacts
    <3> QED
      BY <1>5, <2>1, <2>8, <3>1, <3>2
  <2> QED
    BY <2>1, <2>4, <2>5, <2>6, <2>8, <2>9
<1> HIDE DEF S
<1>7. \A k \in 0 .. N : k \in S
  BY <1>4, <1>6, InductionUpTo
<1>8. N \in S
  BY <1>2, <1>7
<1>9. DecoderNew(buf) \in Decoder
  BY DecoderNewType
<1> QED
  BY <1>2, <1>3, <1>8, <1>9 DEF S

\* One turn of the reader's renormalisation.
Refill(p) == IF p.range < Top THEN [TakeDigit(p) EXCEPT !.range = @ * Digit] ELSE p

Taken(d, iv) ==
  [d EXCEPT !.code  = IF iv.start * d.range > @ THEN 0 ELSE @ - iv.start * d.range,
            !.range = IF d.range * iv.size = 0 THEN 1 ELSE d.range * iv.size]

\* A turn of the reader's renormalisation leaves a decoder.
LEMMA RefillType ==
  ASSUME NEW d \in Decoder
  PROVE  Refill(d) \in Decoder
<1>1. CASE d.range < Top
  <2>1. PICK g : g = TakeDigit(d)
    OBVIOUS
  <2>2. g \in Decoder
    BY <2>1, TakeDigitFacts
  <2>3. g.range * Digit \in Nat
    BY <2>2, FullFacts DEF Decoder
  <2>4. [g EXCEPT !.range = @ * Digit] \in Decoder
    BY <2>2, <2>3 DEF Decoder
  <2> QED
    BY <1>1, <2>1, <2>4 DEF Refill
<1>2. CASE ~(d.range < Top)
  BY <1>2 DEF Refill
<1> QED
  BY <1>1, <1>2

\* Any counts: corrupt input included.
Parted(iv) == iv.start \in Nat /\ iv.size \in Nat

\* Taking an interval leaves a decoder, whatever the digits were.
LEMMA TakenType ==
  ASSUME NEW d \in Decoder, NEW iv, Parted(iv)
  PROVE  Taken(d, iv) \in Decoder
<1>1. PICK c, r, b, p : c = d.code /\ r = d.range /\ b = d.buf /\ p = d.pos
  OBVIOUS
<1>2. c \in Nat /\ r \in Nat /\ b \in Seq(Digits) /\ p \in Nat
      /\ d = [buf |-> b, pos |-> p, code |-> c, range |-> r]
  BY <1>1 DEF Decoder
<1>3. iv.start * r \in Nat /\ r * iv.size \in Nat
  BY <1>2 DEF Parted
<1>4. PICK c2, r2 : c2 = (IF iv.start * r > c THEN 0 ELSE c - iv.start * r)
                    /\ r2 = (IF r * iv.size = 0 THEN 1 ELSE r * iv.size)
  OBVIOUS
<1>5. c2 \in Nat /\ r2 \in Nat
  BY <1>2, <1>3, <1>4
<1>6. Taken(d, iv) = [buf |-> b, pos |-> p, code |-> c2, range |-> r2]
  <2>1. Taken(d, iv) = [d EXCEPT !.code = c2, !.range = r2]
    BY <1>1, <1>4 DEF Taken
  <2> QED
    BY <1>2, <2>1
<1> QED
  BY <1>2, <1>5, <1>6 DEF Decoder

RefillRuns(f, d, iv) ==
  /\ f \in [0 .. 2 * Width -> Decoder] /\ f[0] = Taken(d, iv)
  /\ \A k \in 1 .. 2 * Width : f[k] = Refill(f[k - 1])
  /\ DecodeStep(d, iv) = f[2 * Width]

\* Decoding is a loop of turns.
LEMMA RefillRunning ==
  ASSUME NEW d \in Decoder, NEW iv, Parted(iv)
  PROVE  \E f : RefillRuns(f, d, iv)
<1>1. PICK X : X = Decoder
  OBVIOUS
<1>2. \A x \in X : Refill(x) \in X
  BY <1>1, RefillType
<1>3. PICK N : N = 2 * Width
  OBVIOUS
<1>4. N \in Nat
  BY <1>3, CoderAssumption
<1>5. PICK e : e = Taken(d, iv)
  OBVIOUS
<1>51. e \in X
  BY <1>1, <1>5, TakenType
<1> DEFINE st == [k \in 1 .. N |-> [x \in X |-> Refill(x)]]
           G(g) == g = [k \in 0 .. N |-> IF k = 0 THEN e ELSE Refill(g[k - 1])]
<1>6. st \in [1 .. N -> [X -> X]]
  BY <1>2
<1>7. \A k \in 1 .. N : \A x \in X : st[k][x] = Refill(x)
  OBVIOUS
<1> HIDE DEF st
<1>8. PICK f : Turns(f, N, X, e, st)
  BY <1>4, <1>51, <1>6, Looping DEF Loop
<1>9. f \in [0 .. N -> X] /\ f[0] = e
  BY <1>8 DEF Turns
<1>10. \A k \in 1 .. N : f[k] = Refill(f[k - 1])
  <2> TAKE k \in 1 .. N
  <2>1. k - 1 \in 0 .. N
    BY <1>4
  <2>2. f[k] = st[k][f[k - 1]] /\ f[k - 1] \in X
    BY <1>8, <1>9, <2>1 DEF Turns
  <2> QED
    BY <1>7, <2>2
<1>11. G(f)
  <2>1. \A k \in 0 .. N : f[k] = IF k = 0 THEN e ELSE Refill(f[k - 1])
    BY <1>9, <1>10
  <2> QED
    BY <1>9, <2>1
<1> DEFINE h == CHOOSE h : G(h)
<1>12. G(h)
  BY <1>11
<1>13. DecodeStep(d, iv) = h[N]
  BY <1>3, <1>5 DEF DecodeStep, Taken, Refill
<1> HIDE DEF h
<1>14. h[0] = e /\ \A k \in 1 .. N : h[k] = Refill(h[k - 1])
  <2>1. 0 \in 0 .. N /\ \A k \in 1 .. N : k \in 0 .. N /\ k # 0
    BY <1>4
  <2> QED
    BY <1>12, <2>1
<1> HIDE DEF G
<1>15. h[N] = f[N]
  <2> DEFINE S == {k \in Nat : h[k] = f[k]}
  <2>1. 0 \in S
    BY <1>9, <1>14
  <2>2. ASSUME NEW k \in 0 .. N - 1, k \in S PROVE k + 1 \in S
    <3>1. k + 1 \in 1 .. N /\ (k + 1) - 1 = k
      BY <1>4
    <3>2. h[k + 1] = Refill(h[k]) /\ f[k + 1] = Refill(f[k])
      BY <1>10, <1>14, <3>1
    <3> QED
      BY <2>2, <3>1, <3>2
  <2> HIDE DEF S
  <2>3. \A k \in 0 .. N : k \in S
    BY <1>4, <2>1, <2>2, InductionUpTo
  <2>4. N \in S
    BY <1>4, <2>3
  <2> QED
    BY <2>4 DEF S
<1>16. RefillRuns(f, d, iv)
  BY <1>1, <1>3, <1>5, <1>9, <1>10, <1>13, <1>15 DEF RefillRuns
<1> QED
  BY <1>16

\* A decoded symbol leaves a decoder, whatever the digits were.
LEMMA DecodeType ==
  ASSUME NEW d \in Decoder, NEW total \in Nat \ {0}, NEW iv, Parted(iv)
  PROVE  DecodeStep(Scale(d, total), iv) \in Decoder
<1>1. Scale(d, total) \in Decoder
  <2>1. \A a \in Nat : \A b \in Nat \ {0} : a \div b \in Nat
    OBVIOUS
  <2>2. d.range \div total \in Nat
    BY <2>1 DEF Decoder
  <2> QED
    BY <2>2 DEF Decoder, Scale
<1>2. PICK f : RefillRuns(f, Scale(d, total), iv)
  BY <1>1, RefillRunning
<1>3. 2 * Width \in 0 .. 2 * Width
  BY CoderAssumption
<1> QED
  BY <1>2, <1>3 DEF RefillRuns

\* The symbol whose interval holds the code is taken out of it, and the reader stays as
\* far behind the digits as the writer's number is.
Follows(d, num, r) == /\ d \in Decoder /\ num \in Nat /\ d.range = r /\ d.code < r
                      /\ d.code + num = Value(d.buf, d.pos)

\* A decoder within the interval of a symbol follows the coder through it.
LEMMA DecodeFacts ==
  ASSUME NEW d, NEW num, NEW r, Follows(d, num, r), r < Full,
         NEW iv, Part(iv), NEW u, u = r \div iv.total, u >= 1,
         NEW w, w = u * iv.size, NEW j \in 0 .. Width - 1, Enough(w, j),
         iv.start * u <= d.code, d.code < iv.start * u + w
  PROVE  /\ DecodeStep(Scale(d, iv.total), iv).buf = d.buf
         /\ DecodeStep(Scale(d, iv.total), iv).pos = d.pos + j
         /\ Follows(DecodeStep(Scale(d, iv.total), iv), DigitTo(j) * (num + iv.start * u),
                    DigitTo(j) * w)
<1>1. PICK c, st, sz, tot, b, p : /\ c = d.code /\ st = iv.start /\ sz = iv.size /\ tot = iv.total
                                  /\ b = d.buf /\ p = d.pos
  OBVIOUS
<1>2. /\ c \in Nat /\ r \in Nat /\ b \in Seq(Digits) /\ p \in Nat /\ num \in Nat
      /\ d = [buf |-> b, pos |-> p, code |-> c, range |-> r] /\ c + num = Value(b, p)
  BY <1>1 DEF Decoder, Follows
<1>3. st \in Nat /\ sz \in Nat \ {0} /\ tot \in Nat \ {0} /\ st + sz <= tot
  BY <1>1 DEF Part
<1>4. u \in Nat \ {0} /\ w \in Nat \ {0} /\ st * u \in Nat
  <2>1. \A a \in Nat : \A x \in Nat \ {0} : a \div x \in Nat
    OBVIOUS
  <2>2. u \in Nat
    BY <1>1, <1>2, <1>3, <2>1
  <2>3. \A a, x \in Nat \ {0} : a * x \in Nat \ {0}
    OBVIOUS
  <2>4. u \in Nat \ {0}
    BY <2>2
  <2> QED
    BY <1>1, <1>3, <2>3, <2>4
<1>5. PICK s : s = Scale(d, tot)
  OBVIOUS
<1>6. s = [buf |-> b, pos |-> p, code |-> c, range |-> u]
  BY SMTT(30), <1>1, <1>2, <1>4, <1>5 DEF Scale
<1>7. PICK c0 \in Nat : c0 = c - st * u /\ c0 < w
  BY <1>1, <1>2, <1>4
<1>8. Taken(s, iv) = [buf |-> b, pos |-> p, code |-> c0, range |-> w]
  <2>1. ~(st * u > c) /\ u * sz = w /\ ~(u * sz = 0)
    BY <1>1, <1>2, <1>4
  <2>2. s.code = c /\ s.range = u
    BY <1>6
  <2>3. Taken(s, iv) = [s EXCEPT !.code = IF st * u > c THEN 0 ELSE c - st * u,
                                 !.range = IF u * sz = 0 THEN 1 ELSE u * sz]
    BY <1>1, <2>2 DEF Taken
  <2>4. Taken(s, iv) = [s EXCEPT !.code = c0, !.range = w]
    BY <1>7, <2>1, <2>3
  <2> QED
    BY <1>6, <2>4
<1>9. PICK f : RefillRuns(f, s, iv)
  <2>1. s \in Decoder
    BY <1>2, <1>4, <1>6 DEF Decoder
  <2>2. Parted(iv)
    BY DEF Part, Parted
  <2> QED
    BY <2>1, <2>2, RefillRunning
<1>10. PICK N \in Nat : N = 2 * Width
  BY CoderAssumption
<1>11. /\ f \in [0 .. N -> Decoder] /\ f[0] = Taken(s, iv)
       /\ \A k \in 1 .. N : f[k] = Refill(f[k - 1])
       /\ DecodeStep(s, iv) = f[N]
  BY <1>9, <1>10 DEF RefillRuns
<1>12. j \in Nat /\ j <= N - 1 /\ DigitTo(j) * w >= Top /\ \A i \in 0 .. j - 1 : DigitTo(i) * w < Top
  BY <1>10, CoderAssumption DEF Enough
<1>13. PICK m \in Nat : m = num + st * u
  BY <1>2, <1>4
<1> DEFINE S == {k \in Nat : /\ f[k].buf = b /\ f[k].pos = p + k
                             /\ Follows(f[k], DigitTo(k) * m, DigitTo(k) * w)}
<1>14. 0 \in S
  <2>1. PICK x : x = f[0]
    OBVIOUS
  <2>2. x.buf = b /\ x.pos = p + 0 /\ x.code = c0 /\ x.range = w /\ x \in Decoder /\ x.pos = p
    <3>1. 0 \in 0 .. N
      OBVIOUS
    <3> QED
      BY <1>2, <1>8, <1>11, <2>1, <3>1
  <2>3. DigitTo(0) * m = m /\ DigitTo(0) * w = w
    BY <1>4, PowerFacts
  <2>4. c0 + m = Value(b, p)
    <3>1. PICK su, y : su = st * u /\ y = Value(b, p)
      OBVIOUS
    <3>2. /\ c \in Nat /\ su \in Nat /\ num \in Nat /\ c + num = y
          /\ c0 = c - su /\ m = num + su
      BY <1>2, <1>4, <1>7, <1>13, <3>1
    <3>3. c0 + m = y
      BY ONLY <3>2
    <3> QED
      BY <3>1, <3>3
  <2>5. Follows(x, DigitTo(0) * m, DigitTo(0) * w)
    BY <1>7, <2>2, <2>3, <2>4 DEF Follows
  <2> QED
    BY <2>1, <2>2, <2>5
<1>15. ASSUME NEW k \in 0 .. j - 1, k \in S PROVE k + 1 \in S
  <2>1. k \in Nat /\ k + 1 \in 1 .. N /\ k \in 0 .. N /\ (k + 1) - 1 = k /\ k + 1 \in 0 .. N
    BY <1>12
  <2>2. PICK x, q : x = f[k] /\ q = DigitTo(k)
    OBVIOUS
  <2>3. q \in Nat /\ DigitTo(k + 1) = Digit * q /\ Digit \in Nat /\ Digit >= 2
    BY <2>1, <2>2, PowerFacts, FullFacts
  <2>4. /\ x \in Decoder /\ x.buf = b /\ x.pos = p + k /\ x.range = q * w /\ x.code < q * w
        /\ x.code + q * m = Value(b, p + k)
    BY <1>15, <2>2 DEF Follows
  <2>5. PICK cx, rx \in Nat : cx = x.code /\ rx = x.range
    BY <2>4 DEF Decoder
  <2>6. rx < Top
    BY <1>12, <2>2, <2>4, <2>5
  <2>7. PICK a \in Nat : a = DigitAt(b, (p + k) + 1) /\ a < Digit
    <3>1. (p + k) + 1 \in Nat \ {0}
      BY <1>2, <2>1
    <3> QED
      BY <1>2, <3>1, DigitAtFacts
  <2>8. PICK g : g = TakeDigit(x)
    OBVIOUS
  <2>9. /\ g \in Decoder /\ g.buf = b /\ g.pos = (p + k) + 1 /\ g.range = rx
        /\ g.code = (cx * Digit + a) % Full
    BY <2>4, <2>5, <2>7, <2>8, TakeDigitFacts
  <2>10. cx * Digit + a \in Nat /\ cx * Digit + a < rx * Digit /\ rx * Digit \in Nat
    <3>1. cx + 1 <= rx
      BY <2>4, <2>5
    <3>2. \A y, z, v \in Nat : y <= z => y * v <= z * v
      OBVIOUS
    <3>3. (cx + 1) * Digit <= rx * Digit
      BY <2>3, <3>1, <3>2
    <3>4. (cx + 1) * Digit = cx * Digit + Digit /\ cx * Digit \in Nat /\ rx * Digit \in Nat
      BY <2>3
    <3> QED
      BY <2>3, <2>7, <3>3, <3>4
  <2>11. rx * Digit < Full
    <3>1. \A y, z \in Nat : \A v \in Nat \ {0} : y < z => y * v < v * z
      OBVIOUS
    <3>2. Top \in Nat /\ Digit \in Nat \ {0} /\ Full = Digit * Top
      BY FullFacts
    <3> QED
      BY <2>6, <3>1, <3>2
  <2>12. g.code = cx * Digit + a
    <3>1. \A y \in Nat : \A v \in Nat \ {0} : y < v => y % v = y
      OBVIOUS
    <3>2. Full \in Nat \ {0}
      BY FullFacts
    <3>3. cx * Digit + a < Full
      BY <2>10, <2>11, <3>2
    <3>4. (cx * Digit + a) % Full = cx * Digit + a
      BY <2>10, <3>1, <3>2, <3>3
    <3> QED
      BY <2>9, <3>4
  <2>13. PICK y : y = [g EXCEPT !.range = @ * Digit]
    OBVIOUS
  <2>14. /\ y \in Decoder /\ y.buf = b /\ y.pos = p + (k + 1) /\ y.code = cx * Digit + a
         /\ y.range = rx * Digit
    <3>1. p + (k + 1) = (p + k) + 1
      BY <1>2, <2>1
    <3> QED
      BY <2>9, <2>10, <2>12, <2>13, <3>1 DEF Decoder
  <2>15. f[k + 1] = y
    BY <1>11, <2>1, <2>2, <2>5, <2>6, <2>8, <2>13 DEF Refill
  <2>16. rx * Digit = DigitTo(k + 1) * w
    <3>1. \A e1, e2, e3 \in Nat : (e1 * e2) * e3 = (e3 * e1) * e2
      OBVIOUS
    <3> QED
      BY <1>4, <2>3, <2>4, <2>5, <3>1
  <2>17. DigitTo(k + 1) * m \in Nat /\ (cx * Digit + a) + DigitTo(k + 1) * m = Value(b, p + (k + 1))
    <3>1. PICK v : v = Value(b, p + k)
      OBVIOUS
    <3>2. /\ p + (k + 1) = (p + k) + 1 /\ p + k \in Nat
      BY <1>2, <2>1
    <3>3. v \in Nat /\ Value(b, p + (k + 1)) = Digit * v + a
      <4>1. /\ Value(b, p + k) \in Nat
            /\ Value(b, (p + k) + 1) = Digit * Value(b, p + k) + DigitAt(b, (p + k) + 1)
        BY <1>2, <3>2, ValueFacts
      <4> QED
        BY <2>7, <3>1, <3>2, <4>1
    <3>4. v = cx + q * m
      BY <2>4, <2>5, <3>1
    <3>5. \A e1, e2, e3, e4, e5 \in Nat : e1 * (e2 + e3 * e4) + e5 = (e2 * e1 + e5) + (e1 * e3) * e4
      OBVIOUS
    <3>6. Digit * (cx + q * m) + a = (cx * Digit + a) + (Digit * q) * m
      BY <2>3, <3>5
    <3>7. (Digit * q) * m \in Nat
      BY <2>3
    <3> QED
      BY <2>3, <3>3, <3>4, <3>6, <3>7
  <2>18. Follows(y, DigitTo(k + 1) * m, DigitTo(k + 1) * w)
    BY <2>10, <2>14, <2>16, <2>17 DEF Follows
  <2> QED
    BY <2>1, <2>14, <2>15, <2>18
<1> HIDE DEF S
<1>16. \A k \in 0 .. j : k \in S
  BY <1>12, <1>14, <1>15, InductionUpTo
<1>17. f[j].buf = b /\ f[j].pos = p + j /\ Follows(f[j], DigitTo(j) * m, DigitTo(j) * w)
  <2>1. j \in S
    BY <1>12, <1>16
  <2> QED
    BY <2>1 DEF S
<1> DEFINE R == {i \in Nat : f[j + i] = f[j]}
<1>18. 0 \in R
  BY <1>12
<1>19. ASSUME NEW i \in 0 .. (N - j) - 1, i \in R PROVE i + 1 \in R
  <2>1. i \in Nat /\ j + (i + 1) \in 1 .. N /\ (j + (i + 1)) - 1 = j + i
    BY <1>12
  <2>2. f[j + (i + 1)] = Refill(f[j + i])
    BY <1>11, <2>1
  <2>3. ~(f[j].range < Top)
    <3>1. PICK q \in Nat \ {0} : q = DigitTo(j)
      BY <1>12, PowerFacts
    <3>2. q * w \in Nat
      BY <1>4
    <3>3. f[j].range = q * w
      BY <1>17, <3>1 DEF Follows
    <3> QED
      BY <1>12, <3>1, <3>2, <3>3, FullFacts
  <2>4. Refill(f[j]) = f[j]
    BY <2>3 DEF Refill
  <2> QED
    BY <1>19, <2>1, <2>2, <2>4
<1> HIDE DEF R
<1>20. N - j \in Nat /\ j + (N - j) = N
  BY <1>12
<1>21. \A i \in 0 .. N - j : i \in R
  BY <1>18, <1>19, <1>20, InductionUpTo
<1>22. f[N] = f[j]
  <2>1. N - j \in R
    BY <1>20, <1>21
  <2> QED
    BY <1>20, <2>1 DEF R
<1> QED
  BY <1>1, <1>5, <1>11, <1>13, <1>17, <1>22

----------------------------------------------------------------------------
(* A token on both sides.                                                  *)

\* A symbol's interval lies within the total of its row.
LEMMA IntervalFacts ==
  ASSUME NEW t, NEW n, NEW cap, Row(t, n, cap), NEW s \in 0 .. n - 1
  PROVE  /\ Part(Interval(t, s)) /\ Interval(t, s).total = t.total
         /\ Interval(t, s).start = FenwickPrefix(t.tree, s)
         /\ FenwickPrefix(t.tree, s + 1) = Interval(t, s).start + Interval(t, s).size
<1>1. cap \in Nat /\ n \in Nat \ {0} /\ n <= cap /\ t.total \in Nat /\ n <= t.total
  BY RowFacts
<1>2. PICK a, b, c : a = FenwickPrefix(t.tree, s) /\ b = FenwickPrefix(t.tree, s + 1) /\ c = t.counts[s]
  OBVIOUS
<1>3. t.counts \in [0 .. n - 1 -> Nat \ {0}] /\ t.counts \in [0 .. n - 1 -> Nat]
  BY RowFacts DEF Row
<1>4. c \in Nat \ {0}
  BY <1>2, <1>3
<1>5. Weighs(t.tree, Wide(t.counts, n, cap), cap) /\ t.total = FenwickPrefix(t.tree, cap)
  BY DEF Row
<1>6. s \in 0 .. cap - 1 /\ s \in Nat /\ s + 1 \in 0 .. cap /\ s \in 0 .. s + 1 /\ s \in 0 .. cap
  BY <1>1
<1>7. b = a + c
  <2>1. n \in 0 .. cap
    BY <1>1
  <2>2. Wide(t.counts, n, cap)[s] = c
    BY <1>1, <1>2, <1>3, <2>1, WideFacts
  <2> QED
    BY <1>2, <1>5, <1>6, <2>2 DEF Weighs
<1>8. b <= t.total /\ a \in Nat /\ b \in Nat
  <2>1. /\ \A y \in 0 .. cap : \A x \in 0 .. y : FenwickPrefix(t.tree, x) <= FenwickPrefix(t.tree, y)
        /\ \A k \in 0 .. cap : FenwickPrefix(t.tree, k) \in Nat
    BY <1>5, WeighedFacts
  <2>2. cap \in 0 .. cap /\ s + 1 \in 0 .. cap
    BY <1>1, <1>6
  <2> QED
    BY <1>2, <1>5, <1>6, <2>1, <2>2
<1>9. PICK iv : iv = Interval(t, s)
  OBVIOUS
<1>10. iv.start = a /\ iv.size = c /\ iv.total = t.total
  BY <1>2, <1>9 DEF Interval
<1>11. Part(iv)
  BY <1>1, <1>4, <1>7, <1>8, <1>10 DEF Part
<1> QED
  BY <1>2, <1>7, <1>9, <1>10, <1>11

\* The symbol found for a threshold is one of the alphabet, and the only one that covers it.
Covers(t, s, th) == FenwickPrefix(t.tree, s) <= th /\ th < FenwickPrefix(t.tree, s + 1)

\* The search answers a symbol of the alphabet, the only one that covers the threshold.
LEMMA SymbolFound ==
  ASSUME NEW t, NEW n, NEW cap, Row(t, n, cap), NEW th \in Nat, th < t.total
  PROVE  /\ FindGt(t.tree, th) \in 0 .. n - 1
         /\ Covers(t, FindGt(t.tree, th), th)
         /\ \A s \in 0 .. n - 1 : Covers(t, s, th) => s = FindGt(t.tree, th)
<1>1. cap \in Nat /\ n \in Nat \ {0} /\ n <= cap /\ t.tree \in Tree(cap)
  BY RowFacts
<1>2. Weighs(t.tree, Wide(t.counts, n, cap), cap) /\ t.total = FenwickPrefix(t.tree, cap)
  BY DEF Row
<1>3. /\ Rising(t.tree, cap)
      /\ \A y \in 0 .. cap : \A x \in 0 .. y : FenwickPrefix(t.tree, x) <= FenwickPrefix(t.tree, y)
      /\ \A k \in 0 .. cap : FenwickPrefix(t.tree, k) \in Nat
  BY <1>2, WeighedFacts
<1>4. PICK f : f = FindGt(t.tree, th)
  OBVIOUS
<1>5. f \in 0 .. cap - 1 /\ Covers(t, f, th)
  BY <1>1, <1>2, <1>3, <1>4, SearchFacts DEF Covers
<1>6. f \in 0 .. n - 1
  <2>1. SUFFICES ASSUME ~(f < n) PROVE FALSE
    BY <1>1, <1>5
  <2>2. Wide(t.counts, n, cap)[f] = 0
    <3>1. t.counts \in [0 .. n - 1 -> Nat] /\ n \in 0 .. cap
      BY <1>1, RowFacts
    <3>2. \A x \in 0 .. cap - 1 : Wide(t.counts, n, cap)[x] = IF x < n THEN t.counts[x] ELSE 0
      BY <1>1, <3>1, WideFacts
    <3> QED
      BY <1>5, <2>1, <3>2
  <2>3. FenwickPrefix(t.tree, f + 1) = FenwickPrefix(t.tree, f) + 0
    BY <1>2, <1>5, <2>2 DEF Weighs
  <2>4. FenwickPrefix(t.tree, f) \in Nat
    BY <1>1, <1>3, <1>5
  <2> QED
    BY <1>5, <2>3, <2>4 DEF Covers
<1>7. ASSUME NEW s \in 0 .. n - 1, Covers(t, s, th) PROVE s = f
  <2>1. s \in Nat /\ f \in Nat /\ s + 1 \in 0 .. cap /\ f + 1 \in 0 .. cap /\ s \in 0 .. cap /\ f \in 0 .. cap
    BY <1>1, <1>5
  <2>2. CASE s < f
    <3>1. s + 1 \in 0 .. f
      BY <2>1, <2>2
    <3>2. FenwickPrefix(t.tree, s + 1) <= FenwickPrefix(t.tree, f)
      BY <1>3, <2>1, <3>1
    <3>3. FenwickPrefix(t.tree, s + 1) \in Nat /\ FenwickPrefix(t.tree, f) \in Nat
      BY <1>3, <2>1
    <3> QED
      BY <1>5, <1>7, <3>2, <3>3 DEF Covers
  <2>3. CASE f < s
    <3>1. f + 1 \in 0 .. s
      BY <2>1, <2>3
    <3>2. FenwickPrefix(t.tree, f + 1) <= FenwickPrefix(t.tree, s)
      BY <1>3, <2>1, <3>1
    <3>3. FenwickPrefix(t.tree, f + 1) \in Nat /\ FenwickPrefix(t.tree, s) \in Nat
      BY <1>3, <2>1
    <3> QED
      BY <1>5, <1>7, <3>2, <3>3 DEF Covers
  <2> QED
    BY <2>1, <2>2, <2>3
<1> QED
  BY <1>4, <1>5, <1>6, <1>7

\* A threshold is a number.
LEMMA ThresholdType ==
  ASSUME NEW d \in Decoder, NEW total \in Nat \ {0}
  PROVE  Threshold(d, total) \in Nat
<1>1. \A a \in Nat : \A b \in Nat \ {0} : a \div b \in Nat
  OBVIOUS
<1>2. PICK u : u = d.range \div total
  OBVIOUS
<1>3. u \in Nat /\ d.code \in Nat
  BY <1>1, <1>2 DEF Decoder
<1>4. Threshold(d, total) = IF u = 0 THEN 0 ELSE d.code \div u
  BY <1>2 DEF Threshold
<1>5. CASE u = 0
  BY <1>4, <1>5
<1>6. CASE u # 0
  <2>1. d.code \div u \in Nat
    BY <1>1, <1>3, <1>6
  <2> QED
    BY <1>4, <1>6, <2>1
<1> QED
  BY <1>5, <1>6

\* Fewer digits of a value that lies in an interval lie in the interval they came from.
LEMMA Narrows ==
  ASSUME NEW s \in Seq(Digits), NEW p \in Nat, NEW j \in Nat, NEW a \in Nat, NEW w \in Nat,
         DigitTo(j) * a <= Value(s, p + j), Value(s, p + j) < DigitTo(j) * a + DigitTo(j) * w
  PROVE  a <= Value(s, p) /\ Value(s, p) < a + w
<1>1. PICK x \in 0 .. DigitTo(j) - 1 : Value(s, p + j) = DigitTo(j) * Value(s, p) + x
  BY ValueRefines
<1>2. PICK d \in Nat \ {0} : d = DigitTo(j)
  BY PowerFacts
<1>3. PICK v \in Nat : v = Value(s, p)
  BY ValueFacts
<1>4. x \in Nat /\ x < d /\ d * a <= d * v + x /\ d * v + x < d * a + d * w
  BY <1>1, <1>2, <1>3
<1>5. a <= v
  <2>1. SUFFICES ASSUME v + 1 <= a PROVE FALSE
    OBVIOUS
  <2>2. d * (v + 1) <= d * a
    <3>1. \A y, z, c \in Nat : y <= z => c * y <= c * z
      OBVIOUS
    <3> QED
      BY <2>1, <3>1
  <2>3. d * (v + 1) = d * v + d /\ d * v \in Nat /\ d * a \in Nat
    OBVIOUS
  <2> QED
    BY <1>4, <2>2, <2>3
<1>6. v < a + w
  <2>1. SUFFICES ASSUME a + w <= v PROVE FALSE
    OBVIOUS
  <2>2. d * (a + w) <= d * v
    <3>1. \A y, z, c \in Nat : y <= z => c * y <= c * z
      OBVIOUS
    <3> QED
      BY <2>1, <3>1
  <2>3. d * (a + w) = d * a + d * w /\ d * v \in Nat /\ d * (a + w) \in Nat
    OBVIOUS
  <2> QED
    BY <1>4, <2>2, <2>3
<1> QED
  BY <1>3, <1>5, <1>6

\* What coding a symbol does to the range and the number.
CodedBy(e, e2, iv, u, w, j) ==
  /\ Part(iv) /\ u \in Nat \ {0} /\ u = e.range \div iv.total /\ u * iv.total <= e.range
  /\ w \in Nat \ {0} /\ w = u * iv.size /\ j \in 0 .. Width - 1 /\ Enough(w, j)
  /\ e2.range = DigitTo(j) * w
  /\ Places(e2) = Places(e) + j
  /\ Number(e2) = DigitTo(j) * (Number(e) + iv.start * u)

\* A symbol of a total within the range leaves the range wide.
LEMMA EncodeCoded ==
  ASSUME NEW e \in TightCoder, NEW iv, Part(iv), iv.total <= e.range
  PROVE  /\ \E u, w, j : CodedBy(e, EncodeStep(e, iv), iv, u, w, j)
         /\ EncodeStep(e, iv).range >= Top
<1>1. PICK u : u = e.range \div iv.total
  OBVIOUS
<1>2. e.range \in Nat /\ iv.total \in Nat \ {0} /\ iv.size \in Nat \ {0}
  <2>1. e.range \in 0 .. Full - 1 /\ Full \in Nat
    BY FullFacts DEF TightCoder, Coder
  <2> QED
    BY <2>1 DEF Part
<1>3. u \in Nat \ {0} /\ u >= 1
  <2>1. \A a \in Nat : \A b \in Nat \ {0} : b <= a => a \div b \in Nat /\ a \div b >= 1
    OBVIOUS
  <2>2. u \in Nat /\ u >= 1
    BY <1>1, <1>2, <2>1
  <2> QED
    BY <2>2
<1>4. PICK w : w = u * iv.size
  OBVIOUS
<1>5. w \in Nat \ {0}
  <2>1. \A a, b \in Nat \ {0} : a * b \in Nat \ {0}
    OBVIOUS
  <2> QED
    BY <1>2, <1>3, <1>4, <2>1
<1>6. PICK j \in 0 .. Width - 1 : Enough(w, j)
  BY <1>5, EnoughShifts
<1>7. /\ u * iv.total <= e.range
      /\ EncodeStep(e, iv).range = DigitTo(j) * w
      /\ Places(EncodeStep(e, iv)) = Places(e) + j
      /\ Number(EncodeStep(e, iv)) = DigitTo(j) * (Number(e) + iv.start * u)
  BY <1>1, <1>3, <1>4, <1>6, EncodeFacts
<1>8. CodedBy(e, EncodeStep(e, iv), iv, u, w, j)
  BY <1>1, <1>3, <1>4, <1>5, <1>6, <1>7 DEF CodedBy
<1>9. EncodeStep(e, iv).range >= Top
  BY <1>6, <1>7 DEF Enough
<1> QED
  BY <1>8, <1>9

\* The digits of a flush stay within the interval of every token of the chunk.
Inside(s, e) == /\ Number(e) <= Value(s, Places(e) + Width)
                /\ Value(s, Places(e) + Width) < Number(e) + e.range

\* What lies inside after a symbol lay inside before it.
LEMMA CodedInside ==
  ASSUME NEW e, NEW e2, NEW iv, NEW u, NEW w, NEW j, CodedBy(e, e2, iv, u, w, j),
         e \in Coder, NEW s \in Seq(Digits), Inside(s, e2)
  PROVE  /\ Number(e) + iv.start * u <= Value(s, Places(e) + Width)
         /\ Value(s, Places(e) + Width) < (Number(e) + iv.start * u) + w
         /\ Number(e) \in Nat /\ Inside(s, e)
<1>1. PICK p \in Nat : p = Places(e) + Width
  BY CarryFacts, CoderAssumption
<1>2. j \in Nat /\ u \in Nat \ {0} /\ w \in Nat \ {0} /\ w = u * iv.size /\ u * iv.total <= e.range
      /\ iv.start \in Nat /\ iv.size \in Nat /\ iv.total \in Nat /\ iv.start + iv.size <= iv.total
  BY DEF CodedBy, Part
<1>3. PICK a : a = Number(e) + iv.start * u
  OBVIOUS
<1>4. Number(e) \in Nat /\ iv.start * u \in Nat /\ a \in Nat /\ e.range \in Nat
  <2>1. PICK h \in Nat : h = Pending(e)
    BY CarryFacts
  <2>2. e.low \in Nat /\ Full \in Nat /\ e.range \in Nat
    BY FullFacts DEF Coder
  <2>3. h * Full + e.low \in Nat
    <3>1. \A x, y, z \in Nat : x * y + z \in Nat
      OBVIOUS
    <3> QED
      BY <2>2, <3>1
  <2>4. iv.start * u \in Nat
    BY <1>2
  <2> QED
    BY SMTT(30), <1>3, <2>1, <2>2, <2>3, <2>4 DEF Number
<1>5. p + j = Places(e2) + Width
  <2>1. Places(e2) = Places(e) + j
    BY DEF CodedBy
  <2>2. Places(e) \in Nat
    BY CarryFacts
  <2> QED
    BY <1>1, <1>2, <2>1, <2>2, CoderAssumption
<1>6. DigitTo(j) * a <= Value(s, p + j) /\ Value(s, p + j) < DigitTo(j) * a + DigitTo(j) * w
  <2>1. Number(e2) = DigitTo(j) * a /\ e2.range = DigitTo(j) * w
    BY <1>3 DEF CodedBy
  <2> QED
    BY <1>5, <2>1 DEF Inside
<1>7. a <= Value(s, p) /\ Value(s, p) < a + w
  BY <1>2, <1>4, <1>6, Narrows
<1>8. Inside(s, e)
  <2>1. PICK v \in Nat : v = Value(s, p)
    BY ValueFacts
  <2>2. iv.start * u + w <= u * iv.total
    <3>1. \A x, y, z, q \in Nat : x + y <= z => x * q + q * y <= q * z
      OBVIOUS
    <3> QED
      BY <1>2, <3>1
  <2>3. u * iv.total \in Nat
    BY <1>2
  <2>4. Number(e) <= v /\ v < Number(e) + e.range
    <3>1. PICK n, x, y, r : n = Number(e) /\ x = iv.start * u /\ y = u * iv.total /\ r = e.range
      OBVIOUS
    <3>2. n \in Nat /\ x \in Nat /\ y \in Nat /\ r \in Nat /\ w \in Nat
      BY <1>2, <1>4, <2>3, <3>1
    <3>3. n + x <= v /\ v < (n + x) + w /\ x + w <= y /\ y <= r
      BY <1>2, <1>3, <1>7, <2>1, <2>2, <3>1
    <3>4. n <= v /\ v < n + r
      BY <3>2, <3>3
    <3> QED
      BY <3>1, <3>4
  <2> QED
    BY <1>1, <2>1, <2>4 DEF Inside
<1> QED
  BY <1>1, <1>3, <1>4, <1>7, <1>8

\* A quotient lies where its dividend does.
LEMMA QuotientBetween ==
  \A a, b, c \in Nat : \A u \in Nat \ {0} :
    a * u <= c /\ c < a * u + u * b => a <= c \div u /\ c \div u < a + b
<1> TAKE a, b, c \in Nat
<1> TAKE u \in Nat \ {0}
<1>1. SUFFICES ASSUME a * u <= c, c < a * u + u * b PROVE a <= c \div u /\ c \div u < a + b
  OBVIOUS
<1>2. PICK q, r \in Nat : q = c \div u /\ c = u * q + r /\ r < u
  <2>1. c \div u \in Nat /\ c % u \in Nat /\ c = u * (c \div u) + (c % u) /\ c % u < u
    OBVIOUS
  <2> QED
    BY <2>1
<1>3. a <= q
  <2>1. SUFFICES ASSUME q + 1 <= a PROVE FALSE
    OBVIOUS
  <2>2. u * (q + 1) <= a * u
    <3>1. \A x, y, z \in Nat : x <= y => z * x <= y * z
      OBVIOUS
    <3> QED
      BY <2>1, <3>1
  <2>3. u * (q + 1) = u * q + u /\ u * q \in Nat /\ a * u \in Nat
    OBVIOUS
  <2> QED
    BY <1>1, <1>2, <2>2, <2>3
<1>4. q < a + b
  <2>1. SUFFICES ASSUME a + b <= q PROVE FALSE
    OBVIOUS
  <2>2. a * u + u * b <= u * q
    <3>1. \A x, y, z \in Nat : x <= y => z * x <= z * y
      OBVIOUS
    <3>2. u * (a + b) = a * u + u * b
      OBVIOUS
    <3>3. u * (a + b) <= u * q
      BY <2>1, <3>1
    <3> QED
      BY <3>2, <3>3
  <2>3. u * q \in Nat /\ a * u + u * b \in Nat
    OBVIOUS
  <2> QED
    BY <1>1, <1>2, <2>2, <2>3
<1> QED
  BY <1>2, <1>3, <1>4

----------------------------------------------------------------------------
(* A whole stream: the coders it goes through, the digits it ends in, and  *)
(* the decoder that reads them.                                            *)

\* A new coder is tight and has written nothing.
LEMMA EncoderNewTight == EncoderNew \in TightCoder /\ Number(EncoderNew) = 0 /\ Places(EncoderNew) = 1
<1>1. PICK e : e = EncoderNew
  OBVIOUS
<1>2. e = [low |-> 0, range |-> Full - 1, cache |-> 0, cacheSize |-> 1, out |-> <<>>]
  BY <1>1 DEF EncoderNew
<1>3. Full \in Nat /\ Full >= 2 /\ Digit \in Nat /\ Digit >= 2
  BY FullFacts
<1>4. 0 \in 0 .. 2 * Full - 1 /\ Full - 1 \in 0 .. Full - 1 /\ 0 \in Digits /\ 1 \in Nat \ {0}
      /\ <<>> \in Seq(Digits)
  BY <1>3 DEF Digits
<1>5. e \in Coder
  BY <1>2, <1>4 DEF Coder
<1>6. Tight(e, e.range)
  <2>1. e.low + e.range = Full - 1 /\ e.range \in Nat
    BY <1>2, <1>3
  <2> QED
    BY <1>3, <2>1 DEF Tight
<1>7. Places(e) = 1
  BY <1>2 DEF Places
<1>8. Pending(e) = 0
  <2>1. PICK s : s = e.out \o Held(e, 0)
    OBVIOUS
  <2>2. /\ Held(e, 0) \in Seq(Digits) /\ Len(Held(e, 0)) = 1 /\ Held(e, 0)[1] = 0
    <3>1. e.cache = 0 /\ e.cacheSize = 1 /\ (e.cache = Digit - 1 => 0 = 0)
      BY <1>2
    <3>2. /\ Held(e, 0) \in Seq(Digits) /\ Len(Held(e, 0)) = e.cacheSize
          /\ \A i \in 1 .. e.cacheSize : Held(e, 0)[i] =
               IF i = 1 THEN e.cache + 0 ELSE IF 0 = 0 THEN Digit - 1 ELSE 0
      BY <1>5, HeldFacts
    <3>3. 1 \in 1 .. e.cacheSize
      BY <3>1
    <3> QED
      BY <3>1, <3>2, <3>3
  <2>3. s = Held(e, 0)
    BY <1>2, <2>1, <2>2
  <2>4. s \in Seq(Digits) /\ DigitAt(s, 1) = 0
    BY <2>2, <2>3 DEF DigitAt
  <2>5. Value(s, 0) = 0 /\ Value(s, 0 + 1) = Digit * Value(s, 0) + DigitAt(s, 0 + 1)
    BY <2>4, ValueFacts
  <2>6. Value(s, 1) = 0
    BY <1>3, <2>4, <2>5
  <2> QED
    BY <1>7, <2>1, <2>6 DEF Pending
<1>9. Number(e) = 0
  BY <1>2, <1>3, <1>8 DEF Number
<1> QED
  BY <1>1, <1>5, <1>6, <1>7, <1>9 DEF TightCoder

\* The coders that a stream of intervals goes through, each within the range.
Chain(E, iv, len) ==
  /\ len \in Nat /\ E[0] = EncoderNew
  /\ \A k \in 1 .. len : /\ Part(iv[k]) /\ iv[k].total <= Top
                         /\ E[k] = EncodeStep(E[k - 1], iv[k])

\* All along a chain the coders are tight and the range stays wide.
LEMMA ChainFacts ==
  ASSUME NEW E, NEW iv, NEW len, Chain(E, iv, len)
  PROVE  /\ \A k \in 0 .. len : E[k] \in TightCoder /\ E[k].range >= Top
         /\ \A k \in 1 .. len : \E u, w, j : CodedBy(E[k - 1], E[k], iv[k], u, w, j)
<1>1. len \in Nat
  BY DEF Chain
<1>2. ASSUME NEW k \in 1 .. len, E[k - 1] \in TightCoder, E[k - 1].range >= Top
      PROVE  /\ E[k] \in TightCoder /\ E[k].range >= Top
             /\ \E u, w, j : CodedBy(E[k - 1], E[k], iv[k], u, w, j)
  <2>1. PICK e, i : e = E[k - 1] /\ i = iv[k]
    OBVIOUS
  <2>2. Part(i) /\ i.total <= Top /\ E[k] = EncodeStep(e, i)
    BY <2>1 DEF Chain
  <2>3. e \in TightCoder /\ e.range >= Top /\ e.range \in Nat
    BY <1>2, <2>1, FullFacts DEF TightCoder, Coder
  <2>4. i.total <= e.range
    BY <2>2, <2>3, FullFacts DEF Part
  <2>5. E[k] \in TightCoder
    BY <2>2, <2>3, EncodeType
  <2>6. (\E u, w, j : CodedBy(e, E[k], i, u, w, j)) /\ E[k].range >= Top
    BY <2>2, <2>3, <2>4, EncodeCoded
  <2> QED
    BY <2>1, <2>5, <2>6
<1> DEFINE S == {k \in Nat : E[k] \in TightCoder /\ E[k].range >= Top}
<1>3. 0 \in S
  <2>1. E[0] \in TightCoder
    BY EncoderNewTight DEF Chain
  <2>2. E[0].range = Full - 1
    BY DEF Chain, EncoderNew
  <2> QED
    BY <2>1, <2>2, FullFacts
<1>4. ASSUME NEW k \in 0 .. len - 1, k \in S PROVE k + 1 \in S
  <2>1. k + 1 \in 1 .. len /\ (k + 1) - 1 = k /\ k + 1 \in Nat
    BY <1>1
  <2>2. E[k + 1] \in TightCoder /\ E[k + 1].range >= Top
    BY <1>2, <1>4, <2>1
  <2> QED
    BY <2>1, <2>2
<1> HIDE DEF S
<1>5. \A k \in 0 .. len : k \in S
  BY <1>1, <1>3, <1>4, InductionUpTo
<1>6. \A k \in 0 .. len : E[k] \in TightCoder /\ E[k].range >= Top
  BY <1>5 DEF S
<1>7. \A k \in 1 .. len : k - 1 \in 0 .. len
  BY <1>1
<1> QED
  BY <1>2, <1>6, <1>7

\* The flushed digits lie inside every coder of the chain.
LEMMA ChainInside ==
  ASSUME NEW E, NEW iv, NEW len, Chain(E, iv, len), NEW s, s = Flush(E[len])
  PROVE  /\ s \in Seq(Digits) /\ Len(s) = Places(E[len]) + Width
         /\ \A k \in 0 .. len : Inside(s, E[k])
<1>1. len \in Nat
  BY DEF Chain
<1>2. /\ \A k \in 0 .. len : E[k] \in TightCoder /\ E[k].range >= Top
      /\ \A k \in 1 .. len : \E u, w, j : CodedBy(E[k - 1], E[k], iv[k], u, w, j)
  BY ChainFacts
<1>3. PICK e : e = E[len]
  OBVIOUS
<1>4. e \in Coder /\ Tight(e, e.range) /\ e.range \in Nat /\ e.range >= 1
  <2>1. len \in 0 .. len
    BY <1>1
  <2>2. e \in Coder /\ Tight(e, e.range) /\ e.range >= Top
    BY <1>2, <1>3, <2>1 DEF TightCoder
  <2>3. e.range \in Nat /\ Top \in Nat /\ Top >= 1
    BY <2>2, FullFacts DEF Coder
  <2> QED
    BY <2>2, <2>3
<1>5. Tight(e, 1)
  <2>1. e.low \in Nat /\ Full \in Nat
    BY <1>4, FullFacts DEF Coder
  <2> QED
    BY <1>4, <2>1 DEF Tight
<1>6. s \in Seq(Digits) /\ Len(s) = Places(e) + Width /\ Value(s, Len(s)) = Number(e)
  BY <1>3, <1>4, <1>5, FlushFacts
<1> DEFINE S == {i \in Nat : Inside(s, E[len - i])}
<1>7. 0 \in S
  <2>1. len - 0 = len
    BY <1>1
  <2>2. Number(e) \in Nat
    <3>1. Len(s) \in Nat
      BY <1>6
    <3> QED
      BY <1>6, <3>1, ValueFacts
  <2>3. Inside(s, e)
    BY <1>4, <1>6, <2>2 DEF Inside
  <2> QED
    BY <1>3, <2>1, <2>3
<1>8. ASSUME NEW i \in 0 .. len - 1, i \in S PROVE i + 1 \in S
  <2>1. PICK k \in 1 .. len : k = len - i
    <3>1. len - i \in 1 .. len
      BY <1>1
    <3> QED
      BY <3>1
  <2>2. len - (i + 1) = k - 1 /\ k - 1 \in 0 .. len
    BY <1>1, <2>1
  <2>3. PICK u, w, j : CodedBy(E[k - 1], E[k], iv[k], u, w, j)
    BY <1>2
  <2>4. E[k - 1] \in Coder
    BY <1>2, <2>2 DEF TightCoder
  <2>5. Inside(s, E[k])
    BY <1>8, <2>1
  <2>6. Inside(s, E[k - 1])
    BY <1>6, <2>3, <2>4, <2>5, CodedInside
  <2> QED
    BY <2>2, <2>6
<1> HIDE DEF S
<1>9. \A i \in 0 .. len : i \in S
  BY <1>1, <1>7, <1>8, InductionUpTo
<1>10. ASSUME NEW k \in 0 .. len PROVE Inside(s, E[k])
  <2>1. len - k \in 0 .. len /\ len - (len - k) = k
    BY <1>1
  <2>2. len - k \in S
    BY <1>9, <2>1
  <2> QED
    BY <2>1, <2>2 DEF S
<1> QED
  BY <1>3, <1>6, <1>10

\* A decoder at the place that the writer's coder e had reached.
Tracks(d, s, e) ==
  d.buf = s /\ d.pos = Places(e) + Width /\ Follows(d, Number(e), e.range)

\* A new decoder is where a new coder is, if the digits lie inside it.
LEMMA NewTracks ==
  ASSUME NEW s \in Seq(Digits), Inside(s, EncoderNew)
  PROVE  Tracks(DecoderNew(s), s, EncoderNew)
<1>1. PICK d, e : d = DecoderNew(s) /\ e = EncoderNew
  OBVIOUS
<1>2. Number(e) = 0 /\ Places(e) = 1 /\ e.range = Full - 1
  BY <1>1, EncoderNewTight DEF EncoderNew
<1>3. Width + 1 \in Nat /\ 1 + Width = Width + 1 /\ Full \in Nat
  BY CoderAssumption, FullFacts
<1>4. Value(s, Width + 1) \in Nat
  BY <1>3, ValueFacts
<1>5. Value(s, Width + 1) < Full - 1
  BY <1>1, <1>2, <1>3, <1>4 DEF Inside
<1>6. /\ d \in Decoder /\ d.buf = s /\ d.pos = Width + 1 /\ d.range = Full - 1
      /\ d.code = Value(s, Width + 1)
  <2>1. Value(s, Width + 1) < Full
    BY <1>3, <1>4, <1>5
  <2> QED
    BY <1>1, <2>1, DecoderNewFacts
<1>7. d.code + 0 = Value(d.buf, d.pos) /\ d.code < Full - 1
  BY <1>4, <1>5, <1>6
<1>8. Follows(d, 0, Full - 1)
  BY <1>6, <1>7 DEF Follows
<1> QED
  BY <1>1, <1>2, <1>3, <1>6, <1>8 DEF Tracks

\* What a coder, a row and a decoder have in common before a symbol is decoded.
Meets(d, blob, t, n, cap, s, e, e2, u, w, j) ==
  /\ Row(t, n, cap) /\ s \in 0 .. n - 1 /\ e \in TightCoder
  /\ CodedBy(e, e2, Interval(t, s), u, w, j)
  /\ blob \in Seq(Digits) /\ Inside(blob, e2) /\ Tracks(d, blob, e)

\* A decoder at the writer's place finds the writer's symbol and moves with it.
LEMMA SymbolTracks ==
  ASSUME NEW d, NEW blob, NEW t, NEW n, NEW cap, NEW s, NEW e, NEW e2, NEW u, NEW w, NEW j,
         Meets(d, blob, t, n, cap, s, e, e2, u, w, j)
  PROVE  /\ Threshold(d, t.total) \in Nat /\ Threshold(d, t.total) < t.total
         /\ FindGt(t.tree, Threshold(d, t.total)) = s
         /\ Tracks(DecodeStep(Scale(d, t.total), Interval(t, s)), blob, e2)
<1> SUFFICES ASSUME Row(t, n, cap), s \in 0 .. n - 1, e \in TightCoder,
                    CodedBy(e, e2, Interval(t, s), u, w, j),
                    blob \in Seq(Digits), Inside(blob, e2), Tracks(d, blob, e)
             PROVE  /\ Threshold(d, t.total) \in Nat /\ Threshold(d, t.total) < t.total
                    /\ FindGt(t.tree, Threshold(d, t.total)) = s
                    /\ Tracks(DecodeStep(Scale(d, t.total), Interval(t, s)), blob, e2)
  BY DEF Meets
<1>1. PICK iv : iv = Interval(t, s)
  OBVIOUS
<1>2. t.total \in Nat \ {0} /\ n \in Nat \ {0}
  <2>1. n \in Nat \ {0} /\ t.total \in Nat /\ n <= t.total
    BY RowFacts
  <2> QED
    BY <2>1
<1>3. /\ Part(iv) /\ iv.total = t.total /\ iv.start = FenwickPrefix(t.tree, s)
      /\ FenwickPrefix(t.tree, s + 1) = iv.start + iv.size
  BY <1>1, <1>2, IntervalFacts
<1>4. CodedBy(e, e2, iv, u, w, j) /\ e \in Coder
  BY <1>1 DEF TightCoder
<1>5. /\ Number(e) + iv.start * u <= Value(blob, Places(e) + Width)
      /\ Value(blob, Places(e) + Width) < (Number(e) + iv.start * u) + w
      /\ Number(e) \in Nat
  BY <1>4, CodedInside
<1>6. PICK nb, c, x : nb = Number(e) /\ c = d.code /\ x = iv.start * u
  OBVIOUS
<1>7. /\ d \in Decoder /\ d.buf = blob /\ d.pos = Places(e) + Width /\ d.range = e.range
      /\ c < e.range /\ c + nb = Value(blob, Places(e) + Width) /\ c \in Nat
  BY <1>6 DEF Tracks, Follows, Decoder
<1>8. /\ iv.start \in Nat /\ iv.size \in Nat \ {0} /\ iv.total \in Nat \ {0}
      /\ iv.start + iv.size <= iv.total
      /\ u \in Nat \ {0} /\ u = e.range \div iv.total /\ w = u * iv.size /\ w \in Nat \ {0}
      /\ j \in 0 .. Width - 1 /\ Enough(w, j)
  BY <1>4 DEF CodedBy, Part
<1>9. x \in Nat /\ x <= c /\ c < x + w
  <2>1. x \in Nat
    BY <1>6, <1>8
  <2>2. nb \in Nat /\ nb + x <= c + nb /\ c + nb < (nb + x) + w /\ w \in Nat
    BY <1>5, <1>6, <1>7, <1>8
  <2> QED
    BY <1>7, <2>1, <2>2
<1>10. PICK th : th = Threshold(d, t.total)
  OBVIOUS
<1>11. th = c \div u
  <2>1. d.range \div t.total = u /\ u # 0
    BY <1>3, <1>7, <1>8
  <2> QED
    BY <1>6, <1>10, <2>1 DEF Threshold
<1>12. th \in Nat /\ iv.start <= th /\ th < iv.start + iv.size
  <2>1. iv.start * u <= c /\ c < iv.start * u + u * iv.size
    BY <1>6, <1>8, <1>9
  <2>2. iv.start <= c \div u /\ c \div u < iv.start + iv.size
    <3>1. iv.start \in Nat /\ iv.size \in Nat
      BY <1>8
    <3> QED
      BY <1>7, <1>8, <2>1, <3>1, QuotientBetween
  <2>3. th \in Nat
    BY <1>2, <1>7, <1>10, ThresholdType
  <2> QED
    BY <1>11, <2>2, <2>3
<1>13. th < t.total
  BY SMTT(30), <1>3, <1>8, <1>12
<1>14. FindGt(t.tree, th) = s
  <2>1. Covers(t, s, th)
    BY <1>3, <1>12 DEF Covers
  <2> QED
    BY <1>2, <1>12, <1>13, <2>1, SymbolFound
<1>15. PICK d2 : d2 = DecodeStep(Scale(d, iv.total), iv)
  OBVIOUS
<1>16. /\ d2.buf = blob /\ d2.pos = (Places(e) + Width) + j
       /\ Follows(d2, DigitTo(j) * (nb + iv.start * u), DigitTo(j) * w)
  <2>1. Follows(d, nb, e.range)
    BY <1>6 DEF Tracks
  <2>2. e.range < Full
    <3>1. e.range \in 0 .. Full - 1 /\ Full \in Nat
      BY <1>4, FullFacts DEF Coder
    <3> QED
      BY <3>1
  <2>3. u >= 1 /\ iv.start * u <= d.code /\ d.code < iv.start * u + w
    BY <1>6, <1>8, <1>9
  <2>4. PICK g : g = e.range
    OBVIOUS
  <2>5. Follows(d, nb, g) /\ g < Full /\ u = g \div iv.total
    BY <1>8, <2>1, <2>2, <2>4
  <2>6. /\ DecodeStep(Scale(d, iv.total), iv).buf = d.buf
        /\ DecodeStep(Scale(d, iv.total), iv).pos = d.pos + j
        /\ Follows(DecodeStep(Scale(d, iv.total), iv), DigitTo(j) * (nb + iv.start * u),
                   DigitTo(j) * w)
    <3>1. j \in 0 .. Width - 1 /\ Enough(w, j) /\ Part(iv) /\ w = u * iv.size
      BY <1>3, <1>8
    <3> QED
      BY ONLY <2>3, <2>5, <3>1, DecodeFacts, CoderAssumption
  <2> QED
    BY <1>7, <1>15, <2>6
<1>17. Tracks(d2, blob, e2)
  <2>1. /\ Places(e2) = Places(e) + j /\ Number(e2) = DigitTo(j) * (nb + iv.start * u)
        /\ e2.range = DigitTo(j) * w
    BY <1>4, <1>6 DEF CodedBy
  <2>2. Places(e2) + Width = (Places(e) + Width) + j
    <3>1. Places(e) \in Nat
      BY <1>4, CarryFacts
    <3> QED
      BY <1>8, <2>1, <3>1, CoderAssumption
  <2> QED
    BY <1>16, <2>1, <2>2 DEF Tracks
<1> QED
  BY <1>1, <1>3, <1>10, <1>12, <1>13, <1>14, <1>15, <1>17

=============================================================================
