------------------------------ MODULE CountTable ------------------------------
(***************************************************************************)
(* Adaptive symbol counts behind every arithmetic-coded format (arith.rs   *)
(* `Fenwick`, context.rs `AdaptiveModel`).  A Fenwick tree is the sequence *)
(* of its nodes: node i holds the sum of the counts of the symbols         *)
(* i - LowBit(i) .. i - 1.  Node arithmetic wraps at Word (2^64 in the     *)
(* code), because a count is lowered by adding Word - 1.                   *)
(***************************************************************************)
EXTENDS Integers, Sequences, FiniteSets

CONSTANT Word   \* modulus of a tree node

ASSUME WordAssumption == Word \in Nat /\ Word > 1

MinusOne == Word - 1

\* The lowest set bit, `i & i.wrapping_neg()`.
LowBit[i \in Nat \ {0}] == IF i % 2 = 1 THEN 1 ELSE 2 * LowBit[i \div 2]

TwoTo[k \in Nat] == IF k = 0 THEN 1 ELSE 2 * TwoTo[k - 1]

Zeros(n) == [i \in 1..n |-> 0]

\* The nodes met from each node on in a tree of n, climbing by the lowest set bit.
Climb(n) ==
  LET up[i \in 1..2 * n] == IF i > n THEN {} ELSE {i} \cup up[i + LowBit[i]] IN up

\* Faulty variant: a plain sum in place of the wrapping one.
AddUnwrapped(tree, idx, delta) ==
  LET path == Climb(Len(tree))[idx + 1]
  IN  [i \in 1..Len(tree) |-> IF i \in path THEN tree[i] + delta ELSE tree[i]]

\* `add`: every node whose range holds symbol idx.
FenwickAdd(tree, idx, delta) ==
  LET path == Climb(Len(tree))[idx + 1]
  IN  [i \in 1..Len(tree) |-> IF i \in path THEN (tree[i] + delta) % Word ELSE tree[i]]

\* One `add` of delta for each symbol lo .. hi - 1.
AddRange(tree, lo, hi, delta) ==
  LET added[k \in 0..(hi - lo)] ==
        IF k = 0 THEN tree ELSE FenwickAdd(added[k - 1], lo + k - 1, delta)
  IN  added[hi - lo]

\* What is met going down from each node, summed up.
Descent(tree) ==
  LET down[i \in 0..Len(tree)] == IF i = 0 THEN 0 ELSE tree[i] + down[i - LowBit[i]] IN down

\* `prefix`: the sum of the counts of symbols 0 .. k - 1.
FenwickPrefix(tree, k) == Descent(tree)[IF k > Len(tree) THEN Len(tree) ELSE k]

\* One turn of `find_gt`: enter the node `bit` further on if what is skipped stays at most
\* val.
Enter(tree, val, p, bit) ==
  LET next == p.cur + bit
  IN  IF next <= Len(tree) /\ p.seen + tree[next] <= val
      THEN [cur |-> next, seen |-> p.seen + tree[next]] ELSE p

\* `find_gt`: binary descent from the highest bit.
FindGt(tree, val) ==
  LET n    == Len(tree)
      bits == CHOOSE p \in 0..n : TwoTo[p] >= n /\ \A q \in 0..(p - 1) : TwoTo[q] < n
      at[k \in 0..bits] ==
        IF k = 0 THEN [cur |-> 0, seen |-> 0] ELSE Enter(tree, val, at[k - 1], TwoTo[bits - k])
  IN  at[bits].cur

\* A tree of capacity cap over `counts`, built one `add` per symbol.
TreeOf(counts, cap) ==
  LET n == Cardinality(DOMAIN counts)
      upto[i \in 0..n] ==
        IF i = 0 THEN Zeros(cap) ELSE FenwickAdd(upto[i - 1], i - 1, counts[i - 1])
  IN  upto[n]

-----------------------------------------------------------------------------
(* One adaptive table: counts of symbols 0 .. n - 1, their tree, their sum. *)

NewTable(n, cap) ==
  LET ones == [s \in 0..(n - 1) |-> 1]
  IN  [counts |-> ones, tree |-> TreeOf(ones, cap), total |-> n]

\* What one coded symbol changes.
Update(t, s) == [counts |-> [t.counts EXCEPT ![s] = @ + 1],
                 tree   |-> FenwickAdd(t.tree, s, 1),
                 total  |-> t.total + 1]

\* What undoing it changes.
Downdate(t, s) == [counts |-> [t.counts EXCEPT ![s] = @ - 1],
                   tree   |-> FenwickAdd(t.tree, s, MinusOne),
                   total  |-> t.total - 1]

\* The interval of symbol s that is handed to the range coder.
Interval(t, s) == [start |-> FenwickPrefix(t.tree, s), size |-> t.counts[s], total |-> t.total]

SumCounts(counts, k) ==
  LET sum[i \in 0..k] == IF i = 0 THEN 0 ELSE sum[i - 1] + counts[i - 1] IN sum[k]

\* The three books of a table agree and no symbol has probability zero.
TableBalanced(t) ==
  LET n == Cardinality(DOMAIN t.counts)
  IN  /\ \A s \in DOMAIN t.counts : t.counts[s] >= 1
      /\ \A k \in 0..n : FenwickPrefix(t.tree, k) = SumCounts(t.counts, k)
      /\ t.total = SumCounts(t.counts, n)
=============================================================================
