------------------------- MODULE TokenCodingProofs -------------------------
(***************************************************************************)
(* The coding of a whole archive, for every alphabet, base, width, word    *)
(* and number of records: the tables of both sides stay in balance, a      *)
(* rollback restores the model exactly, and, while no total outgrows the   *)
(* range, every block decodes and the reader ends with the writer's model. *)
(*                                                                         *)
(* The invariant says that the state has a history: a model committed      *)
(* after each record, each leading to the next as its record says, the     *)
(* open attempt a trail of tokens from the last of them, and the reader's  *)
(* alphabet that of the record it has reached.                             *)
(***************************************************************************)
EXTENDS TokenCoding, CoderProofs


----------------------------------------------------------------------------
(* Growing, cutting back and shrinking a row.                              *)

GrownCounts(c, n, n2) == [s \in 0 .. (n2 - 1) |-> IF s < n THEN c[s] ELSE 1]

\* New symbols raise the zeros beyond the alphabet to ones, and lowering them again undoes
\* it.
LEMMA WideGrow ==
  ASSUME NEW cap \in Nat, NEW n2 \in 0 .. cap, NEW n \in 0 .. n2, NEW c \in [0 .. n - 1 -> Nat \ {0}]
  PROVE  /\ GrownCounts(c, n, n2) \in [0 .. n2 - 1 -> Nat \ {0}]
         /\ Wide(GrownCounts(c, n, n2), n2, cap) = Raised(Wide(c, n, cap), n, n2, cap)
         /\ Lowered(Raised(Wide(c, n, cap), n, n2, cap), n, n2, cap) = Wide(c, n, cap)
         /\ \A s \in n .. n2 - 1 : Raised(Wide(c, n, cap), n, n2, cap)[s] >= 1
<1> DEFINE g == GrownCounts(c, n, n2)
           w == Wide(c, n, cap)
           up == Raised(w, n, n2, cap)
<1>0. n2 \in Nat /\ n \in Nat /\ c \in [0 .. n - 1 -> Nat] /\ n \in 0 .. cap
  OBVIOUS
<1>1. g \in [0 .. n2 - 1 -> Nat \ {0}] /\ \A s \in 0 .. n2 - 1 : g[s] = IF s < n THEN c[s] ELSE 1
  BY DEF GrownCounts
<1> HIDE DEF g
<1>2. /\ w \in [0 .. cap - 1 -> Nat]
      /\ \A x \in 0 .. cap - 1 : w[x] = IF x < n THEN c[x] ELSE 0
  BY <1>0, WideFacts
<1> HIDE DEF w
<1>3. /\ up \in [0 .. cap - 1 -> Nat]
      /\ \A x \in 0 .. cap - 1 : up[x] = IF n <= x /\ x < n2 THEN w[x] + 1 ELSE w[x]
  BY <1>2 DEF Raised
<1> HIDE DEF up
<1>4. Wide(g, n2, cap) = up
  <2>1. Wide(g, n2, cap) = [x \in 0 .. cap - 1 |-> IF x < n2 THEN g[x] ELSE 0]
    BY DEF Wide
  <2>2. ASSUME NEW x \in 0 .. cap - 1 PROVE (IF x < n2 THEN g[x] ELSE 0) = up[x]
    <3>1. CASE x < n
      BY <1>0, <1>1, <1>2, <1>3, <3>1
    <3>2. CASE n <= x /\ x < n2
      BY <1>0, <1>1, <1>2, <1>3, <3>2
    <3>3. CASE n2 <= x
      BY <1>0, <1>1, <1>2, <1>3, <3>3
    <3> QED
      BY <1>0, <3>1, <3>2, <3>3
  <2> QED
    BY <1>3, <2>1, <2>2
<1>6. Lowered(up, n, n2, cap) = w
  <2>1. Lowered(up, n, n2, cap) = [x \in 0 .. cap - 1 |-> IF n <= x /\ x < n2 THEN up[x] - 1 ELSE up[x]]
    BY DEF Lowered
  <2>2. ASSUME NEW x \in 0 .. cap - 1 PROVE (IF n <= x /\ x < n2 THEN up[x] - 1 ELSE up[x]) = w[x]
    <3>1. w[x] \in Nat
      BY <1>2
    <3> QED
      BY <1>3, <3>1
  <2> QED
    BY <1>2, <2>1, <2>2
<1>7. ASSUME NEW s \in n .. n2 - 1 PROVE up[s] >= 1
  <2>1. s \in 0 .. cap - 1 /\ n <= s /\ s < n2
    BY <1>0
  <2>2. up[s] = w[s] + 1 /\ w[s] \in Nat
    BY <1>2, <1>3, <2>1
  <2> QED
    BY <2>2
<1> QED
  BY <1>1, <1>4, <1>6, <1>7 DEF g, w, up

Growth(g, w, up, c, n, n2, cap) ==
  g = GrownCounts(c, n, n2) /\ w = Wide(c, n, cap) /\ up = Raised(w, n, n2, cap)

\* The same, of named counts.
LEMMA GrowthFacts ==
  ASSUME NEW cap \in Nat, NEW n2 \in 0 .. cap, NEW n \in 0 .. n2, NEW c \in [0 .. n - 1 -> Nat \ {0}],
         NEW g, NEW w, NEW up, Growth(g, w, up, c, n, n2, cap)
  PROVE  /\ g \in [0 .. n2 - 1 -> Nat \ {0}]
         /\ Wide(g, n2, cap) = up
         /\ [s \in 0 .. (n - 1) |-> g[s]] = c
         /\ Lowered(up, n, n2, cap) = w
         /\ \A s \in n .. n2 - 1 : up[s] >= 1
<1>1. g = GrownCounts(c, n, n2) /\ w = Wide(c, n, cap) /\ up = Raised(Wide(c, n, cap), n, n2, cap)
  BY DEF Growth
<1>2. g \in [0 .. n2 - 1 -> Nat \ {0}]
  BY <1>1, WideGrow
<1>3. Wide(g, n2, cap) = up
  BY <1>1, WideGrow
<1>4. [s \in 0 .. (n - 1) |-> g[s]] = c
  <2>1. \A s \in 0 .. (n - 1) : g[s] = c[s]
    BY <1>1 DEF GrownCounts
  <2> QED
    BY <2>1
<1>5. Lowered(up, n, n2, cap) = w
  BY <1>1, WideGrow
<1>6. \A s \in n .. n2 - 1 : up[s] >= 1
  BY <1>1, WideGrow
<1> QED
  BY <1>2, <1>3, <1>4, <1>5, <1>6

\* Growing a row keeps it a row, and cutting it back restores it.
LEMMA RowGrow ==
  ASSUME NEW n, NEW t, Row(t, n, MaxSyms), NEW n2 \in n .. MaxSyms, t.total + (n2 - n) < Word
  PROVE  /\ Row(GrowRow(t, n, n2), n2, MaxSyms)
         /\ GrowRow(t, n, n2).total = t.total + (n2 - n)
         /\ CutRow(GrowRow(t, n, n2), n2, n) = t
<1>1. PICK c, w, tree, total, cap :
        c = t.counts /\ w = Wide(c, n, cap) /\ tree = t.tree /\ total = t.total /\ cap = MaxSyms
  OBVIOUS
<1>2. /\ cap \in Nat /\ n \in 1 .. cap /\ c \in [0 .. n - 1 -> Nat \ {0}]
      /\ Weighs(tree, w, cap) /\ total = FenwickPrefix(tree, cap)
  BY <1>1 DEF Row
<1>3. total \in Nat
  BY <1>1, RowFacts
<1>4. t = [counts |-> c, tree |-> tree, total |-> total]
  BY <1>1 DEF Row
<1>5. n2 \in 0 .. cap /\ n \in 0 .. n2 /\ n2 \in 1 .. cap
  BY <1>1, <1>2
<1>6. PICK g : g = GrownCounts(c, n, n2)
  OBVIOUS
<1>7. PICK up : up = Raised(w, n, n2, cap)
  OBVIOUS
<1>8. /\ g \in [0 .. n2 - 1 -> Nat \ {0}]
      /\ Wide(g, n2, cap) = up
      /\ [s \in 0 .. (n - 1) |-> g[s]] = c
      /\ Lowered(up, n, n2, cap) = w
      /\ \A s \in n .. n2 - 1 : up[s] >= 1
  <2>1. Growth(g, w, up, c, n, n2, cap)
    BY <1>1, <1>6, <1>7 DEF Growth
  <2>2. cap \in Nat /\ c \in [0 .. n - 1 -> Nat \ {0}]
    BY <1>2
  <2> QED
    BY <1>5, <2>1, <2>2, GrowthFacts
<1>9. PICK tall : tall = AddRange(tree, n, n2, 1)
  OBVIOUS
<1>10. Weighs(tall, up, cap) /\ FenwickPrefix(tall, cap) = total + (n2 - n)
  <2>1. FenwickPrefix(tree, cap) + (n2 - n) < Word
    BY <1>1, <1>2
  <2> QED
    BY <1>2, <1>5, <1>7, <1>9, <2>1, AddOnes
<1>11. GrowRow(t, n, n2) = [counts |-> g, tree |-> tall, total |-> total + (n2 - n)]
  <2>1. total + n2 - n = total + (n2 - n)
    BY <1>3, <1>2, <1>5
  <2> QED
    BY <1>1, <1>6, <1>9, <2>1 DEF GrowRow, GrownCounts
<1>12. Row(GrowRow(t, n, n2), n2, MaxSyms)
  BY <1>1, <1>2, <1>5, <1>8, <1>10, <1>11 DEF Row
<1>13. AddRange(tall, n, n2, MinusOne) = tree
  <2>1. Weighs(AddRange(tall, n, n2, MinusOne), w, cap)
    BY <1>5, <1>8, <1>10, TakeOnes
  <2> QED
    BY <1>2, <2>1, WeightsDecide
<1>14. (total + (n2 - n)) - (n2 - n) = total
  BY <1>2, <1>3, <1>5
<1>15. CutRow(GrowRow(t, n, n2), n2, n) = t
  <2>1. PICK r : r = GrowRow(t, n, n2)
    OBVIOUS
  <2>2. r.counts = g /\ r.tree = tall /\ r.total = total + (n2 - n)
    BY <1>11, <2>1
  <2>3. CutRow(r, n2, n) = [counts |-> [s \in 0 .. (n - 1) |-> r.counts[s]],
                            tree   |-> AddRange(r.tree, n, n2, MinusOne),
                            total  |-> r.total - (n2 - n)]
    BY DEF CutRow
  <2>4. CutRow(r, n2, n) = [counts |-> c, tree |-> tree, total |-> total]
    BY <1>8, <1>13, <1>14, <2>2, <2>3
  <2> QED
    BY <1>4, <2>1, <2>4
<1>16. GrowRow(t, n, n2).total = t.total + (n2 - n)
  BY <1>1, <1>11
<1> QED
  BY <1>12, <1>15, <1>16

\* Growing by nothing changes nothing.
LEMMA RowStays ==
  ASSUME NEW n, NEW t, Row(t, n, MaxSyms), t.total < Word
  PROVE  GrowRow(t, n, n) = t
<1>1. n \in n .. MaxSyms /\ n - n = 0 /\ t.total \in Nat
  BY RowFacts
<1>2. Row(GrowRow(t, n, n), n, MaxSyms)
  BY <1>1, RowGrow
<1>3. GrowRow(t, n, n).counts = t.counts
  <2>1. t.counts \in [0 .. n - 1 -> Nat]
    BY RowFacts
  <2>2. \A s \in 0 .. (n - 1) : s < n
    BY RowFacts
  <2>3. GrowRow(t, n, n).counts = [s \in 0 .. (n - 1) |-> IF s < n THEN t.counts[s] ELSE 1]
    BY DEF GrowRow
  <2> QED
    BY <2>1, <2>2, <2>3
<1> QED
  BY <1>2, <1>3, RowDecides

\* Dropping symbols and resetting rules takes at least the dropped symbols' priors away.
LEMMA RowShrink ==
  ASSUME NEW n, NEW t, Row(t, n, MaxSyms), NEW n2 \in NLit .. n, t.total < Word
  PROVE  /\ Row(ShrinkRow(t, n2), n2, MaxSyms)
         /\ ShrinkRow(t, n2).total + (n - n2) <= t.total
<1>1. PICK c, cap : c = t.counts /\ cap = MaxSyms
  OBVIOUS
<1>2. PICK d : d = [s \in 0 .. (n2 - 1) |-> IF s < NLit THEN c[s] ELSE 1]
  OBVIOUS
<1>3. cap \in Nat /\ n \in Nat /\ n <= cap /\ c \in [0 .. n - 1 -> Nat \ {0}]
  BY <1>1 DEF Row
<1>4. n2 \in 0 .. n /\ n2 \in 0 .. cap /\ n2 \in 1 .. cap
  BY <1>3, ModelAssumption
<1>5. d \in [0 .. n2 - 1 -> Nat \ {0}] /\ \A k \in 0 .. n2 - 1 : d[k] <= c[k]
  <2>1. ASSUME NEW k \in 0 .. n2 - 1 PROVE c[k] \in Nat \ {0}
    BY <1>3, <1>4
  <2>2. \A k \in 0 .. n2 - 1 : (IF k < NLit THEN c[k] ELSE 1) \in Nat \ {0}
    BY <2>1
  <2>3. d \in [0 .. n2 - 1 -> Nat \ {0}]
    BY <1>2, <2>2
  <2>4. \A k \in 0 .. n2 - 1 : d[k] <= c[k]
    BY <1>2, <2>1
  <2> QED
    BY <2>3, <2>4
<1>6. d \in [0 .. n2 - 1 -> Nat]
  BY <1>5
<1>7. SumCounts(d, n2) + (n - n2) <= SumCounts(c, n)
  BY <1>3, <1>4, <1>5, <1>6, SumBelow
<1>8. t.total = SumCounts(c, n) /\ t.total \in Nat
  BY <1>1, RowFacts
<1>9. SumCounts(d, n2) \in Nat
  <2>1. n2 \in Nat /\ n2 \in 0 .. n2
    BY <1>4
  <2> QED
    BY <1>6, <2>1, SumFacts
<1>10. SumCounts(d, n2) < Word
  BY <1>3, <1>4, <1>7, <1>8, <1>9, WordAssumption
<1>11. Weighs(TreeOf(d, cap), Wide(d, n2, cap), cap)
  BY <1>3, <1>4, <1>6, <1>10, TreeOfFacts
<1>12. FenwickPrefix(TreeOf(d, cap), cap) = SumCounts(d, n2)
  BY <1>3, <1>4, <1>6, <1>11, PrefixIsSum
<1>13. ShrinkRow(t, n2) = [counts |-> d, tree |-> TreeOf(d, cap), total |-> SumCounts(d, n2)]
  BY <1>1, <1>2 DEF ShrinkRow
<1>14. Row(ShrinkRow(t, n2), n2, MaxSyms)
  BY <1>1, <1>3, <1>4, <1>5, <1>11, <1>12, <1>13 DEF Row
<1> QED
  BY <1>7, <1>8, <1>13, <1>14

----------------------------------------------------------------------------
(* All rows of a model.                                                    *)

\* Every context is the number of a row.
LEMMA ContextFacts ==
  ASSUME NEW mode \in Modes
  PROVE  /\ Sentinel(mode) \in Nat
         /\ \A s \in Nat : CtxOf(mode, s) \in 0 .. Sentinel(mode)
<1>1. \A x \in Nat : x % RuleCtx \in 0 .. RuleCtx - 1
  BY ModelAssumption
<1>2. \A a, b \in Nat : a * b \in Nat
  OBVIOUS
<1>3. CASE mode = "V3"
  <2>1. Sentinel(mode) = NLit + RuleCtx
    BY <1>3, ModelAssumption DEF Sentinel, NumContexts
  <2>2. ASSUME NEW s \in Nat PROVE CtxOf(mode, s) \in 0 .. Sentinel(mode)
    <3>1. CASE s < NLit
      BY <1>3, <2>1, <3>1, ModelAssumption DEF CtxOf, TokenCtx
    <3>2. CASE ~(s < NLit)
      <4>1. s - NLit \in Nat
        BY <3>2, ModelAssumption
      <4>2. (s - NLit) * Scatter \in Nat
        BY <1>2, <4>1, ModelAssumption
      <4>3. ((s - NLit) * Scatter) % RuleCtx \in 0 .. RuleCtx - 1
        BY <1>1, <4>2
      <4>4. CtxOf(mode, s) = NLit + (((s - NLit) * Scatter) % RuleCtx)
        BY <1>3, <3>2 DEF CtxOf, TokenCtx
      <4> QED
        BY <2>1, <4>3, <4>4, ModelAssumption
    <3> QED
      BY <3>1, <3>2
  <2> QED
    BY <2>1, <2>2, ModelAssumption
<1>4. CASE mode = "V4"
  <2>1. Sentinel(mode) = NLit + RuleCtx + HotRules
    BY <1>4, ModelAssumption DEF Sentinel, NumContexts
  <2>2. ASSUME NEW s \in Nat PROVE CtxOf(mode, s) \in 0 .. Sentinel(mode)
    <3>1. CASE s < NLit + HotRules
      BY <1>4, <2>1, <3>1, ModelAssumption DEF CtxOf, V4Ctx
    <3>2. CASE ~(s < NLit + HotRules)
      <4>1. s - NLit - HotRules \in Nat
        BY <3>2, ModelAssumption
      <4>2. (s - NLit - HotRules) * Scatter \in Nat
        BY <1>2, <4>1, ModelAssumption
      <4>3. ((s - NLit - HotRules) * Scatter) % RuleCtx \in 0 .. RuleCtx - 1
        BY <1>1, <4>2
      <4>4. CtxOf(mode, s) = NLit + HotRules + (((s - NLit - HotRules) * Scatter) % RuleCtx)
        BY <1>4, <3>2 DEF CtxOf, V4Ctx
      <4> QED
        BY <2>1, <4>3, <4>4, ModelAssumption
    <3> QED
      BY <3>1, <3>2
  <2> QED
    BY <2>1, <2>2, ModelAssumption
<1> QED
  BY <1>3, <1>4 DEF Modes

\* Rows of n symbols each, whose totals exceed n by at most what was coded.
Holds(rows, n, mode, used) ==
  /\ mode \in Modes /\ used \in Nat
  /\ rows = [c \in 0 .. Sentinel(mode) |-> rows[c]]
  /\ \A c \in 0 .. Sentinel(mode) : Row(rows[c], n, MaxSyms) /\ rows[c].total <= n + used

\* The bound on the totals may be raised.
LEMMA HoldsMore ==
  ASSUME NEW rows, NEW n \in Nat, NEW mode, NEW used, Holds(rows, n, mode, used),
         NEW more \in Nat, used <= more
  PROVE  Holds(rows, n, mode, more)
<1>1. ASSUME NEW c \in 0 .. Sentinel(mode)
      PROVE  Row(rows[c], n, MaxSyms) /\ rows[c].total <= n + more
  <2>1. Row(rows[c], n, MaxSyms) /\ rows[c].total <= n + used
    BY DEF Holds
  <2>2. rows[c].total \in Nat
    BY <2>1, RowFacts
  <2> QED
    BY <2>1, <2>2 DEF Holds
<1> QED
  BY <1>1 DEF Holds

\* One token.
Learnt(rows, c, s)   == [rows EXCEPT ![c] = Update(@, s)]

Unlearnt(rows, c, s) == [rows EXCEPT ![c] = Downdate(@, s)]

CanLearn(rows, n, mode, used, c, s) ==
  /\ n \in Nat /\ used \in Nat /\ n + used + 1 < Word
  /\ c \in 0 .. Sentinel(mode) /\ s \in 0 .. n - 1
  /\ Holds(rows, n, mode, used)

\* A token keeps the rows, and undoing it restores them.
LEMMA LearnHolds ==
  ASSUME NEW rows, NEW n, NEW mode, NEW used, NEW c, NEW s, CanLearn(rows, n, mode, used, c, s)
  PROVE  /\ Holds(Learnt(rows, c, s), n, mode, used + 1)
         /\ Unlearnt(Learnt(rows, c, s), c, s) = rows
<1> USE DEF CanLearn, Learnt, Unlearnt
<1>1. PICK D : D = 0 .. Sentinel(mode)
  OBVIOUS
<1>2. rows = [x \in D |-> rows[x]] /\ \A x \in D : Row(rows[x], n, MaxSyms) /\ rows[x].total <= n + used
  BY <1>1 DEF Holds
<1>3. \A x \in D : rows[x].total \in Nat
  BY <1>2, RowFacts
<1>4. rows[c].total + 1 < Word
  <2>1. rows[c].total <= n + used /\ rows[c].total \in Nat
    BY <1>1, <1>2, <1>3
  <2> QED
    BY <2>1, WordAssumption
<1>5. PICK u : u = Update(rows[c], s)
  OBVIOUS
<1>6. Row(u, n, MaxSyms) /\ u.total = rows[c].total + 1 /\ Downdate(u, s) = rows[c]
  BY <1>1, <1>2, <1>4, <1>5, RowUpdate
<1>7. PICK r2 : r2 = [rows EXCEPT ![c] = Update(@, s)]
  OBVIOUS
<1>8. r2 = [x \in D |-> IF x = c THEN u ELSE rows[x]]
  BY <1>1, <1>2, <1>5, <1>7
<1>9. r2 = [x \in D |-> r2[x]]
  BY <1>8
<1>10. ASSUME NEW x \in D PROVE Row(r2[x], n, MaxSyms) /\ r2[x].total <= n + (used + 1)
  <2>1. CASE x = c
    <3>1. r2[x] = u /\ rows[c].total <= n + used /\ rows[c].total \in Nat
      BY <1>1, <1>2, <1>3, <1>8, <2>1
    <3> QED
      BY <1>6, <3>1
  <2>2. CASE x # c
    <3>1. r2[x] = rows[x] /\ rows[x].total <= n + used /\ rows[x].total \in Nat
      BY <1>2, <1>3, <1>8, <2>2
    <3> QED
      BY <1>2, <3>1
  <2> QED
    BY <2>1, <2>2
<1>11. Holds(r2, n, mode, used + 1)
  <2>1. mode \in Modes /\ used + 1 \in Nat
    BY DEF Holds
  <2> QED
    BY <1>1, <1>9, <1>10, <2>1 DEF Holds
<1>12. [r2 EXCEPT ![c] = Downdate(@, s)] = rows
  <2>1. r2[c] = u
    BY <1>1, <1>8
  <2>2. [r2 EXCEPT ![c] = Downdate(@, s)] = [x \in D |-> IF x = c THEN Downdate(u, s) ELSE r2[x]]
    BY <1>8, <2>1
  <2>3. \A x \in D : (IF x = c THEN Downdate(u, s) ELSE r2[x]) = rows[x]
    BY <1>6, <1>8
  <2> QED
    BY <1>2, <2>2, <2>3
<1> QED
  BY <1>7, <1>11, <1>12

GrownRows(rows, n, n2, mode) == [c \in 0 .. Sentinel(mode) |-> GrowRow(rows[c], n, n2)]

\* New symbols, and their removal.
CanGrow(rows, n, mode, used, n2) ==
  /\ n \in Nat /\ used \in Nat /\ n2 \in n .. MaxSyms /\ n2 + used < Word
  /\ Holds(rows, n, mode, used)

\* Growth keeps the rows, and cutting back restores them.
LEMMA GrowHolds ==
  ASSUME NEW rows, NEW n, NEW mode, NEW used, NEW n2, CanGrow(rows, n, mode, used, n2)
  PROVE  \A r2 : r2 = GrownRows(rows, n, n2, mode)
                  => /\ Holds(r2, n2, mode, used)
                     /\ \A c \in 0 .. Sentinel(mode) : CutRow(r2[c], n2, n) = rows[c]
                     /\ n2 = n => r2 = rows
<1> USE DEF CanGrow
<1>1. PICK D : D = 0 .. Sentinel(mode)
  OBVIOUS
<1>2. rows = [x \in D |-> rows[x]] /\ \A x \in D : Row(rows[x], n, MaxSyms) /\ rows[x].total <= n + used
  BY <1>1 DEF Holds
<1>3. \A x \in D : rows[x].total \in Nat
  BY <1>2, RowFacts
<1>4. PICK r2 : r2 = GrownRows(rows, n, n2, mode)
  OBVIOUS
<1>5. r2 = [x \in D |-> GrowRow(rows[x], n, n2)]
  BY <1>1, <1>4 DEF GrownRows
<1>6. ASSUME NEW x \in D
      PROVE  /\ Row(r2[x], n2, MaxSyms) /\ r2[x].total <= n2 + used
             /\ CutRow(r2[x], n2, n) = rows[x] /\ (n2 = n => r2[x] = rows[x])
  <2>1. r2[x] = GrowRow(rows[x], n, n2)
    BY <1>5
  <2>2. Row(rows[x], n, MaxSyms) /\ rows[x].total <= n + used /\ rows[x].total \in Nat
    BY <1>2, <1>3
  <2>3. n2 \in Nat /\ rows[x].total + (n2 - n) < Word /\ rows[x].total + (n2 - n) <= n2 + used
    BY <2>2, WordAssumption
  <2>4. /\ Row(r2[x], n2, MaxSyms) /\ r2[x].total = rows[x].total + (n2 - n)
        /\ CutRow(r2[x], n2, n) = rows[x]
    BY <2>1, <2>2, <2>3, RowGrow
  <2>5. ASSUME n2 = n PROVE r2[x] = rows[x]
    <3>1. rows[x].total < Word
      BY <2>2, <2>3, <2>5
    <3> QED
      BY <2>1, <2>2, <2>5, <3>1, RowStays
  <2> QED
    BY <2>3, <2>4, <2>5
<1>7. r2 = [x \in D |-> r2[x]]
  BY <1>5
<1>8. Holds(r2, n2, mode, used)
  <2>1. mode \in Modes /\ used \in Nat
    BY DEF Holds
  <2> QED
    BY <1>1, <1>6, <1>7, <2>1 DEF Holds
<1>9. \A x \in D : CutRow(r2[x], n2, n) = rows[x]
  BY <1>6
<1>10. ASSUME n2 = n PROVE r2 = rows
  <2>1. \A x \in D : r2[x] = rows[x]
    BY <1>6, <1>10
  <2> QED
    BY <1>2, <1>7, <2>1
<1> QED
  BY <1>1, <1>4, <1>8, <1>9, <1>10

\* Shrinking.
LEMMA ShrinkHolds ==
  ASSUME NEW rows, NEW n \in Nat, NEW mode, NEW used \in Nat, Holds(rows, n, mode, used),
         NEW n2 \in NLit .. n, n + used < Word
  PROVE  Holds([c \in 0 .. Sentinel(mode) |-> ShrinkRow(rows[c], n2)], n2, mode, used)
<1>1. PICK D : D = 0 .. Sentinel(mode)
  OBVIOUS
<1>2. PICK r2 : r2 = [x \in D |-> ShrinkRow(rows[x], n2)]
  OBVIOUS
<1>3. ASSUME NEW x \in D PROVE Row(r2[x], n2, MaxSyms) /\ r2[x].total <= n2 + used
  <2>1. Row(rows[x], n, MaxSyms) /\ rows[x].total <= n + used
    BY <1>1 DEF Holds
  <2>2. rows[x].total \in Nat /\ rows[x].total < Word
    <3>1. rows[x].total \in Nat
      BY <2>1, RowFacts
    <3> QED
      BY <2>1, <3>1, WordAssumption
  <2>3. Row(r2[x], n2, MaxSyms) /\ r2[x].total + (n - n2) <= rows[x].total
    BY <1>2, <2>1, <2>2, RowShrink
  <2>4. r2[x].total \in Nat
    BY <2>3, RowFacts
  <2>5. n2 \in Nat
    BY ModelAssumption
  <2> QED
    BY <2>1, <2>2, <2>3, <2>4, <2>5
<1>4. r2 = [x \in D |-> r2[x]]
  BY <1>2
<1>5. Holds(r2, n2, mode, used)
  <2>1. mode \in Modes /\ used \in Nat
    BY DEF Holds
  <2> QED
    BY <1>1, <1>3, <1>4, <2>1 DEF Holds
<1> QED
  BY <1>1, <1>2, <1>5

\* A new model.
LEMMA NewHolds ==
  ASSUME NEW mode \in Modes, MaxSyms < Word
  PROVE  Holds(NewModel(NLit, mode).rows, NLit, mode, 0)
<1>1. NLit \in 1 .. MaxSyms /\ MaxSyms \in Nat /\ NLit < Word
  BY ModelAssumption, WordAssumption
<1>2. NewModel(NLit, mode).rows = [c \in 0 .. Sentinel(mode) |-> NewTable(NLit, MaxSyms)]
  BY DEF NewModel
<1>3. Row(NewTable(NLit, MaxSyms), NLit, MaxSyms) /\ NewTable(NLit, MaxSyms).total = NLit
  BY <1>1, RowNew
<1>4. NLit <= NLit + 0
  BY <1>1
<1> QED
  BY <1>2, <1>3, <1>4 DEF Holds

----------------------------------------------------------------------------
(* A whole model.                                                          *)

Coded == [ctx : Nat, sym : Nat]

Sound(m, used) ==
  /\ m = [n |-> m.n, base |-> m.base, mode |-> m.mode, rows |-> m.rows,
          ctx |-> m.ctx, log |-> m.log]
  /\ m.n \in NLit .. MaxSyms /\ m.ctx \in 0 .. Sentinel(m.mode)
  /\ m.log \in Seq(Coded)
  /\ Holds(m.rows, m.n, m.mode, used)

\* A new model is sound.
LEMMA NewSound ==
  ASSUME NEW mode \in Modes, MaxSyms < Word
  PROVE  /\ Sound(NewModel(NLit, mode), 0) /\ NewModel(NLit, mode).n = NLit
         /\ NewModel(NLit, mode).mode = mode /\ NewModel(NLit, mode).log = <<>>
<1>1. PICK m : m = NewModel(NLit, mode)
  OBVIOUS
<1>2. /\ m.n = NLit /\ m.base = NLit /\ m.mode = mode /\ m.ctx = Sentinel(mode) /\ m.log = <<>>
      /\ m = [n |-> m.n, base |-> m.base, mode |-> m.mode, rows |-> m.rows,
              ctx |-> m.ctx, log |-> m.log]
  BY <1>1 DEF NewModel
<1>3. Holds(m.rows, NLit, mode, 0)
  BY <1>1, NewHolds
<1>4. NLit \in NLit .. MaxSyms /\ Sentinel(mode) \in 0 .. Sentinel(mode)
  BY ModelAssumption, ContextFacts
<1>5. <<>> \in Seq(Coded)
  OBVIOUS
<1>6. Sound(m, 0)
  BY <1>2, <1>3, <1>4, <1>5 DEF Sound
<1> QED
  BY <1>1, <1>2, <1>6

\* A model ready for a chunk.
Ready(g, m, n2) ==
  /\ g = [n |-> n2, base |-> m.n, mode |-> m.mode, rows |-> GrownRows(m.rows, m.n, n2, m.mode),
          ctx |-> Sentinel(m.mode), log |-> <<>>]

\* The model of a new chunk is sound.
LEMMA BeginSound ==
  ASSUME NEW m, NEW used \in Nat, Sound(m, used), NEW new \in Nat, m.n + new <= MaxSyms,
         MaxSyms + used < Word
  PROVE  /\ Sound(Grow(BeginChunk(m), m.n + new), used)
         /\ Ready(Grow(BeginChunk(m), m.n + new), m, m.n + new)
<1>1. PICK n, mode, rows, n2 : n = m.n /\ mode = m.mode /\ rows = m.rows /\ n2 = m.n + new
  OBVIOUS
<1>2. /\ n \in Nat /\ n \in NLit .. MaxSyms /\ MaxSyms \in Nat /\ n2 \in NLit .. MaxSyms
      /\ n2 \in n .. MaxSyms /\ n2 \in Nat
  BY <1>1, ModelAssumption DEF Sound
<1>3. Holds(rows, n, mode, used) /\ mode \in Modes
  BY <1>1 DEF Sound, Holds
<1>4. n2 + used < Word
  BY <1>2, WordAssumption
<1>5. PICK r2 : r2 = GrownRows(rows, n, n2, mode)
  OBVIOUS
<1>6. Holds(r2, n2, mode, used) /\ (n2 = n => r2 = rows)
  <2>1. CanGrow(rows, n, mode, used, n2)
    BY <1>2, <1>3, <1>4 DEF CanGrow
  <2> QED
    BY <1>5, <2>1, GrowHolds
<1>7. PICK b : b = BeginChunk(m)
  OBVIOUS
<1>8. b = [n |-> n, base |-> n, mode |-> mode, rows |-> rows, ctx |-> Sentinel(mode), log |-> <<>>]
  <2>1. m = [n |-> n, base |-> m.base, mode |-> mode, rows |-> rows, ctx |-> m.ctx, log |-> m.log]
    BY <1>1 DEF Sound
  <2> QED
    BY <1>1, <1>7, <2>1 DEF BeginChunk
<1>9. PICK g : g = Grow(b, n2)
  OBVIOUS
<1>10. g = [n |-> n2, base |-> n, mode |-> mode, rows |-> r2, ctx |-> Sentinel(mode), log |-> <<>>]
  <2>1. CASE n2 <= n
    <3>1. n2 = n /\ g = b
      BY <1>2, <1>8, <1>9, <2>1 DEF Grow
    <3> QED
      BY <1>6, <1>8, <3>1
  <2>2. CASE ~(n2 <= n)
    <3>1. g = [b EXCEPT !.n = n2, !.rows = [c \in Rows(b) |-> GrowRow(@[c], b.n, n2)]]
      BY <1>8, <1>9, <2>2 DEF Grow
    <3>2. Rows(b) = 0 .. Sentinel(mode)
      BY <1>3, <1>8 DEF Rows, Holds
    <3>3. [c \in Rows(b) |-> GrowRow(b.rows[c], b.n, n2)] = r2
      BY <1>5, <1>8, <3>2 DEF GrownRows
    <3> QED
      BY <1>8, <3>1, <3>3
  <2> QED
    BY <2>1, <2>2
<1>11. <<>> \in Seq(Coded) /\ Sentinel(mode) \in 0 .. Sentinel(mode)
  BY <1>3, ContextFacts
<1>12. Sound(g, used)
  BY <1>2, <1>6, <1>10, <1>11 DEF Sound
<1>13. Ready(g, m, n2)
  BY <1>1, <1>5, <1>10 DEF Ready
<1> QED
  BY <1>1, <1>7, <1>9, <1>12, <1>13

\* One token, without and with the log.
LEMMA LearnSound ==
  ASSUME NEW m, NEW used \in Nat, Sound(m, used), NEW s \in 0 .. m.n - 1, MaxSyms + used + 1 < Word
  PROVE  /\ Sound(Learn(m, s), used + 1)
         /\ Learn(m, s) = [n |-> m.n, base |-> m.base, mode |-> m.mode, rows |-> Learnt(m.rows, m.ctx, s),
                           ctx |-> CtxOf(m.mode, s), log |-> m.log]
         /\ Unlearnt(Learnt(m.rows, m.ctx, s), m.ctx, s) = m.rows
<1>1. PICK n, mode, rows, c : n = m.n /\ mode = m.mode /\ rows = m.rows /\ c = m.ctx
  OBVIOUS
<1>2. n \in Nat /\ n \in NLit .. MaxSyms /\ MaxSyms \in Nat
  BY <1>1, ModelAssumption DEF Sound
<1>3. Holds(rows, n, mode, used) /\ mode \in Modes /\ c \in 0 .. Sentinel(mode)
  BY <1>1 DEF Sound, Holds
<1>4. n + used + 1 < Word /\ s \in 0 .. n - 1 /\ s \in Nat
  BY <1>1, <1>2, WordAssumption
<1>5. PICK r2 : r2 = Learnt(rows, c, s)
  OBVIOUS
<1>6. Holds(r2, n, mode, used + 1) /\ Unlearnt(r2, c, s) = rows
  <2>1. CanLearn(rows, n, mode, used, c, s)
    BY <1>2, <1>3, <1>4 DEF CanLearn
  <2> QED
    BY <1>5, <2>1, LearnHolds
<1>7. m = [n |-> n, base |-> m.base, mode |-> mode, rows |-> rows, ctx |-> c, log |-> m.log]
  BY <1>1 DEF Sound
<1>8. PICK g : g = Learn(m, s)
  OBVIOUS
<1>9. g = [n |-> n, base |-> m.base, mode |-> mode, rows |-> r2, ctx |-> CtxOf(mode, s), log |-> m.log]
  BY <1>1, <1>5, <1>7, <1>8 DEF Learn, Learnt
<1>10. CtxOf(mode, s) \in 0 .. Sentinel(mode)
  BY <1>3, <1>4, ContextFacts
<1>11. m.log \in Seq(Coded)
  BY DEF Sound
<1>12. Sound(g, used + 1)
  BY <1>2, <1>6, <1>9, <1>10, <1>11 DEF Sound
<1>13. r2 = Learnt(m.rows, m.ctx, s)
  BY <1>1, <1>5
<1> QED
  BY <1>1, <1>6, <1>8, <1>9, <1>12, <1>13

\* A shrunk model is sound.
LEMMA ShrinkSound ==
  ASSUME NEW m, NEW used \in Nat, Sound(m, used), NEW n2 \in NLit .. m.n, MaxSyms + used < Word
  PROVE  /\ Sound(ShrinkAlphabet(m, n2), used)
         /\ ShrinkAlphabet(m, n2).n = n2
         /\ ShrinkAlphabet(m, n2).mode = m.mode
<1>1. PICK n, mode, rows : n = m.n /\ mode = m.mode /\ rows = m.rows
  OBVIOUS
<1>2. n \in Nat /\ n \in NLit .. MaxSyms /\ MaxSyms \in Nat /\ n2 \in NLit .. n /\ n2 \in NLit .. MaxSyms
  BY <1>1, ModelAssumption DEF Sound
<1>3. Holds(rows, n, mode, used) /\ m.ctx \in 0 .. Sentinel(mode) /\ m.log \in Seq(Coded)
  BY <1>1 DEF Sound
<1>4. m = [n |-> n, base |-> m.base, mode |-> mode, rows |-> rows, ctx |-> m.ctx, log |-> m.log]
  BY <1>1 DEF Sound
<1>5. PICK g : g = ShrinkAlphabet(m, n2)
  OBVIOUS
<1>6. CASE n2 >= n
  <2>1. g = m /\ n2 = n
    BY <1>1, <1>2, <1>5, <1>6 DEF ShrinkAlphabet
  <2> QED
    BY <1>1, <1>5, <2>1
<1>7. CASE ~(n2 >= n)
  <2>1. PICK r2 : r2 = [c \in 0 .. Sentinel(mode) |-> ShrinkRow(rows[c], n2)]
    OBVIOUS
  <2>2. n + used < Word
    BY <1>2, WordAssumption
  <2>3. Holds(r2, n2, mode, used)
    BY <1>2, <1>3, <2>1, <2>2, ShrinkHolds
  <2>4. Rows(m) = 0 .. Sentinel(mode)
    BY <1>1, <1>3 DEF Rows, Holds
  <2>5. g = [m EXCEPT !.n = n2, !.rows = r2]
    BY <1>1, <1>5, <1>7, <2>1, <2>4 DEF ShrinkAlphabet
  <2>6. g = [n |-> n2, base |-> m.base, mode |-> mode, rows |-> r2, ctx |-> m.ctx, log |-> m.log]
    BY <1>1, <1>4, <2>5
  <2>7. Sound(g, used)
    BY <1>2, <1>3, <2>3, <2>6 DEF Sound
  <2> QED
    BY <1>1, <1>5, <2>6, <2>7
<1> QED
  BY <1>6, <1>7

----------------------------------------------------------------------------
(* Rollback.                                                               *)

\* The rows a chunk went through, from the newest back to where its coding began.
Backs(h, m, start) ==
  /\ h[0] = start /\ h[Len(m.log)] = m.rows
  /\ \A k \in 1 .. Len(m.log) : Unlearnt(h[k], m.log[k].ctx, m.log[k].sym) = h[k - 1]

\* Undoing a logged token touches the rows only.
LEMMA UndoOne ==
  ASSUME NEW m, NEW used, Sound(m, used), NEW rows, NEW k
  PROVE  UndoToken([m EXCEPT !.rows = rows], k) =
           [m EXCEPT !.rows = Unlearnt(rows, m.log[k].ctx, m.log[k].sym)]
<1>1. m = [n |-> m.n, base |-> m.base, mode |-> m.mode, rows |-> m.rows, ctx |-> m.ctx, log |-> m.log]
  BY DEF Sound
<1>2. PICK x : x = [m EXCEPT !.rows = rows]
  OBVIOUS
<1>3. x.log = m.log /\ x.rows = rows
  BY <1>1, <1>2
<1>4. PICK c, s : c = m.log[k].ctx /\ s = m.log[k].sym
  OBVIOUS
<1>5. UndoToken(x, k) = [x EXCEPT !.rows[c] = Downdate(@, s)]
  BY <1>3, <1>4 DEF UndoToken
<1>6. [x EXCEPT !.rows[c] = Downdate(@, s)] = [m EXCEPT !.rows = [rows EXCEPT ![c] = Downdate(@, s)]]
  BY <1>1, <1>2
<1> QED
  BY <1>2, <1>4, <1>5, <1>6 DEF Unlearnt

\* A rollback restores the rows and the alphabet that the chunk found.
LEMMA RollbackRestores ==
  ASSUME NEW m, NEW used \in Nat, Sound(m, used), NEW b, Sound(b, used), NEW h,
         b.mode = m.mode, m.base = b.n, b.n <= m.n, m.n + used < Word,
         Backs(h, m, GrownRows(b.rows, b.n, m.n, b.mode))
  PROVE  RollbackChunk(m) = [n |-> b.n, base |-> m.base, mode |-> m.mode, rows |-> b.rows,
                             ctx |-> Sentinel(m.mode), log |-> <<>>]
<1>1. PICK len \in Nat : len = Len(m.log)
  BY DEF Sound
<1> DEFINE G(u) == u = [k \in 0 .. len |-> IF k = 0 THEN m ELSE UndoToken(u[k - 1], len - k + 1)]
           f == [k \in 0 .. len |-> [m EXCEPT !.rows = h[len - k]]]
           und == CHOOSE u : G(u)
<1>2. m = [n |-> m.n, base |-> m.base, mode |-> m.mode, rows |-> m.rows, ctx |-> m.ctx, log |-> m.log]
  BY DEF Sound
<1>3. f[0] = m
  <2>1. h[len - 0] = m.rows
    BY <1>1 DEF Backs
  <2> QED
    BY <1>1, <1>2, <2>1
<1>4. \A k \in 1 .. len : f[k] = UndoToken(f[k - 1], len - k + 1)
  <2> TAKE k \in 1 .. len
  <2>0. len - k + 1 \in 1 .. len /\ k \in Nat
    OBVIOUS
  <2>1. PICK j \in 1 .. len : j = len - k + 1
    BY <2>0
  <2>2. len - (k - 1) = j /\ len - k = j - 1 /\ k - 1 \in 0 .. len /\ k \in 0 .. len
    BY <2>0, <2>1
  <2>3. f[k - 1] = [m EXCEPT !.rows = h[j]] /\ f[k] = [m EXCEPT !.rows = h[j - 1]]
    BY <2>2
  <2>4. UndoToken([m EXCEPT !.rows = h[j]], j) =
          [m EXCEPT !.rows = Unlearnt(h[j], m.log[j].ctx, m.log[j].sym)]
    BY UndoOne
  <2>5. Unlearnt(h[j], m.log[j].ctx, m.log[j].sym) = h[j - 1]
    BY <1>1, <2>1 DEF Backs
  <2> HIDE DEF f
  <2> QED
    BY <2>1, <2>3, <2>4, <2>5
<1>5. f = [k \in 0 .. len |-> f[k]]
  OBVIOUS
<1>6. f[len] = [m EXCEPT !.rows = h[0]]
  <2>1. len - len = 0 /\ len \in 0 .. len
    BY <1>1
  <2> QED
    BY <2>1
<1> HIDE DEF f
<1>7. G(f)
  <2>1. \A k \in 0 .. len : f[k] = IF k = 0 THEN m ELSE UndoToken(f[k - 1], len - k + 1)
    BY <1>3, <1>4
  <2> QED
    BY <1>5, <2>1
<1>8. G(und)
  BY <1>7
<1> HIDE DEF und
<1>9. und[0] = m /\ \A k \in 1 .. len : und[k] = UndoToken(und[k - 1], len - k + 1)
  <2>1. 0 \in 0 .. len /\ \A k \in 1 .. len : k \in 0 .. len /\ k # 0
    OBVIOUS
  <2> QED
    BY <1>8, <2>1
<1>10. und[len] = f[len]
  <2> DEFINE S == {k \in Nat : und[k] = f[k]}
  <2>1. 0 \in S
    BY <1>3, <1>9
  <2>2. ASSUME NEW k \in 0 .. len - 1, k \in S PROVE k + 1 \in S
    <3>1. k + 1 \in 1 .. len /\ (k + 1) - 1 = k
      BY <1>1
    <3>2. und[k + 1] = UndoToken(und[k], len - (k + 1) + 1) /\ f[k + 1] = UndoToken(f[k], len - (k + 1) + 1)
      BY <1>4, <1>9, <3>1
    <3> QED
      BY <2>2, <3>1, <3>2
  <2> HIDE DEF S
  <2>3. \A k \in 0 .. len : k \in S
    BY <1>1, <2>1, <2>2, InductionUpTo
  <2>4. len \in S
    BY <1>1, <2>3
  <2> QED
    BY <2>4 DEF S
<1>11. PICK gr : gr = GrownRows(b.rows, b.n, m.n, b.mode)
  OBVIOUS
<1>12. und[len].rows = gr
  BY <1>2, <1>6, <1>10, <1>11 DEF Backs
<1> DEFINE cut == [c \in Rows(m) |-> CutRow(und[len].rows[c], m.n, m.base)]
<1>13. RollbackChunk(m) = [m EXCEPT !.rows = IF m.n > m.base THEN cut ELSE und[len].rows,
                                    !.n = m.base, !.log = <<>>, !.ctx = Sentinel(m.mode)]
  BY <1>1 DEF RollbackChunk, und
<1>14. /\ \A c \in 0 .. Sentinel(b.mode) : CutRow(gr[c], m.n, b.n) = b.rows[c]
       /\ m.n = b.n => gr = b.rows
  <2>1. CanGrow(b.rows, b.n, b.mode, used, m.n)
    BY ModelAssumption DEF Sound, CanGrow
  <2> QED
    BY <1>11, <2>1, GrowHolds
<1>15. Rows(m) = 0 .. Sentinel(b.mode)
  BY DEF Rows, Sound, Holds
<1>16. cut = b.rows
  <2>1. b.rows = [c \in 0 .. Sentinel(b.mode) |-> b.rows[c]]
    BY DEF Sound, Holds
  <2> QED
    BY <1>12, <1>14, <1>15, <2>1
<1> HIDE DEF cut
<1>17. (IF m.n > m.base THEN cut ELSE und[len].rows) = b.rows
  <2>1. CASE m.n > m.base
    BY <1>16, <2>1
  <2>2. CASE ~(m.n > m.base)
    <3>1. m.n = b.n
      BY <2>2, ModelAssumption DEF Sound
    <3> QED
      BY <1>12, <1>14, <2>2, <3>1
  <2> QED
    BY <2>1, <2>2
<1> QED
  BY <1>2, <1>13, <1>17

----------------------------------------------------------------------------
(* The reader, whatever it is given.                                       *)

\* A reader in a state that its operations keep.
Usable(r, used) ==
  /\ r = [model |-> r.model, coder |-> r.coder, tokens |-> r.tokens, ok |-> r.ok]
  /\ Sound(r.model, used) /\ r.coder \in Decoder /\ r.ok \in BOOLEAN

\* The bound on a model's totals may be raised.
LEMMA SoundMore ==
  ASSUME NEW m, NEW used \in Nat, Sound(m, used), NEW more \in Nat, used <= more
  PROVE  Sound(m, more)
<1>1. m.n \in Nat
  BY ModelAssumption DEF Sound
<1>2. Holds(m.rows, m.n, m.mode, more)
  BY <1>1, HoldsMore DEF Sound
<1> QED
  BY <1>2 DEF Sound

\* The row of the next token.
LEMMA SoundRow ==
  ASSUME NEW m, NEW used \in Nat, Sound(m, used)
  PROVE  /\ Row(m.rows[m.ctx], m.n, MaxSyms)
         /\ m.rows[m.ctx].total \in Nat \ {0} /\ m.rows[m.ctx].total <= m.n + used
         /\ m.n \in Nat \ {0} /\ m.n <= MaxSyms /\ m.mode \in Modes
<1>1. m.ctx \in 0 .. Sentinel(m.mode) /\ Holds(m.rows, m.n, m.mode, used)
  BY DEF Sound
<1>2. Row(m.rows[m.ctx], m.n, MaxSyms) /\ m.rows[m.ctx].total <= m.n + used /\ m.mode \in Modes
  BY <1>1 DEF Holds
<1>3. /\ m.n \in Nat \ {0} /\ m.n <= MaxSyms
      /\ m.rows[m.ctx].total \in Nat /\ m.n <= m.rows[m.ctx].total
  BY <1>2, RowFacts
<1>4. m.rows[m.ctx].total \in Nat \ {0}
  BY <1>3
<1> QED
  BY <1>2, <1>3, <1>4

\* A token leaves a usable reader, whatever the digits were.
LEMMA DecodeTokenUsable ==
  ASSUME NEW r, NEW used \in Nat, Usable(r, used), MaxSyms + used + 1 < Word
  PROVE  /\ Usable(DecodeToken(r), used + 1)
         /\ DecodeToken(r).model.n = r.model.n /\ DecodeToken(r).model.mode = r.model.mode
<1>1. PICK m, t, th, s, g : /\ m = r.model /\ t = m.rows[m.ctx] /\ th = Threshold(r.coder, t.total)
                            /\ s = FindGt(t.tree, th) /\ g = DecodeToken(r)
  OBVIOUS
<1>2. Sound(m, used) /\ r.coder \in Decoder /\ r.ok \in BOOLEAN
      /\ r = [model |-> m, coder |-> r.coder, tokens |-> r.tokens, ok |-> r.ok]
  BY <1>1 DEF Usable
<1>3. /\ Row(t, m.n, MaxSyms) /\ t.total \in Nat \ {0} /\ m.n \in Nat \ {0}
  BY <1>1, <1>2, SoundRow
<1>4. CASE th >= t.total \/ s >= m.n
  <2>1. g = [r EXCEPT !.ok = FALSE]
    BY <1>1, <1>4 DEF DecodeToken
  <2>2. g = [model |-> m, coder |-> r.coder, tokens |-> r.tokens, ok |-> FALSE]
    <3>1. PICK co, to, k : co = r.coder /\ to = r.tokens /\ k = r.ok
      OBVIOUS
    <3>2. r = [model |-> m, coder |-> co, tokens |-> to, ok |-> k]
      BY <1>2, <3>1
    <3>3. g = [model |-> m, coder |-> co, tokens |-> to, ok |-> FALSE]
      BY <2>1, <3>2
    <3> QED
      BY <3>1, <3>3
  <2>3. Sound(m, used + 1)
    BY <1>2, SoundMore
  <2>4. Usable(g, used + 1)
    BY <1>2, <2>2, <2>3 DEF Usable
  <2> QED
    BY <1>1, <2>2, <2>4
<1>5. CASE ~(th >= t.total \/ s >= m.n)
  <2>1. th \in Nat
    BY <1>1, <1>2, <1>3, ThresholdType
  <2>2. th < t.total
    BY <1>3, <1>5, <2>1
  <2>3. s \in 0 .. m.n - 1
    BY <1>1, <1>3, <2>1, <2>2, SymbolFound
  <2>4. PICK iv : iv = Interval(t, s)
    OBVIOUS
  <2>5. Parted(iv)
    BY <1>3, <2>3, <2>4, IntervalFacts DEF Part, Parted
  <2>6. PICK d : d = DecodeStep(Scale(r.coder, t.total), iv)
    OBVIOUS
  <2>7. d \in Decoder
    BY <1>2, <1>3, <2>5, <2>6, DecodeType
  <2>8. PICK m2 : m2 = Learn(m, s)
    OBVIOUS
  <2>9. Sound(m2, used + 1)
    BY <1>2, <2>3, <2>8, LearnSound
  <2>10. m2.n = m.n /\ m2.mode = m.mode
    BY <1>2, <2>3, <2>8, LearnSound
  <2>11. g = [r EXCEPT !.model = m2, !.coder = d, !.tokens = Append(@, s)]
    BY <1>1, <1>5, <2>4, <2>6, <2>8 DEF DecodeToken
  <2>12. g = [model |-> m2, coder |-> d, tokens |-> Append(r.tokens, s), ok |-> r.ok]
    <3>1. PICK co, to, k, tt : co = r.coder /\ to = r.tokens /\ k = r.ok /\ tt = Append(r.tokens, s)
      OBVIOUS
    <3>2. r = [model |-> m, coder |-> co, tokens |-> to, ok |-> k]
      BY <1>2, <3>1
    <3>3. g = [r EXCEPT !.model = m2, !.coder = d, !.tokens = tt]
      BY <2>11, <3>1
    <3>4. g = [model |-> m2, coder |-> d, tokens |-> tt, ok |-> k]
      BY ONLY <3>2, <3>3
    <3> QED
      BY <3>1, <3>4
  <2>13. Usable(g, used + 1)
    BY <1>2, <2>7, <2>9, <2>12 DEF Usable
  <2>14. g.model = m2
    BY ONLY <2>12
  <2>15. g.model.n = m.n /\ g.model.mode = m.mode
    BY ONLY <2>10, <2>14
  <2>16. g = DecodeToken(r) /\ m = r.model
    BY <1>1
  <2> QED
    BY ONLY <2>13, <2>15, <2>16
<1> QED
  BY <1>4, <1>5

\* The turns of a block's reading.
BlockStart(m, new, blob) ==
  [model |-> Grow(BeginChunk(m), m.n + new), coder |-> DecoderNew(blob),
   tokens |-> <<>>, ok |-> TRUE]

BlockStep(r) == IF r.ok THEN DecodeToken(r) ELSE r

BlockRuns(f, m, new, count, blob) ==
  /\ f[0] = BlockStart(m, new, blob)
  /\ \A k \in 1 .. count : f[k] = BlockStep(f[k - 1])
  /\ DecodeBlock(m, new, count, blob) = f[count]

\* Reading a block is a loop.
LEMMA BlockRunning ==
  ASSUME NEW m, NEW new, NEW count \in Nat, NEW blob
  PROVE  \E f : BlockRuns(f, m, new, count, blob)
<1>1. PICK e : e = BlockStart(m, new, blob)
  OBVIOUS
<1> DEFINE P(g, n) == g = [k \in 0 .. n |-> IF k = 0 THEN e ELSE BlockStep(g[k - 1])]
           S == {n \in Nat : \E g : P(g, n)}
<1>2. 0 \in S
  <2>1. P([k \in 0 .. 0 |-> e], 0)
    <3>1. \A k \in 0 .. 0 : k = 0
      OBVIOUS
    <3> QED
      BY <3>1
  <2> QED
    BY <2>1
<1>3. ASSUME NEW n \in 0 .. count - 1, n \in S PROVE n + 1 \in S
  <2>1. n \in Nat /\ n + 1 \in Nat
    OBVIOUS
  <2>2. PICK g : P(g, n)
    BY <1>3
  <2>3. PICK v : v = BlockStep(g[n])
    OBVIOUS
  <2> DEFINE h == [k \in 0 .. n + 1 |-> IF k = n + 1 THEN v ELSE g[k]]
  <2>4. \A k \in 0 .. n : g[k] = IF k = 0 THEN e ELSE BlockStep(g[k - 1])
    BY <2>2
  <2>5. \A k \in 0 .. n : h[k] = g[k]
    BY <2>1
  <2>6. h[n + 1] = v
    BY <2>1
  <2>7. h = [k \in 0 .. n + 1 |-> h[k]]
    OBVIOUS
  <2> HIDE DEF h, P
  <2>8. \A k \in 0 .. n + 1 : h[k] = IF k = 0 THEN e ELSE BlockStep(h[k - 1])
    <3> TAKE k \in 0 .. n + 1
    <3>1. CASE k = 0
      BY <2>1, <2>4, <2>5, <3>1
    <3>2. CASE k # 0 /\ k # n + 1
      <4>1. k \in 0 .. n /\ k - 1 \in 0 .. n
        BY <2>1, <3>2
      <4>2. g[k] = BlockStep(g[k - 1])
        BY <2>4, <3>2, <4>1
      <4>3. h[k] = g[k] /\ h[k - 1] = g[k - 1]
        BY <2>5, <4>1
      <4> QED
        BY <3>2, <4>2, <4>3
    <3>3. CASE k = n + 1
      <4>1. k # 0 /\ k - 1 = n /\ n \in 0 .. n
        BY <2>1, <3>3
      <4>2. h[k - 1] = g[n]
        BY <2>5, <4>1
      <4> QED
        BY <2>3, <2>6, <3>3, <4>1, <4>2
    <3> QED
      BY <3>1, <3>2, <3>3
  <2>9. P(h, n + 1)
    BY <2>7, <2>8 DEF P
  <2> QED
    BY <2>1, <2>9
<1> HIDE DEF S
<1>4. \A n \in 0 .. count : n \in S
  BY <1>2, <1>3, InductionUpTo
<1>5. \E g : P(g, count)
  <2>1. count \in S
    BY <1>4
  <2> QED
    BY <2>1 DEF S
<1> DEFINE f == CHOOSE g : P(g, count)
<1>6. P(f, count)
  BY <1>5
<1>7. DecodeBlock(m, new, count, blob) = f[count]
  BY <1>1 DEF DecodeBlock, BlockStart, BlockStep
<1> HIDE DEF f
<1>8. f[0] = e /\ \A k \in 1 .. count : f[k] = BlockStep(f[k - 1])
  <2>1. 0 \in 0 .. count /\ \A k \in 1 .. count : k \in 0 .. count /\ k # 0
    OBVIOUS
  <2> QED
    BY <1>6, <2>1
<1>9. BlockRuns(f, m, new, count, blob)
  BY <1>1, <1>7, <1>8 DEF BlockRuns
<1> QED
  BY <1>9

\* Whatever a block holds, its reader stays usable.
LEMMA BlockUsable ==
  ASSUME NEW m, NEW used \in Nat, Sound(m, used), NEW new \in Nat, m.n + new <= MaxSyms,
         NEW count \in Nat, MaxSyms + used + count < Word, NEW blob \in Seq(Digits)
  PROVE  /\ Usable(DecodeBlock(m, new, count, blob), used + count)
         /\ DecodeBlock(m, new, count, blob).model.n = m.n + new
         /\ DecodeBlock(m, new, count, blob).model.mode = m.mode
<1>1. PICK f : BlockRuns(f, m, new, count, blob)
  BY BlockRunning
<1>2. /\ f[0] = BlockStart(m, new, blob)
      /\ \A k \in 1 .. count : f[k] = BlockStep(f[k - 1])
      /\ DecodeBlock(m, new, count, blob) = f[count]
  BY <1>1 DEF BlockRuns
<1>3. PICK n2, mode : n2 = m.n + new /\ mode = m.mode
  OBVIOUS
<1>4. MaxSyms \in Nat /\ Word \in Nat
  BY ModelAssumption, WordAssumption
<1> DEFINE S == {k \in Nat : Usable(f[k], used + k) /\ f[k].model.n = n2 /\ f[k].model.mode = mode}
<1>5. 0 \in S
  <2>1. PICK g : g = Grow(BeginChunk(m), m.n + new)
    OBVIOUS
  <2>2. Sound(g, used) /\ Ready(g, m, m.n + new)
    BY <1>4, <2>1, BeginSound
  <2>3. g.n = n2 /\ g.mode = mode
    BY <1>3, <2>2 DEF Ready
  <2>4. PICK d : d = DecoderNew(blob)
    OBVIOUS
  <2>5. d \in Decoder
    BY <2>4, DecoderNewType
  <2>6. f[0] = [model |-> g, coder |-> d, tokens |-> <<>>, ok |-> TRUE]
    BY <1>2, <2>1, <2>4 DEF BlockStart
  <2>7. used + 0 = used
    OBVIOUS
  <2>8. Usable(f[0], used + 0)
    BY <2>2, <2>5, <2>6, <2>7 DEF Usable
  <2> QED
    BY <2>3, <2>6, <2>8
<1>6. ASSUME NEW k \in 0 .. count - 1, k \in S PROVE k + 1 \in S
  <2>1. k \in Nat /\ k + 1 \in 1 .. count /\ (k + 1) - 1 = k /\ used + k \in Nat
        /\ used + (k + 1) = (used + k) + 1 /\ MaxSyms + (used + k) + 1 < Word
    BY <1>4
  <2>2. PICK r : r = f[k]
    OBVIOUS
  <2>3. Usable(r, used + k) /\ r.model.n = n2 /\ r.model.mode = mode
    BY <1>6, <2>2
  <2>4. f[k + 1] = BlockStep(r)
    BY <1>2, <2>1, <2>2
  <2>5. CASE r.ok
    <3>1. f[k + 1] = DecodeToken(r)
      BY <2>4, <2>5 DEF BlockStep
    <3>2. /\ Usable(DecodeToken(r), (used + k) + 1)
          /\ DecodeToken(r).model.n = r.model.n /\ DecodeToken(r).model.mode = r.model.mode
      BY <2>1, <2>3, DecodeTokenUsable
    <3> QED
      BY <2>1, <2>3, <3>1, <3>2
  <2>6. CASE ~r.ok
    <3>1. f[k + 1] = r
      BY <2>4, <2>6 DEF BlockStep
    <3>2. Sound(r.model, (used + k) + 1)
      <4>1. PICK u0 \in Nat : u0 = used + k
        BY <2>1
      <4>2. Sound(r.model, u0)
        BY <2>3, <4>1 DEF Usable
      <4>3. u0 + 1 \in Nat /\ u0 <= u0 + 1
        OBVIOUS
      <4>4. Sound(r.model, u0 + 1)
        BY <4>2, <4>3, SoundMore
      <4> QED
        BY <4>1, <4>4
    <3>3. Usable(r, (used + k) + 1)
      BY <2>3, <3>2 DEF Usable
    <3> QED
      BY SMTT(30), <2>1, <2>3, <3>1, <3>3
  <2> QED
    BY <2>5, <2>6
<1> HIDE DEF S
<1>7. \A k \in 0 .. count : k \in S
  BY <1>5, <1>6, InductionUpTo
<1>8. count \in S
  BY <1>7
<1> QED
  BY <1>2, <1>3, <1>8 DEF S

----------------------------------------------------------------------------
(* The tokens of a chunk, on the writer's side.                            *)

RowOf(m) == m.rows[m.ctx]

\* The models and coders that a chunk's tokens go through.
Trail(M, E, toks, start) ==
  /\ toks \in Seq(Nat) /\ M[0] = start /\ E[0] = EncoderNew
  /\ \A k \in 1 .. Len(toks) :
       /\ toks[k] \in 0 .. start.n - 1
       /\ M[k] = Learn(M[k - 1], toks[k])
       /\ E[k] = EncodeStep(E[k - 1], Interval(RowOf(M[k - 1]), toks[k]))

\* All along a trail the models are sound, and each step can be undone.
LEMMA TrailFacts ==
  ASSUME NEW M, NEW E, NEW toks, NEW start, Trail(M, E, toks, start),
         NEW used \in Nat, Sound(start, used), MaxSyms + used + Len(toks) < Word
  PROVE  \A k \in 0 .. Len(toks) :
           /\ Sound(M[k], used + k) /\ M[k].n = start.n /\ M[k].mode = start.mode
           /\ M[k].base = start.base /\ M[k].log = start.log
           /\ E[k] \in TightCoder
           /\ k > 0 => /\ Part(Interval(RowOf(M[k - 1]), toks[k]))
                       /\ Unlearnt(M[k].rows, M[k - 1].ctx, toks[k]) = M[k - 1].rows
                       /\ M[k].ctx = CtxOf(start.mode, toks[k])
<1>1. PICK len \in Nat : len = Len(toks)
  BY DEF Trail
<1>2. MaxSyms \in Nat /\ Word \in Nat
  BY ModelAssumption, WordAssumption
<1> DEFINE S == {k \in Nat : /\ Sound(M[k], used + k) /\ M[k].n = start.n /\ M[k].mode = start.mode
                             /\ M[k].base = start.base /\ M[k].log = start.log
                             /\ E[k] \in TightCoder
                             /\ k > 0 => /\ Part(Interval(RowOf(M[k - 1]), toks[k]))
                                         /\ Unlearnt(M[k].rows, M[k - 1].ctx, toks[k]) = M[k - 1].rows
                                         /\ M[k].ctx = CtxOf(start.mode, toks[k])}
<1>3. 0 \in S
  <2>1. M[0] = start /\ E[0] = EncoderNew /\ used + 0 = used
    BY DEF Trail
  <2>2. E[0] \in TightCoder
    BY <2>1, EncoderNewTight
  <2>3. ~(0 > 0)
    OBVIOUS
  <2> QED
    BY <2>1, <2>2, <2>3
<1>4. ASSUME NEW k \in 0 .. len - 1, k \in S PROVE k + 1 \in S
  <2>1. PICK u \in Nat : u = used + k /\ MaxSyms + u + 1 < Word /\ used + (k + 1) = u + 1
    <3>1. k \in Nat /\ k + 1 <= len
      OBVIOUS
    <3>2. used + k \in Nat /\ MaxSyms + (used + k) + 1 < Word /\ used + (k + 1) = (used + k) + 1
      BY <1>1, <1>2, <3>1
    <3> QED
      BY <3>2
  <2>2. k + 1 \in 1 .. len /\ (k + 1) - 1 = k /\ k + 1 > 0 /\ k + 1 \in Nat
    OBVIOUS
  <2>3. PICK m, e, s : m = M[k] /\ e = E[k] /\ s = toks[k + 1]
    OBVIOUS
  <2>4. /\ Sound(m, u) /\ m.n = start.n /\ m.mode = start.mode /\ m.base = start.base
        /\ m.log = start.log /\ e \in TightCoder
    BY <1>4, <2>1, <2>3
  <2>5. s \in 0 .. m.n - 1 /\ M[k + 1] = Learn(m, s) /\ E[k + 1] = EncodeStep(e, Interval(RowOf(m), s))
    BY <1>1, <2>2, <2>3, <2>4 DEF Trail
  <2>6. PICK m2 : m2 = Learn(m, s)
    OBVIOUS
  <2>7. /\ Sound(m2, u + 1)
        /\ m2 = [n |-> m.n, base |-> m.base, mode |-> m.mode, rows |-> Learnt(m.rows, m.ctx, s),
                 ctx |-> CtxOf(m.mode, s), log |-> m.log]
        /\ Unlearnt(Learnt(m.rows, m.ctx, s), m.ctx, s) = m.rows
    BY <2>1, <2>4, <2>5, <2>6, LearnSound
  <2>8. /\ m2.n = m.n /\ m2.base = m.base /\ m2.mode = m.mode /\ m2.log = m.log
        /\ m2.ctx = CtxOf(m.mode, s)
        /\ Unlearnt(m2.rows, m.ctx, s) = m.rows
    BY <2>7
  <2>9. Part(Interval(RowOf(m), s))
    <3>1. Row(RowOf(m), m.n, MaxSyms)
      BY <2>4, SoundRow DEF RowOf
    <3> QED
      BY <2>5, <3>1, IntervalFacts
  <2>10. E[k + 1] \in TightCoder
    BY <2>4, <2>5, <2>9, EncodeType
  <2>11. Sound(M[k + 1], used + (k + 1))
    BY <2>1, <2>5, <2>6, <2>7
  <2>12. /\ Part(Interval(RowOf(M[(k + 1) - 1]), toks[k + 1]))
         /\ Unlearnt(M[k + 1].rows, M[(k + 1) - 1].ctx, toks[k + 1]) = M[(k + 1) - 1].rows
         /\ M[k + 1].ctx = CtxOf(start.mode, toks[k + 1])
    BY <2>2, <2>3, <2>4, <2>5, <2>6, <2>8, <2>9
  <2>13. /\ M[k + 1].n = start.n /\ M[k + 1].mode = start.mode
         /\ M[k + 1].base = start.base /\ M[k + 1].log = start.log
    BY <2>4, <2>5, <2>6, <2>8
  <2> QED
    BY <2>2, <2>10, <2>11, <2>12, <2>13
<1> HIDE DEF S
<1>5. \A k \in 0 .. len : k \in S
  BY <1>3, <1>4, InductionUpTo
<1> QED
  BY <1>1, <1>5 DEF S

\* One token more.
LEMMA TrailMore ==
  ASSUME NEW M, NEW E, NEW toks, NEW start, Trail(M, E, toks, start), start.n \in Nat,
         NEW s \in 0 .. start.n - 1
  PROVE  \E M2, E2 :
           /\ Trail(M2, E2, Append(toks, s), start)
           /\ \A k \in 0 .. Len(toks) : M2[k] = M[k] /\ E2[k] = E[k]
           /\ M2[Len(toks) + 1] = Learn(M[Len(toks)], s)
           /\ E2[Len(toks) + 1] = EncodeStep(E[Len(toks)], Interval(RowOf(M[Len(toks)]), s))
<1>1. PICK len \in Nat : len = Len(toks)
  BY DEF Trail
<1>2. PICK m, e : m = Learn(M[len], s) /\ e = EncodeStep(E[len], Interval(RowOf(M[len]), s))
  OBVIOUS
<1> DEFINE M2 == [k \in 0 .. len + 1 |-> IF k = len + 1 THEN m ELSE M[k]]
           E2 == [k \in 0 .. len + 1 |-> IF k = len + 1 THEN e ELSE E[k]]
<1>3. \A k \in 0 .. len : M2[k] = M[k] /\ E2[k] = E[k]
  BY <1>1
<1>4. M2[len + 1] = m /\ E2[len + 1] = e
  BY <1>1
<1> HIDE DEF M2, E2
<1>5. PICK t2 : t2 = Append(toks, s)
  OBVIOUS
<1>6. /\ t2 \in Seq(Nat) /\ Len(t2) = len + 1 /\ t2[len + 1] = s
      /\ \A k \in 1 .. len : t2[k] = toks[k]
  <2>1. s \in Nat /\ toks \in Seq(Nat)
    BY DEF Trail
  <2> QED
    BY <1>1, <1>5, <2>1
<1>7. M2[0] = start /\ E2[0] = EncoderNew
  <2>1. 0 \in 0 .. len
    BY <1>1
  <2> QED
    BY <1>3, <2>1 DEF Trail
<1>8. ASSUME NEW k \in 1 .. len + 1
      PROVE  /\ t2[k] \in 0 .. start.n - 1
             /\ M2[k] = Learn(M2[k - 1], t2[k])
             /\ E2[k] = EncodeStep(E2[k - 1], Interval(RowOf(M2[k - 1]), t2[k]))
  <2>1. CASE k = len + 1
    <3>1. k - 1 = len /\ len \in 0 .. len
      BY <1>1, <2>1
    <3>2. M2[k - 1] = M[len] /\ E2[k - 1] = E[len] /\ t2[k] = s
      BY <1>3, <1>6, <2>1, <3>1
    <3> QED
      BY <1>2, <1>4, <2>1, <3>2
  <2>2. CASE k # len + 1
    <3>1. k \in 1 .. len /\ k - 1 \in 0 .. len /\ k \in 0 .. len
      BY <1>1, <2>2
    <3>2. M2[k - 1] = M[k - 1] /\ E2[k - 1] = E[k - 1] /\ t2[k] = toks[k] /\ M2[k] = M[k] /\ E2[k] = E[k]
      BY <1>3, <1>6, <3>1
    <3> QED
      BY <1>1, <3>1, <3>2 DEF Trail
  <2> QED
    BY <2>1, <2>2
<1>9. Trail(M2, E2, t2, start)
  BY <1>6, <1>7, <1>8 DEF Trail
<1> QED
  BY <1>1, <1>2, <1>3, <1>4, <1>5, <1>9

\* A chunk that the coder can hold: no row ever outgrows the range.
Fits(M, E, toks, start, used) ==
  /\ Trail(M, E, toks, start) /\ used \in Nat /\ Sound(start, used)
  /\ MaxSyms + used + Len(toks) < Word /\ MaxSyms + used + Len(toks) <= Top

\* Along a trail that fits, the coders go through a chain.
LEMMA TrailChain ==
  ASSUME NEW M, NEW E, NEW toks, NEW start, NEW used, Fits(M, E, toks, start, used)
  PROVE  \E iv : /\ Chain(E, iv, Len(toks))
                 /\ \A k \in 1 .. Len(toks) : iv[k] = Interval(RowOf(M[k - 1]), toks[k])
<1>1. /\ Trail(M, E, toks, start) /\ used \in Nat /\ Sound(start, used)
      /\ MaxSyms + used + Len(toks) < Word /\ MaxSyms + used + Len(toks) <= Top
  BY DEF Fits
<1>2. PICK len \in Nat : len = Len(toks)
  BY <1>1 DEF Trail
<1>3. \A k \in 0 .. len :
           /\ Sound(M[k], used + k) /\ M[k].n = start.n
           /\ k > 0 => Part(Interval(RowOf(M[k - 1]), toks[k]))
  <2>1. MaxSyms + used + Len(toks) < Word
    BY <1>1
  <2>2. Trail(M, E, toks, start) /\ used \in Nat /\ Sound(start, used)
    BY <1>1
  <2>3. \A k \in 0 .. Len(toks) :
           /\ Sound(M[k], used + k) /\ M[k].n = start.n
           /\ k > 0 => Part(Interval(RowOf(M[k - 1]), toks[k]))
    BY ONLY <2>1, <2>2, TrailFacts
  <2> QED
    BY ONLY <1>2, <2>3
<1>4. PICK iv : \A k \in 1 .. len : iv[k] = Interval(RowOf(M[k - 1]), toks[k])
  <2> DEFINE f == [k \in 1 .. len |-> Interval(RowOf(M[k - 1]), toks[k])]
  <2>1. \A k \in 1 .. len : f[k] = Interval(RowOf(M[k - 1]), toks[k])
    OBVIOUS
  <2> QED
    BY <2>1
<1>5. ASSUME NEW k \in 1 .. len
      PROVE  Part(iv[k]) /\ iv[k].total <= Top /\ E[k] = EncodeStep(E[k - 1], iv[k])
  <2>1. k \in 0 .. len /\ k > 0 /\ k - 1 \in 0 .. len /\ k \in 1 .. Len(toks)
    BY <1>2
  <2>2. Part(iv[k]) /\ E[k] = EncodeStep(E[k - 1], iv[k])
    BY <1>1, <1>3, <1>4, <2>1 DEF Trail
  <2>3. PICK m, u : m = M[k - 1] /\ u = used + (k - 1)
    OBVIOUS
  <2>4. Sound(m, u) /\ u \in Nat
    BY <1>1, <1>3, <2>1, <2>3
  <2>5. iv[k].total \in Nat /\ iv[k].total <= m.n + u /\ m.n \in Nat /\ m.n <= MaxSyms
    <3>1. /\ m.rows[m.ctx].total \in Nat \ {0} /\ m.rows[m.ctx].total <= m.n + u
          /\ m.n \in Nat \ {0} /\ m.n <= MaxSyms
      BY ONLY <2>4, SoundRow
    <3>2. iv[k] = Interval(RowOf(m), toks[k])
      BY <1>4, <2>3
    <3>3. iv[k].total = m.rows[m.ctx].total
      BY <3>2 DEF RowOf, Interval
    <3> QED
      BY ONLY <3>1, <3>3
  <2>6. MaxSyms + used + len <= Top /\ Top \in Nat /\ MaxSyms \in Nat
    BY <1>1, <1>2, FullFacts, ModelAssumption
  <2>7. m.n + u <= Top
    BY <1>1, <1>2, <2>1, <2>3, <2>5, <2>6
  <2> QED
    BY <2>2, <2>4, <2>5, <2>6, <2>7
<1>6. Chain(E, iv, len)
  BY <1>1, <1>5 DEF Chain, Trail
<1> QED
  BY <1>2, <1>4, <1>6

\* All along a trail that fits, the range stays wide.
LEMMA TrailRanges ==
  ASSUME NEW M, NEW E, NEW toks, NEW start, NEW used, Fits(M, E, toks, start, used)
  PROVE  /\ \A k \in 0 .. Len(toks) : E[k].range >= Top
         /\ \A k \in 1 .. Len(toks) :
              \E u, w, j : CodedBy(E[k - 1], E[k], Interval(RowOf(M[k - 1]), toks[k]), u, w, j)
<1>1. PICK iv : /\ Chain(E, iv, Len(toks))
                /\ \A k \in 1 .. Len(toks) : iv[k] = Interval(RowOf(M[k - 1]), toks[k])
  BY TrailChain
<1>2. /\ \A k \in 0 .. Len(toks) : E[k].range >= Top
      /\ \A k \in 1 .. Len(toks) : \E u, w, j : CodedBy(E[k - 1], E[k], iv[k], u, w, j)
  BY <1>1, ChainFacts
<1> QED
  BY <1>1, <1>2

\* The flushed digits lie inside every coder of the trail.
LEMMA TrailInside ==
  ASSUME NEW M, NEW E, NEW toks, NEW start, NEW used, Fits(M, E, toks, start, used),
         NEW s, s = Flush(E[Len(toks)])
  PROVE  /\ s \in Seq(Digits) /\ Len(s) = Places(E[Len(toks)]) + Width
         /\ \A k \in 0 .. Len(toks) : Inside(s, E[k])
<1>1. PICK iv : Chain(E, iv, Len(toks))
  BY TrailChain
<1> QED
  BY <1>1, ChainInside

----------------------------------------------------------------------------
(* The tokens of a chunk, on the reader's side.                            *)

\* A reader in the middle of a block that has gone well so far.
ReaderAt(m, d, toks) == [model |-> m, coder |-> d, tokens |-> toks, ok |-> TRUE]

\* The record that a token leaves in place of a reader.
Moved(r, m, d, toks) == [r EXCEPT !.model = m, !.coder = d, !.tokens = toks]

\* A reader that moves on is still one that has gone well.
LEMMA ReaderMoves ==
  ASSUME NEW m, NEW d, NEW t, NEW m2, NEW d2, NEW t2, NEW r, r = ReaderAt(m, d, t), NEW v,
         v = Moved(r, m2, d2, t2)
  PROVE  v = ReaderAt(m2, d2, t2)
<1>1. PICK S : S = {m, d, t, m2, d2, t2, TRUE}
  OBVIOUS
<1>3. /\ r \in [model : S, coder : S, tokens : S, ok : S] /\ r.ok = TRUE
      /\ m2 \in S /\ d2 \in S /\ t2 \in S /\ TRUE \in S
  BY <1>1 DEF ReaderAt
<1>5. PICK w : w = [model |-> m2, coder |-> d2, tokens |-> t2, ok |-> TRUE]
  OBVIOUS
<1>6. /\ v \in [model : S, coder : S, tokens : S, ok : S]
      /\ v.model = m2 /\ v.coder = d2 /\ v.tokens = t2 /\ v.ok = TRUE
  BY <1>3 DEF Moved
<1>7. /\ w \in [model : S, coder : S, tokens : S, ok : S]
      /\ w.model = m2 /\ w.coder = d2 /\ w.tokens = t2 /\ w.ok = TRUE
  BY <1>3, <1>5
<1>8. \A p, q \in [model : S, coder : S, tokens : S, ok : S] :
        p.model = q.model /\ p.coder = q.coder /\ p.tokens = q.tokens /\ p.ok = q.ok => p = q
  OBVIOUS
<1>9. v = w
  BY <1>6, <1>7, <1>8
<1> QED
  BY <1>5, <1>9 DEF ReaderAt

\* What the writer coded and the reader holds before a token is decoded, and what the
\* token leaves.
Decodable(m, used, e, e2, s, u, w, j, blob, d) ==
  /\ used \in Nat /\ Sound(m, used) /\ e \in TightCoder /\ s \in 0 .. m.n - 1
  /\ CodedBy(e, e2, Interval(RowOf(m), s), u, w, j)
  /\ blob \in Seq(Digits) /\ Inside(blob, e2) /\ Tracks(d, blob, e)

DecodedTo(m, s, e2, blob, d, toks) ==
  \E d2 : /\ Tracks(d2, blob, e2)
          /\ DecodeToken(ReaderAt(m, d, toks)) = ReaderAt(Learn(m, s), d2, Append(toks, s))

\* A reader at the writer's place decodes the writer's token and moves with it.
LEMMA DecodesOne ==
  ASSUME NEW m, NEW used, NEW e, NEW e2, NEW s, NEW u, NEW w, NEW j, NEW blob, NEW d,
         Decodable(m, used, e, e2, s, u, w, j, blob, d), NEW toks
  PROVE  DecodedTo(m, s, e2, blob, d, toks)
<1> SUFFICES ASSUME used \in Nat, Sound(m, used), e \in TightCoder, s \in 0 .. m.n - 1,
                    CodedBy(e, e2, Interval(RowOf(m), s), u, w, j),
                    blob \in Seq(Digits), Inside(blob, e2), Tracks(d, blob, e)
             PROVE  \E d2 : /\ Tracks(d2, blob, e2)
                            /\ DecodeToken(ReaderAt(m, d, toks))
                                 = ReaderAt(Learn(m, s), d2, Append(toks, s))
  BY DEF Decodable, DecodedTo
<1>1. PICK t, th : t = RowOf(m) /\ th = Threshold(d, t.total)
  OBVIOUS
<1>2. Row(t, m.n, MaxSyms) /\ t.total \in Nat \ {0} /\ m.n \in Nat \ {0}
  BY <1>1, SoundRow DEF RowOf
<1>3. Meets(d, blob, t, m.n, MaxSyms, s, e, e2, u, w, j)
  BY <1>1, <1>2 DEF Meets
<1>4. PICK d2 : d2 = DecodeStep(Scale(d, t.total), Interval(t, s))
  OBVIOUS
<1>5. th \in Nat /\ th < t.total /\ FindGt(t.tree, th) = s /\ Tracks(d2, blob, e2)
  BY <1>1, <1>3, <1>4, SymbolTracks
<1>6. DecodeToken(ReaderAt(m, d, toks)) = ReaderAt(Learn(m, s), d2, Append(toks, s))
  <2>0. PICK r : r = ReaderAt(m, d, toks)
    OBVIOUS
  <2>1. ~(th >= t.total \/ s >= m.n)
    BY <1>2, <1>5
  <2>2. /\ r.model.rows[r.model.ctx] = t /\ r.coder = d /\ r.tokens = toks /\ r.model = m
        /\ r = [model |-> m, coder |-> d, tokens |-> toks, ok |-> TRUE]
    BY <1>1, <2>0 DEF RowOf, ReaderAt
  <2>3. DecodeToken(r) = [r EXCEPT !.model = Learn(@, s),
                                   !.coder = DecodeStep(Scale(@, t.total), Interval(t, s)),
                                   !.tokens = Append(@, s)]
    BY <1>1, <1>5, <2>1, <2>2 DEF DecodeToken
  <2>4. PICK m2, ts2 : m2 = Learn(m, s) /\ ts2 = Append(toks, s)
    OBVIOUS
  <2>5. PICK v : v = DecodeToken(r) /\ v = Moved(r, m2, d2, ts2)
    BY <1>4, <2>2, <2>3, <2>4 DEF Moved
  <2>6. v = ReaderAt(m2, d2, ts2)
    BY ONLY <2>0, <2>5, ReaderMoves
  <2> QED
    BY <2>0, <2>4, <2>5, <2>6
<1> QED
  BY <1>5, <1>6

\* A block read from the model its chunk was coded with gives the chunk's tokens, leaves
\* the model where the writer's was, and uses every digit.
LEMMA BlockDecodes ==
  ASSUME NEW M, NEW E, NEW toks, NEW start, NEW used, Fits(M, E, toks, start, used),
         NEW m, NEW new, start = Grow(BeginChunk(m), m.n + new),
         NEW blob, blob = Flush(E[Len(toks)])
  PROVE  \E d : /\ DecodeBlock(m, new, Len(toks), blob)
                     = ReaderAt(M[Len(toks)], d, toks)
                /\ d.pos = Len(blob)
<1>1. /\ Trail(M, E, toks, start) /\ used \in Nat /\ Sound(start, used)
      /\ MaxSyms + used + Len(toks) < Word
  BY DEF Fits
<1>2. PICK len \in Nat : len = Len(toks)
  BY <1>1 DEF Trail
<1>3. /\ blob \in Seq(Digits) /\ Len(blob) = Places(E[len]) + Width
      /\ \A k \in 0 .. len : Inside(blob, E[k])
  BY <1>2, TrailInside
<1>4. \A k \in 0 .. len : /\ Sound(M[k], used + k) /\ M[k].n = start.n /\ E[k] \in TightCoder
  BY <1>1, <1>2, TrailFacts
<1>5. \A k \in 1 .. len :
        \E u, w, j : CodedBy(E[k - 1], E[k], Interval(RowOf(M[k - 1]), toks[k]), u, w, j)
  BY <1>2, TrailRanges
<1>6. PICK f : BlockRuns(f, m, new, len, blob)
  BY BlockRunning
<1>7. /\ f[0] = BlockStart(m, new, blob)
      /\ \A k \in 1 .. len : f[k] = BlockStep(f[k - 1])
      /\ DecodeBlock(m, new, len, blob) = f[len]
  BY <1>6 DEF BlockRuns
<1> DEFINE P(k) == \E d : /\ f[k] = ReaderAt(M[k], d, SubSeq(toks, 1, k))
                          /\ Tracks(d, blob, E[k])
           S == {k \in Nat : P(k)}
<1>8. 0 \in S
  <2>1. PICK d : d = DecoderNew(blob)
    OBVIOUS
  <2>2. M[0] = start /\ E[0] = EncoderNew
    BY <1>1 DEF Trail
  <2>3. Inside(blob, E[0])
    BY <1>3
  <2>4. Tracks(d, blob, E[0])
    BY <1>3, <2>1, <2>2, <2>3, NewTracks
  <2>5. SubSeq(toks, 1, 0) = <<>>
    BY <1>1 DEF Trail
  <2>6. f[0] = ReaderAt(M[0], d, SubSeq(toks, 1, 0))
    BY <1>7, <2>1, <2>2, <2>5 DEF BlockStart, ReaderAt
  <2> QED
    BY <2>4, <2>6
<1>9. ASSUME NEW k \in 0 .. len - 1, k \in S PROVE k + 1 \in S
  <2>1. k \in Nat /\ k + 1 \in 1 .. len /\ (k + 1) - 1 = k /\ k \in 0 .. len /\ k + 1 \in 0 .. len
    OBVIOUS
  <2>2. PICK d : /\ f[k] = ReaderAt(M[k], d, SubSeq(toks, 1, k))
                 /\ Tracks(d, blob, E[k])
    BY <1>9
  <2>3. PICK mk, e, e2, s, ts, uk : /\ mk = M[k] /\ e = E[k] /\ e2 = E[k + 1] /\ s = toks[k + 1]
                                    /\ ts = SubSeq(toks, 1, k) /\ uk = used + k
    OBVIOUS
  <2>4. PICK u, w, j : CodedBy(e, e2, Interval(RowOf(mk), s), u, w, j)
    <3>1. \E u, w, j : CodedBy(E[(k + 1) - 1], E[k + 1], Interval(RowOf(M[(k + 1) - 1]), toks[k + 1]), u, w, j)
      BY <1>5, <2>1
    <3> QED
      BY <2>1, <2>3, <3>1
  <2>5. uk \in Nat /\ Sound(mk, uk) /\ e \in TightCoder /\ Inside(blob, e2) /\ mk.n = start.n
    BY <1>1, <1>3, <1>4, <2>1, <2>3
  <2> HIDE DEF P
  <2>6. s \in 0 .. mk.n - 1 /\ M[k + 1] = Learn(mk, s)
    BY <1>1, <1>2, <2>1, <2>3, <2>5 DEF Trail
  <2>7. PICK d2 : /\ Tracks(d2, blob, e2)
                  /\ DecodeToken(f[k]) = ReaderAt(Learn(mk, s), d2, Append(ts, s))
    <3>1. f[k] = ReaderAt(mk, d, ts)
      BY <2>2, <2>3
    <3>2. Tracks(d, blob, e) /\ blob \in Seq(Digits)
      BY <1>3, <2>2, <2>3
    <3>3. \E d2 : /\ Tracks(d2, blob, e2)
                  /\ DecodeToken(ReaderAt(mk, d, ts)) = ReaderAt(Learn(mk, s), d2, Append(ts, s))
      <4>1. uk \in Nat
        BY <2>5
      <4>2. Sound(mk, uk)
        BY <2>5
      <4>3. e \in TightCoder
        BY <2>5
      <4>4. s \in 0 .. mk.n - 1
        BY <2>6
      <4>5. CodedBy(e, e2, Interval(RowOf(mk), s), u, w, j)
        BY <2>4
      <4>6. blob \in Seq(Digits)
        BY <3>2
      <4>7. Inside(blob, e2)
        BY <2>5
      <4>8. Tracks(d, blob, e)
        BY <3>2
      <4>9. Decodable(mk, uk, e, e2, s, u, w, j, blob, d)
        BY ONLY <4>1, <4>2, <4>3, <4>4, <4>5, <4>6, <4>7, <4>8 DEF Decodable
      <4>10. DecodedTo(mk, s, e2, blob, d, ts)
        BY ONLY <4>9, DecodesOne
      <4> QED
        BY ONLY <4>10 DEF DecodedTo
    <3> QED
      BY <3>1, <3>3
  <2>8. f[k + 1] = DecodeToken(f[k])
    <3>1. f[k].ok
      BY <2>2 DEF ReaderAt
    <3> QED
      BY <1>7, <2>1, <3>1 DEF BlockStep
  <2>9. Append(ts, s) = SubSeq(toks, 1, k + 1)
    <3>1. toks \in Seq(Nat)
      BY <1>1 DEF Trail
    <3> QED
      BY <1>2, <2>1, <2>3, <3>1
  <2>10. f[k + 1] = ReaderAt(M[k + 1], d2, SubSeq(toks, 1, k + 1))
    BY <2>6, <2>7, <2>8, <2>9
  <2>11. Tracks(d2, blob, E[k + 1])
    BY <2>3, <2>7
  <2>12. P(k + 1)
    BY <2>10, <2>11 DEF P
  <2> QED
    BY <2>1, <2>12
<1> HIDE DEF S
<1>10. \A k \in 0 .. len : k \in S
  BY <1>8, <1>9, InductionUpTo
<1>11. PICK d : /\ f[len] = ReaderAt(M[len], d, SubSeq(toks, 1, len))
                /\ Tracks(d, blob, E[len])
  <2>1. len \in S
    BY <1>10
  <2> QED
    BY <2>1 DEF S
<1>12. SubSeq(toks, 1, len) = toks
  BY <1>1, <1>2 DEF Trail
<1>13. d.pos = Len(blob)
  BY <1>3, <1>11 DEF Tracks
<1> QED
  BY <1>2, <1>7, <1>11, <1>12, <1>13

----------------------------------------------------------------------------
(* What the two sides share.                                               *)

\* Models that differ at most in their row, their log and their rollback point.
Same(m1, m2) == m1.n = m2.n /\ m1.mode = m2.mode /\ m1.rows = m2.rows

\* A chunk begins in the same way from either.
LEMMA SameStart ==
  ASSUME NEW m1, NEW m2, NEW u1 \in Nat, NEW u2 \in Nat, Sound(m1, u1), Sound(m2, u2), Same(m1, m2),
         NEW new \in Nat, m1.n + new <= MaxSyms, MaxSyms + u1 < Word, MaxSyms + u2 < Word
  PROVE  Grow(BeginChunk(m1), m1.n + new) = Grow(BeginChunk(m2), m2.n + new)
<1>1. PICK g1, g2 : g1 = Grow(BeginChunk(m1), m1.n + new) /\ g2 = Grow(BeginChunk(m2), m2.n + new)
  OBVIOUS
<1>2. Ready(g1, m1, m1.n + new)
  BY <1>1, BeginSound
<1>3. m2.n + new <= MaxSyms
  BY DEF Same
<1>4. Ready(g2, m2, m2.n + new)
  BY <1>1, <1>3, BeginSound
<1>5. g1 = g2
  BY <1>2, <1>4 DEF Ready, Same
<1> QED
  BY <1>1, <1>5

\* Shrinking keeps models the same.
LEMMA SameShrink ==
  ASSUME NEW m1, NEW m2, NEW u1, NEW u2, Sound(m1, u1), Sound(m2, u2), Same(m1, m2), NEW n2 \in Nat
  PROVE  Same(ShrinkAlphabet(m1, n2), ShrinkAlphabet(m2, n2))
<1>1. CASE n2 >= m1.n
  <2>1. ShrinkAlphabet(m1, n2) = m1 /\ ShrinkAlphabet(m2, n2) = m2
    BY <1>1 DEF ShrinkAlphabet, Same
  <2> QED
    BY <2>1
<1>2. CASE ~(n2 >= m1.n)
  <2>1. PICK r1, r2 : /\ r1 = [c \in DOMAIN m1.rows |-> ShrinkRow(m1.rows[c], n2)]
                      /\ r2 = [c \in DOMAIN m2.rows |-> ShrinkRow(m2.rows[c], n2)]
    OBVIOUS
  <2>2. r1 = r2
    BY <2>1 DEF Same
  <2>3. /\ ShrinkAlphabet(m1, n2) = [m1 EXCEPT !.n = n2, !.rows = r1]
        /\ ShrinkAlphabet(m2, n2) = [m2 EXCEPT !.n = n2, !.rows = r2]
    BY <1>2, <2>1 DEF ShrinkAlphabet, Same, Rows
  <2>4. \A m : m = [n |-> m.n, base |-> m.base, mode |-> m.mode, rows |-> m.rows,
                    ctx |-> m.ctx, log |-> m.log]
               => \A r : /\ [m EXCEPT !.n = n2, !.rows = r].n = n2
                         /\ [m EXCEPT !.n = n2, !.rows = r].mode = m.mode
                         /\ [m EXCEPT !.n = n2, !.rows = r].rows = r
    OBVIOUS
  <2>5. \A m, u : Sound(m, u) => m = [n |-> m.n, base |-> m.base, mode |-> m.mode, rows |-> m.rows,
                                      ctx |-> m.ctx, log |-> m.log]
    BY DEF Sound
  <2> QED
    BY <2>2, <2>3, <2>4, <2>5 DEF Same
<1> QED
  BY <1>1, <1>2

\* What i records have added to a row's total, at most.
Spent(i) == i * MaxTokens

\* The bound on the totals, record by record, stays below a word.
LEMMA SpentFacts ==
  /\ \A i \in Nat : Spent(i) \in Nat /\ Spent(i + 1) = Spent(i) + MaxTokens
  /\ \A i \in 0 .. MaxRecords : MaxSyms + Spent(i) < Word
  /\ \A i \in 0 .. MaxRecords - 1 : /\ MaxSyms + (Spent(i) + MaxTokens) < Word
                                    /\ Spent(i) + MaxTokens <= Spent(MaxRecords)
  /\ Spent(0) = 0
<1>1. /\ MaxRecords \in Nat /\ MaxTokens \in Nat /\ MaxSyms \in Nat /\ Word \in Nat
  BY BoundsAssumption, ModelAssumption, WordAssumption
<1>2. \A a, b, c \in Nat : a <= b => a * c <= b * c
  OBVIOUS
<1>3. \A a, c \in Nat : a * c \in Nat /\ (a + 1) * c = a * c + c /\ 0 * c = 0
  OBVIOUS
<1>4. \A i \in Nat : Spent(i) \in Nat /\ Spent(i + 1) = Spent(i) + MaxTokens
  BY <1>1, <1>3 DEF Spent
<1>5. \A i \in 0 .. MaxRecords : Spent(i) <= Spent(MaxRecords)
  BY <1>1, <1>2 DEF Spent
<1>6. MaxSyms + Spent(MaxRecords) < Word
  BY TreesFit DEF Spent
<1>7. \A i \in 0 .. MaxRecords : MaxSyms + Spent(i) < Word
  <2> TAKE i \in 0 .. MaxRecords
  <2>1. Spent(i) \in Nat /\ Spent(MaxRecords) \in Nat /\ Spent(i) <= Spent(MaxRecords)
    BY <1>1, <1>4, <1>5
  <2> QED
    BY <1>1, <1>6, <2>1
<1>8. \A i \in 0 .. MaxRecords - 1 : /\ MaxSyms + (Spent(i) + MaxTokens) < Word
                                     /\ Spent(i) + MaxTokens <= Spent(MaxRecords)
  <2> TAKE i \in 0 .. MaxRecords - 1
  <2>1. i + 1 \in 0 .. MaxRecords /\ i \in Nat
    BY <1>1
  <2>2. Spent(i + 1) = Spent(i) + MaxTokens
    BY <1>4, <2>1
  <2> QED
    BY <1>5, <1>7, <2>1, <2>2
<1>9. Spent(0) = 0
  BY <1>1, <1>3 DEF Spent
<1> QED
  BY <1>4, <1>7, <1>8, <1>9

----------------------------------------------------------------------------
(* The inductive invariant.  B[i] is the model that the writer had         *)
(* committed after record i.                                               *)

Record == [kind : {"G"}, new : Nat, count : Nat, blob : Seq(Digits), sent : Seq(Nat)]
            \cup [kind : {"GC"}, n2 : Nat]

\* Record rec takes the committed model b to b2.
Codes(rec, b, b2, M, E) ==
  /\ b.n + rec.new <= MaxSyms /\ rec.count = Len(rec.sent) /\ rec.count <= MaxTokens
  /\ Trail(M, E, rec.sent, Grow(BeginChunk(b), b.n + rec.new))
  /\ rec.blob = Flush(E[rec.count]) /\ Same(b2, M[rec.count])

Leads(rec, b, b2) ==
  \/ rec.kind = "G" /\ \E M, E : Codes(rec, b, b2, M, E)
  \/ rec.kind = "GC" /\ rec.n2 \in NLit .. b.n /\ Same(b2, ShrinkAlphabet(b, rec.n2))

\* The archive, and what the writer has committed.
Archive(B) ==
  /\ records \in Seq(Record) /\ Len(records) <= MaxRecords
  /\ \A i \in 0 .. Len(records) : Sound(B[i], Spent(i))
  /\ \A i \in 1 .. Len(records) : Leads(records[i], B[i - 1], B[i])
  /\ Sound(before, Spent(Len(records))) /\ Same(before, B[Len(records)])

\* An attempt: the tokens so far lead from the committed model to the live one, and the log
\* leads back.
Attempted(M, E) ==
  /\ Trail(M, E, attempt, Grow(BeginChunk(before), Model.n))
  /\ Same(Model, M[Len(attempt)]) /\ Model.ctx = M[Len(attempt)].ctx
  /\ writer.coder = E[Len(attempt)]
  /\ Len(Model.log) = Len(attempt)
  /\ \A k \in 1 .. Len(attempt) : /\ Model.log[k].ctx = M[k - 1].ctx
                                  /\ Model.log[k].sym = attempt[k]

Writing ==
  /\ writer = [model |-> writer.model, coder |-> writer.coder]
  /\ writer.coder \in TightCoder /\ open \in BOOLEAN
  /\ attempt \in Seq(Nat) /\ Len(attempt) <= MaxTokens
  /\ Sound(Model, Spent(Len(records)) + Len(attempt))
  /\ ~open => attempt = <<>> /\ Model = before
  /\ open => /\ Len(records) < MaxRecords /\ before.n <= Model.n /\ Model.base = before.n
             /\ \E M, E : Attempted(M, E)

\* The reader has the committed model's alphabet, whatever it made of the blocks.
Reading(B) ==
  /\ read \in 0 .. Len(records)
  /\ Usable(reader, Spent(read))
  /\ reader.model.n = B[read].n /\ reader.model.mode = B[read].mode

Coding(B) == Archive(B) /\ Writing /\ Reading(B)

\* The invariant holds at the start, with both sides in step.
LEMMA CodingStarts == Init => \E B : Coding(B) /\ Same(reader.model, B[0]) /\ reader.ok
<1> SUFFICES ASSUME Init PROVE \E B : Coding(B) /\ Same(reader.model, B[0]) /\ reader.ok
  OBVIOUS
<1>1. PICK mode \in Modes : before = NewModel(NLit, mode)
  BY DEF Init
<1>2. PICK B : B = [i \in {0} |-> before]
  OBVIOUS
<1>3. /\ MaxRecords \in Nat /\ MaxTokens \in Nat /\ MaxSyms \in Nat /\ Word \in Nat /\ NLit \in Nat
  BY BoundsAssumption, ModelAssumption, WordAssumption
<1>4. Spent(0) = 0 /\ MaxSyms < Word
  <2>1. 0 \in 0 .. MaxRecords
    BY <1>3
  <2>2. MaxSyms + Spent(0) < Word /\ Spent(0) = 0
    BY <2>1, SpentFacts
  <2> QED
    BY <1>3, <2>2
<1>5. Sound(before, 0)
  BY <1>1, <1>4, NewSound
<1>6. /\ records = <<>> /\ read = 0 /\ ~open /\ open \in BOOLEAN /\ attempt = <<>>
      /\ writer = [model |-> before, coder |-> EncoderNew]
      /\ reader = [model |-> before, coder |-> DecoderNew(<<>>), tokens |-> <<>>, ok |-> TRUE]
  BY DEF Init
<1>7. Len(records) = 0 /\ records \in Seq(Record) /\ Len(attempt) = 0 /\ attempt \in Seq(Nat)
  BY <1>6
<1>8. B[0] = before
  BY <1>2
<1>9. Archive(B)
  <2>1. \A i \in 0 .. Len(records) : i = 0
    BY <1>7
  <2>2. \A i \in 1 .. Len(records) : FALSE
    BY <1>7
  <2> QED
    BY <1>3, <1>4, <1>5, <1>7, <1>8, <2>1, <2>2 DEF Archive, Same
<1>10. Writing
  <2>1. writer.model = before /\ writer.coder = EncoderNew
        /\ writer = [model |-> writer.model, coder |-> writer.coder]
    BY <1>6
  <2>2. Model = before
    BY <2>1 DEF Model
  <2>3. Spent(Len(records)) + Len(attempt) = 0
    BY <1>4, <1>7
  <2> QED
    BY <1>3, <1>5, <1>6, <1>7, <2>1, <2>2, <2>3, EncoderNewTight DEF Writing
<1>11. Reading(B) /\ Same(reader.model, B[0]) /\ reader.ok
  <2>1. /\ reader.model = before /\ reader.coder = DecoderNew(<<>>) /\ reader.ok
        /\ reader = [model |-> reader.model, coder |-> reader.coder, tokens |-> reader.tokens, ok |-> reader.ok]
        /\ reader.ok \in BOOLEAN
    BY <1>6
  <2>2. <<>> \in Seq(Digits)
    OBVIOUS
  <2>3. DecoderNew(<<>>) \in Decoder
    BY <2>2, DecoderNewType
  <2> QED
    BY <1>4, <1>5, <1>6, <1>7, <1>8, <2>1, <2>3 DEF Reading, Usable, Same
<1> QED
  BY <1>9, <1>10, <1>11 DEF Coding

\* What stays when an action leaves the archive or the reader alone.
LEMMA ArchiveStays ==
  ASSUME NEW B, Archive(B), UNCHANGED <<before, records>>
  PROVE  Archive(B)'
BY DEF Archive

\* The reader's part stays when only the archive grows.
LEMMA ReadingStays ==
  ASSUME NEW B, NEW B2, Reading(B), Len(records) \in Nat, Len(records') \in Nat,
         Len(records') >= Len(records), \A i \in 0 .. Len(records) : B2[i] = B[i],
         UNCHANGED <<reader, read>>
  PROVE  Reading(B2)'
<1>1. read' = read /\ reader' = reader /\ read \in 0 .. Len(records)
  BY DEF Reading
<1>2. read \in 0 .. Len(records') /\ B2[read] = B[read]
  BY <1>1
<1> QED
  BY <1>1, <1>2 DEF Reading

\* The bounds that an archive gives its writer.
LEMMA ArchiveFacts ==
  ASSUME NEW B, Archive(B)
  PROVE  /\ Len(records) \in Nat /\ Len(records) \in 0 .. MaxRecords
         /\ Spent(Len(records)) \in Nat /\ MaxSyms + Spent(Len(records)) < Word
         /\ Sound(before, Spent(Len(records)))
         /\ before.n \in NLit .. MaxSyms /\ before.n \in Nat
         /\ Len(records) < MaxRecords => /\ MaxSyms + (Spent(Len(records)) + MaxTokens) < Word
                                         /\ Spent(Len(records)) + MaxTokens <= Spent(MaxRecords)
<1>1. /\ MaxRecords \in Nat /\ MaxTokens \in Nat /\ MaxSyms \in Nat /\ NLit \in Nat
  BY BoundsAssumption, ModelAssumption
<1>2. PICK len : len = Len(records)
  OBVIOUS
<1>3. len \in Nat /\ len <= MaxRecords /\ Sound(before, Spent(len))
  BY <1>2 DEF Archive
<1>4. len \in 0 .. MaxRecords /\ (len < MaxRecords => len \in 0 .. MaxRecords - 1)
  BY <1>1, <1>3
<1>5. Spent(len) \in Nat /\ MaxSyms + Spent(len) < Word
  BY <1>3, <1>4, SpentFacts
<1>6. len < MaxRecords => /\ MaxSyms + (Spent(len) + MaxTokens) < Word
                          /\ Spent(len) + MaxTokens <= Spent(MaxRecords)
  BY <1>4, SpentFacts
<1>7. before.n \in NLit .. MaxSyms /\ before.n \in Nat
  BY <1>1, <1>3 DEF Sound
<1> QED
  BY <1>2, <1>3, <1>4, <1>5, <1>6, <1>7

\* Opening an attempt keeps the invariant.
LEMMA OpenKeeps ==
  ASSUME NEW B, Coding(B), NEW new \in 0 .. MaxNew, OpenAttempt(new)
  PROVE  Coding(B)'
<1>1. /\ ~open /\ Len(records) < MaxRecords /\ Model.n + new <= MaxSyms
      /\ writer' = [model |-> Grow(BeginChunk(Model), Model.n + new), coder |-> EncoderNew]
      /\ open' = TRUE /\ attempt' = <<>> /\ UNCHANGED <<before, records, reader, read>>
  BY DEF OpenAttempt
<1>2. Archive(B) /\ Writing /\ Reading(B) /\ Model = before
  BY <1>1 DEF Coding, Writing
<1>3. Archive(B)' /\ Reading(B)'
  <2>1. Len(records) \in Nat /\ Len(records') = Len(records)
    BY <1>1, <1>2, ArchiveFacts
  <2>2. Archive(B)'
    BY <1>1, <1>2, ArchiveStays
  <2>3. Reading(B)'
    BY <1>1, <1>2, <2>1, ReadingStays
  <2> QED
    BY <2>2, <2>3
<1>4. PICK sp, n2, start : /\ sp = Spent(Len(records)) /\ n2 = before.n + new
                           /\ start = Grow(BeginChunk(before), n2)
  OBVIOUS
<1>5. /\ sp \in Nat /\ Sound(before, sp) /\ MaxSyms + sp < Word /\ new \in Nat
      /\ before.n + new <= MaxSyms /\ before.n \in Nat /\ n2 \in Nat /\ before.n <= n2
  <2>1. new \in Nat
    BY BoundsAssumption
  <2> QED
    BY <1>1, <1>2, <1>4, <2>1, ArchiveFacts
<1>6. Sound(start, sp) /\ Ready(start, before, n2)
  BY <1>4, <1>5, BeginSound
<1>7. start.n = n2 /\ start.base = before.n /\ start.log = <<>>
  BY <1>6 DEF Ready
<1>8. /\ writer' = [model |-> start, coder |-> EncoderNew] /\ writer'.model = start
      /\ writer'.coder = EncoderNew
  BY <1>1, <1>2, <1>4
<1>9. Model' = start
  BY <1>8 DEF Model
<1>10. PICK M, E : M = [k \in {0} |-> start] /\ E = [k \in {0} |-> EncoderNew]
  OBVIOUS
<1>11. M[0] = start /\ E[0] = EncoderNew /\ Len(attempt') = 0 /\ attempt' \in Seq(Nat)
  BY <1>1, <1>10
<1>12. \A k \in 1 .. Len(attempt') : FALSE
  BY <1>11
<1>13. Grow(BeginChunk(before), start.n) = start
  BY <1>4, <1>7
<1>14. Trail(M, E, attempt', start)
  BY <1>11, <1>12 DEF Trail
<1>15. Attempted(M, E)'
  <2>1. Trail(M, E, attempt', Grow(BeginChunk(before'), Model'.n))
    BY <1>1, <1>9, <1>13, <1>14
  <2>2. Same(Model', M[Len(attempt')]) /\ Model'.ctx = M[Len(attempt')].ctx
    BY <1>9, <1>11 DEF Same
  <2>3. writer'.coder = E[Len(attempt')] /\ Len(Model'.log) = Len(attempt')
    BY <1>1, <1>7, <1>8, <1>9, <1>11
  <2> QED
    BY <1>12, <2>1, <2>2, <2>3 DEF Attempted
<1>16. Writing'
  <2>1. writer' = [model |-> writer'.model, coder |-> writer'.coder] /\ writer'.coder \in TightCoder
    BY <1>8, EncoderNewTight
  <2>2. Len(attempt') <= MaxTokens /\ attempt' \in Seq(Nat)
    BY <1>11, BoundsAssumption
  <2>3. Sound(Model', Spent(Len(records')) + Len(attempt'))
    <3>1. Spent(Len(records')) + Len(attempt') = sp
      BY <1>1, <1>4, <1>5, <1>11
    <3> QED
      BY <1>6, <1>9, <3>1
  <2>4. Len(records') < MaxRecords /\ before'.n <= Model'.n /\ Model'.base = before'.n
    BY <1>1, <1>5, <1>7, <1>9
  <2>5. open' \in BOOLEAN /\ open'
    BY <1>1
  <2> QED
    BY <1>15, <2>1, <2>2, <2>3, <2>4, <2>5 DEF Writing
<1> QED
  BY <1>3, <1>16 DEF Coding

\* A model with one more token in its log.
LEMMA LoggedFacts ==
  ASSUME NEW m, m = [n |-> m.n, base |-> m.base, mode |-> m.mode, rows |-> m.rows,
                     ctx |-> m.ctx, log |-> m.log], NEW log
  PROVE  \A g : g = [m EXCEPT !.log = log]
                 => g = [n |-> m.n, base |-> m.base, mode |-> m.mode, rows |-> m.rows,
                         ctx |-> m.ctx, log |-> log]
<1> TAKE g
<1> SUFFICES ASSUME g = [m EXCEPT !.log = log]
             PROVE  g = [n |-> m.n, base |-> m.base, mode |-> m.mode, rows |-> m.rows,
                         ctx |-> m.ctx, log |-> log]
  OBVIOUS
<1>1. PICK S : S = {m.n, m.base, m.mode, m.rows, m.ctx, m.log, log}
  OBVIOUS
<1>2. m \in [n : S, base : S, mode : S, rows : S, ctx : S, log : S] /\ log \in S
  BY <1>1
<1>3. PICK w : w = [n |-> m.n, base |-> m.base, mode |-> m.mode, rows |-> m.rows, ctx |-> m.ctx, log |-> log]
  OBVIOUS
<1>4. /\ g \in [n : S, base : S, mode : S, rows : S, ctx : S, log : S]
      /\ g.n = m.n /\ g.base = m.base /\ g.mode = m.mode /\ g.rows = m.rows /\ g.ctx = m.ctx /\ g.log = log
  BY <1>2
<1>5. w \in [n : S, base : S, mode : S, rows : S, ctx : S, log : S]
  BY <1>2, <1>3
<1>6. w.n = m.n /\ w.base = m.base /\ w.mode = m.mode /\ w.rows = m.rows /\ w.ctx = m.ctx /\ w.log = log
  BY <1>3
<1>7. \A p, q \in [n : S, base : S, mode : S, rows : S, ctx : S, log : S] :
        p.n = q.n /\ p.base = q.base /\ p.mode = q.mode /\ p.rows = q.rows /\ p.ctx = q.ctx /\ p.log = q.log
          => p = q
  OBVIOUS
<1>8. g = w
  BY <1>4, <1>5, <1>6, <1>7
<1> QED
  BY <1>3, <1>8

\* Coding a token, with its log entry.
Entry(c, s) == [ctx |-> c, sym |-> s]

LogsToken(g, m, s) ==
  /\ g.n = m.n /\ g.base = m.base /\ g.mode = m.mode /\ g.rows = Learnt(m.rows, m.ctx, s)
  /\ g.ctx = CtxOf(m.mode, s) /\ g.log = Append(m.log, Entry(m.ctx, s))

\* Coding a token logs it and keeps the model sound.
LEMMA EncodeTokenFacts ==
  ASSUME NEW w, NEW m, m = w.model, NEW used, used \in Nat, Sound(m, used),
         NEW s, s \in 0 .. m.n - 1, MaxSyms + used + 1 < Word, NEW g, g = EncodeToken(w, s).model
  PROVE  Sound(g, used + 1) /\ LogsToken(g, m, s)
<1>1. PICK l, log : l = Learn(m, s) /\ log = Append(m.log, Entry(m.ctx, s))
  OBVIOUS
<1>2. /\ Sound(l, used + 1)
      /\ l = [n |-> m.n, base |-> m.base, mode |-> m.mode, rows |-> Learnt(m.rows, m.ctx, s),
              ctx |-> CtxOf(m.mode, s), log |-> m.log]
  BY <1>1, LearnSound
<1>3. /\ l.n = m.n /\ l.base = m.base /\ l.mode = m.mode /\ l.rows = Learnt(m.rows, m.ctx, s)
      /\ l.ctx = CtxOf(m.mode, s) /\ l.log = m.log
  BY <1>2
<1>4. g = [l EXCEPT !.log = log]
  BY <1>1, <1>3 DEF EncodeToken, Entry
<1>5. l = [n |-> l.n, base |-> l.base, mode |-> l.mode, rows |-> l.rows, ctx |-> l.ctx, log |-> l.log]
  BY <1>2 DEF Sound
<1>6. g = [n |-> l.n, base |-> l.base, mode |-> l.mode, rows |-> l.rows, ctx |-> l.ctx, log |-> log]
  BY <1>4, <1>5, LoggedFacts
<1>7. /\ g.n = l.n /\ g.base = l.base /\ g.mode = l.mode /\ g.rows = l.rows /\ g.ctx = l.ctx /\ g.log = log
      /\ g = [n |-> g.n, base |-> g.base, mode |-> g.mode, rows |-> g.rows, ctx |-> g.ctx, log |-> g.log]
  BY <1>6
<1>8. log \in Seq(Coded)
  <2>1. m.log \in Seq(Coded) /\ m.ctx \in 0 .. Sentinel(m.mode) /\ m.mode \in Modes /\ m.n \in NLit .. MaxSyms
    BY DEF Sound, Holds
  <2>2. m.ctx \in Nat /\ s \in Nat
    BY <2>1, ContextFacts, ModelAssumption
  <2>3. Entry(m.ctx, s) \in Coded
    BY <2>2 DEF Coded, Entry
  <2> QED
    BY <1>1, <2>1, <2>3
<1>9. Sound(g, used + 1)
  BY <1>2, <1>7, <1>8 DEF Sound
<1> QED
  BY <1>1, <1>3, <1>7, <1>9 DEF LogsToken

\* Coding a token keeps the invariant.
LEMMA CodeKeeps ==
  ASSUME NEW B, Coding(B), NEW s \in Symbol, CodeToken(s)
  PROVE  Coding(B)'
<1>1. /\ open /\ Len(attempt) < MaxTokens /\ writer' = EncodeToken(writer, s)
      /\ attempt' = Append(attempt, s) /\ UNCHANGED <<open, before, records, reader, read>>
  BY DEF CodeToken
<1>2. Archive(B) /\ Writing /\ Reading(B)
  BY DEF Coding
<1>3. Archive(B)' /\ Reading(B)'
  <2>1. Len(records) \in Nat /\ Len(records') = Len(records)
    BY <1>1, <1>2, ArchiveFacts
  <2>2. Archive(B)'
    BY <1>1, <1>2, ArchiveStays
  <2>3. Reading(B)'
    BY <1>1, <1>2, <2>1, ReadingStays
  <2> QED
    BY <2>2, <2>3
<1>4. PICK m, g, len, sp, used : /\ m = Model /\ g = Model' /\ len = Len(attempt) /\ sp = Spent(Len(records))
                                 /\ used = sp + len
  OBVIOUS
<1>5. /\ writer.coder \in TightCoder /\ attempt \in Seq(Nat) /\ Sound(m, used)
      /\ Len(records) < MaxRecords /\ before.n <= m.n /\ m.base = before.n
  BY <1>1, <1>2, <1>4 DEF Writing
<1>6. PICK M, E : Attempted(M, E)
  BY <1>1, <1>2 DEF Writing
<1>7. /\ len \in Nat /\ sp \in Nat /\ used \in Nat /\ MaxTokens \in Nat /\ len < MaxTokens
      /\ MaxSyms + (sp + MaxTokens) < Word /\ MaxSyms \in Nat
  <2>1. MaxTokens \in Nat /\ MaxSyms \in Nat
    BY BoundsAssumption, ModelAssumption
  <2>2. len \in Nat /\ len < MaxTokens
    BY <1>1, <1>4, <1>5
  <2>3. /\ Spent(Len(records)) \in Nat
        /\ (Len(records) < MaxRecords => MaxSyms + (Spent(Len(records)) + MaxTokens) < Word)
    BY <1>2, ArchiveFacts
  <2>4. sp \in Nat /\ MaxSyms + (sp + MaxTokens) < Word
    BY <1>4, <1>5, <2>3
  <2>5. used \in Nat
    BY <1>4, <2>2, <2>4
  <2> QED
    BY <2>1, <2>2, <2>4, <2>5
<1>8. MaxSyms + used + 1 < Word
  BY SMTT(30), <1>4, <1>7, WordAssumption
<1>9. m.n \in Nat /\ s \in 0 .. m.n - 1 /\ s \in Nat
  BY <1>4, <1>5, ModelAssumption DEF Sound, Symbol
<1>10. m = writer.model /\ g = EncodeToken(writer, s).model
       /\ writer' = [model |-> writer'.model, coder |-> writer'.coder]
       /\ writer'.coder = EncodeStep(writer.coder, Interval(RowOf(m), s))
  BY <1>1, <1>4 DEF Model, EncodeToken, RowOf
<1>11. /\ Sound(g, used + 1)
       /\ g.n = m.n /\ g.base = m.base /\ g.mode = m.mode /\ g.rows = Learnt(m.rows, m.ctx, s)
       /\ g.ctx = CtxOf(m.mode, s) /\ g.log = Append(m.log, Entry(m.ctx, s))
  <2>1. PICK w : w = writer
    OBVIOUS
  <2>2. m = w.model /\ g = EncodeToken(w, s).model
    BY <1>10, <2>1
  <2>3. Sound(m, used) /\ s \in 0 .. m.n - 1 /\ used \in Nat /\ MaxSyms + used + 1 < Word
    BY <1>5, <1>7, <1>8, <1>9
  <2>4. Sound(g, used + 1) /\ LogsToken(g, m, s)
    BY ONLY <2>2, <2>3, EncodeTokenFacts
  <2> QED
    BY <2>4 DEF LogsToken
<1>12. PICK start : start = Grow(BeginChunk(before), m.n)
  OBVIOUS
<1>13. /\ Trail(M, E, attempt, start) /\ Same(m, M[len]) /\ m.ctx = M[len].ctx
       /\ writer.coder = E[len] /\ Len(m.log) = len
       /\ \A k \in 1 .. len : m.log[k].ctx = M[k - 1].ctx /\ m.log[k].sym = attempt[k]
  BY <1>4, <1>6, <1>12 DEF Attempted
<1>14. Sound(start, sp) /\ start.n = m.n
  <2>1. /\ before.n \in Nat /\ Sound(before, sp) /\ MaxSyms + sp < Word
    BY <1>2, <1>4, ArchiveFacts
  <2>2. PICK new \in Nat : before.n + new = m.n
    <3>1. m.n - before.n \in Nat /\ before.n + (m.n - before.n) = m.n
      BY <1>5, <1>9, <2>1
    <3> QED
      BY <3>1
  <2>3. m.n <= MaxSyms
    BY <1>5, <1>7, ModelAssumption DEF Sound
  <2>4. Sound(start, sp) /\ Ready(start, before, m.n)
    BY <1>7, <1>12, <2>1, <2>2, <2>3, BeginSound
  <2> QED
    BY <2>4 DEF Ready
<1>15. Sound(M[len], used) /\ M[len].n = m.n
  <2>1. MaxSyms + sp + Len(attempt) < Word
    BY SMTT(30), <1>4, <1>7, WordAssumption
  <2>2. \A k \in 0 .. Len(attempt) : Sound(M[k], sp + k) /\ M[k].n = start.n
    BY <1>7, <1>13, <1>14, <2>1, TrailFacts
  <2> QED
    BY <1>4, <1>7, <1>14, <2>2
<1>16. PICK M2, E2 :
         /\ Trail(M2, E2, Append(attempt, s), start)
         /\ \A k \in 0 .. len : M2[k] = M[k] /\ E2[k] = E[k]
         /\ M2[len + 1] = Learn(M[len], s)
         /\ E2[len + 1] = EncodeStep(E[len], Interval(RowOf(M[len]), s))
  BY <1>4, <1>9, <1>13, <1>14, TrailMore
<1>17. Same(g, M2[len + 1]) /\ g.ctx = M2[len + 1].ctx
  <2>1. Learn(M[len], s) = [n |-> M[len].n, base |-> M[len].base, mode |-> M[len].mode,
                            rows |-> Learnt(M[len].rows, M[len].ctx, s),
                            ctx |-> CtxOf(M[len].mode, s), log |-> M[len].log]
    <3>1. PICK x : x = M[len]
      OBVIOUS
    <3>2. Sound(x, used) /\ s \in 0 .. x.n - 1
      BY <1>9, <1>15, <3>1
    <3>3. Learn(x, s) = [n |-> x.n, base |-> x.base, mode |-> x.mode, rows |-> Learnt(x.rows, x.ctx, s),
                         ctx |-> CtxOf(x.mode, s), log |-> x.log]
      BY <1>7, <1>8, <3>2, LearnSound
    <3> QED
      BY <3>1, <3>3
  <2>2. M[len].n = m.n /\ M[len].mode = m.mode /\ M[len].rows = m.rows /\ M[len].ctx = m.ctx
    BY <1>13 DEF Same
  <2>3. /\ M2[len + 1].n = m.n /\ M2[len + 1].mode = m.mode
        /\ M2[len + 1].rows = Learnt(m.rows, m.ctx, s) /\ M2[len + 1].ctx = CtxOf(m.mode, s)
    BY <1>16, <2>1, <2>2
  <2> QED
    BY <1>11, <2>3 DEF Same
<1>18. writer'.coder = E2[len + 1]
  <2>1. RowOf(M[len]) = RowOf(m)
    BY <1>13 DEF RowOf, Same
  <2> QED
    BY <1>10, <1>13, <1>16, <2>1
<1>19. /\ Len(attempt') = len + 1 /\ attempt' \in Seq(Nat) /\ attempt'[len + 1] = s
       /\ \A k \in 1 .. len : attempt'[k] = attempt[k]
  BY <1>1, <1>4, <1>5, <1>9
<1>20. /\ Len(g.log) = len + 1 /\ g.log[len + 1].ctx = M2[len].ctx /\ g.log[len + 1].sym = s
       /\ \A k \in 1 .. len : g.log[k] = m.log[k]
  <2>1. PICK en : en = Entry(m.ctx, s)
    OBVIOUS
  <2>2. m.log \in Seq(Coded)
    BY <1>5 DEF Sound
  <2>3. Len(g.log) = len + 1 /\ g.log[len + 1] = en /\ \A k \in 1 .. len : g.log[k] = m.log[k]
    BY <1>7, <1>11, <1>13, <2>1, <2>2
  <2>4. M2[len].ctx = m.ctx
    BY <1>7, <1>13, <1>16
  <2> QED
    BY <2>1, <2>3, <2>4 DEF Entry
<1>21. \A k \in 1 .. Len(attempt') : g.log[k].ctx = M2[k - 1].ctx /\ g.log[k].sym = attempt'[k]
  <2> TAKE k \in 1 .. Len(attempt')
  <2>1. CASE k = len + 1
    <3>1. k - 1 = len
      BY <1>7, <2>1
    <3>2. /\ g.log[k] = g.log[len + 1] /\ M2[k - 1] = M2[len] /\ attempt'[k] = attempt'[len + 1]
      BY <2>1, <3>1
    <3>3. g.log[len + 1].ctx = M2[len].ctx /\ g.log[len + 1].sym = attempt'[len + 1]
      BY <1>19, <1>20
    <3>4. g.log[k].ctx = M2[k - 1].ctx
      BY <3>2, <3>3
    <3>5. g.log[k].sym = attempt'[k]
      BY <3>2, <3>3
    <3> QED
      BY <3>4, <3>5
  <2>2. CASE k # len + 1
    <3>1. k \in 1 .. len /\ k - 1 \in 0 .. len
      BY <1>7, <1>19, <2>2
    <3>2. g.log[k] = m.log[k] /\ M2[k - 1] = M[k - 1] /\ attempt'[k] = attempt[k]
      BY <1>16, <1>19, <1>20, <3>1
    <3>3. m.log[k].ctx = M[k - 1].ctx /\ m.log[k].sym = attempt[k]
      BY <1>13, <3>1
    <3> QED
      BY ONLY <3>2, <3>3
  <2> QED
    BY <2>1, <2>2
<1>22. Attempted(M2, E2)'
  <2>1. Trail(M2, E2, attempt', Grow(BeginChunk(before'), Model'.n))
    BY <1>1, <1>4, <1>11, <1>12, <1>16
  <2>2. Same(Model', M2[Len(attempt')]) /\ Model'.ctx = M2[Len(attempt')].ctx
    BY <1>4, <1>17, <1>19
  <2>3. writer'.coder = E2[Len(attempt')] /\ Len(Model'.log) = Len(attempt')
    BY <1>4, <1>18, <1>19, <1>20
  <2> QED
    BY <1>4, <1>21, <2>1, <2>2, <2>3 DEF Attempted
<1>23. Writing'
  <2>1. writer'.coder \in TightCoder
    <3>1. Row(RowOf(m), m.n, MaxSyms)
      BY <1>5, <1>7, SoundRow DEF RowOf
    <3>2. Part(Interval(RowOf(m), s))
      BY <1>9, <3>1, IntervalFacts
    <3> QED
      BY <1>5, <1>10, <3>2, EncodeType
  <2>2. Len(attempt') <= MaxTokens
    BY <1>7, <1>19
  <2>3. Sound(Model', Spent(Len(records')) + Len(attempt'))
    <3>1. Spent(Len(records')) + Len(attempt') = used + 1
      BY <1>1, <1>4, <1>7, <1>19
    <3> QED
      BY <1>4, <1>11, <3>1
  <2>4. Len(records') < MaxRecords /\ before'.n <= Model'.n /\ Model'.base = before'.n
    BY <1>1, <1>4, <1>5, <1>11
  <2>5. open' \in BOOLEAN /\ open'
    BY <1>1, <1>2 DEF Writing
  <2> QED
    BY <1>10, <1>19, <1>22, <2>1, <2>2, <2>3, <2>4, <2>5 DEF Writing
<1> QED
  BY <1>3, <1>23 DEF Coding

\* Two histories of the archive with the same beginning.
Agree(B, B2, n) == \A i \in 0 .. n : B2[i] = B[i]

\* A record more.
LEMMA ArchiveGrows ==
  ASSUME NEW B, Archive(B), NEW rec \in Record, Len(records) < MaxRecords,
         records' = Append(records, rec), Leads(rec, B[Len(records)], before'),
         Sound(before', Spent(Len(records) + 1))
  PROVE  \E B2 : Archive(B2)' /\ Agree(B, B2, Len(records))
<1>1. PICK len, b2 : len = Len(records) /\ b2 = before'
  OBVIOUS
<1>2. /\ len \in Nat /\ records \in Seq(Record) /\ \A i \in 0 .. len : Sound(B[i], Spent(i))
      /\ \A i \in 1 .. len : Leads(records[i], B[i - 1], B[i])
  BY <1>1, ArchiveFacts DEF Archive
<1>3. PICK B2 : B2 = [i \in 0 .. len + 1 |-> IF i <= len THEN B[i] ELSE b2]
  OBVIOUS
<1>4. (\A i \in 0 .. len : B2[i] = B[i]) /\ B2[len + 1] = b2
  BY <1>2, <1>3
<1>5. /\ records' \in Seq(Record) /\ Len(records') = len + 1 /\ records'[len + 1] = rec
      /\ \A i \in 1 .. len : records'[i] = records[i]
  BY <1>1, <1>2
<1>6. ASSUME NEW i \in 0 .. Len(records') PROVE Sound(B2[i], Spent(i))
  <2>1. CASE i = len + 1
    BY <1>1, <1>4, <2>1
  <2>2. CASE i # len + 1
    <3>1. i \in 0 .. len
      BY <1>2, <1>5, <2>2
    <3> QED
      BY <1>2, <1>4, <3>1
  <2> QED
    BY <2>1, <2>2
<1>7. ASSUME NEW i \in 1 .. Len(records') PROVE Leads(records'[i], B2[i - 1], B2[i])
  <2>1. CASE i = len + 1
    <3>1. i - 1 = len /\ len \in 0 .. len
      BY <1>2, <2>1
    <3>2. records'[i] = rec /\ B2[i - 1] = B[len] /\ B2[i] = b2
      BY <1>4, <1>5, <2>1, <3>1
    <3> QED
      BY <1>1, <3>2
  <2>2. CASE i # len + 1
    <3>1. i \in 1 .. len /\ i - 1 \in 0 .. len /\ i \in 0 .. len
      BY <1>2, <1>5, <2>2
    <3>2. records'[i] = records[i] /\ B2[i - 1] = B[i - 1] /\ B2[i] = B[i]
      BY <1>4, <1>5, <3>1
    <3> QED
      BY <1>2, <3>1, <3>2
  <2> QED
    BY <2>1, <2>2
<1>8. Sound(before', Spent(Len(records'))) /\ Same(before', B2[Len(records')])
  BY <1>1, <1>4, <1>5 DEF Same
<1>9. Len(records') <= MaxRecords
  BY <1>1, <1>2, <1>5, BoundsAssumption
<1>10. Archive(B2)'
  BY <1>5, <1>6, <1>7, <1>8, <1>9 DEF Archive
<1> QED
  BY <1>1, <1>4, <1>10 DEF Agree

\* Between two attempts.
LEMMA Idle ==
  ASSUME writer' = [model |-> writer'.model, coder |-> writer'.coder],
         writer'.coder \in TightCoder, ~open', open' \in BOOLEAN, attempt' = <<>>,
         before' = writer'.model, Sound(before', Spent(Len(records'))),
         Spent(Len(records')) \in Nat
  PROVE  Writing'
<1>1. Model' = before'
  BY DEF Model
<1>2. Len(attempt') = 0 /\ attempt' \in Seq(Nat) /\ Spent(Len(records')) + Len(attempt') = Spent(Len(records'))
  BY SpentFacts
<1> QED
  BY <1>1, <1>2, BoundsAssumption DEF Writing

\* Accepting a chunk keeps the invariant, for a longer history.
LEMMA AcceptKeeps ==
  ASSUME NEW B, Coding(B), Accept
  PROVE  \E B2 : Coding(B2)' /\ Agree(B, B2, Len(records))
<1>1. PICK rec : rec = [kind |-> "G", new |-> Model.n - before.n, count |-> Len(attempt),
                        blob |-> Flush(writer.coder), sent |-> attempt]
  OBVIOUS
<1>2. /\ open /\ records' = Append(records, rec) /\ before' = Model /\ ~open' /\ open' \in BOOLEAN
      /\ writer' = [writer EXCEPT !.coder = EncoderNew] /\ attempt' = <<>> /\ UNCHANGED <<reader, read>>
  BY <1>1 DEF Accept
<1>3. Archive(B) /\ Writing /\ Reading(B)
  BY DEF Coding
<1>4. PICK m, len, sp, n, c, b : /\ m = Model /\ len = Len(attempt) /\ n = Len(records) /\ sp = Spent(n)
                                 /\ c = writer.coder /\ b = B[n]
  OBVIOUS
<1>5. /\ writer = [model |-> m, coder |-> c] /\ c \in TightCoder /\ attempt \in Seq(Nat)
      /\ len <= MaxTokens /\ len \in Nat /\ Sound(m, sp + len) /\ n < MaxRecords /\ before.n <= m.n
  BY <1>2, <1>3, <1>4 DEF Writing, Model
<1>6. PICK M, E : Attempted(M, E)
  BY <1>2, <1>3 DEF Writing
<1>7. /\ n \in Nat /\ sp \in Nat /\ Sound(before, sp) /\ MaxSyms + sp < Word /\ before.n \in Nat
      /\ MaxTokens \in Nat /\ MaxSyms + (sp + MaxTokens) < Word /\ n \in 0 .. n
  BY <1>3, <1>4, <1>5, ArchiveFacts, BoundsAssumption
<1>8. m.n \in Nat /\ m.n <= MaxSyms /\ NLit \in Nat /\ MaxSyms \in Nat
  BY <1>5, ModelAssumption DEF Sound
<1>9. PICK new \in Nat : before.n + new = m.n /\ new = m.n - before.n
  <2>1. m.n - before.n \in Nat /\ before.n + (m.n - before.n) = m.n
    BY <1>5, <1>7, <1>8
  <2> QED
    BY <2>1
<1>10. Same(before, b) /\ Sound(b, sp)
  <2>1. Same(before, B[Len(records)]) /\ \A i \in 0 .. Len(records) : Sound(B[i], Spent(i))
    BY <1>3 DEF Archive
  <2> QED
    BY <1>4, <1>7, <2>1
<1>11. b.n + new = m.n /\ Grow(BeginChunk(before), m.n) = Grow(BeginChunk(b), b.n + new)
  <2>1. b.n = before.n
    BY <1>10 DEF Same
  <2>2. Grow(BeginChunk(before), before.n + new) = Grow(BeginChunk(b), b.n + new)
    BY <1>7, <1>8, <1>9, <1>10, SameStart
  <2> QED
    BY <1>9, <2>1, <2>2
<1>12. /\ rec.kind = "G" /\ rec.new = new /\ rec.count = len /\ rec.blob = Flush(c) /\ rec.sent = attempt
  BY <1>1, <1>4, <1>9
<1>13. /\ Trail(M, E, attempt, Grow(BeginChunk(b), b.n + new)) /\ Same(m, M[len]) /\ c = E[len]
  BY <1>4, <1>6, <1>11 DEF Attempted
<1>14. Codes(rec, b, m, M, E)
  <2>1. b.n + rec.new <= MaxSyms /\ rec.count = Len(rec.sent) /\ rec.count <= MaxTokens
    BY <1>4, <1>5, <1>8, <1>11, <1>12
  <2> QED
    BY <1>12, <1>13, <2>1 DEF Codes
<1>15. Leads(rec, B[Len(records)], before')
  BY <1>2, <1>4, <1>12, <1>14 DEF Leads
<1>16. rec \in Record
  <2>1. Flush(c) \in Seq(Digits)
    <3>1. c \in Coder
      BY <1>5 DEF TightCoder
    <3> QED
      BY <3>1, FlushType
  <2>2. rec = [kind |-> "G", new |-> new, count |-> len, blob |-> Flush(c), sent |-> attempt]
    BY <1>1, <1>4, <1>9
  <2>3. rec \in [kind : {"G"}, new : Nat, count : Nat, blob : Seq(Digits), sent : Seq(Nat)]
    BY <1>5, <2>1, <2>2
  <2> QED
    BY <2>3 DEF Record
<1>17. Spent(n + 1) = sp + MaxTokens /\ Spent(n + 1) \in Nat
  BY <1>4, <1>7, SpentFacts
<1>18. Sound(before', Spent(Len(records) + 1))
  <2>1. sp + len \in Nat /\ sp + MaxTokens \in Nat /\ sp + len <= sp + MaxTokens
    BY <1>5, <1>7
  <2>2. Sound(m, sp + MaxTokens)
    BY <1>5, <2>1, SoundMore
  <2> QED
    BY <1>2, <1>4, <1>17, <2>2
<1>19. PICK B2 : Archive(B2)' /\ Agree(B, B2, Len(records))
  BY <1>2, <1>3, <1>4, <1>5, <1>15, <1>16, <1>18, ArchiveGrows
<1>20. Len(records') = n + 1 /\ Len(records) \in Nat /\ Len(records') \in Nat /\ Len(records') >= Len(records)
  <2>1. records \in Seq(Record)
    BY <1>3 DEF Archive
  <2> QED
    BY <1>2, <1>4, <1>7, <1>16, <2>1
<1>21. Reading(B2)'
  BY <1>2, <1>3, <1>19, <1>20, ReadingStays DEF Agree
<1>22. Writing'
  <2>1. writer' = [model |-> m, coder |-> EncoderNew]
    BY <1>2, <1>5
  <2>2. writer'.model = m /\ writer'.coder = EncoderNew
    BY <2>1
  <2>3. writer'.coder \in TightCoder /\ writer' = [model |-> writer'.model, coder |-> writer'.coder]
        /\ before' = writer'.model
    BY <1>2, <1>4, <2>1, <2>2, EncoderNewTight
  <2>4. Sound(before', Spent(Len(records'))) /\ Spent(Len(records')) \in Nat
    BY <1>4, <1>17, <1>18, <1>20
  <2> QED
    BY <1>2, <2>3, <2>4, Idle
<1> QED
  BY <1>19, <1>21, <1>22 DEF Coding

\* A rollback finds its way back from any point of an attempt.
LEMMA AttemptUndone ==
  ASSUME NEW B, Coding(B), open, NEW m, m = Model, NEW b, b = before
  PROVE  RollbackChunk(m) = [n |-> b.n, base |-> m.base, mode |-> m.mode, rows |-> b.rows,
                             ctx |-> Sentinel(m.mode), log |-> <<>>] /\ m.mode = b.mode
<1>1. Archive(B) /\ Writing
  BY DEF Coding
<1>2. PICK len, sp, used : len = Len(attempt) /\ sp = Spent(Len(records)) /\ used = sp + len
  OBVIOUS
<1>3. /\ attempt \in Seq(Nat) /\ len <= MaxTokens /\ len \in Nat /\ Sound(m, used)
      /\ Len(records) < MaxRecords /\ b.n <= m.n /\ m.base = b.n
  BY <1>1, <1>2 DEF Writing
<1>4. PICK M, E : Attempted(M, E)
  BY <1>1 DEF Writing
<1>5. /\ sp \in Nat /\ Sound(b, sp) /\ MaxSyms + sp < Word /\ b.n \in Nat
      /\ MaxTokens \in Nat /\ MaxSyms + (sp + MaxTokens) < Word
  BY <1>1, <1>2, <1>3, ArchiveFacts, BoundsAssumption
<1>6. m.n \in Nat /\ m.n <= MaxSyms /\ MaxSyms \in Nat
  BY <1>3, ModelAssumption DEF Sound
<1>7. PICK new \in Nat : b.n + new = m.n
  <2>1. m.n - b.n \in Nat /\ b.n + (m.n - b.n) = m.n
    BY <1>3, <1>5, <1>6
  <2> QED
    BY <2>1
<1>8. PICK start : start = Grow(BeginChunk(b), m.n)
  OBVIOUS
<1>9. Sound(start, sp) /\ Ready(start, b, m.n)
  BY <1>5, <1>6, <1>7, <1>8, BeginSound
<1>10. start.n = m.n /\ start.mode = b.mode /\ start.rows = GrownRows(b.rows, b.n, m.n, b.mode)
  BY <1>9 DEF Ready
<1>11. /\ Trail(M, E, attempt, start) /\ Same(m, M[len]) /\ Len(m.log) = len
       /\ \A k \in 1 .. len : m.log[k].ctx = M[k - 1].ctx /\ m.log[k].sym = attempt[k]
  BY <1>2, <1>4, <1>8 DEF Attempted
<1>12. \A k \in 0 .. len :
         /\ M[k].mode = start.mode
         /\ k > 0 => Unlearnt(M[k].rows, M[k - 1].ctx, attempt[k]) = M[k - 1].rows
  <2>1. MaxSyms + sp + Len(attempt) < Word
    BY SMTT(30), <1>2, <1>3, <1>5, <1>6, WordAssumption
  <2>2. \A k \in 0 .. Len(attempt) :
          /\ M[k].mode = start.mode
          /\ k > 0 => Unlearnt(M[k].rows, M[k - 1].ctx, attempt[k]) = M[k - 1].rows
    BY <1>5, <1>9, <1>11, <2>1, TrailFacts
  <2> QED
    BY <1>2, <2>2
<1>13. m.mode = b.mode
  <2>1. len \in 0 .. len
    BY <1>3
  <2> QED
    BY <1>10, <1>11, <1>12, <2>1 DEF Same
<1>14. PICK h : h = [k \in 0 .. len |-> M[k].rows]
  OBVIOUS
<1>15. \A k \in 0 .. len : h[k] = M[k].rows
  BY <1>14
<1>16. Backs(h, m, GrownRows(b.rows, b.n, m.n, b.mode))
  <2>1. 0 \in 0 .. len /\ len \in 0 .. len
    BY <1>3
  <2>2. h[0] = GrownRows(b.rows, b.n, m.n, b.mode)
    BY <1>10, <1>11, <1>15, <2>1 DEF Trail
  <2>3. h[Len(m.log)] = m.rows
    BY <1>11, <1>15, <2>1 DEF Same
  <2>4. \A k \in 1 .. Len(m.log) : Unlearnt(h[k], m.log[k].ctx, m.log[k].sym) = h[k - 1]
    <3> TAKE k \in 1 .. Len(m.log)
    <3>1. k \in 1 .. len /\ k \in 0 .. len /\ k - 1 \in 0 .. len /\ k > 0
      BY <1>3, <1>11
    <3>2. Unlearnt(M[k].rows, M[k - 1].ctx, attempt[k]) = M[k - 1].rows
      BY <1>12, <3>1
    <3>3. m.log[k].ctx = M[k - 1].ctx /\ m.log[k].sym = attempt[k]
      BY <1>11, <3>1
    <3> QED
      BY <1>15, <3>1, <3>2, <3>3
  <2> QED
    BY <2>2, <2>3, <2>4 DEF Backs
<1>17. used \in Nat /\ Sound(b, used) /\ m.n + used < Word
  <2>1. used \in Nat /\ sp <= used
    BY <1>2, <1>3, <1>5
  <2>2. Sound(b, used)
    BY <1>5, <2>1, SoundMore
  <2>3. m.n + used < Word
    <3>1. Word \in Nat
      BY WordAssumption
    <3>2. \A a, s, l, t, c, w \in Nat : a <= c /\ l <= t /\ c + (s + t) < w => a + (s + l) < w
      OBVIOUS
    <3>3. m.n + (sp + len) < Word
      BY <1>3, <1>5, <1>6, <3>1, <3>2
    <3> QED
      BY <1>2, <3>3
  <2> QED
    BY <2>1, <2>2, <2>3
<1>18. RollbackChunk(m) = [n |-> b.n, base |-> m.base, mode |-> m.mode, rows |-> b.rows,
                           ctx |-> Sentinel(m.mode), log |-> <<>>]
  BY <1>3, <1>13, <1>16, <1>17, RollbackRestores
<1> QED
  BY <1>13, <1>18

\* Rejecting a chunk keeps the invariant: the rollback restores the committed model.
LEMMA RejectKeeps ==
  ASSUME NEW B, Coding(B), Reject
  PROVE  Coding(B)'
<1>1. /\ open /\ writer' = [model |-> RollbackChunk(Model), coder |-> EncoderNew]
      /\ before' = writer'.model /\ ~open' /\ open' \in BOOLEAN /\ attempt' = <<>>
      /\ UNCHANGED <<records, reader, read>>
  BY DEF Reject
<1>2. Archive(B) /\ Writing /\ Reading(B)
  BY DEF Coding
<1>3. PICK m, b, g, sp : m = Model /\ b = before /\ g = RollbackChunk(m) /\ sp = Spent(Len(records))
  OBVIOUS
<1>4. /\ g = [n |-> b.n, base |-> m.base, mode |-> m.mode, rows |-> b.rows,
              ctx |-> Sentinel(m.mode), log |-> <<>>] /\ m.mode = b.mode
  BY <1>1, <1>3, AttemptUndone
<1>5. sp \in Nat /\ Sound(b, sp) /\ Len(records) \in Nat
  BY <1>2, <1>3, ArchiveFacts
<1>6. /\ g.n = b.n /\ g.mode = b.mode /\ g.rows = b.rows /\ g.ctx = Sentinel(b.mode) /\ g.log = <<>>
      /\ g = [n |-> g.n, base |-> g.base, mode |-> g.mode, rows |-> g.rows, ctx |-> g.ctx, log |-> g.log]
  BY <1>4
<1>7. Sound(g, sp)
  <2>1. b.n \in NLit .. MaxSyms /\ Holds(b.rows, b.n, b.mode, sp) /\ b.mode \in Modes
    BY <1>5 DEF Sound, Holds
  <2>2. Sentinel(b.mode) \in 0 .. Sentinel(b.mode)
    BY <2>1, ContextFacts
  <2>3. g.log \in Seq(Coded)
    BY <1>6
  <2> QED
    BY <1>6, <2>1, <2>2, <2>3 DEF Sound
<1>8. writer' = [model |-> g, coder |-> EncoderNew] /\ writer'.model = g /\ writer'.coder = EncoderNew
      /\ before' = g
  BY <1>1, <1>3
<1>9. Archive(B)'
  <2>1. Same(before', B[Len(records)])
    BY <1>2, <1>3, <1>6, <1>8 DEF Archive, Same
  <2>2. Sound(before', Spent(Len(records)))
    BY <1>3, <1>7, <1>8
  <2> QED
    BY <1>1, <1>2, <2>1, <2>2 DEF Archive
<1>10. Reading(B)'
  BY <1>1, <1>2, <1>5, ReadingStays
<1>11. Writing'
  <2>1. writer'.coder \in TightCoder /\ writer' = [model |-> writer'.model, coder |-> writer'.coder]
    BY <1>8, EncoderNewTight
  <2>2. Sound(before', Spent(Len(records'))) /\ Spent(Len(records')) \in Nat
    BY <1>1, <1>3, <1>5, <1>7, <1>8
  <2> QED
    BY <1>1, <2>1, <2>2, Idle
<1> QED
  BY <1>9, <1>10, <1>11 DEF Coding

\* Garbage collection keeps the invariant, for a longer history.
LEMMA CollectKeeps ==
  ASSUME NEW B, Coding(B), NEW n2 \in NLit .. Model.n, Collect(n2)
  PROVE  \E B2 : Coding(B2)' /\ Agree(B, B2, Len(records))
<1>1. PICK rec : rec = [kind |-> "GC", n2 |-> n2]
  OBVIOUS
<1>2. /\ ~open /\ Len(records) < MaxRecords /\ writer' = [writer EXCEPT !.model = ShrinkAlphabet(@, n2)]
      /\ before' = writer'.model /\ records' = Append(records, rec)
      /\ UNCHANGED <<open, attempt, reader, read>>
  BY <1>1 DEF Collect
<1>3. Archive(B) /\ Writing /\ Reading(B)
  BY DEF Coding
<1>4. PICK m, n, sp, c, b, g : /\ m = before /\ n = Len(records) /\ sp = Spent(n)
                               /\ c = writer.coder /\ b = B[n] /\ g = ShrinkAlphabet(m, n2)
  OBVIOUS
<1>5. /\ writer = [model |-> m, coder |-> c] /\ c \in TightCoder /\ attempt = <<>> /\ Model = m
      /\ open \in BOOLEAN
  BY <1>2, <1>3, <1>4 DEF Writing, Model
<1>6. /\ n \in Nat /\ sp \in Nat /\ Sound(m, sp) /\ MaxSyms + sp < Word /\ m.n \in Nat
      /\ MaxTokens \in Nat /\ n < MaxRecords /\ n \in 0 .. n /\ n2 \in NLit .. m.n
  BY <1>2, <1>3, <1>4, <1>5, ArchiveFacts, BoundsAssumption
<1>7. n2 \in Nat
  BY <1>6, ModelAssumption
<1>8. Sound(g, sp)
  BY <1>4, <1>6, ShrinkSound
<1>9. Same(m, b) /\ Sound(b, sp)
  <2>1. Same(before, B[Len(records)]) /\ \A i \in 0 .. Len(records) : Sound(B[i], Spent(i))
    BY <1>3 DEF Archive
  <2> QED
    BY <1>4, <1>6, <2>1
<1>10. Same(g, ShrinkAlphabet(b, n2))
  BY <1>4, <1>6, <1>7, <1>9, SameShrink
<1>11. writer' = [model |-> g, coder |-> c] /\ before' = g /\ writer'.model = g /\ writer'.coder = c
  <2>1. writer' = [writer EXCEPT !.model = g]
    BY <1>2, <1>4, <1>5
  <2>2. writer' = [model |-> g, coder |-> c]
    BY <1>5, <2>1
  <2>3. writer'.model = g /\ writer'.coder = c
    BY ONLY <2>2
  <2>4. before' = writer'.model
    BY <1>2
  <2> QED
    BY ONLY <2>2, <2>3, <2>4
<1>12. Leads(rec, B[Len(records)], before')
  <2>1. rec.kind = "GC" /\ rec.n2 = n2 /\ b.n = m.n
    BY <1>1, <1>9 DEF Same
  <2>2. rec.n2 \in NLit .. b.n /\ Same(g, ShrinkAlphabet(b, rec.n2))
    BY <1>6, <1>10, <2>1
  <2> QED
    BY <1>4, <1>11, <2>1, <2>2 DEF Leads
<1>13. rec \in Record
  BY <1>1, <1>7 DEF Record
<1>14. Spent(n + 1) = sp + MaxTokens /\ Spent(n + 1) \in Nat
  BY <1>4, <1>6, SpentFacts
<1>15. Sound(before', Spent(Len(records) + 1))
  <2>1. sp + MaxTokens \in Nat /\ sp <= sp + MaxTokens
    BY <1>6
  <2>2. Sound(g, sp + MaxTokens)
    BY <1>6, <1>8, <2>1, SoundMore
  <2> QED
    BY <1>4, <1>11, <1>14, <2>2
<1>16. PICK B2 : Archive(B2)' /\ Agree(B, B2, Len(records))
  BY <1>2, <1>3, <1>12, <1>13, <1>15, ArchiveGrows
<1>17. Len(records') = n + 1 /\ Len(records) \in Nat /\ Len(records') \in Nat /\ Len(records') >= Len(records)
  <2>1. records \in Seq(Record)
    BY <1>3 DEF Archive
  <2> QED
    BY <1>2, <1>4, <1>6, <1>13, <2>1
<1>18. Reading(B2)'
  BY <1>2, <1>3, <1>16, <1>17, ReadingStays DEF Agree
<1>19. Writing'
  <2>1. writer'.coder \in TightCoder /\ writer' = [model |-> writer'.model, coder |-> writer'.coder]
    BY <1>5, <1>11
  <2>2. Sound(before', Spent(Len(records'))) /\ Spent(Len(records')) \in Nat
    BY <1>4, <1>14, <1>15, <1>17
  <2>3. ~open' /\ open' \in BOOLEAN /\ attempt' = <<>>
    BY <1>2, <1>5
  <2> QED
    BY <1>2, <2>1, <2>2, <2>3, Idle
<1> QED
  BY <1>16, <1>18, <1>19 DEF Coding

\* The bound on a reader's totals may be raised.
LEMMA UsableMore ==
  ASSUME NEW r, NEW used \in Nat, Usable(r, used), NEW more \in Nat, used <= more
  PROVE  Usable(r, more)
BY SoundMore DEF Usable

\* The shape of a G record.
LEMMA BlockRecord ==
  ASSUME NEW rec \in Record, rec.kind = "G"
  PROVE  rec.new \in Nat /\ rec.count \in Nat /\ rec.blob \in Seq(Digits) /\ rec.sent \in Seq(Nat)
<1>1. CASE rec \in [kind : {"GC"}, n2 : Nat]
  <2>1. rec.kind = "GC"
    BY <1>1
  <2> QED
    BY <2>1
<1>2. CASE rec \in [kind : {"G"}, new : Nat, count : Nat, blob : Seq(Digits), sent : Seq(Nat)]
  BY <1>2
<1> QED
  BY <1>1, <1>2 DEF Record

\* What a G record says about the models around it.
LEMMA CodesFacts ==
  ASSUME NEW i \in 0 .. MaxRecords - 1, NEW rec \in Record, rec.kind = "G", NEW b, NEW b2, NEW M, NEW E,
         Codes(rec, b, b2, M, E), Sound(b, Spent(i)),
         NEW start, start = Grow(BeginChunk(b), b.n + rec.new)
  PROVE  /\ Sound(start, Spent(i)) /\ Spent(i) \in Nat
         /\ MaxSyms + Spent(i) + Len(rec.sent) < Word /\ rec.count = Len(rec.sent)
         /\ b2.n = b.n + rec.new /\ b2.mode = b.mode
<1>1. PICK sp, new : sp = Spent(i) /\ new = rec.new
  OBVIOUS
<1>2. /\ i \in Nat /\ MaxTokens \in Nat /\ MaxSyms \in Nat /\ Word \in Nat
  BY BoundsAssumption, ModelAssumption, WordAssumption
<1>3. sp \in Nat /\ MaxSyms + (sp + MaxTokens) < Word
  BY <1>1, <1>2, SpentFacts
<1>4. /\ new \in Nat /\ rec.count \in Nat /\ rec.sent \in Seq(Nat)
  BY <1>1, BlockRecord
<1>5. /\ b.n + new <= MaxSyms /\ rec.count = Len(rec.sent) /\ rec.count <= MaxTokens
      /\ Trail(M, E, rec.sent, start) /\ Same(b2, M[rec.count])
  BY <1>1 DEF Codes
<1>6. MaxSyms + sp < Word
  BY <1>2, <1>3
<1>7. Sound(start, sp) /\ Ready(start, b, b.n + new)
  BY <1>1, <1>3, <1>4, <1>5, <1>6, BeginSound
<1>8. start.n = b.n + new /\ start.mode = b.mode
  BY <1>7 DEF Ready
<1>9. MaxSyms + sp + Len(rec.sent) < Word
  <2>1. \A a, s, l, t, w \in Nat : l <= t /\ a + (s + t) < w => a + s + l < w
    OBVIOUS
  <2> QED
    BY <1>2, <1>3, <1>4, <1>5, <2>1
<1>10. M[rec.count].n = start.n /\ M[rec.count].mode = start.mode
  <2>1. \A k \in 0 .. Len(rec.sent) : M[k].n = start.n /\ M[k].mode = start.mode
    BY <1>3, <1>5, <1>7, <1>9, TrailFacts
  <2>2. rec.count \in 0 .. Len(rec.sent)
    BY <1>4, <1>5
  <2> QED
    BY <2>1, <2>2
<1> QED
  BY <1>1, <1>3, <1>5, <1>7, <1>8, <1>9, <1>10 DEF Same

\* Reading a record keeps the invariant, whatever the reader makes of its digits.
LEMMA ReadKeeps ==
  ASSUME NEW B, Coding(B), ReadRecord
  PROVE  Coding(B)'
<1>1. PICK rec, i : rec = records[read + 1] /\ i = read
  OBVIOUS
<1>2. /\ read < Len(records) /\ reader.ok /\ read' = read + 1
      /\ UNCHANGED <<writer, open, attempt, before, records>>
      /\ rec.kind = "G" => reader' = DecodeBlock(reader.model, rec.new, rec.count, rec.blob)
      /\ rec.kind # "G" => reader' = [reader EXCEPT !.model = ShrinkAlphabet(@, rec.n2), !.tokens = <<>>]
  BY <1>1 DEF ReadRecord
<1>3. Archive(B) /\ Writing /\ Reading(B)
  BY DEF Coding
<1>4. Archive(B)' /\ Writing'
  <2>1. Writing'
    BY <1>2, <1>3 DEF Writing, Attempted, Model
  <2> QED
    BY <1>2, <1>3, <2>1, ArchiveStays
<1>5. PICK m, b, b2, sp : m = reader.model /\ b = B[i] /\ b2 = B[i + 1] /\ sp = Spent(i)
  OBVIOUS
<1>6. /\ i \in 0 .. Len(records) /\ Usable(reader, sp) /\ m.n = b.n /\ m.mode = b.mode
  BY <1>1, <1>3, <1>5 DEF Reading
<1>7. /\ Len(records) \in Nat /\ Len(records) <= MaxRecords /\ MaxRecords \in Nat /\ MaxTokens \in Nat
      /\ MaxSyms \in Nat /\ Word \in Nat
  BY <1>3, ArchiveFacts, BoundsAssumption, ModelAssumption, WordAssumption
<1>8. /\ i \in Nat /\ i \in 0 .. MaxRecords - 1 /\ i + 1 \in 1 .. Len(records) /\ i + 1 \in 0 .. Len(records)
      /\ (i + 1) - 1 = i
  BY <1>1, <1>2, <1>6, <1>7
<1>9. rec \in Record /\ Leads(rec, b, b2) /\ Sound(b, sp)
  <2>1. /\ records \in Seq(Record) /\ \A k \in 1 .. Len(records) : Leads(records[k], B[k - 1], B[k])
        /\ \A k \in 0 .. Len(records) : Sound(B[k], Spent(k))
    BY <1>3 DEF Archive
  <2>2. Leads(records[i + 1], B[(i + 1) - 1], B[i + 1])
    BY <1>8, <2>1
  <2> QED
    BY <1>1, <1>5, <1>6, <1>8, <2>1, <2>2
<1>10. /\ sp \in Nat /\ Spent(i + 1) = sp + MaxTokens /\ Spent(i + 1) \in Nat
       /\ MaxSyms + (sp + MaxTokens) < Word /\ MaxSyms + sp < Word
  BY <1>5, <1>7, <1>8, SpentFacts
<1>11. Sound(m, sp)
  BY <1>5, <1>6 DEF Usable
<1> DEFINE Reached(r) == Usable(r, Spent(i + 1)) /\ r.model.n = b2.n /\ r.model.mode = b2.mode
<1>15. ASSUME Reached(reader') PROVE Reading(B)'
  <2>1. read' = i + 1 /\ read' \in 0 .. Len(records') /\ B[read'] = b2
    BY <1>1, <1>2, <1>5, <1>8
  <2> QED
    BY <1>15, <2>1 DEF Reading
<1>12. CASE rec.kind = "G"
  <2>1. PICK M, E : Codes(rec, b, b2, M, E)
    BY <1>9, <1>12 DEF Leads
  <2>2. rec.new \in Nat /\ rec.count \in Nat /\ rec.blob \in Seq(Digits)
    BY <1>9, <1>12, BlockRecord
  <2>3. /\ rec.count = Len(rec.sent) /\ MaxSyms + sp + Len(rec.sent) < Word
        /\ b2.n = b.n + rec.new /\ b2.mode = b.mode
    <3>1. Sound(b, Spent(i))
      BY <1>5, <1>9
    <3> QED
      BY <1>5, <1>8, <1>9, <1>12, <2>1, <3>1, CodesFacts
  <2>4. m.n + rec.new <= MaxSyms /\ rec.count <= MaxTokens
    BY <1>6, <2>1 DEF Codes
  <2>5. PICK r : r = DecodeBlock(m, rec.new, rec.count, rec.blob)
    OBVIOUS
  <2>6. Usable(r, sp + rec.count) /\ r.model.n = m.n + rec.new /\ r.model.mode = m.mode
    BY <1>10, <1>11, <2>2, <2>3, <2>4, <2>5, BlockUsable
  <2>7. Usable(r, Spent(i + 1))
    <3>1. sp + rec.count \in Nat /\ sp + rec.count <= Spent(i + 1)
      BY <1>7, <1>10, <2>2, <2>4
    <3> QED
      BY <1>10, <2>6, <3>1, UsableMore
  <2>8. reader' = r
    BY <1>2, <1>5, <1>12, <2>5
  <2>9. Reached(r)
    BY <1>6, <2>3, <2>6, <2>7
  <2> QED
    BY <1>4, <1>15, <2>8, <2>9 DEF Coding
<1>13. CASE rec.kind # "G"
  <2>1. rec.n2 \in NLit .. m.n /\ Same(b2, ShrinkAlphabet(b, rec.n2))
    BY <1>6, <1>9, <1>13 DEF Leads
  <2>2. PICK g : g = ShrinkAlphabet(m, rec.n2)
    OBVIOUS
  <2>3. Sound(g, sp) /\ g.n = rec.n2 /\ g.mode = m.mode
    BY <1>10, <1>11, <2>1, <2>2, ShrinkSound
  <2>4. b2.n = rec.n2 /\ b2.mode = b.mode
    <3>1. rec.n2 \in NLit .. b.n
      BY <1>6, <2>1
    <3>2. ShrinkAlphabet(b, rec.n2).n = rec.n2 /\ ShrinkAlphabet(b, rec.n2).mode = b.mode
      BY <1>9, <1>10, <3>1, ShrinkSound
    <3> QED
      BY <2>1, <3>2 DEF Same
  <2>5. PICK c, ok, none : c = reader.coder /\ ok = reader.ok /\ none = <<>>
    OBVIOUS
  <2>6. reader' = [reader EXCEPT !.model = g, !.tokens = none]
    BY <1>2, <1>5, <1>13, <2>2, <2>5
  <2>7. reader = [model |-> m, coder |-> c, tokens |-> reader.tokens, ok |-> ok]
    BY <1>5, <1>6, <2>5 DEF Usable
  <2>8. /\ reader'.model = g /\ reader'.coder = c /\ reader'.ok = ok
        /\ reader' = [model |-> reader'.model, coder |-> reader'.coder, tokens |-> reader'.tokens, ok |-> reader'.ok]
    <3>1. PICK v : v = reader' /\ v = [reader EXCEPT !.model = g, !.tokens = none]
      BY <2>6
    <3>2. PICK S : S = {m, c, reader.tokens, ok, g, none}
      OBVIOUS
    <3>3. reader \in [model : S, coder : S, tokens : S, ok : S] /\ g \in S /\ none \in S
          /\ reader.coder = c /\ reader.ok = ok
      BY <2>7, <3>2
    <3>4. v \in [model : S, coder : S, tokens : S, ok : S]
      BY <3>1, <3>3
    <3>5. v.model = g /\ v.coder = c /\ v.ok = ok
      BY <3>1, <3>3
    <3>6. v = [model |-> v.model, coder |-> v.coder, tokens |-> v.tokens, ok |-> v.ok]
      BY <3>4
    <3> QED
      BY <3>1, <3>5, <3>6
  <2>9. c \in Decoder /\ ok \in BOOLEAN
    BY <1>6, <2>5 DEF Usable
  <2>10. Sound(g, Spent(i + 1))
    <3>1. sp <= Spent(i + 1)
      BY <1>7, <1>10
    <3> QED
      BY <1>10, <2>3, <3>1, SoundMore
  <2>11. Usable(reader', Spent(i + 1))
    BY <2>8, <2>9, <2>10 DEF Usable
  <2>12. reader'.model.n = b2.n /\ reader'.model.mode = b2.mode
    BY <1>6, <2>3, <2>4, <2>8
  <2> QED
    BY <1>4, <1>15, <2>11, <2>12 DEF Coding
<1> QED
  BY <1>12, <1>13

\* Every step keeps the invariant, for a history that agrees with the one before it.
LEMMA CodingSteps ==
  ASSUME NEW B, Coding(B), [Next]_vars
  PROVE  \E B2 : Coding(B2)' /\ Agree(B, B2, Len(records))
<1>1. Agree(B, B, Len(records))
  BY DEF Agree
<1>2. CASE \E new \in 0 .. MaxNew : OpenAttempt(new)
  BY <1>1, <1>2, OpenKeeps
<1>3. CASE \E s \in Symbol : CodeToken(s)
  BY <1>1, <1>3, CodeKeeps
<1>4. CASE Accept
  BY <1>4, AcceptKeeps
<1>5. CASE Reject
  BY <1>1, <1>5, RejectKeeps
<1>6. CASE \E n2 \in NLit .. Model.n : Collect(n2)
  BY <1>6, CollectKeeps
<1>7. CASE ReadRecord
  BY <1>1, <1>7, ReadKeeps
<1>8. CASE UNCHANGED vars
  <2>1. Coding(B)'
    BY <1>8 DEF vars, Coding, Archive, Writing, Reading, Attempted, Model
  <2> QED
    BY <1>1, <2>1
<1> QED
  BY <1>2, <1>3, <1>4, <1>5, <1>6, <1>7, <1>8 DEF Next

\* The inductive invariant: some history of committed models explains the state.
CodingInv == \E B : Coding(B)

\* The inductive invariant holds.
LEMMA CodingHolds == Spec => []CodingInv
<1>1. Init => CodingInv
  BY CodingStarts DEF CodingInv
<1>2. CodingInv /\ [Next]_vars => CodingInv'
  BY CodingSteps DEF CodingInv
<1> QED
  BY <1>1, <1>2, PTL DEF Spec

\* The models of both sides are sound.
LEMMA ModelsSound ==
  ASSUME NEW B, Coding(B), NEW m \in {Model, reader.model}
  PROVE  \E used \in Nat : Sound(m, used)
<1>1. Writing /\ Archive(B) /\ Reading(B)
  BY DEF Coding
<1>2. CASE m = Model
  <2>1. Sound(m, Spent(Len(records)) + Len(attempt)) /\ attempt \in Seq(Nat)
    BY <1>1, <1>2 DEF Writing
  <2>2. Spent(Len(records)) + Len(attempt) \in Nat
    BY <1>1, <2>1, ArchiveFacts
  <2> QED
    BY <2>1, <2>2
<1>3. CASE m = reader.model
  <2>1. Sound(m, Spent(read)) /\ read \in 0 .. Len(records)
    BY <1>1, <1>3 DEF Reading, Usable
  <2>2. Spent(read) \in Nat
    BY <1>1, <2>1, ArchiveFacts, SpentFacts
  <2> QED
    BY <2>1, <2>2
<1> QED
  BY <1>2, <1>3

\* A sound model has a row for every context.
LEMMA SoundBooks ==
  ASSUME NEW m, NEW used \in Nat, Sound(m, used), NEW c \in Rows(m)
  PROVE  /\ Rows(m) = 0 .. Sentinel(m.mode) /\ m.ctx \in Rows(m) /\ m.n \in NLit .. MaxSyms
         /\ Row(m.rows[c], m.n, MaxSyms)
<1>1. m.rows = [x \in 0 .. Sentinel(m.mode) |-> m.rows[x]]
  BY DEF Sound, Holds
<1>2. Rows(m) = 0 .. Sentinel(m.mode)
  BY <1>1 DEF Rows
<1> QED
  BY <1>2 DEF Sound, Holds

\* After any mix of growth, coding, rollback, shrinking and reading, the counts, the tree
\* and the total of every row describe the same distribution, and nothing weighs beyond
\* the alphabet (arith.rs PersistentTokenModel).
THEOREM BooksAlwaysBalance == Spec => []BooksBalance
<1>1. CodingInv => BooksBalance
  <2> SUFFICES ASSUME NEW B, Coding(B), NEW m \in {Model, reader.model}, NEW c \in Rows(m)
               PROVE  /\ TableBalanced(m.rows[c])
                      /\ FenwickPrefix(m.rows[c].tree, MaxSyms) = m.rows[c].total
    BY DEF CodingInv, BooksBalance
  <2>1. PICK used \in Nat : Sound(m, used)
    BY ModelsSound
  <2>2. Row(m.rows[c], m.n, MaxSyms)
    BY <2>1, SoundBooks
  <2> QED
    BY <2>2, RowBalanced
<1> QED
  BY <1>1, CodingHolds, PTL

\* A rejected chunk leaves no footprint, at whatever token it is given up
\* (arith.rs rollback_chunk).
THEOREM UndoAlwaysExact == Spec => []UndoIsExact
<1>1. CodingInv => UndoIsExact
  <2> SUFFICES ASSUME NEW B, Coding(B), open
               PROVE  Shared(RollbackChunk(Model)) = Shared(before)
    BY DEF CodingInv, UndoIsExact
  <2>1. PICK m, b : m = Model /\ b = before
    OBVIOUS
  <2>2. RollbackChunk(m) = [n |-> b.n, base |-> m.base, mode |-> m.mode, rows |-> b.rows,
                            ctx |-> Sentinel(m.mode), log |-> <<>>]
    BY <2>1, AttemptUndone
  <2>3. RollbackChunk(m).n = b.n /\ RollbackChunk(m).rows = b.rows
    BY <2>2
  <2> QED
    BY <2>1, <2>3 DEF Shared
<1> QED
  BY <1>1, CodingHolds, PTL

\* The alphabets stay within the cap, every tree node within a word, and low within one
\* carry of its digits.
THEOREM CodingTypes == Spec => []TypeOK
<1>1. CodingInv => TypeOK
  <2> SUFFICES ASSUME NEW B, Coding(B) PROVE TypeOK
    BY DEF CodingInv
  <2>1. ASSUME NEW m \in {Model, reader.model}
        PROVE  /\ m.n \in NLit .. MaxSyms /\ m.ctx \in Rows(m) /\ Rows(m) = 0 .. Sentinel(m.mode)
               /\ \A c \in Rows(m) : /\ DOMAIN m.rows[c].counts = 0 .. (m.n - 1)
                                     /\ m.rows[c].tree \in [1 .. MaxSyms -> 0 .. (Word - 1)]
    <3>1. PICK used \in Nat : Sound(m, used)
      BY ModelsSound
    <3>2. Rows(m) = 0 .. Sentinel(m.mode)
      BY <3>1 DEF Sound, Holds, Rows
    <3>3. ASSUME NEW c \in Rows(m)
          PROVE  /\ DOMAIN m.rows[c].counts = 0 .. (m.n - 1)
                 /\ m.rows[c].tree \in [1 .. MaxSyms -> 0 .. (Word - 1)]
      <4>1. Row(m.rows[c], m.n, MaxSyms)
        BY <3>1, <3>3, SoundBooks
      <4> QED
        BY <4>1 DEF Row, Weighs, Tree
    <3>4. m.n \in NLit .. MaxSyms /\ m.ctx \in Rows(m)
      BY <3>1, <3>2 DEF Sound
    <3> QED
      BY <3>2, <3>3, <3>4
  <2>2. /\ writer.coder.low \in 0 .. (2 * Full - 1)
        /\ \A i \in 1 .. Len(writer.coder.out) : writer.coder.out[i] \in 0 .. (Digit - 1)
    <3>1. PICK c : c = writer.coder
      OBVIOUS
    <3>2. c \in Coder
      BY <3>1 DEF Coding, Writing, TightCoder
    <3>3. c.low \in 0 .. (2 * Full - 1) /\ c.out \in Seq(0 .. (Digit - 1))
      BY <3>2 DEF Coder, Digits
    <3>4. \A i \in 1 .. Len(c.out) : c.out[i] \in 0 .. (Digit - 1)
      <4>1. PICK o, top : o = c.out /\ top = 0 .. (Digit - 1)
        OBVIOUS
      <4>2. o \in Seq(top)
        BY <3>3, <4>1
      <4>3. \A i \in 1 .. Len(o) : o[i] \in top
        BY <4>2
      <4> QED
        BY <4>1, <4>3
    <3> QED
      BY <3>1, <3>3, <3>4
  <2>3. read \in 0 .. Len(records)
    BY DEF Coding, Reading
  <2> QED
    BY <2>1, <2>2, <2>3 DEF TypeOK
<1> QED
  BY <1>1, CodingHolds, PTL

----------------------------------------------------------------------------
(* Decoding.                                                               *)

\* No total that the archive can reach outgrows the smallest range of the coder.
TotalsFit == MaxSyms + MaxRecords * MaxTokens <= Top

\* The totals of a chunk within the bounds.
LEMMA TotalsFitFacts ==
  ASSUME TotalsFit, NEW i \in 0 .. MaxRecords - 1, NEW len \in Nat, len <= MaxTokens
  PROVE  MaxSyms + Spent(i) + len < Word /\ MaxSyms + Spent(i) + len <= Top /\ Spent(i) \in Nat
<1>1. /\ MaxRecords \in Nat /\ MaxTokens \in Nat /\ MaxSyms \in Nat /\ Word \in Nat /\ i \in Nat
  BY BoundsAssumption, ModelAssumption, WordAssumption
<1>2. Top \in Nat
  BY FullFacts
<1>3. PICK sp, all : sp = Spent(i) /\ all = Spent(MaxRecords)
  OBVIOUS
<1>4. /\ sp \in Nat /\ all \in Nat /\ MaxSyms + (sp + MaxTokens) < Word /\ sp + MaxTokens <= all
  BY <1>1, <1>3, SpentFacts
<1>5. MaxSyms + all <= Top
  BY <1>3 DEF TotalsFit, Spent
<1>6. MaxSyms + sp + len < Word /\ MaxSyms + sp + len <= Top
  BY <1>1, <1>2, <1>4, <1>5
<1> QED
  BY <1>3, <1>4, <1>6

\* The digits a flush would leave at any point of an attempt decode to its tokens.
LEMMA AttemptDecodes ==
  ASSUME TotalsFit, NEW B, Coding(B), open
  PROVE  \E d, m2 :
           /\ DecodeBlock(before, Model.n - before.n, Len(attempt), Flush(writer.coder))
                = ReaderAt(m2, d, attempt)
           /\ d.pos = Len(Flush(writer.coder))
<1>1. Archive(B) /\ Writing
  BY DEF Coding
<1>2. PICK m, b, len, i, sp, blob, toks :
        /\ m = Model /\ b = before /\ len = Len(attempt) /\ i = Len(records) /\ sp = Spent(i)
        /\ blob = Flush(writer.coder) /\ toks = attempt
  OBVIOUS
<1>3. /\ toks \in Seq(Nat) /\ len <= MaxTokens /\ len \in Nat /\ i < MaxRecords /\ b.n <= m.n
      /\ Sound(m, sp + len)
  BY <1>1, <1>2 DEF Writing
<1>4. PICK M, E : Attempted(M, E)
  BY <1>1 DEF Writing
<1>5. /\ sp \in Nat /\ Sound(b, sp) /\ MaxSyms + sp < Word /\ b.n \in Nat /\ i \in Nat /\ MaxRecords \in Nat
  BY <1>1, <1>2, ArchiveFacts, BoundsAssumption
<1>6. m.n \in Nat /\ m.n <= MaxSyms
  BY <1>3, ModelAssumption DEF Sound
<1>7. PICK new \in Nat : b.n + new = m.n /\ new = m.n - b.n
  <2>1. m.n - b.n \in Nat /\ b.n + (m.n - b.n) = m.n
    BY <1>3, <1>5, <1>6
  <2> QED
    BY <2>1
<1>8. PICK start : start = Grow(BeginChunk(b), b.n + new)
  OBVIOUS
<1>9. Sound(start, sp)
  BY <1>5, <1>6, <1>7, <1>8, BeginSound
<1>10. Trail(M, E, toks, start) /\ blob = Flush(E[Len(toks)])
  BY <1>2, <1>4, <1>7, <1>8 DEF Attempted
<1>11. Fits(M, E, toks, start, sp)
  <2>1. i \in 0 .. MaxRecords - 1
    BY <1>3, <1>5
  <2>2. MaxSyms + sp + Len(toks) < Word /\ MaxSyms + sp + Len(toks) <= Top
    BY <1>2, <1>3, <2>1, TotalsFitFacts
  <2> QED
    BY <1>5, <1>9, <1>10, <2>2 DEF Fits
<1>12. PICK d : /\ DecodeBlock(b, new, Len(toks), blob) = ReaderAt(M[Len(toks)], d, toks)
                /\ d.pos = Len(blob)
  BY ONLY <1>8, <1>10, <1>11, BlockDecodes
<1> QED
  BY <1>2, <1>7, <1>12

\* While every total fits the range, what has been coded of a chunk can be decoded from the
\* committed model alone, token for token and digit for digit (arith.rs encode_token,
\* decode_token, flush).
THEOREM StreamAlwaysDecodes ==
  ASSUME TotalsFit
  PROVE  Spec => []StreamDecodes
<1>1. CodingInv => StreamDecodes
  <2> SUFFICES ASSUME NEW B, Coding(B), open,
                      NEW blob, blob = Flush(writer.coder),
                      NEW r, r = DecodeBlock(before, Model.n - before.n, Len(attempt), blob)
               PROVE  r.ok /\ r.tokens = attempt /\ r.coder.pos = Len(blob)
    BY DEF CodingInv, StreamDecodes
  <2>1. PICK d, m2 : /\ r = ReaderAt(m2, d, attempt) /\ d.pos = Len(blob)
    BY AttemptDecodes
  <2> QED
    BY <2>1 DEF ReaderAt
<1> QED
  BY <1>1, CodingHolds, PTL

\* The reader has made of the archive what the writer meant.
Sync(B) ==
  /\ reader.ok /\ Same(reader.model, B[read])
  /\ read > 0 /\ records[read].kind = "G" => reader.tokens = records[read].sent

\* Both sides stay in step while the reader reads nothing.
LEMMA SyncStays ==
  ASSUME NEW B, NEW B2, Coding(B), Sync(B), [Next]_vars, ~ReadRecord, Agree(B, B2, Len(records))
  PROVE  Sync(B2)'
<1>1. Archive(B) /\ Reading(B)
  BY DEF Coding
<1>2. UNCHANGED <<reader, read>>
  BY DEF Next, OpenAttempt, CodeToken, Accept, Reject, Collect, vars
<1>3. records' = records \/ \E rec : records' = Append(records, rec)
  BY DEF Next, OpenAttempt, CodeToken, Accept, Reject, Collect, vars
<1>4. records \in Seq(Record) /\ read \in 0 .. Len(records) /\ Len(records) \in Nat
  BY <1>1, ArchiveFacts DEF Archive, Reading
<1>5. read > 0 => records'[read] = records[read]
  <2>1. CASE records' = records
    BY <2>1
  <2>2. CASE \E rec : records' = Append(records, rec)
    BY <1>4, <2>2
  <2> QED
    BY <1>3, <2>1, <2>2
<1>6. B2[read] = B[read]
  BY <1>4 DEF Agree
<1> QED
  BY <1>2, <1>5, <1>6 DEF Sync

\* Both sides are in step after every record.
LEMMA ReadSyncs ==
  ASSUME TotalsFit, NEW B, Coding(B), Sync(B), ReadRecord
  PROVE  Sync(B)'
<1>1. PICK rec, i : rec = records[read + 1] /\ i = read
  OBVIOUS
<1>2. /\ read < Len(records) /\ read' = read + 1 /\ records' = records
      /\ rec.kind = "G" => reader' = DecodeBlock(reader.model, rec.new, rec.count, rec.blob)
      /\ rec.kind # "G" => reader' = [reader EXCEPT !.model = ShrinkAlphabet(@, rec.n2), !.tokens = <<>>]
  BY <1>1 DEF ReadRecord
<1>3. Archive(B) /\ Reading(B)
  BY DEF Coding
<1>4. PICK m, b, b2, sp : m = reader.model /\ b = B[i] /\ b2 = B[i + 1] /\ sp = Spent(i)
  OBVIOUS
<1>5. i \in 0 .. Len(records) /\ Usable(reader, sp) /\ Same(m, b) /\ reader.ok
  BY <1>1, <1>3, <1>4 DEF Reading, Sync
<1>6. /\ Len(records) \in Nat /\ Len(records) <= MaxRecords /\ MaxRecords \in Nat /\ MaxTokens \in Nat
      /\ MaxSyms \in Nat /\ Word \in Nat
  BY <1>3, ArchiveFacts, BoundsAssumption, ModelAssumption, WordAssumption
<1>7. /\ i \in Nat /\ i \in 0 .. MaxRecords - 1 /\ i + 1 \in 1 .. Len(records) /\ (i + 1) - 1 = i
      /\ i + 1 > 0
  BY <1>1, <1>2, <1>5, <1>6
<1>8. rec \in Record /\ Leads(rec, b, b2) /\ Sound(b, sp)
  <2>1. /\ records \in Seq(Record) /\ \A k \in 1 .. Len(records) : Leads(records[k], B[k - 1], B[k])
        /\ \A k \in 0 .. Len(records) : Sound(B[k], Spent(k))
    BY <1>3 DEF Archive
  <2>2. Leads(records[i + 1], B[(i + 1) - 1], B[i + 1])
    BY <1>7, <2>1
  <2> QED
    BY <1>1, <1>4, <1>5, <1>7, <2>1, <2>2
<1>9. Sound(m, sp) /\ sp \in Nat /\ MaxSyms + sp < Word
  <2>1. sp \in Nat /\ MaxSyms + (sp + MaxTokens) < Word
    BY <1>4, <1>6, <1>7, SpentFacts
  <2>2. Sound(m, sp)
    BY <1>4, <1>5 DEF Usable
  <2> QED
    BY <1>6, <2>1, <2>2
<1>10. records'[read'] = rec /\ B[read'] = b2 /\ read' > 0
  BY <1>1, <1>2, <1>4, <1>7
<1>11. CASE rec.kind = "G"
  <2>1. PICK M, E : Codes(rec, b, b2, M, E)
    BY <1>8, <1>11 DEF Leads
  <2>2. PICK new, toks, blob, count : /\ new = rec.new /\ toks = rec.sent /\ blob = rec.blob
                                      /\ count = rec.count
    OBVIOUS
  <2>3. new \in Nat /\ count \in Nat /\ toks \in Seq(Nat)
    BY <1>8, <1>11, <2>2, BlockRecord
  <2>4. PICK start : start = Grow(BeginChunk(b), b.n + new)
    OBVIOUS
  <2>5. /\ b.n + new <= MaxSyms /\ count = Len(toks) /\ count <= MaxTokens
        /\ Trail(M, E, toks, start) /\ blob = Flush(E[Len(toks)]) /\ Same(b2, M[Len(toks)])
    BY <2>1, <2>2, <2>4 DEF Codes
  <2>6. start = Grow(BeginChunk(m), m.n + new)
    <3>1. m.n + new <= MaxSyms /\ MaxSyms + sp < Word
      BY <1>5, <1>9, <2>5 DEF Same
    <3>2. Grow(BeginChunk(m), m.n + new) = Grow(BeginChunk(b), b.n + new)
      BY <1>5, <1>8, <1>9, <2>3, <3>1, SameStart
    <3> QED
      BY <2>4, <3>2
  <2>7. Sound(start, sp)
    BY <1>8, <1>9, <2>3, <2>4, <2>5, BeginSound
  <2>8. Fits(M, E, toks, start, sp)
    <3>1. MaxSyms + sp + Len(toks) < Word /\ MaxSyms + sp + Len(toks) <= Top
      BY <1>4, <1>7, <2>3, <2>5, TotalsFitFacts
    <3> QED
      BY <1>9, <2>5, <2>7, <3>1 DEF Fits
  <2>9. PICK d : DecodeBlock(m, new, Len(toks), blob) = ReaderAt(M[Len(toks)], d, toks)
    BY ONLY <2>5, <2>6, <2>8, BlockDecodes
  <2>10. reader' = ReaderAt(M[Len(toks)], d, toks)
    BY <1>2, <1>4, <1>11, <2>2, <2>5, <2>9
  <2>11. reader'.ok /\ reader'.model = M[Len(toks)] /\ reader'.tokens = toks
    BY <2>10 DEF ReaderAt
  <2> QED
    BY <1>10, <2>2, <2>5, <2>11 DEF Sync, Same
<1>12. CASE rec.kind # "G"
  <2>1. rec.n2 \in NLit .. b.n /\ Same(b2, ShrinkAlphabet(b, rec.n2))
    BY <1>8, <1>12 DEF Leads
  <2>2. rec.n2 \in Nat
    BY <1>8, <2>1, ModelAssumption DEF Sound
  <2>3. PICK g, none : g = ShrinkAlphabet(m, rec.n2) /\ none = <<>>
    OBVIOUS
  <2>4. Same(g, b2)
    <3>1. Same(g, ShrinkAlphabet(b, rec.n2))
      BY <1>5, <1>8, <1>9, <2>2, <2>3, SameShrink
    <3> QED
      BY <2>1, <3>1 DEF Same
  <2>5. reader' = [reader EXCEPT !.model = g, !.tokens = none]
    BY <1>2, <1>4, <1>12, <2>3
  <2>6. reader = [model |-> reader.model, coder |-> reader.coder, tokens |-> reader.tokens, ok |-> reader.ok]
    BY <1>5 DEF Usable
  <2>7. reader'.model = g /\ reader'.ok = reader.ok
    BY <2>5, <2>6
  <2> QED
    BY <1>5, <1>10, <1>12, <2>4, <2>7 DEF Sync
<1> QED
  BY <1>11, <1>12

SyncInv == \E B : Coding(B) /\ Sync(B)

\* While every total fits the range, the reader never fails, gets every block's tokens, and
\* ends with the writer's committed model, count for count and node for node
\* (grammar.rs decompress).
THEOREM ReaderAlwaysInSync ==
  ASSUME TotalsFit
  PROVE  Spec => []ReaderInSync
<1>1. Init => SyncInv
  <2> SUFFICES ASSUME Init PROVE SyncInv
    OBVIOUS
  <2>1. PICK B : Coding(B) /\ Same(reader.model, B[0]) /\ reader.ok
    BY CodingStarts
  <2>2. read = 0
    BY DEF Init
  <2> QED
    BY <2>1, <2>2 DEF SyncInv, Sync
<1>2. SyncInv /\ [Next]_vars => SyncInv'
  <2> SUFFICES ASSUME NEW B, Coding(B), Sync(B), [Next]_vars PROVE SyncInv'
    BY DEF SyncInv
  <2>1. CASE ReadRecord
    <3>1. Coding(B)' /\ Sync(B)'
      BY <2>1, ReadKeeps, ReadSyncs
    <3> QED
      BY <3>1 DEF SyncInv
  <2>2. CASE ~ReadRecord
    <3>1. PICK B2 : Coding(B2)' /\ Agree(B, B2, Len(records))
      BY CodingSteps
    <3>2. Sync(B2)'
      BY <2>2, <3>1, SyncStays
    <3> QED
      BY <3>1, <3>2 DEF SyncInv
  <2> QED
    BY <2>1, <2>2
<1>3. SyncInv => ReaderInSync
  <2> SUFFICES ASSUME NEW B, Coding(B), Sync(B) PROVE ReaderInSync
    BY DEF SyncInv
  <2>1. Same(before, B[Len(records)])
    BY DEF Coding, Archive
  <2>2. read = Len(records) => Shared(reader.model) = Shared(before)
    BY <2>1 DEF Sync, Same, Shared
  <2> QED
    BY <2>2 DEF Sync, ReaderInSync
<1> QED
  BY <1>1, <1>2, <1>3, PTL DEF Spec

\* While every total fits the range, no symbol's share of it is empty (arith.rs
\* encode_step; without the bound the shares vanish, as a run shows).
THEOREM SharesStayPositive ==
  ASSUME TotalsFit
  PROVE  Spec => []NoZeroProbability
<1>1. CodingInv => NoZeroProbability
  <2> SUFFICES ASSUME NEW B, Coding(B), open, NEW s \in Symbol
               PROVE  EncodeToken(writer, s).coder.range > 0
    BY DEF CodingInv, NoZeroProbability
  <2>1. Archive(B) /\ Writing
    BY DEF Coding
  <2>2. PICK m, e, b, len, i, sp :
          /\ m = Model /\ e = writer.coder /\ b = before /\ len = Len(attempt)
          /\ i = Len(records) /\ sp = Spent(i)
    OBVIOUS
  <2>3. /\ attempt \in Seq(Nat) /\ len <= MaxTokens /\ len \in Nat /\ i < MaxRecords /\ b.n <= m.n
        /\ Sound(m, sp + len) /\ e \in TightCoder
    BY <2>1, <2>2 DEF Writing
  <2>4. PICK M, E : Attempted(M, E)
    BY <2>1 DEF Writing
  <2>5. /\ sp \in Nat /\ Sound(b, sp) /\ MaxSyms + sp < Word /\ b.n \in Nat /\ i \in Nat
        /\ MaxRecords \in Nat
    BY <2>1, <2>2, ArchiveFacts, BoundsAssumption
  <2>6. m.n \in Nat /\ m.n <= MaxSyms /\ MaxSyms \in Nat
    BY <2>3, ModelAssumption DEF Sound
  <2>7. PICK new \in Nat : b.n + new = m.n
    <3>1. m.n - b.n \in Nat /\ b.n + (m.n - b.n) = m.n
      BY <2>3, <2>5, <2>6
    <3> QED
      BY <3>1
  <2>8. PICK start : start = Grow(BeginChunk(b), m.n)
    OBVIOUS
  <2>9. Sound(start, sp)
    BY <2>5, <2>6, <2>7, <2>8, BeginSound
  <2>10. MaxSyms + sp + len < Word /\ MaxSyms + sp + len <= Top
    <3>1. i \in 0 .. MaxRecords - 1
      BY <2>3, <2>5
    <3> QED
      BY <2>2, <2>3, <3>1, TotalsFitFacts
  <2>11. Trail(M, E, attempt, start) /\ e = E[len]
    BY <2>2, <2>4, <2>8 DEF Attempted
  <2>12. Fits(M, E, attempt, start, sp)
    BY <2>2, <2>5, <2>9, <2>10, <2>11 DEF Fits
  <2>13. e.range >= Top
    <3>1. \A k \in 0 .. Len(attempt) : E[k].range >= Top
      BY <2>12, TrailRanges
    <3> QED
      BY <2>2, <2>3, <2>11, <3>1
  <2>14. PICK t, iv : t = RowOf(m) /\ iv = Interval(t, s)
    OBVIOUS
  <2>15. Row(t, m.n, MaxSyms) /\ t.total \in Nat /\ t.total <= m.n + (sp + len)
    BY <2>3, <2>5, <2>14, SoundRow DEF RowOf
  <2>16. s \in 0 .. m.n - 1
    BY <2>2 DEF Symbol
  <2>17. Part(iv) /\ iv.total = t.total
    BY <2>14, <2>15, <2>16, IntervalFacts
  <2>18. iv.total <= e.range
    <3>1. Top \in Nat
      BY FullFacts
    <3>2. e.range \in Nat
      BY <2>3 DEF TightCoder, Tight
    <3> QED
      BY <2>3, <2>5, <2>6, <2>10, <2>13, <2>15, <2>17, <3>1, <3>2
  <2>19. EncodeStep(e, iv).range >= Top
    BY <2>3, <2>17, <2>18, EncodeCoded
  <2>20. EncodeStep(e, iv).range > 0
    <3>1. EncodeStep(e, iv) \in TightCoder
      BY <2>3, <2>17, EncodeType
    <3>2. EncodeStep(e, iv).range \in Nat
      BY <3>1 DEF TightCoder, Tight
    <3>3. Top \in Nat /\ Top > 0
      BY FullFacts
    <3> QED
      BY <2>19, <3>2, <3>3
  <2>21. EncodeToken(writer, s).coder = EncodeStep(e, iv)
    BY <2>2, <2>14 DEF EncodeToken, RowOf, Model
  <2> QED
    BY <2>20, <2>21
<1> QED
  BY <1>1, CodingHolds, PTL
=============================================================================
