------------------------- MODULE StreamCodingProofs -------------------------
(***************************************************************************)
(* The stream coders for every alphabet, base, width, word, number of      *)
(* buckets and length of stream: the tables stay in balance, order-2       *)
(* tables taught late included, and while no total outgrows the range      *)
(* every stream decodes to what was sent and uses every digit written.     *)
(*                                                                         *)
(* The invariant says that the state has a history: the models and coders  *)
(* that the symbols sent so far lead through from a fresh writer.          *)
(***************************************************************************)
EXTENDS StreamCoding, CoderProofs


----------------------------------------------------------------------------
(* The tables of a model.                                                  *)

\* What the assumptions say of the numbers.
LEMMA Numbers ==
  /\ NLit \in Nat \ {0} /\ MaxSyms \in Nat /\ NLit <= MaxSyms /\ RuleCtx \in Nat \ {0}
  /\ HotRules \in Nat /\ Scatter \in Nat /\ Buckets \in Nat \ {0} /\ MinTotal \in Nat
  /\ MinSeen \in Nat /\ MaxStream \in Nat /\ Word \in Nat /\ MaxSyms + MaxStream < Word
  BY ModelAssumption, BlendAssumption, StreamsFit, WordAssumption

\* An alphabet has a symbol, and no more than a tree has nodes for.
LEMMA AlphabetFacts ==
  ASSUME NEW fl \in Flavors, NEW n \in Alphabets(fl)
  PROVE  n \in Nat \ {0} /\ NLit <= n /\ n <= MaxSyms
<1>1. n = NLit \/ n \in NLit .. MaxSyms
  BY DEF Alphabets
<1> QED
  BY <1>1, Numbers

\* The row of a symbol is one of the flavour's.
LEMMA NextRowFacts ==
  ASSUME NEW fl \in Flavors, NEW n \in Alphabets(fl), NEW s \in 0 .. n - 1
  PROVE  Contexts(fl) \in Nat \ {0} /\ NextRow(fl, s) \in 0 .. Contexts(fl) - 1
<1>1. s \in Nat /\ n \in Nat
  BY AlphabetFacts
<1>2. \A x \in Nat : x % RuleCtx \in 0 .. RuleCtx - 1
  BY Numbers
<1>3. \A a, b \in Nat : a * b \in Nat
  OBVIOUS
<1>4. TokenCtx(s) \in 0 .. NLit + RuleCtx
  <2>1. CASE s < NLit
    BY <1>1, <2>1, Numbers DEF TokenCtx
  <2>2. CASE ~(s < NLit)
    <3>1. s - NLit \in Nat
      BY <1>1, <2>2, Numbers
    <3>2. (s - NLit) * Scatter \in Nat
      BY <1>3, <3>1, Numbers
    <3>3. ((s - NLit) * Scatter) % RuleCtx \in 0 .. RuleCtx - 1
      BY <1>2, <3>2
    <3>4. TokenCtx(s) = NLit + (((s - NLit) * Scatter) % RuleCtx)
      BY <2>2 DEF TokenCtx
    <3> QED
      BY <3>3, <3>4, Numbers
  <2> QED
    BY <2>1, <2>2
<1>5. V4Ctx(s) \in 0 .. NLit + RuleCtx + HotRules
  <2>1. CASE s < NLit + HotRules
    BY <1>1, <2>1, Numbers DEF V4Ctx
  <2>2. CASE ~(s < NLit + HotRules)
    <3>1. s - NLit - HotRules \in Nat
      BY <1>1, <2>2, Numbers
    <3>2. (s - NLit - HotRules) * Scatter \in Nat
      BY <1>3, <3>1, Numbers
    <3>3. ((s - NLit - HotRules) * Scatter) % RuleCtx \in 0 .. RuleCtx - 1
      BY <1>2, <3>2
    <3>4. V4Ctx(s) = NLit + HotRules + (((s - NLit - HotRules) * Scatter) % RuleCtx)
      BY <2>2 DEF V4Ctx
    <3> QED
      BY <3>3, <3>4, Numbers
  <2> QED
    BY <2>1, <2>2
<1>6. NumContexts("V3") = NLit + RuleCtx + 1 /\ NumContexts("V4") = NLit + RuleCtx + 1 + HotRules
  BY Numbers DEF NumContexts
<1>7. CASE fl = "order0"
  BY <1>7 DEF Contexts, NextRow
<1>8. CASE fl = "bytes1"
  <2>1. Contexts(fl) = NLit + 1 /\ NextRow(fl, s) = s /\ n = NLit
    BY <1>8 DEF Contexts, NextRow, Alphabets
  <2> QED
    BY <1>1, <2>1, Numbers
<1>9. CASE fl = "context"
  <2>1. Contexts(fl) = NumContexts("V4") /\ NextRow(fl, s) = V4Ctx(s)
    BY <1>9 DEF Contexts, NextRow
  <2> QED
    BY <1>5, <1>6, <2>1, Numbers
<1>10. CASE fl \in {"tokens1", "blend"}
  <2>1. Contexts(fl) = NumContexts("V3") /\ NextRow(fl, s) = TokenCtx(s)
    BY <1>10 DEF Contexts, NextRow
  <2> QED
    BY <1>4, <1>6, <2>1, Numbers
<1> QED
  BY <1>7, <1>8, <1>9, <1>10 DEF Flavors

\* A table of n symbols that has seen no more than was coded.
Grown(t, n, used) == Row(t, n, n) /\ t.total <= n + used

\* An order-2 table, taught or not.
Heated(t, n, used) == t = Cold \/ Grown(t, n, used)

\* A taught table is active, and teaching it is safe while the tree fits.
LEMMA GrownFacts ==
  ASSUME NEW n \in Nat \ {0}, NEW used \in Nat, n + used + 1 < Word, NEW s \in 0 .. n - 1
  PROVE  /\ Grown(NewTable(n, n), n, used)
         /\ \A t : Grown(t, n, used) => /\ Grown(t, n, used + 1) /\ Grown(Update(t, s), n, used + 1)
                                        /\ t.total \in Nat \ {0} /\ Active(t)
         /\ ~Active(Cold)
<1>1. Word \in Nat /\ n \in Nat /\ n <= n /\ n < Word /\ n \in 1 .. n
  BY WordAssumption
<1>2. Row(NewTable(n, n), n, n) /\ NewTable(n, n).total = n
  BY <1>1, RowNew
<1>3. Grown(NewTable(n, n), n, used)
  BY <1>1, <1>2 DEF Grown
<1>4. ASSUME NEW t, Grown(t, n, used)
      PROVE  /\ Grown(t, n, used + 1) /\ Grown(Update(t, s), n, used + 1)
             /\ t.total \in Nat \ {0} /\ Active(t)
  <2>1. Row(t, n, n) /\ t.total <= n + used
    BY <1>4 DEF Grown
  <2>2. t.total \in Nat /\ n <= t.total
    BY <2>1, RowFacts
  <2>3. t.total + 1 < Word
    BY <1>1, <2>1, <2>2
  <2>4. Row(Update(t, s), n, n) /\ Update(t, s).total = t.total + 1
    BY <2>1, <2>3, RowUpdate
  <2>5. Grown(Update(t, s), n, used + 1)
    BY <1>1, <2>1, <2>2, <2>4 DEF Grown
  <2>6. Grown(t, n, used + 1)
    BY <1>1, <2>1, <2>2 DEF Grown
  <2> QED
    BY <1>1, <2>2, <2>5, <2>6 DEF Active
<1>5. ~Active(Cold)
  BY DEF Active, Cold
<1> QED
  BY <1>3, <1>4, <1>5

----------------------------------------------------------------------------
(* The model of a stream.                                                  *)

Slots    == 0 .. Buckets - 1
RowsOf(fl) == 0 .. Contexts(fl) - 1

\* The fields of a model.
Fields(m, n, rows, o2, seen, w1, w2, ctx, prev, prev2) ==
  m = [n |-> n, rows |-> rows, o2 |-> o2, seen |-> seen, wins1 |-> w1, wins2 |-> w2,
       ctx |-> ctx, prev |-> prev, prev2 |-> prev2]

\* Rows of n symbols each, one for every context of the flavour.
RowsGrown(rows, fl, n, used) ==
  /\ rows = [c \in RowsOf(fl) |-> rows[c]]
  /\ \A c \in RowsOf(fl) : Grown(rows[c], n, used)

\* Order-2 tables, and what is counted of them: only an active one has won or lost.
SlotsHeated(o2, seen, w1, w2, n, used) ==
  /\ o2 = [b \in Slots |-> o2[b]]
  /\ seen \in [Slots -> Nat] /\ w1 \in [Slots -> Nat] /\ w2 \in [Slots -> Nat]
  /\ \A b \in Slots : Heated(o2[b], n, used) /\ (w1[b] + w2[b] > 0 => Active(o2[b]))

\* A model that has learnt at most `used` symbols.
Sound(fl, m, used) ==
  /\ fl \in Flavors /\ used \in Nat /\ m.n \in Alphabets(fl)
  /\ Fields(m, m.n, m.rows, m.o2, m.seen, m.wins1, m.wins2, m.ctx, m.prev, m.prev2)
  /\ RowsGrown(m.rows, fl, m.n, used)
  /\ SlotsHeated(m.o2, m.seen, m.wins1, m.wins2, m.n, used)
  /\ m.ctx \in RowsOf(fl) /\ m.prev \in Nat /\ m.prev2 \in Nat

\* A fresh model has learnt nothing.
LEMMA FreshSound ==
  ASSUME NEW fl \in Flavors, NEW n \in Alphabets(fl)
  PROVE  Sound(fl, FreshCoder(fl, n), 0) /\ FreshCoder(fl, n).n = n
<1>1. n \in Nat \ {0} /\ n <= MaxSyms /\ n \in Nat /\ MaxSyms \in Nat /\ n + 0 = n /\ n \in 1 .. n
  BY AlphabetFacts, Numbers
<1>2. n < Word
  BY <1>1, Numbers
<1>3. Grown(NewTable(n, n), n, 0)
  BY <1>1, <1>2, RowNew DEF Grown
<1>4. 0 \in 0 .. n - 1
  BY <1>1
<1>5. Contexts(fl) \in Nat \ {0}
  BY <1>4, NextRowFacts
<1>6. PICK m : m = FreshCoder(fl, n)
  OBVIOUS
<1>7. PICK last, t, rows, o2, z : /\ last = Contexts(fl) - 1 /\ t = NewTable(n, n)
                                  /\ rows = [c \in RowsOf(fl) |-> t] /\ o2 = [b \in Slots |-> Cold]
                                  /\ z = [b \in Slots |-> 0]
  OBVIOUS
<1>8. Fields(m, n, rows, o2, z, z, z, last, last, last)
  BY <1>6, <1>7 DEF FreshCoder, Fields, RowsOf, Slots
<1>9. /\ m.n = n /\ m.rows = rows /\ m.o2 = o2 /\ m.seen = z /\ m.wins1 = z /\ m.wins2 = z
      /\ m.ctx = last /\ m.prev = last /\ m.prev2 = last
  BY <1>8 DEF Fields
<1>10. RowsGrown(rows, fl, n, 0)
  BY <1>3, <1>7 DEF RowsGrown
<1>11. SlotsHeated(o2, z, z, z, n, 0)
  BY <1>7 DEF SlotsHeated, Heated
<1>12. last \in RowsOf(fl) /\ last \in Nat
  BY <1>5, <1>7 DEF RowsOf
<1> QED
  BY <1>6, <1>8, <1>9, <1>10, <1>11, <1>12 DEF Sound

\* The bucket of a model is one of the buckets.
LEMMA BucketFacts ==
  ASSUME NEW fl, NEW m, NEW used, Sound(fl, m, used)
  PROVE  Bucket(m) \in Slots
<1>1. m.prev + 2 * m.prev2 \in Nat
  BY DEF Sound
<1>2. \A x \in Nat : x % Buckets \in 0 .. Buckets - 1
  BY Numbers
<1> QED
  BY <1>1, <1>2 DEF Bucket, O2Bucket, Slots

\* The table picked for the next symbol has been taught.
LEMMA TableFacts ==
  ASSUME NEW fl, NEW m, NEW used, Sound(fl, m, used)
  PROVE  /\ Grown(TableOf(fl, m), m.n, used)
         /\ Grown(m.rows[m.ctx], m.n, used)
<1>1. PICK b : b = Bucket(m)
  OBVIOUS
<1>2. b \in Slots
  BY <1>1, BucketFacts
<1>3. Grown(m.rows[m.ctx], m.n, used)
  BY DEF Sound, RowsGrown
<1>4. /\ Heated(m.o2[b], m.n, used) /\ (m.wins1[b] + m.wins2[b] > 0 => Active(m.o2[b]))
      /\ m.wins1[b] \in Nat /\ m.wins2[b] \in Nat
  BY <1>2 DEF Sound, SlotsHeated
<1>5. CASE UseOrder2(fl, m)
  <2>1. m.wins2[b] > m.wins1[b]
    BY <1>1, <1>5 DEF UseOrder2
  <2>2. Active(m.o2[b])
    BY <1>4, <2>1
  <2>3. m.o2[b] # Cold
    BY <2>2 DEF Active, Cold
  <2> QED
    BY <1>1, <1>3, <1>4, <1>5, <2>3 DEF TableOf, Heated
<1>6. CASE ~UseOrder2(fl, m)
  BY <1>3, <1>6 DEF TableOf
<1> QED
  BY <1>3, <1>5, <1>6

----------------------------------------------------------------------------
(* Learning a symbol.                                                      *)

\* The rows after a symbol is taught to one of them.
LEMMA RowsLearn ==
  ASSUME NEW rows, NEW fl, NEW n \in Nat \ {0}, NEW used \in Nat, RowsGrown(rows, fl, n, used),
         n + used + 1 < Word, NEW c \in RowsOf(fl), NEW s \in 0 .. n - 1
  PROVE  RowsGrown([rows EXCEPT ![c] = Update(rows[c], s)], fl, n, used + 1)
<1>1. PICK t : t = Update(rows[c], s)
  OBVIOUS
<1>2. Grown(t, n, used + 1)
  BY <1>1, GrownFacts DEF RowsGrown
<1>3. PICK r2 : r2 = [rows EXCEPT ![c] = t]
  OBVIOUS
<1>4. /\ r2 = [a \in RowsOf(fl) |-> r2[a]]
      /\ \A a \in RowsOf(fl) : r2[a] = IF a = c THEN t ELSE rows[a]
  BY <1>3 DEF RowsGrown
<1>5. \A a \in RowsOf(fl) : Grown(rows[a], n, used + 1)
  BY GrownFacts DEF RowsGrown
<1> QED
  BY <1>1, <1>2, <1>3, <1>4, <1>5 DEF RowsGrown

\* One bucket has table t, and it alone is counted anew.
SlotTaught(h, x1, x2, o2, w1, w2, b, t) ==
  /\ h = [o2 EXCEPT ![b] = t]
  /\ x1 \in [Slots -> Nat] /\ x2 \in [Slots -> Nat]
  /\ \A a \in Slots \ {b} : x1[a] = w1[a] /\ x2[a] = w2[a]

\* The order-2 tables after one of them is taught.
LEMMA SlotsLearn ==
  ASSUME NEW o2, NEW seen, NEW w1, NEW w2, NEW n \in Nat \ {0}, NEW used \in Nat,
         SlotsHeated(o2, seen, w1, w2, n, used), n + used + 1 < Word,
         NEW b \in Slots, NEW t, Grown(t, n, used + 1), NEW seen2 \in [Slots -> Nat],
         NEW h, NEW x1, NEW x2, SlotTaught(h, x1, x2, o2, w1, w2, b, t)
  PROVE  SlotsHeated(h, seen2, x1, x2, n, used + 1)
<1>1. /\ h = [o2 EXCEPT ![b] = t] /\ x1 \in [Slots -> Nat] /\ x2 \in [Slots -> Nat]
      /\ \A a \in Slots \ {b} : x1[a] = w1[a] /\ x2[a] = w2[a]
  BY DEF SlotTaught
<1>2. h = [a \in Slots |-> h[a]] /\ \A a \in Slots : h[a] = IF a = b THEN t ELSE o2[a]
  BY <1>1 DEF SlotsHeated
<1>3. t.total \in Nat \ {0}
  <2>1. Row(t, n, n)
    BY DEF Grown
  <2>2. t.total \in Nat /\ n <= t.total
    BY <2>1, RowFacts
  <2> QED
    BY <2>2
<1>4. ASSUME NEW a \in Slots
      PROVE  Heated(h[a], n, used + 1) /\ (x1[a] + x2[a] > 0 => Active(h[a]))
  <2>1. CASE a = b
    BY <1>2, <1>3, <2>1 DEF Heated, Active
  <2>2. CASE a # b
    <3>1. h[a] = o2[a] /\ x1[a] = w1[a] /\ x2[a] = w2[a]
      BY <1>1, <1>2, <2>2
    <3>2. Heated(o2[a], n, used) /\ (w1[a] + w2[a] > 0 => Active(o2[a]))
      BY DEF SlotsHeated
    <3>3. 0 \in 0 .. n - 1
      OBVIOUS
    <3>4. Heated(o2[a], n, used + 1)
      BY <3>2, <3>3, GrownFacts DEF Heated
    <3> QED
      BY <3>1, <3>2, <3>4
  <2> QED
    BY <2>1, <2>2
<1> QED
  BY <1>1, <1>2, <1>4 DEF SlotsHeated

\* What a symbol may leave of a model before it moves on: a row and a bucket are taught.
Taught(g, m, t1, used) ==
  \E h, seen, x1, x2 :
    /\ Fields(g, m.n, [m.rows EXCEPT ![m.ctx] = t1], h, seen, x1, x2, m.ctx, m.prev, m.prev2)
    /\ SlotsHeated(h, seen, x1, x2, m.n, used)

\* Counting one more of a bucket.
LEMMA CountOne ==
  ASSUME NEW w \in [Slots -> Nat], NEW b \in Slots
  PROVE  /\ [w EXCEPT ![b] = @ + 1] \in [Slots -> Nat]
         /\ \A a \in Slots \ {b} : [w EXCEPT ![b] = @ + 1][a] = w[a]
  OBVIOUS

\* arith.rs's blend teaches the row and the bucket.
LEMMA BlendTeaches ==
  ASSUME NEW fl, NEW m, NEW used, Sound(fl, m, used), MaxSyms + used + 1 < Word,
         NEW s \in 0 .. m.n - 1
  PROVE  Taught(LearnBlend(m, s), m, Update(m.rows[m.ctx], s), used + 1)
<1>1. PICK b, n, t1 : b = Bucket(m) /\ n = m.n /\ t1 = Update(m.rows[m.ctx], s)
  OBVIOUS
<1>2. PICK t2 : t2 = IF Active(m.o2[b]) THEN Update(m.o2[b], s) ELSE Update(NewTable(n, n), s)
  OBVIOUS
<1>3. PICK first \in BOOLEAN : first = (~Active(m.o2[b]) \/ Share(t1, t2, s) > Share(t2, t1, s))
  OBVIOUS
<1>4. n \in Nat \ {0} /\ used \in Nat /\ n + used + 1 < Word /\ s \in 0 .. n - 1 /\ b \in Slots
  <2>1. n \in Nat \ {0} /\ n <= MaxSyms
    BY <1>1, AlphabetFacts DEF Sound
  <2>2. used \in Nat
    BY DEF Sound
  <2>3. b \in Slots
    BY <1>1, BucketFacts
  <2>4. MaxSyms \in Nat /\ Word \in Nat
    BY Numbers
  <2> QED
    BY <1>1, <2>1, <2>2, <2>3, <2>4
<1>5. SlotsHeated(m.o2, m.seen, m.wins1, m.wins2, n, used)
  BY <1>1 DEF Sound
<1>6. Grown(t2, n, used + 1)
  <2>1. Heated(m.o2[b], n, used)
    BY <1>4, <1>5 DEF SlotsHeated
  <2>2. CASE Active(m.o2[b])
    BY <1>2, <1>4, <2>1, <2>2, GrownFacts DEF Heated
  <2>3. CASE ~Active(m.o2[b])
    BY <1>2, <1>4, <2>3, GrownFacts
  <2> QED
    BY <2>2, <2>3
<1>7. PICK h, x1, x2 : /\ h = [m.o2 EXCEPT ![b] = t2]
                       /\ x1 = IF first THEN [m.wins1 EXCEPT ![b] = @ + 1] ELSE m.wins1
                       /\ x2 = IF first THEN m.wins2 ELSE [m.wins2 EXCEPT ![b] = @ + 1]
  OBVIOUS
<1>8. /\ m.seen \in [Slots -> Nat] /\ x1 \in [Slots -> Nat] /\ x2 \in [Slots -> Nat]
      /\ \A a \in Slots \ {b} : x1[a] = m.wins1[a] /\ x2[a] = m.wins2[a]
  <2>1. m.seen \in [Slots -> Nat] /\ m.wins1 \in [Slots -> Nat] /\ m.wins2 \in [Slots -> Nat]
    BY <1>5 DEF SlotsHeated
  <2> QED
    BY <1>4, <1>7, <2>1, CountOne
<1>9. SlotsHeated(h, m.seen, x1, x2, n, used + 1)
  <2>1. SlotTaught(h, x1, x2, m.o2, m.wins1, m.wins2, b, t2)
    BY <1>7, <1>8 DEF SlotTaught
  <2>2. m.seen \in [Slots -> Nat]
    BY <1>8
  <2> QED
    BY ONLY <1>4, <1>5, <1>6, <2>1, <2>2, SlotsLearn
<1>10. PICK r2 : r2 = [m.rows EXCEPT ![m.ctx] = t1]
  OBVIOUS
<1>11. LearnBlend(m, s) = [m EXCEPT !.rows = r2, !.o2 = h, !.wins1 = x1, !.wins2 = x2]
  <2> DEFINE With(rows, o2, w1, w2) ==
               [m EXCEPT !.rows = rows, !.o2 = o2, !.wins1 = w1, !.wins2 = w2]
  <2>1. LearnBlend(m, s) = With([m.rows EXCEPT ![m.ctx] = t1], [m.o2 EXCEPT ![b] = t2],
                                [m.wins1 EXCEPT ![b] = IF first THEN @ + 1 ELSE @],
                                [m.wins2 EXCEPT ![b] = IF first THEN @ ELSE @ + 1])
    BY <1>1, <1>2, <1>3 DEF LearnBlend
  <2>2. /\ [m.wins1 EXCEPT ![b] = IF first THEN @ + 1 ELSE @] = x1
        /\ [m.wins2 EXCEPT ![b] = IF first THEN @ ELSE @ + 1] = x2
    <3>1. m.wins1 \in [Slots -> Nat] /\ m.wins2 \in [Slots -> Nat]
      BY <1>5 DEF SlotsHeated
    <3> QED
      BY <1>4, <1>7, <3>1
  <2>3. With(r2, h, x1, x2) = [m EXCEPT !.rows = r2, !.o2 = h, !.wins1 = x1, !.wins2 = x2]
    OBVIOUS
  <2> HIDE DEF With
  <2>4. LearnBlend(m, s) = With(r2, h, x1, x2)
    BY ONLY <1>7, <1>10, <2>1, <2>2
  <2> QED
    BY ONLY <2>3, <2>4
<1>12. Fields(LearnBlend(m, s), n, r2, h, m.seen, x1, x2, m.ctx, m.prev, m.prev2)
  BY <1>1, <1>11 DEF Sound, Fields
<1> QED
  BY <1>1, <1>9, <1>10, <1>12 DEF Taught

\* context.rs's blend teaches them too, with another verdict.
LEMMA ContextTeaches ==
  ASSUME NEW fl, NEW m, NEW used, Sound(fl, m, used), MaxSyms + used + 1 < Word,
         NEW s \in 0 .. m.n - 1
  PROVE  Taught(LearnContext(m, s), m, Update(m.rows[m.ctx], s), used + 1)
<1>1. PICK b, n, t1, o : b = Bucket(m) /\ n = m.n /\ t1 = m.rows[m.ctx] /\ o = m.o2[b]
  OBVIOUS
<1>2. PICK t2, u1 : /\ t2 = Update(IF Active(o) THEN o ELSE NewTable(n, n), s)
                    /\ u1 = Update(t1, s)
  OBVIOUS
<1>3. PICK second \in BOOLEAN : second = (Active(o) /\ Share(o, t1, s) > Share(t1, o, s))
  OBVIOUS
<1>4. n \in Nat \ {0} /\ used \in Nat /\ n + used + 1 < Word /\ s \in 0 .. n - 1 /\ b \in Slots
  <2>1. n \in Nat \ {0} /\ n <= MaxSyms
    BY <1>1, AlphabetFacts DEF Sound
  <2>2. used \in Nat
    BY DEF Sound
  <2>3. b \in Slots
    BY <1>1, BucketFacts
  <2>4. MaxSyms \in Nat /\ Word \in Nat
    BY Numbers
  <2> QED
    BY <1>1, <2>1, <2>2, <2>3, <2>4
<1>5. SlotsHeated(m.o2, m.seen, m.wins1, m.wins2, n, used)
  BY <1>1 DEF Sound
<1>6. Grown(t2, n, used + 1)
  <2>1. Heated(o, n, used)
    BY <1>1, <1>4, <1>5 DEF SlotsHeated
  <2>2. CASE Active(o)
    BY <1>2, <1>4, <2>1, <2>2, GrownFacts DEF Heated
  <2>3. CASE ~Active(o)
    BY <1>2, <1>4, <2>3, GrownFacts
  <2> QED
    BY <2>2, <2>3
<1>7. PICK h, y, x1, x2 :
        /\ h = [m.o2 EXCEPT ![b] = t2] /\ y = [m.seen EXCEPT ![b] = @ + 1]
        /\ x1 = IF Active(o) /\ ~second THEN [m.wins1 EXCEPT ![b] = @ + 1] ELSE m.wins1
        /\ x2 = IF second THEN [m.wins2 EXCEPT ![b] = @ + 1] ELSE m.wins2
  OBVIOUS
<1>8. /\ y \in [Slots -> Nat] /\ x1 \in [Slots -> Nat] /\ x2 \in [Slots -> Nat]
      /\ \A a \in Slots \ {b} : x1[a] = m.wins1[a] /\ x2[a] = m.wins2[a]
  <2>1. m.seen \in [Slots -> Nat] /\ m.wins1 \in [Slots -> Nat] /\ m.wins2 \in [Slots -> Nat]
    BY <1>5 DEF SlotsHeated
  <2> QED
    BY <1>4, <1>7, <2>1, CountOne
<1>9. SlotsHeated(h, y, x1, x2, n, used + 1)
  <2>1. SlotTaught(h, x1, x2, m.o2, m.wins1, m.wins2, b, t2)
    BY <1>7, <1>8 DEF SlotTaught
  <2>2. y \in [Slots -> Nat]
    BY <1>8
  <2> QED
    BY ONLY <1>4, <1>5, <1>6, <2>1, <2>2, SlotsLearn
<1>10. PICK r2 : r2 = [m.rows EXCEPT ![m.ctx] = u1]
  OBVIOUS
<1>11. LearnContext(m, s) = [m EXCEPT !.rows = r2, !.o2 = h, !.seen = y, !.wins1 = x1, !.wins2 = x2]
  <2>1. LearnContext(m, s) = [m EXCEPT !.rows[m.ctx] = u1, !.o2[b] = t2, !.seen[b] = @ + 1,
                                       !.wins1[b] = IF Active(o) /\ ~second THEN @ + 1 ELSE @,
                                       !.wins2[b] = IF second THEN @ + 1 ELSE @]
    BY <1>1, <1>2, <1>3 DEF LearnContext
  <2>2. /\ [m.wins1 EXCEPT ![b] = IF Active(o) /\ ~second THEN @ + 1 ELSE @] = x1
        /\ [m.wins2 EXCEPT ![b] = IF second THEN @ + 1 ELSE @] = x2
    <3>1. m.wins1 \in [Slots -> Nat] /\ m.wins2 \in [Slots -> Nat]
      BY <1>5 DEF SlotsHeated
    <3> QED
      BY <1>4, <1>7, <3>1
  <2>3. PICK z1, z2 : /\ z1 = [m.wins1 EXCEPT ![b] = IF Active(o) /\ ~second THEN @ + 1 ELSE @]
                      /\ z2 = [m.wins2 EXCEPT ![b] = IF second THEN @ + 1 ELSE @]
    OBVIOUS
  <2>4. LearnContext(m, s) =
          [m EXCEPT !.rows = r2, !.o2 = h, !.seen = y, !.wins1 = z1, !.wins2 = z2]
    BY ONLY <1>7, <1>10, <2>1, <2>3
  <2>5. z1 = x1 /\ z2 = x2
    BY ONLY <2>2, <2>3
  <2> QED
    BY ONLY <2>4, <2>5
<1>12. Fields(LearnContext(m, s), n, r2, h, y, x1, x2, m.ctx, m.prev, m.prev2)
  BY <1>1, <1>11 DEF Sound, Fields
<1> QED
  BY <1>1, <1>2, <1>9, <1>10, <1>12 DEF Taught

\* The coders without order-2 tables teach the row alone.
LEMMA RowTeaches ==
  ASSUME NEW fl, NEW m, NEW used, Sound(fl, m, used), MaxSyms + used + 1 < Word,
         NEW s \in 0 .. m.n - 1
  PROVE  Taught([m EXCEPT !.rows[m.ctx] = Update(@, s)], m, Update(m.rows[m.ctx], s), used + 1)
<1>1. PICK g, r2, n : /\ g = [m EXCEPT !.rows[m.ctx] = Update(@, s)] /\ n = m.n
                      /\ r2 = [m.rows EXCEPT ![m.ctx] = Update(m.rows[m.ctx], s)]
  OBVIOUS
<1>2. g = [m EXCEPT !.rows = r2]
  BY <1>1
<1>3. Fields(g, n, r2, m.o2, m.seen, m.wins1, m.wins2, m.ctx, m.prev, m.prev2)
  BY <1>1, <1>2 DEF Sound, Fields
<1>4. SlotsHeated(m.o2, m.seen, m.wins1, m.wins2, n, used + 1)
  <2>1. n \in Nat \ {0} /\ n <= MaxSyms /\ used \in Nat
    BY <1>1, AlphabetFacts DEF Sound
  <2>2. n + used + 1 < Word /\ 0 \in 0 .. n - 1
    BY <2>1, Numbers
  <2>3. SlotsHeated(m.o2, m.seen, m.wins1, m.wins2, n, used)
    BY <1>1 DEF Sound
  <2>4. \A t : Heated(t, n, used) => Heated(t, n, used + 1)
    BY <2>1, <2>2, GrownFacts DEF Heated
  <2> QED
    BY <2>3, <2>4 DEF SlotsHeated
<1> QED
  BY <1>1, <1>3, <1>4 DEF Taught

\* A symbol leaves a sound model of the same alphabet.
LEMMA LearnSound ==
  ASSUME NEW fl, NEW m, NEW used, Sound(fl, m, used), MaxSyms + used + 1 < Word,
         NEW s \in 0 .. m.n - 1
  PROVE  Sound(fl, LearnSymbol(fl, m, s), used + 1) /\ LearnSymbol(fl, m, s).n = m.n
<1>1. fl \in Flavors /\ used \in Nat /\ m.n \in Alphabets(fl)
  BY DEF Sound
<1>2. PICK g : g = CASE fl = "blend"   -> LearnBlend(m, s)
                     [] fl = "context" -> LearnContext(m, s)
                     [] OTHER          -> [m EXCEPT !.rows[m.ctx] = Update(@, s)]
  OBVIOUS
<1>3. PICK n, r2 : n = m.n /\ r2 = [m.rows EXCEPT ![m.ctx] = Update(m.rows[m.ctx], s)]
  OBVIOUS
<1>4. Taught(g, m, Update(m.rows[m.ctx], s), used + 1)
  <2>1. CASE fl = "blend"
    BY <1>2, <2>1, BlendTeaches
  <2>2. CASE fl = "context"
    BY <1>2, <2>2, ContextTeaches
  <2>3. CASE fl \notin {"blend", "context"}
    <3>1. g = [m EXCEPT !.rows[m.ctx] = Update(@, s)]
      BY <1>2, <2>3
    <3> QED
      BY <3>1, RowTeaches
  <2> QED
    BY <2>1, <2>2, <2>3
<1>5. PICK h, seen, x1, x2 :
        /\ Fields(g, n, r2, h, seen, x1, x2, m.ctx, m.prev, m.prev2)
        /\ SlotsHeated(h, seen, x1, x2, n, used + 1)
  BY <1>3, <1>4 DEF Taught
<1>6. PICK g2, c2 : g2 = LearnSymbol(fl, m, s) /\ c2 = NextRow(fl, s)
  OBVIOUS
<1>7. g2 = [g EXCEPT !.prev2 = g.prev, !.prev = s, !.ctx = c2]
  BY <1>2, <1>6 DEF LearnSymbol, Advance
<1>8. Fields(g2, n, r2, h, seen, x1, x2, c2, s, m.prev)
  BY ONLY <1>5, <1>7 DEF Fields
<1>9. /\ g2.n = n /\ g2.rows = r2 /\ g2.o2 = h /\ g2.seen = seen /\ g2.wins1 = x1 /\ g2.wins2 = x2
      /\ g2.ctx = c2 /\ g2.prev = s /\ g2.prev2 = m.prev
  BY ONLY <1>8 DEF Fields
<1>10. n \in Nat \ {0} /\ n <= MaxSyms /\ n + used + 1 < Word
  <2>1. n \in Nat \ {0} /\ n <= MaxSyms
    BY <1>1, <1>3, AlphabetFacts
  <2> QED
    BY <1>1, <2>1, Numbers
<1>11. RowsGrown(r2, fl, n, used + 1)
  <2>1. RowsGrown(m.rows, fl, n, used) /\ m.ctx \in RowsOf(fl)
    BY <1>3 DEF Sound
  <2>2. s \in 0 .. n - 1
    BY <1>3
  <2> QED
    BY <1>1, <1>3, <1>10, <2>1, <2>2, RowsLearn
<1>12. c2 \in RowsOf(fl) /\ s \in Nat /\ m.prev \in Nat
  <2>1. c2 \in RowsOf(fl)
    BY <1>1, <1>6, NextRowFacts DEF RowsOf
  <2>2. s \in Nat
    BY <1>3, <1>10
  <2>3. m.prev \in Nat
    BY DEF Sound
  <2> QED
    BY <2>1, <2>2, <2>3
<1>13. used + 1 \in Nat /\ n \in Alphabets(fl)
  BY <1>1, <1>3
<1>14. Sound(fl, g2, used + 1)
  BY ONLY <1>1, <1>5, <1>8, <1>9, <1>11, <1>12, <1>13 DEF Sound
<1> QED
  BY <1>3, <1>6, <1>9, <1>14

----------------------------------------------------------------------------
(* The history of a stream, on the writer's side.                          *)

\* The models and coders that the symbols lead through.
Trail(fl, M, E, toks, n) ==
  /\ toks \in Seq(Nat) /\ M[0] = FreshCoder(fl, n) /\ E[0] = EncoderNew
  /\ \A k \in 1 .. Len(toks) :
       /\ toks[k] \in 0 .. n - 1
       /\ M[k] = LearnSymbol(fl, M[k - 1], toks[k])
       /\ E[k] = EncodeStep(E[k - 1], Interval(TableOf(fl, M[k - 1]), toks[k]))

\* A trail from a fresh writer whose trees never wrap.
Fresh(fl, M, E, toks, n) ==
  /\ fl \in Flavors /\ n \in Alphabets(fl) /\ Trail(fl, M, E, toks, n)
  /\ MaxSyms + Len(toks) < Word

\* All along a trail the models are sound.
LEMMA TrailFacts ==
  ASSUME NEW fl, NEW M, NEW E, NEW toks, NEW n, Fresh(fl, M, E, toks, n)
  PROVE  \A k \in 0 .. Len(toks) : Sound(fl, M[k], k) /\ M[k].n = n
<1>1. /\ fl \in Flavors /\ n \in Alphabets(fl) /\ Trail(fl, M, E, toks, n)
      /\ MaxSyms + Len(toks) < Word
  BY DEF Fresh
<1>2. PICK len \in Nat : len = Len(toks)
  BY <1>1 DEF Trail
<1> DEFINE S == {k \in Nat : Sound(fl, M[k], k) /\ M[k].n = n}
<1>3. 0 \in S
  BY <1>1, FreshSound DEF Trail
<1>4. ASSUME NEW k \in 0 .. len - 1, k \in S PROVE k + 1 \in S
  <2>1. k + 1 \in 1 .. len /\ (k + 1) - 1 = k /\ k + 1 \in Nat /\ MaxSyms + k + 1 < Word
    BY <1>1, <1>2, Numbers
  <2>2. PICK m, s : m = M[k] /\ s = toks[k + 1]
    OBVIOUS
  <2>3. Sound(fl, m, k) /\ m.n = n
    BY <1>4, <2>2
  <2>4. s \in 0 .. m.n - 1 /\ M[k + 1] = LearnSymbol(fl, m, s)
    BY <1>1, <1>2, <2>1, <2>2, <2>3 DEF Trail
  <2>5. Sound(fl, LearnSymbol(fl, m, s), k + 1) /\ LearnSymbol(fl, m, s).n = m.n
    BY <2>1, <2>3, <2>4, LearnSound
  <2> QED
    BY <2>1, <2>3, <2>4, <2>5
<1> HIDE DEF S
<1>5. \A k \in 0 .. len : k \in S
  BY <1>2, <1>3, <1>4, InductionUpTo
<1> QED
  BY <1>2, <1>5 DEF S

\* One symbol more.
LEMMA TrailMore ==
  ASSUME NEW fl, NEW M, NEW E, NEW toks, NEW n \in Nat, Trail(fl, M, E, toks, n),
         NEW s \in 0 .. n - 1
  PROVE  \E M2, E2 :
           /\ Trail(fl, M2, E2, Append(toks, s), n)
           /\ M2[Len(toks) + 1] = LearnSymbol(fl, M[Len(toks)], s)
           /\ E2[Len(toks) + 1] = EncodeStep(E[Len(toks)], Interval(TableOf(fl, M[Len(toks)]), s))
<1>1. PICK len \in Nat : len = Len(toks)
  BY DEF Trail
<1>2. PICK m, e : /\ m = LearnSymbol(fl, M[len], s)
                  /\ e = EncodeStep(E[len], Interval(TableOf(fl, M[len]), s))
  OBVIOUS
<1> DEFINE M2 == [k \in 0 .. len + 1 |-> IF k = len + 1 THEN m ELSE M[k]]
           E2 == [k \in 0 .. len + 1 |-> IF k = len + 1 THEN e ELSE E[k]]
<1>3. \A k \in 0 .. len : M2[k] = M[k] /\ E2[k] = E[k]
  BY <1>1
<1>4. M2[len + 1] = m /\ E2[len + 1] = e
  BY <1>1
<1> HIDE DEF M2, E2
<1>5. PICK t2 : t2 = Append(toks, s)
  OBVIOUS
<1>6. /\ t2 \in Seq(Nat) /\ Len(t2) = len + 1 /\ t2[len + 1] = s
      /\ \A k \in 1 .. len : t2[k] = toks[k]
  <2>1. s \in Nat /\ toks \in Seq(Nat)
    BY DEF Trail
  <2> QED
    BY <1>1, <1>5, <2>1
<1>7. M2[0] = FreshCoder(fl, n) /\ E2[0] = EncoderNew
  <2>1. 0 \in 0 .. len
    BY <1>1
  <2> QED
    BY <1>3, <2>1 DEF Trail
<1>8. ASSUME NEW k \in 1 .. len + 1
      PROVE  /\ t2[k] \in 0 .. n - 1
             /\ M2[k] = LearnSymbol(fl, M2[k - 1], t2[k])
             /\ E2[k] = EncodeStep(E2[k - 1], Interval(TableOf(fl, M2[k - 1]), t2[k]))
  <2>1. CASE k = len + 1
    <3>1. k - 1 = len /\ len \in 0 .. len
      BY <1>1, <2>1
    <3>2. M2[k - 1] = M[len] /\ E2[k - 1] = E[len] /\ t2[k] = s
      BY <1>3, <1>6, <2>1, <3>1
    <3> QED
      BY <1>2, <1>4, <2>1, <3>2
  <2>2. CASE k # len + 1
    <3>1. k \in 1 .. len /\ k - 1 \in 0 .. len /\ k \in 0 .. len
      BY <1>1, <2>2
    <3>2. /\ M2[k - 1] = M[k - 1] /\ E2[k - 1] = E[k - 1] /\ t2[k] = toks[k]
          /\ M2[k] = M[k] /\ E2[k] = E[k]
      BY <1>3, <1>6, <3>1
    <3> QED
      BY <1>1, <3>1, <3>2 DEF Trail
  <2> QED
    BY <2>1, <2>2
<1>9. Trail(fl, M2, E2, t2, n)
  BY <1>6, <1>7, <1>8 DEF Trail
<1> QED
  BY <1>1, <1>2, <1>4, <1>5, <1>9

\* The state is what the symbols sent lead to from a fresh writer.
History(M, E) ==
  /\ flavor \in Flavors /\ coding = [model |-> coding.model, coder |-> coding.coder]
  /\ coding.model.n \in Alphabets(flavor)
  /\ Trail(flavor, M, E, sent, coding.model.n) /\ Len(sent) <= MaxStream
  /\ M[Len(sent)] = coding.model /\ E[Len(sent)] = coding.coder

IInv == \E M, E : History(M, E)

\* A history is a trail whose trees never wrap.
LEMMA HistoryFacts ==
  ASSUME NEW M, NEW E, History(M, E)
  PROVE  /\ Fresh(flavor, M, E, sent, coding.model.n)
         /\ Len(sent) \in Nat /\ Sound(flavor, coding.model, Len(sent))
         /\ coding.model.n \in Nat \ {0} /\ coding.model.n <= MaxSyms
<1>1. Len(sent) \in Nat /\ Len(sent) <= MaxStream
  BY DEF History, Trail
<1>2. MaxSyms + Len(sent) < Word
  BY <1>1, Numbers
<1>3. Fresh(flavor, M, E, sent, coding.model.n)
  BY <1>2 DEF History, Fresh
<1>4. Sound(flavor, M[Len(sent)], Len(sent))
  <2>1. Len(sent) \in 0 .. Len(sent)
    BY <1>1
  <2> QED
    BY <1>3, <2>1, TrailFacts
<1>5. flavor \in Flavors /\ coding.model.n \in Alphabets(flavor)
  BY DEF History
<1> QED
  BY <1>1, <1>3, <1>4, <1>5, AlphabetFacts DEF History

\* Nothing sent is a history of its own.
LEMMA HistoryStarts == Init => IInv
<1> SUFFICES ASSUME Init PROVE IInv
  OBVIOUS
<1>1. PICK n \in Alphabets(flavor) : coding = FreshWriter(flavor, n)
  BY DEF Init
<1>2. flavor \in Flavors /\ sent = <<>> /\ Len(sent) = 0
  BY DEF Init
<1>3. coding = [model |-> FreshCoder(flavor, n), coder |-> EncoderNew]
  BY <1>1 DEF FreshWriter
<1>4. coding.model = FreshCoder(flavor, n) /\ coding.coder = EncoderNew /\ coding.model.n = n
  <2>1. FreshCoder(flavor, n).n = n
    BY <1>2, FreshSound
  <2> QED
    BY <1>3, <2>1
<1>5. PICK M, E : M[0] = FreshCoder(flavor, n) /\ E[0] = EncoderNew
  <2>1. /\ [k \in {0} |-> FreshCoder(flavor, n)][0] = FreshCoder(flavor, n)
        /\ [k \in {0} |-> EncoderNew][0] = EncoderNew
    OBVIOUS
  <2> QED
    BY <2>1
<1>6. Trail(flavor, M, E, sent, n)
  BY <1>2, <1>5 DEF Trail
<1>7. Len(sent) <= MaxStream
  BY <1>2, Numbers
<1>8. History(M, E)
  BY <1>2, <1>3, <1>4, <1>5, <1>6, <1>7 DEF History
<1> QED
  BY <1>8 DEF IInv

\* A symbol sent makes the history longer.
LEMMA SendKeeps ==
  ASSUME IInv, NEW s \in 0 .. (coding.model.n - 1), Send(s)
  PROVE  IInv'
<1>1. PICK M, E : History(M, E)
  BY DEF IInv
<1>2. PICK fl, n, len, m, e, toks :
        /\ fl = flavor /\ n = coding.model.n /\ len = Len(sent) /\ m = coding.model
        /\ e = coding.coder /\ toks = sent
  OBVIOUS
<1>3. /\ fl \in Flavors /\ n \in Alphabets(fl) /\ Trail(fl, M, E, toks, n) /\ len = Len(toks)
      /\ M[len] = m /\ E[len] = e
  BY <1>1, <1>2 DEF History
<1>4. len \in Nat /\ Sound(fl, m, len) /\ n \in Nat \ {0}
  BY <1>1, <1>2, HistoryFacts
<1>5. /\ len < MaxStream /\ flavor' = fl /\ sent' = Append(toks, s)
      /\ coding' = EncodeSymbol(fl, coding, s)
  BY <1>2 DEF Send
<1>6. PICK m2, e2 : /\ m2 = LearnSymbol(fl, m, s) /\ e2 = EncodeStep(e, Interval(TableOf(fl, m), s))
                    /\ coding' = [model |-> m2, coder |-> e2]
  BY <1>2, <1>5 DEF EncodeSymbol
<1>7. PICK M2, E2 : Trail(fl, M2, E2, Append(toks, s), n) /\ M2[len + 1] = m2 /\ E2[len + 1] = e2
  <2>1. s \in 0 .. n - 1 /\ n \in Nat /\ Trail(fl, M, E, toks, n)
    BY <1>2, <1>3, <1>4
  <2>2. PICK M2, E2 :
          /\ Trail(fl, M2, E2, Append(toks, s), n)
          /\ M2[Len(toks) + 1] = LearnSymbol(fl, M[Len(toks)], s)
          /\ E2[Len(toks) + 1] = EncodeStep(E[Len(toks)], Interval(TableOf(fl, M[Len(toks)]), s))
    BY ONLY <2>1, TrailMore
  <2>3. M2[len + 1] = m2 /\ E2[len + 1] = e2
    BY <1>3, <1>6, <2>2
  <2> QED
    BY <2>2, <2>3
<1>8. m2.n = n
  <2>1. MaxSyms + len + 1 < Word
    BY <1>4, <1>5, Numbers
  <2>2. m.n = n /\ s \in 0 .. m.n - 1
    BY <1>2
  <2> QED
    BY <1>4, <1>6, <2>1, <2>2, LearnSound
<1>9. coding'.model = m2 /\ coding'.coder = e2 /\ coding'.model.n = n
  BY <1>6, <1>8
<1>10. Len(sent') = len + 1 /\ len + 1 <= MaxStream
  <2>1. toks \in Seq(Nat)
    BY <1>3 DEF Trail
  <2> QED
    BY <1>3, <1>4, <1>5, <2>1, Numbers
<1>11. History(M2, E2)'
  <2>1. flavor' \in Flavors /\ coding'.model.n \in Alphabets(flavor')
    BY <1>3, <1>5, <1>9
  <2>2. coding' = [model |-> coding'.model, coder |-> coding'.coder]
    BY <1>6, <1>9
  <2>3. Trail(flavor', M2, E2, sent', coding'.model.n)
    BY <1>5, <1>7, <1>9
  <2>4. Len(sent') <= MaxStream /\ M2[Len(sent')] = coding'.model /\ E2[Len(sent')] = coding'.coder
    BY <1>7, <1>9, <1>10
  <2> QED
    BY <2>1, <2>2, <2>3, <2>4 DEF History
<1> QED
  BY <1>11 DEF IInv

\* The state always has a history.
LEMMA HistoryHolds == Spec => []IInv
<1>1. IInv /\ [Next]_vars => IInv'
  <2> SUFFICES ASSUME IInv, [Next]_vars PROVE IInv'
    OBVIOUS
  <2>1. CASE UNCHANGED vars
    BY <2>1 DEF vars, IInv, History
  <2>2. ASSUME NEW s \in 0 .. (coding.model.n - 1), Send(s) PROVE IInv'
    BY <2>2, SendKeeps
  <2> QED
    BY <2>1, <2>2 DEF Next
<1> QED
  BY <1>1, HistoryStarts, PTL DEF Spec

\* Whatever was sent with whichever coder, every table that may be picked next agrees with
\* its counts and its total and gives every symbol a share, order-2 tables taught late
\* included, and no bucket has won or lost before its table was taught.
THEOREM TablesStayBalanced == Spec => []TablesBalanced
<1>1. IInv => TablesBalanced
  <2> SUFFICES ASSUME IInv PROVE TablesBalanced
    OBVIOUS
  <2>1. PICK fl, m, used : fl = flavor /\ m = coding.model /\ used = Len(sent)
    OBVIOUS
  <2>2. Sound(fl, m, used)
    BY <2>1, HistoryFacts DEF IInv
  <2>3. ASSUME NEW c \in DOMAIN m.rows PROVE TableBalanced(m.rows[c])
    <3>1. c \in RowsOf(fl)
      BY <2>2, <2>3 DEF Sound, RowsGrown
    <3>2. Row(m.rows[c], m.n, m.n)
      BY <2>2, <3>1 DEF Sound, RowsGrown, Grown
    <3> QED
      BY <3>2, RowBalanced
  <2>4. ASSUME NEW b \in DOMAIN m.o2
        PROVE  /\ Active(m.o2[b]) => TableBalanced(m.o2[b])
               /\ m.wins1[b] + m.wins2[b] > 0 => Active(m.o2[b])
    <3>1. b \in Slots
      BY <2>2, <2>4 DEF Sound, SlotsHeated
    <3>2. Heated(m.o2[b], m.n, used) /\ (m.wins1[b] + m.wins2[b] > 0 => Active(m.o2[b]))
      BY <2>2, <3>1 DEF Sound, SlotsHeated
    <3>3. Active(m.o2[b]) => Row(m.o2[b], m.n, m.n)
      BY <3>2 DEF Heated, Grown, Active, Cold
    <3> QED
      BY <3>2, <3>3, RowBalanced
  <2> QED
    BY <2>1, <2>3, <2>4 DEF TablesBalanced
<1> QED
  BY <1>1, HistoryHolds, PTL

----------------------------------------------------------------------------
(* The history of a stream, on the reader's side.                          *)

\* A reader in the middle of a stream that has gone well so far.
ReaderAt(m, d, toks) == [model |-> m, coder |-> d, tokens |-> toks, ok |-> TRUE]

\* The turns of a stream's reading, and what is made of the last.
StreamStart(fl, n, blob) ==
  [model |-> FreshCoder(fl, n), coder |-> DecoderNew(blob), tokens |-> <<>>, ok |-> TRUE]

StreamStep(fl, r) == IF r.ok THEN DecodeSymbol(fl, r) ELSE r

Verdict(fl, blob, n, count, end) ==
  LET bad == \/ n = 0 \/ n > MaxSyms
             \/ fl = "context" /\ n < 2
             \/ fl = "context" /\ count > 0
                /\ (Len(blob) < Width + 1 \/ end.coder.pos > Len(blob))
  IN  [ok |-> ~bad /\ (count = 0 \/ end.ok), tokens |-> IF count = 0 THEN <<>> ELSE end.tokens,
       consumed |-> end.coder.pos]

StreamRuns(f, fl, n, count, blob) ==
  /\ f[0] = StreamStart(fl, n, blob)
  /\ \A k \in 1 .. count : f[k] = StreamStep(fl, f[k - 1])
  /\ DecodeStream(fl, blob, n, count) = Verdict(fl, blob, n, count, f[count])

\* Reading a stream is a loop.
LEMMA StreamRunning ==
  ASSUME NEW fl, NEW n, NEW count \in Nat, NEW blob
  PROVE  \E f : StreamRuns(f, fl, n, count, blob)
<1>1. PICK e : e = StreamStart(fl, n, blob)
  OBVIOUS
<1> DEFINE P(g, i) == g = [k \in 0 .. i |-> IF k = 0 THEN e ELSE StreamStep(fl, g[k - 1])]
           S == {i \in Nat : \E g : P(g, i)}
<1>2. 0 \in S
  <2>1. P([k \in 0 .. 0 |-> e], 0)
    <3>1. \A k \in 0 .. 0 : k = 0
      OBVIOUS
    <3> QED
      BY <3>1
  <2> QED
    BY <2>1
<1>3. ASSUME NEW i \in 0 .. count - 1, i \in S PROVE i + 1 \in S
  <2>1. i \in Nat /\ i + 1 \in Nat
    OBVIOUS
  <2>2. PICK g : P(g, i)
    BY <1>3
  <2>3. PICK v : v = StreamStep(fl, g[i])
    OBVIOUS
  <2> DEFINE h == [k \in 0 .. i + 1 |-> IF k = i + 1 THEN v ELSE g[k]]
  <2>4. \A k \in 0 .. i : g[k] = IF k = 0 THEN e ELSE StreamStep(fl, g[k - 1])
    BY <2>2
  <2>5. \A k \in 0 .. i : h[k] = g[k]
    BY <2>1
  <2>6. h[i + 1] = v
    BY <2>1
  <2>7. h = [k \in 0 .. i + 1 |-> h[k]]
    OBVIOUS
  <2> HIDE DEF h, P
  <2>8. \A k \in 0 .. i + 1 : h[k] = IF k = 0 THEN e ELSE StreamStep(fl, h[k - 1])
    <3> TAKE k \in 0 .. i + 1
    <3>1. CASE k = 0
      BY <2>1, <2>4, <2>5, <3>1
    <3>2. CASE k # 0 /\ k # i + 1
      <4>1. k \in 0 .. i /\ k - 1 \in 0 .. i
        BY <2>1, <3>2
      <4>2. g[k] = StreamStep(fl, g[k - 1])
        BY <2>4, <3>2, <4>1
      <4>3. h[k] = g[k] /\ h[k - 1] = g[k - 1]
        BY <2>5, <4>1
      <4> QED
        BY <3>2, <4>2, <4>3
    <3>3. CASE k = i + 1
      <4>1. k # 0 /\ k - 1 = i /\ i \in 0 .. i
        BY <2>1, <3>3
      <4>2. h[k - 1] = g[i]
        BY <2>5, <4>1
      <4> QED
        BY <2>3, <2>6, <3>3, <4>1, <4>2
    <3> QED
      BY <3>1, <3>2, <3>3
  <2>9. P(h, i + 1)
    BY <2>7, <2>8 DEF P
  <2> QED
    BY <2>1, <2>9
<1> HIDE DEF S
<1>4. \A i \in 0 .. count : i \in S
  BY <1>2, <1>3, InductionUpTo
<1>5. \E g : P(g, count)
  <2>1. count \in S
    BY <1>4
  <2> QED
    BY <2>1 DEF S
<1> DEFINE f == CHOOSE g : P(g, count)
<1>6. P(f, count)
  BY <1>5
<1>7. DecodeStream(fl, blob, n, count) = Verdict(fl, blob, n, count, f[count])
  BY <1>1 DEF DecodeStream, StreamStart, StreamStep, Verdict
<1> HIDE DEF f
<1>8. f[0] = e /\ \A k \in 1 .. count : f[k] = StreamStep(fl, f[k - 1])
  <2>1. 0 \in 0 .. count /\ \A k \in 1 .. count : k \in 0 .. count /\ k # 0
    OBVIOUS
  <2> QED
    BY <1>6, <2>1
<1>9. StreamRuns(f, fl, n, count, blob)
  BY <1>1, <1>7, <1>8 DEF StreamRuns
<1> QED
  BY <1>9

\* A trail whose totals stay within the range.
Fits(fl, M, E, toks, n) == Fresh(fl, M, E, toks, n) /\ MaxSyms + Len(toks) <= Top

\* Along a trail that fits, the coders go through a chain.
LEMMA TrailChain ==
  ASSUME NEW fl, NEW M, NEW E, NEW toks, NEW n, Fits(fl, M, E, toks, n)
  PROVE  \E iv : /\ Chain(E, iv, Len(toks))
                 /\ \A k \in 1 .. Len(toks) : iv[k] = Interval(TableOf(fl, M[k - 1]), toks[k])
<1>1. /\ Fresh(fl, M, E, toks, n) /\ MaxSyms + Len(toks) <= Top /\ Trail(fl, M, E, toks, n)
      /\ fl \in Flavors /\ n \in Alphabets(fl)
  BY DEF Fits, Fresh
<1>2. PICK len \in Nat : len = Len(toks)
  BY <1>1 DEF Trail
<1>3. \A k \in 0 .. len : Sound(fl, M[k], k) /\ M[k].n = n
  BY <1>1, <1>2, TrailFacts
<1>4. PICK iv : \A k \in 1 .. len : iv[k] = Interval(TableOf(fl, M[k - 1]), toks[k])
  <2> DEFINE f == [k \in 1 .. len |-> Interval(TableOf(fl, M[k - 1]), toks[k])]
  <2>1. \A k \in 1 .. len : f[k] = Interval(TableOf(fl, M[k - 1]), toks[k])
    OBVIOUS
  <2> QED
    BY <2>1
<1>5. ASSUME NEW k \in 1 .. len
      PROVE  Part(iv[k]) /\ iv[k].total <= Top /\ E[k] = EncodeStep(E[k - 1], iv[k])
  <2>1. k - 1 \in 0 .. len /\ k - 1 \in Nat /\ k \in 1 .. Len(toks)
    BY <1>2
  <2>2. PICK t, s, u : t = TableOf(fl, M[k - 1]) /\ s = toks[k] /\ u = k - 1
    OBVIOUS
  <2>3. s \in 0 .. n - 1 /\ E[k] = EncodeStep(E[k - 1], iv[k]) /\ iv[k] = Interval(t, s)
    BY <1>1, <1>4, <2>1, <2>2 DEF Trail
  <2>4. Grown(t, n, u)
    BY <1>3, <2>1, <2>2, TableFacts
  <2>5. Row(t, n, n) /\ t.total <= n + u
    BY <2>4 DEF Grown
  <2>6. Part(iv[k]) /\ iv[k].total = t.total
    BY <2>3, <2>5, IntervalFacts
  <2>7. n \in Nat /\ n <= MaxSyms /\ MaxSyms \in Nat /\ Top \in Nat
    BY <1>1, AlphabetFacts, Numbers, FullFacts
  <2>8. t.total \in Nat
    BY <2>5, RowFacts
  <2>9. t.total <= Top
    BY <1>1, <1>2, <2>1, <2>2, <2>5, <2>7, <2>8
  <2> QED
    BY <2>3, <2>6, <2>9
<1>6. Chain(E, iv, len)
  BY <1>1, <1>5 DEF Chain, Trail
<1> QED
  BY <1>2, <1>4, <1>6

\* What the writer coded and the reader holds before a symbol is decoded, and what the
\* symbol leaves.
Decodable(fl, m, used, e, e2, s, u, w, j, blob, d) ==
  /\ Sound(fl, m, used) /\ e \in TightCoder /\ s \in 0 .. m.n - 1
  /\ CodedBy(e, e2, Interval(TableOf(fl, m), s), u, w, j)
  /\ blob \in Seq(Digits) /\ Inside(blob, e2) /\ Tracks(d, blob, e)

DecodedTo(fl, m, s, e2, blob, d, toks) ==
  \E d2 : /\ Tracks(d2, blob, e2)
          /\ DecodeSymbol(fl, ReaderAt(m, d, toks))
               = ReaderAt(LearnSymbol(fl, m, s), d2, Append(toks, s))

\* A reader at the writer's place decodes the writer's symbol and moves with it.
LEMMA DecodesOne ==
  ASSUME NEW fl, NEW m, NEW used, NEW e, NEW e2, NEW s, NEW u, NEW w, NEW j, NEW blob, NEW d,
         Decodable(fl, m, used, e, e2, s, u, w, j, blob, d), NEW toks
  PROVE  DecodedTo(fl, m, s, e2, blob, d, toks)
<1>1. /\ Sound(fl, m, used) /\ e \in TightCoder /\ s \in 0 .. m.n - 1
      /\ CodedBy(e, e2, Interval(TableOf(fl, m), s), u, w, j)
      /\ blob \in Seq(Digits) /\ Inside(blob, e2) /\ Tracks(d, blob, e)
  BY DEF Decodable
<1>2. PICK t, th, n : t = TableOf(fl, m) /\ th = Threshold(d, t.total) /\ n = m.n
  OBVIOUS
<1>3. Row(t, n, n)
  BY <1>1, <1>2, TableFacts DEF Grown
<1>4. n \in Nat \ {0} /\ t.total \in Nat
  BY <1>3, RowFacts
<1>5. Meets(d, blob, t, n, n, s, e, e2, u, w, j)
  BY <1>1, <1>2, <1>3 DEF Meets
<1>6. PICK d2 : d2 = DecodeStep(Scale(d, t.total), Interval(t, s))
  OBVIOUS
<1>7. th \in Nat /\ th < t.total /\ FindGt(t.tree, th) = s /\ Tracks(d2, blob, e2)
  BY <1>2, <1>5, <1>6, SymbolTracks
<1>8. ~(th >= t.total \/ s >= n)
  BY <1>1, <1>2, <1>4, <1>7
<1>9. PICK r : r = ReaderAt(m, d, toks)
  OBVIOUS
<1>10. r.model = m /\ r.coder = d /\ r.tokens = toks
  BY <1>9 DEF ReaderAt
<1>11. DecodeSymbol(fl, r) = [model  |-> LearnSymbol(fl, m, s), coder |-> d2,
                              tokens |-> Append(toks, s), ok |-> TRUE]
  BY <1>2, <1>6, <1>7, <1>8, <1>10 DEF DecodeSymbol
<1> QED
  BY <1>7, <1>9, <1>11 DEF DecodedTo, ReaderAt

\* A stream that fits is read to its end: every symbol comes back, and every digit is used.
LEMMA StreamDecodes ==
  ASSUME NEW fl, NEW M, NEW E, NEW toks, NEW n, Fits(fl, M, E, toks, n),
         NEW blob, blob = Flush(E[Len(toks)]), NEW f, StreamRuns(f, fl, n, Len(toks), blob)
  PROVE  /\ \E d : f[Len(toks)] = ReaderAt(M[Len(toks)], d, toks) /\ d.pos = Len(blob)
         /\ Len(blob) \in Nat /\ Len(blob) >= Width + 1
<1>1. /\ Fresh(fl, M, E, toks, n) /\ Trail(fl, M, E, toks, n)
      /\ fl \in Flavors /\ n \in Alphabets(fl)
  BY DEF Fits, Fresh
<1>2. PICK len \in Nat : len = Len(toks)
  BY <1>1 DEF Trail
<1>3. PICK iv : /\ Chain(E, iv, len)
                /\ \A k \in 1 .. len : iv[k] = Interval(TableOf(fl, M[k - 1]), toks[k])
  BY <1>2, TrailChain
<1>4. /\ \A k \in 0 .. len : E[k] \in TightCoder
      /\ \A k \in 1 .. len : \E u, w, j : CodedBy(E[k - 1], E[k], iv[k], u, w, j)
  BY <1>3, ChainFacts
<1>5. /\ blob \in Seq(Digits) /\ Len(blob) = Places(E[len]) + Width
      /\ \A k \in 0 .. len : Inside(blob, E[k])
  BY <1>2, <1>3, ChainInside
<1>6. \A k \in 0 .. len : Sound(fl, M[k], k) /\ M[k].n = n
  BY <1>1, <1>2, TrailFacts
<1>7. f[0] = StreamStart(fl, n, blob) /\ \A k \in 1 .. len : f[k] = StreamStep(fl, f[k - 1])
  BY <1>2 DEF StreamRuns
<1> DEFINE P(k) == \E d : /\ f[k] = ReaderAt(M[k], d, SubSeq(toks, 1, k))
                          /\ Tracks(d, blob, E[k])
           S == {k \in Nat : P(k)}
<1>8. 0 \in S
  <2>1. PICK d : d = DecoderNew(blob)
    OBVIOUS
  <2>2. M[0] = FreshCoder(fl, n) /\ E[0] = EncoderNew
    BY <1>1 DEF Trail
  <2>3. Inside(blob, E[0])
    BY <1>5
  <2>4. Tracks(d, blob, E[0])
    BY <1>5, <2>1, <2>2, <2>3, NewTracks
  <2>5. SubSeq(toks, 1, 0) = <<>>
    BY <1>1 DEF Trail
  <2>6. f[0] = ReaderAt(M[0], d, SubSeq(toks, 1, 0))
    BY <1>7, <2>1, <2>2, <2>5 DEF StreamStart, ReaderAt
  <2> QED
    BY <2>4, <2>6
<1>9. ASSUME NEW k \in 0 .. len - 1, k \in S PROVE k + 1 \in S
  <2>1. k \in Nat /\ k + 1 \in 1 .. len /\ (k + 1) - 1 = k /\ k \in 0 .. len /\ k + 1 \in 0 .. len
    OBVIOUS
  <2>2. PICK d : /\ f[k] = ReaderAt(M[k], d, SubSeq(toks, 1, k))
                 /\ Tracks(d, blob, E[k])
    BY <1>9
  <2>3. PICK mk, e, e2, s, ts : /\ mk = M[k] /\ e = E[k] /\ e2 = E[k + 1] /\ s = toks[k + 1]
                                /\ ts = SubSeq(toks, 1, k)
    OBVIOUS
  <2>4. PICK u, w, j : CodedBy(e, e2, Interval(TableOf(fl, mk), s), u, w, j)
    <3>1. \E u, w, j : CodedBy(E[(k + 1) - 1], E[k + 1], iv[k + 1], u, w, j)
      BY <1>4, <2>1
    <3>2. iv[k + 1] = Interval(TableOf(fl, M[(k + 1) - 1]), toks[k + 1])
      BY <1>3, <2>1
    <3> QED
      BY <2>1, <2>3, <3>1, <3>2
  <2>5. Sound(fl, mk, k) /\ mk.n = n /\ e \in TightCoder /\ Inside(blob, e2)
    BY <1>4, <1>5, <1>6, <2>1, <2>3
  <2> HIDE DEF P
  <2>6. s \in 0 .. mk.n - 1 /\ M[k + 1] = LearnSymbol(fl, mk, s)
    BY <1>1, <1>2, <2>1, <2>3, <2>5 DEF Trail
  <2>7. Decodable(fl, mk, k, e, e2, s, u, w, j, blob, d)
    <3>1. Tracks(d, blob, e) /\ blob \in Seq(Digits)
      BY <1>5, <2>2, <2>3
    <3> QED
      BY ONLY <2>4, <2>5, <2>6, <3>1 DEF Decodable
  <2>8. PICK d2 : /\ Tracks(d2, blob, e2)
                  /\ DecodeSymbol(fl, f[k]) = ReaderAt(LearnSymbol(fl, mk, s), d2, Append(ts, s))
    <3>1. DecodedTo(fl, mk, s, e2, blob, d, ts)
      BY ONLY <2>7, DecodesOne
    <3>2. f[k] = ReaderAt(mk, d, ts)
      BY <2>2, <2>3
    <3> QED
      BY ONLY <3>1, <3>2 DEF DecodedTo
  <2>9. f[k + 1] = DecodeSymbol(fl, f[k])
    <3>1. f[k].ok
      BY <2>2 DEF ReaderAt
    <3> QED
      BY <1>7, <2>1, <3>1 DEF StreamStep
  <2>10. Append(ts, s) = SubSeq(toks, 1, k + 1)
    <3>1. toks \in Seq(Nat)
      BY <1>1 DEF Trail
    <3> QED
      BY <1>2, <2>1, <2>3, <3>1
  <2>11. f[k + 1] = ReaderAt(M[k + 1], d2, SubSeq(toks, 1, k + 1))
    BY <2>6, <2>8, <2>9, <2>10
  <2>12. Tracks(d2, blob, E[k + 1])
    BY <2>3, <2>8
  <2>13. P(k + 1)
    BY <2>11, <2>12 DEF P
  <2> QED
    BY <2>1, <2>13
<1> HIDE DEF S
<1>10. \A k \in 0 .. len : k \in S
  BY <1>8, <1>9, InductionUpTo
<1>11. PICK d : /\ f[len] = ReaderAt(M[len], d, SubSeq(toks, 1, len))
                /\ Tracks(d, blob, E[len])
  <2>1. len \in S
    BY <1>10
  <2> QED
    BY <2>1 DEF S
<1>12. SubSeq(toks, 1, len) = toks
  BY <1>1, <1>2 DEF Trail
<1>13. d.pos = Len(blob)
  BY <1>5, <1>11 DEF Tracks
<1>14. Len(blob) \in Nat /\ Len(blob) >= Width + 1
  <2>1. PICK e : e = E[len]
    OBVIOUS
  <2>2. e \in Coder
    BY <1>4, <2>1 DEF TightCoder
  <2>3. Len(e.out) \in Nat /\ e.cacheSize \in Nat \ {0}
    BY <2>2 DEF Coder
  <2> QED
    BY <1>5, <2>1, <2>3, CoderAssumption, SMTT(30) DEF Places
<1> QED
  BY <1>2, <1>11, <1>12, <1>13, <1>14

----------------------------------------------------------------------------
(* Every stream comes back.                                                *)

\* No total outgrows the range: with the code's 2^24, streams of some sixteen million
\* symbols.
TotalsFit == MaxSyms + MaxStream <= Top

\* What the reader of the finished stream answers.
Answer == DecodeStream(flavor, Blob, coding.model.n, Len(sent))

\* The finished stream decodes to what was sent and uses every digit; the reader of the
\* context format takes alphabets of two symbols or more.
LEMMA StreamAnswers ==
  ASSUME TotalsFit, NLit >= 2, IInv
  PROVE  Answer.ok /\ Answer.tokens = sent /\ (Blob # <<>> => Answer.consumed = Len(Blob))
<1>1. PICK M, E : History(M, E)
  BY DEF IInv
<1>2. PICK fl, n, len, blob : /\ fl = flavor /\ n = coding.model.n /\ len = Len(sent)
                              /\ blob = Blob
  OBVIOUS
<1>3. /\ len \in Nat /\ n \in Nat \ {0} /\ n <= MaxSyms /\ n >= 2
  <2>1. fl \in Flavors /\ n \in Alphabets(fl)
    BY <1>1, <1>2 DEF History
  <2>2. n \in Nat \ {0} /\ NLit <= n
    BY <2>1, AlphabetFacts
  <2>3. n >= 2
    BY <2>2, Numbers
  <2> QED
    BY <1>1, <1>2, <2>2, <2>3, HistoryFacts
<1>4. Fits(fl, M, E, sent, n)
  <2>1. Fresh(fl, M, E, sent, n)
    BY <1>1, <1>2, HistoryFacts
  <2>2. len <= MaxStream
    BY <1>1, <1>2 DEF History
  <2>3. MaxSyms + len <= Top
    BY <1>3, <2>2, Numbers, FullFacts DEF TotalsFit
  <2> QED
    BY <1>2, <2>1, <2>3 DEF Fits
<1>5. PICK f : StreamRuns(f, fl, n, len, blob)
  BY <1>3, StreamRunning
<1>6. PICK r : r = Verdict(fl, blob, n, len, f[len])
  OBVIOUS
<1>7. Answer = r
  BY <1>2, <1>5, <1>6 DEF Answer, StreamRuns
<1>8. E[len] = coding.coder
  BY <1>1, <1>2 DEF History
<1>9. len = 0 => sent = <<>>
  <2>1. PICK t \in Seq(Nat) : t = sent
    BY <1>1 DEF History, Trail
  <2>2. Len(t) = 0 => t = <<>>
    OBVIOUS
  <2> QED
    BY <1>2, <2>1, <2>2
<1>10. CASE fl = "context" /\ len = 0
  <2>1. blob = <<>>
    BY <1>2, <1>10 DEF Blob, Finish
  <2>2. sent = <<>>
    BY <1>10, <1>9
  <2>3. r.ok /\ r.tokens = <<>>
    <3>1. ~(n = 0) /\ ~(n > MaxSyms) /\ ~(n < 2) /\ len = 0 /\ ~(len > 0)
      BY <1>3, <1>10, Numbers
    <3> QED
      BY ONLY <1>6, <3>1 DEF Verdict
  <2> QED
    BY <1>2, <1>7, <2>1, <2>2, <2>3
<1>11. CASE ~(fl = "context" /\ len = 0)
  <2>1. blob = Flush(E[Len(sent)])
    BY <1>2, <1>8, <1>11 DEF Blob, Finish
  <2>2. /\ \E d : f[Len(sent)] = ReaderAt(M[Len(sent)], d, sent) /\ d.pos = Len(blob)
        /\ Len(blob) \in Nat /\ Len(blob) >= Width + 1
    <3>1. StreamRuns(f, fl, n, Len(sent), blob)
      BY <1>2, <1>5
    <3> QED
      BY ONLY <1>4, <2>1, <3>1, StreamDecodes
  <2>3. PICK d : f[len] = ReaderAt(M[len], d, sent) /\ d.pos = Len(blob)
    BY <1>2, <2>2
  <2>4. PICK end : end = f[len]
    OBVIOUS
  <2>5. end.ok = TRUE /\ end.tokens = sent /\ end.coder.pos = Len(blob)
    BY <2>3, <2>4 DEF ReaderAt
  <2>6. /\ ~(n = 0) /\ ~(n > MaxSyms) /\ ~(n < 2) /\ ~(Len(blob) < Width + 1)
        /\ ~(end.coder.pos > Len(blob))
    BY <1>3, <2>2, <2>5, Numbers, CoderAssumption
  <2>7. r.ok /\ r.consumed = Len(blob) /\ r.tokens = IF len = 0 THEN <<>> ELSE sent
    BY <1>6, <2>4, <2>5, <2>6 DEF Verdict
  <2> QED
    BY <1>2, <1>7, <1>9, <2>7
<1> QED
  BY <1>10, <1>11

\* Whatever was sent with whichever coder, decoding the finished stream gives it back
\* without an error, as long as no total outgrows the range.
THEOREM StreamsAlwaysInvert ==
  ASSUME TotalsFit, NLit >= 2
  PROVE  Spec => []StreamInverts
<1>1. IInv => StreamInverts
  BY StreamAnswers DEF StreamInverts, Answer
<1> QED
  BY <1>1, HistoryHolds, PTL

\* Under the same bound the decoder consumes exactly the digits that were written, so the
\* count that context.rs compares never accuses a stream of its own.
THEOREM StreamsAlwaysConsumed ==
  ASSUME TotalsFit, NLit >= 2
  PROVE  Spec => []ConsumesAll
<1>1. IInv => ConsumesAll
  BY StreamAnswers DEF ConsumesAll, Answer
<1> QED
  BY <1>1, HistoryHolds, PTL
=============================================================================
