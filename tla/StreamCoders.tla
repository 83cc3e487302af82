----------------------------- MODULE StreamCoders -----------------------------
(***************************************************************************)
(* The coders that start from a fresh model for every block: order-0       *)
(* tokens, order-1 bytes, order-1 tokens (arith.rs), the blend of an       *)
(* order-1 row with an order-2 bucket (arith.rs), and the stronger blend   *)
(* of context.rs.  All share one shape: pick a table from what was coded   *)
(* before, code one symbol with it, teach every table involved.  Encoder   *)
(* and decoder are the same walk; only the range coder's end differs.      *)
(***************************************************************************)
EXTENDS TokenModel

CONSTANTS Buckets,    \* order-2 buckets (1024)
          MinTotal,   \* O2_MIN_TOTAL of the arith.rs blend
          MinSeen     \* O2_MIN_SEEN of context.rs

ASSUME BlendAssumption == Buckets \in Nat \ {0} /\ MinTotal \in Nat /\ MinSeen \in Nat

Flavors == {"order0", "bytes1", "tokens1", "blend", "context"}

Contexts(fl) == CASE fl = "order0"  -> 1
                  [] fl = "bytes1"  -> NLit + 1
                  [] fl = "context" -> NumContexts("V4")
                  [] OTHER          -> NumContexts("V3")

NextRow(fl, s) == CASE fl = "order0"  -> 0
                    [] fl = "bytes1"  -> s
                    [] fl = "context" -> V4Ctx(s)
                    [] OTHER          -> TokenCtx(s)

\* The hashes differ in their multipliers only; any function of the last two symbols
\* that both sides compute alike will do.
O2Bucket(prev, prev2) == (prev + 2 * prev2) % Buckets

Cold == [counts |-> <<>>, tree |-> <<>>, total |-> 0]
Active(t) == t.total > 0

FreshCoder(fl, n) ==
  LET last == Contexts(fl) - 1
  IN  [n |-> n, rows |-> [c \in 0..last |-> NewTable(n, n)],
       o2 |-> [b \in 0..(Buckets - 1) |-> Cold],
       seen |-> [b \in 0..(Buckets - 1) |-> 0],
       wins1 |-> [b \in 0..(Buckets - 1) |-> 0], wins2 |-> [b \in 0..(Buckets - 1) |-> 0],
       ctx |-> last, prev |-> last, prev2 |-> last]

Bucket(m) == O2Bucket(m.prev, m.prev2)

UseOrder2(fl, m) ==
  LET b == Bucket(m)
  IN  /\ \/ fl = "blend"   /\ m.o2[b].total >= MinTotal
         \/ fl = "context" /\ m.seen[b] >= MinSeen
      /\ m.wins2[b] > m.wins1[b]

TableOf(fl, m) == IF UseOrder2(fl, m) THEN m.o2[Bucket(m)] ELSE m.rows[m.ctx]

Advance(fl, m, s) == [m EXCEPT !.prev2 = m.prev, !.prev = s, !.ctx = NextRow(fl, s)]

Share(t1, t2, s) == t1.counts[s] * t2.total   \* compared crosswise, no division

\* arith.rs: the winner is judged on the updated tables; a cold bucket scores for order 1.
LearnBlend(m, s) ==
  LET b  == Bucket(m)
      t1 == Update(m.rows[m.ctx], s)
      t2 == IF Active(m.o2[b]) THEN Update(m.o2[b], s) ELSE Update(NewTable(m.n, m.n), s)
      first == ~Active(m.o2[b]) \/ Share(t1, t2, s) > Share(t2, t1, s)
  IN  [m EXCEPT !.rows[m.ctx] = t1, !.o2[b] = t2,
                !.wins1[b] = IF first THEN @ + 1 ELSE @,
                !.wins2[b] = IF first THEN @ ELSE @ + 1]

\* Faulty variant: a bucket met for the first time is not taught its own first symbol.
LearnUncounted(m, s) ==
  LET b  == Bucket(m)
      t1 == m.rows[m.ctx]
      t2 == m.o2[b]
      second == Active(t2) /\ Share(t2, t1, s) > Share(t1, t2, s)
  IN  [m EXCEPT !.rows[m.ctx] = Update(t1, s),
                !.o2[b] = IF Active(t2) THEN [Update(t2, s) EXCEPT !.tree = t2.tree]
                          ELSE NewTable(m.n, m.n),
                !.seen[b] = @ + 1,
                !.wins1[b] = IF Active(t2) /\ ~second THEN @ + 1 ELSE @,
                !.wins2[b] = IF second THEN @ + 1 ELSE @]

\* context.rs `finish`: judged on the tables the symbol was coded with; a cold bucket
\* scores for neither.
LearnContext(m, s) ==
  LET b  == Bucket(m)
      t1 == m.rows[m.ctx]
      t2 == m.o2[b]
      second == Active(t2) /\ Share(t2, t1, s) > Share(t1, t2, s)
  IN  [m EXCEPT !.rows[m.ctx] = Update(t1, s),
                !.o2[b] = Update(IF Active(t2) THEN t2 ELSE NewTable(m.n, m.n), s),
                !.seen[b] = @ + 1,
                !.wins1[b] = IF Active(t2) /\ ~second THEN @ + 1 ELSE @,
                !.wins2[b] = IF second THEN @ + 1 ELSE @]

LearnSymbol(fl, m, s) ==
  Advance(fl, CASE fl = "blend"   -> LearnBlend(m, s)
                [] fl = "context" -> LearnContext(m, s)
                [] OTHER          -> [m EXCEPT !.rows[m.ctx] = Update(@, s)], s)

EncodeSymbol(fl, w, s) ==
  [model |-> LearnSymbol(fl, w.model, s),
   coder |-> EncodeStep(w.coder, Interval(TableOf(fl, w.model), s))]

\* Faulty variant: the decoder hashes the last symbol twice.
DecodeOtherBucket(fl, r) ==
  LET moved == [r.model EXCEPT !.prev2 = r.model.prev]
      t  == IF UseOrder2(fl, moved) THEN moved.o2[Bucket(moved)] ELSE r.model.rows[r.model.ctx]
      th == Threshold(r.coder, t.total)
      s  == FindGt(t.tree, th)
  IN  IF th >= t.total \/ s >= r.model.n THEN [r EXCEPT !.ok = FALSE]
      ELSE [model  |-> LearnSymbol(fl, r.model, s),
            coder  |-> DecodeStep(Scale(r.coder, t.total), Interval(t, s)),
            tokens |-> Append(r.tokens, s), ok |-> TRUE]

DecodeSymbol(fl, r) ==
  LET t  == TableOf(fl, r.model)
      th == Threshold(r.coder, t.total)
      s  == FindGt(t.tree, th)
  IN  IF th >= t.total \/ s >= r.model.n THEN [r EXCEPT !.ok = FALSE]
      ELSE [model  |-> LearnSymbol(fl, r.model, s),
            coder  |-> DecodeStep(Scale(r.coder, t.total), Interval(t, s)),
            tokens |-> Append(r.tokens, s), ok |-> TRUE]

FreshWriter(fl, n) == [model |-> FreshCoder(fl, n), coder |-> EncoderNew]

\* The end of `encode_*`: context.rs writes nothing for no symbols.
Finish(fl, w, count) == IF fl = "context" /\ count = 0 THEN <<>> ELSE Flush(w.coder)

EncodeStream(fl, tokens, n) ==
  LET after[k \in 0..Len(tokens)] ==
        IF k = 0 THEN FreshWriter(fl, n) ELSE EncodeSymbol(fl, after[k - 1], tokens[k])
  IN  Finish(fl, after[Len(tokens)], Len(tokens))

\* `decode_*`: only context.rs compares what was consumed with what was there.
DecodeStream(fl, blob, n, count) ==
  LET start == [model |-> FreshCoder(fl, n), coder |-> DecoderNew(blob),
                tokens |-> <<>>, ok |-> TRUE]
      upto[k \in 0..count] ==
        IF k = 0 THEN start
        ELSE IF upto[k - 1].ok THEN DecodeSymbol(fl, upto[k - 1]) ELSE upto[k - 1]
      end == upto[count]
      bad == \/ n = 0 \/ n > MaxSyms
             \/ fl = "context" /\ n < 2
             \/ fl = "context" /\ count > 0
                /\ (Len(blob) < Width + 1 \/ end.coder.pos > Len(blob))
  IN  [ok |-> ~bad /\ (count = 0 \/ end.ok), tokens |-> IF count = 0 THEN <<>> ELSE end.tokens,
       consumed |-> end.coder.pos]
=============================================================================
