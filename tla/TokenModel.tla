------------------------------ MODULE TokenModel ------------------------------
(***************************************************************************)
(* PersistentTokenModel of arith.rs: one adaptive order-1 model carried    *)
(* through the whole archive.  Its context is the row of the previous      *)
(* token; a chunk starts in the sentinel row.  The writer logs every coded *)
(* token so that a rejected chunk can be undone; the reader never logs.    *)
(***************************************************************************)
EXTENDS CountTable, RangeCoder

CONSTANTS NLit,       \* literal symbols (256)
          MaxSyms,    \* alphabet cap (4096), capacity of every tree
          RuleCtx,    \* rows shared by rules without a row of their own (8)
          HotRules,   \* rules with a row of their own in V4 (192)
          Scatter     \* multiplier of the bucket hash (0x9E37_79B9)

ASSUME ModelAssumption == /\ NLit \in Nat \ {0} /\ MaxSyms \in Nat /\ MaxSyms >= NLit
                          /\ RuleCtx \in Nat \ {0} /\ HotRules \in Nat /\ Scatter \in Nat

Modes == {"V3", "V4"}

\* `token_ctx`: V3 spreads all rules over the shared rows.
TokenCtx(s) == IF s < NLit THEN s ELSE NLit + (((s - NLit) * Scatter) % RuleCtx)

\* `v4_ctx`: the first rules have their own rows, the tail shares.
V4Ctx(s) == IF s < NLit + HotRules THEN s
            ELSE NLit + HotRules + (((s - NLit - HotRules) * Scatter) % RuleCtx)

CtxOf(mode, s)    == IF mode = "V3" THEN TokenCtx(s) ELSE V4Ctx(s)
NumContexts(mode) == NLit + RuleCtx + 1 + (IF mode = "V3" THEN 0 ELSE HotRules)
Sentinel(mode)    == NumContexts(mode) - 1

\* `with_mode`
NewModel(n0, mode) ==
  [n |-> n0, base |-> n0, mode |-> mode,
   rows |-> [c \in 0..Sentinel(mode) |-> NewTable(n0, MaxSyms)],
   ctx |-> Sentinel(mode), log |-> <<>>]

Rows(m) == DOMAIN m.rows

\* `grow`: new symbols enter every row with count 1.
GrowRow(t, n, n2) ==
  [counts |-> [s \in 0..(n2 - 1) |-> IF s < n THEN t.counts[s] ELSE 1],
   tree   |-> AddRange(t.tree, n, n2, 1),
   total  |-> t.total + n2 - n]

Grow(m, n2) ==
  IF n2 <= m.n THEN m
  ELSE [m EXCEPT !.n = n2, !.rows = [c \in Rows(m) |-> GrowRow(@[c], m.n, n2)]]

\* `shrink_alphabet`: literals keep their counts, surviving rules restart at 1, and the
\* tree and the total are rebuilt from the counts.
\* Faulty variant: the total only loses the dropped symbols' priors.
ShrinkKeepsTotal(t, n2) ==
  LET counts == [s \in 0..(n2 - 1) |-> IF s < NLit THEN t.counts[s] ELSE 1]
  IN  [counts |-> counts, tree |-> TreeOf(counts, MaxSyms),
       total |-> t.total - (Cardinality(DOMAIN t.counts) - n2)]

ShrinkRow(t, n2) ==
  LET counts == [s \in 0..(n2 - 1) |-> IF s < NLit THEN t.counts[s] ELSE 1]
  IN  [counts |-> counts, tree |-> TreeOf(counts, MaxSyms), total |-> SumCounts(counts, n2)]

ShrinkAlphabet(m, n2) ==
  IF n2 >= m.n THEN m
  ELSE [m EXCEPT !.n = n2, !.rows = [c \in Rows(m) |-> ShrinkRow(@[c], n2)]]

\* Faulty variant: a chunk starts in the row the last one ended in.
BeginKeepsContext(m) == [m EXCEPT !.base = m.n, !.log = <<>>]

\* `begin_chunk`
BeginChunk(m) == [m EXCEPT !.ctx = Sentinel(m.mode), !.base = m.n, !.log = <<>>]

\* `rollback_chunk`, first half: the logged tokens, last one first.
UndoToken(m, k) ==
  LET c == m.log[k].ctx
      s == m.log[k].sym
  IN  [m EXCEPT !.rows[c] = Downdate(@, s)]

\* second half: the symbols added since the chunk began lose their prior and their column.
CutRow(t, n, base) ==
  [counts |-> [s \in 0..(base - 1) |-> t.counts[s]],
   tree   |-> AddRange(t.tree, base, n, MinusOne),
   total  |-> t.total - (n - base)]

\* Faulty variant: the alphabet growth of a rejected chunk is kept.
RollbackKeepsGrowth(m) ==
  LET len == Len(m.log)
      undone[k \in 0..len] == IF k = 0 THEN m ELSE UndoToken(undone[k - 1], len - k + 1)
  IN  [undone[len] EXCEPT !.log = <<>>, !.ctx = Sentinel(m.mode)]

RollbackChunk(m) ==
  LET len == Len(m.log)
      undone[k \in 0..len] == IF k = 0 THEN m ELSE UndoToken(undone[k - 1], len - k + 1)
      cut == [c \in Rows(m) |-> CutRow(undone[len].rows[c], m.n, m.base)]
  IN  [m EXCEPT !.rows = IF m.n > m.base THEN cut ELSE undone[len].rows,
                !.n = m.base, !.log = <<>>, !.ctx = Sentinel(m.mode)]

\* What a token does to the model on either side.
Learn(m, s) == [m EXCEPT !.rows[m.ctx] = Update(@, s), !.ctx = CtxOf(m.mode, s)]

\* `encode_token` on a writer w = [model, coder].
EncodeToken(w, s) ==
  LET c == w.model.ctx
  IN  [model |-> [Learn(w.model, s) EXCEPT !.log = Append(@, [ctx |-> c, sym |-> s])],
       coder |-> EncodeStep(w.coder, Interval(w.model.rows[c], s))]

\* `decode_token` on a reader r = [model, coder, tokens, ok]; an error stops the chunk.
DecodeToken(r) ==
  LET row == r.model.rows[r.model.ctx]
      th  == Threshold(r.coder, row.total)
      s   == FindGt(row.tree, th)
  IN  IF th >= row.total \/ s >= r.model.n THEN [r EXCEPT !.ok = FALSE]
      ELSE [r EXCEPT !.model  = Learn(@, s),
                     !.coder  = DecodeStep(Scale(@, row.total), Interval(row, s)),
                     !.tokens = Append(@, s)]
=============================================================================
