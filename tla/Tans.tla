--------------------------------- MODULE Tans ---------------------------------
(***************************************************************************)
(* tans.rs: the table-based coder the bench measures.  Counts are          *)
(* normalised to a power of two, every symbol is given that many slots of  *)
(* the table, and the encoder walks the tokens backwards shedding low bits *)
(* of a state the decoder then rebuilds forwards.                          *)
(***************************************************************************)
EXTENDS Integers, Sequences, FiniteSetsExt, SequencesExt

CONSTANTS MinLog2, MaxLog2   \* MIN_TABLE_LOG2, MAX_TABLE_LOG2: 7, 12

ASSUME TansAssumption == MinLog2 \in Nat /\ MaxLog2 \in Nat /\ MinLog2 <= MaxLog2

SumOf(f) == FoldFunction(+, 0, f)

CeilLog2(n) == CHOOSE k \in 0..16 : 2 ^ k >= n /\ (k = 0 \/ 2 ^ (k - 1) < n)
FloorLog2(n) == CHOOSE k \in 0..16 : 2 ^ k <= n /\ n < 2 ^ (k + 1)

\* Used symbols in ascending order, and how often each occurs.
UsedSymbols(tokens) == SetToSortSeq(Range(tokens), <)
RawCounts(tokens) ==
  LET used == UsedSymbols(tokens)
  IN  [i \in DOMAIN used |-> Cardinality({k \in DOMAIN tokens : tokens[k] = used[i]})]

Floors(counts, log2) ==
  [i \in DOMAIN counts |-> Max({1, (counts[i] * 2 ^ log2) \div SumOf(counts)})]

\* `normalize_symbols`: proportional shares, at least 1, then corrected one unit at a
\* time round the symbols in order of their remainders until they sum to the table.
Normalize(counts, log2) ==
  LET l == 2 ^ log2
      f == Floors(counts, log2)
      rem(i) == (counts[i] * l) % SumOf(counts)
      grow == SetToSortSeq(DOMAIN f, LAMBDA a, b : rem(a) > rem(b) \/ (rem(a) = rem(b) /\ a < b))
      shrink == SetToSortSeq(DOMAIN f, LAMBDA a, b : rem(a) < rem(b) \/ (rem(a) = rem(b) /\ a < b))
      turn(order, k) == order[((k - 1) % Len(order)) + 1]
      bump(g, i, by, due) == IF due THEN [g EXCEPT ![i] = @ + by] ELSE g
      up(g, k)   == bump(g, turn(grow, k), 1, SumOf(g) < l)
      down(g, k) == bump(g, turn(shrink, k), -1, SumOf(g) > l /\ g[turn(shrink, k)] > 1)
  IN  IF SumOf(f) < l THEN FoldLeft(up, f, [k \in 1..l |-> k])
                      ELSE FoldLeft(down, f, [k \in 1..(l * Len(f)) |-> k])

\* `build_table`: the symbols' marks, evenly spread, ranked by place; slot k holds the
\* <<symbol position, j>> of the k-th mark.  The code compares (2j+1) * L / 2f in fixed
\* point with 30 fractional bits, which orders as the fractions do.
Slots(freq) ==
  LET marks == {<<i, j>> : i \in DOMAIN freq, j \in 0..(Max(Range(freq)) - 1)}
      mine  == {m \in marks : m[2] < freq[m[1]]}
      left(m, n)  == (2 * m[2] + 1) * freq[n[1]]
      below(m, n) == \/ left(m, n) < left(n, m)
                     \/ left(m, n) = left(n, m) /\ (m[1] < n[1] \/ (m[1] = n[1] /\ m[2] < n[2]))
  IN  [k \in 1..Cardinality(mine) |->
         CHOOSE m \in mine : Cardinality({n \in mine : below(n, m)}) = k - 1]

SlotOf(slots, i, j) == (CHOOSE k \in DOMAIN slots : slots[k] = <<i, j>>) - 1

Bits(v, n) == [i \in 1..n |-> (v \div 2 ^ (n - i)) % 2]
NumberOf(bits) == SumOf([i \in DOMAIN bits |-> bits[i] * 2 ^ (Len(bits) - i)])

\* One token: the state sheds low bits until it fits its symbol's slots.
Shed(st, i, freq, slots) ==
  LET m == FloorLog2(st.x \div freq[i])
  IN  [x |-> Len(slots) + SlotOf(slots, i, st.x \div 2 ^ m - freq[i]),
       bits |-> Bits(st.x % 2 ^ m, m) \o st.bits]

\* The state starts at L; the last token is coded first, and the groups of bits are written
\* in the opposite order, behind the final state.
Body(places, freq, slots, log2) ==
  LET last == FoldRight(LAMBDA i, st : Shed(st, i, freq, slots), places,
                        [x |-> Len(slots), bits |-> <<>>])
  IN  Bits(last.x % Len(slots), log2) \o last.bits

Padded(body) == body \o [i \in 1..((8 - (Len(body) % 8)) % 8) |-> 0]

Packed(tokens, used, log2, freq) ==
  [log2 |-> log2, used |-> used, freq |-> freq, count |-> Len(tokens),
   blob |-> Padded(Body([k \in DOMAIN tokens |-> SelectInSeq(used, LAMBDA u : u = tokens[k])],
                        freq, Slots(freq), log2))]

TableLog2(used, requested) == Max({Max({MinLog2, Min({MaxLog2, requested})}), CeilLog2(Len(used))})

\* `encode_tokens`.
TansEncode(tokens, requested) ==
  LET used == UsedSymbols(tokens)
      log2 == TableLog2(used, requested)
  IN  Packed(tokens, used, log2, Normalize(RawCounts(tokens), log2))

\* `decode_tokens`: bits are read until the state is back in L..2L-1; it must end at L,
\* with nothing but the padding of one byte left.
TansDecode(b, expected) ==
  LET l == 2 ^ b.log2
      slots == Slots(b.freq)
      at[k \in 0..b.count] ==
        IF k = 0
        THEN [x |-> l + NumberOf(SubSeq(b.blob, 1, b.log2)), pos |-> b.log2, out |-> <<>>, ok |-> TRUE]
        ELSE LET p == at[k - 1]
                 mark == slots[(p.x % l) + 1]
                 v == b.freq[mark[1]] + mark[2]
                 n == IF v >= l THEN 0 ELSE CeilLog2((l + v - 1) \div v)   \* v * 2^n reaches L
             IN  IF ~p.ok \/ p.pos + n > Len(b.blob) THEN [p EXCEPT !.ok = FALSE]
                 ELSE [x |-> v * 2 ^ n + NumberOf(SubSeq(b.blob, p.pos + 1, p.pos + n)),
                       pos |-> p.pos + n, out |-> Append(p.out, b.used[mark[1]]), ok |-> TRUE]
      end == at[b.count]
  IN  IF /\ b.log2 \in MinLog2..MaxLog2 /\ Len(b.used) \in 1..l
         /\ \A i \in DOMAIN b.freq : b.freq[i] > 0
         /\ SumOf(b.freq) = l /\ b.count = expected
         /\ end.ok /\ end.x = l /\ Len(b.blob) - end.pos < 8
         /\ \A i \in (end.pos + 1)..Len(b.blob) : b.blob[i] = 0
      THEN [ok |-> TRUE, tokens |-> end.out] ELSE [ok |-> FALSE, tokens |-> <<>>]
=============================================================================
