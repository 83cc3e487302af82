------------------------------ MODULE BlockCodec ------------------------------
(***************************************************************************)
(* The block formats of aahl.rs: compress_block builds one block for every *)
(* codec and keeps the smallest; decompress_block goes by the tag.  A      *)
(* block is a record of its fields.  Which codec wins depends on byte      *)
(* sizes, which are left out: any candidate may be the one that is kept.   *)
(* Left to choice for the same reason are the two floating-point analyses, *)
(* which period the spectrum points at and which pieces look alike.        *)
(***************************************************************************)
EXTENDS StreamCoders, PairFold, SequencesExt

CONSTANTS
  MaxMerges, MinPairCount, MinRep,   \* fold_with: 1024, 4, 3
  MinSpectral,    \* shortest input searched for a period (64)
  MaxPeriod,      \* longest period (4096)
  PieceSize,      \* bytes per binning piece (2048)
  MaxBins         \* bins at most (8)

Fail    == [ok |-> FALSE, raw |-> <<>>]
Done(r) == [ok |-> TRUE, raw |-> r]

Alphabet(rules) == NLit + Len(rules)

-----------------------------------------------------------------------------
(* Folding and unfolding *)

\* `fold_stream`: fold_with on the default knobs.
FoldStream(raw) ==
  LET after[k \in 0..MaxMerges] ==
        IF k = 0 THEN [syms |-> raw, rules |-> <<>>, stop |-> FALSE]
        ELSE LET f == after[k - 1]
                 p == BestPair(f.syms)
             IN  IF \/ f.stop \/ Len(f.syms) < 2 \/ Alphabet(f.rules) >= MaxSyms
                 THEN [f EXCEPT !.stop = TRUE]
                 ELSE IF \/ PairCount(f.syms, p) < MinPairCount
                         \/ Occurrences(f.syms, p) < MinRep
                 THEN [f EXCEPT !.stop = TRUE]
                 ELSE [syms  |-> Splice(f.syms, p, Alphabet(f.rules)),
                       rules |-> Append(f.rules, p), stop |-> FALSE]
  IN  [tokens |-> after[MaxMerges].syms, rules |-> after[MaxMerges].rules]

\* A rule may use literals and earlier rules only.
BackwardOnly(rules) ==
  \A i \in 1..Len(rules) : rules[i][1] < NLit + i - 1 /\ rules[i][2] < NLit + i - 1

\* `unfold` gives up when the expansion outgrows the expected length.
Unfold(tokens, rules, limit) ==
  LET phrase[s \in 0..(Alphabet(rules) - 1)] ==
        IF s < NLit THEN <<s>>
        ELSE phrase[rules[s - NLit + 1][1]] \o phrase[rules[s - NLit + 1][2]]
      known == \A i \in 1..Len(tokens) : tokens[i] < Alphabet(rules)
      out   == FlattenSeq([i \in 1..Len(tokens) |-> phrase[tokens[i]]])
  IN  IF known /\ Len(out) <= limit THEN Done(out) ELSE Fail

-----------------------------------------------------------------------------
(* Canonical Huffman *)

Lightest(nodes) ==
  CHOOSE x \in nodes : \A y \in nodes : x.freq < y.freq \/ (x.freq = y.freq /\ x.id <= y.id)

\* `huffman_lengths`: join the two lightest trees until one is left; a node carries the
\* depth of each symbol below it.
HuffmanLengths(freqs) ==
  LET active == {s \in DOMAIN freqs : freqs[s] > 0}
      rank(s) == Cardinality({t \in active : t < s})
      leaves == {[freq |-> freqs[s], id |-> rank(s), depth |-> [t \in {s} |-> 0]] : s \in active}
      join(nodes, id) ==
        LET a == Lightest(nodes)
            b == Lightest(nodes \ {a})
        IN  (nodes \ {a, b}) \cup
            {[freq |-> a.freq + b.freq, id |-> id,
              depth |-> [t \in DOMAIN a.depth \cup DOMAIN b.depth |->
                           1 + (IF t \in DOMAIN a.depth THEN a.depth[t] ELSE b.depth[t])]]}
      after[k \in 0..Cardinality(active)] ==
        IF k = 0 THEN leaves
        ELSE IF Cardinality(after[k - 1]) > 1
             THEN join(after[k - 1], Cardinality(active) + k - 1) ELSE after[k - 1]
      root == CHOOSE x \in after[Cardinality(active)] : TRUE
  IN  [s \in DOMAIN freqs |-> IF s \notin active THEN 0
                              ELSE IF Cardinality(active) = 1 THEN 1 ELSE root.depth[s]]

\* `canonical_codes`: consecutive numbers in order of (length, symbol), shifted left
\* where the length grows.  A code word is given as its bits.
CanonicalCodes(lens) ==
  LET coded  == {s \in DOMAIN lens : lens[s] > 0}
      order  == SetToSortSeq(coded, LAMBDA s, t : lens[s] < lens[t] \/ (lens[s] = lens[t] /\ s < t))
      code[k \in 1..Len(order)] ==
        IF k = 1 THEN 0 ELSE (code[k - 1] + 1) * 2 ^ (lens[order[k]] - lens[order[k - 1]])
      place(s) == CHOOSE k \in 1..Len(order) : order[k] = s
  IN  [s \in coded |-> [i \in 1..lens[s] |-> (code[place(s)] \div 2 ^ (lens[s] - i)) % 2]]

\* The decoding loop of `decompress_inner`: walk the tree of code words bit by bit.
HuffmanDecode(lens, bits, count) ==
  LET words == CanonicalCodes(lens)
      hits(pos) == {s \in DOMAIN words : IsPrefix(words[s], SubSeq(bits, pos + 1, Len(bits)))}
      first(pos) == CHOOSE s \in hits(pos) : \A t \in hits(pos) : lens[s] <= lens[t]
      at[k \in 0..count] ==
        IF k = 0 THEN [pos |-> 0, tokens |-> <<>>, ok |-> TRUE]
        ELSE LET p == at[k - 1]
             IN  IF ~p.ok \/ hits(p.pos) = {} THEN [p EXCEPT !.ok = FALSE]
                 ELSE [pos |-> p.pos + lens[first(p.pos)],
                       tokens |-> Append(p.tokens, first(p.pos)), ok |-> TRUE]
  IN  at[count]

-----------------------------------------------------------------------------
(* The formats.  'F' fold + Huffman *)

FoldEncodeParts(tokens, rules) ==
  LET freqs == [s \in 0..(Alphabet(rules) - 1) |->
                  Cardinality({i \in 1..Len(tokens) : tokens[i] = s})]
      lens  == HuffmanLengths(freqs)
      words == CanonicalCodes(lens)
  IN  [tag |-> "F", total |-> Alphabet(rules), count |-> Len(tokens), lens |-> lens,
       bits |-> FlattenSeq([i \in 1..Len(tokens) |-> words[tokens[i]]]), rules |-> rules]

\* No comparison with the expected length: unfold only bounds it.
DecompressInner(b, expected) ==
  LET h == HuffmanDecode(b.lens, b.bits, b.count)
  IN  IF b.total \in NLit..MaxSyms /\ Alphabet(b.rules) = b.total /\ BackwardOnly(b.rules) /\ h.ok
      THEN Unfold(h.tokens, b.rules, expected) ELSE Fail

\* 'A' and 'D': tokens under the order-0 or the order-1 model.
StreamOf(tag) == IF tag = "A" THEN "order0" ELSE "tokens1"

ArithEncodeParts(tag, tokens, rules) ==
  [tag |-> tag, rules |-> rules, count |-> Len(tokens),
   blob |-> EncodeStream(StreamOf(tag), tokens, Alphabet(rules))]

ArithDecodeWith(b, expected) ==
  LET d == DecodeStream(StreamOf(b.tag), b.blob, Alphabet(b.rules), b.count)
      u == Unfold(d.tokens, b.rules, expected)
  IN  IF BackwardOnly(b.rules) /\ d.ok /\ u.ok /\ Len(u.raw) = expected THEN u ELSE Fail

\* 'C': order-1 bytes.
O1BytesEncode(raw) ==
  [tag |-> "C", len |-> Len(raw), blob |-> EncodeStream("bytes1", raw, NLit)]

O1BytesDecode(b, expected) ==
  LET d == DecodeStream("bytes1", b.blob, NLit, b.len)
  IN  IF b.len = expected /\ d.ok THEN Done(d.tokens) ELSE Fail

\* context.rs: the same frame with the stronger model (checksum not modelled).
ContextEncode(raw) ==
  LET f == FoldStream(raw)
  IN  [tag |-> "X", rules |-> f.rules, count |-> Len(f.tokens),
       blob |-> EncodeStream("context", f.tokens, Alphabet(f.rules))]

ContextDecode(b, expected) ==
  LET d == DecodeStream("context", b.blob, Alphabet(b.rules), b.count)
      u == Unfold(d.tokens, b.rules, expected)
  IN  IF b.count <= expected /\ d.ok /\ u.ok /\ Len(u.raw) = expected THEN u ELSE Fail

\* 'R': stored.
StoreEncode(raw) == [tag |-> "R", len |-> Len(raw), raw |-> raw]
StoreDecode(b, expected) == IF b.len = expected THEN Done(b.raw) ELSE Fail

\* 'S': one period.  detect_period answers a period it has verified byte by byte, the
\* smallest exact divisor of the one the spectrum suggests.
IsExactPeriod(raw, p) ==
  p \in 1..(Len(raw) - 1) /\ \A i \in 1..Len(raw) : raw[i] = raw[((i - 1) % p) + 1]

DetectPeriod(raw) ==
  {p \in 1..MaxPeriod : /\ Len(raw) >= MinSpectral /\ IsExactPeriod(raw, p)
                        /\ \A d \in 1..(p - 1) : p % d = 0 => ~IsExactPeriod(raw, d)}

SpectralEncode(raw, p) == [tag |-> "S", period |-> p, base |-> SubSeq(raw, 1, p)]

SpectralDecode(b, expected) ==
  IF b.period \in 1..MaxPeriod /\ Len(b.base) = b.period
  THEN Done([i \in 1..expected |-> b.base[((i - 1) % b.period) + 1]]) ELSE Fail

-----------------------------------------------------------------------------
(* 'B' binned: pieces that look alike are coded together. *)

Piece(raw, i) ==
  SubSeq(raw, (i - 1) * PieceSize + 1,
         IF i * PieceSize < Len(raw) THEN i * PieceSize ELSE Len(raw))
NumPieces(len) == (len + PieceSize - 1) \div PieceSize

Bins(assign) == {assign[i] : i \in DOMAIN assign}

\* `plan` and `cluster`: each piece joins a bin already open or opens the next; with one
\* bin there is nothing to gain.
Plans(raw) ==
  IF Len(raw) < PieceSize * 4 THEN {}
  ELSE {a \in [1..NumPieces(Len(raw)) -> 0..(MaxBins - 1)] :
          /\ \A i \in DOMAIN a : a[i] = 0 \/ \E j \in 1..(i - 1) : a[j] = a[i] - 1
          /\ Cardinality(Bins(a)) >= 2}

BinData(raw, assign, b) ==
  FlattenSeq([i \in DOMAIN assign |-> IF assign[i] = b THEN Piece(raw, i) ELSE <<>>])

\* A bin is folded, or stored as a period.
BinPayloads(bin) ==
  LET f == FoldStream(bin)
  IN  {FoldEncodeParts(f.tokens, f.rules)} \cup {SpectralEncode(bin, p) : p \in DetectPeriod(bin)}

BinnedEncodes(raw) ==
  UNION {{[tag |-> "B", total |-> Len(raw), order |-> a, payloads |-> ps] :
            ps \in {f \in [Bins(a) -> UNION {BinPayloads(BinData(raw, a, b)) : b \in Bins(a)}] :
                      \A b \in Bins(a) : f[b] \in BinPayloads(BinData(raw, a, b))}}
         : a \in Plans(raw)}

\* Faulty variant: the short last piece is taken for a whole one.
PieceLenWhole(total, i) == PieceSize

\* The lengths of the bins follow from the order map.
PieceLen(total, i) ==
  IF total - (i - 1) * PieceSize < PieceSize THEN total - (i - 1) * PieceSize ELSE PieceSize

\* `binned_decode`: decode every bin, then deal the pieces out again in order.
BinnedDecode(b, expected) ==
  LET pieces == DOMAIN b.order
      lenBefore(i) == FoldFunctionOnSet(+, 0, [j \in pieces |-> PieceLen(b.total, j)],
                                        {j \in 1..(i - 1) : b.order[j] = b.order[i]})
      binLen(n) == FoldFunctionOnSet(+, 0, [j \in pieces |-> PieceLen(b.total, j)],
                                     {j \in pieces : b.order[j] = n})
      bin == [n \in DOMAIN b.payloads |->
                IF b.payloads[n].tag = "F" THEN DecompressInner(b.payloads[n], binLen(n))
                ELSE SpectralDecode(b.payloads[n], binLen(n))]
  IN  IF /\ b.total = expected /\ Bins(b.order) \subseteq DOMAIN b.payloads
         /\ \A n \in DOMAIN bin : bin[n].ok /\ Len(bin[n].raw) = binLen(n)
      THEN Done(FlattenSeq([i \in pieces |->
                  SubSeq(bin[b.order[i]].raw, lenBefore(i) + 1,
                         lenBefore(i) + PieceLen(b.total, i))]))
      ELSE Fail

-----------------------------------------------------------------------------
\* `compress_block`: what may be kept for a non-empty chunk folded to (tokens, rules).
CompressBlock(raw, tokens, rules) ==
  {StoreEncode(raw), FoldEncodeParts(tokens, rules), O1BytesEncode(raw),
   ArithEncodeParts("A", tokens, rules), ArithEncodeParts("D", tokens, rules)}
  \cup {SpectralEncode(raw, p) : p \in DetectPeriod(raw)}
  \cup BinnedEncodes(raw)

\* `decompress_block`, and the decoder of context.rs beside it.
DecompressBlock(b, expected) ==
  CASE b.tag = "S"          -> SpectralDecode(b, expected)
    [] b.tag = "B"          -> BinnedDecode(b, expected)
    [] b.tag \in {"A", "D"} -> ArithDecodeWith(b, expected)
    [] b.tag = "C"          -> O1BytesDecode(b, expected)
    [] b.tag = "R"          -> StoreDecode(b, expected)
    [] b.tag = "X"          -> ContextDecode(b, expected)
    [] OTHER                -> DecompressInner(b, expected)
=============================================================================
