------------------------- MODULE PersistentGrammar -------------------------
(***************************************************************************)
(* The encoder's grammar of src/src/grammar.rs: one operator per method of *)
(* `PersistentGrammar`, over a record of its fields.  The operators are    *)
(* used by SerialCreate and ParallelCreate, which own the state.           *)
(*                                                                         *)
(* Discovery is modelled exactly (longest-match tokenisation, then pair    *)
(* folding), on scaled-down constants.  Two things are abstracted.  The    *)
(* size comparison that accepts or refuses a candidate is the argument     *)
(* `accept`: block sizes depend on the entropy coder, which is not modelled*)
(* here, so both outcomes are considered.  The token model is its alphabet *)
(* size and the list of what it has coded since the archive began, of      *)
(* which its counts are a function.                                        *)
(***************************************************************************)
EXTENDS GrammarTable, PairFold, FiniteSets, SequencesExt

CONSTANTS
  MaxPhrase,     \* longest expansion entered in the trie (256 in the code)
  MinPairCount,  \* a pair is folded from this count on (4 in the code)
  MaxMerges,     \* bound on merges per chunk (1024 in the code)
  HighEntropy    \* the chunks the entropy test keeps away from the grammar

ASSUME EncoderAssumption ==
  /\ MaxPhrase \in Nat /\ MaxPhrase >= 2
  /\ MinPairCount \in Nat \ {0}
  /\ MaxMerges \in Nat
  /\ HighEntropy \subseteq Seq(Literal)

NoMap == [x \in {} |-> 0]
NoGc  == [survivors |-> <<>>, some |-> FALSE]
None  == [some |-> FALSE]

----------------------------------------------------------------------------
(* The persistent token model, as far as the grammar drives it. *)

FreshModel == [n |-> NLit, baseN |-> NLit, coded |-> <<>>, baseCoded |-> 0]

BeginChunk(m) == [m EXCEPT !.baseN = m.n, !.baseCoded = Len(m.coded)]

\* grow, then one encode_token (or decode_token) per token.
Code(m, n2, tokens) ==
  LET n == IF n2 > m.n THEN n2 ELSE m.n
  IN  [m EXCEPT !.n = n, !.coded = Append(@, [n |-> n, tokens |-> tokens])]

\* Faulty variant: the alphabet growth of a rejected chunk is not undone.
RollbackKeepsGrowth(m) == [m EXCEPT !.coded = SubSeq(@, 1, m.baseCoded)]

RollbackChunk(m) == [m EXCEPT !.n = m.baseN, !.coded = SubSeq(@, 1, m.baseCoded)]

ShrinkAlphabet(m, n2) ==
  IF n2 >= m.n THEN m
  ELSE [m EXCEPT !.n = n2, !.coded = Append(@, [n |-> n2, tokens |-> <<>>])]

----------------------------------------------------------------------------
(* pair_index and the phrase trie: maps in which the last insertion wins. *)

\* Enter keys[from], keys[from + 1], ... in `index`; <<>> stands for "not entered".
EnterFrom(index, keys, from) ==
  LET fresh     == {keys[i] : i \in from .. Len(keys)} \ {<<>>}
      latest(k) == Max({i \in from .. Len(keys) : keys[i] = k})
  IN  [k \in DOMAIN index \cup fresh |-> IF k \in fresh THEN Id(latest(k)) ELSE index[k]]

\* The phrase of every rule, <<>> for one whose expansion is over the cap.
Phrases(rules) ==
  LET exp == Expansions(rules)
  IN  [i \in 1 .. Len(rules) |-> IF Len(exp[i]) <= MaxPhrase THEN exp[i] ELSE <<>>]

IndexFrom(g, from) ==
  [g EXCEPT !.pairIndex = EnterFrom(@, g.rules, from),
            !.trie      = EnterFrom(@, Phrases(g.rules), from)]

\* Faulty variant: the maps are not cleared first.
RebuildOnTop(g) == IndexFrom(g, 1)

RebuildIndexes(g) == IndexFrom([g EXCEPT !.pairIndex = NoMap, !.trie = NoMap], 1)

----------------------------------------------------------------------------
\* `with_lag`: how many chunks back discovery looks, and chunks per GC attempt.
FreshGrammar(lag, gcInterval) ==
  [lag              |-> lag,
   gcInterval       |-> gcInterval,
   rules            |-> <<>>,
   pairIndex        |-> NoMap,
   trie             |-> NoMap,
   model            |-> FreshModel,
   rulesBefore      |-> 0,
   staged           |-> {},
   epochBaseLen     |-> 0,
   snapshotLens     |-> <<>>,
   seq              |-> 0,
   intervalStartSeq |-> 1,
   lastUse          |-> <<>>,
   gcEpoch          |-> 0]

Zeros(n) == [i \in 1 .. n |-> 0]

\* `seed_rules` on a fresh grammar, with a dictionary's closed table.
SeedRules(g, table) ==
  RebuildIndexes([g EXCEPT !.rules        = table,
                           !.lastUse      = Zeros(Len(table)),
                           !.staged       = {},
                           !.rulesBefore  = Len(table),
                           !.epochBaseLen = Len(table),
                           !.snapshotLens = <<>>,
                           !.model.n      = NLit + Len(table)])

----------------------------------------------------------------------------
(* Discovery: tokenise with the trie, then fold pairs. *)

\* The length of the longest phrase of `trie` that raw has at position i, or 0.
LongestAt(trie, raw, i) ==
  Max({0} \cup {n \in 1 .. (Len(raw) - i + 1) : SubSeq(raw, i, i + n - 1) \in DOMAIN trie})

\* `reuse_via`: longest match of at least two bytes, else a literal.
ReuseAt(trie, raw, s) ==
  LET n == LongestAt(trie, raw, s.at)
  IN  IF s.at > Len(raw) THEN s
      ELSE IF n >= 2
      THEN [at |-> s.at + n, out |-> Append(s.out, trie[SubSeq(raw, s.at, s.at + n - 1)])]
      ELSE [at |-> s.at + 1, out |-> Append(s.out, raw[s.at])]

ReuseVia(trie, raw) ==
  LET after[k \in 0 .. Len(raw)] ==
        IF k = 0 THEN [at |-> 1, out |-> <<>>] ELSE ReuseAt(trie, raw, after[k - 1])
  IN  after[Len(raw)].out

\* Faulty variant: off by one.
CapOkOneMore(rules) == Len(rules) <= MaxRules

\* The engine's cap_ok: there is room for one more rule.
CapOk(rules) == Len(rules) < MaxRules

\* The pair becomes the symbol it has, or a new rule.
MergePair(p, best, learns) ==
  IF best \in DOMAIN p.index
  THEN [p EXCEPT !.syms = Splice(@, best, p.index[best])]
  ELSE [p EXCEPT !.syms   = Splice(@, best, Id(Len(p.rules) + 1)),
                 !.rules  = Append(@, best),
                 !.staged = @ \cup {best},
                 !.index  = IF learns THEN EnterFrom(@, Append(p.rules, best),
                                                     Len(p.rules) + 1)
                            ELSE @]

FoldStep(p, learns) ==
  LET best == BestPair(p.syms)
  IN  IF p.done \/ Len(p.syms) < 2 \/ ~CapOk(p.rules) \/ PairCount(p.syms, best) < MinPairCount
      THEN [p EXCEPT !.done = TRUE]
      ELSE MergePair(p, best, learns)

\* `bpe_engine` with the callbacks of `invent` (learns = FALSE: the pair index is
\* read only until the chunk is committed) or of `fork_candidate` (learns = TRUE).
FoldPairs(syms, rules, index, learns) ==
  LET after[k \in 0 .. MaxMerges] ==
        IF k = 0
        THEN [syms |-> syms, rules |-> rules, index |-> index, staged |-> {}, done |-> FALSE]
        ELSE FoldStep(after[k - 1], learns)
  IN  after[MaxMerges]

----------------------------------------------------------------------------
(* Attempting a chunk.  An attempt is the grammar after it, its outcome, and the G *)
(* block if there is one. *)

StatelessBlock == [kind |-> "S", defs |-> <<>>, tokens |-> <<>>, under |-> <<>>]

Attempt(g, outcome, block) == [g |-> g, outcome |-> outcome, block |-> block]
Nothing(g)  == Attempt(g, "none", StatelessBlock)
Panicked(g) == Attempt(g, "panic", StatelessBlock)

\* begin_chunk and the rollback point.
Anchor(g) == [g EXCEPT !.model = BeginChunk(@), !.rulesBefore = Len(g.rules)]

\* Fold on the live table, grow, encode, assemble the G block.  `under` stands for the
\* coded bytes: only a model with the same history turns them back into `tokens`.
FoldAndEncode(g, syms) ==
  LET folded == FoldPairs(syms, g.rules, g.pairIndex, FALSE)
      model  == Code(g.model, NLit + Len(folded.rules), folded.syms)
  IN  Attempt([g EXCEPT !.rules  = folded.rules,
                        !.staged = @ \cup folded.staged,
                        !.model  = model],
              "block",
              [kind   |-> "G",
               defs   |-> SubSeq(folded.rules, g.rulesBefore + 1, Len(folded.rules)),
               tokens |-> folded.syms,
               under  |-> model.coded])

\* `try_compress`: discovery against the live table.
TryCompress(g, raw) ==
  LET anchored == Anchor(g)
  IN  FoldAndEncode(anchored, ReuseVia(anchored.trie, raw))

\* `fork_candidate`: discovery that reads nothing but a frozen prefix of the rules.
ForkCandidate(prefix, raw) ==
  IF prefix = <<>> THEN None
  ELSE LET syms   == ReuseVia(EnterFrom(NoMap, Phrases(prefix), 1), raw)
           folded == FoldPairs(syms, prefix, EnterFrom(NoMap, prefix, 1), TRUE)
       IN  IF Len(syms) < 2 THEN [some |-> TRUE, tokens |-> syms, defs |-> <<>>]
           ELSE [some |-> TRUE, tokens |-> folded.syms, defs |-> folded.rules]

\* What a fork symbol has become.
Rebound(live, s) == IF s < NLit THEN s ELSE live[Position(s)]

\* One fork definition becomes a live symbol, by the pair index or as a new rule.
BindDef(g, p, def) ==
  LET pair == <<Rebound(p.live, def[1]), Rebound(p.live, def[2])>>
  IN  IF p.full THEN p
      ELSE IF pair \in DOMAIN g.pairIndex
      THEN [p EXCEPT !.live = Append(@, g.pairIndex[pair])]
      ELSE IF Len(p.rules) >= MaxRules THEN [p EXCEPT !.full = TRUE]
      ELSE [p EXCEPT !.rules  = Append(@, pair),
                     !.staged = @ \cup {pair},
                     !.live   = Append(@, Id(Len(p.rules) + 1))]

BindDefs(g, defs) ==
  LET bound[k \in 0 .. Len(defs)] ==
        IF k = 0 THEN [rules |-> g.rules, staged |-> g.staged, live |-> <<>>, full |-> FALSE]
        ELSE BindDef(g, bound[k - 1], defs[k])
  IN  bound[Len(defs)]

\* `rebind_comp` on an anchored grammar: fork definitions become live symbols, in order;
\* then the fork's tokens do.
RebindComp(g, cand) ==
  LET all     == BindDefs(g, cand.defs)
      rebound == [g EXCEPT !.rules = all.rules, !.staged = all.staged]
      outside == \E k \in 1 .. Len(cand.tokens) : cand.tokens[k] >= NLit + Len(all.live)
  IN  IF all.full THEN Nothing(rebound)
      ELSE IF outside THEN Panicked(rebound)   \* fork_to_live[i] out of bounds
      ELSE FoldAndEncode(rebound,
             [k \in 1 .. Len(cand.tokens) |-> Rebound(all.live, cand.tokens[k])])

\* `commit_candidate`, and the None arm of `compress_parallel`: the rollback point is
\* anchored whether or not there is a candidate.
CommitCandidate(g, cand) ==
  IF cand.some THEN RebindComp(Anchor(g), cand) ELSE Nothing(Anchor(g))

TryCompressForked(g, raw, snapshot) ==
  CommitCandidate(g, ForkCandidate(SubSeq(g.rules, 1, snapshot), raw))

DiscoverAndEncode(g, raw, snapshot) ==
  IF snapshot >= Len(g.rules) THEN TryCompress(g, raw)
  ELSE TryCompressForked(g, raw, snapshot)

----------------------------------------------------------------------------
(* Keeping or dropping the attempt. *)

RejectChunk(g) ==
  [g EXCEPT !.model     = RollbackChunk(@),
            !.rules     = SubSeq(@, 1, g.rulesBefore),
            !.pairIndex = [k \in DOMAIN @ \ g.staged |-> @[k]],
            !.staged    = {}]

\* Faulty variant: the staged keys stay staged after the commit.
CommitKeepsStaged(g, tokens) ==
  LET used    == {Position(tokens[k]) : k \in 1 .. Len(tokens)}
      sized   == g.lastUse \o Zeros(Len(g.rules) - Len(g.lastUse))
      marked  == [i \in 1 .. Len(sized) |-> IF i \in used THEN g.seq ELSE sized[i]]
  IN  IndexFrom([g EXCEPT !.lastUse = marked], g.rulesBefore + 1)

\* The liveness marks of the accept arm, then `commit_new_rules`.
CommitNewRules(g, tokens) ==
  LET used    == {Position(tokens[k]) : k \in 1 .. Len(tokens)}
      sized   == g.lastUse \o Zeros(Len(g.rules) - Len(g.lastUse))
      marked  == [i \in 1 .. Len(sized) |-> IF i \in used THEN g.seq ELSE sized[i]]
  IN  IndexFrom([g EXCEPT !.lastUse = marked, !.staged = {}], g.rulesBefore + 1)

AcceptOrReject(attempt, accept) ==
  IF attempt.outcome = "block" /\ accept
  THEN [attempt EXCEPT !.g = CommitNewRules(@, attempt.block.tokens)]
  ELSE [attempt EXCEPT !.g = RejectChunk(@), !.block = StatelessBlock]

----------------------------------------------------------------------------
(* Grammar GC. *)

\* Faulty variant: the first chunk of the window does not count.
LiveAfterWindowStart(g) ==
  {i \in 1 .. Len(g.rules) :
     \/ g.lastUse[i] > g.intervalStartSeq
     \/ g.lag > 1 /\ g.lastUse[i] + g.lag > g.intervalStartSeq}

\* Used in the window, or so recently that a lagging fork may still look at it.
LiveRules(g) ==
  {i \in 1 .. Len(g.rules) :
     \/ g.lastUse[i] >= g.intervalStartSeq
     \/ g.lag > 1 /\ g.lastUse[i] + g.lag >= g.intervalStartSeq}

\* One more round of adding what the rules of `kept` are made of.
WithComponents(rules, kept) == kept \cup UNION {Components(rules, i) : i \in kept}

\* The rules reached from `live`, after as many rounds as there are rules.
Reached(rules, live) ==
  LET grown[n \in 0 .. Len(rules)] ==
        IF n = 0 THEN live ELSE WithComponents(rules, grown[n - 1])
  IN  grown[Len(rules)]

\* One more position, if it is kept.
KeepAt(kept, order, k) == IF k \in kept THEN Append(order, k) ELSE order

InOrder(kept, last) ==
  LET order[n \in 0 .. last] == IF n = 0 THEN <<>> ELSE KeepAt(kept, order[n - 1], n)
  IN  order[last]

\* `live_closure`: add what live rules are made of, until nothing is added; then list
\* the positions in ascending order.
LiveClosure(rules, live) == InOrder(Reached(rules, live), Len(rules))

\* Faulty variants: the snapshot ring outlives the remap; the remap is not counted.
StartEpochKeepsRing(g) ==
  [g EXCEPT !.epochBaseLen = Len(g.rules), !.staged = {}, !.gcEpoch = @ + 1]
StartEpochUncounted(g) ==
  [g EXCEPT !.snapshotLens = <<>>, !.epochBaseLen = Len(g.rules), !.staged = {}]

\* Snapshots taken before a remap mean nothing after it.
StartEpoch(g) ==
  [g EXCEPT !.snapshotLens = <<>>, !.epochBaseLen = Len(g.rules), !.staged = {},
            !.gcEpoch = @ + 1]

ApplyGc(g, survivors) ==
  LET rules == Remap(g.rules, survivors)
  IN  StartEpoch(RebuildIndexes(
        [g EXCEPT !.rules       = rules,
                  !.lastUse     = [p \in 1 .. Len(survivors) |-> g.lastUse[survivors[p]]],
                  !.rulesBefore = Len(rules),
                  !.model       = ShrinkAlphabet(@, NLit + Len(rules))]))

\* `gc_attempt`: the grammar, and the GC record if there is one.
GcAttempt(g) ==
  LET survivors == LiveClosure(g.rules, LiveRules(g))
      moved     == [g EXCEPT !.intervalStartSeq = g.seq + 1]
  IN  IF g.seq - g.intervalStartSeq + 1 < g.gcInterval THEN [g |-> g, gc |-> NoGc]
      ELSE IF Len(survivors) >= Len(g.rules) \/ ~RemapOK(g.rules, survivors)
      THEN [g |-> moved, gc |-> NoGc]
      ELSE [g |-> ApplyGc(moved, survivors), gc |-> [some |-> TRUE, survivors |-> survivors]]

----------------------------------------------------------------------------
(* One chunk. *)

\* Rules length chunk r (counted from 0) may look back to.
SnapshotLenAt(g, r) ==
  IF r >= g.lag /\ r - g.lag < Len(g.snapshotLens) THEN g.snapshotLens[r - g.lag + 1]
  ELSE g.epochBaseLen

ChunkIndex(g) == g.seq - 1

RulesPrefix(g, r) ==
  LET snap == SnapshotLenAt(g, r)
  IN  SubSeq(g.rules, 1, IF snap < Len(g.rules) THEN snap ELSE Len(g.rules))

\* `emit_tail` on a finished attempt; `rules` is the table the block leaves, which a
\* GC record after it then remaps.
EmitTail(attempt) ==
  LET kept == [attempt.g EXCEPT !.snapshotLens = Append(@, Len(attempt.g.rules))]
      tail == GcAttempt(kept)
  IN  [g |-> tail.g, gc |-> tail.gc, block |-> attempt.block, rules |-> kept.rules,
       panic |-> FALSE]

\* Chunks that never reach the grammar.
Bypasses(raw) == raw = <<>> \/ raw \in HighEntropy

Finish(attempt, accept) ==
  IF attempt.outcome = "panic"
  THEN [g |-> attempt.g, gc |-> NoGc, block |-> StatelessBlock, rules |-> attempt.g.rules,
        panic |-> TRUE]
  ELSE EmitTail(AcceptOrReject(attempt, accept))

Compress(g0, raw, accept) ==
  LET g == [g0 EXCEPT !.seq = @ + 1]
  IN  IF Bypasses(raw) THEN EmitTail(Nothing(g))
      ELSE Finish(DiscoverAndEncode(g, raw, SnapshotLenAt(g, ChunkIndex(g))), accept)

\* Faulty variant: the candidate's epoch is not compared.
CompressParallelAnyEpoch(g0, cand, snap, epoch, raw, accept) ==
  LET g     == [g0 EXCEPT !.seq = @ + 1]
      now   == SnapshotLenAt(g, ChunkIndex(g))
      fresh == now = snap /\ snap < Len(g.rules)
  IN  IF Bypasses(raw) THEN EmitTail(Nothing(g))
      ELSE IF fresh THEN Finish(CommitCandidate(g, cand), accept)
      ELSE Finish(DiscoverAndEncode(g, raw, now), accept)

\* The candidate counts only if the prefix it was found in is still a proper prefix of
\* the live table.
CompressParallel(g0, cand, snap, epoch, raw, accept) ==
  LET g     == [g0 EXCEPT !.seq = @ + 1]
      now   == SnapshotLenAt(g, ChunkIndex(g))
      fresh == now = snap /\ snap < Len(g.rules) /\ g.gcEpoch = epoch
  IN  IF Bypasses(raw) THEN EmitTail(Nothing(g))
      ELSE IF fresh THEN Finish(CommitCandidate(g, cand), accept)
      ELSE Finish(DiscoverAndEncode(g, raw, now), accept)
============================================================================
