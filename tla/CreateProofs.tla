---------------------------- MODULE CreateProofs ----------------------------
(***************************************************************************)
(* What creating an archive and extracting it comes to, for every list of  *)
(* chunks, every dictionary, every lag and GC interval, and any number of  *)
(* worker threads: the safety properties of ArchiveRoundTrip and           *)
(* ParallelCreate, from one inductive invariant each.                      *)
(***************************************************************************)
EXTENDS ArchiveRoundTrip, ParallelCreate, GrammarProofs

\* The empty maps index the empty list.
LEMMA NothingIndexed ==
  ASSUME NEW keys, Len(keys) = 0
  PROVE  Indexes(NoMap, keys)
<1>1. DOMAIN NoMap = {}
  BY DEF NoMap
<1>2. {keys[i] : i \in 1 .. Len(keys)} = {}
  OBVIOUS
<1> QED
  BY <1>1, <1>2 DEF Indexes, Names

\* `PersistentGrammar::with_lag` starts with books that agree.
LEMMA FreshFacts ==
  ASSUME NEW lag \in Nat \ {0}, NEW gcInterval \in Nat \ {0}
  PROVE  LET g0 == FreshGrammar(lag, gcInterval)
         IN  /\ GrammarOK(g0) /\ g0.rules = <<>> /\ g0.seq = 0 /\ g0.lag = lag
             /\ g0.model.coded = <<>>
<1> DEFINE g0 == FreshGrammar(lag, gcInterval)
<1>1. /\ g0.lag = lag /\ g0.gcInterval = gcInterval /\ g0.rules = <<>>
      /\ g0.pairIndex = NoMap /\ g0.trie = NoMap /\ g0.model = FreshModel
      /\ g0.rulesBefore = 0 /\ g0.staged = {} /\ g0.epochBaseLen = 0
      /\ g0.snapshotLens = <<>> /\ g0.seq = 0 /\ g0.intervalStartSeq = 1
      /\ g0.lastUse = <<>> /\ g0.gcEpoch = 0
  BY DEF FreshGrammar
<1>2. IsGrammar(g0)
  BY DEF FreshGrammar, IsGrammar, Fields
<1> HIDE DEF g0
<1>3. <<>> \in Table /\ Len(<<>>) = 0 /\ <<>> \in Seq(Nat) /\ <<>> \in Seq(Coding)
  BY AlphabetFacts DEF Table, Closed
<1>4. FreshModel \in Model /\ FreshModel.n = NLit + Len(<<>>) /\ FreshModel.coded = <<>>
  <2>1. NLit \in Nat
    BY AlphabetFacts
  <2> QED
    BY <1>3, <2>1 DEF FreshModel, Model
<1>5. Len(Phrases(<<>>)) = 0
  BY <1>3, PhrasesFacts
<1>6. Indexes(NoMap, <<>>) /\ Indexes(NoMap, Phrases(<<>>))
  BY <1>3, <1>5, NothingIndexed
<1>7. BooksOK(g0)
  BY <1>1, <1>3, <1>4, <1>6 DEF BooksOK
<1>8. CountersOK(g0)
  BY <1>1 DEF CountersOK
<1>9. SnapshotsOK(g0.epochBaseLen, g0.snapshotLens, Len(g0.rules))
  BY <1>1, <1>3 DEF SnapshotsOK
<1> QED
  BY <1>1, <1>2, <1>4, <1>7, <1>8, <1>9 DEF GrammarOK, g0

\* So does a grammar seeded with a dictionary (`seed_rules`).
LEMMA SeedFacts ==
  ASSUME NEW lag \in Nat \ {0}, NEW gcInterval \in Nat \ {0}, NEW seed \in Table
  PROVE  LET g0 == SeedRules(FreshGrammar(lag, gcInterval), seed)
         IN  /\ GrammarOK(g0) /\ g0.rules = seed /\ g0.seq = 0 /\ g0.lag = lag
             /\ g0.model.coded = <<>>
<1> DEFINE f == FreshGrammar(lag, gcInterval)
           model == [f.model EXCEPT !.n = NLit + Len(seed)]
           a == [f EXCEPT !.rules        = seed,
                          !.lastUse      = Zeros(Len(seed)),
                          !.staged       = {},
                          !.rulesBefore  = Len(seed),
                          !.epochBaseLen = Len(seed),
                          !.snapshotLens = <<>>,
                          !.model.n      = NLit + Len(seed)]
           b  == [a EXCEPT !.pairIndex = NoMap, !.trie = NoMap]
           g0 == SeedRules(f, seed)
<1>1. GrammarOK(f) /\ f.seq = 0 /\ f.lag = lag /\ f.model.coded = <<>>
  BY FreshFacts
<1>2. g0 = IndexFrom(b, 1)
  BY DEF SeedRules, RebuildIndexes
<1> HIDE DEF f, g0
<1>3. IsGrammar(f) /\ BooksOK(f) /\ CountersOK(f)
  BY <1>1 DEF GrammarOK
<1>4. Len(seed) \in Nat /\ NLit \in Nat
  BY TableLength, AlphabetFacts
<1>5. /\ Only({"rules", "lastUse", "staged", "rulesBefore", "epochBaseLen", "snapshotLens", "model"}, f, a)
      /\ a.rules = seed /\ a.lastUse = Zeros(Len(seed)) /\ a.staged = {}
      /\ a.rulesBefore = Len(seed) /\ a.epochBaseLen = Len(seed) /\ a.snapshotLens = <<>>
      /\ a.model = model
  BY <1>3 DEF IsGrammar, Fields, Only
<1>6. model \in Model /\ model.n = NLit + Len(seed) /\ model.coded = <<>>
  <2>1. f.model \in Model
    BY <1>3 DEF BooksOK
  <2>2. NLit + Len(seed) \in Nat
    BY <1>4
  <2> QED
    BY <1>1, <2>1, <2>2 DEF Model
<1> HIDE DEF a, model
<1>7. /\ Only({"pairIndex", "trie"}, a, b) /\ b.pairIndex = NoMap /\ b.trie = NoMap
      /\ b.rules = seed
  BY <1>5 DEF IsGrammar, Fields, Only
<1> HIDE DEF b
<1>8. /\ Only({"pairIndex", "trie"}, b, g0)
      /\ g0.pairIndex = EnterFrom(NoMap, seed, 1) /\ g0.trie = EnterFrom(NoMap, Phrases(seed), 1)
  BY <1>2, <1>7 DEF IsGrammar, Fields, Only, IndexFrom
<1>9. Only({"pairIndex", "trie"}, a, g0)
  BY <1>7, <1>8 DEF Only
<1>10. /\ g0.rules = seed /\ g0.lastUse = Zeros(Len(seed)) /\ g0.staged = {}
       /\ g0.rulesBefore = Len(seed) /\ g0.epochBaseLen = Len(seed) /\ g0.snapshotLens = <<>>
       /\ g0.model = model
  BY <1>5, <1>9 DEF Only, Fields
<1>11. /\ g0.lag = f.lag /\ g0.gcInterval = f.gcInterval /\ g0.seq = f.seq
       /\ g0.intervalStartSeq = f.intervalStartSeq /\ g0.gcEpoch = f.gcEpoch
  BY <1>5, <1>9 DEF Only, Fields
<1>12. Zeros(Len(seed)) \in Seq(Nat) /\ Len(Zeros(Len(seed))) = Len(seed)
  BY <1>4 DEF Zeros
<1>13. Indexes(g0.pairIndex, seed) /\ Indexes(g0.trie, Phrases(seed))
  BY <1>4, <1>8, PhrasesFacts, EnterAll
<1>14. BooksOK(g0)
  BY <1>4, <1>6, <1>10, <1>12, <1>13 DEF BooksOK
<1>15. CountersOK(g0)
  BY <1>3, <1>11 DEF CountersOK
<1>16. SnapshotsOK(g0.epochBaseLen, g0.snapshotLens, Len(g0.rules))
  BY <1>4, <1>10 DEF SnapshotsOK
<1>17. IsGrammar(g0)
  BY <1>8 DEF Only
<1> QED
  BY <1>1, <1>6, <1>10, <1>11, <1>14, <1>15, <1>16, <1>17 DEF GrammarOK, g0, f

----------------------------------------------------------------------------
(* The encoder, whoever drives it. *)

\* The inputs, as facts.
LEMMA CreateFacts ==
  /\ \A list \in PieceLists : list \in Seq(Seq(Literal) \ {<<>>})
  /\ Lags \subseteq Nat \ {0} /\ GcIntervals \subseteq Nat \ {0}
  /\ SeedTables \subseteq Table
<1>1. \A list \in PieceLists : list \in Seq(Seq(Literal) \ {<<>>})
  BY CreateAssumption
<1>2. \A n \in Lags : n \in Nat \ {0}
  <2> TAKE n \in Lags
  <2>1. n \in 1 .. 1024
    BY CreateAssumption
  <2> QED
    BY ONLY <2>1
<1>3. \A n \in GcIntervals : n \in Nat \ {0}
  <2> TAKE n \in GcIntervals
  <2>1. n \in 1 .. 4096
    BY CreateAssumption
  <2> QED
    BY ONLY <2>1
<1>4. Lags \subseteq Nat \ {0} /\ GcIntervals \subseteq Nat \ {0}
  BY <1>2, <1>3, Zenon
<1>5. SeedTables \subseteq Table
  BY CreateAssumption
<1> QED
  BY <1>1, <1>4, <1>5, Zenon

\* The table a panic leaves in the middle of a chunk is still closed.
Stopped(h, seq) ==
  /\ h.rules \in Table /\ DOMAIN h.pairIndex \subseteq Pair
  /\ h.rulesBefore \in 0 .. Len(h.rules) /\ h.seq = seq

\* The books agree at every record boundary.
SerialInv ==
  /\ pieces \in PieceLists /\ committed \in 0 .. Len(pieces)
  /\ phase \in {"create", "closed", "panicked"}
  /\ phase # "panicked" => GrammarOK(g) /\ g.seq = committed
  /\ phase = "panicked" => Stopped(g, committed + 1)
  /\ phase # "create" => ~pendingGc.some
  /\ phase = "closed" => committed = Len(pieces)

\* A chunk of the list is a string of bytes.
LEMMA PieceFacts ==
  ASSUME SerialInv
  PROVE  /\ pieces \in Seq(Seq(Literal)) /\ Len(pieces) \in Nat /\ committed \in Nat
         /\ \A k \in 1 .. Len(pieces) : pieces[k] \in Seq(Literal)
<1>1. pieces \in Seq(Seq(Literal) \ {<<>>}) /\ committed \in 0 .. Len(pieces)
  BY CreateFacts DEF SerialInv
<1> QED
  BY <1>1

\* The keys of the pair index are pairs.
LEMMA IndexKeys ==
  ASSUME NEW h, GrammarOK(h)
  PROVE  DOMAIN h.pairIndex \subseteq Pair
<1>1. h.rules \in Table /\ Indexes(h.pairIndex, h.rules)
  BY DEF GrammarOK, BooksOK
<1>2. \A i \in 1 .. Len(h.rules) : h.rules[i] \in Pair
  BY <1>1, TableLength
<1> QED
  BY <1>1, <1>2 DEF Indexes

\* The grammar an archive starts with.
LEMMA StartFacts ==
  ASSUME Init
  PROVE  /\ SerialInv /\ g.model.coded = <<>> /\ g.rules \in SeedTables
         /\ g.seq = 0 /\ pendingGc = NoGc /\ stream = <<>> /\ committed = 0
<1>1. PICK seed \in SeedTables, lag \in Lags, gcInterval \in GcIntervals :
        g = IF seed = <<>> THEN FreshGrammar(lag, gcInterval)
            ELSE SeedRules(FreshGrammar(lag, gcInterval), seed)
  BY DEF Init
<1>2. lag \in Nat \ {0} /\ gcInterval \in Nat \ {0} /\ seed \in Table
  BY CreateFacts
<1>3. GrammarOK(g) /\ g.rules = seed /\ g.seq = 0 /\ g.model.coded = <<>>
  <2>1. CASE seed = <<>>
    BY <1>1, <1>2, <2>1, FreshFacts
  <2>2. CASE seed # <<>>
    BY <1>1, <1>2, <2>2, SeedFacts
  <2> QED
    BY <2>1, <2>2
<1>4. /\ pieces \in PieceLists /\ committed = 0 /\ pendingGc = NoGc /\ stream = <<>>
      /\ phase = "create"
  BY DEF Init
<1>5. committed \in 0 .. Len(pieces)
  <2>1. pieces \in Seq(Seq(Literal) \ {<<>>})
    BY <1>4, CreateFacts
  <2> QED
    BY <1>4, <2>1
<1>6. SerialInv
  BY <1>3, <1>4, <1>5 DEF SerialInv
<1> QED
  BY <1>3, <1>4, <1>6

\* What a chunk's compression comes to, as the writer sees it.
LEMMA EmitFacts ==
  ASSUME SerialInv, NEW accept, EmitChunk(accept)
  PROVE  /\ phase = "create" /\ ~pendingGc.some /\ committed < Len(pieces)
         /\ HeadChunk \in Seq(Literal) /\ GrammarOK(g) /\ g.seq = committed
         /\ ChunkDone(g, HeadChunk, Compress(g, HeadChunk, accept))
         /\ WriteData(Compress(g, HeadChunk, accept))
<1>1. /\ phase = "create" /\ ~pendingGc.some /\ committed < Len(pieces)
      /\ WriteData(Compress(g, HeadChunk, accept))
  BY DEF EmitChunk
<1>2. GrammarOK(g) /\ g.seq = committed
  BY <1>1 DEF SerialInv
<1>3. HeadChunk \in Seq(Literal) /\ g.seq \in Nat
  <2>1. committed + 1 \in 1 .. Len(pieces)
    BY <1>1, PieceFacts
  <2> QED
    BY <1>2, <2>1, PieceFacts DEF HeadChunk
<1>4. ChunkDone(g, HeadChunk, Compress(g, HeadChunk, accept))
  BY <1>2, <1>3, CompressFacts
<1> QED
  BY <1>1, <1>2, <1>3, <1>4

\* The books agree after every step of the writer.
LEMMA SerialStep ==
  ASSUME SerialInv, [Next]_vars
  PROVE  SerialInv'
<1>1. CASE \E accept \in BOOLEAN : EmitChunk(accept)
  <2>1. PICK accept \in BOOLEAN : EmitChunk(accept)
    BY <1>1
  <2> DEFINE c == Compress(g, HeadChunk, accept)
  <2>2. /\ phase = "create" /\ ~pendingGc.some /\ committed < Len(pieces)
        /\ GrammarOK(g) /\ g.seq = committed
        /\ ChunkDone(g, HeadChunk, c) /\ WriteData(c)
    BY <2>1, EmitFacts
  <2>3. pieces \in PieceLists /\ committed \in 0 .. Len(pieces) /\ Len(pieces) \in Nat
    BY PieceFacts DEF SerialInv
  <2> HIDE DEF c
  <2>4. g' = c.g /\ pieces' = pieces
    BY <2>2 DEF WriteData
  <2>5. CASE c.panic = TRUE /\ Halted(g, c.g)
    <3>1. phase' = "panicked" /\ UNCHANGED <<committed, pendingGc, stream>>
      BY <2>2, <2>5 DEF WriteData
    <3>2. Stopped(g', committed + 1)
      BY <2>2, <2>4, <2>5, IndexKeys DEF Halted, Stopped
    <3> QED
      BY <2>2, <2>3, <2>4, <3>1, <3>2 DEF SerialInv
  <2>6. CASE /\ c.panic = FALSE
             /\ \E k : /\ GrammarOK(k) /\ Advances(g, HeadChunk, k, c.block)
                       /\ c.rules = k.rules /\ Collected(k, c)
    <3>1. PICK k : /\ GrammarOK(k) /\ Advances(g, HeadChunk, k, c.block) /\ Collected(k, c)
      BY <2>6
    <3>2. committed' = committed + 1 /\ phase' = phase
      BY <2>2, <2>6 DEF WriteData
    <3>3. GrammarOK(c.g)
      BY <3>1 DEF Collected
    <3>4. k.seq = g.seq + 1
      BY <3>1 DEF Advances
    <3>5. c.g.seq = k.seq
      BY <3>1 DEF Collected, Only, Fields, Compacts
    <3> QED
      BY <2>2, <2>3, <2>4, <3>2, <3>3, <3>4, <3>5 DEF SerialInv
  <2> QED
    BY <2>2, <2>5, <2>6 DEF ChunkDone
<1>2. CASE EmitGc
  <2>1. phase = "create" /\ UNCHANGED <<pieces, committed, g, phase>>
    BY <1>2 DEF EmitGc
  <2> QED
    BY <2>1 DEF SerialInv
<1>3. CASE Close
  BY <1>3 DEF Close, SerialInv
<1>4. CASE UNCHANGED vars
  BY <1>4 DEF vars, SerialInv
<1> QED
  BY <1>1, <1>2, <1>3, <1>4 DEF Next

----------------------------------------------------------------------------
(* The archive as a run: the tables, what the token model has coded, and   *)
(* how many chunks have been written, at every record boundary.            *)

ArchiveRecord ==
  [kind : {"S", "G", "GC"}, hash : Seq(Literal), defs : Seq(Pair), tokens : Seq(Symbol),
   under : Seq(Coding), survivors : Seq(Nat)]

\* A data record takes table T, coding m and chunk count c to T2, m2 and c2; so does a GC
\* record.
DataStep(list, rec, T, m, c, T2, m2, c2) ==
  /\ c < Len(list) /\ rec.hash = list[c + 1] /\ c2 = c + 1
  /\ \/ rec.kind = "S" /\ T2 = T /\ m2 = m
     \/ GrammarBlock(T, m, rec.hash, rec, T2, m2)

GcStep(rec, T, m, c, T2, m2, c2) ==
  /\ rec.kind = "GC" /\ Len(rec.survivors) < Len(T) /\ RemapOK(T, rec.survivors)
  /\ T2 = Remap(T, rec.survivors) /\ c2 = c
  /\ m2 = Append(m, [n |-> NLit + Len(rec.survivors), tokens |-> <<>>])

RecordStep(list, rec, T, m, c, T2, m2, c2) ==
  DataStep(list, rec, T, m, c, T2, m2, c2) \/ GcStep(rec, T, m, c, T2, m2, c2)

Run(list, recs, tabs, M, C) ==
  /\ recs \in Seq(ArchiveRecord) /\ tabs \in Seq(Table)
  /\ M \in Seq(Seq(Coding)) /\ C \in Seq(0 .. Len(list))
  /\ Len(tabs) = Len(recs) + 1 /\ Len(M) = Len(recs) + 1 /\ Len(C) = Len(recs) + 1
  /\ M[1] = <<>> /\ C[1] = 0
  /\ \A k \in 1 .. Len(recs) :
       RecordStep(list, recs[k], tabs[k], M[k], C[k], tabs[k + 1], M[k + 1], C[k + 1])

\* What appending to the four of them leaves as it was, and what it adds.
Appended(recs, tabs, M, C, rec, T2, m2, c2, recs2, tabs2, M2, C2) ==
  /\ Len(recs2) = Len(recs) + 1 /\ Len(recs) \in Nat
  /\ \A k \in 1 .. Len(recs) : recs2[k] = recs[k]
  /\ recs2[Len(recs) + 1] = rec
  /\ \A k \in 1 .. Len(recs) + 1 : tabs2[k] = tabs[k] /\ M2[k] = M[k] /\ C2[k] = C[k]
  /\ tabs2[Len(recs) + 2] = T2 /\ M2[Len(recs) + 2] = m2 /\ C2[Len(recs) + 2] = c2

\* One more record.
LEMMA RunAppend ==
  ASSUME NEW list, Len(list) \in Nat, NEW recs, NEW tabs, NEW M, NEW C,
         Run(list, recs, tabs, M, C), NEW rec \in ArchiveRecord, NEW T2 \in Table,
         NEW m2 \in Seq(Coding), NEW c2 \in 0 .. Len(list),
         RecordStep(list, rec, tabs[Len(recs) + 1], M[Len(recs) + 1], C[Len(recs) + 1],
                    T2, m2, c2)
  PROVE  /\ Run(list, Append(recs, rec), Append(tabs, T2), Append(M, m2), Append(C, c2))
         /\ Appended(recs, tabs, M, C, rec, T2, m2, c2,
                     Append(recs, rec), Append(tabs, T2), Append(M, m2), Append(C, c2))
<1> DEFINE n == Len(recs)
           recs2 == Append(recs, rec)
           tabs2 == Append(tabs, T2)
           M2 == Append(M, m2)
           C2 == Append(C, c2)
           B == 0 .. Len(list)
<1>1. /\ recs \in Seq(ArchiveRecord) /\ tabs \in Seq(Table) /\ n \in Nat
      /\ M \in Seq(Seq(Coding)) /\ C \in Seq(B)
      /\ Len(tabs) = n + 1 /\ Len(M) = n + 1 /\ Len(C) = n + 1 /\ M[1] = <<>> /\ C[1] = 0
  BY DEF Run
<1> HIDE DEF B
<1>2. /\ recs2 \in Seq(ArchiveRecord) /\ Len(recs2) = n + 1 /\ recs2[n + 1] = rec
      /\ \A k \in 1 .. n : recs2[k] = recs[k]
  BY <1>1
<1>3. /\ tabs2 \in Seq(Table) /\ Len(tabs2) = n + 2 /\ tabs2[n + 2] = T2
      /\ \A k \in 1 .. n + 1 : tabs2[k] = tabs[k]
  BY <1>1
<1>4. /\ M2 \in Seq(Seq(Coding)) /\ Len(M2) = n + 2 /\ M2[n + 2] = m2
      /\ \A k \in 1 .. n + 1 : M2[k] = M[k]
  <2> DEFINE A == Seq(Coding)
  <2>1. M \in Seq(A) /\ m2 \in A /\ n + 1 \in Nat
    BY <1>1
  <2> HIDE DEF A
  <2>2. M2 \in Seq(A) /\ Len(M2) = n + 2 /\ M2[n + 2] = m2 /\ \A k \in 1 .. n + 1 : M2[k] = M[k]
    BY <1>1, <2>1
  <2> QED
    BY <2>2 DEF A
<1>5. /\ C2 \in Seq(B) /\ Len(C2) = n + 2 /\ C2[n + 2] = c2
      /\ \A k \in 1 .. n + 1 : C2[k] = C[k]
  <2>1. c2 \in B
    BY DEF B
  <2> QED
    BY <1>1, <2>1
<1> HIDE DEF recs2, tabs2, M2, C2
<1>6. ASSUME NEW k \in 1 .. n + 1
      PROVE  RecordStep(list, recs2[k], tabs2[k], M2[k], C2[k], tabs2[k + 1], M2[k + 1], C2[k + 1])
  <2>1. CASE k \in 1 .. n
    <3>1. RecordStep(list, recs[k], tabs[k], M[k], C[k], tabs[k + 1], M[k + 1], C[k + 1])
      BY <2>1 DEF Run
    <3>2. k \in 1 .. n + 1 /\ k + 1 \in 1 .. n + 1
      BY <1>1, <2>1
    <3> QED
      BY <1>2, <1>3, <1>4, <1>5, <2>1, <3>1, <3>2
  <2>2. CASE k = n + 1
    <3>1. n + 1 \in 1 .. n + 1 /\ (n + 1) + 1 = n + 2
      BY <1>1
    <3>2. /\ tabs2[n + 1] = tabs[n + 1] /\ M2[n + 1] = M[n + 1] /\ C2[n + 1] = C[n + 1]
      BY <1>3, <1>4, <1>5, <3>1
    <3> QED
      BY <1>2, <1>3, <1>4, <1>5, <2>2, <3>1, <3>2
  <2> QED
    BY <1>1, <2>1, <2>2
<1>7. M2[1] = <<>> /\ C2[1] = 0 /\ 1 \in 1 .. n + 1 /\ n + 2 = (n + 1) + 1
  BY <1>1, <1>4, <1>5
<1>8. Run(list, recs2, tabs2, M2, C2)
  BY <1>2, <1>3, <1>4, <1>5, <1>6, <1>7 DEF Run, B
<1> QED
  <2>1. Appended(recs, tabs, M, C, rec, T2, m2, c2, recs2, tabs2, M2, C2)
    BY <1>1, <1>2, <1>3, <1>4, <1>5 DEF Appended
  <2> QED
    BY <1>8, <2>1 DEF recs2, tabs2, M2, C2

\* Known tokens are symbols.
LEMMA KnownSymbols ==
  ASSUME NEW T \in Table, NEW tokens, KnownTokens(Len(T), tokens)
  PROVE  tokens \in Seq(Symbol)
<1>1. tokens \in Seq(Nat) /\ \A k \in 1 .. Len(tokens) : tokens[k] < NLit + Len(T)
  BY DEF KnownTokens
<1>2. Len(T) \in Nat /\ Len(T) <= MaxRules
  BY TableLength
<1>3. ASSUME NEW k \in 1 .. Len(tokens) PROVE tokens[k] \in Symbol
  <2>1. tokens[k] \in Nat /\ tokens[k] < NLit + Len(T)
    BY <1>1
  <2> QED
    BY <2>1, <1>2, AlphabetFacts DEF Symbol
<1> HIDE DEF Symbol
<1> QED
  BY <1>1, <1>3

\* The record of a block is a data record.
LEMMA DataFacts ==
  ASSUME NEW list, NEW c \in Nat, c < Len(list), list[c + 1] \in Seq(Literal),
         NEW T \in Table, NEW m \in Seq(Coding), NEW T2 \in Table, NEW m2 \in Seq(Coding),
         NEW block,
         \/ block = StatelessBlock /\ T2 = T /\ m2 = m
         \/ GrammarBlock(T, m, list[c + 1], block, T2, m2)
  PROVE  LET rec == DataRecord(block, list[c + 1])
         IN  /\ rec \in ArchiveRecord /\ rec.tokens = block.tokens
             /\ RecordStep(list, rec, T, m, c, T2, m2, c + 1)
             /\ rec.kind \in {"S", "G"} /\ rec.kind = block.kind
<1> DEFINE raw == list[c + 1]
           rec == DataRecord(block, raw)
<1>1. /\ rec.kind = block.kind /\ rec.hash = raw /\ rec.defs = block.defs
      /\ rec.tokens = block.tokens /\ rec.under = block.under /\ rec.survivors = <<>>
      /\ rec = [kind |-> rec.kind, hash |-> rec.hash, defs |-> rec.defs,
                tokens |-> rec.tokens, under |-> rec.under, survivors |-> rec.survivors]
  BY DEF DataRecord
<1> HIDE DEF rec, raw
<1>2. raw \in Seq(Literal) /\ <<>> \in Seq(Nat) /\ <<>> \in Seq(Pair) /\ <<>> \in Seq(Symbol)
      /\ <<>> \in Seq(Coding)
  BY DEF raw
<1>3. CASE block = StatelessBlock /\ T2 = T /\ m2 = m
  <2>1. /\ block.kind = "S" /\ block.defs = <<>> /\ block.tokens = <<>> /\ block.under = <<>>
    BY <1>3 DEF StatelessBlock
  <2>2. /\ rec.kind = "S" /\ rec.defs \in Seq(Pair) /\ rec.tokens \in Seq(Symbol)
        /\ rec.under \in Seq(Coding) /\ rec.survivors \in Seq(Nat) /\ rec.hash \in Seq(Literal)
    BY <1>1, <1>2, <2>1
  <2>3. rec \in ArchiveRecord
    BY <1>1, <2>2 DEF ArchiveRecord
  <2>4. DataStep(list, rec, T, m, c, T2, m2, c + 1)
    BY <1>1, <1>3, <2>2 DEF DataStep, raw
  <2> QED
    BY <1>1, <2>2, <2>3, <2>4 DEF RecordStep, rec, raw
<1>4. CASE GrammarBlock(T, m, raw, block, T2, m2)
  <2>1. /\ block.kind = "G" /\ block.defs \in Seq(Pair) /\ KnownTokens(Len(T2), block.tokens)
        /\ m2 = block.under
    BY <1>4 DEF GrammarBlock
  <2>2. block.tokens \in Seq(Symbol)
    BY <2>1, KnownSymbols
  <2>3. /\ rec.kind = "G" /\ rec.defs \in Seq(Pair) /\ rec.tokens \in Seq(Symbol)
        /\ rec.under \in Seq(Coding) /\ rec.survivors \in Seq(Nat) /\ rec.hash \in Seq(Literal)
    BY <1>1, <1>2, <2>1, <2>2
  <2>4. rec \in ArchiveRecord
    BY <1>1, <2>3 DEF ArchiveRecord
  <2>5. GrammarBlock(T, m, rec.hash, rec, T2, m2)
    BY <1>1, <1>4 DEF GrammarBlock
  <2>6. DataStep(list, rec, T, m, c, T2, m2, c + 1)
    BY <1>1, <2>5 DEF DataStep, raw
  <2> QED
    BY <1>1, <2>3, <2>4, <2>6 DEF RecordStep, rec, raw
<1> QED
  BY <1>3, <1>4 DEF raw

\* So is the record of a remap a GC record.
LEMMA GcRecordFacts ==
  ASSUME NEW list, NEW c \in Nat, NEW T \in Table, NEW m \in Seq(Coding),
         NEW survivors \in Seq(Nat), Len(survivors) < Len(T), RemapOK(T, survivors)
  PROVE  LET rec == GcRecord(survivors)
             m2  == Append(m, [n |-> NLit + Len(survivors), tokens |-> <<>>])
         IN  /\ rec \in ArchiveRecord /\ rec.kind = "GC" /\ rec.survivors = survivors
             /\ Remap(T, survivors) \in Table /\ m2 \in Seq(Coding)
             /\ RecordStep(list, rec, T, m, c, Remap(T, survivors), m2, c)
<1> DEFINE rec == GcRecord(survivors)
           e   == [n |-> NLit + Len(survivors), tokens |-> <<>>]
           m2  == Append(m, e)
<1>1. /\ rec.kind = "GC" /\ rec.survivors = survivors /\ rec.hash = <<>> /\ rec.defs = <<>>
      /\ rec.tokens = <<>> /\ rec.under = <<>>
      /\ rec = [kind |-> rec.kind, hash |-> rec.hash, defs |-> rec.defs,
                tokens |-> rec.tokens, under |-> rec.under, survivors |-> rec.survivors]
  BY DEF GcRecord
<1> HIDE DEF rec
<1>2. rec \in ArchiveRecord
  <2>1. /\ rec.kind \in {"S", "G", "GC"} /\ rec.hash \in Seq(Literal) /\ rec.defs \in Seq(Pair)
        /\ rec.tokens \in Seq(Symbol) /\ rec.under \in Seq(Coding) /\ rec.survivors \in Seq(Nat)
    BY <1>1
  <2> QED
    BY <1>1, <2>1 DEF ArchiveRecord
<1>3. e \in Coding
  <2>1. NLit + Len(survivors) \in Nat
    BY AlphabetFacts
  <2> QED
    BY <2>1 DEF Coding
<1>4. m2 \in Seq(Coding) /\ Remap(T, survivors) \in Table
  <2> HIDE DEF e
  <2> QED
    BY <1>3, RemapTable
<1>5. GcStep(rec, T, m, c, Remap(T, survivors), m2, c)
  BY <1>1 DEF GcStep
<1> QED
  BY <1>1, <1>2, <1>4, <1>5 DEF RecordStep, rec

----------------------------------------------------------------------------
(* The writer's place in the run, and the marks it leaves on used rules. *)

\* No remap was written since record k.
QuietFrom(recs, k) == \A j \in k .. Len(recs) : recs[j].kind # "GC"

\* A rule that a block since the last remap was coded with is marked with that chunk's
\* number or a later one.
MarksOK(recs, tabs, C, lastUse) ==
  \A k \in 1 .. Len(recs) :
    recs[k].kind = "G" /\ QuietFrom(recs, k) =>
      /\ Extends(tabs[k + 1], tabs[Len(recs) + 1]) /\ C[k + 1] <= C[Len(recs) + 1]
      /\ \A q \in 1 .. Len(recs[k].tokens) :
           recs[k].tokens[q] >= NLit => lastUse[Position(recs[k].tokens[q])] >= C[k + 1]

\* A rule that a block of the last gcInterval chunks was coded with survives the remap.
KeptOK(recs, tabs, C, gcInterval, survivors) ==
  \A k \in 1 .. Len(recs) :
    recs[k].kind = "G" /\ QuietFrom(recs, k) /\ C[Len(recs) + 1] - C[k] <= gcInterval =>
      /\ Extends(tabs[k + 1], tabs[Len(recs) + 1])
      /\ \A q \in 1 .. Len(recs[k].tokens) :
           recs[k].tokens[q] >= NLit => Position(recs[k].tokens[q]) \in Kept(survivors)

\* Without a GC record to write, the grammar is the run's last table and coding; with
\* one, it is what the record will make of them.
Writer(recs, tabs, M, C, h, gc) ==
  LET n == Len(recs) + 1
  IN  \/ /\ gc = NoGc /\ h.rules = tabs[n] /\ h.model.coded = M[n]
         /\ MarksOK(recs, tabs, C, h.lastUse)
      \/ /\ gc.some = TRUE /\ gc.survivors \in Seq(Nat)
         /\ Len(gc.survivors) < Len(tabs[n]) /\ RemapOK(tabs[n], gc.survivors)
         /\ h.rules = Remap(tabs[n], gc.survivors)
         /\ h.model.coded = Append(M[n], [n |-> NLit + Len(gc.survivors), tokens |-> <<>>])
         /\ KeptOK(recs, tabs, C, h.gcInterval, gc.survivors)

\* A token of a block is a literal or names a rule of the table the block leaves.
LEMMA TokenKnown ==
  ASSUME NEW list, NEW recs, NEW tabs, NEW M, NEW C, Run(list, recs, tabs, M, C),
         NEW k \in 1 .. Len(recs), recs[k].kind = "G", NEW q \in 1 .. Len(recs[k].tokens)
  PROVE  /\ tabs[k + 1] \in Table /\ recs[k].tokens[q] \in Nat
         /\ Known(tabs[k + 1], recs[k].tokens[q])
         /\ recs[k].tokens[q] >= NLit =>
              Position(recs[k].tokens[q]) \in 1 .. Len(tabs[k + 1])
         /\ C[k + 1] = C[k] + 1 /\ C[k] \in Nat
<1> DEFINE T == tabs[k + 1]
           s == recs[k].tokens[q]
<1>1. RecordStep(list, recs[k], tabs[k], M[k], C[k], tabs[k + 1], M[k + 1], C[k + 1])
  BY DEF Run
<1>2. DataStep(list, recs[k], tabs[k], M[k], C[k], tabs[k + 1], M[k + 1], C[k + 1])
  BY <1>1 DEF RecordStep, GcStep
<1>3. KnownTokens(Len(T), recs[k].tokens) /\ T \in Table /\ C[k + 1] = C[k] + 1
  BY <1>2 DEF DataStep, GrammarBlock
<1>4. s \in Nat /\ s < NLit + Len(T)
  BY <1>3 DEF KnownTokens
<1>5. C[k] \in Nat
  <2>1. C \in Seq(0 .. Len(list)) /\ Len(C) = Len(recs) + 1 /\ Len(recs) \in Nat
    BY DEF Run
  <2>2. k \in 1 .. Len(C)
    BY <2>1
  <2> QED
    BY <2>1, <2>2
<1> HIDE DEF T, s
<1>6. s >= NLit => Position(s) \in 1 .. Len(T)
  <2>1. Known(T, s)
    BY <1>4 DEF Known
  <2>2. ~(s < NLit) => Position(s) \in 1 .. Len(T)
    BY <1>3, <1>4, <2>1, SymbolKinds
  <2> QED
    BY <1>4, <2>2, AlphabetFacts
<1> QED
  BY <1>3, <1>4, <1>5, <1>6 DEF Known, T, s

\* A data record and the marks of its chunk.
MarksStep(recs, tabs, C, lastUse, rec, recs2, tabs2, C2, lastUse2) ==
  /\ Len(recs) \in Nat /\ Len(recs2) = Len(recs) + 1
  /\ \A k \in 1 .. Len(recs) : recs2[k] = recs[k]
  /\ \A k \in 1 .. Len(recs) + 1 : tabs2[k] = tabs[k] /\ C2[k] = C[k]
  /\ C2[Len(recs) + 2] = C[Len(recs) + 1] + 1 /\ C[Len(recs) + 1] \in Nat
  /\ tabs2[Len(recs) + 2] \in Table /\ Extends(tabs[Len(recs) + 1], tabs2[Len(recs) + 2])
  /\ \A i \in 1 .. Len(tabs[Len(recs) + 1]) :
       lastUse2[i] \in {lastUse[i], C[Len(recs) + 1] + 1}
  /\ recs2[Len(recs) + 1] = rec
  /\ rec.kind = "G" =>
       \A q \in 1 .. Len(rec.tokens) :
         rec.tokens[q] >= NLit => lastUse2[Position(rec.tokens[q])] = C[Len(recs) + 1] + 1

\* It extends the window by its own marks.
LEMMA MarksData ==
  ASSUME NEW list, NEW recs, NEW tabs, NEW M, NEW C, Run(list, recs, tabs, M, C),
         NEW lastUse, MarksOK(recs, tabs, C, lastUse),
         NEW rec, NEW recs2, NEW tabs2, NEW C2, NEW lastUse2,
         MarksStep(recs, tabs, C, lastUse, rec, recs2, tabs2, C2, lastUse2)
  PROVE  MarksOK(recs2, tabs2, C2, lastUse2)
<1> DEFINE n == Len(recs)
           c == C[n + 1]
<1>1. /\ n \in Nat /\ c \in Nat /\ Len(recs2) = n + 1 /\ n + 2 = (n + 1) + 1
      /\ \A k \in 1 .. n : recs2[k] = recs[k]
      /\ \A k \in 1 .. n + 1 : tabs2[k] = tabs[k] /\ C2[k] = C[k]
      /\ C2[n + 2] = c + 1 /\ tabs2[n + 2] \in Table /\ Extends(tabs[n + 1], tabs2[n + 2])
      /\ \A i \in 1 .. Len(tabs[n + 1]) : lastUse2[i] \in {lastUse[i], c + 1}
      /\ recs2[n + 1] = rec
      /\ rec.kind = "G" =>
           \A q \in 1 .. Len(rec.tokens) :
             rec.tokens[q] >= NLit => lastUse2[Position(rec.tokens[q])] = c + 1
  BY DEF MarksStep
<1>2. tabs \in Seq(Table) /\ Len(tabs) = n + 1
  BY DEF Run
<1> SUFFICES ASSUME NEW k \in 1 .. n + 1, recs2[k].kind = "G", QuietFrom(recs2, k)
             PROVE  /\ Extends(tabs2[k + 1], tabs2[n + 2]) /\ C2[k + 1] <= C2[n + 2]
                    /\ \A q \in 1 .. Len(recs2[k].tokens) :
                         recs2[k].tokens[q] >= NLit =>
                           lastUse2[Position(recs2[k].tokens[q])] >= C2[k + 1]
  BY <1>1 DEF MarksOK
<1>3. CASE k \in 1 .. n
  <2>1. QuietFrom(recs, k)
    <3> SUFFICES ASSUME NEW j \in k .. n PROVE recs[j].kind # "GC"
      BY DEF QuietFrom
    <3>1. j \in k .. Len(recs2) /\ j \in 1 .. n
      BY <1>1, <1>3
    <3> QED
      BY <1>1, <3>1 DEF QuietFrom
  <2>2. k + 1 \in 1 .. n + 1 /\ recs2[k] = recs[k]
    BY <1>1, <1>3
  <2>3. tabs2[k + 1] = tabs[k + 1] /\ C2[k + 1] = C[k + 1]
    BY <1>1, <2>2
  <2>4. /\ Extends(tabs[k + 1], tabs[n + 1]) /\ C[k + 1] <= C[n + 1]
        /\ \A q \in 1 .. Len(recs[k].tokens) :
             recs[k].tokens[q] >= NLit => lastUse[Position(recs[k].tokens[q])] >= C[k + 1]
    BY <1>3, <2>1, <2>2 DEF MarksOK
  <2>5. tabs[k + 1] \in Table /\ tabs[n + 1] \in Table
    BY <1>1, <1>2, <2>2
  <2>6. Extends(tabs[k + 1], tabs2[n + 2])
    BY <1>1, <2>4, <2>5, ExtendsTransitive, SMTT(30)
  <2>7. C[k + 1] \in Nat
    <3>1. C \in Seq(0 .. Len(list)) /\ Len(C) = n + 1
      BY DEF Run
    <3> QED
      BY <2>2, <3>1
  <2>8. ASSUME NEW q \in 1 .. Len(recs[k].tokens), recs[k].tokens[q] >= NLit
        PROVE  lastUse2[Position(recs[k].tokens[q])] >= C[k + 1]
    <3> DEFINE i == Position(recs[k].tokens[q])
    <3>1. i \in 1 .. Len(tabs[k + 1])
      BY <1>3, <2>2, <2>8, TokenKnown
    <3>2. i \in 1 .. Len(tabs[n + 1])
      BY <2>4, <2>5, <3>1, TableLength DEF Extends
    <3>3. lastUse[i] >= C[k + 1]
      BY <2>4, <2>8
    <3> HIDE DEF i
    <3>4. CASE lastUse2[i] = lastUse[i]
      BY <3>3, <3>4 DEF i
    <3>5. CASE lastUse2[i] = c + 1
      <4>1. c + 1 >= C[k + 1]
        BY <1>1, <2>4, <2>7
      <4> QED
        BY <3>5, <4>1 DEF i
    <3> QED
      BY <1>1, <3>2, <3>4, <3>5
  <2> QED
    BY <1>1, <2>2, <2>3, <2>4, <2>6, <2>7, <2>8
<1>4. CASE k = n + 1
  <2>1. recs2[k] = rec /\ C2[k + 1] = c + 1 /\ k + 1 = n + 2
    BY <1>1, <1>4
  <2>2. Extends(tabs2[n + 2], tabs2[n + 2])
    BY <1>1, TableLength DEF Extends
  <2>3. C2[k + 1] <= C2[n + 2]
    BY <1>1, <2>1
  <2>4. ASSUME NEW q \in 1 .. Len(rec.tokens), rec.tokens[q] >= NLit
        PROVE  lastUse2[Position(rec.tokens[q])] >= c + 1
    <3>1. lastUse2[Position(rec.tokens[q])] = c + 1
      BY <1>1, <1>4, <2>1, <2>4
    <3> QED
      BY <1>1, <3>1
  <2> QED
    BY <2>1, <2>2, <2>3, <2>4
<1> QED
  BY <1>1, <1>3, <1>4

\* The marks keep the window's rules alive.
LEMMA MarksKept ==
  ASSUME NEW list, NEW recs, NEW tabs, NEW M, NEW C, Run(list, recs, tabs, M, C),
         NEW k, GrammarOK(k), k.rules = tabs[Len(recs) + 1], k.seq = C[Len(recs) + 1],
         MarksOK(recs, tabs, C, k.lastUse), NEW survivors, NEW h, Compacts(k, survivors, h)
  PROVE  KeptOK(recs, tabs, C, h.gcInterval, survivors)
<1> DEFINE n == Len(recs)
<1>1. n \in Nat /\ tabs \in Seq(Table) /\ Len(tabs) = n + 1
  BY DEF Run
<1>2. k.gcInterval \in Nat /\ k.seq \in Nat /\ h.gcInterval = k.gcInterval
  BY DEF GrammarOK, CountersOK, Compacts
<1> SUFFICES ASSUME NEW j \in 1 .. n, recs[j].kind = "G", QuietFrom(recs, j),
                    C[n + 1] - C[j] <= k.gcInterval
             PROVE  /\ Extends(tabs[j + 1], tabs[n + 1])
                    /\ \A q \in 1 .. Len(recs[j].tokens) :
                         recs[j].tokens[q] >= NLit =>
                           Position(recs[j].tokens[q]) \in Kept(survivors)
  BY <1>2 DEF KeptOK
<1>3. /\ Extends(tabs[j + 1], tabs[n + 1])
      /\ \A q \in 1 .. Len(recs[j].tokens) :
           recs[j].tokens[q] >= NLit => k.lastUse[Position(recs[j].tokens[q])] >= C[j + 1]
  BY DEF MarksOK
<1>4. ASSUME NEW q \in 1 .. Len(recs[j].tokens), recs[j].tokens[q] >= NLit
      PROVE  Position(recs[j].tokens[q]) \in Kept(survivors)
  <2> DEFINE i == Position(recs[j].tokens[q])
  <2>1. /\ i \in 1 .. Len(tabs[j + 1]) /\ C[j + 1] = C[j] + 1 /\ C[j] \in Nat
        /\ tabs[j + 1] \in Table
    BY <1>4, TokenKnown
  <2>2. i \in 1 .. Len(k.rules)
    <3>1. tabs[n + 1] \in Table
      BY <1>1
    <3> QED
      BY <1>3, <2>1, <3>1, TableLength DEF Extends
  <2>3. k.lastUse[i] >= C[j + 1]
    BY <1>3, <1>4
  <2>4. k.lastUse[i] \in Nat
    <3>1. k.lastUse \in Seq(Nat) /\ Len(k.lastUse) = Len(k.rules)
      BY DEF GrammarOK, BooksOK
    <3> QED
      BY <2>2, <3>1
  <2> HIDE DEF i
  <2>5. k.lastUse[i] >= k.seq - k.gcInterval + 1
    <3>1. k.seq - C[j] <= k.gcInterval
      OBVIOUS
    <3>2. k.lastUse[i] >= C[j] + 1
      BY <2>1, <2>3
    <3>3. \A a, b, c, d \in Nat : a - b <= c /\ d >= b + 1 => d >= a - c + 1
      OBVIOUS
    <3>4. k.seq \in Nat /\ C[j] \in Nat /\ k.gcInterval \in Nat /\ k.lastUse[i] \in Nat
      BY <1>2, <2>1, <2>4
    <3> QED
      BY <3>1, <3>2, <3>3, <3>4
  <2>6. i \in Kept(survivors)
    BY <2>2, <2>5 DEF Compacts
  <2> QED
    BY <2>6 DEF i
<1> QED
  BY <1>3, <1>4

\* A run with the writer in its place, after c chunks.
Continues(list, recs, tabs, M, C, c, h, gc) ==
  Run(list, recs, tabs, M, C) /\ Writer(recs, tabs, M, C, h, gc) /\ C[Len(recs) + 1] = c

\* A chunk's record continues the run, and the writer is in its place again.
LEMMA WriterData ==
  ASSUME NEW list, Len(list) \in Nat, NEW recs, NEW tabs, NEW M, NEW C,
         Run(list, recs, tabs, M, C),
         NEW h, GrammarOK(h), Writer(recs, tabs, M, C, h, NoGc),
         h.seq = C[Len(recs) + 1], C[Len(recs) + 1] < Len(list),
         NEW raw, raw = list[C[Len(recs) + 1] + 1], raw \in Seq(Literal),
         NEW k, GrammarOK(k), NEW block, Advances(h, raw, k, block),
         NEW t, Collected(k, t)
  PROVE  Continues(list, Append(recs, DataRecord(block, raw)), Append(tabs, k.rules),
                   Append(M, k.model.coded), Append(C, C[Len(recs) + 1] + 1),
                   C[Len(recs) + 1] + 1, t.g, t.gc)
<1> DEFINE n     == Len(recs)
           c     == C[n + 1]
           rec   == DataRecord(block, raw)
           recs2 == Append(recs, rec)
           tabs2 == Append(tabs, k.rules)
           M2    == Append(M, k.model.coded)
           C2    == Append(C, c + 1)
<1>1. n \in Nat /\ c \in 0 .. Len(list) /\ tabs[n + 1] \in Table /\ M[n + 1] \in Seq(Coding)
  <2>1. n \in Nat /\ tabs \in Seq(Table) /\ Len(tabs) = n + 1
    BY DEF Run
  <2>2. C \in Seq(0 .. Len(list)) /\ Len(C) = n + 1
    BY DEF Run
  <2>3. M \in Seq(Seq(Coding)) /\ Len(M) = n + 1
    BY DEF Run
  <2>4. n + 1 \in 1 .. n + 1
    BY <2>1
  <2>5. tabs[n + 1] \in Table
    BY <2>1, <2>4
  <2>6. C[n + 1] \in 0 .. Len(list)
    BY <2>2, <2>4
  <2>7. M[n + 1] \in Seq(Coding)
    BY <2>3, <2>4
  <2> QED
    BY <2>1, <2>5, <2>6, <2>7
<1>2. h.rules = tabs[n + 1] /\ h.model.coded = M[n + 1] /\ MarksOK(recs, tabs, C, h.lastUse)
  <2>1. NoGc.some # TRUE
    BY DEF NoGc
  <2> QED
    BY <2>1 DEF Writer
<1>3. /\ k.rules \in Table /\ k.model.coded \in Seq(Coding) /\ c + 1 \in 0 .. Len(list)
      /\ k.model \in Model
  <2>1. k.rules \in Table /\ k.model \in Model
    BY DEF GrammarOK, BooksOK
  <2>2. k.model.coded \in Seq(Coding)
    BY <2>1 DEF Model
  <2> QED
    BY <1>1, <2>1, <2>2
<1>4. /\ Extends(tabs[n + 1], k.rules) /\ k.seq = c + 1
      /\ \/ /\ block = StatelessBlock /\ k.rules = tabs[n + 1] /\ k.model.coded = M[n + 1]
            /\ k.lastUse = h.lastUse
         \/ /\ GrammarBlock(tabs[n + 1], M[n + 1], raw, block, k.rules, k.model.coded)
            /\ \A i \in 1 .. Len(block.tokens) :
                 block.tokens[i] >= NLit => k.lastUse[Position(block.tokens[i])] = k.seq
            /\ \A i \in 1 .. Len(tabs[n + 1]) : k.lastUse[i] \in {h.lastUse[i], k.seq}
  BY <1>2 DEF Advances
<1>5. /\ rec \in ArchiveRecord /\ rec.tokens = block.tokens /\ rec.kind = block.kind
      /\ RecordStep(list, rec, tabs[n + 1], M[n + 1], c, k.rules, k.model.coded, c + 1)
  <2>1. c \in Nat /\ c < Len(list) /\ list[c + 1] \in Seq(Literal)
    BY <1>1
  <2>2. \/ block = StatelessBlock /\ k.rules = tabs[n + 1] /\ k.model.coded = M[n + 1]
        \/ GrammarBlock(tabs[n + 1], M[n + 1], list[c + 1], block, k.rules, k.model.coded)
    BY <1>4
  <2>3. rec = DataRecord(block, list[c + 1])
    OBVIOUS
  <2> HIDE DEF rec, c
  <2> QED
    BY <1>1, <1>3, <2>1, <2>2, <2>3, DataFacts, SMTT(30)
<1> HIDE DEF rec
<1>6. /\ Run(list, recs2, tabs2, M2, C2) /\ Len(recs2) = n + 1
      /\ \A j \in 1 .. n : recs2[j] = recs[j]
      /\ recs2[n + 1] = rec
      /\ \A j \in 1 .. n + 1 : tabs2[j] = tabs[j] /\ M2[j] = M[j] /\ C2[j] = C[j]
      /\ tabs2[n + 2] = k.rules /\ M2[n + 2] = k.model.coded /\ C2[n + 2] = c + 1
  <2>1. RecordStep(list, rec, tabs[Len(recs) + 1], M[Len(recs) + 1], C[Len(recs) + 1],
                   k.rules, k.model.coded, c + 1)
    BY <1>5
  <2> DEFINE T2 == k.rules
             m2 == k.model.coded
             c2 == c + 1
  <2>2. T2 \in Table /\ m2 \in Seq(Coding) /\ c2 \in 0 .. Len(list) /\ rec \in ArchiveRecord
    BY <1>3, <1>5
  <2> HIDE DEF T2, m2, c2
  <2>3. /\ Run(list, recs2, Append(tabs, T2), Append(M, m2), Append(C, c2))
        /\ Appended(recs, tabs, M, C, rec, T2, m2, c2,
                    recs2, Append(tabs, T2), Append(M, m2), Append(C, c2))
    BY <2>1, <2>2, RunAppend DEF T2, m2, c2
  <2> QED
    BY <2>3 DEF Appended, T2, m2, c2
<1> HIDE DEF recs2, tabs2, M2, C2
<1>7. rec.kind = "G" =>
        \A q \in 1 .. Len(rec.tokens) :
          rec.tokens[q] >= NLit => k.lastUse[Position(rec.tokens[q])] = c + 1
  <2>1. CASE block = StatelessBlock
    BY <1>5, <2>1 DEF StatelessBlock
  <2>2. CASE \A i \in 1 .. Len(block.tokens) :
               block.tokens[i] >= NLit => k.lastUse[Position(block.tokens[i])] = k.seq
    BY <1>4, <1>5, <2>2
  <2> QED
    BY <1>4, <2>1, <2>2
<1>8. \A i \in 1 .. Len(tabs[n + 1]) : k.lastUse[i] \in {h.lastUse[i], c + 1}
  BY <1>4
<1>9. MarksOK(recs2, tabs2, C2, k.lastUse)
  <2>1. /\ Len(recs) \in Nat /\ Len(recs2) = Len(recs) + 1
        /\ \A j \in 1 .. Len(recs) : recs2[j] = recs[j]
        /\ \A j \in 1 .. Len(recs) + 1 : tabs2[j] = tabs[j] /\ C2[j] = C[j]
        /\ C2[Len(recs) + 2] = C[Len(recs) + 1] + 1 /\ C[Len(recs) + 1] \in Nat
        /\ recs2[Len(recs) + 1] = rec
    BY <1>1, <1>6
  <2>2. /\ tabs2[Len(recs) + 2] \in Table
        /\ Extends(tabs[Len(recs) + 1], tabs2[Len(recs) + 2])
    BY <1>3, <1>4, <1>6
  <2>3. /\ MarksOK(recs, tabs, C, h.lastUse)
        /\ \A i \in 1 .. Len(tabs[Len(recs) + 1]) :
             k.lastUse[i] \in {h.lastUse[i], C[Len(recs) + 1] + 1}
    BY <1>2, <1>8
  <2>4. rec.kind = "G" =>
          \A q \in 1 .. Len(rec.tokens) :
            rec.tokens[q] >= NLit =>
              k.lastUse[Position(rec.tokens[q])] = C[Len(recs) + 1] + 1
    BY <1>7
  <2>5. MarksStep(recs, tabs, C, h.lastUse, rec, recs2, tabs2, C2, k.lastUse)
    BY <2>1, <2>2, <2>3, <2>4 DEF MarksStep
  <2> QED
    BY <2>3, <2>5, MarksData
<1>10. Len(recs2) + 1 = n + 2
  BY <1>1, <1>6
<1>11. Writer(recs2, tabs2, M2, C2, t.g, t.gc) /\ t.g.seq = c + 1
  <2>1. CASE t.gc = NoGc /\ Only({"intervalStartSeq"}, k, t.g)
    <3>1. /\ t.g.rules = k.rules /\ t.g.model = k.model /\ t.g.lastUse = k.lastUse
          /\ t.g.seq = k.seq
      BY <2>1 DEF Only, Fields
    <3> QED
      BY <1>4, <1>6, <1>9, <1>10, <2>1, <3>1 DEF Writer
  <2>2. CASE \E survivors : /\ t.gc = [some |-> TRUE, survivors |-> survivors]
                            /\ Compacts(k, survivors, t.g)
    <3>1. PICK survivors : /\ t.gc = [some |-> TRUE, survivors |-> survivors]
                           /\ Compacts(k, survivors, t.g)
      BY <2>2
    <3>2. t.gc.some = TRUE /\ t.gc.survivors = survivors
      BY <3>1
    <3>3. k.rules = tabs2[Len(recs2) + 1] /\ k.seq = C2[Len(recs2) + 1]
      BY <1>4, <1>6, <1>10
    <3>4. KeptOK(recs2, tabs2, C2, t.g.gcInterval, survivors)
      BY <1>6, <1>9, <3>1, <3>3, MarksKept
    <3>5. /\ survivors \in Seq(Nat) /\ Len(survivors) < Len(k.rules)
          /\ RemapOK(k.rules, survivors) /\ t.g.rules = Remap(k.rules, survivors)
          /\ t.g.model.coded
               = Append(k.model.coded, [n |-> NLit + Len(survivors), tokens |-> <<>>])
          /\ t.g.seq = k.seq
      BY <3>1 DEF Compacts
    <3> QED
      BY <1>4, <1>6, <1>10, <3>2, <3>3, <3>4, <3>5 DEF Writer
  <2> QED
    BY <2>1, <2>2 DEF Collected
<1> QED
  <2>1. Continues(list, recs2, tabs2, M2, C2, c + 1, t.g, t.gc)
    BY <1>6, <1>10, <1>11 DEF Continues
  <2> QED
    BY <2>1 DEF recs2, tabs2, M2, C2, rec

\* So does the GC record of a remap.
LEMMA WriterGc ==
  ASSUME NEW list, Len(list) \in Nat, NEW recs, NEW tabs, NEW M, NEW C,
         Run(list, recs, tabs, M, C),
         NEW h, NEW gc, gc.some = TRUE, Writer(recs, tabs, M, C, h, gc)
  PROVE  Continues(list, Append(recs, GcRecord(gc.survivors)), Append(tabs, h.rules),
                   Append(M, h.model.coded), Append(C, C[Len(recs) + 1]),
                   C[Len(recs) + 1], h, NoGc)
<1> DEFINE n     == Len(recs)
           c     == C[n + 1]
           s     == gc.survivors
           rec   == GcRecord(s)
           recs2 == Append(recs, rec)
           tabs2 == Append(tabs, h.rules)
           M2    == Append(M, h.model.coded)
           C2    == Append(C, c)
<1>1. n \in Nat /\ c \in 0 .. Len(list) /\ tabs[n + 1] \in Table /\ M[n + 1] \in Seq(Coding)
  <2>1. n \in Nat /\ tabs \in Seq(Table) /\ Len(tabs) = n + 1
    BY DEF Run
  <2>2. C \in Seq(0 .. Len(list)) /\ Len(C) = n + 1
    BY DEF Run
  <2>3. M \in Seq(Seq(Coding)) /\ Len(M) = n + 1
    BY DEF Run
  <2>4. n + 1 \in 1 .. n + 1
    BY <2>1
  <2>5. tabs[n + 1] \in Table
    BY <2>1, <2>4
  <2>6. C[n + 1] \in 0 .. Len(list)
    BY <2>2, <2>4
  <2>7. M[n + 1] \in Seq(Coding)
    BY <2>3, <2>4
  <2> QED
    BY <2>1, <2>5, <2>6, <2>7
<1>2. /\ s \in Seq(Nat) /\ Len(s) < Len(tabs[n + 1]) /\ RemapOK(tabs[n + 1], s)
      /\ h.rules = Remap(tabs[n + 1], s)
      /\ h.model.coded = Append(M[n + 1], [n |-> NLit + Len(s), tokens |-> <<>>])
  <2>1. NoGc.some # TRUE
    BY DEF NoGc
  <2> QED
    BY <2>1 DEF Writer
<1>3. /\ rec \in ArchiveRecord /\ rec.kind = "GC" /\ h.rules \in Table
      /\ h.model.coded \in Seq(Coding)
      /\ RecordStep(list, rec, tabs[n + 1], M[n + 1], c, h.rules, h.model.coded, c)
  <2> DEFINE T == tabs[n + 1]
             m == M[n + 1]
             m2 == Append(m, [n |-> NLit + Len(s), tokens |-> <<>>])
  <2>1. c \in Nat /\ T \in Table /\ m \in Seq(Coding) /\ s \in Seq(Nat) /\ Len(s) < Len(T)
        /\ RemapOK(T, s) /\ h.rules = Remap(T, s) /\ h.model.coded = m2
    BY <1>1, <1>2
  <2> HIDE DEF T, m, s, rec, c
  <2>2. /\ GcRecord(s) \in ArchiveRecord /\ GcRecord(s).kind = "GC"
        /\ Remap(T, s) \in Table /\ m2 \in Seq(Coding)
        /\ RecordStep(list, GcRecord(s), T, m, c, Remap(T, s), m2, c)
    BY <2>1, GcRecordFacts
  <2> HIDE DEF m2
  <2> QED
    BY <2>1, <2>2 DEF rec, T, m
<1> HIDE DEF rec, s
<1>4. /\ Run(list, recs2, tabs2, M2, C2) /\ Len(recs2) = n + 1 /\ recs2[n + 1] = rec
      /\ tabs2[n + 2] = h.rules /\ M2[n + 2] = h.model.coded /\ C2[n + 2] = c
  <2> DEFINE T2 == h.rules
             m2 == h.model.coded
  <2>1. /\ RecordStep(list, rec, tabs[Len(recs) + 1], M[Len(recs) + 1], C[Len(recs) + 1],
                      T2, m2, c)
        /\ T2 \in Table /\ m2 \in Seq(Coding) /\ c \in 0 .. Len(list) /\ rec \in ArchiveRecord
    BY <1>1, <1>3
  <2> HIDE DEF T2, m2, c
  <2>2. /\ Run(list, recs2, Append(tabs, T2), Append(M, m2), Append(C, c))
        /\ Appended(recs, tabs, M, C, rec, T2, m2, c,
                    recs2, Append(tabs, T2), Append(M, m2), Append(C, c))
    BY <2>1, RunAppend
  <2> QED
    BY <2>2 DEF Appended, T2, m2, c
<1> HIDE DEF recs2, tabs2, M2, C2
<1>5. MarksOK(recs2, tabs2, C2, h.lastUse)
  <2>1. ASSUME NEW k \in 1 .. n + 1, QuietFrom(recs2, k) PROVE FALSE
    <3>1. n + 1 \in k .. n + 1
      BY <1>1
    <3> QED
      BY <1>3, <1>4, <2>1, <3>1 DEF QuietFrom
  <2> QED
    BY <1>4, <2>1 DEF MarksOK
<1>6. Len(recs2) + 1 = n + 2
  BY <1>1, <1>4
<1> QED
  <2>1. Writer(recs2, tabs2, M2, C2, h, NoGc)
    BY <1>4, <1>5, <1>6 DEF Writer
  <2>2. Continues(list, recs2, tabs2, M2, C2, c, h, NoGc)
    BY <1>4, <1>6, <2>1 DEF Continues
  <2> QED
    BY <2>2 DEF recs2, tabs2, M2, C2, rec, s

----------------------------------------------------------------------------
(* The reader's place in the run. *)

ReaderState ==
  [rules : Table, model : Model, pos : Nat, out : Seq(Seq(Literal)),
   verdict : {"reading", "done", "error"}]

Reader(list, recs, tabs, M, C, d) ==
  /\ d \in ReaderState /\ d.pos \in 0 .. Len(recs)
  /\ d.rules = tabs[d.pos + 1]
  /\ d.model.n = NLit + Len(d.rules) /\ d.model.coded = M[d.pos + 1]
  /\ d.out = SubSeq(list, 1, C[d.pos + 1])
  /\ d.verdict # "error" /\ (d.verdict = "done" => d.out = list)

\* What the writer appends does not concern a reader before it.
LEMMA ReaderAppended ==
  ASSUME NEW list, NEW recs, NEW tabs, NEW M, NEW C, Run(list, recs, tabs, M, C),
         NEW d, Reader(list, recs, tabs, M, C, d), NEW rec, NEW T2, NEW m2, NEW c2
  PROVE  Reader(list, Append(recs, rec), Append(tabs, T2), Append(M, m2), Append(C, c2), d)
<1> DEFINE n == Len(recs)
           p == d.pos + 1
<1>1. d.pos \in 0 .. n /\ d.pos \in Nat
  BY DEF Reader
<1>2. recs \in Seq(ArchiveRecord) /\ tabs \in Seq(Table) /\ n \in Nat /\ Len(tabs) = n + 1
  BY DEF Run
<1>3. M \in Seq(Seq(Coding)) /\ Len(M) = n + 1
  BY DEF Run
<1>4. C \in Seq(0 .. Len(list)) /\ Len(C) = n + 1
  BY DEF Run
<1>5. p \in 1 .. n + 1
  BY <1>1, <1>2
<1>6. Append(tabs, T2)[p] = tabs[p]
  BY <1>2, <1>5
<1>7. Append(M, m2)[p] = M[p]
  BY <1>3, <1>5
<1>8. Append(C, c2)[p] = C[p]
  BY <1>4, <1>5
<1>9. d.pos \in 0 .. Len(Append(recs, rec))
  BY <1>1, <1>2
<1> QED
  BY <1>6, <1>7, <1>8, <1>9 DEF Reader

\* One more chunk of the list.
LEMMA OneMore ==
  ASSUME NEW list \in Seq(Seq(Literal)), NEW c \in Nat, c < Len(list)
  PROVE  /\ Append(SubSeq(list, 1, c), list[c + 1]) = SubSeq(list, 1, c + 1)
         /\ SubSeq(list, 1, c) \in Seq(Seq(Literal)) /\ list[c + 1] \in Seq(Literal)
         /\ SubSeq(list, 1, c + 1) \in Seq(Seq(Literal))
<1> DEFINE A == Seq(Literal)
           s == SubSeq(list, 1, c)
           t == SubSeq(list, 1, c + 1)
           u == Append(s, list[c + 1])
<1>1. list \in Seq(A) /\ Len(list) \in Nat
  OBVIOUS
<1> HIDE DEF A
<1>2. s \in Seq(A) /\ Len(s) = c /\ \A i \in 1 .. c : s[i] = list[i]
  BY <1>1
<1>3. t \in Seq(A) /\ Len(t) = c + 1 /\ \A i \in 1 .. c + 1 : t[i] = list[i]
  BY <1>1
<1>4. list[c + 1] \in A
  BY <1>1
<1> HIDE DEF s, t
<1>5. u \in Seq(A) /\ Len(u) = c + 1 /\ u[c + 1] = list[c + 1] /\ \A i \in 1 .. c : u[i] = s[i]
  BY <1>2, <1>4
<1> HIDE DEF u
<1>6. ASSUME NEW i \in 1 .. c + 1 PROVE u[i] = t[i]
  <2>1. CASE i = c + 1
    BY <1>3, <1>5, <2>1
  <2>2. CASE i \in 1 .. c
    BY <1>2, <1>3, <1>5, <2>2
  <2> QED
    BY <2>1, <2>2
<1>7. u = t
  BY <1>3, <1>5, <1>6
<1> QED
  BY <1>2, <1>3, <1>4, <1>7 DEF s, t, u, A

\* Known tokens unfold to at least one byte each.
LEMMA UnfoldBytes ==
  ASSUME NEW T \in Table, NEW tokens, KnownTokens(Len(T), tokens)
  PROVE  Unfold(tokens, T) \in Seq(Literal) /\ Len(tokens) <= Len(Unfold(tokens, T))
<1>1. Len(T) <= Len(T)
  BY TableLength
<1> QED
  BY <1>1, UnfoldFacts

\* `decompress` takes back what was compressed.
LEMMA DecompressFacts ==
  ASSUME NEW d, d.rules \in Table, d.model \in Model, d.model.n = NLit + Len(d.rules),
         NEW rec, NEW T2, NEW m2,
         GrammarBlock(d.rules, d.model.coded, rec.hash, rec, T2, m2)
  PROVE  LET e == Decompress(d, rec)
         IN  /\ e.ok = TRUE /\ e.rules = T2 /\ e.raw = rec.hash
             /\ e.model \in Model /\ e.model.n = NLit + Len(T2) /\ e.model.coded = m2
<1> DEFINE grown == d.rules \o rec.defs
           begun == BeginChunk(d.model)
           n2    == NLit + Len(grown)
           model == Code(begun, n2, rec.tokens)
           ok    == /\ Len(rec.defs) <= MaxRules
                    /\ \A i \in Len(d.rules) + 1 .. Len(grown) : RuleOK(grown, i)
                    /\ Len(grown) <= MaxRules
                    /\ Len(rec.tokens) <= Len(rec.hash) + 1
                    /\ model.coded = rec.under
                    /\ \A k \in 1 .. Len(rec.tokens) : Known(grown, rec.tokens[k])
           raw   == IF ok THEN Unfold(rec.tokens, grown) ELSE <<>>
           e     == Decompress(d, rec)
<1>1. /\ rec.defs \in Seq(Pair) /\ T2 = grown /\ grown \in Table
      /\ KnownTokens(Len(grown), rec.tokens) /\ Unfold(rec.tokens, grown) = rec.hash
      /\ m2 = Append(d.model.coded, [n |-> NLit + Len(grown), tokens |-> rec.tokens])
      /\ rec.under = m2
  BY DEF GrammarBlock
<1>2. e.ok = ok /\ e.rules = grown /\ e.model = model /\ e.raw = raw
  BY DEF Decompress
<1>3. d.rules \in Seq(Pair) /\ Len(d.rules) \in Nat /\ Len(grown) \in Nat
      /\ Len(grown) <= MaxRules
  BY <1>1, TableLength
<1>4. Len(grown) = Len(d.rules) + Len(rec.defs) /\ Len(rec.defs) \in Nat
  BY <1>1, <1>3, ConcatElement
<1> HIDE DEF e, grown
<1>5. /\ rec.tokens \in Seq(Nat) /\ \A k \in 1 .. Len(rec.tokens) : Known(grown, rec.tokens[k])
  BY <1>1 DEF KnownTokens, Known
<1>6. Len(rec.tokens) <= Len(rec.hash)
  BY <1>1, UnfoldBytes
<1>7. Len(rec.hash) \in Nat /\ Len(rec.tokens) \in Nat
  <2>1. Unfold(rec.tokens, grown) \in Seq(Literal)
    BY <1>1, UnfoldBytes
  <2> QED
    BY <1>1, <1>5, <2>1
<1>8. begun \in Model /\ begun.n = d.model.n /\ begun.coded = d.model.coded
  BY BeginFacts
<1>9. n2 \in Nat /\ begun.n <= n2
  <2>1. n2 = NLit + Len(grown) /\ NLit \in Nat /\ begun.n = NLit + Len(d.rules)
    BY <1>8, AlphabetFacts
  <2> HIDE DEF n2, begun
  <2>2. \A l, a, b, c \in Nat : c = a + b => l + a <= l + c /\ l + c \in Nat
    OBVIOUS
  <2> QED
    BY <1>3, <1>4, <2>1, <2>2, ZenonT(60)
<1> HIDE DEF begun, n2
<1>10. model \in Model /\ model.n = n2
       /\ model.coded = Append(d.model.coded, [n |-> n2, tokens |-> rec.tokens])
  <2> DEFINE tokens == rec.tokens
  <2>1. tokens \in Seq(Nat) /\ model = Code(begun, n2, tokens)
    BY <1>5
  <2> HIDE DEF model, tokens
  <2>2. /\ model \in Model /\ model.n = n2
        /\ model.coded = Append(begun.coded, [n |-> n2, tokens |-> tokens])
    BY <1>8, <1>9, <2>1, CodeFacts
  <2> QED
    BY <1>8, <2>2 DEF tokens
<1>11. model.coded = m2 /\ model.coded = rec.under
  BY <1>1, <1>10 DEF n2
<1> HIDE DEF model
<1>12. \A i \in Len(d.rules) + 1 .. Len(grown) : RuleOK(grown, i)
  <2>1. Closed(grown)
    BY <1>1 DEF Table
  <2> QED
    BY <1>3, <2>1 DEF Closed
<1>13. Len(rec.defs) <= MaxRules /\ Len(rec.tokens) <= Len(rec.hash) + 1
  <2>1. Len(rec.defs) <= MaxRules
    <3>1. \A a, b, c, m \in Nat : c = a + b /\ c <= m => b <= m
      OBVIOUS
    <3>2. MaxRules \in Nat
      BY AlphabetFacts
    <3> QED
      BY <1>3, <1>4, <3>1, <3>2
  <2>2. Len(rec.tokens) <= Len(rec.hash) + 1
    BY <1>6, <1>7
  <2> QED
    BY <2>1, <2>2
<1>14. ok
  BY <1>3, <1>5, <1>11, <1>12, <1>13
<1>15. raw = rec.hash
  BY <1>1, <1>14
<1>16. (ok = TRUE)
  BY <1>14
<1> HIDE DEF ok, raw
<1>17. n2 = NLit + Len(T2)
  BY <1>1 DEF n2, grown
<1> QED
  BY <1>1, <1>2, <1>10, <1>11, <1>15, <1>16, <1>17 DEF e

\* The run at record k.
LEMMA RunAt ==
  ASSUME NEW list, NEW recs, NEW tabs, NEW M, NEW C, Run(list, recs, tabs, M, C),
         NEW k \in 1 .. Len(recs)
  PROVE  /\ recs[k] \in ArchiveRecord /\ tabs[k] \in Table /\ tabs[k + 1] \in Table
         /\ M[k + 1] \in Seq(Coding) /\ C[k] \in 0 .. Len(list) /\ C[k + 1] \in 0 .. Len(list)
         /\ RecordStep(list, recs[k], tabs[k], M[k], C[k], tabs[k + 1], M[k + 1], C[k + 1])
<1>1. /\ recs \in Seq(ArchiveRecord) /\ tabs \in Seq(Table) /\ Len(recs) \in Nat
      /\ Len(tabs) = Len(recs) + 1
  BY DEF Run
<1>2. M \in Seq(Seq(Coding)) /\ Len(M) = Len(recs) + 1
  BY DEF Run
<1>3. C \in Seq(0 .. Len(list)) /\ Len(C) = Len(recs) + 1
  BY DEF Run
<1>4. k \in 1 .. Len(recs) + 1 /\ k + 1 \in 1 .. Len(recs) + 1
  BY <1>1
<1>5. recs[k] \in ArchiveRecord /\ tabs[k] \in Table /\ tabs[k + 1] \in Table
  BY <1>1, <1>4
<1>6. M[k + 1] \in Seq(Coding)
  BY <1>2, <1>4
<1>7. C[k] \in 0 .. Len(list) /\ C[k + 1] \in 0 .. Len(list)
  BY <1>3, <1>4
<1>8. RecordStep(list, recs[k], tabs[k], M[k], C[k], tabs[k + 1], M[k + 1], C[k + 1])
  BY DEF Run
<1> QED
  BY <1>5, <1>6, <1>7, <1>8

\* The reader's step on a record: never to an error, and to its next place.
ReadRecord(d, rec) ==
  IF rec.kind = "S" THEN [d EXCEPT !.pos = @ + 1, !.out = Append(@, rec.hash)]
  ELSE IF rec.kind = "G"
  THEN LET e == Decompress(d, rec)
       IN  IF e.ok /\ e.raw = rec.hash
           THEN [d EXCEPT !.rules = e.rules, !.model = e.model,
                          !.pos = @ + 1, !.out = Append(@, e.raw)]
           ELSE [d EXCEPT !.verdict = "error"]
  ELSE IF RemapOK(d.rules, rec.survivors)
  THEN [d EXCEPT !.rules = Remap(@, rec.survivors),
                 !.model = ShrinkAlphabet(@, NLit + Len(rec.survivors)),
                 !.pos   = @ + 1]
  ELSE [d EXCEPT !.verdict = "error"]

LEMMA ReaderStep ==
  ASSUME NEW list \in Seq(Seq(Literal)), NEW recs, NEW tabs, NEW M, NEW C,
         Run(list, recs, tabs, M, C), NEW d, Reader(list, recs, tabs, M, C, d),
         d.verdict = "reading", d.pos < Len(recs)
  PROVE  /\ Reader(list, recs, tabs, M, C, ReadRecord(d, recs[d.pos + 1]))
         /\ ReadRecord(d, recs[d.pos + 1]).pos = d.pos + 1
         /\ ReadRecord(d, recs[d.pos + 1]).verdict = "reading"
<1> DEFINE k   == d.pos + 1
           rec == recs[k]
           d2  == ReadRecord(d, rec)
           c   == C[k]
<1>1. /\ d \in ReaderState /\ d.pos \in Nat /\ d.rules = tabs[k]
      /\ d.model.n = NLit + Len(d.rules) /\ d.model.coded = M[k]
      /\ d.out = SubSeq(list, 1, c) /\ d.rules \in Table /\ d.model \in Model
  BY DEF Reader, ReaderState
<1>2. k \in 1 .. Len(recs) /\ k \in Nat /\ k + 1 \in Nat
  <2>1. Len(recs) \in Nat
    BY DEF Run
  <2> QED
    BY <1>1, <2>1
<1>3. /\ rec \in ArchiveRecord /\ tabs[k] \in Table /\ tabs[k + 1] \in Table
      /\ M[k + 1] \in Seq(Coding) /\ c \in Nat
      /\ RecordStep(list, rec, tabs[k], M[k], c, tabs[k + 1], M[k + 1], C[k + 1])
  <2>1. /\ recs[k] \in ArchiveRecord /\ tabs[k] \in Table /\ tabs[k + 1] \in Table
        /\ M[k + 1] \in Seq(Coding) /\ C[k] \in 0 .. Len(list)
        /\ RecordStep(list, recs[k], tabs[k], M[k], C[k], tabs[k + 1], M[k + 1], C[k + 1])
    BY <1>2, RunAt
  <2> QED
    BY <2>1
<1> SUFFICES /\ d2 \in ReaderState /\ d2.pos = k /\ d2.rules = tabs[k + 1]
             /\ d2.model.n = NLit + Len(d2.rules) /\ d2.model.coded = M[k + 1]
             /\ d2.out = SubSeq(list, 1, C[k + 1]) /\ d2.verdict = "reading"
  BY <1>1, <1>2 DEF Reader
<1> HIDE DEF k, rec, d2, c
<1>4. d2 = ReadRecord(d, rec) /\ d.pos + 1 = k
  BY DEF d2, k
<1>5. CASE DataStep(list, rec, tabs[k], M[k], c, tabs[k + 1], M[k + 1], C[k + 1])
  <2>1. c < Len(list) /\ rec.hash = list[c + 1] /\ C[k + 1] = c + 1
    BY <1>5 DEF DataStep
  <2>2. /\ Append(d.out, rec.hash) = SubSeq(list, 1, C[k + 1])
        /\ Append(d.out, rec.hash) \in Seq(Seq(Literal))
    BY <1>1, <1>3, <2>1, OneMore
  <2> DEFINE out == Append(d.out, rec.hash)
  <2> HIDE DEF out
  <2>3. CASE rec.kind = "S" /\ tabs[k + 1] = tabs[k] /\ M[k + 1] = M[k]
    <3>1. d2 = [d EXCEPT !.pos = k, !.out = out]
      BY <1>4, <2>3 DEF ReadRecord, out
    <3>2. /\ d2 \in ReaderState /\ d2.pos = k /\ d2.out = out /\ d2.rules = d.rules
          /\ d2.model = d.model /\ d2.verdict = d.verdict
      BY <1>1, <1>2, <2>2, <3>1 DEF ReaderState, out
    <3> QED
      BY <1>1, <2>2, <2>3, <3>2 DEF out
  <2>4. CASE GrammarBlock(tabs[k], M[k], rec.hash, rec, tabs[k + 1], M[k + 1])
    <3> DEFINE e == Decompress(d, rec)
    <3>1. /\ e.ok = TRUE /\ e.rules = tabs[k + 1] /\ e.raw = rec.hash
          /\ e.model \in Model /\ e.model.n = NLit + Len(tabs[k + 1])
          /\ e.model.coded = M[k + 1]
      <4>1. GrammarBlock(d.rules, d.model.coded, rec.hash, rec, tabs[k + 1], M[k + 1])
        BY <1>1, <2>4
      <4> DEFINE T2 == tabs[k + 1]
                 m2 == M[k + 1]
      <4>2. /\ GrammarBlock(d.rules, d.model.coded, rec.hash, rec, T2, m2)
            /\ d.rules \in Table /\ d.model \in Model /\ d.model.n = NLit + Len(d.rules)
        BY <1>1, <4>1
      <4> HIDE DEF T2, m2
      <4>3. /\ e.ok = TRUE /\ e.rules = T2 /\ e.raw = rec.hash
            /\ e.model \in Model /\ e.model.n = NLit + Len(T2) /\ e.model.coded = m2
        BY ONLY <4>2, DecompressFacts, ZenonT(60)
      <4> QED
        BY <4>3 DEF T2, m2
    <3>2. rec.kind = "G"
      BY <2>4 DEF GrammarBlock
    <3> HIDE DEF e
    <3>3. d2 = IF e.ok /\ e.raw = rec.hash
               THEN [d EXCEPT !.rules = e.rules, !.model = e.model,
                              !.pos = d.pos + 1, !.out = Append(d.out, e.raw)]
               ELSE [d EXCEPT !.verdict = "error"]
      BY <1>4, <3>2 DEF ReadRecord, e
    <3>4. d2 = [d EXCEPT !.rules = e.rules, !.model = e.model, !.pos = k, !.out = out]
      BY <1>4, <3>1, <3>3 DEF out
    <3>5. /\ d2 \in ReaderState /\ d2.pos = k /\ d2.out = out /\ d2.rules = e.rules
          /\ d2.model = e.model /\ d2.verdict = d.verdict
      BY <1>1, <1>2, <1>3, <2>2, <3>1, <3>4 DEF ReaderState, out
    <3> QED
      BY <1>1, <2>2, <3>1, <3>5 DEF out
  <2> QED
    BY <1>5, <2>3, <2>4 DEF DataStep
<1>6. CASE GcStep(rec, tabs[k], M[k], c, tabs[k + 1], M[k + 1], C[k + 1])
  <2> DEFINE s     == rec.survivors
             n2    == NLit + Len(s)
             model == ShrinkAlphabet(d.model, n2)
  <2>1. /\ rec.kind = "GC" /\ Len(s) < Len(tabs[k]) /\ RemapOK(tabs[k], s)
        /\ tabs[k + 1] = Remap(tabs[k], s) /\ C[k + 1] = c
        /\ M[k + 1] = Append(M[k], [n |-> n2, tokens |-> <<>>])
    BY <1>6 DEF GcStep
  <2>2. s \in Seq(Nat)
    BY <1>3 DEF ArchiveRecord
  <2>3. n2 \in Nat /\ ~(n2 >= d.model.n)
    <3>1. Len(s) \in Nat /\ Len(tabs[k]) \in Nat /\ NLit \in Nat
      BY <1>3, <2>2, TableLength, AlphabetFacts
    <3> QED
      BY <1>1, <2>1, <3>1
  <2> HIDE DEF s, n2
  <2>4. model = [d.model EXCEPT !.n = n2, !.coded = Append(@, [n |-> n2, tokens |-> <<>>])]
    BY <2>3 DEF ShrinkAlphabet
  <2>5. model \in Model /\ model.n = n2 /\ model.coded = M[k + 1]
    <3>1. d.model.coded = M[k] /\ M[k + 1] \in Seq(Coding)
      BY <1>1, <1>3
    <3> HIDE DEF model
    <3>2. model = [d.model EXCEPT !.n = n2, !.coded = M[k + 1]]
      BY <2>1, <2>4, <3>1
    <3> QED
      BY <1>1, <2>3, <3>1, <3>2 DEF Model
  <2>6. Len(tabs[k + 1]) = Len(s)
    BY <1>3, <2>1, <2>2, RemapTable
  <2> HIDE DEF model
  <2>7. d2 = [d EXCEPT !.rules = tabs[k + 1], !.model = model, !.pos = k]
    BY <1>1, <1>4, <2>1 DEF ReadRecord, model, n2, s
  <2>8. /\ d2 \in ReaderState /\ d2.pos = k /\ d2.out = d.out /\ d2.rules = tabs[k + 1]
        /\ d2.model = model /\ d2.verdict = d.verdict
    BY <1>1, <1>2, <1>3, <2>5, <2>7 DEF ReaderState
  <2> QED
    BY <1>1, <2>1, <2>5, <2>6, <2>8 DEF n2
<1> QED
  BY <1>3, <1>5, <1>6 DEF RecordStep

\* Behind the last data record no chunk is counted any more.
LEMMA NoDataLeft ==
  ASSUME NEW list, NEW recs, NEW tabs, NEW M, NEW C, Run(list, recs, tabs, M, C),
         NEW p \in 0 .. Len(recs), \A k \in p + 1 .. Len(recs) : recs[k].kind = "GC"
  PROVE  C[p + 1] = C[Len(recs) + 1]
<1> DEFINE n == Len(recs)
           S == {i \in Nat : p + i <= n => C[p + i + 1] = C[p + 1]}
<1>1. n \in Nat /\ p \in Nat /\ n - p \in Nat /\ p + (n - p) = n
  <2>1. n \in Nat
    BY DEF Run
  <2> QED
    BY <2>1
<1>2. 0 \in S
  BY <1>1
<1>3. ASSUME NEW i \in 0 .. (n - p) - 1, i \in S PROVE i + 1 \in S
  <2> DEFINE k == p + i + 1
  <2>1. /\ k \in p + 1 .. n /\ k \in 1 .. n /\ p + i <= n /\ p + (i + 1) + 1 = k + 1
        /\ i + 1 \in Nat
    BY <1>1, <1>3
  <2>2. recs[k].kind = "GC"
    BY <2>1
  <2>3. RecordStep(list, recs[k], tabs[k], M[k], C[k], tabs[k + 1], M[k + 1], C[k + 1])
    BY <2>1, RunAt
  <2>4. ~DataStep(list, recs[k], tabs[k], M[k], C[k], tabs[k + 1], M[k + 1], C[k + 1])
    BY <2>2 DEF DataStep, GrammarBlock
  <2>5. C[k + 1] = C[k]
    BY <2>3, <2>4 DEF RecordStep, GcStep
  <2>6. C[k] = C[p + 1]
    BY <1>3, <2>1
  <2> QED
    BY <2>1, <2>5, <2>6
<1> HIDE DEF S
<1>4. n - p \in S
  <2>1. \A i \in 0 .. n - p : i \in S
    BY <1>1, <1>2, <1>3, InductionUpTo
  <2> QED
    BY <1>1, <2>1
<1>5. C[p + (n - p) + 1] = C[p + 1]
  BY <1>1, <1>4 DEF S
<1> QED
  BY <1>1, <1>5

----------------------------------------------------------------------------
(* The inductive invariant of an archive that is written and read back. *)

InRun(M, C) ==
  /\ Run(pieces, stream, tables, M, C)
  /\ C[Len(stream) + 1] = committed
  /\ phase # "panicked" => Writer(stream, tables, M, C, g, pendingGc)
  /\ Reader(pieces, stream, tables, M, C, dec)

RoundTripInv == SerialInv /\ \E M, C : InRun(M, C)

\* An archive starts as a run of no records.
LEMMA RoundTripStart ==
  ASSUME RoundTripInit
  PROVE  RoundTripInv
<1>1. /\ SerialInv /\ g.model.coded = <<>> /\ g.rules \in SeedTables
      /\ pendingGc = NoGc /\ stream = <<>> /\ committed = 0
  BY StartFacts DEF RoundTripInit
<1>2. g.rules \in Table
  <2>1. GrammarOK(g)
    BY StartFacts DEF SerialInv, RoundTripInit, Init
  <2> QED
    BY <2>1 DEF GrammarOK, BooksOK
<1>3. Len(pieces) \in Nat
  BY <1>1, PieceFacts
<1> DEFINE M == <<<<>>>>
           C == <<0>>
           model == [FreshModel EXCEPT !.n = NLit + Len(g.rules)]
<1>4. tables = <<g.rules>> /\ Len(stream) = 0 /\ Len(stream) + 1 = 1
  BY <1>1 DEF RoundTripInit
<1>5. M \in Seq(Seq(Coding)) /\ Len(M) = 1 /\ M[1] = <<>>
  <2>1. <<>> \in Seq(Coding)
    OBVIOUS
  <2> HIDE DEF Coding
  <2> QED
    BY <2>1
<1>6. C \in Seq(0 .. Len(pieces)) /\ Len(C) = 1 /\ C[1] = 0
  <2>1. 0 \in 0 .. Len(pieces)
    BY <1>3
  <2> QED
    BY <2>1
<1>7. tables \in Seq(Table) /\ Len(tables) = 1 /\ tables[1] = g.rules
  <2> HIDE DEF Table
  <2> QED
    BY <1>2, <1>4
<1> HIDE DEF M, C
<1>8. Run(pieces, stream, tables, M, C)
  <2>1. stream \in Seq(ArchiveRecord)
    BY <1>1
  <2>2. \A k \in 1 .. Len(stream) : FALSE
    BY <1>4
  <2> QED
    BY <1>4, <1>5, <1>6, <1>7, <2>1, <2>2 DEF Run
<1>9. Writer(stream, tables, M, C, g, pendingGc)
  <2>1. MarksOK(stream, tables, C, g.lastUse)
    BY <1>4 DEF MarksOK
  <2> QED
    BY <1>1, <1>4, <1>5, <1>7, <2>1 DEF Writer
<1>10. model \in Model /\ model.n = NLit + Len(g.rules) /\ model.coded = <<>>
  <2>1. NLit + Len(g.rules) \in Nat /\ <<>> \in Seq(Coding) /\ NLit \in Nat
    BY <1>2, TableLength, AlphabetFacts
  <2> QED
    BY <2>1 DEF FreshModel, Model
<1>11. dec = [rules |-> g.rules, model |-> model, pos |-> 0, out |-> <<>>,
              verdict |-> "reading"]
  BY DEF RoundTripInit
<1> HIDE DEF model
<1>12. /\ dec.rules = g.rules /\ dec.model = model /\ dec.pos = 0 /\ dec.out = <<>>
       /\ dec.verdict = "reading" /\ dec \in ReaderState
  BY <1>2, <1>10, <1>11 DEF ReaderState
<1>13. SubSeq(pieces, 1, 0) = <<>>
  BY PieceFacts, <1>1
<1>14. Reader(pieces, stream, tables, M, C, dec)
  <2>1. dec.pos + 1 = 1 /\ dec.pos \in 0 .. Len(stream)
    BY <1>4, <1>12
  <2> QED
    BY <1>5, <1>6, <1>7, <1>10, <1>12, <1>13, <2>1 DEF Reader
<1>15. InRun(M, C)
  BY <1>1, <1>4, <1>6, <1>8, <1>9, <1>14 DEF InRun
<1> QED
  BY <1>1, <1>15 DEF RoundTripInv

\* Every step of the archive is a step of the writer or does not concern it.
LEMMA WriterSteps == [RoundTripNext]_allVars => [Next]_vars
BY DEF RoundTripNext, allVars, Emit, EmitRemap, Finalize, Extract, ExtractDone, Terminated,
       Next, vars

\* Writing a chunk continues the run.
LEMMA EmitInRun ==
  ASSUME SerialInv, NEW M, NEW C, InRun(M, C), NEW accept \in BOOLEAN, Emit(accept)
  PROVE  \E M2, C2 : InRun(M2, C2)'
<1> DEFINE c == Compress(g, HeadChunk, accept)
<1>1. EmitChunk(accept)
  BY DEF Emit
<1>2. /\ phase = "create" /\ ~pendingGc.some /\ committed < Len(pieces)
      /\ HeadChunk \in Seq(Literal) /\ GrammarOK(g) /\ g.seq = committed
      /\ ChunkDone(g, HeadChunk, c) /\ WriteData(c)
  BY <1>1, EmitFacts
<1>3. /\ tables' = IF phase' = "panicked" THEN tables ELSE Append(tables, c.rules)
      /\ dec' = dec
  BY DEF Emit
<1> HIDE DEF c
<1>4. /\ Run(pieces, stream, tables, M, C) /\ C[Len(stream) + 1] = committed
      /\ Writer(stream, tables, M, C, g, pendingGc)
      /\ Reader(pieces, stream, tables, M, C, dec)
  BY <1>2 DEF InRun
<1>5. g' = c.g /\ pieces' = pieces
  BY <1>2 DEF WriteData
<1>6. CASE c.panic = TRUE
  <2>1. phase' = "panicked" /\ UNCHANGED <<committed, pendingGc, stream>>
    BY <1>2, <1>6 DEF WriteData
  <2>2. tables' = tables
    BY <1>3, <2>1
  <2>3. InRun(M, C)'
    BY <1>3, <1>4, <1>5, <2>1, <2>2 DEF InRun
  <2> QED
    BY <2>3
<1>7. CASE c.panic = FALSE
  <2>1. /\ committed' = committed + 1 /\ pendingGc' = c.gc /\ phase' = phase
        /\ stream' = Append(stream, DataRecord(c.block, HeadChunk))
    BY <1>2, <1>7 DEF WriteData
  <2>2. PICK k : /\ GrammarOK(k) /\ Advances(g, HeadChunk, k, c.block) /\ c.rules = k.rules
                 /\ Collected(k, c)
    BY <1>2, <1>7 DEF ChunkDone
  <2>3. tables' = Append(tables, k.rules)
    BY <1>2, <1>3, <2>1, <2>2
  <2>4. pendingGc = NoGc
    BY <1>2, <1>4 DEF Writer
  <2>5. HeadChunk = pieces[C[Len(stream) + 1] + 1] /\ Len(pieces) \in Nat
    BY <1>4, PieceFacts DEF HeadChunk
  <2> DEFINE block == c.block
             raw == HeadChunk
             M2 == Append(M, k.model.coded)
             C2 == Append(C, C[Len(stream) + 1] + 1)
  <2>6. /\ Run(pieces, stream, tables, M, C) /\ Len(pieces) \in Nat
        /\ Writer(stream, tables, M, C, g, NoGc) /\ GrammarOK(g)
        /\ g.seq = C[Len(stream) + 1] /\ C[Len(stream) + 1] < Len(pieces)
        /\ raw = pieces[C[Len(stream) + 1] + 1] /\ raw \in Seq(Literal)
        /\ GrammarOK(k) /\ Advances(g, raw, k, block) /\ Collected(k, c)
    BY <1>2, <1>4, <2>2, <2>4, <2>5
  <2> HIDE DEF block, raw
  <2>7. Continues(pieces, Append(stream, DataRecord(block, raw)), Append(tables, k.rules), M2, C2,
                  C[Len(stream) + 1] + 1, c.g, c.gc)
    BY <2>6, WriterData
  <2>8. stream' = Append(stream, DataRecord(block, raw))
    BY <2>1 DEF block, raw
  <2>9. Reader(pieces, stream', tables', M2, C2, dec)
    BY <1>4, <2>3, <2>8, ReaderAppended
  <2> HIDE DEF M2, C2
  <2>10. PICK D : D = C2
    OBVIOUS
  <2>11. Continues(pieces, stream', tables', M2, D, committed', g', pendingGc')
    BY <1>4, <1>5, <2>1, <2>3, <2>7, <2>8, <2>10
  <2>12. Reader(pieces, stream', tables', M2, D, dec)
    BY <2>9, <2>10
  <2>13. InRun(M2, D)'
    BY <1>3, <1>5, <2>11, <2>12 DEF InRun, Continues
  <2> QED
    BY <2>13
<1> QED
  BY <1>2, <1>6, <1>7 DEF ChunkDone

\* So does writing a GC record.
LEMMA RemapInRun ==
  ASSUME SerialInv, NEW M, NEW C, InRun(M, C), EmitRemap
  PROVE  \E M2, C2 : InRun(M2, C2)'
<1>1. /\ phase = "create" /\ pendingGc.some
      /\ stream' = Append(stream, GcRecord(pendingGc.survivors)) /\ pendingGc' = NoGc
      /\ UNCHANGED <<pieces, committed, g, phase>>
  BY DEF EmitRemap, EmitGc
<1>2. tables' = Append(tables, g.rules) /\ dec' = dec
  BY DEF EmitRemap
<1>3. /\ Run(pieces, stream, tables, M, C) /\ C[Len(stream) + 1] = committed
      /\ Writer(stream, tables, M, C, g, pendingGc)
      /\ Reader(pieces, stream, tables, M, C, dec)
  BY <1>1 DEF InRun
<1>4. pendingGc.some = TRUE
  <2>1. NoGc.some = FALSE
    BY DEF NoGc
  <2> QED
    BY <1>1, <1>3, <2>1 DEF Writer
<1> DEFINE M2 == Append(M, g.model.coded)
           C2 == Append(C, C[Len(stream) + 1])
           gc == pendingGc
<1>5. /\ gc.some = TRUE /\ Writer(stream, tables, M, C, g, gc) /\ Len(pieces) \in Nat
      /\ stream' = Append(stream, GcRecord(gc.survivors))
  BY <1>1, <1>3, <1>4, PieceFacts
<1> HIDE DEF gc
<1>6. Continues(pieces, Append(stream, GcRecord(gc.survivors)), Append(tables, g.rules), M2, C2,
                C[Len(stream) + 1], g, NoGc)
  BY <1>3, <1>5, WriterGc
<1>7. Reader(pieces, stream', tables', M2, C2, dec)
  BY <1>2, <1>3, <1>5, ReaderAppended
<1> HIDE DEF M2, C2
<1>8. PICK N, D : N = M2 /\ D = C2
  OBVIOUS
<1>9. Continues(pieces, stream', tables', N, D, committed', g', pendingGc')
  BY <1>1, <1>2, <1>3, <1>5, <1>6, <1>8
<1>10. InRun(N, D)'
  BY <1>1, <1>2, <1>7, <1>8, <1>9 DEF InRun, Continues
<1> QED
  BY <1>10

\* A step of the extraction is the reader's step on its next record.
LEMMA ExtractIsRead ==
  ASSUME Extract, NEW M, NEW C, InRun(M, C)
  PROVE  /\ dec.pos < Len(stream) /\ dec.verdict = "reading"
         /\ dec' = ReadRecord(dec, stream[dec.pos + 1])
         /\ UNCHANGED <<vars, tables>>
<1> DEFINE rec == stream[dec.pos + 1]
<1>1. /\ dec.verdict = "reading" /\ DataLeft /\ UNCHANGED <<vars, tables>>
      /\ \/ rec.kind = "S" /\ ReadStateless(rec)
         \/ rec.kind = "G" /\ ReadBlock(rec)
         \/ rec.kind = "GC" /\ ReadGc(rec)
  BY DEF Extract
<1>2. dec.pos < Len(stream)
  <2>1. dec.pos \in 0 .. Len(stream) /\ Len(stream) \in Nat
    BY DEF InRun, Reader, Run
  <2>2. PICK k \in dec.pos + 1 .. Len(stream) : TRUE
    BY <1>1 DEF DataLeft
  <2> QED
    BY <2>1, <2>2
<1> HIDE DEF rec
<1>3. ASSUME rec.kind = "S", ReadStateless(rec) PROVE dec' = ReadRecord(dec, rec)
  BY <1>3 DEF ReadStateless, ReadRecord
<1>4. ASSUME rec.kind = "G", ReadBlock(rec) PROVE dec' = ReadRecord(dec, rec)
  BY <1>4 DEF ReadBlock, ReadRecord, Fail
<1>5. ASSUME rec.kind = "GC", ReadGc(rec) PROVE dec' = ReadRecord(dec, rec)
  BY <1>5 DEF ReadGc, ReadRecord, Fail
<1>6. dec' = ReadRecord(dec, rec)
  BY <1>1, <1>3, <1>4, <1>5
<1> QED
  BY <1>1, <1>2, <1>6 DEF rec

\* It keeps the reader in the run.
LEMMA ExtractInRun ==
  ASSUME SerialInv, NEW M, NEW C, InRun(M, C), Extract
  PROVE  /\ InRun(M, C)' /\ dec'.pos = dec.pos + 1 /\ dec.pos < Len(stream)
         /\ dec'.verdict = "reading"
<1>1. /\ dec.pos < Len(stream) /\ dec.verdict = "reading"
      /\ dec' = ReadRecord(dec, stream[dec.pos + 1]) /\ UNCHANGED <<vars, tables>>
  BY ExtractIsRead
<1>2. pieces \in Seq(Seq(Literal))
  BY PieceFacts
<1>3. /\ Run(pieces, stream, tables, M, C) /\ Reader(pieces, stream, tables, M, C, dec)
  BY DEF InRun
<1>4. /\ Reader(pieces, stream, tables, M, C, dec') /\ dec'.pos = dec.pos + 1
      /\ dec'.verdict = "reading"
  BY <1>1, <1>2, <1>3, ReaderStep
<1> QED
  BY <1>1, <1>4 DEF InRun, vars

\* A reader that finds no data record ahead has read every chunk.
LEMMA DoneInRun ==
  ASSUME SerialInv, NEW M, NEW C, InRun(M, C), ExtractDone
  PROVE  InRun(M, C)' /\ dec'.pos = dec.pos /\ dec'.rules = dec.rules
<1>1. /\ phase = "closed" /\ ~DataLeft /\ dec' = [dec EXCEPT !.verdict = "done"]
      /\ UNCHANGED <<vars, tables>>
  BY DEF ExtractDone
<1>2. /\ Run(pieces, stream, tables, M, C) /\ Reader(pieces, stream, tables, M, C, dec)
      /\ C[Len(stream) + 1] = committed
  BY DEF InRun
<1>3. committed = Len(pieces) /\ pieces \in Seq(Seq(Literal))
  BY <1>1, PieceFacts DEF SerialInv
<1>4. \A k \in dec.pos + 1 .. Len(stream) : stream[k].kind = "GC"
  BY <1>1 DEF DataLeft
<1>5. dec.pos \in 0 .. Len(stream) /\ dec.out = SubSeq(pieces, 1, C[dec.pos + 1])
      /\ dec \in ReaderState
  BY <1>2 DEF Reader
<1>6. C[dec.pos + 1] = Len(pieces)
  <2> DEFINE p == dec.pos
  <2>1. p \in 0 .. Len(stream) /\ \A k \in p + 1 .. Len(stream) : stream[k].kind = "GC"
    BY <1>4, <1>5
  <2> HIDE DEF p
  <2>2. C[p + 1] = C[Len(stream) + 1]
    BY <1>2, <2>1, NoDataLeft
  <2> QED
    BY <1>2, <1>3, <2>2 DEF p
<1>7. dec.out = pieces
  <2>1. SubSeq(pieces, 1, Len(pieces)) = pieces
    BY <1>3
  <2> QED
    BY <1>5, <1>6, <2>1
<1>8. /\ dec' \in ReaderState /\ dec'.pos = dec.pos /\ dec'.rules = dec.rules
      /\ dec'.model = dec.model /\ dec'.out = dec.out /\ dec'.verdict = "done"
  BY <1>1, <1>5 DEF ReaderState
<1>9. Reader(pieces, stream, tables, M, C, dec')
  BY <1>2, <1>7, <1>8 DEF Reader
<1> QED
  BY <1>1, <1>8, <1>9 DEF InRun, vars

\* The invariant of the round trip is inductive.
LEMMA RoundTripStep ==
  ASSUME RoundTripInv, [RoundTripNext]_allVars
  PROVE  RoundTripInv'
<1>1. SerialInv'
  BY WriterSteps, SerialStep DEF RoundTripInv
<1>2. PICK M, C : InRun(M, C)
  BY DEF RoundTripInv
<1>3. SerialInv
  BY DEF RoundTripInv
<1>4. CASE \E accept \in BOOLEAN : Emit(accept)
  BY <1>1, <1>2, <1>3, <1>4, EmitInRun DEF RoundTripInv
<1>5. CASE EmitRemap
  BY <1>1, <1>2, <1>3, <1>5, RemapInRun DEF RoundTripInv
<1>6. CASE Finalize
  <2>1. InRun(M, C)'
    BY <1>2, <1>6 DEF Finalize, Close, InRun
  <2> QED
    BY <1>1, <2>1 DEF RoundTripInv
<1>7. CASE Extract
  BY <1>1, <1>2, <1>3, <1>7, ExtractInRun DEF RoundTripInv
<1>8. CASE ExtractDone
  BY <1>1, <1>2, <1>3, <1>8, DoneInRun DEF RoundTripInv
<1>9. CASE UNCHANGED allVars
  <2>1. InRun(M, C)'
    BY <1>2, <1>9 DEF allVars, vars, InRun
  <2> QED
    BY <1>1, <2>1 DEF RoundTripInv
<1>10. CASE Terminated
  BY <1>9, <1>10 DEF Terminated
<1> QED
  BY <1>4, <1>5, <1>6, <1>7, <1>8, <1>9, <1>10 DEF RoundTripNext

\* The invariant holds in every run of writer and reader.
THEOREM RoundTripInvariant == RoundTripSpec => []RoundTripInv
<1>1. RoundTripInit => RoundTripInv
  BY RoundTripStart
<1>2. RoundTripInv /\ [RoundTripNext]_allVars => RoundTripInv'
  BY RoundTripStep
<1> QED
  BY <1>1, <1>2, PTL DEF RoundTripSpec

\* Whatever the chunks, the dictionary, the lag, the GC interval and the choices of the
\* encoder: the reader of a finished archive never fails, what it has decoded is a prefix
\* of the chunks, and when it stops it is all of them.
THEOREM RoundTripCorrect == RoundTripSpec => []RoundTrip
<1>1. RoundTripInv => RoundTrip
  <2> SUFFICES ASSUME RoundTripInv PROVE RoundTrip
    OBVIOUS
  <2>1. PICK M, C : InRun(M, C)
    BY DEF RoundTripInv
  <2>2. /\ dec.pos \in 0 .. Len(stream) /\ dec.out = SubSeq(pieces, 1, C[dec.pos + 1])
        /\ dec.verdict # "error" /\ (dec.verdict = "done" => dec.out = pieces)
    BY <2>1 DEF InRun, Reader
  <2>3. C[dec.pos + 1] \in 0 .. Len(pieces)
    <3>1. C \in Seq(0 .. Len(pieces)) /\ Len(C) = Len(stream) + 1 /\ Len(stream) \in Nat
      BY <2>1 DEF InRun, Run
    <3>2. dec.pos + 1 \in 1 .. Len(C)
      BY <2>2, <3>1
    <3> QED
      BY <3>1, <3>2
  <2>4. Len(SubSeq(pieces, 1, C[dec.pos + 1])) = C[dec.pos + 1]
    <3>1. pieces \in Seq(Seq(Literal))
      BY PieceFacts DEF RoundTripInv
    <3> QED
      BY <2>3, <3>1
  <2> QED
    BY <2>2, <2>4 DEF RoundTrip
<1> QED
  BY <1>1, RoundTripInvariant, PTL

----------------------------------------------------------------------------
(* The encoder's own books. *)

\* The types of the writer's and the reader's state: both tables stay closed and within
\* the alphabet cap.
THEOREM RoundTripTypes == RoundTripSpec => []TypeOK
<1>1. RoundTripInv => TypeOK
  <2> SUFFICES ASSUME RoundTripInv PROVE TypeOK
    OBVIOUS
  <2>1. PICK M, C : InRun(M, C)
    BY DEF RoundTripInv
  <2>2. SerialInv /\ committed \in Nat
    BY PieceFacts DEF RoundTripInv
  <2>3. /\ dec.pos \in 0 .. Len(stream) /\ dec.rules \in Table
        /\ dec.verdict \in {"reading", "done", "error"}
    BY <2>1 DEF InRun, Reader, ReaderState
  <2>4. CASE phase = "panicked"
    <3>1. Stopped(g, committed + 1)
      BY <2>2, <2>4 DEF SerialInv
    <3> QED
      BY <2>2, <2>3, <3>1 DEF Stopped, SerialInv, TypeOK
  <2>5. CASE phase # "panicked"
    <3>1. GrammarOK(g) /\ g.seq = committed
      BY <2>2, <2>5 DEF SerialInv
    <3>2. DOMAIN g.pairIndex \subseteq Pair
      BY <3>1, IndexKeys
    <3>3. g.rules \in Table /\ g.rulesBefore \in 0 .. Len(g.rules)
      BY <3>1 DEF GrammarOK, BooksOK
    <3> QED
      BY <2>2, <2>3, <3>1, <3>2, <3>3 DEF SerialInv, TypeOK
  <2> QED
    BY <2>4, <2>5
<1> QED
  BY <1>1, RoundTripInvariant, PTL

\* Between chunks every rule has a last-use slot, the model's alphabet is the table's, and
\* nothing is staged: whatever was accepted, rejected, seeded or remapped before.
THEOREM BooksAlwaysAgree == RoundTripSpec => []BooksAgree
<1>1. RoundTripInv => BooksAgree
  BY DEF RoundTripInv, SerialInv, GrammarOK, BooksOK, BooksAgree
<1> QED
  BY <1>1, RoundTripInvariant, PTL

\* An index whose entries name keys of a list is sound.
LEMMA IndexReads ==
  ASSUME NEW rules \in Table, NEW keys, Len(keys) = Len(rules), NEW index,
         Indexes(index, keys)
  PROVE  \A q \in DOMAIN index : keys[Position(index[q])] = q
<1> TAKE q \in DOMAIN index
<1>1. PICK i \in 1 .. Len(keys) : keys[i] = q /\ index[q] = Id(i)
  BY DEF Indexes, Names
<1>2. Position(Id(i)) = i
  BY <1>1, RuleSymbol
<1> QED
  BY <1>1, <1>2

\* Between chunks the pair index and the trie name exactly the live rules and their
\* phrases: a rejected or remapped rule leaves neither behind.
THEOREM IndexAlwaysSound == RoundTripSpec => []IndexSound
<1>1. RoundTripInv => IndexSound
  <2> SUFFICES ASSUME RoundTripInv, phase # "panicked"
               PROVE  LET phrases == Phrases(g.rules)
                      IN  /\ DOMAIN g.pairIndex = {g.rules[i] : i \in 1 .. Len(g.rules)}
                          /\ \A p \in DOMAIN g.pairIndex :
                               g.rules[Position(g.pairIndex[p])] = p
                          /\ DOMAIN g.trie = {phrases[i] : i \in 1 .. Len(g.rules)} \ {<<>>}
                          /\ \A w \in DOMAIN g.trie : phrases[Position(g.trie[w])] = w
    BY DEF IndexSound
  <2>1. /\ g.rules \in Table
        /\ Indexes(g.pairIndex, g.rules) /\ Indexes(g.trie, Phrases(g.rules))
    BY DEF RoundTripInv, SerialInv, GrammarOK, BooksOK
  <2>2. Len(Phrases(g.rules)) = Len(g.rules)
    BY <2>1, PhrasesFacts
  <2>3. \A i \in 1 .. Len(g.rules) : g.rules[i] # <<>>
    <3>1. \A i \in 1 .. Len(g.rules) : g.rules[i] \in Pair
      BY <2>1, TableLength
    <3>2. <<>> \notin Pair
      BY DEF Pair
    <3> QED
      BY <3>1, <3>2
  <2>4. \A p \in DOMAIN g.pairIndex : g.rules[Position(g.pairIndex[p])] = p
    BY <2>1, IndexReads
  <2>5. \A w \in DOMAIN g.trie : Phrases(g.rules)[Position(g.trie[w])] = w
    BY <2>1, <2>2, IndexReads
  <2>6. DOMAIN g.pairIndex = {g.rules[i] : i \in 1 .. Len(g.rules)}
    BY <2>1, <2>3 DEF Indexes
  <2>7. DOMAIN g.trie = {Phrases(g.rules)[i] : i \in 1 .. Len(g.rules)} \ {<<>>}
    BY <2>1, <2>2 DEF Indexes
  <2> QED
    BY <2>4, <2>5, <2>6, <2>7
<1> QED
  BY <1>1, RoundTripInvariant, PTL

\* No snapshot of the ring reaches past the live table, and they never shrink.
THEOREM SnapshotsStayWithin == RoundTripSpec => []SnapshotsWithinTable
<1>1. RoundTripInv => SnapshotsWithinTable
  <2> SUFFICES ASSUME RoundTripInv, phase # "panicked"
               PROVE  /\ g.epochBaseLen <= Len(g.rules)
                      /\ \A i \in 1 .. Len(g.snapshotLens) :
                           g.snapshotLens[i] \in g.epochBaseLen .. Len(g.rules)
                      /\ \A i, j \in 1 .. Len(g.snapshotLens) :
                           i < j => g.snapshotLens[i] <= g.snapshotLens[j]
    BY DEF SnapshotsWithinTable
  <2>1. SnapshotsOK(g.epochBaseLen, g.snapshotLens, Len(g.rules)) /\ g.rules \in Table
    BY DEF RoundTripInv, SerialInv, GrammarOK, BooksOK
  <2>2. Len(g.rules) \in Nat
    BY <2>1, TableLength
  <2> QED
    BY <2>1, <2>2 DEF SnapshotsOK
<1> QED
  BY <1>1, RoundTripInvariant, PTL

\* An extension has what it extends as a prefix.
LEMMA ExtensionPrefix ==
  ASSUME NEW rules \in Table, NEW more \in Table, Extends(rules, more)
  PROVE  IsPrefix(rules, more)
<1>1. SubSeq(more, 1, Len(rules)) = rules
  BY ExtensionSplit
<1>2. SubSeq(rules, 1, Len(rules)) = rules
  BY TableLength
<1> QED
  BY <1>1, <1>2 DEF IsPrefix, Extends

\* What one step of the writer does to the table and to the epoch.
LEMMA EpochStep ==
  ASSUME SerialInv, [Next]_vars, g'.gcEpoch = g.gcEpoch
  PROVE  g.rules \in Table /\ Extends(g.rules, g'.rules) /\ g'.rules \in Table
<1>1. g.rules \in Table
  BY DEF SerialInv, GrammarOK, BooksOK, Stopped
<1>2. CASE g' = g
  BY <1>1, <1>2, TableLength DEF Extends
<1>3. CASE \E accept \in BOOLEAN : EmitChunk(accept)
  <2>1. PICK accept \in BOOLEAN : EmitChunk(accept)
    BY <1>3
  <2> DEFINE c == Compress(g, HeadChunk, accept)
  <2>2. ChunkDone(g, HeadChunk, c) /\ WriteData(c) /\ GrammarOK(g)
    BY <2>1, EmitFacts
  <2> HIDE DEF c
  <2>3. g' = c.g
    BY <2>2 DEF WriteData
  <2>4. CASE c.panic = TRUE /\ Halted(g, c.g)
    BY <1>1, <2>3, <2>4 DEF Halted
  <2>5. CASE \E k : /\ GrammarOK(k) /\ Advances(g, HeadChunk, k, c.block)
                    /\ c.rules = k.rules /\ Collected(k, c)
    <3>1. PICK k : /\ GrammarOK(k) /\ Advances(g, HeadChunk, k, c.block) /\ Collected(k, c)
      BY <2>5
    <3>2. Extends(g.rules, k.rules) /\ k.gcEpoch = g.gcEpoch
      BY <3>1 DEF Advances
    <3>3. k.rules \in Table /\ k.gcEpoch \in Nat
      BY <3>1 DEF GrammarOK, BooksOK, CountersOK
    <3>4. CASE Only({"intervalStartSeq"}, k, c.g)
      <4>1. c.g.rules = k.rules
        BY <3>4 DEF Only, Fields
      <4> QED
        BY <1>1, <2>3, <3>2, <3>3, <4>1
    <3>5. CASE \E survivors : Compacts(k, survivors, c.g)
      <4>1. c.g.gcEpoch = k.gcEpoch + 1
        BY <3>5 DEF Compacts
      <4> QED
        BY <2>3, <3>2, <3>3, <4>1
    <3> QED
      BY <3>1, <3>4, <3>5 DEF Collected
  <2> QED
    BY <2>2, <2>4, <2>5 DEF ChunkDone
<1>4. CASE EmitGc \/ Close \/ UNCHANGED vars
  BY <1>2, <1>4 DEF EmitGc, Close, vars
<1> QED
  BY <1>3, <1>4 DEF Next

\* Within an epoch the table only grows at its end, so what a worker cloned stays a
\* prefix of it.
THEOREM PrefixAlwaysStable == RoundTripSpec => PrefixStable
<1>1. RoundTripInv /\ [RoundTripNext]_allVars
        => [g'.gcEpoch = g.gcEpoch => IsPrefix(g.rules, g'.rules)]_allVars
  <2> SUFFICES ASSUME RoundTripInv, [RoundTripNext]_allVars, g'.gcEpoch = g.gcEpoch
               PROVE  IsPrefix(g.rules, g'.rules)
    OBVIOUS
  <2>1. SerialInv /\ [Next]_vars
    BY WriterSteps DEF RoundTripInv
  <2>2. g.rules \in Table /\ Extends(g.rules, g'.rules) /\ g'.rules \in Table
    BY <2>1, EpochStep
  <2> QED
    BY <2>2, ExtensionPrefix
<1> QED
  BY <1>1, RoundTripInvariant, PTL DEF RoundTripSpec, PrefixStable

----------------------------------------------------------------------------
(* What a remap must not take away. *)

\* Without a remap among them, records are chunks.
LEMMA QuietCounts ==
  ASSUME NEW list, NEW recs, NEW tabs, NEW M, NEW C, Run(list, recs, tabs, M, C),
         NEW k \in 1 .. Len(recs), QuietFrom(recs, k)
  PROVE  /\ C[Len(recs) + 1] - C[k] = Len(recs) - k + 1
         /\ Cardinality({j \in k .. Len(recs) : recs[j].kind # "GC"}) = Len(recs) - k + 1
<1> DEFINE n == Len(recs)
           d == n - k + 1
           S == {i \in Nat : k + i <= n + 1 => C[k + i] = C[k] + i}
<1>1. n \in Nat /\ k \in Nat /\ d \in Nat /\ k + d = n + 1 /\ C[k] \in Nat
  <2>1. n \in Nat
    BY DEF Run
  <2>2. C[k] \in 0 .. Len(list)
    BY RunAt
  <2> QED
    BY <2>1, <2>2
<1>2. 0 \in S
  BY <1>1
<1>3. ASSUME NEW i \in 0 .. d - 1, i \in S PROVE i + 1 \in S
  <2> DEFINE j == k + i
  <2>1. j \in k .. n /\ j \in 1 .. n /\ k + (i + 1) = j + 1 /\ i + 1 \in Nat /\ j <= n + 1
        /\ i \in Nat
    BY <1>1, <1>3
  <2>2. recs[j].kind # "GC"
    BY <2>1 DEF QuietFrom
  <2>3. RecordStep(list, recs[j], tabs[j], M[j], C[j], tabs[j + 1], M[j + 1], C[j + 1])
    BY <2>1, RunAt
  <2>4. C[j + 1] = C[j] + 1
    BY <2>2, <2>3 DEF RecordStep, GcStep, DataStep
  <2>5. C[j] = C[k] + i
    BY <1>3, <2>1
  <2>6. C[j + 1] = C[k] + (i + 1)
    BY <1>1, <2>1, <2>4, <2>5
  <2> QED
    BY <2>1, <2>6
<1> HIDE DEF S
<1>4. d \in S
  <2>1. \A i \in 0 .. d : i \in S
    BY <1>1, <1>2, <1>3, InductionUpTo
  <2> QED
    BY <1>1, <2>1
<1>5. C[n + 1] = C[k] + d
  BY <1>1, <1>4 DEF S
<1>6. {j \in k .. n : recs[j].kind # "GC"} = k .. n
  BY DEF QuietFrom
<1>7. Cardinality(k .. n) = d
  <2>1. k \in Int /\ n \in Int /\ k <= n
    BY <1>1
  <2>2. Cardinality(k .. n) = n - k + 1
    BY <2>1, FS_Interval
  <2> QED
    BY <2>2
<1>8. C[n + 1] - C[k] = d
  BY <1>1, <1>5
<1> QED
  BY <1>6, <1>7, <1>8

\* The bytes of a rule's symbol are the rule's expansion.
LEMMA UnfoldOne ==
  ASSUME NEW rules \in Table, NEW i \in 1 .. Len(rules)
  PROVE  Unfold(<<Id(i)>>, rules) = Expansions(rules)[i]
<1> DEFINE E == Expansions(rules)
           t == Id(i)
<1>1. E \in Seq(Phrase) /\ Len(E) = Len(rules) /\ Len(rules) \in Nat
  BY ExpansionsFacts, TableLength DEF Expanded
<1>2. t \in Nat /\ Position(t) = i /\ ~(t < NLit)
  BY RuleSymbol
<1>3. E[i] \in Seq(Literal)
  <2> HIDE DEF E
  <2>1. E[i] \in Phrase
    BY <1>1
  <2> QED
    BY <2>1 DEF Phrase
<1> HIDE DEF E, t
<1>4. Joined(E, Append(<<>>, t)) = Joined(E, <<>>) \o Bytes(E, t)
  <2>1. <<>> \in Seq(Nat)
    OBVIOUS
  <2> QED
    BY <1>2, <2>1, JoinedAppend
<1>5. Joined(E, <<>>) = <<>> /\ Bytes(E, t) = E[i] /\ Append(<<>>, t) = <<t>>
  BY <1>2, JoinedEmpty DEF Bytes
<1>6. <<>> \o E[i] = E[i]
  BY <1>3
<1> QED
  BY <1>4, <1>5, <1>6 DEF Unfold, E, t

\* A phrase that a block of the closing window was coded with still has a rule after the
\* remap that GC makes: the marks put on used rules, the test of the marks, the closure
\* over components and the renaming together lose none.
THEOREM UsedPhrasesAlwaysSurvive == RoundTripSpec => []UsedPhrasesSurvive
<1>1. RoundTripInv => UsedPhrasesSurvive
  <2> SUFFICES ASSUME RoundTripInv, pendingGc.some
               PROVE  UsedPhrases \subseteq {Expansions(g.rules)[i] : i \in 1 .. Len(g.rules)}
    BY DEF UsedPhrasesSurvive
  <2>1. PICK M, C : InRun(M, C)
    BY DEF RoundTripInv
  <2> DEFINE n == Len(stream)
             T == tables[n + 1]
             s == pendingGc.survivors
  <2>2. Run(pieces, stream, tables, M, C) /\ Writer(stream, tables, M, C, g, pendingGc)
    BY <2>1 DEF InRun, RoundTripInv, SerialInv
  <2>3. /\ s \in Seq(Nat) /\ RemapOK(T, s) /\ g.rules = Remap(T, s)
        /\ KeptOK(stream, tables, C, g.gcInterval, s)
    <3>1. NoGc.some = FALSE
      BY DEF NoGc
    <3> QED
      BY <2>2, <3>1 DEF Writer
  <2>4. T \in Table /\ n \in Nat
    <3>1. tables \in Seq(Table) /\ Len(tables) = n + 1 /\ n \in Nat
      BY <2>2 DEF Run
    <3> QED
      BY <3>1
  <2> HIDE DEF T, s
  <2> SUFFICES ASSUME NEW x \in UsedPhrases
               PROVE  x \in {Expansions(g.rules)[i] : i \in 1 .. Len(g.rules)}
    OBVIOUS
  <2>5. PICK k \in WindowBlocks : x \in {Unfold(<<t>>, tables[k + 1]) : t \in RulesUsed(stream[k])}
    BY Zenon DEF UsedPhrases
  <2>6. PICK t \in RulesUsed(stream[k]) : x = Unfold(<<t>>, tables[k + 1])
    BY <2>5
  <2>7. /\ k \in 1 .. n /\ stream[k].kind = "G" /\ QuietFrom(stream, k)
        /\ Cardinality({j \in k .. n : stream[j].kind # "GC"}) <= g.gcInterval
    BY DEF WindowBlocks, QuietFrom
  <2>8. C[n + 1] - C[k] <= g.gcInterval
    BY <2>2, <2>7, QuietCounts
  <2>9. PICK q \in 1 .. Len(stream[k].tokens) : stream[k].tokens[q] = t
    BY DEF RulesUsed
  <2>10. t \in Nat /\ t >= NLit
    BY AlphabetFacts DEF RulesUsed, Symbol, Literal
  <2> DEFINE i == Position(t)
  <2>11. tables[k + 1] \in Table /\ i \in 1 .. Len(tables[k + 1])
    BY <2>2, <2>7, <2>9, <2>10, TokenKnown
  <2>12. Extends(tables[k + 1], T) /\ i \in Kept(s)
    BY <2>3, <2>7, <2>8, <2>9, <2>10 DEF KeptOK, T
  <2>13. PICK p \in 1 .. Len(s) : s[p] = i
    BY <2>12 DEF Kept
  <2>14. t = Id(i)
    BY <2>10, AlphabetFacts DEF Position, Id
  <2> HIDE DEF i
  <2>15. Unfold(<<t>>, tables[k + 1]) = Expansions(tables[k + 1])[i]
    BY <2>11, <2>14, UnfoldOne
  <2>16. Expansions(tables[k + 1])[i] = Expansions(T)[i]
    BY <2>4, <2>11, <2>12, ExpansionsPrefix DEF Extends
  <2>17. Expansions(g.rules)[p] = Expansions(T)[i]
    BY <2>3, <2>4, <2>13, ExpansionsRemap
  <2>18. p \in 1 .. Len(g.rules)
    BY <2>3, <2>4, <2>13, RemapTable
  <2> QED
    BY <2>15, <2>16, <2>17, <2>18, <2>6
<1> QED
  BY <1>1, RoundTripInvariant, PTL

----------------------------------------------------------------------------
(* Writer and reader follow the GrammarSync protocol. *)

\* The protocol's operators are those of the table.
LEMMA SyncOperators ==
  /\ Sync!Record = [kind : {"S", "G", "GC"}, defs : Seq(Pair), tokens : Seq(Symbol),
                    survivors : Seq(Nat)]
  /\ \A rules, i : Sync!RuleOK(rules, i) <=> RuleOK(rules, i)
  /\ \A rules : Sync!Closed(rules) <=> Closed(rules)
  /\ \A rules, s : Sync!Known(rules, s) <=> Known(rules, s)
  /\ \A rules, survivors : Sync!RemapOK(rules, survivors) <=> RemapOK(rules, survivors)
  /\ \A rules, survivors : Sync!Remap(rules, survivors) = Remap(rules, survivors)
  /\ Sync!MaxRules = MaxRules
<1>1. Sync!Pair = Pair /\ Sync!Symbol = Symbol
  BY DEF Sync!Pair, Sync!Symbol, Pair, Symbol
<1>2. Sync!Record = [kind : {"S", "G", "GC"}, defs : Seq(Pair), tokens : Seq(Symbol),
                     survivors : Seq(Nat)]
  BY <1>1 DEF Sync!Record
<1>3. \A rules, i : Sync!RuleOK(rules, i) <=> RuleOK(rules, i)
  BY DEF Sync!RuleOK, RuleOK, Sync!Id, Id
<1>4. \A rules : Sync!Closed(rules) <=> Closed(rules)
  BY <1>3 DEF Sync!Closed, Closed
<1>5. \A rules, s : Sync!Known(rules, s) <=> Known(rules, s)
  BY DEF Sync!Known, Known
<1>6. Sync!MaxRules = MaxRules
  BY DEF Sync!MaxRules, MaxRules
<1>7. \A rules, survivors : Sync!RemapOK(rules, survivors) <=> RemapOK(rules, survivors)
  BY <1>6 DEF Sync!RemapOK, RemapOK, Sync!Ascending, Ascending, Sync!Components, Components,
              Sync!Kept, Kept, Sync!Position, Position, Sync!Literal, Literal
<1>8. \A rules, survivors : Sync!Remap(rules, survivors) = Remap(rules, survivors)
  BY DEF Sync!Remap, Remap, Sync!Renamed, Renamed, Sync!Position, Position, Sync!Id, Id
<1> QED
  BY <1>2, <1>3, <1>4, <1>5, <1>6, <1>7, <1>8

\* A record and a stream as the protocol sees them.
SyncRecord(rec) ==
  [kind |-> rec.kind, defs |-> rec.defs, tokens |-> rec.tokens, survivors |-> rec.survivors]

SyncStream(recs) ==
  [k \in 1 .. Len(recs) |->
     [kind |-> recs[k].kind, defs |-> recs[k].defs, tokens |-> recs[k].tokens,
      survivors |-> recs[k].survivors]]

\* Every record of a run is one that the protocol's writer may write, its reader accepts,
\* and both turn into the same table.
LEMMA SyncStep ==
  ASSUME NEW list, NEW recs, NEW tabs, NEW M, NEW C, Run(list, recs, tabs, M, C),
         NEW k \in 1 .. Len(recs)
  PROVE  /\ SyncRecord(recs[k]) \in Sync!Record
         /\ Sync!MayWrite(tabs[k], SyncRecord(recs[k]))
         /\ Sync!Accepts(tabs[k], SyncRecord(recs[k]))
         /\ tabs[k + 1] = Sync!After(tabs[k], SyncRecord(recs[k]))
<1> DEFINE rec == recs[k]
           r == SyncRecord(rec)
           T == tabs[k]
           T2 == tabs[k + 1]
<1>1. /\ rec \in ArchiveRecord /\ T \in Table /\ T2 \in Table
      /\ RecordStep(list, rec, T, M[k], C[k], T2, M[k + 1], C[k + 1])
  BY RunAt
<1>2. /\ r.kind = rec.kind /\ r.defs = rec.defs /\ r.tokens = rec.tokens
      /\ r.survivors = rec.survivors
  BY DEF SyncRecord
<1>3. r \in Sync!Record
  BY <1>1, SyncOperators DEF SyncRecord, ArchiveRecord
<1> HIDE DEF rec, r, T, T2
<1>4. CASE rec.kind = "S" /\ T2 = T
  <2>1. Sync!MayWrite(T, r) /\ Sync!Accepts(T, r) /\ T2 = Sync!After(T, r)
    BY <1>2, <1>4 DEF Sync!MayWrite, Sync!Accepts, Sync!After
  <2> QED
    BY <1>3, <2>1 DEF T, T2, r, rec
<1>5. CASE \E m, m2 : GrammarBlock(T, m, rec.hash, rec, T2, m2)
  <2>1. /\ rec.kind = "G" /\ rec.defs \in Seq(Pair) /\ T2 = T \o rec.defs
        /\ KnownTokens(Len(T2), rec.tokens)
    BY <1>5 DEF GrammarBlock
  <2>2. /\ Len(T) \in Nat /\ Len(T2) \in Nat /\ Len(T2) <= MaxRules /\ Closed(T2)
        /\ T \in Seq(Pair)
    BY <1>1 DEF Table
  <2>3. Len(T2) = Len(T) + Len(rec.defs) /\ Len(rec.defs) \in Nat
    BY <2>1, <2>2, ConcatElement
  <2>4. Len(rec.defs) <= MaxRules
    <3>1. \A a, b, c, m \in Nat : c = a + b /\ c <= m => b <= m
      OBVIOUS
    <3>2. MaxRules \in Nat
      BY AlphabetFacts
    <3> QED
      BY <2>2, <2>3, <3>1, <3>2
  <2>5. \A q \in 1 .. Len(rec.tokens) : Known(T2, rec.tokens[q])
    BY <2>1 DEF KnownTokens, Known
  <2>6. \A i \in 1 .. Len(rec.defs) : RuleOK(T2, Len(T) + i)
    <3> SUFFICES ASSUME NEW i \in 1 .. Len(rec.defs) PROVE RuleOK(T2, Len(T) + i)
      OBVIOUS
    <3>1. Len(T) + i \in 1 .. Len(T2)
      BY <2>2, <2>3
    <3> QED
      BY <2>2, <3>1 DEF Closed
  <2>7. r.kind = "G" /\ T \o r.defs = T2 /\ Len(r.defs) = Len(rec.defs) /\ r.tokens = rec.tokens
    BY <1>2, <2>1
  <2>8. Sync!MayWrite(T, r)
    BY <2>2, <2>3, <2>5, <2>7, SyncOperators DEF Sync!MayWrite
  <2>9. Sync!Accepts(T, r)
    BY <2>4, <2>5, <2>6, <2>7, SyncOperators DEF Sync!Accepts
  <2>10. T2 = Sync!After(T, r)
    BY <2>7 DEF Sync!After
  <2> QED
    BY <1>3, <2>8, <2>9, <2>10 DEF T, T2, r, rec
<1>6. CASE \E m, c, m2, c2 : GcStep(rec, T, m, c, T2, m2, c2)
  <2>1. /\ rec.kind = "GC" /\ Len(rec.survivors) < Len(T) /\ RemapOK(T, rec.survivors)
        /\ T2 = Remap(T, rec.survivors)
    BY <1>6 DEF GcStep
  <2>2. Sync!MayWrite(T, r) /\ Sync!Accepts(T, r) /\ T2 = Sync!After(T, r)
    BY <1>2, <2>1, SyncOperators DEF Sync!MayWrite, Sync!Accepts, Sync!After
  <2> QED
    BY <1>3, <2>2 DEF T, T2, r, rec
<1> QED
  BY <1>1, <1>4, <1>5, <1>6 DEF RecordStep, DataStep

\* What is appended to the archive is appended to the protocol's stream.
LEMMA SyncAppend ==
  ASSUME NEW recs \in Seq(ArchiveRecord), NEW rec \in ArchiveRecord
  PROVE  /\ SyncStream(Append(recs, rec)) = Append(SyncStream(recs), SyncRecord(rec))
         /\ Len(SyncStream(recs)) = Len(recs)
         /\ Len(SyncStream(Append(recs, rec))) = Len(recs) + 1
         /\ SyncStream(Append(recs, rec))[Len(recs) + 1] = SyncRecord(rec)
<1> DEFINE n == Len(recs)
           more == Append(recs, rec)
           X == SyncStream(recs)
           Y == SyncStream(more)
           r == SyncRecord(rec)
           Z == Append(X, r)
           R == Sync!Record
<1>1. n \in Nat /\ Len(more) = n + 1 /\ more[n + 1] = rec /\ \A k \in 1 .. n : more[k] = recs[k]
      /\ more \in Seq(ArchiveRecord)
  OBVIOUS
<1>2. \A a \in ArchiveRecord : SyncRecord(a) \in R
  BY SyncOperators DEF ArchiveRecord, SyncRecord
<1>3. /\ X = [k \in 1 .. n |-> SyncRecord(recs[k])]
      /\ Y = [k \in 1 .. Len(more) |-> SyncRecord(more[k])]
  BY DEF SyncStream, SyncRecord
<1>4. \A k \in 1 .. n : recs[k] \in ArchiveRecord
  OBVIOUS
<1> HIDE DEF more, X, Y, r, R
<1>5. \A k \in 1 .. n + 1 : more[k] \in ArchiveRecord
  BY <1>1
<1>6. X \in Seq(R) /\ Len(X) = n /\ \A k \in 1 .. n : X[k] = SyncRecord(recs[k])
  BY <1>1, <1>2, <1>3, <1>4
<1>7. Y \in Seq(R) /\ Len(Y) = n + 1 /\ \A k \in 1 .. n + 1 : Y[k] = SyncRecord(more[k])
  BY <1>1, <1>2, <1>3, <1>5
<1>8. r \in R
  BY <1>2 DEF r
<1>9. Z \in Seq(R) /\ Len(Z) = n + 1 /\ Z[n + 1] = r /\ \A k \in 1 .. n : Z[k] = X[k]
  BY <1>1, <1>6, <1>8
<1> HIDE DEF Z
<1>10. ASSUME NEW k \in 1 .. n + 1 PROVE Y[k] = Z[k]
  <2>1. CASE k \in 1 .. n
    BY <1>1, <1>6, <1>7, <1>9, <2>1
  <2>2. CASE k = n + 1
    BY <1>1, <1>7, <1>9, <2>2 DEF r
  <2> QED
    BY <1>1, <2>1, <2>2
<1>11. Y = Z
  BY <1>7, <1>9, <1>10
<1> QED
  BY <1>6, <1>7, <1>9, <1>11 DEF X, Y, Z, r, more

\* Writing a record of a run is a step of the protocol's writer.
LEMMA SyncWrite ==
  ASSUME NEW M, NEW C, Run(pieces', stream', tables', M, C),
         stream \in Seq(ArchiveRecord), tables \in Seq(Table), Len(tables) = Len(stream) + 1,
         NEW rec \in ArchiveRecord, stream' = Append(stream, rec),
         NEW T2 \in Table, tables' = Append(tables, T2), dec' = dec
  PROVE  Sync!WriteAny
<1> DEFINE n == Len(stream)
           r == SyncRecord(rec)
           X == SyncStream(stream)
           Y == SyncStream(stream')
<1>1. /\ Y = Append(X, r) /\ Len(X) = n /\ Len(Y) = n + 1 /\ Y[n + 1] = r
  BY SyncAppend
<1>2. /\ n \in Nat /\ Len(stream') = n + 1 /\ stream'[n + 1] = rec
      /\ tables'[n + 1] = tables[n + 1] /\ tables'[n + 2] = T2
  <2> HIDE DEF ArchiveRecord, Table
  <2> QED
    OBVIOUS
<1>3. PICK recs, tabs : recs = stream' /\ tabs = tables'
  OBVIOUS
<1>4. Run(pieces', recs, tabs, M, C) /\ n + 1 \in 1 .. Len(recs) /\ recs[n + 1] = rec
  BY <1>2, <1>3
<1>5. /\ SyncRecord(recs[n + 1]) \in Sync!Record
      /\ Sync!MayWrite(tabs[n + 1], SyncRecord(recs[n + 1]))
      /\ tabs[n + 1 + 1] = Sync!After(tabs[n + 1], SyncRecord(recs[n + 1]))
  <2> DEFINE k == n + 1
  <2>1. Run(pieces', recs, tabs, M, C) /\ k \in 1 .. Len(recs)
    BY <1>4
  <2> HIDE DEF k
  <2> QED
    BY <2>1, SyncStep DEF k
<1>6. /\ r \in Sync!Record /\ Sync!MayWrite(tables[n + 1], r)
      /\ T2 = Sync!After(tables[n + 1], r)
  <2>1. n + 1 + 1 = n + 2
    BY <1>2
  <2> QED
    BY <1>2, <1>3, <1>4, <1>5, <2>1
<1> HIDE DEF r
<1>7. X = [k \in 1 .. Len(stream) |->
             [kind |-> stream[k].kind, defs |-> stream[k].defs,
              tokens |-> stream[k].tokens, survivors |-> stream[k].survivors]]
  BY DEF SyncStream
<1>8. Y = [k \in 1 .. Len(stream') |->
             [kind |-> stream'[k].kind, defs |-> stream'[k].defs,
              tokens |-> stream'[k].tokens, survivors |-> stream'[k].survivors]]
  BY DEF SyncStream
<1> HIDE DEF X, Y, n
<1>9. tables' = Append(tables, Sync!After(tables[n + 1], r))
  BY <1>6
<1> QED
  BY <1>1, <1>6, <1>7, <1>8, <1>9 DEF Sync!WriteAny, Sync!EncRules

\* Applying a record of a run is a step of the protocol's reader.
LEMMA SyncRead ==
  ASSUME NEW M, NEW C, Run(pieces, stream, tables, M, C),
         dec.pos \in 0 .. Len(stream), dec.pos < Len(stream), dec.rules = tables[dec.pos + 1],
         dec.verdict = "reading", dec'.verdict = "reading", dec'.pos = dec.pos + 1,
         dec'.rules = tables[dec.pos + 2], stream' = stream, tables' = tables
  PROVE  Sync!Read
<1> DEFINE p == dec.pos
           r == SyncRecord(stream[p + 1])
           X == SyncStream(stream)
<1>1. p + 1 \in 1 .. Len(stream) /\ p + 1 + 1 = p + 2 /\ Len(stream) \in Nat
  <2>1. Len(stream) \in Nat
    BY DEF Run
  <2> QED
    BY <2>1
<1>2. /\ Sync!Accepts(tables[p + 1], r) /\ tables[p + 2] = Sync!After(tables[p + 1], r)
  <2> DEFINE k == p + 1
  <2>1. k \in 1 .. Len(stream)
    BY <1>1
  <2> HIDE DEF k
  <2>2. /\ Sync!Accepts(tables[k], SyncRecord(stream[k]))
        /\ tables[k + 1] = Sync!After(tables[k], SyncRecord(stream[k]))
    BY <2>1, SyncStep
  <2> QED
    BY <1>1, <2>2 DEF k
<1>3. X[p + 1] = r /\ Len(X) = Len(stream)
  BY <1>1 DEF SyncStream, SyncRecord
<1>4. X = [k \in 1 .. Len(stream) |->
             [kind |-> stream[k].kind, defs |-> stream[k].defs,
              tokens |-> stream[k].tokens, survivors |-> stream[k].survivors]]
  BY DEF SyncStream
<1>5. /\ p < Len(X) /\ Sync!Accepts(dec.rules, X[p + 1])
      /\ dec'.rules = Sync!After(dec.rules, X[p + 1])
  BY <1>2, <1>3
<1>6. (IF dec.verdict = "error" THEN "error" ELSE "ok") = "ok"
      /\ (IF dec'.verdict = "error" THEN "error" ELSE "ok") = "ok"
  OBVIOUS
<1> HIDE DEF X, r
<1> QED
  BY <1>4, <1>5, <1>6 DEF Sync!Read

\* A step that leaves the records, the tables and the reader's place is invisible to it.
LEMMA SyncStutter ==
  ASSUME UNCHANGED <<stream, tables>>, dec'.pos = dec.pos, dec'.rules = dec.rules,
         dec.verdict # "error", dec'.verdict # "error"
  PROVE  UNCHANGED Sync!vars
BY DEF Sync!vars

\* What the protocol asks of a run's state.
LEMMA InRunFacts ==
  ASSUME NEW M, NEW C, InRun(M, C)
  PROVE  /\ Run(pieces, stream, tables, M, C)
         /\ stream \in Seq(ArchiveRecord) /\ tables \in Seq(Table)
         /\ Len(tables) = Len(stream) + 1
         /\ dec.pos \in 0 .. Len(stream) /\ dec.rules = tables[dec.pos + 1]
         /\ dec.verdict # "error"
BY DEF InRun, Run, Reader

\* Every step of the archive is a step of the protocol or invisible to it.
LEMMA SyncSteps ==
  ASSUME RoundTripInv, RoundTripInv', [RoundTripNext]_allVars
  PROVE  [Sync!WriteAny \/ Sync!Read]_(Sync!vars)
<1>1. PICK M, C : InRun(M, C)
  BY DEF RoundTripInv
<1>2. SerialInv
  BY DEF RoundTripInv
<1>3. /\ Run(pieces, stream, tables, M, C)
      /\ stream \in Seq(ArchiveRecord) /\ tables \in Seq(Table)
      /\ Len(tables) = Len(stream) + 1
      /\ dec.pos \in 0 .. Len(stream) /\ dec.rules = tables[dec.pos + 1]
      /\ dec.verdict # "error"
  BY <1>1, InRunFacts
<1>4. ASSUME NEW rec, NEW T2, stream' = Append(stream, rec), tables' = Append(tables, T2),
             dec' = dec
      PROVE  Sync!WriteAny
  <2>1. PICK N, D : InRun(N, D)'
    BY DEF RoundTripInv
  <2>2. /\ Run(pieces', stream', tables', N, D)
        /\ stream' \in Seq(ArchiveRecord) /\ tables' \in Seq(Table)
    BY <2>1 DEF InRun, Run
  <2>3. rec \in ArchiveRecord
    <3> DEFINE R == ArchiveRecord
    <3>1. stream \in Seq(R) /\ Append(stream, rec) \in Seq(R)
      BY <1>3, <1>4, <2>2
    <3> HIDE DEF R
    <3>2. Len(stream) + 1 \in 1 .. Len(Append(stream, rec))
          /\ Append(stream, rec)[Len(stream) + 1] = rec
      BY <3>1
    <3> QED
      BY <3>1, <3>2 DEF R
  <2>4. T2 \in Table
    <3> DEFINE R == Table
    <3>1. tables \in Seq(R) /\ Append(tables, T2) \in Seq(R)
      BY <1>3, <1>4, <2>2
    <3> HIDE DEF R
    <3>2. Len(tables) + 1 \in 1 .. Len(Append(tables, T2))
          /\ Append(tables, T2)[Len(tables) + 1] = T2
      BY <3>1
    <3> QED
      BY <3>1, <3>2 DEF R
  <2> QED
    BY <1>3, <1>4, <2>2, <2>3, <2>4, SyncWrite
<1>5. CASE \E accept \in BOOLEAN : Emit(accept)
  <2>1. PICK accept \in BOOLEAN : Emit(accept)
    BY <1>5
  <2> DEFINE c == Compress(g, HeadChunk, accept)
  <2>2. /\ WriteData(c) /\ phase = "create" /\ dec' = dec
        /\ tables' = IF phase' = "panicked" THEN tables ELSE Append(tables, c.rules)
    BY <2>1 DEF Emit, EmitChunk
  <2> HIDE DEF c
  <2>3. CASE c.panic
    <3>1. phase' = "panicked" /\ stream' = stream
      BY <2>2, <2>3 DEF WriteData
    <3> QED
      BY <1>3, <2>2, <3>1, SyncStutter
  <2>4. CASE ~c.panic
    <3>1. phase' = phase /\ stream' = Append(stream, DataRecord(c.block, HeadChunk))
      BY <2>2, <2>4 DEF WriteData
    <3> QED
      BY <1>4, <2>2, <3>1
  <2> QED
    BY <2>3, <2>4
<1>6. CASE EmitRemap
  BY <1>4, <1>6 DEF EmitRemap, EmitGc
<1>7. CASE Finalize
  BY <1>3, <1>7, SyncStutter DEF Finalize, Close
<1>8. CASE Extract
  <2>1. /\ InRun(M, C)' /\ dec'.pos = dec.pos + 1 /\ dec.pos < Len(stream)
        /\ dec'.verdict = "reading"
    BY <1>1, <1>2, <1>8, ExtractInRun
  <2>2. UNCHANGED <<vars, tables>> /\ dec.verdict = "reading"
    BY <1>8 DEF Extract
  <2>3. stream' = stream /\ tables' = tables /\ dec'.rules = tables[dec.pos + 2]
    <3>1. dec'.rules = tables'[dec'.pos + 1]
      BY <2>1 DEF InRun, Reader
    <3>2. dec.pos + 1 + 1 = dec.pos + 2
      <4>1. dec.pos \in Int
        BY <1>3
      <4> QED
        BY <4>1
    <3> QED
      BY <2>1, <2>2, <3>1, <3>2 DEF vars
  <2> QED
    BY <1>3, <2>1, <2>2, <2>3, SyncRead
<1>9. CASE ExtractDone
  <2>1. dec'.pos = dec.pos /\ dec'.rules = dec.rules
    BY <1>1, <1>2, <1>9, DoneInRun
  <2>2. UNCHANGED <<vars, tables>> /\ dec' = [dec EXCEPT !.verdict = "done"]
    BY <1>9 DEF ExtractDone
  <2>3. dec \in ReaderState
    BY <1>1 DEF InRun, Reader
  <2>4. dec'.verdict = "done"
    BY <2>2, <2>3 DEF ReaderState
  <2> QED
    BY <1>3, <2>1, <2>2, <2>4, SyncStutter DEF vars
<1>10. CASE UNCHANGED allVars
  BY <1>3, <1>10, SyncStutter DEF allVars, vars
<1>11. CASE Terminated
  BY <1>10, <1>11 DEF Terminated
<1> QED
  BY <1>5, <1>6, <1>7, <1>8, <1>9, <1>10, <1>11 DEF RoundTripNext

\* An archive starts where the protocol does.
LEMMA SyncStart ==
  ASSUME RoundTripInit
  PROVE  Sync!Init
<1>1. g.rules \in SeedTables /\ stream = <<>>
  BY StartFacts DEF RoundTripInit
<1>2. tables = <<g.rules>> /\ dec.rules = g.rules /\ dec.pos = 0 /\ dec.verdict = "reading"
  BY DEF RoundTripInit
<1> DEFINE X == [k \in 1 .. Len(stream) |->
                   [kind |-> stream[k].kind, defs |-> stream[k].defs,
                    tokens |-> stream[k].tokens, survivors |-> stream[k].survivors]]
<1>3. X = <<>>
  BY <1>1
<1> QED
  BY <1>1, <1>2, <1>3 DEF Sync!Init

\* Writer and reader together implement the abstract protocol of GrammarSync: every
\* record written is one its writer may write, and every record read is one its reader
\* accepts and turns into the table the writer had.
THEOREM WriterAndReaderFollowProtocol == RoundTripSpec => FollowsProtocol
<1>1. RoundTripInit => Sync!Init
  BY SyncStart
<1>2. RoundTripInv /\ RoundTripInv' /\ [RoundTripNext]_allVars
        => [Sync!WriteAny \/ Sync!Read]_(Sync!vars)
  BY SyncSteps
<1> QED
  BY <1>1, <1>2, RoundTripInvariant, PTL DEF RoundTripSpec, FollowsProtocol, Sync!Protocol

----------------------------------------------------------------------------
(* Any number of workers. *)

\* What a worker can have found, and a task.
Candidates ==
  {None} \cup {ForkCandidate(prefix, raw) : prefix \in Table, raw \in Seq(Literal)}

Task ==
  [state : {"queued", "running", "done"}, snap : 0 .. MaxRules, epoch : Nat,
   prefix : Table, cand : Candidates]

\* A task's answer is the one for its prefix, and its prefix is the table's unless its
\* epoch is over.
TaskOK(t, raw, h) ==
  /\ t.state = "done" => t.cand = ForkCandidate(t.prefix, raw)
  /\ t.epoch <= h.gcEpoch
  /\ t.epoch = h.gcEpoch => t.snap <= Len(h.rules) /\ t.prefix = SubSeq(h.rules, 1, t.snap)

\* The inductive invariant of parallel creation.
ParInv ==
  /\ SerialInv
  /\ g.lag \in Nat /\ g.lag > 1 /\ g.gcEpoch \in Nat
  /\ tasks \in Seq(Task)
  /\ committed <= Len(tasks) /\ Len(tasks) <= Len(pieces) /\ Len(tasks) <= committed + g.lag
  /\ Cardinality(Running) <= Jobs
  /\ \A r \in 1 .. Len(tasks) : TaskOK(tasks[r], pieces[r], g)

\* Remaps are counted upwards and the lag is never changed.
LEMMA EpochGrows ==
  ASSUME SerialInv, g.gcEpoch \in Nat, [Next]_vars
  PROVE  g'.gcEpoch \in Nat /\ g.gcEpoch <= g'.gcEpoch /\ g'.lag = g.lag
<1>1. CASE g' = g
  BY <1>1
<1>2. CASE \E accept \in BOOLEAN : EmitChunk(accept)
  <2>1. PICK accept \in BOOLEAN : EmitChunk(accept)
    BY <1>2
  <2> DEFINE c == Compress(g, HeadChunk, accept)
  <2>2. ChunkDone(g, HeadChunk, c) /\ WriteData(c)
    BY <2>1, EmitFacts
  <2> HIDE DEF c
  <2>3. g' = c.g
    BY <2>2 DEF WriteData
  <2>4. CASE c.panic = TRUE /\ Halted(g, c.g)
    BY <2>3, <2>4 DEF Halted
  <2>5. CASE \E k : /\ GrammarOK(k) /\ Advances(g, HeadChunk, k, c.block)
                    /\ c.rules = k.rules /\ Collected(k, c)
    <3>1. PICK k : Advances(g, HeadChunk, k, c.block) /\ Collected(k, c)
      BY <2>5
    <3>2. k.gcEpoch = g.gcEpoch /\ k.lag = g.lag
      BY <3>1 DEF Advances
    <3>3. CASE Only({"intervalStartSeq"}, k, c.g)
      <4>1. c.g.gcEpoch = k.gcEpoch /\ c.g.lag = k.lag
        BY <3>3 DEF Only, Fields
      <4> QED
        BY <2>3, <3>2, <4>1
    <3>4. CASE \E survivors : Compacts(k, survivors, c.g)
      <4>1. c.g.gcEpoch = k.gcEpoch + 1 /\ c.g.lag = k.lag
        BY <3>4 DEF Compacts
      <4> QED
        BY <2>3, <3>2, <4>1
    <3> QED
      BY <3>1, <3>3, <3>4 DEF Collected
  <2> QED
    BY <2>2, <2>4, <2>5 DEF ChunkDone
<1>3. CASE EmitGc \/ Close \/ UNCHANGED vars
  BY <1>1, <1>3 DEF EmitGc, Close, vars
<1> QED
  BY <1>2, <1>3 DEF Next

\* A table's prefix is a prefix of every extension.
LEMMA PrefixKept ==
  ASSUME NEW rules \in Table, NEW more \in Table, Extends(rules, more),
         NEW n \in Nat, n <= Len(rules)
  PROVE  n <= Len(more) /\ SubSeq(more, 1, n) = SubSeq(rules, 1, n)
<1>1. /\ Len(rules) \in Nat /\ Len(more) \in Nat /\ Len(rules) <= Len(more)
      /\ \A i \in 1 .. Len(rules) : more[i] = rules[i]
  BY TableLength DEF Extends
<1>2. n \in 0 .. Len(rules) /\ n \in 0 .. Len(more)
  BY <1>1
<1> DEFINE a == SubSeq(rules, 1, n)
           b == SubSeq(more, 1, n)
<1>3. a \in Table /\ Len(a) = n /\ \A i \in 1 .. n : a[i] = rules[i]
  BY <1>2, TablePrefix
<1>4. b \in Table /\ Len(b) = n /\ \A i \in 1 .. n : b[i] = more[i]
  BY <1>2, TablePrefix
<1>5. a \in Seq(Pair) /\ b \in Seq(Pair)
  BY <1>3, <1>4, TableLength
<1> HIDE DEF a, b
<1>6. \A i \in 1 .. n : a[i] = b[i]
  BY <1>1, <1>3, <1>4
<1>7. a = b
  BY <1>3, <1>4, <1>5, <1>6
<1> QED
  BY <1>1, <1>7 DEF a, b

\* Tasks that start and end: how many run.
LEMMA RunningFinite ==
  ASSUME Len(tasks) \in Nat
  PROVE  IsFiniteSet(Running) /\ Cardinality(Running) \in Nat
<1>1. IsFiniteSet(1 .. Len(tasks))
  BY FS_Interval
<1>2. Running \subseteq 1 .. Len(tasks)
  BY DEF Running
<1>3. IsFiniteSet(Running)
  BY <1>1, <1>2, FS_Subset
<1> QED
  BY <1>3, FS_CardinalityType

\* With a task's answer, committing the head chunk is what the serial run does: a
\* candidate is used only if it is the one that discovery on the live table's prefix
\* would find now.
LEMMA SameChunk ==
  ASSUME NEW h, GrammarOK(h), NEW raw \in Seq(Literal), NEW accept,
         NEW t \in Task, TaskOK(t, raw, h), t.state = "done"
  PROVE  CompressParallel(h, t.cand, t.snap, t.epoch, raw, accept) = Compress(h, raw, accept)
<1> DEFINE k == Counted(h)
           now == SnapshotLenAt(k, ChunkIndex(k))
           fresh == now = t.snap /\ t.snap < Len(k.rules) /\ k.gcEpoch = t.epoch
<1>1. /\ CompressParallel(h, t.cand, t.snap, t.epoch, raw, accept)
           = IF Bypasses(raw) THEN EmitTail(Nothing(k))
             ELSE IF fresh THEN Finish(CommitCandidate(k, t.cand), accept)
             ELSE Finish(DiscoverAndEncode(k, raw, now), accept)
      /\ Compress(h, raw, accept)
           = IF Bypasses(raw) THEN EmitTail(Nothing(k))
             ELSE Finish(DiscoverAndEncode(k, raw, now), accept)
  BY DEF CompressParallel, Compress, Counted
<1>2. k.rules = h.rules /\ k.gcEpoch = h.gcEpoch
  BY CountedFacts DEF Only, Fields
<1>3. h.rules \in Table /\ Len(h.rules) \in Nat /\ t.snap \in Nat
  BY TableLength DEF GrammarOK, BooksOK, Task
<1> HIDE DEF k, now
<1>4. CASE fresh
  <2>1. t.prefix = SubSeq(k.rules, 1, now) /\ t.cand = ForkCandidate(t.prefix, raw)
    BY <1>2, <1>4 DEF TaskOK
  <2>2. ~(now >= Len(k.rules))
    BY <1>2, <1>3, <1>4
  <2>3. DiscoverAndEncode(k, raw, now) = CommitCandidate(k, t.cand)
    BY <2>1, <2>2 DEF DiscoverAndEncode, TryCompressForked
  <2> QED
    BY <1>1, <2>3
<1>5. CASE ~fresh
  BY <1>1, <1>5
<1> QED
  BY <1>4, <1>5

\* So every commit is a step of the serial writer, on a task that is there.
LEMMA CommitFollows ==
  ASSUME ParInv, NEW accept \in BOOLEAN, Commit(accept)
  PROVE  EmitChunk(accept) /\ committed + 1 <= Len(tasks) /\ tasks' = tasks
<1> DEFINE r == committed + 1
<1>1. /\ phase = "create" /\ ~pendingGc.some /\ committed < Len(pieces) /\ ~MayDispatch
      /\ tasks[r].state = "done" /\ tasks' = tasks
      /\ WriteData(CompressParallel(g, tasks[r].cand, tasks[r].snap, tasks[r].epoch,
                                    HeadChunk, accept))
  BY DEF Commit
<1>2. committed \in Nat /\ Len(pieces) \in Nat /\ Len(tasks) \in Nat /\ g.lag \in Nat /\ g.lag > 1
  BY PieceFacts DEF ParInv
<1>3. r \in 1 .. Len(tasks) /\ r \in 1 .. Len(pieces)
  BY <1>1, <1>2 DEF MayDispatch, DispatchTail
<1>4. tasks[r] \in Task /\ TaskOK(tasks[r], pieces[r], g)
  BY <1>3 DEF ParInv
<1>5. GrammarOK(g) /\ HeadChunk = pieces[r] /\ pieces[r] \in Seq(Literal)
  BY <1>1, <1>3, PieceFacts DEF ParInv, SerialInv, HeadChunk
<1> DEFINE t == tasks[r]
           raw == pieces[r]
<1>6. t \in Task /\ TaskOK(t, raw, g) /\ t.state = "done" /\ raw \in Seq(Literal) /\ GrammarOK(g)
  BY <1>1, <1>4, <1>5
<1> HIDE DEF t, raw
<1>7. CompressParallel(g, t.cand, t.snap, t.epoch, raw, accept) = Compress(g, raw, accept)
  BY <1>6, SameChunk
<1>8. WriteData(Compress(g, HeadChunk, accept))
  BY <1>1, <1>5, <1>7 DEF t, raw
<1> QED
  BY <1>1, <1>2, <1>3, <1>8 DEF EmitChunk

\* A step of the writer leaves the tasks right: within an epoch the table only grows, and
\* a remap ends the epoch of every task there is.
LEMMA WriterKeepsTasks ==
  ASSUME ParInv, [Next]_vars, tasks' = tasks, committed <= committed', committed' <= Len(tasks)
  PROVE  ParInv'
<1>1. SerialInv /\ SerialInv' /\ g.gcEpoch \in Nat /\ tasks \in Seq(Task) /\ Len(tasks) \in Nat
  BY SerialStep DEF ParInv
<1>2. g'.gcEpoch \in Nat /\ g.gcEpoch <= g'.gcEpoch /\ g'.lag = g.lag
  BY <1>1, EpochGrows
<1>3. pieces' = pieces
  BY DEF Next, EmitChunk, WriteData, EmitGc, Close, vars
<1>4. committed \in Nat /\ committed' \in Nat
  <2>1. committed \in 0 .. Len(pieces) /\ committed' \in 0 .. Len(pieces')
    BY <1>1 DEF SerialInv
  <2> QED
    BY <2>1
<1>5. Cardinality(Running') <= Jobs
  BY DEF ParInv, Running
<1>6. ASSUME NEW r \in 1 .. Len(tasks) PROVE TaskOK(tasks[r], pieces[r], g')
  <2> DEFINE t == tasks[r]
  <2>1. t \in Task /\ TaskOK(t, pieces[r], g)
    BY <1>1, <1>6 DEF ParInv
  <2>2. t.epoch \in Nat /\ t.snap \in Nat
    BY <2>1, AlphabetFacts DEF Task
  <2> HIDE DEF t
  <2>3. t.epoch <= g'.gcEpoch
    BY <1>1, <1>2, <2>1, <2>2 DEF TaskOK
  <2>4. ASSUME t.epoch = g'.gcEpoch
        PROVE  t.snap <= Len(g'.rules) /\ t.prefix = SubSeq(g'.rules, 1, t.snap)
    <3>1. t.epoch = g.gcEpoch /\ g'.gcEpoch = g.gcEpoch
      BY <1>1, <1>2, <2>1, <2>2, <2>4 DEF TaskOK
    <3>2. t.snap <= Len(g.rules) /\ t.prefix = SubSeq(g.rules, 1, t.snap)
      BY <2>1, <3>1 DEF TaskOK
    <3>3. g.rules \in Table /\ Extends(g.rules, g'.rules) /\ g'.rules \in Table
      BY <1>1, <3>1, EpochStep
    <3> DEFINE n == t.snap
               more == g'.rules
    <3>4. /\ g.rules \in Table /\ more \in Table /\ Extends(g.rules, more)
          /\ n \in Nat /\ n <= Len(g.rules)
      BY <2>2, <3>2, <3>3
    <3> HIDE DEF n, more
    <3>5. n <= Len(more) /\ SubSeq(more, 1, n) = SubSeq(g.rules, 1, n)
      BY <3>4, PrefixKept
    <3> QED
      BY <3>2, <3>5 DEF n, more
  <2>5. t.state = "done" => t.cand = ForkCandidate(t.prefix, pieces[r])
    BY <2>1 DEF TaskOK
  <2> QED
    BY <2>3, <2>4, <2>5 DEF TaskOK, t
<1>7. Len(tasks) <= committed' + g'.lag
  BY <1>1, <1>2, <1>4 DEF ParInv
<1> QED
  BY <1>1, <1>2, <1>3, <1>5, <1>6, <1>7 DEF ParInv

\* Handing out the next chunk: the worker's clone is the prefix of the table that the
\* chunk may look back to.
LEMMA DispatchKeeps ==
  ASSUME ParInv, Dispatch
  PROVE  ParInv'
<1> DEFINE n == Len(tasks)
           snap == SnapshotLenAt(g, n)
           prefix == RulesPrefix(g, n)
           t == [state |-> "queued", snap |-> snap, epoch |-> g.gcEpoch, prefix |-> prefix,
                 cand |-> None]
<1>1. /\ phase = "create" /\ n < Len(pieces) /\ n < committed + g.lag
      /\ tasks' = Append(tasks, t) /\ UNCHANGED vars
  BY DEF Dispatch, DispatchTail, MayDispatch
<1>2. /\ SerialInv /\ tasks \in Seq(Task) /\ n \in Nat /\ g.lag \in Nat /\ g.gcEpoch \in Nat
      /\ committed \in Nat /\ Len(pieces) \in Nat /\ committed <= n
  BY PieceFacts DEF ParInv
<1>3. GrammarOK(g)
  BY <1>1, <1>2 DEF SerialInv
<1>4. g.rules \in Table /\ Len(g.rules) \in Nat /\ Len(g.rules) <= MaxRules /\ MaxRules \in Nat
  BY <1>3, TableLength, AlphabetFacts DEF GrammarOK, BooksOK
<1>5. snap \in Nat /\ snap <= Len(g.rules)
  <2>1. snap \in g.epochBaseLen .. Len(g.rules) /\ snap \in Nat
    BY <1>2, <1>3, SnapshotFacts
  <2> HIDE DEF snap
  <2> QED
    BY <1>4, <2>1
<1>6. prefix = SubSeq(g.rules, 1, snap)
  <2>1. prefix = SubSeq(g.rules, 1, IF snap < Len(g.rules) THEN snap ELSE Len(g.rules))
    BY DEF RulesPrefix
  <2> HIDE DEF snap
  <2>2. (IF snap < Len(g.rules) THEN snap ELSE Len(g.rules)) = snap
    BY <1>4, <1>5
  <2> QED
    BY <2>1, <2>2
<1>7. prefix \in Table
  <2> HIDE DEF snap, prefix
  <2>1. snap \in 0 .. Len(g.rules)
    BY <1>4, <1>5
  <2> QED
    BY <1>4, <1>6, <2>1, TablePrefix
<1> HIDE DEF snap, prefix
<1>8. t \in Task
  BY <1>2, <1>4, <1>5, <1>7 DEF Task, Candidates
<1>9. TaskOK(t, pieces[n + 1], g)
  BY <1>2, <1>5, <1>6 DEF TaskOK
<1>10. t.state = "queued"
  OBVIOUS
<1> HIDE DEF t
<1>11. /\ tasks' \in Seq(Task) /\ Len(tasks') = n + 1 /\ tasks'[n + 1] = t
       /\ \A r \in 1 .. n : tasks'[r] = tasks[r]
  <2> HIDE DEF Task
  <2> QED
    BY <1>1, <1>2, <1>8
<1>12. Running' = Running
  <2>1. Running' = {r \in 1 .. Len(tasks') : tasks'[r].state = "running"}
    BY DEF Running
  <2>2. tasks'[n + 1].state # "running"
    BY <1>10, <1>11
  <2> QED
    BY <1>2, <1>11, <2>1, <2>2 DEF Running
<1>13. \A r \in 1 .. n + 1 : TaskOK(tasks'[r], pieces[r], g)
  BY <1>2, <1>9, <1>11 DEF ParInv
<1>14. UNCHANGED <<pieces, committed, g, phase, pendingGc, stream>>
  BY <1>1 DEF vars
<1>15. SerialInv'
  BY <1>1, <1>2, SerialStep
<1>16. n + 1 <= Len(pieces) /\ n + 1 <= committed + g.lag /\ committed <= n + 1
  BY <1>1, <1>2
<1>17. Cardinality(Running') <= Jobs
  BY <1>12 DEF ParInv
<1> QED
  BY <1>11, <1>13, <1>14, <1>15, <1>16, <1>17 DEF ParInv

\* A worker's step changes one task.
LEMMA TaskKeeps ==
  ASSUME ParInv, UNCHANGED vars, NEW r \in 1 .. Len(tasks), NEW t \in Task,
         tasks' = [tasks EXCEPT ![r] = t], TaskOK(t, pieces[r], g),
         Cardinality(Running') <= Jobs
  PROVE  ParInv'
<1>1. /\ tasks' \in Seq(Task) /\ Len(tasks') = Len(tasks) /\ tasks'[r] = t
      /\ \A s \in 1 .. Len(tasks) : s # r => tasks'[s] = tasks[s]
  <2>1. tasks \in Seq(Task)
    BY DEF ParInv
  <2> HIDE DEF Task
  <2> QED
    BY <2>1
<1>2. \A s \in 1 .. Len(tasks) : TaskOK(tasks'[s], pieces[s], g)
  BY <1>1 DEF ParInv
<1>3. UNCHANGED <<pieces, committed, g, phase, pendingGc, stream>>
  BY DEF vars
<1>4. SerialInv'
  BY SerialStep DEF ParInv
<1> QED
  BY <1>1, <1>2, <1>3, <1>4 DEF ParInv

\* A worker takes a task.
LEMMA StartKeeps ==
  ASSUME ParInv, NEW r \in 1 .. Len(tasks), StartTask(r)
  PROVE  ParInv'
<1> DEFINE old == tasks[r]
           t == [old EXCEPT !.state = "running"]
<1>1. /\ old.state = "queued" /\ Cardinality(Running) < Jobs
      /\ tasks' = [tasks EXCEPT ![r] = t] /\ UNCHANGED vars
  BY DEF StartTask
<1>2. tasks \in Seq(Task) /\ old \in Task /\ TaskOK(old, pieces[r], g) /\ Len(tasks) \in Nat
  BY DEF ParInv
<1>3. /\ t \in Task /\ t.state = "running" /\ t.prefix = old.prefix /\ t.epoch = old.epoch
      /\ t.snap = old.snap
  BY <1>2 DEF Task
<1>4. TaskOK(t, pieces[r], g)
  BY <1>2, <1>3 DEF TaskOK
<1> HIDE DEF t
<1>5. Running' = Running \cup {r}
  <2>1. /\ Len(tasks') = Len(tasks) /\ tasks'[r] = t
        /\ \A s \in 1 .. Len(tasks) : s # r => tasks'[s] = tasks[s]
    <3> HIDE DEF Task
    <3> QED
      BY <1>1, <1>2
  <2>2. Running' = {s \in 1 .. Len(tasks') : tasks'[s].state = "running"}
    BY DEF Running
  <2> QED
    BY <1>3, <2>1, <2>2 DEF Running
<1>6. Cardinality(Running') <= Jobs
  <2>1. IsFiniteSet(Running) /\ Cardinality(Running) \in Nat
    BY <1>2, RunningFinite
  <2>2. r \notin Running
    BY <1>1 DEF Running
  <2>3. Cardinality(Running \cup {r}) = Cardinality(Running) + 1
    BY <2>1, <2>2, FS_AddElement
  <2>4. Jobs \in Nat
    BY JobsAssumption
  <2> QED
    BY <1>1, <1>5, <2>1, <2>3, <2>4
<1> QED
  BY <1>1, <1>3, <1>4, <1>6, TaskKeeps

\* A worker answers.
LEMMA FinishKeeps ==
  ASSUME ParInv, NEW r \in 1 .. Len(tasks), FinishTask(r)
  PROVE  ParInv'
<1> DEFINE old == tasks[r]
           found == ForkCandidate(old.prefix, pieces[r])
           t == [old EXCEPT !.state = "done", !.cand = found]
<1>1. tasks \in Seq(Task) /\ old \in Task /\ TaskOK(old, pieces[r], g) /\ Len(tasks) \in Nat
  BY DEF ParInv
<1>2. /\ old.state = "running" /\ UNCHANGED vars
      /\ tasks' = [tasks EXCEPT ![r].state = "done", ![r].cand = found]
  BY DEF FinishTask
<1>3. tasks' = [tasks EXCEPT ![r] = t]
  <2> HIDE DEF found
  <2> QED
    BY <1>1, <1>2 DEF Task
<1>4. pieces[r] \in Seq(Literal)
  <2>1. r \in 1 .. Len(pieces)
    BY <1>1, PieceFacts DEF ParInv
  <2> QED
    BY <2>1, PieceFacts DEF ParInv
<1>5. found \in Candidates
  <2>1. old.prefix \in Table
    BY <1>1 DEF Task
  <2> QED
    BY <1>4, <2>1 DEF Candidates
<1> HIDE DEF found
<1>6. /\ t \in Task /\ t.state = "done" /\ t.prefix = old.prefix /\ t.epoch = old.epoch
      /\ t.snap = old.snap /\ t.cand = found
  BY <1>1, <1>5 DEF Task
<1>7. TaskOK(t, pieces[r], g)
  BY <1>1, <1>6 DEF TaskOK, found
<1> HIDE DEF t
<1>8. Running' \subseteq Running
  <2>1. /\ Len(tasks') = Len(tasks) /\ tasks'[r] = t
        /\ \A s \in 1 .. Len(tasks) : s # r => tasks'[s] = tasks[s]
    <3> HIDE DEF Task
    <3> QED
      BY <1>1, <1>3
  <2>2. Running' = {s \in 1 .. Len(tasks') : tasks'[s].state = "running"}
    BY DEF Running
  <2> QED
    BY <1>6, <2>1, <2>2 DEF Running
<1>9. Cardinality(Running') <= Jobs
  <2>1. IsFiniteSet(Running) /\ Cardinality(Running) \in Nat
    BY <1>1, RunningFinite
  <2>2. Cardinality(Running') <= Cardinality(Running) /\ IsFiniteSet(Running')
    BY <1>8, <2>1, FS_Subset
  <2>3. Cardinality(Running') \in Nat /\ Jobs \in Nat /\ Cardinality(Running) <= Jobs
    BY <2>2, FS_CardinalityType, JobsAssumption DEF ParInv
  <2> QED
    BY <2>1, <2>2, <2>3
<1> QED
  BY <1>2, <1>3, <1>6, <1>7, <1>9, TaskKeeps

\* Every step of the pool and its writer is a step of the serial writer or invisible.
LEMMA ParSteps ==
  ASSUME ParInv, [ParNext]_parVars
  PROVE  [Next]_vars
<1>1. ASSUME NEW accept \in BOOLEAN, Commit(accept) PROVE Next
  BY <1>1, CommitFollows DEF Next
<1>2. CASE StartSome \/ FinishSome \/ Dispatch \/ ParTerminated \/ UNCHANGED parVars
  BY <1>2 DEF StartSome, StartTask, FinishSome, FinishTask, Dispatch, ParTerminated, parVars
<1>3. CASE WriteGc \/ CloseArchive
  BY <1>3 DEF WriteGc, CloseArchive, Next
<1> QED
  BY <1>1, <1>2, <1>3 DEF ParNext, MainStep

\* The invariant of parallel creation is inductive.
LEMMA ParStep ==
  ASSUME ParInv, [ParNext]_parVars
  PROVE  ParInv'
<1>1. [Next]_vars /\ committed \in Nat /\ Len(tasks) \in Nat /\ committed <= Len(tasks)
  BY ParSteps, PieceFacts DEF ParInv
<1>2. ASSUME tasks' = tasks, committed' = committed PROVE ParInv'
  BY <1>1, <1>2, WriterKeepsTasks
<1>3. CASE Dispatch
  BY <1>3, DispatchKeeps
<1>4. CASE \E accept \in BOOLEAN : Commit(accept)
  <2>1. PICK accept \in BOOLEAN : Commit(accept)
    BY <1>4
  <2>2. EmitChunk(accept) /\ committed + 1 <= Len(tasks) /\ tasks' = tasks
    BY <2>1, CommitFollows
  <2>3. committed' = committed \/ committed' = committed + 1
    <3>1. WriteData(Compress(g, HeadChunk, accept))
      BY <2>2 DEF EmitChunk
    <3> QED
      BY <3>1 DEF WriteData
  <2>4. committed <= committed' /\ committed' <= Len(tasks)
    BY <1>1, <2>2, <2>3
  <2> QED
    BY <1>1, <2>2, <2>4, WriterKeepsTasks
<1>5. CASE WriteGc
  BY <1>2, <1>5 DEF WriteGc, EmitGc
<1>6. CASE CloseArchive
  BY <1>2, <1>6 DEF CloseArchive, Close
<1>7. CASE StartSome
  BY <1>7, StartKeeps DEF StartSome
<1>8. CASE FinishSome
  BY <1>8, FinishKeeps DEF FinishSome
<1>9. CASE ParTerminated \/ UNCHANGED parVars
  BY <1>2, <1>9 DEF ParTerminated, parVars, vars
<1> QED
  BY <1>3, <1>4, <1>5, <1>6, <1>7, <1>8, <1>9 DEF ParNext, MainStep

\* Nothing has been handed out at the start.
LEMMA ParStart ==
  ASSUME ParInit
  PROVE  ParInv
<1>1. SerialInv /\ committed = 0 /\ phase = "create"
  BY StartFacts DEF ParInit, Init
<1>2. GrammarOK(g) /\ g.lag > 1 /\ tasks = <<>>
  BY <1>1 DEF ParInit, SerialInv
<1>3. g.lag \in Nat /\ g.gcEpoch \in Nat
  BY <1>2 DEF GrammarOK, CountersOK
<1>4. tasks \in Seq(Task) /\ Len(tasks) = 0
  BY <1>2
<1>5. Cardinality(Running) <= Jobs
  <2>1. Running = {}
    BY <1>4 DEF Running
  <2>2. Cardinality({}) = 0
    BY FS_EmptySet
  <2>3. Jobs \in Nat
    BY JobsAssumption
  <2> QED
    BY <2>1, <2>2, <2>3
<1>6. Len(pieces) \in Nat
  BY <1>1, PieceFacts
<1> QED
  BY <1>1, <1>2, <1>3, <1>4, <1>5, <1>6 DEF ParInv

\* The invariant holds whatever order the workers run in.
THEOREM ParInvariant == ParSpec => []ParInv
<1>1. ParInit => ParInv
  BY ParStart
<1>2. ParInv /\ [ParNext]_parVars => ParInv'
  BY ParStep
<1> QED
  BY <1>1, <1>2, PTL DEF ParSpec

\* Archives do not depend on the number of workers: for every number of threads, every lag
\* and every order of the pool, what is written is what the serial writer may write.
THEOREM ParallelIsSerial == ParSpec => SameAsSerial
<1>1. ParInit => Init
  BY DEF ParInit
<1>2. ParInv /\ [ParNext]_parVars => [Next]_vars
  BY ParSteps
<1> QED
  BY <1>1, <1>2, ParInvariant, PTL DEF ParSpec, SameAsSerial, Spec

\* The types of tasks and table, and the pool's size.
THEOREM ParallelTypes == ParSpec => []ParTypeOK
<1>1. ParInv => ParTypeOK
  <2> SUFFICES ASSUME ParInv PROVE ParTypeOK
    OBVIOUS
  <2>1. committed \in 0 .. Len(pieces) /\ Len(pieces) \in Nat
    BY PieceFacts DEF ParInv, SerialInv
  <2>2. tasks \in Seq(Task) /\ Len(tasks) \in 0 .. Len(pieces)
    BY <2>1 DEF ParInv
  <2>3. \A r \in 1 .. Len(tasks) : tasks[r] \in Task
    BY <2>2
  <2>4. g.rules \in Table
    BY DEF ParInv, SerialInv, GrammarOK, BooksOK, Stopped
  <2> QED
    BY <2>1, <2>2, <2>3, <2>4 DEF ParTypeOK, ParInv, Task
<1> QED
  BY <1>1, ParInvariant, PTL

\* No clone is overtaken within its epoch: an uncommitted task still holds exactly the
\* prefix of the live table that its snapshot names.
THEOREM PrefixesStayFrozen == ParSpec => []FrozenPrefix
<1>1. ParInv => FrozenPrefix
  <2> SUFFICES ASSUME ParInv, phase = "create", NEW r \in committed + 1 .. Len(tasks),
                      tasks[r].epoch = g.gcEpoch
               PROVE  Len(tasks[r].prefix) = tasks[r].snap /\ IsPrefix(tasks[r].prefix, g.rules)
    BY DEF FrozenPrefix
  <2> DEFINE t == tasks[r]
             n == t.snap
  <2>1. committed \in Nat /\ tasks \in Seq(Task) /\ Len(tasks) \in Nat
    BY PieceFacts DEF ParInv
  <2>2. r \in 1 .. Len(tasks)
    BY <2>1
  <2>3. t \in Task /\ n <= Len(g.rules) /\ t.prefix = SubSeq(g.rules, 1, n)
    BY <2>1, <2>2 DEF ParInv, TaskOK
  <2>4. g.rules \in Table /\ Len(g.rules) \in Nat
    BY TableLength DEF ParInv, SerialInv, GrammarOK, BooksOK
  <2>5. n \in 0 .. Len(g.rules)
    BY <2>3, <2>4, AlphabetFacts DEF Task
  <2> HIDE DEF t, n
  <2>6. Len(t.prefix) = n /\ t.prefix \in Table
    BY <2>3, <2>4, <2>5, TablePrefix
  <2>7. SubSeq(t.prefix, 1, Len(t.prefix)) = t.prefix
    BY <2>6, TableLength
  <2>8. IsPrefix(t.prefix, g.rules)
    BY <2>3, <2>4, <2>5, <2>6, <2>7 DEF IsPrefix
  <2> QED
    BY <2>6, <2>8 DEF t, n
<1> QED
  BY <1>1, ParInvariant, PTL

\* Discovery never runs more than lag chunks ahead of the commits, nor behind them.
THEOREM WindowStaysBounded == ParSpec => []WindowBound
<1>1. ParInv => WindowBound
  BY DEF ParInv, WindowBound, DispatchTail
<1> QED
  BY <1>1, ParInvariant, PTL

============================================================================
