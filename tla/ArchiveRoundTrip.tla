------------------------- MODULE ArchiveRoundTrip -------------------------
(***************************************************************************)
(* An archive created serially and then extracted.  The reader can open a  *)
(* file only once its footer is there; it walks the DATA records in order, *)
(* applies the GC records that stand before a chunk, and compares every    *)
(* chunk with its hash (`cmd_extract`, `decode_payload`, `decompress`).    *)
(* A GC record behind the last chunk is parsed and never applied.          *)
(***************************************************************************)
EXTENDS SerialCreate

VARIABLES
  tables,   \* history: the encoder's rules at every record boundary
  dec       \* the reader: its rules, model, position in the stream, output, verdict

allVars == <<vars, tables, dec>>

RoundTripInit ==
  /\ Init
  /\ tables = <<g.rules>>
  /\ dec = [rules |-> g.rules, model |-> [FreshModel EXCEPT !.n = NLit + Len(g.rules)],
            pos |-> 0, out |-> <<>>, verdict |-> "reading"]

----------------------------------------------------------------------------
(* The writer, with the history of its table. *)

Emit(accept) ==
  /\ EmitChunk(accept)
  /\ tables' = IF phase' = "panicked" THEN tables
               ELSE Append(tables, Compress(g, HeadChunk, accept).rules)
  /\ UNCHANGED dec

EmitRemap == EmitGc /\ tables' = Append(tables, g.rules) /\ UNCHANGED dec

Finalize == Close /\ UNCHANGED <<tables, dec>>

----------------------------------------------------------------------------
(* The reader. *)

Fail == dec' = [dec EXCEPT !.verdict = "error"]

DataLeft == \E k \in dec.pos + 1 .. Len(stream) : stream[k].kind # "GC"

\* `decompress`.  The table grows before any token is looked at; the token loop of the
\* arithmetic decoder reads `rec.tokens` only if the model went through `rec.under`.
Decompress(d, rec) ==
  LET grown == d.rules \o rec.defs
      model == Code(BeginChunk(d.model), NLit + Len(grown), rec.tokens)
      ok    == /\ Len(rec.defs) <= MaxRules
               /\ \A i \in Len(d.rules) + 1 .. Len(grown) : RuleOK(grown, i)
               /\ Len(grown) <= MaxRules         \* the assertion in grow
               /\ Len(rec.tokens) <= Len(rec.hash) + 1
               /\ model.coded = rec.under
               /\ \A k \in 1 .. Len(rec.tokens) : Known(grown, rec.tokens[k])
  IN  [ok |-> ok, rules |-> grown, model |-> model,
       raw |-> IF ok THEN Unfold(rec.tokens, grown) ELSE <<>>]

ReadBlock(rec) ==
  LET d == Decompress(dec, rec)
  IN  IF d.ok /\ d.raw = rec.hash
      THEN dec' = [dec EXCEPT !.rules = d.rules, !.model = d.model,
                              !.pos = @ + 1, !.out = Append(@, d.raw)]
      ELSE Fail

ReadStateless(rec) == dec' = [dec EXCEPT !.pos = @ + 1, !.out = Append(@, rec.hash)]

\* Faulty variant: a GC record is parsed and skipped.
ReadGcIgnored(rec) == dec' = [dec EXCEPT !.pos = @ + 1]

ReadGc(rec) ==
  IF RemapOK(dec.rules, rec.survivors)
  THEN dec' = [dec EXCEPT !.rules = Remap(@, rec.survivors),
                          !.model = ShrinkAlphabet(@, NLit + Len(rec.survivors)),
                          !.pos   = @ + 1]
  ELSE Fail

Extract ==
  /\ phase = "closed" /\ dec.verdict = "reading"
  /\ DataLeft
  /\ LET rec == stream[dec.pos + 1]
     IN  \/ rec.kind = "S" /\ ReadStateless(rec)
         \/ rec.kind = "G" /\ ReadBlock(rec)
         \/ rec.kind = "GC" /\ ReadGc(rec)
  /\ UNCHANGED <<vars, tables>>

ExtractDone ==
  /\ phase = "closed" /\ dec.verdict = "reading"
  /\ ~DataLeft
  /\ dec' = [dec EXCEPT !.verdict = "done"]
  /\ UNCHANGED <<vars, tables>>

Terminated ==
  /\ phase = "panicked" \/ dec.verdict \in {"done", "error"}
  /\ UNCHANGED allVars

RoundTripNext ==
  \/ \E accept \in BOOLEAN : Emit(accept)
  \/ EmitRemap \/ Finalize
  \/ Extract \/ ExtractDone
  \/ Terminated

RoundTripSpec == RoundTripInit /\ [][RoundTripNext]_allVars

----------------------------------------------------------------------------
(* Properties of the archive. *)

\* The reader never fails on an archive that was written to its end, and what it has
\* decoded is a prefix of the chunks, all of them when it stops (`decompress` after
\* any run of accepts, rejects and GC remaps in `compress`).
RoundTrip ==
  /\ dec.verdict # "error"
  /\ dec.out = SubSeq(pieces, 1, Len(dec.out))
  /\ dec.verdict = "done" => dec.out = pieces

\* The writer's records and the reader's steps are a run of the GrammarSync protocol.
Sync == INSTANCE GrammarSync WITH
  Records    <- {},
  MaxRecords <- 0,
  stream     <- [k \in 1 .. Len(stream) |->
                   [kind      |-> stream[k].kind,
                    defs      |-> stream[k].defs,
                    tokens    |-> stream[k].tokens,
                    survivors |-> stream[k].survivors]],
  decoded    <- dec.pos,
  decRules   <- dec.rules,
  verdict    <- IF dec.verdict = "error" THEN "error" ELSE "ok"

FollowsProtocol == Sync!Protocol

----------------------------------------------------------------------------
(* Properties of the encoder's own books, at every record boundary. *)

\* Types of the writer's and the reader's state; both tables are closed rule tables.
TypeOK ==
  /\ committed \in 0 .. Len(pieces)
  /\ phase \in {"create", "closed", "panicked"}
  /\ g.rules \in Table
  /\ DOMAIN g.pairIndex \subseteq Pair
  /\ g.rulesBefore \in 0 .. Len(g.rules)
  /\ g.seq \in committed .. committed + 1
  /\ dec.pos \in 0 .. Len(stream)
  /\ dec.rules \in Table
  /\ dec.verdict \in {"reading", "done", "error"}

\* Between chunks the parallel books of the encoder agree: every rule has a last-use
\* slot, the model's alphabet is exactly the table's, and no key is left staged
\* (resize in accept_or_reject, truncate in reject_chunk, remap in apply_gc).
BooksAgree ==
  phase # "panicked" =>
    /\ Len(g.lastUse) = Len(g.rules)
    /\ g.model.n = NLit + Len(g.rules)
    /\ g.staged = {}

\* Between chunks pair_index and the trie name exactly live rules: an entry's symbol is
\* a rule with that pair or that phrase, and every rule's pair and every phrase within
\* the cap is found.  A rejected or remapped rule must leave neither.
IndexSound ==
  phase # "panicked" =>
    LET phrases == Phrases(g.rules)
    IN  /\ DOMAIN g.pairIndex = {g.rules[i] : i \in 1 .. Len(g.rules)}
        /\ \A p \in DOMAIN g.pairIndex : g.rules[Position(g.pairIndex[p])] = p
        /\ DOMAIN g.trie = {phrases[i] : i \in 1 .. Len(g.rules)} \ {<<>>}
        /\ \A w \in DOMAIN g.trie : phrases[Position(g.trie[w])] = w

\* The G blocks written since the previous GC attempt, and the phrases they used.
WindowBlocks ==
  {k \in 1 .. Len(stream) : /\ stream[k].kind = "G"
                            /\ \A j \in k .. Len(stream) : stream[j].kind # "GC"
                            /\ Cardinality({j \in k .. Len(stream) : stream[j].kind # "GC"})
                                 <= g.gcInterval}

RulesUsed(rec) == {t \in Symbol \ Literal : \E q \in 1 .. Len(rec.tokens) : rec.tokens[q] = t}

UsedPhrases ==
  UNION {{Unfold(<<t>>, tables[k + 1]) : t \in RulesUsed(stream[k])} : k \in WindowBlocks}

\* A GC record never takes away a phrase that a block of the closing window was coded
\* with: after the remap some rule still stands for it (`gc_attempt`, `live_closure`,
\* the marks of `accept_or_reject`).
UsedPhrasesSurvive ==
  pendingGc.some =>
    UsedPhrases \subseteq {Expansions(g.rules)[i] : i \in 1 .. Len(g.rules)}

\* A snapshot never reaches past the live table, so the prefix a fork reads is one the
\* live table still has.
SnapshotsWithinTable ==
  phase # "panicked" =>
    /\ g.epochBaseLen <= Len(g.rules)
    /\ \A i \in 1 .. Len(g.snapshotLens) : g.snapshotLens[i] \in g.epochBaseLen .. Len(g.rules)
    /\ \A i, j \in 1 .. Len(g.snapshotLens) : i < j => g.snapshotLens[i] <= g.snapshotLens[j]

\* Within one epoch rules are only ever appended: what a worker cloned stays a prefix.
PrefixStable ==
  [][g'.gcEpoch = g.gcEpoch => IsPrefix(g.rules, g'.rules)]_allVars

\* "lag=1 collapses to 'snapshot == live grammar' on every chunk" (grammar.rs, the test
\* lag_one_is_byte_identical_to_legacy_with_gc): the next chunk looks at the live table.
LagOneIsLive ==
  g.lag = 1 /\ phase = "create" => SnapshotLenAt(g, committed) = Len(g.rules)
============================================================================
