--------------------------- MODULE SerialCreate ---------------------------
(***************************************************************************)
(* `aahl create` with one job: `emit_serial` of src/src/main.rs feeds the  *)
(* unique chunks to the grammar in first-seen order and writes one DATA    *)
(* record each, with a GC record behind it whenever the grammar was        *)
(* compacted; the entry table and the footer close the archive.            *)
(***************************************************************************)
EXTENDS PersistentGrammar

CONSTANTS
  PieceLists,  \* the lists of unique chunks considered
  Lags, GcIntervals,  \* the snapshot lags and GC intervals considered
  SeedTables   \* the dictionaries considered; <<>> is "no dictionary"

ASSUME CreateAssumption ==
  /\ \A list \in PieceLists :
       /\ list \in Seq(Seq(Literal) \ {<<>>})
       /\ \A i, j \in DOMAIN list : list[i] = list[j] => i = j
  /\ Lags \subseteq 1 .. 1024 /\ GcIntervals \subseteq 1 .. 4096
  /\ SeedTables \subseteq Table

VARIABLES
  pieces,      \* the unique chunks (`Gather.pieces`: duplicates are references)
  committed,   \* how many of them have been compressed and written
  g,           \* the encoder's PersistentGrammar
  pendingGc,   \* a GC record compress has returned and the writer has yet to write
  stream,      \* the records written
  phase        \* "create", "closed" (footer written) or "panicked"

vars == <<pieces, committed, g, pendingGc, stream, phase>>

DataRecord(block, raw) ==
  [kind |-> block.kind, hash |-> raw, defs |-> block.defs, tokens |-> block.tokens,
   under |-> block.under, survivors |-> <<>>]

GcRecord(survivors) ==
  [kind |-> "GC", hash |-> <<>>, defs |-> <<>>, tokens |-> <<>>,
   under |-> <<>>, survivors |-> survivors]

Init ==
  /\ pieces \in PieceLists
  /\ committed = 0
  /\ \E seed \in SeedTables, lag \in Lags, gcInterval \in GcIntervals :
       g = IF seed = <<>> THEN FreshGrammar(lag, gcInterval)
           ELSE SeedRules(FreshGrammar(lag, gcInterval), seed)
  /\ pendingGc = NoGc
  /\ stream = <<>>
  /\ phase = "create"

\* The head chunk, and what its compression leaves behind.
HeadChunk == pieces[committed + 1]

WriteData(c) ==
  /\ g' = c.g
  /\ IF c.panic
     THEN phase' = "panicked" /\ UNCHANGED <<committed, pendingGc, stream>>
     ELSE /\ committed' = committed + 1
          /\ pendingGc' = c.gc
          /\ stream' = Append(stream, DataRecord(c.block, HeadChunk))
          /\ UNCHANGED phase
  /\ UNCHANGED pieces

EmitChunk(accept) ==
  /\ phase = "create" /\ ~pendingGc.some /\ committed < Len(pieces)
  /\ WriteData(Compress(g, HeadChunk, accept))

EmitGc ==
  /\ phase = "create" /\ pendingGc.some
  /\ stream' = Append(stream, GcRecord(pendingGc.survivors))
  /\ pendingGc' = NoGc
  /\ UNCHANGED <<pieces, committed, g, phase>>

Close ==
  /\ phase = "create" /\ ~pendingGc.some /\ committed = Len(pieces)
  /\ phase' = "closed"
  /\ UNCHANGED <<pieces, committed, g, pendingGc, stream>>

Next == (\E accept \in BOOLEAN : EmitChunk(accept)) \/ EmitGc \/ Close

Spec == Init /\ [][Next]_vars

\* A candidate that cannot be rebound is answered with None and the chunk is rejected
\* (grammar.rs, comment of commit_candidate): compression never panics.
NoPanic == phase # "panicked"
============================================================================
