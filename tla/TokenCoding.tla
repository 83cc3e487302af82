----------------------------- MODULE TokenCoding -----------------------------
(***************************************************************************)
(* The coding of G blocks over a whole archive: a writer whose model is    *)
(* grown, fed, rolled back and shrunk (grammar.rs try_compress,            *)
(* reject_chunk, apply_gc), and a reader that has only the records         *)
(* (grammar.rs decompress).  PersistentGrammar shows which tokens and      *)
(* rules reach these operations; here any are allowed, and the coded       *)
(* digits are real.                                                        *)
(***************************************************************************)
EXTENDS TokenModel, TLC

CONSTANTS MaxRecords,   \* bound: records in the archive
          MaxTokens,    \* bound: tokens in one chunk
          MaxNew        \* bound: rules added by one chunk

ASSUME BoundsAssumption == {MaxRecords, MaxTokens, MaxNew} \subseteq Nat

\* No node of a tree wraps: a row's total is at most its alphabet and the tokens coded,
\* and an archive of 2^64 tokens does not exist.
ASSUME TreesFit == MaxSyms + MaxRecords * MaxTokens < Word

VARIABLES
  writer,    \* [model, coder]: the live model and the coder of the open attempt
  open,      \* a chunk is being attempted
  attempt,   \* the tokens coded since begin_chunk
  before,    \* the writer's model after the last finished chunk or GC
  records,   \* the archive: G blocks and GC records
  reader,    \* [model, coder, tokens, ok]
  read       \* records the reader has consumed

vars == <<writer, open, attempt, before, records, reader, read>>

Model  == writer.model
Symbol == 0..(Model.n - 1)

Init ==
  /\ \E mode \in Modes : before = NewModel(NLit, mode)
  /\ writer  = [model |-> before, coder |-> EncoderNew]
  /\ open    = FALSE
  /\ attempt = <<>>
  /\ records = <<>>
  /\ reader  = [model |-> before, coder |-> DecoderNew(<<>>), tokens |-> <<>>, ok |-> TRUE]
  /\ read    = 0

\* The alphabet is grown by the attempt's new rules before the first token is coded.
OpenAttempt(new) ==
  /\ ~open /\ Len(records) < MaxRecords
  /\ Model.n + new <= MaxSyms
  /\ writer'  = [model |-> Grow(BeginChunk(Model), Model.n + new), coder |-> EncoderNew]
  /\ open'    = TRUE
  /\ attempt' = <<>>
  /\ UNCHANGED <<before, records, reader, read>>

CodeToken(s) ==
  /\ open /\ Len(attempt) < MaxTokens
  /\ writer'  = EncodeToken(writer, s)
  /\ attempt' = Append(attempt, s)
  /\ UNCHANGED <<open, before, records, reader, read>>

\* The block holds the number of new rules, the number of tokens and the coded digits.
\* `sent` is not stored: it is what the digits stand for.
Accept ==
  /\ open /\ attempt # <<>>
  /\ records' = Append(records,
       [kind |-> "G", new |-> Model.n - before.n, count |-> Len(attempt),
        blob |-> Flush(writer.coder), sent |-> attempt])
  /\ before'  = Model
  /\ writer'  = [writer EXCEPT !.coder = EncoderNew]
  /\ open'    = FALSE
  /\ attempt' = <<>>
  /\ UNCHANGED <<reader, read>>

\* A chunk that costs more than its plain form is stored without the model.
Reject ==
  /\ open
  /\ writer'  = [model |-> RollbackChunk(Model), coder |-> EncoderNew]
  /\ before'  = writer'.model
  /\ open'    = FALSE
  /\ attempt' = <<>>
  /\ UNCHANGED <<records, reader, read>>

\* GC between two chunks keeps n2 - NLit rules.
Collect(n2) ==
  /\ ~open /\ Len(records) < MaxRecords
  /\ writer'  = [writer EXCEPT !.model = ShrinkAlphabet(@, n2)]
  /\ before'  = writer'.model
  /\ records' = Append(records, [kind |-> "GC", n2 |-> n2])
  /\ UNCHANGED <<open, attempt, reader, read>>

\* The reader of one G block from model m.
DecodeBlock(m, new, count, blob) ==
  LET start == [model |-> Grow(BeginChunk(m), m.n + new), coder |-> DecoderNew(blob),
                tokens |-> <<>>, ok |-> TRUE]
      upto[k \in 0..count] ==
        IF k = 0 THEN start
        ELSE IF upto[k - 1].ok THEN DecodeToken(upto[k - 1]) ELSE upto[k - 1]
  IN  upto[count]

ReadRecord ==
  /\ read < Len(records) /\ reader.ok
  /\ LET rec == records[read + 1]
     IN  reader' = IF rec.kind = "G"
                   THEN DecodeBlock(reader.model, rec.new, rec.count, rec.blob)
                   ELSE [reader EXCEPT !.model = ShrinkAlphabet(@, rec.n2), !.tokens = <<>>]
  /\ read' = read + 1
  /\ UNCHANGED <<writer, open, attempt, before, records>>

Next ==
  \/ \E new \in 0..MaxNew : OpenAttempt(new)
  \/ \E s \in Symbol : CodeToken(s)
  \/ Accept
  \/ Reject
  \/ \E n2 \in NLit..Model.n : Collect(n2)
  \/ ReadRecord

Spec == Init /\ [][Next]_vars
-----------------------------------------------------------------------------
\* What both sides must agree on: everything but the writer's log and rollback point, and
\* the row, which begin_chunk resets.
Shared(m) == [n |-> m.n, rows |-> m.rows]

\* The alphabets stay within the cap, the rows have one count per symbol of it, and the
\* coder's low never needs more than one digit of carry.
TypeOK ==
  /\ \A m \in {Model, reader.model} :
       /\ m.n \in NLit..MaxSyms /\ m.ctx \in Rows(m)
       /\ Rows(m) = 0..Sentinel(m.mode)
       /\ \A c \in Rows(m) : /\ DOMAIN m.rows[c].counts = 0..(m.n - 1)
                          /\ m.rows[c].tree \in [1..MaxSyms -> 0..(Word - 1)]
  /\ writer.coder.low \in 0..(2 * Full - 1)
  /\ \A i \in 1..Len(writer.coder.out) : writer.coder.out[i] \in 0..(Digit - 1)
  /\ read \in 0..Len(records)

\* After any mix of growth, coding, rollback and shrinking, each row's counts, its Fenwick
\* tree and its total describe the same distribution, and the columns beyond the alphabet
\* weigh nothing: a leftover there would be a symbol the reader can decode but not name.
BooksBalance ==
  \A m \in {Model, reader.model} : \A c \in Rows(m) :
    /\ TableBalanced(m.rows[c])
    /\ FenwickPrefix(m.rows[c].tree, MaxSyms) = m.rows[c].total

\* At every point of an attempt a rollback would restore the model exactly as the attempt
\* found it, whatever was grown and coded since: a rejected chunk leaves no footprint.
UndoIsExact == open => Shared(RollbackChunk(Model)) = Shared(before)

\* At every point of an attempt the digits that a flush would produce decode, from the
\* model the reader will have, to exactly the tokens coded so far, and the reader consumes
\* exactly the digits written: no carry is lost in a run of maximal digits.
StreamDecodes ==
  open => LET blob == Flush(writer.coder)
              r    == DecodeBlock(before, Model.n - before.n, Len(attempt), blob)
          IN  /\ r.ok /\ r.tokens = attempt
              /\ r.coder.pos = Len(blob)

\* The reader never fails, recovers each block's tokens, and when it has read everything
\* its model is the writer's committed model, count for count and node for node.
ReaderInSync ==
  /\ reader.ok
  /\ read > 0 /\ records[read].kind = "G" => reader.tokens = records[read].sent
  /\ read = Len(records) => Shared(reader.model) = Shared(before)

\* Every symbol of the alphabet keeps a positive share of the range ("still has
\* probability > 0", arith.rs:436): coding it leaves the coder able to go on.
NoZeroProbability ==
  open => \A s \in Symbol : EncodeToken(writer, s).coder.range > 0
=============================================================================
