---------------------------- MODULE GrammarSync ----------------------------
(***************************************************************************)
(* What the persistent grammar promises: a writer that never shows its     *)
(* table to anyone, and a reader that sees only the record stream, hold    *)
(* the same rule table at every record boundary.                           *)
(*                                                                         *)
(* The writer appends records of three kinds.  "S" is a stateless block,   *)
(* which does not touch the grammar; "G" is a grammar block carrying the   *)
(* rules it invented and the tokens of its chunk; "GC" is a garbage        *)
(* collection record listing the rules that survive.  The reader applies   *)
(* them in stream order with the checks of `decompress` and `apply_gc`.    *)
(***************************************************************************)
EXTENDS GrammarTable

CONSTANTS
  SeedTables,  \* the tables a grammar may start from: empty, or a dictionary's rules
  Records,     \* the records a writer may consider (all of Record, or a finite part)
  MaxRecords   \* bound on the stream

\* A record carries the fields of every kind; those of another kind are empty.
Record == [kind      : {"S", "G", "GC"},
           defs      : Seq(Pair),
           tokens    : Seq(Symbol),
           survivors : Seq(Nat)]

ASSUME SyncAssumption ==
  /\ SeedTables \subseteq Table
  /\ Records \subseteq Record
  /\ MaxRecords \in Nat

VARIABLES
  stream,    \* the records written so far
  tables,    \* history: tables[k + 1] is the writer's table after k records
  decoded,   \* how many records the reader has applied
  decRules,  \* the reader's table
  verdict    \* "ok", or "error" once a check of the reader failed

vars == <<stream, tables, decoded, decRules, verdict>>

EncRules == tables[Len(stream) + 1]

----------------------------------------------------------------------------
(* The writer. *)

\* What the encoder may write when its table is `rules`.
MayWrite(rules, rec) ==
  /\ rec.kind = "G" =>
       /\ Len(rules) + Len(rec.defs) <= MaxRules
       /\ Closed(rules \o rec.defs)
       /\ \A k \in 1 .. Len(rec.tokens) : Known(rules \o rec.defs, rec.tokens[k])
  /\ rec.kind = "GC" => Len(rec.survivors) < Len(rules) /\ RemapOK(rules, rec.survivors)

\* The table that a record leaves.
After(rules, rec) ==
  IF rec.kind = "G" THEN rules \o rec.defs
  ELSE IF rec.kind = "GC" THEN Remap(rules, rec.survivors)
  ELSE rules

Write(rec) ==
  /\ Len(stream) < MaxRecords
  /\ MayWrite(EncRules, rec)
  /\ stream' = Append(stream, rec)
  /\ tables' = Append(tables, After(EncRules, rec))
  /\ UNCHANGED <<decoded, decRules, verdict>>

----------------------------------------------------------------------------
(* The reader. *)

\* Faulty variant: the forward-reference check forgets the rules already there.
AcceptsBaseless(rules, rec) ==
  /\ rec.kind = "G"  => \A i \in 1 .. Len(rec.defs) : RuleOK(rec.defs, i)
  /\ rec.kind = "GC" => RemapOK(rules, rec.survivors)

\* What the decoder checks before it lets a record touch its table.
Accepts(rules, rec) ==
  /\ rec.kind = "G" =>
       /\ Len(rec.defs) <= MaxRules
       /\ \A i \in 1 .. Len(rec.defs) : RuleOK(rules \o rec.defs, Len(rules) + i)
       /\ \A k \in 1 .. Len(rec.tokens) : Known(rules \o rec.defs, rec.tokens[k])
  /\ rec.kind = "GC" => RemapOK(rules, rec.survivors)

Read ==
  /\ decoded < Len(stream)
  /\ verdict = "ok"
  /\ LET rec == stream[decoded + 1]
     IN  IF Accepts(decRules, rec)
         THEN decRules' = After(decRules, rec) /\ decoded' = decoded + 1 /\ UNCHANGED verdict
         ELSE verdict' = "error" /\ UNCHANGED <<decRules, decoded>>
  /\ UNCHANGED <<stream, tables>>

----------------------------------------------------------------------------
Init ==
  /\ stream = <<>>
  /\ \E seed \in SeedTables : tables = <<seed>> /\ decRules = seed
  /\ decoded = 0
  /\ verdict = "ok"

Next == Read \/ \E rec \in Records : Write(rec)

Spec == Init /\ [][Next]_vars

\* The same promise without the bound and without a choice of records, for the
\* specifications that implement it: the record is the one the stream grew by.
WriteAny ==
  LET rec == stream'[Len(stream) + 1]
  IN  /\ Len(stream') = Len(stream) + 1
      /\ rec \in Record
      /\ MayWrite(EncRules, rec)
      /\ stream' = Append(stream, rec)
      /\ tables' = Append(tables, After(EncRules, rec))
      /\ UNCHANGED <<decoded, decRules, verdict>>

Protocol == Init /\ [][WriteAny \/ Read]_vars

----------------------------------------------------------------------------
(* Properties. *)

TypeOK ==
  /\ stream \in Seq(Record)
  /\ tables \in Seq(Table)
  /\ Len(tables) = Len(stream) + 1
  /\ decoded \in 0 .. Len(stream)
  /\ decRules \in Table
  /\ verdict \in {"ok", "error"}

\* The reader never rejects a record and its table is the one the writer had when it
\* wrote the record after the last one applied: no G block, stateless block or GC
\* remap, in any order, lets `rules` of the two sides drift apart (grammar.rs).
InSync == verdict = "ok" /\ decRules = tables[decoded + 1]
============================================================================
