# A TLA+ model of aahl-compressor

aahl packs files into an archive of content-addressed chunks. Its core is a
*persistent grammar*: one rule table that grows over the whole archive, rebuilt
by the reader from the records alone. Everything that makes the format hard
follows from that. The encoder's table is never transmitted; each record
carries only what it adds. An attempt to code a chunk changes the table and the
token model before it is known whether the attempt will be kept. Garbage
collection renumbers every rule in the middle of the stream. With `-j N`, workers
look for rules in old prefixes of a table that is changing under them, and the
archive must not depend on their timing.

## 1. Inventory

| Component | State | Operations | Interacts with |
|---|---|---|---|
| Persistent grammar (`src/grammar.rs`) | rules, pair index, phrase trie, token model, rollback point, staged keys, snapshot ring, GC window, last uses, epoch | `compress`, `compress_parallel`, `seed_rules`, `apply_gc`, `decompress`, the pure `fork_candidate` | called by create (one per archive) and by extract and test (one each) |
| Token model (`src/arith.rs`) | alphabet size, counts, Fenwick trees and totals per context, chunk log | `grow`, `shrink_alphabet`, `begin_chunk`, `rollback_chunk`, encode and decode a token | owned by a grammar |
| Range coder (`src/arith.rs`) | low, range, cache, pending carry bytes | encode and decode step, flush | driven by the token model |
| Fold engine (`src/aahl.rs`) | token list, pair counts, heap of stale counts | `bpe_engine` with the caller's callbacks | grammar, stateless codec |
| Serial create (`src/main.rs`, `emit_serial`) | chunks, position, open file | gather and deduplicate, emit DATA and GC records, entry table, footer | grammar, table transform |
| Parallel create (`emit_parallel`) | dispatch tail, commit head, one channel per task, thread pool | dispatch a window, wait for the head, commit | worker threads by channel; grammar by cloned prefix |
| Reader (`open_index`, `cmd_extract`, `verify_archive`) | index of chunks, GC records and entries; grammar; cache | open, extract, test, list | grammar, dictionary, file system |
| Dictionary (`src/dict.rs`) | rules and their hash | train, save, load, match against the archive's marker | seeds both grammars |
| STORE container | the file being rewritten | compare sizes, rewrite in place, open and verify | create, reader |
| Parameters | bit fields in the header | pack, unpack | create |
| Stateless codecs (`src/aahl.rs`, `spectral.rs`, `binning.rs`, `context.rs`) | none | compress and decompress a block in one of eight formats | create, reader |
| Table transform (`src/table.rs`) | none | find a grid in a chunk, delta-code columns, wrap, undo | create, reader |
| tANS, branch filter (`src/tans.rs`, `bcj.rs`) | none | pure functions on a slice | the benches |
| GUI (`gui/`) | view, report, dialogs, one busy slot with a receiver | start a job thread, poll, finish | the command line program |
| Shell extension (`shellext/`) | registry keys | command ids, register, unregister | Explorer, the command line program |
| Bench and ablation harnesses | counters | measure | all codecs |

What makes each correct:

- *Grammar*: encoder and decoder hold the same table and the same model at every
  record boundary; a rejected attempt leaves no trace; the two indexes name live
  rules and only those; GC never removes what the coming chunks' window still counts
  as used; a look-back never reaches outside the table.
- *Parallel create*: the records are those of the serial run; the window is bounded;
  creation ends.
- *Reader*: applies records in order, refuses what it cannot check, returns the
  chunks.
- *Token model, fold engine, range coder*: exact rollback; incremental counts equal
  counts from scratch; decode inverts encode for every total that can occur.
- *STORE, parameters, dictionary, GUI, shell extension*: never larger than promised
  and self-consistent; unpack inverts pack on the accepted range; fail closed; no
  result lost; an id selects one verb.

`PROJECT.json` lists the hazards, each at its line, with the properties that guard it
or the reason none does yet.

## 2. Modules

| Module | Models |
|---|---|
| `GrammarTable` | the rule table by itself: closed tables, expansion, the GC remap and its checks |
| `GrammarSync` | what the format promises: a writer, a reader and the record stream between them. The abstract specification |
| `GrammarSyncProofs` | its theorems |
| `GrammarProofs` | the induction principles, lemmas on tables, expansions and remaps, and what each grammar operator does to the books, up to `CompressFacts` |
| `CreateProofs` | the theorems about `ArchiveRoundTrip` and `ParallelCreate` |
| `CoderProofs` | lemmas on Fenwick trees, table rows and the range coder |
| `TokenCodingProofs` | the theorems about `TokenCoding` |
| `PairFold` | pair folding by recounting: counts, the best pair, the splice |
| `PersistentGrammar` | one operator per method of `PersistentGrammar`, over a record of its fields |
| `SerialCreate` | `emit_serial`; also the abstract specification of parallel creation |
| `ArchiveRoundTrip` | `SerialCreate` followed by extraction; implements `GrammarSync` |
| `ParallelCreate` | `emit_parallel` and its pool; implements `SerialCreate` |
| `CountTable` | Fenwick tree, counts and total of one context; the adaptive table of `context.rs` |
| `RangeCoder` | encoder and decoder with carry, pending digits and flush |
| `TokenModel` | `PersistentTokenModel`: grow, shrink, begin, roll back, encode, decode |
| `TokenCoding` | the token model and the coder driven as the grammar drives them, and a reader |
| `StreamCoders`, `StreamCoding` | the one-shot coders: order 0, order 1, blended, context |
| `TableTransform`, `Bcj`, `Tans` | the slice transforms, as functions |
| `SliceTransforms` | slices that grow piece by piece through them, and the calendar walked by the day |
| `PairFolding` | the fold as a specification: recount, take the best, splice. Abstract |
| `FoldEngine` | `bpe_engine` as it is: linked list, incremental counts, lazy heap; implements `PairFolding` |
| `BlockCodec`, `BlockCoding` | the block formats; a chunk folded by the engine, coded and read back |
| `Container` | the archive as a sequence of cells: records, tables, footers, their parsers, the verifier |
| `ArchiveFile` | one file from create to extract: crash, edited inputs, STORE, damage, another dictionary |
| `ArchiveFileProofs` | the theorems about `ArchiveFile` |
| `StreamCodingProofs` | the theorems about `StreamCoding` |
| `GuiJobs` | the archive window, its busy slot, job threads and the files on disk |
| `ShellExtension` | registration, the menu object, ids and names |
| `DesktopProofs` | the theorems about `GuiJobs` and `ShellExtension` |
| `MC...` | values for model checking |

Three groups are composed by `EXTENDS`. `SerialCreate` extends `PersistentGrammar`, which
extends `GrammarTable` and `PairFold`; `ArchiveRoundTrip` and `ParallelCreate` extend
`SerialCreate`. `TokenModel` extends `CountTable` and `RangeCoder`; `TokenCoding` and
`StreamCoders` extend it, so the same range coder is under the archive's model and under the
one-shot coders, and `BlockCodec` uses those. `ArchiveFile` extends `Container`. The groups
meet in what one takes for granted of another: `PersistentGrammar` has the model as the
history it has coded, and `TokenCoding` shows that counts, trees and totals are a function
of that history on both sides (`ReaderInSync`) and that a rollback restores them
(`UndoIsExact`). `PersistentGrammar` folds by recounting, and `FoldEngine` shows that the
engine folds so. `ArchiveFile` has a chunk decode to itself under the right dictionary, which
is `RoundTrip` and `BlocksInvert`. `SliceTransforms` is what lets the chunk of the grammar be
the stream the table transform hands it.

**Correspondence.** A table is a sequence: Rust's `rules[k]`, symbol `256 + k`, stands
at position `k + 1`. `g` is the encoder's grammar with the source's field names in
camel case. Every grammar operation is an operator from record to record, composed as
the code composes calls: `Compress` is entropy bypass, `DiscoverAndEncode`,
`AcceptOrReject`, `EmitTail`, and `EmitTail` includes the GC attempt. An attempt has an
outcome: a block, none, or a panic where the code indexes out of bounds. `EmitChunk` is
one `compress` with its DATA record; the GC record behind it is a step of its own
(`pendingGc`), so that properties see the state between the two writes. In
`ParallelCreate`, `Dispatch` is one turn of the inner loop, `StartTask` and
`FinishTask` are a worker's, `Commit` is `recv` and `compress_parallel`.

In the coder modules the state is what the Rust structs hold. `TokenCoding` has a writer's
model with its log and the open attempt's coder, and the reader's; its actions are the points
where `grammar.rs` calls the model: `OpenAttempt` is `begin_chunk` and `grow`, `CodeToken` one
`encode_token`, `Accept`, `Reject` and `Collect` the ends of an attempt and the remap,
`ReadRecord` a whole record of `decompress`. In `StreamCoding` and `SliceTransforms` every
state is a stream or a slice that may end there, so an invariant speaks of each input up to
the bound. In `FoldEngine` one `Merge` is one turn of the loop in `bpe_engine`, with every
splice of its pass; the heap is a bag with the code's order.

In `ArchiveFile` the file is a sequence of cells, one per thing written, and each action is a
writing or a reading between which another program may change an input or the process may
die. `create.pc` is the position in `cmd_create_params_version_impl` and, from `hash` on, in
`write_store_archive`. `OpenAndDecode` is one step because nothing is written before every
chunk was decoded; `WriteEntry` is one turn of the extraction loop. Making the parent directories or
the file fails there (`Blocked`) if an entry before it is a file where a directory is needed or
the other way round; `Nested` says which paths go through which names. An input is read in one
step, so a reading torn by an edit in its middle is not among the behaviours. The output directory
is empty at first, and neither a full disk nor a missing permission is modelled. Sizes are bytes in
units of the code's constants.

In `GuiJobs` a click is a frame: the handler runs to its end on the one UI thread, while job
threads and engine processes take steps of their own (`Truncate`, `Complete`, `End`). `lost` and
`heard` are history. In `ShellExtension` each action is one COM call.

**Abstractions.**

- *Acceptance* compares a G block's length with the stateless block's. Lengths come
  from the entropy coder, so `accept` is any Boolean: every run of the code is one of
  the model's. The refusal of a G block no smaller than the raw chunk ends the same way
  as a rejection and is covered by `accept = FALSE`.
- *The token model* is its alphabet size and the history of what it has coded (`coded`),
  of which the counts are a function. `under` in a record is the history the bytes were
  coded under; the reader obtains the tokens only if its own history is the same.
- *Discovery is exact*, not abstracted: longest-match tokenisation, pair counts,
  tie-breaking, splicing, trie cap, merge bound and alphabet cap are all there, with
  scaled constants. `FoldPairs` recounts where the engine counts incrementally.
- *A hash* is the chunk itself (BLAKE3 taken as injective).
- *The chunk* is the stream handed to `compress`: the T-stream if the table transform
  fired. A stateless block decodes to its chunk.
- *High entropy* is a set of chunks (`HighEntropy`) instead of a threshold.
- *Duplicates* never reach the grammar; a list of chunks has distinct members.
- *Words are narrow.* Digits of base 4, three to a word, stand for bytes and 32 bits; counts wrap at
  `Word`. Carries, runs of pending digits and renormalisation all happen.
- *Sizes that choose* among block formats, columns to delta-code, or STORE and not, are choices,
  except where the property is about the size (`SizeBound`). The code's choice is one of them.
- *A hash in `Container`* is its content. Damage changes one cell to another that is possible
  there: a payload, a length or reference of the table, or a cut tail.

Some operators are marked "Faulty variant": each is a neighbouring definition changed
the way a plausible slip in the code would change it (a reset left out, a comparison
dropped, a bound off by one). No specification uses them. Substituting one for its
original makes a property fail; the table in `PROJECT.json` pairs them, and so records
that each property can fail at the bounds used.

## 3. Runs

| Run | Question | Checks | Size |
|---|---|---|---|
| `grammar_sync` | does the record stream alone keep both tables equal? | `TypeOK`, `InSync` | about a million states |
| `round_trip` | does any serially written archive extract, and are the books right? | `TypeOK`, `RoundTrip`, `BooksAgree`, `IndexSound`, `UsedPhrasesSurvive`, `SnapshotsWithinTable`, `FollowsProtocol`, `PrefixStable` | 290 000 states |
| `parallel` | is parallel creation serial creation, and does it end? | `ParTypeOK`, `FrozenPrefix`, `WindowBound`, `SameAsSerial`, `Finishes` | 41 000 states |
| `token_coding` | do counts, trees and totals survive growth, rejection and collection, and does the reader decode every blob? | `TypeOK`, `BooksBalance`, `UndoIsExact`, `StreamDecodes`, `ReaderInSync` | 201 000 states |
| `stream_coding` | do the stream coders and slice transforms give back what they got? | `StreamInverts`, `ConsumesAll`, `TablesBalanced`, `TransformsInvert`, `CalendarAgrees` | 289 000 states |
| `block_coding` | does the incremental engine fold as recounting would, and does every block decode? | `CountsExact`, `HeapCoversCounts`, `FollowsReference`, `BlocksInvert` | 61 000 states |
| `archive_file` | what survives crashes, edited inputs, clashing names, damage and another dictionary? | `OpenMeansWhole`, `ExtractedIsOneReading`, `QuietCreateComesBack`, `NothingUnverified`, `TestedMeansExtractable`, `FailureLeavesPrefix`, `SizeBound`, `EditsSparePacked` | 3.6 million states |
| `gui_jobs` | how many results can the window lose, is what it shows current, does it stop being busy? | `OneLossPerPeriod`, `ShownIsCurrent`, `BusyEnds` | 907 000 states |
| `rebind_panic` | can a commit panic? | `NoPanic`, violated | |
| `lag_one` | is lag 1 the live grammar on every chunk? | `LagOneIsLive`, violated | |
| `zero_share` | does every symbol keep a share of the range? | `NoZeroProbability`, violated | |
| `menu_items` | does an item of the menu run the verb it shows? | `ItemsCanBeInvoked`, violated | |

The properties, by the hazard they are aimed at:

- `RoundTrip`, `BooksAgree`: a rejected attempt leaves growth, rules, last-use slots or
  staged keys behind, and some later block decodes to something else or not at all.
- `IndexSound`: the pair index or the trie keeps an id of a rule that was rolled back or
  renumbered, or misses one.
- `UsedPhrasesSurvive`: a GC record takes away a phrase that blocks of its own window were
  coded with, told by expansions, which survive renumbering, and not by ids.
- `SnapshotsWithinTable`, `PrefixStable`: a look-back reaches past the table, or a table
  changes other than by appending without a new epoch.
- `FollowsProtocol`: writer and reader of the code do what `GrammarSync` allows, so what is
  proved of `GrammarSync` holds of them.
- `FrozenPrefix`, `SameAsSerial`: a worker's clone is overtaken and still used.
- `WindowBound`, `Finishes`: discovery runs away from the commits, or the main thread waits
  for an answer nobody owes it.
- `BooksBalance`, `UndoIsExact`: one cell of one tree of one context is left behind by a rollback
  or a shrink, and encoder and decoder drift apart much later.
- `StreamDecodes`, `StreamInverts`, `ConsumesAll`: a carry is lost in a run of maximal digits, the
  flush is a digit short, or the two sides pick different tables for a symbol.
- `ReaderInSync`: the reader, with no log and no rollback, ends a record with other counts.
- `CountsExact`, `HeapCoversCounts`, `FollowsReference`: a run of equal symbols is counted twice at
  a splice, or a changed count has no entry in the heap, and another pair wins.
- `BlocksInvert`, `TransformsInvert`, `CalendarAgrees`: short last pieces, dates that do not exist,
  integers written twice over, wrapping deltas, cut-off operands, century ends.
- `OpenMeansWhole`, `QuietCreateComesBack`: a file left by a crash opens; a finished one does not come
  back.
- `ExtractedIsOneReading`: STORE reads each input three times, and what is extracted must still be
  what an input held at one moment. That the last of the inputs with one name wins is part of the
  statement.
- `EditsSparePacked`: an archive that create finished fails its own check because an input was edited
  meanwhile. That happens to STORE, and the property says that it happens to nothing else.
- `NothingUnverified`, `TestedMeansExtractable`, `FailureLeavesPrefix`: unchecked bytes reach the
  disk, the verifier accepts what extract cannot finish, a failure spoils entries it had written. The
  test cannot see a clash of names, since it makes no files; `TestedMeansExtractable` says that this is the
  only thing it misses, and `QuietCreateComesBack` that only such names keep untouched inputs from
  coming back.
- `SizeBound`: how wrong the STORE estimate can be, and that it is not worse.
- `OneLossPerPeriod`, `ShownIsCurrent`, `BusyEnds`: a dialog opened before a job started replaces the
  job; a listing or report outlives what it describes; the window is busy for ever.

**Bounds, and why they are enough.** Two literals and chunks of up to ten bytes, a pair
folded from two occurrences on, phrases of up to four bytes, six or seven symbols in
all. At these values rules are invented, contain one another, are found again by phrase
and by pair, exceed the phrase cap and hit the alphabet cap. Lists of up to four
distinct chunks with a GC attempt after every chunk or every other one give several
epochs per archive, remaps that keep some rules, renumber some and drop some, and
remaps right before, between and after rejected chunks. Lags 1 and 2 (serial) and 2 and
3 (parallel) put the look-back before, at and beyond an epoch's beginning. The parallel
run adds one list of six chunks: there a remap leaves as many rules as there were when
a task was dispatched, so snapshot lengths of two epochs agree and only the epoch
number tells them apart. Two workers suffice for every order of finishing within a
window, since a third task's result is not looked at before the head's.
`grammar_sync` enumerates all streams of four records over a small record set, legal
or not at each point; what the writer may not write it cannot write.

`token_coding` has two literals and two rules, three tokens to a chunk and two records, in both
context maps; that reaches a rollback after growth and coding in one chunk, a shrink between
two chunks, and a carry over pending digits. `zero_share` has a word of two digits, so that the total
passes the range after four tokens. `stream_coding` streams up to six symbols, which
takes the blended coders past their thresholds and back between row and bucket; slices have
four lines of two or three columns with extreme integers and dates that do and do not exist;
the calendar is walked over 600 years, a whole era and its edges. `block_coding` has
every chunk of up to nine symbols over two literals, both callers of the engine and every order the
heap leaves open. `archive_file` has two inputs with three contents (empty, and two of two pieces each that share the
second piece and have the same length), names that coincide, that no directory takes or that clash (in either order), two dictionaries under symmetry, two edits and one damage:
a second reading that differs and one that is back to the first. `gui_jobs` has two archives and
two jobs: one in the slot, one pushed out. `menu_items` has up to three items and ids up to six, on both sides
of the number of verbs.

**Deadlock** is checked in the runs of the grammar and of creation, where final states stutter
explicitly (`Terminated`, `ParTerminated`), and in `gui_jobs`, where the user can always do
something. The remaining runs end when the stream, the slice, the block or the extraction is
complete and say so with `CHECK_DEADLOCK FALSE`.

**Fairness** is assumed in `parallel` and in `gui_jobs`. In `parallel` the main thread runs whenever it is not
blocked; an idle pool thread takes a queued task; a started discovery pass ends, being
a bounded computation that neither blocks nor waits. The operating system's scheduler
and rayon justify exactly that and nothing more: no assumption says which task starts
first or that chunks are accepted. The conditions are `WF` of three actions with
`ENABLED` written out. The enabling condition of a commit is only that the head's
result is there, and evaluating `ENABLED` itself would run a discovery pass for nothing.

In `gui_jobs`, `PollBusy` is weakly fair because `poll_busy` asks for another frame as long as a
job is in the slot and the window's loop draws it, and a job thread's step is
weakly fair because the thread only waits for an engine process that ends. Nothing the user does is
fair: `BusyEnds` must hold of a user who never clicks and of one who never stops.

**What the runs show.** In every reachable state at these bounds the archive
round-trips, the encoder's indexes are exact between chunks, GC keeps what its window
used, the records of a parallel run are records of a serial run, and parallel creation
ends. Counts, trees and totals agree and every blob decodes; the engine is the recounting fold;
every block and slice comes back. A crash never leaves a file that opens short, extraction
writes one reading of each input or nothing unverified, and the STORE container exceeds
what it replaced by the entries' hashes at most. The window loses at most one job's result at a
time. Four statements of the sources fail:

- *A commit can panic* (`NoPanic`). When a chunk is exactly one phrase of the frozen
  prefix, `fork_candidate` returns its single token with no definitions, and
  `rebind_comp` indexes an empty `fork_to_live`. The documentation of
  `commit_candidate` promises `None` and a rejected chunk. It takes a lag above 1 or a
  GC remap, so that the snapshot is shorter than the live table; the default lag is 16.
  `round_trip` and `parallel` treat `panicked` as a final state in which nothing is
  promised.
- *Lag 1 is not always the live grammar* (`LagOneIsLive`). After a remap the ring starts
  anew while it is still indexed by the archive-wide chunk number, so for the
  rest of the epoch every chunk looks back to the epoch base instead of the live table.
  (With a larger lag the ring is out of reach in the same way once an epoch starts after
  chunk `lag`.) Archives stay correct: `RoundTrip` holds in the same state space.
- *A symbol's share can become zero* (`NoZeroProbability`). The comment on the persistent token
  model promises every symbol a positive probability. Totals of a context grow with the archive
  and are never halved; once one exceeds the least range after renormalisation (2^24 in the code)
  the range divided by it is 0, the interval is empty, and the encoder's renormalisation loop
  does not end. `token_coding` has a word of three digits, where this is out of reach.
- *Items cannot be invoked by number* (`ItemsCanBeInvoked`). `InvokeCommand` takes a zero `lpVerb` for
  none and reads any other as the address of a name before it tries it as an id, except for a caller that
  sets `CMIC_MASK_UNICODE` and leaves `lpVerbW` null. The comment on
  `verb_from_id` says that both a relative id and a bare offset are accepted.

**Other differences between documents and code**, met while modelling and not given a run:

- `docs/SPEC.md:31-33` calls the STORE size estimate conservative; it leaves out 32 bytes per entry and so
  favours STORE. `SizeBound` says by how much.
- SPEC section 6 has the reader check the length of the table; `open_index` reads the field and does not use it
  (`main.rs:1216`).
- Payloads are hashed; the fields of the entry table, and the names in a STORE container, are not.
  `DamageTable` has that, and `TestedMeansExtractable` what remains true.
- `README.md:71` has `extract` recreate the recorded relative paths. A file is recorded under its last
  component and a directory's files below the directory's name (`main.rs:388`, `416-421`), and create compares neither:
  of two inputs with one name the second overwrites the first, and `create x d1/a d2/a`, a file and a directory,
  makes an archive that passes the test and that extraction cannot finish.
- A lag above 255 is accepted and loses its upper bits when packed (`main.rs:453`).
- `docs/SHELLEXT.md:17-18` says only the first items of a selection are handled; the menu scans so many, but `archive_path` and Add
  take the whole selection.
- `GetCommandString` drops the last character of a name when the buffer is large (`com.rs:312`, `322`).
- `docs/SHELLEXT.md:83-85` calls registration symmetric; either half may stop anywhere without undoing.
- `backend.rs:96` says a failed test is reported as `ok:false`; `run_json` makes it an error, and an
  earlier good report stays on display.

## 4. Proofs

`GrammarSyncProofs` proves, for every alphabet, record set, stream length and seed,
about both `Spec` and the unbounded `Protocol`:

- `SyncTypeCorrect`: all tables are closed and within the alphabet (`TypeOK`);
- `SyncCorrect`: the reader never rejects, and has the writer's table (`InSync`).

The inductive invariant is `IInv == TypeOK /\ InSync /\ History`. `InSync` is not
inductive by itself: it compares the reader with the writer's table at an *old* record
boundary, and says nothing of the table at the next one. `History` says that each record
of the stream was legal for the table before it and leads to the table after it. A read
step then applies a record that was legal for exactly the reader's table, and the lemma
`WriterPassesReader` turns "the writer may write it" into "the reader accepts it". The
other burden is the remap. `RemapTable` shows that a remap of a closed table is closed:
survivors ascend, so renaming preserves order (`RenamedOlder`) and no rule comes to name
a younger one. `SpecFollowsProtocol` connects the bounded specification to the
unbounded one. The assumptions used are `AlphabetAssumption` and `SyncAssumption`, which
every run evaluates.

### Creating and extracting an archive

`CreateProofs` proves, for every list of chunks, dictionary, lag and GC interval, every
alphabet and cap, and every choice of accepted attempts, about `RoundTripSpec`:

- `RoundTripCorrect`: the reader never fails and gives back the chunks in order (`RoundTrip`);
- `RoundTripTypes`, `BooksAlwaysAgree`, `IndexAlwaysSound`, `SnapshotsStayWithin`: the encoder's
  books agree at every record boundary (`TypeOK`, `BooksAgree`, `IndexSound`,
  `SnapshotsWithinTable`);
- `PrefixAlwaysStable`: an epoch only appends (`PrefixStable`);
- `UsedPhrasesAlwaysSurvive`: GC takes away nothing its window used (`UsedPhrasesSurvive`);
- `WriterAndReaderFollowProtocol`: writer and reader implement `GrammarSync!Protocol`
  (`FollowsProtocol`), so that what `GrammarSyncProofs` has of the protocol holds of the code's
  own records;

and about `ParSpec`, for any number of workers besides:

- `ParallelIsSerial`: it implements `SerialCreate` (`SameAsSerial`);
- `ParallelTypes`, `PrefixesStayFrozen`, `WindowStaysBounded`: `ParTypeOK`, `FrozenPrefix` and
  `WindowBound`.

*The encoder's half.* `SerialInv` says that between records the books satisfy `GrammarOK` (a closed
table, the two maps indexing exactly it, one last-use slot per rule, the model's alphabet, ordered
snapshots), and what is left of that after a panic. That it is kept is `CompressFacts` in
`GrammarProofs`, one lemma per operator of `PersistentGrammar`, in the order the code calls
them: tokenisation (`ReuseFacts`), folding (`FoldFacts`), binding a fork's rules (`BindFacts`), the
attempt (`TryFacts`, `RebindFacts`), its two ends (`AcceptFacts`, `RejectFacts`), the GC closure and
remap (`ClosureFacts`, `ApplyFacts`). Each says what the operator does to the table, and that the tokens it
returns expand to the bytes it was given. A rejection is exact because everything an attempt
entered in the maps is staged, and everything staged is younger than the rollback point.

*The stream.* `RoundTrip` and `UsedPhrasesSurvive` speak of records written long ago. `RoundTripInv`
adds to `SerialInv` that there is a history of the archive: at every record boundary, a table, what the token model had
coded, and a number of chunks, each record leading from one boundary to the next
(`Run`). The writer stands at the last boundary, the reader at the one of its position, with the
table and the coding of that boundary. A block decodes because the reader's coding there is what the writer's
was. The marks that `UsedPhrasesSurvive` needs relate last-use slots to the same counts of chunks. The
counts and codings are quantified (`\E M, C`), no variable holds them; TLC checks the parts of
the invariant that are properties of the run `round_trip`, which imply no more than it does.

*Parallel creation.* `ParInv` is `SerialInv` with the window's bounds and `TaskOK` for each task: a
finished task's candidate is `fork_candidate` of its own prefix and chunk, and its prefix is
the live table's unless its epoch is over. The commit compares epoch and length before it
uses a candidate, and then the candidate is the one `SerialCreate` computes on the spot. Length alone would
not do, and `TaskOK` is not inductive without the epoch.

*Induction.* Expansion, tokenisation, folding, splicing, binding and the closure are recursive functions. The
library's induction rules take an operator and cannot be instantiated, so
`GrammarProofs` proves induction for sets: a set of numbers with 0 that is closed under successor up
to n has every number up to n (`Induction`, `InductionUpTo`, `StrongInductionUpTo`, from
well-foundedness). A loop is then handled by one lemma that its recursive function exists and unfolds as
written, and an induction with its invariant as the set.

The assumptions used are `AlphabetAssumption`, `EncoderAssumption`, `CreateAssumption` and
`JobsAssumption`, all evaluated by the runs. Nothing is assumed of `accept`, `HighEntropy` or the order in
which tasks finish.

### The token model and the coder

`TokenCodingProofs` proves, for every alphabet and context layout, digit base, register width, word, number of
records and of tokens to a chunk, about `TokenCoding`:

- `CodingTypes`: nodes stay within a word and the writer's low within one carry of its digits (`TypeOK`);
- `BooksAlwaysBalance`: counts, tree and total of every row agree on both sides (`BooksBalance`);
- `UndoAlwaysExact`: a rollback restores the model exactly, from any point of an attempt (`UndoIsExact`);

and, under the hypothesis `TotalsFit`, that no total can come to exceed `Top`:

- `StreamAlwaysDecodes`: what a flush would write decodes to the tokens coded so far, and to the last
  digit (`StreamDecodes`);
- `ReaderAlwaysInSync`: the reader never fails and ends with the writer's model (`ReaderInSync`);
- `SharesStayPositive`: no symbol's share of the range is empty (`NoZeroProbability`).

`TotalsFit` is the one condition. The code does not check it: it is where the range divided by the total
becomes zero that the run `zero_share` breaks, and its constants do not meet the hypothesis, while those of
`token_coding` do. By the theorems a stream that breaks has outgrown `Top`: there is no other way. In the code `Top` is 2^24, and a
context that codes that many symbols in one archive gets there.

*Tables.* A node holds the sum over a range that its lowest set bit delimits, and `add` climbs
through exactly the nodes whose range holds the symbol (`ClimbFacts`). So a prefix sum moves by the
delta above the symbol and not at all below it, and the search returns the one symbol whose part of the line
holds a value (`SearchFacts`). The subtraction by adding `Word - 1` is exact when
the node is positive: it weighs what its symbols do. A tree is determined by its prefix
sums (`WeightsDecide`), so undoing an update or a growth restores every node and not merely the sums. This is what
`UndoIsExact` needs, and it is why `UndoIsExact` needs `BooksBalance`.

*Coder.* Written digits, held digits and low are read as one number (`Number`), with as many places as
have left the register (`Places`). A shift changes the number only by appending a zero place
(`CarryFacts`, `ShiftNumber`), which is to say that a carry through a run of maximal digits is never lost and never doubled. It
depends on `Tight`: when the held digit is the maximal one, low plus range stays within the register, so no carry can
reach it. A
symbol maps the interval from the number, range wide, to a part of it. What lies in the part lay in the whole, so
by descent what `Flush` writes lies in the interval of every token coded (`Inside`), and a decoder
at the same place (`Tracks`) finds the symbol whose part that is.

*The archive.* `BooksBalance` and `UndoIsExact` speak of one state, but their invariant has to know
where a model came from. `CodingInv` says that there is a history: a committed model at each record
boundary, each record leading from one to the next; the open attempt a trail of models and coders,
one per token, from the last boundary, whose contexts and symbols the log repeats (`Attempted`). A rollback walks the
trail back. `SyncInv` adds that the reader has the model of the boundary it has reached. The history is quantified, no variable
holds it.

The assumptions are `WordAssumption`, `CoderAssumption`, `ModelAssumption`, `BoundsAssumption` and
`TreesFit`. The last says that no total reaches `Word`, which in the code is 2^64: an archive of fewer tokens. All are
evaluated by the run.

### The stream coders

`StreamCodingProofs` proves about `StreamCoding`, for each of the four coders and both learning rules, any
alphabet, width, digit, number of buckets and length of stream:

- `TablesStayBalanced`: every table that may be picked next agrees with its counts and its total
  (`TablesBalanced`), with no further condition;
- `StreamsAlwaysInvert`: a finished stream decodes to what was sent (`StreamInverts`);
- `StreamsAlwaysConsumed`: the decoder uses the digits that were written and no others
  (`ConsumesAll`), which is what `context.rs` compares.

The invariant is that the state has a history (`History`): models and coders, one of each per symbol, that
lead from a fresh writer to the current one. Each model is `Sound`: rows with the symbols of the alphabet
and totals no larger than it and the symbols sent; order-2 tables either not yet taught or the same
(`Heated`); and a bucket that has won or lost has an active table. The table that the blended and the
context coder pick for the next symbol depends on what was learnt so far, and the decoder picks it before it knows the symbol:
both sides have the same model at that point, so they pick the same. What is left is the coder alone,
and `CoderProofs` states it without a model: a `Chain` of coders, one part of the range per symbol, whose last one
flushed lies inside every earlier interval (`ChainInside`), and a decoder that stands at the same place
(`Tracks`) and finds each part (`Meets`, `SymbolTracks`). `TokenCodingProofs` uses the same lemmas
for a chunk's tokens.

`DecodeStream` runs a recursive function over the length of the stream; the proof unfolds it along the
history, one symbol at a time, by induction on a set of numbers (`InductionUpTo`).

The last two are under `TotalsFit` (`MaxSyms + MaxStream <= Top`) and `NLit >= 2`. The first is the
condition the run `zero_share` breaks when it is missing; the run `stream_coding` meets it. The second holds of
the code, whose literals are the 256 bytes; it is needed because `context.rs` refuses an alphabet of fewer than two symbols.
`StreamsFit` says, as `TreesFit` does, that no total reaches `Word`.

### The archive file

`ArchiveFileProofs` proves, for any inputs and contents, chunk size, dictionaries, naming and number of
edits, about `ArchiveFile`:

- `OpenedIsWhole`: an archive that opens lists every input (`OpenMeansWhole`);
- `VerifiedBeforeWritten`: nothing is written of a damaged archive or under another dictionary
  (`NothingUnverified`);
- `FailedLeavesPrefix`: what a failed extraction leaves behind (`FailureLeavesPrefix`);
- `TestedIsExtractable`: what the test accepts, extraction finishes with the lengths promised, unless entries
  clash, and then it does not (`TestedMeansExtractable`);
- `ExtractedIsAReading`: what comes out was in the input at one moment (`ExtractedIsOneReading`);
- `QuietComesBack`: untouched inputs whose names do not clash come back from a finished archive
  (`QuietCreateComesBack`);
- `PackedAlwaysTests`: edits cannot make a compressed archive fail its test (`EditsSparePacked`);
- `SizeStaysBounded`: what the choice of a container costs at most (`SizeBound`).

None of them is inductive. `AlwaysSound` is the invariant all but `QuietComesBack` and `SizeStaysBounded` follow from:

- `Gathered`: the entries listed so far spell contents that were read, over a pool of pieces that only grows;
- `Built`: at each stage of create the file is, cell by cell, what that stage has written: header and
  marker, the chunks emitted so far, the table, the footer, or the same of the STORE container. This is
  what makes a crash harmless: it leaves a file that does not end with a footer or, between the
  footer and the choice of a container, the whole compressed one;
- `Measured`: lengths and offsets in cells are numbers, without which an offset computed from a
  damaged table could land anywhere;
- `Origin`: the file is what create completed, or that with one cell changed or the tail cut, and in which
  of these cases it opened before;
- `Reading`: the extraction's index is the file's, everything in it was verified, the entries behind were
  whole and clash with none before them (`Passed`), and `Landed`: under each path there is the outcome of
  the last entry written there.

The argument about an opened file goes by *bones and flesh*. The bones (`PackedBones`, `StoredBones`) are what
neither kind of damage touches: which cell is of which kind, paths, the dictionary. They decide what
`OpenIndex` finds, if it finds anything (`BonesList`). The flesh is the hashes and lengths. A
payload cell that changed no longer equals its hash, so a packed archive fails at that chunk (`PackedBroken`); a STORE
archive that opened has slices that are its hashes, so one changed byte or hash breaks one of them
(`StoredBroken`). The second argument needs that it opened before: an input edited between its
second and its third reading leaves bytes that do not fit the hash, and a flipped byte may repair
them. So `damaged` tells a file spoiled beforehand from a damaged one.

What a packed entry gives is a matter of two loops over its references. The length that the test sums up over
the records is the length of what extraction joins (`JoinLength`), whatever became of the table
(`ConsistentBytes`); and the pieces a content was cut into join to the content (`JoinChunks`,
`SpelledBytes`).

Those two need more. `Exact` (with the invariant above, `AlwaysExact`) says that while no input is
edited each payload of the STORE container begins where the lengths before it end (`Laid`, `StartOf`),
which the reader computes from the table and the writer never does; so the lengths fill the
file and every slice is what was hashed (`QuietStored`). `Decided` (`AlwaysDecided`) remembers which
side of the comparison the container is on. The size of a STORE container is then computed cell by cell
(`StoreSize`) and is the estimate and 32 bytes an entry (`QuietSize`): the hash that `store_total` leaves out.

The assumption is `ArchiveAssumption`: inputs are distinct, paths are given to all of them, no path goes through
itself, contents are
sequences of numbers, and the file found in the archive's place has numbers for its lengths.

### The window and the shell extension

`DesktopProofs` proves, for any archives and number of jobs, under `GuiAssumption`:

- `GuiTypes`: the window's fields keep their shape;
- `OneLoss`: while the window is busy at most one other result is lost (`OneLossPerPeriod`). It is
  inductive with `SlotQuiet`, that an empty slot has nothing lost: a dialog opens only
  when the slot is empty, each confirmation closes one, and only a second
  confirmation replaces a job;
- `WindowIsCurrent`: what is shown came from the file as it is (`ShownIsCurrent`). That is not
  inductive. `Writers` says that a file's last writer is a create of that very file, so the
  poll that hears of it opens the right archive; `JobsSane` that no job is heard before it is over,
  so a file cannot change under an answer already heard.

The same module proves, of `ShellExtension`, `NamesFromHighIds`: if Explorer's first id is not below the number of
verbs, the name it is given for an item is the item's, by offset or by id, for any ids and
selections and wherever the insertion stopped, and an item invoked by number runs no other's verb. Below it the two forms overlap (the condition is needed). The
invariant keeps what is shown a beginning of what the selection calls for (`MenuSane`), under the id
the object remembers.

### Model-checked only

The block formats (`BlocksInvert`), which wrap the proved coders in headers and parsers; the slice transforms
(`TransformsInvert`, `CalendarAgrees`) and the fold engine's counts and heap (`CountsExact`,
`HeapCoversCounts`): what a recursive function computes for every input needs an induction over
data that the provers cannot instantiate. `Finishes` and `BusyEnds` are liveness and stay with the model
checker, as do the four violations.

## 5. Not modelled

- *Bench and ablation harnesses*: they measure and decide nothing in an archive.
- *The command line, the directory walk, reports*: I/O around the modelled operations.
- *Parameters*: a bounds check and a shift per field; the one fault in it is listed above.
- *Training a dictionary*: a search whose result may be any closed table.
- *Versions 1 and 2* of the record framing, which create no longer writes, and the text of a listing.
- *`characterize`* of the table transform (a report), `prepare`'s size oracle (any eligible
  column may be chosen), and `BlendEncoder::grow`, which nothing calls.
- *GUI*: browsing, the dictionary chosen for an archive, settings text, the headless `--create` mode.
- *Shell extension*: reference counts, finding the engine, quoting of arguments.

## 6. Plan

1. Proofs: `CountsExact` as far as sums over a list allow; `BlocksInvert` from `StreamCodingProofs`.
2. `TokenCoding` under `PersistentGrammar` in one specification, so that the history in `coded` is
   refined by the counts rather than argued equal.
3. Record framing of versions 1 and 2, and `--create` of the GUI.
