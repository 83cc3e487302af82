----------------------------- MODULE ArchiveFile -----------------------------
(***************************************************************************)
(* One archive file from `create` to `extract`: the create run writes it   *)
(* cell by cell while its inputs may be edited or removed, may fail at any *)
(* reading or crash at any point, and starts over as a STORE container if  *)
(* that looks smaller; then the file may be damaged and the dictionary     *)
(* retrained; then it is extracted, entry by entry.                        *)
(***************************************************************************)
EXTENDS Container

CONSTANTS
  Inputs,       \* the files given to create, in order: a sequence of distinct keys
  Naming,       \* [input -> entry path] choices: two directories may hold one name
  Contents,     \* what an input may hold
  Dicts,        \* trained rule tables
  PackedSizes,  \* what a chunk may compress to
  Paths,        \* every entry path
  Nested,       \* <<d, p>>: the entry path p goes through a directory named d
  OldArchive,   \* the file create finds in its place
  MaxEdits      \* edits of inputs during one create

\* Inputs are different files with paths of their own; what is on disk is made of numbers.
ASSUME ArchiveAssumption ==
  /\ ChunkSize \in Nat \ {0} /\ Unit \in Nat
  /\ Inputs \in Seq(ToSet(Inputs))
  /\ \A k, l \in DOMAIN Inputs : Inputs[k] = Inputs[l] => k = l
  /\ Naming \subseteq [ToSet(Inputs) -> Paths]
  /\ Nested \subseteq Paths \X Paths /\ \A p \in Paths : <<p, p>> \notin Nested
  /\ Contents \subseteq Seq(Nat) /\ PackedSizes \subseteq Nat
  /\ NoDict \notin Dicts
  /\ OldArchive \in Seq(ToSet(OldArchive))
  /\ \A k \in DOMAIN OldArchive :
       /\ OldArchive[k].kind = "stored" => OldArchive[k].len \in Nat
       /\ OldArchive[k].kind = "footer" => OldArchive[k].table \in Nat /\ OldArchive[k].files \in Nat

VARIABLES
  disk,     \* content of each input, Gone when removed
  paths,    \* entry path of each input
  dictFile, \* rule table in the .aahld file
  file,     \* the archive
  create,   \* the create run: [pc, dict, pieces, entries, packed, edits]
  seen,     \* history: what each input held since the create run began
  damaged,  \* what was done to the finished file
  out,      \* the output directory
  extract   \* the extract run: [pc, given, idx, at]

vars == <<disk, paths, dictFile, file, create, seen, damaged, out, extract>>

Gone   == <<-2>>
Absent == <<-3>>
None   == "none"

Count   == Len(Inputs)
Present(i) == disk[Inputs[i]] # Gone
Writing == {"truncated", "gather", "emit", "table", "footer", "decide",
            "hash", "copy", "storefooter"}

Init ==
  /\ disk \in [ToSet(Inputs) -> Contents]
  /\ paths \in Naming
  /\ dictFile \in Dicts
  /\ file \in {<<>>, OldArchive}
  /\ \E d \in {NoDict, dictFile} :
       create = [pc |-> "idle", dict |-> d, pieces |-> <<>>, entries |-> <<>>,
                 packed |-> 0, edits |-> 0, at |-> 1]
  /\ seen = [i \in ToSet(Inputs) |-> {}]
  /\ damaged = None
  /\ out = [p \in Paths |-> Absent]
  /\ extract = [pc |-> "idle", given |-> NoDict, idx |-> Rejected, at |-> 1]

readerVars == <<damaged, out, extract>>
steady     == <<disk, paths, dictFile, seen, readerVars>>

-----------------------------------------------------------------------------
(* create *)

Go(pc) == [create EXCEPT !.pc = pc, !.at = 1]

\* collect_files found every input; `File::create` empties what was there.
Truncate ==
  /\ create.pc = "idle"
  /\ IF \A i \in DOMAIN Inputs : Present(i)
     THEN file' = <<>> /\ create' = Go("truncated")
     ELSE UNCHANGED file /\ create' = Go("refused")
  /\ seen' = [i \in ToSet(Inputs) |-> {disk[i]}]
  /\ UNCHANGED <<disk, paths, dictFile, readerVars>>

WriteHeader ==
  /\ create.pc = "truncated"
  /\ file' = <<Header(create.dict)>> \o
             (IF create.dict = NoDict THEN <<>> ELSE <<DictRecord(create.dict)>>)
  /\ create' = Go("gather")
  /\ UNCHANGED steady

\* A piece met for the first time gets the next index.
Known(pieces, p) == IF Contains(pieces, p) THEN pieces ELSE Append(pieces, p)

KnownWith(pieces, cut) ==
  LET known[k \in 0..Len(cut)] == IF k = 0 THEN pieces ELSE Known(known[k - 1], cut[k])
  IN  known[Len(cut)]

\* Faulty variant: an input that cannot be read is left out.
GatherSkipping ==
  /\ create.pc = "gather"
  /\ IF create.at > Count THEN create' = Go("emit")
     ELSE IF ~Present(create.at) THEN create' = [create EXCEPT !.at = @ + 1]
     ELSE LET data == disk[Inputs[create.at]]
              cut  == Chunks(data)
              known == KnownWith(create.pieces, cut)
              place(p) == CHOOSE k \in DOMAIN known : known[k] = p
          IN  create' = [create EXCEPT
                 !.pieces  = known, !.at = @ + 1,
                 !.entries = Append(@, Entry(paths[Inputs[create.at]], Len(data),
                                             [k \in DOMAIN cut |-> place(cut[k])]))]
  /\ UNCHANGED <<file, steady>>

\* One input is read and cut; pieces already known become references.
Gather ==
  /\ create.pc = "gather"
  /\ IF create.at > Count THEN create' = Go("emit")
     ELSE IF ~Present(create.at) THEN create' = Go("failed")
     ELSE LET data == disk[Inputs[create.at]]
              cut  == Chunks(data)
              known == KnownWith(create.pieces, cut)
              place(p) == CHOOSE k \in DOMAIN known : known[k] = p
          IN  create' = [create EXCEPT
                 !.pieces  = known, !.at = @ + 1,
                 !.entries = Append(@, Entry(paths[Inputs[create.at]], Len(data),
                                             [k \in DOMAIN cut |-> place(cut[k])]))]
  /\ UNCHANGED <<file, steady>>

EmitPiece ==
  /\ create.pc = "emit"
  /\ IF create.at > Len(create.pieces) THEN create' = Go("table") /\ UNCHANGED file
     ELSE /\ \E n \in PackedSizes :
               file' = Append(file, DataRecord(create.pieces[create.at], n, create.dict))
          /\ create' = [create EXCEPT !.at = @ + 1]
  /\ UNCHANGED steady

\* Faulty variant: the lengths are asked of the file system when the table is written.
WriteTableByMetadata ==
  /\ create.pc = "table"
  /\ LET sized == [k \in DOMAIN create.entries |->
                     IF Present(k) THEN [create.entries[k] EXCEPT !.len = Len(disk[Inputs[k]])]
                                   ELSE create.entries[k]]
     IN  file' = Append(file, TableHead(Len(create.entries))) \o sized
  /\ create' = Go("footer")
  /\ UNCHANGED steady

WriteTable ==
  /\ create.pc = "table"
  /\ file' = Append(file, TableHead(Len(create.entries))) \o create.entries
  /\ create' = Go("footer")
  /\ UNCHANGED steady

\* Faulty variant: every reference is counted, repeated pieces too.
WriteFooterOfRefs ==
  /\ create.pc = "footer"
  /\ LET n    == Len(create.entries)
         refs == SumOf([i \in DOMAIN create.entries |-> Len(create.entries[i].refs)])
     IN  file' = Append(file, Footer(Len(file) - n, refs, n))
  /\ create' = [Go("decide") EXCEPT !.packed = SizeOf(file')]
  /\ UNCHANGED steady

WriteFooter ==
  /\ create.pc = "footer"
  /\ LET n == Len(create.entries)
     IN  file' = Append(file, Footer(Len(file) - n, Len(create.pieces), n))
  /\ create' = [Go("decide") EXCEPT !.packed = SizeOf(file')]
  /\ UNCHANGED steady

\* Faulty variant: the comparison the other way round.
StoreLooksLarger ==
  StoreEstimate(create.dict, [i \in DOMAIN create.entries |-> create.entries[i].len])
    > create.packed

StoreLooksSmaller ==
  StoreEstimate(create.dict, [i \in DOMAIN create.entries |-> create.entries[i].len])
    < create.packed

\* `set_len(0)`, and the header of the other container.
RestartAsStore ==
  /\ create.pc = "decide" /\ StoreLooksSmaller
  /\ file' = <<StoreHeader(create.dict), TableHead(Count)>>
  /\ create' = Go("hash")
  /\ UNCHANGED steady

KeepCompressed ==
  /\ create.pc = "decide" /\ ~StoreLooksSmaller
  /\ create' = Go("done")
  /\ UNCHANGED <<file, steady>>

\* The input is read a second time for its length and hash ...
StoreHash ==
  /\ create.pc = "hash"
  /\ IF create.at > Count THEN create' = Go("copy") /\ UNCHANGED file
     ELSE IF ~Present(create.at) THEN create' = Go("failed") /\ UNCHANGED file
     ELSE LET i == Inputs[create.at]
          IN  /\ file' = Append(file, StoreEntry(paths[i], disk[i]))
              /\ create' = [create EXCEPT !.at = @ + 1]
  /\ UNCHANGED steady

\* ... and a third time for its bytes.
StoreCopy ==
  /\ create.pc = "copy"
  /\ IF create.at > Count THEN create' = Go("storefooter") /\ UNCHANGED file
     ELSE IF ~Present(create.at) THEN create' = Go("failed") /\ UNCHANGED file
     ELSE LET data == disk[Inputs[create.at]]
          IN  /\ file' = file \o [k \in DOMAIN data |-> PayloadByte(data[k])]
              /\ create' = [create EXCEPT !.at = @ + 1]
  /\ UNCHANGED steady

StoreFooter ==
  /\ create.pc = "storefooter"
  /\ file' = Append(file, Footer(2, 0, Count))
  /\ create' = Go("done")
  /\ UNCHANGED steady

Crash ==
  /\ create.pc \in Writing
  /\ create' = Go("crashed")
  /\ UNCHANGED <<file, steady>>

\* Somebody else saves or removes an input.
EditInput ==
  /\ create.pc \in Writing \cup {"idle"} /\ create.edits < MaxEdits
  /\ \E i \in ToSet(Inputs), c \in Contents \cup {Gone} :
       /\ c # disk[i]
       /\ disk' = [disk EXCEPT ![i] = c]
       /\ seen' = [seen EXCEPT ![i] = IF create.pc = "idle" THEN @ ELSE @ \cup {c}]
  /\ create' = [create EXCEPT !.edits = @ + 1]
  /\ UNCHANGED <<paths, dictFile, file, readerVars>>

Create == \/ Truncate \/ WriteHeader \/ Gather \/ EmitPiece \/ WriteTable \/ WriteFooter
          \/ KeepCompressed \/ RestartAsStore \/ StoreHash \/ StoreCopy \/ StoreFooter

Created == create.pc \in {"done", "refused", "failed", "crashed"}

-----------------------------------------------------------------------------
(* What happens to the file and the dictionary before the reader comes *)

\* An archive that did not open may open after it: an input edited between the second and
\* the third reading leaves bytes that a flip can turn into those hashed.
Damage(kind, cell, becomes) ==
  /\ create.pc = "done" /\ damaged = None /\ extract.pc = "idle"
  /\ becomes # file[cell]
  /\ file' = [file EXCEPT ![cell] = becomes]
  /\ damaged' = IF OpenIndex(file).ok THEN kind ELSE "spoiled"
  /\ UNCHANGED <<disk, paths, dictFile, create, seen, out, extract>>

\* A payload, a stored byte or a stored hash is no longer what was written.
DamagePayload ==
  \E k \in DOMAIN file :
    \/ file[k].kind = "data"   /\ Damage("payload", k, [file[k] EXCEPT !.holds = Garbled])
    \/ file[k].kind = "stored" /\ Damage("payload", k, [file[k] EXCEPT !.hash = Garbled])
    \/ file[k].kind = "byte"   /\ Damage("payload", k, [file[k] EXCEPT !.byte = 1 - @])
    \/ file[k].kind = "header" /\ Damage("payload", k, [file[k] EXCEPT !.intact = FALSE])

\* A length or a reference of the tables, which no hash covers.
DamageTable ==
  \E k \in DOMAIN file :
    \/ /\ file[k].kind \in {"entry", "stored"}
       /\ \E d \in {-1, 1} :
            /\ file[k].len + d >= 0
            /\ Damage("table", k, [file[k] EXCEPT !.len = @ + d])
    \/ /\ file[k].kind = "entry"
       /\ \E r \in DOMAIN file[k].refs, n \in 1..(Len(create.pieces) + 1) :
            Damage("table", k, [file[k] EXCEPT !.refs[r] = n])
    \/ /\ file[k].kind = "data"
       /\ Damage("table", k, [file[k] EXCEPT !.unpacked = @ + 1])

\* The tail of the file is lost.
CutTail ==
  /\ create.pc = "done" /\ damaged = None /\ extract.pc = "idle"
  /\ file' = Front(file)
  /\ damaged' = "cut"
  /\ UNCHANGED <<disk, paths, dictFile, create, seen, out, extract>>

Retrain ==
  /\ create.pc = "done" /\ extract.pc = "idle" /\ dictFile = create.dict
  /\ \E d \in Dicts \ {dictFile} : dictFile' = d
  /\ UNCHANGED <<disk, paths, file, create, seen, damaged, out, extract>>

-----------------------------------------------------------------------------
(* extract *)

\* Open, compare the dictionary, decode every chunk: nothing is written before that.
OpenAndDecode ==
  /\ Created /\ extract.pc = "idle"
  /\ \E given \in {NoDict, dictFile} :
       LET idx == OpenIndex(file)
       IN  extract' = IF idx.ok /\ Resolves(idx, given) /\ AllDecode(idx, given)
                      THEN [pc |-> "write", given |-> given, idx |-> idx, at |-> 1]
                      ELSE [extract EXCEPT !.pc = "failed", !.given = given]
  /\ UNCHANGED <<disk, paths, dictFile, file, create, seen, damaged, out>>

\* The chunks up to a reference that leads nowhere, cut at the length of the entry.
EntryData(idx, e) ==
  LET bad    == SelectInSeq(e.refs, LAMBDA r : r \notin DOMAIN idx.chunks)
      usable == IF bad = 0 THEN e.refs ELSE SubSeq(e.refs, 1, bad - 1)
      data   == Joined(idx, [e EXCEPT !.refs = usable])
  IN  SubSeq(data, 1, IF e.len < Len(data) THEN e.len ELSE Len(data))

\* Faulty variant: nobody asks what is left of the length.
WrittenUnchecked(idx, e) == [data |-> EntryData(idx, e), whole |-> RefsExist(idx, e)]

Written(idx, e) ==
  LET data == EntryData(idx, e)
  IN  [data |-> data, whole |-> RefsExist(idx, e) /\ Len(data) = e.len]

\* One of two paths is a file and the other needs a directory of that name.
Clash(p, q) == <<p, q>> \in Nested \/ <<q, p>> \in Nested

\* The files this run has made in the output directory, which was empty before it.
Standing == {extract.idx.files[k].path : k \in 1..(extract.at - 1)}

\* Making the parent directories fails, or making the file does, for what stands there.
Blocked(p) == \E q \in Standing : Clash(p, q)

WriteEntry ==
  /\ extract.pc = "write"
  /\ IF extract.at > Len(extract.idx.files)
     THEN extract' = [extract EXCEPT !.pc = "done"] /\ UNCHANGED out
     ELSE LET e == extract.idx.files[extract.at]
              w == IF extract.idx.store
                   THEN [data |-> extract.idx.bytes[extract.at], whole |-> TRUE]
                   ELSE Written(extract.idx, e)
          IN  IF e.path \in Unsafe \/ Blocked(e.path)
              THEN extract' = [extract EXCEPT !.pc = "failed"] /\ UNCHANGED out
              ELSE /\ out' = [out EXCEPT ![e.path] = w.data]
                   /\ extract' = IF w.whole THEN [extract EXCEPT !.at = @ + 1]
                                 ELSE [extract EXCEPT !.pc = "failed"]
  /\ UNCHANGED <<disk, paths, dictFile, file, create, seen, damaged>>

Next ==
  \/ Create \/ Crash \/ EditInput
  \/ DamagePayload \/ DamageTable \/ CutTail \/ Retrain
  \/ OpenAndDecode \/ WriteEntry

Spec == Init /\ [][Next]_vars
-----------------------------------------------------------------------------
\* The file is this create run's, and not what was there before.
Ours == create.pc \notin {"idle", "refused"}

Untouched == \A p \in Paths : out[p] = Absent
SafePaths == \A i \in ToSet(Inputs) : paths[i] \notin Unsafe
NamesClash == \E i, j \in ToSet(Inputs) : Clash(paths[i], paths[j])
Lengths   == [i \in DOMAIN create.entries |-> create.entries[i].len]

\* The input whose entry is written last under a path.
LastNamed(p) ==
  Inputs[CHOOSE k \in DOMAIN Inputs :
           paths[Inputs[k]] = p /\ \A l \in DOMAIN Inputs : paths[Inputs[l]] = p => l <= k]

\* Whatever was edited, removed or cut short by a crash while create ran, in either of its
\* two passes over the file: an archive that opens lists every input (main.rs 565-719).
OpenMeansWhole ==
  damaged \in {None, "cut"} /\ Ours =>
    LET idx == OpenIndex(file)
    IN  idx.ok => /\ Len(idx.files) = Count
                  /\ \A k \in DOMAIN idx.files : idx.files[k].path = paths[Inputs[k]]

\* An undamaged archive that can be extracted gives, for every path, what the input (the
\* last one of that path) held at one moment of the create run, never a mixture of two
\* readings, though the STORE container reads each input three times.
ExtractedIsOneReading ==
  extract.pc = "done" /\ damaged = None /\ Ours =>
    \A p \in Paths : (\E i \in ToSet(Inputs) : paths[i] = p) => out[p] \in seen[LastNamed(p)]

\* If nobody touched the inputs, the finished archive passes the test and extracts to them,
\* or create was given a file named like a directory among the entries, which it does not
\* look for (main.rs 382-427): `create x d1/a d2/a`, a file and a directory.
QuietCreateComesBack ==
  /\ create.pc = "done" /\ create.edits = 0 /\ damaged = None
  /\ extract.given = create.dict /\ SafePaths
  => /\ Tests(file, create.dict)
     /\ extract.pc = "failed" => NamesClash
     /\ extract.pc = "done" =>
          \A p \in Paths : (\E i \in ToSet(Inputs) : paths[i] = p) => out[p] = disk[LastNamed(p)]

\* A payload damaged in an archive that opened, or a dictionary other than the writer's: the
\* test says no, and not one output file is created (DESIGN.md:111, main.rs:583-585).
NothingUnverified ==
  (damaged = "payload" \/ extract.given # create.dict) /\ Ours =>
    Untouched /\ ~Tests(file, extract.given)

\* Whichever length or reference of the tables is wrong, what the test accepts extraction
\* can finish with every length right, unless an entry needs a directory where an earlier
\* one is a file or the other way round: the test makes no files and cannot see that
\* (main.rs 1755-1763). The converse does not hold, extract only clips (main.rs:1663, 1820).
TestedMeansExtractable ==
  SafePaths /\ Ours /\ Tests(file, extract.given) =>
    /\ extract.pc = "failed" =>
         \E k \in 1..(extract.at - 1) :
           Clash(extract.idx.files[k].path, extract.idx.files[extract.at].path)
    /\ extract.pc = "done" =>
         /\ ~NamesClash
         /\ \A k \in DOMAIN extract.idx.files :
              LET e == extract.idx.files[k]
              IN  e.path \in Paths /\ paths[Inputs[k]] = e.path /\ LastNamed(e.path) = Inputs[k]
                    => Len(out[e.path]) = e.len

\* An extraction that stops in the middle leaves the entries before the failing one
\* complete and those behind it untouched (main.rs:1809).
FailureLeavesPrefix ==
  extract.pc \in {"write", "failed"} /\ extract.idx.ok =>
    \A p \in Paths :
      LET named == {k \in DOMAIN extract.idx.files : extract.idx.files[k].path = p}
      IN  /\ (\A k \in named : k > extract.at) => out[p] = Absent
          /\ (\E k \in named : k < extract.at) /\ extract.at \notin named =>
               Len(out[p]) \in {extract.idx.files[k].len : k \in {n \in named : n < extract.at}}

\* A compressed archive that create finished passes its test, whoever edited or removed
\* inputs meanwhile: its tables are of the one reading that was compressed (main.rs
\* 596-628). Only the STORE container, which reads its inputs again, can fail it.
EditsSparePacked ==
  create.pc = "done" /\ damaged = None /\ file[1].kind = "header" => Tests(file, create.dict)

\* The archive is never larger than its inputs by more than the STORE tables; where STORE
\* is taken it may be larger than the container it replaced, by the hashes the estimate
\* leaves out and never by more (main.rs:705-716).
SizeBound ==
  create.pc = "done" /\ create.edits = 0 /\ damaged = None /\ Ours =>
    /\ SizeOf(file) <= StoreEstimate(create.dict, Lengths) + 32 * Count
    /\ file[1].kind = "store" => SizeOf(file) < create.packed + 32 * Count
=============================================================================
