------------------------------ MODULE Container ------------------------------
(***************************************************************************)
(* The two containers of main.rs as files of cells, and what a reader      *)
(* makes of such a file: open_index / open_store, resolve_dict,            *)
(* decode_payload, verify_archive.  A cell is one header, record, table    *)
(* entry, payload byte or footer; an offset is the number of a cell.       *)
(* A hash is the content it was taken of.  How a payload decodes through   *)
(* the grammar is the subject of ArchiveRoundTrip: here a payload holds    *)
(* its chunk, for a reader seeded with the writer's dictionary.            *)
(***************************************************************************)
EXTENDS Integers, Sequences, FiniteSets, SequencesExt

CONSTANTS
  ChunkSize,   \* bytes per chunk
  Unit,        \* how many real bytes one byte of the model weighs in a size
  Unsafe       \* entry paths safe_destination refuses

NoDict  == "none"
Garbled == <<-1>>

\* `data.chunks(chunk_size)`.
Chunks(data) ==
  [i \in 1..((Len(data) + ChunkSize - 1) \div ChunkSize) |->
     SubSeq(data, (i - 1) * ChunkSize + 1,
            IF i * ChunkSize < Len(data) THEN i * ChunkSize ELSE Len(data))]

SumOf(seq) ==
  LET sum[i \in 0..Len(seq)] == IF i = 0 THEN 0 ELSE sum[i - 1] + seq[i] IN sum[Len(seq)]

-----------------------------------------------------------------------------
(* Cells *)

Header(dict)     == [kind |-> "header", intact |-> TRUE, dict |-> dict # NoDict]
DictRecord(dict) == [kind |-> "dict", dict |-> dict]
DataRecord(piece, packed, dict) ==
  [kind |-> "data", hash |-> piece, unpacked |-> Len(piece), packed |-> packed,
   holds |-> piece, under |-> dict]
TableHead(n)     == [kind |-> "table", files |-> n]
Entry(path, len, refs) == [kind |-> "entry", path |-> path, len |-> len, refs |-> refs]
StoreHeader(dict) == [kind |-> "store", dict |-> dict]
StoreEntry(path, data) == [kind |-> "stored", path |-> path, len |-> Len(data), hash |-> data]
PayloadByte(b)   == [kind |-> "byte", byte |-> b]
Footer(table, chunks, files) ==
  [kind |-> "footer", table |-> table, chunks |-> chunks, files |-> files]

\* Their widths on disk; every path is one byte long.
Width(c) ==
  CASE c.kind = "header" -> 22
    [] c.kind = "dict"   -> 41
    [] c.kind = "data"   -> 41 + c.packed
    [] c.kind = "table"  -> 8
    [] c.kind = "entry"  -> 19 + 4 * Len(c.refs)
    [] c.kind = "store"  -> IF c.dict = NoDict THEN 6 ELSE 42
    [] c.kind = "stored" -> 43
    [] c.kind = "byte"   -> Unit
    [] c.kind = "footer" -> 36

SizeOf(file) == SumOf([i \in DOMAIN file |-> Width(file[i])])

\* `store_total`: the hash of each entry is not in it.
StoreEstimate(dict, lens) ==
  (IF dict = NoDict THEN 6 ELSE 42) + 8 + Unit * SumOf(lens) + 36 + 11 * Len(lens)

-----------------------------------------------------------------------------
(* Opening *)

Rejected == [ok |-> FALSE]

Kinds(cells) == {cells[i].kind : i \in DOMAIN cells}

\* The region before the table is a stream of records, the dictionary marker only in
\* front; the marker and the header's flag must agree, and so must the counts.
OpenCompressed(file) ==
  LET ftr     == Last(file)
      records == SubSeq(file, 2, ftr.table - 1)
      marked  == records # <<>> /\ records[1].kind = "dict"
      data    == IF marked THEN Tail(records) ELSE records
      table   == SubSeq(file, ftr.table + 1, ftr.table + ftr.files)
  IN  IF /\ file[1].intact
         /\ ftr.table + ftr.files < Len(file)
         /\ Kinds(records) \subseteq {"dict", "data"}
         /\ \A i \in 2..Len(records) : records[i].kind # "dict"
         /\ Len(data) = ftr.chunks
         /\ file[1].dict <=> marked
         /\ file[ftr.table].kind = "table" /\ file[ftr.table].files = ftr.files
         /\ Kinds(table) \subseteq {"entry"}
      THEN [ok |-> TRUE, store |-> FALSE, chunks |-> data, files |-> table,
            dict |-> IF marked THEN records[1].dict ELSE NoDict]
      ELSE Rejected

\* Where the payload of entry i begins: the table says only how long each is.
PayloadAt(files, start, i) == start + SumOf([k \in 1..(i - 1) |-> files[k].len])

Slice(file, from, len) == [k \in 1..len |-> file[from + k - 1].byte]

\* Faulty variant: the lengths fill the file, so the slices must be right.
SliceMatchesAny(file, from, e) == TRUE

SliceMatches(file, from, e) == Slice(file, from, e.len) = e.hash

\* The lengths must fill the file and every slice must have the hash of its entry.
OpenStore(file) ==
  LET ftr     == Last(file)
      table   == SubSeq(file, ftr.table + 1, ftr.table + ftr.files)
      start   == ftr.table + ftr.files + 1
      at(i)   == PayloadAt(table, start, i)
  IN  IF /\ ftr.table + ftr.files < Len(file) /\ ftr.chunks = 0
         /\ file[ftr.table].kind = "table" /\ file[ftr.table].files = ftr.files
         /\ Kinds(table) \subseteq {"stored"}
         /\ at(ftr.files + 1) = Len(file)
         /\ Kinds(SubSeq(file, start, Len(file) - 1)) \subseteq {"byte"}
         /\ \A i \in DOMAIN table : SliceMatches(file, at(i), table[i])
      THEN [ok |-> TRUE, store |-> TRUE, chunks |-> <<>>, files |-> table,
            bytes |-> [i \in DOMAIN table |-> Slice(file, at(i), table[i].len)],
            dict |-> file[1].dict]
      ELSE Rejected

OpenIndex(file) ==
  IF Len(file) < 2 \/ Last(file).kind # "footer" THEN Rejected
  ELSE IF file[1].kind = "store" THEN OpenStore(file)
  ELSE IF file[1].kind = "header" THEN OpenCompressed(file)
  ELSE Rejected

\* `resolve_dict`: the dictionary given is the one the archive names, or neither is.
Resolves(idx, given) == given = idx.dict

-----------------------------------------------------------------------------
(* Decoding *)

\* Faulty variant: whatever the payload decodes to is taken, if its length is right.
DecodesUnhashed(c, given) == c.under = given

\* `decode_payload`: length and hash are those of the decoded bytes.
Decodes(c, given) ==
  c.under = given /\ c.holds = c.hash /\ Len(c.hash) = c.unpacked

\* A chunk is decoded in the order of the records, and none after one that fails.
AllDecode(idx, given) == \A i \in DOMAIN idx.chunks : Decodes(idx.chunks[i], given)

\* The bytes of an entry: its chunks one after the other, cut at its length.
Joined(idx, e) == FlattenSeq([k \in DOMAIN e.refs |-> idx.chunks[e.refs[k]].holds])
RefsExist(idx, e) == \A k \in DOMAIN e.refs : e.refs[k] \in DOMAIN idx.chunks

\* Faulty variant: the report compares nothing but the references.
EntryConsistentByRefs(idx, e) == RefsExist(idx, e)

\* `verify_archive` on one entry: the sum of its chunks is its length.
EntryConsistent(idx, e) ==
  /\ RefsExist(idx, e)
  /\ SumOf([k \in DOMAIN e.refs |-> idx.chunks[e.refs[k]].unpacked]) = e.len

\* `cmd_test`.
Tests(file, given) ==
  LET idx == OpenIndex(file)
  IN  /\ idx.ok /\ Resolves(idx, given)
      /\ idx.store \/ ( /\ AllDecode(idx, given)
                        /\ \A i \in DOMAIN idx.files : EntryConsistent(idx, idx.files[i]) )
=============================================================================
