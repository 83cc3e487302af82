------------------------- MODULE ArchiveFileProofs -------------------------
(***************************************************************************)
(* The archive file, for every list of inputs, contents, dictionaries,     *)
(* chunk size and number of edits.                                         *)
(***************************************************************************)
EXTENDS ArchiveFile, TLAPS, WellFoundedInduction, SequenceTheorems

----------------------------------------------------------------------------
(* Files as sequences of cells.                                            *)

\* f is a sequence.
IsSeq(f) == f \in Seq(ToSet(f))

\* Any sequence is a sequence over its own members, with a domain and a member at each
\* place.
LEMMA SeqFacts ==
  ASSUME NEW S, NEW f \in Seq(S)
  PROVE  /\ IsSeq(f) /\ Len(f) \in Nat /\ DOMAIN f = 1 .. Len(f)
         /\ \A k \in 1 .. Len(f) : f[k] \in S
<1>1. Len(f) \in Nat /\ DOMAIN f = 1 .. Len(f) /\ \A k \in 1 .. Len(f) : f[k] \in S
  OBVIOUS
<1>2. f \in Seq(ToSet(f))
  BY <1>1, SeqOfRange, RangeOfSeq DEF ToSet, Range
<1> QED
  BY <1>1, <1>2 DEF IsSeq

\* The same facts of a sequence whose set of members is not named.
LEMMA IsSeqFacts ==
  ASSUME NEW f, IsSeq(f)
  PROVE  /\ Len(f) \in Nat /\ DOMAIN f = 1 .. Len(f)
         /\ f = [k \in 1 .. Len(f) |-> f[k]]
  BY DEF IsSeq

\* A function on 1 .. n is a sequence of length n.
LEMMA FunctionIsSeq ==
  ASSUME NEW n \in Nat, NEW f, f = [k \in 1 .. n |-> f[k]]
  PROVE  IsSeq(f) /\ Len(f) = n
<1>1. f \in [1 .. n -> ToSet(f)]
  BY DEF ToSet
<1>2. f \in Seq(ToSet(f))
  BY <1>1
<1> QED
  BY <1>1, <1>2 DEF IsSeq

\* Append leaves the cells it found and puts the new one behind them.
LEMMA AppendCell ==
  ASSUME NEW f, IsSeq(f), NEW c
  PROVE  /\ IsSeq(Append(f, c)) /\ Len(Append(f, c)) = Len(f) + 1
         /\ Append(f, c)[Len(f) + 1] = c
         /\ \A k \in 1 .. Len(f) : Append(f, c)[k] = f[k]
<1> DEFINE S == ToSet(f) \cup {c}
<1>1. f \in Seq(S) /\ c \in S
  <2>1. f \in [1 .. Len(f) -> S] /\ Len(f) \in Nat
    BY IsSeqFacts DEF ToSet
  <2> QED
    BY <2>1
<1> HIDE DEF S
<1>2. /\ Append(f, c) \in Seq(S) /\ Len(f) \in Nat
      /\ Len(Append(f, c)) = Len(f) + 1 /\ Append(f, c)[Len(f) + 1] = c
      /\ \A k \in 1 .. Len(f) : Append(f, c)[k] = f[k]
  BY <1>1
<1>3. IsSeq(Append(f, c))
  BY ONLY <1>2, SeqFacts
<1> QED
  BY <1>2, <1>3

\* \o puts the cells of the second sequence behind those of the first.
LEMMA ConcatCells ==
  ASSUME NEW f, IsSeq(f), NEW g, IsSeq(g)
  PROVE  /\ IsSeq(f \o g) /\ Len(f \o g) = Len(f) + Len(g)
         /\ \A k \in 1 .. Len(f) : (f \o g)[k] = f[k]
         /\ \A k \in 1 .. Len(g) : (f \o g)[Len(f) + k] = g[k]
<1> DEFINE S == ToSet(f) \cup ToSet(g)
<1>1. f \in Seq(S) /\ g \in Seq(S)
  <2>1. f \in [1 .. Len(f) -> S] /\ Len(f) \in Nat
    BY IsSeqFacts DEF ToSet
  <2>2. g \in [1 .. Len(g) -> S] /\ Len(g) \in Nat
    BY IsSeqFacts DEF ToSet
  <2> QED
    BY <2>1, <2>2
<1> HIDE DEF S
<1>2. f \o g \in Seq(S) /\ Len(f) \in Nat /\ Len(g) \in Nat
  BY <1>1
<1>3. /\ Len(f \o g) = Len(f) + Len(g)
      /\ \A k \in 1 .. Len(f) + Len(g) : (f \o g)[k] = IF k <= Len(f) THEN f[k] ELSE g[k - Len(f)]
  BY <1>1, ConcatProperties
<1>4. ASSUME NEW k \in 1 .. Len(g) PROVE (f \o g)[Len(f) + k] = g[k]
  <2>1. Len(f) + k \in 1 .. Len(f) + Len(g) /\ ~(Len(f) + k <= Len(f)) /\ (Len(f) + k) - Len(f) = k
    BY <1>2
  <2> QED
    BY <1>3, <2>1
<1>5. IsSeq(f \o g)
  BY ONLY <1>2, SeqFacts
<1>6. ASSUME NEW k \in 1 .. Len(f) PROVE (f \o g)[k] = f[k]
  <2>1. k \in 1 .. Len(f) + Len(g) /\ k <= Len(f)
    BY <1>2
  <2> QED
    BY <1>3, <2>1
<1> QED
  BY <1>3, <1>4, <1>5, <1>6

\* Replacing one cell of a sequence leaves its length and every other cell.
LEMMA ExceptCell ==
  ASSUME NEW f, IsSeq(f), NEW k, NEW c
  PROVE  /\ IsSeq([f EXCEPT ![k] = c]) /\ Len([f EXCEPT ![k] = c]) = Len(f)
         /\ k \in 1 .. Len(f) => [f EXCEPT ![k] = c][k] = c
         /\ \A j \in 1 .. Len(f) : j # k => [f EXCEPT ![k] = c][j] = f[j]
<1> DEFINE g == [f EXCEPT ![k] = c]
<1>1. Len(f) \in Nat /\ DOMAIN f = 1 .. Len(f) /\ f = [j \in 1 .. Len(f) |-> f[j]]
  BY IsSeqFacts
<1>2. g = [j \in 1 .. Len(f) |-> g[j]]
  BY <1>1
<1>3. /\ k \in 1 .. Len(f) => g[k] = c
      /\ \A j \in 1 .. Len(f) : j # k => g[j] = f[j]
  BY <1>1
<1> HIDE DEF g
<1>4. IsSeq(g) /\ Len(g) = Len(f)
  BY <1>1, <1>2, FunctionIsSeq
<1> QED
  BY <1>3, <1>4 DEF g

\* A stretch of a file.
LEMMA Stretch ==
  ASSUME NEW f, NEW a \in Nat, NEW n \in Nat
  PROVE  /\ IsSeq(SubSeq(f, a + 1, a + n)) /\ Len(SubSeq(f, a + 1, a + n)) = n
         /\ \A k \in 1 .. n : SubSeq(f, a + 1, a + n)[k] = f[a + k]
<1> DEFINE g == SubSeq(f, a + 1, a + n)
           S == {f[i] : i \in a + 1 .. a + n}
<1>1. /\ a + 1 \in Int /\ a + n \in Int
      /\ \A i \in a + 1 .. a + n : f[i] \in S
  OBVIOUS
<1> HIDE DEF S
<1>2. /\ g \in Seq(S) /\ Len(g) = IF a + 1 <= a + n THEN ((a + n) - (a + 1)) + 1 ELSE 0
      /\ \A k \in 1 .. ((a + n) - (a + 1)) + 1 : g[k] = f[(a + 1) + k - 1]
  BY <1>1, SubSeqProperties
<1> HIDE DEF g
<1>3. /\ (IF a + 1 <= a + n THEN ((a + n) - (a + 1)) + 1 ELSE 0) = n /\ ((a + n) - (a + 1)) + 1 = n
      /\ \A k \in 1 .. n : (a + 1) + k - 1 = a + k
  OBVIOUS
<1>4. IsSeq(g)
  BY ONLY <1>2, SeqFacts
<1> QED
  BY <1>2, <1>3, <1>4 DEF g

\* Front drops the last cell and keeps the others.
LEMMA FrontCells ==
  ASSUME NEW f, IsSeq(f), Len(f) >= 1
  PROVE  /\ IsSeq(Front(f)) /\ Len(Front(f)) = Len(f) - 1
         /\ \A k \in 1 .. Len(f) - 1 : Front(f)[k] = f[k]
<1> DEFINE n == Len(f) - 1
<1>1. n \in Nat
  BY IsSeqFacts
<1>2. PICK a \in Nat : a = 0
  OBVIOUS
<1>3. Front(f) = SubSeq(f, a + 1, a + n)
  BY <1>1, <1>2 DEF Front
<1> HIDE DEF n
<1>4. /\ IsSeq(SubSeq(f, a + 1, a + n)) /\ Len(SubSeq(f, a + 1, a + n)) = n
      /\ \A k \in 1 .. n : SubSeq(f, a + 1, a + n)[k] = f[a + k]
  BY ONLY <1>1, Stretch
<1>5. /\ IsSeq(Front(f)) /\ Len(Front(f)) = n
      /\ \A k \in 1 .. n : Front(f)[k] = f[a + k]
  BY ONLY <1>3, <1>4
<1> QED
  BY <1>1, <1>2, <1>5 DEF n

\* Two sequences of one length with the same cells are equal.
LEMMA CellsEqual ==
  ASSUME NEW f, IsSeq(f), NEW g, IsSeq(g), Len(f) = Len(g), \A k \in 1 .. Len(f) : f[k] = g[k]
  PROVE  f = g
  BY IsSeqFacts

----------------------------------------------------------------------------
(* What any file opens to.                                                 *)

\* The numbers in the tables are numbers.
Numbered(c) == /\ c.kind = "stored" => c.len \in Nat
               /\ c.kind = "footer" => c.table \in Nat /\ c.files \in Nat

Measured(f) == \A k \in DOMAIN f : Numbered(f[k])

TableOf(f) == SubSeq(f, Last(f).table + 1, Last(f).table + Last(f).files)

\* The cells between the table and the footer of a STORE container are bytes that its
\* entries account for.
StoreOpens(f) ==
  LET t == Last(f).table
      n == Last(f).files
      start == t + n + 1
      at(i) == PayloadAt(TableOf(f), start, i)
  IN  /\ t + n < Len(f) /\ Last(f).chunks = 0
      /\ f[t].kind = "table" /\ f[t].files = n
      /\ Kinds(TableOf(f)) \subseteq {"stored"}
      /\ at(n + 1) = Len(f)
      /\ Kinds(SubSeq(f, start, Len(f) - 1)) \subseteq {"byte"}
      /\ \A i \in DOMAIN TableOf(f) : SliceMatches(f, at(i), TableOf(f)[i])

RecordsOf(f) == SubSeq(f, 2, Last(f).table - 1)
Marked(f)    == RecordsOf(f) # <<>> /\ RecordsOf(f)[1].kind = "dict"
DataOf(f)    == IF Marked(f) THEN Tail(RecordsOf(f)) ELSE RecordsOf(f)

PackedOpens(f) ==
  LET t == Last(f).table
      n == Last(f).files
  IN  /\ f[1].intact
      /\ t + n < Len(f)
      /\ Kinds(RecordsOf(f)) \subseteq {"dict", "data"}
      /\ \A i \in 2..Len(RecordsOf(f)) : RecordsOf(f)[i].kind # "dict"
      /\ Len(DataOf(f)) = Last(f).chunks
      /\ f[1].dict <=> Marked(f)
      /\ f[t].kind = "table" /\ f[t].files = n
      /\ Kinds(TableOf(f)) \subseteq {"entry"}

StoreIndex(f) ==
  [ok |-> TRUE, store |-> TRUE, chunks |-> <<>>, files |-> TableOf(f),
   bytes |-> [i \in DOMAIN TableOf(f) |->
                Slice(f, PayloadAt(TableOf(f), Last(f).table + Last(f).files + 1, i), TableOf(f)[i].len)],
   dict |-> f[1].dict]

PackedIndex(f) ==
  [ok |-> TRUE, store |-> FALSE, chunks |-> DataOf(f), files |-> TableOf(f),
   dict |-> IF Marked(f) THEN RecordsOf(f)[1].dict ELSE NoDict]

\* open_index, condition by condition.
LEMMA OpenCases ==
  ASSUME NEW f
  PROVE  /\ OpenIndex(f).ok <=> /\ ~(Len(f) < 2) /\ Last(f).kind = "footer"
                                /\ \/ f[1].kind = "store" /\ StoreOpens(f)
                                   \/ f[1].kind = "header" /\ PackedOpens(f)
         /\ OpenIndex(f).ok \in BOOLEAN
         /\ ~OpenIndex(f).ok => OpenIndex(f) = Rejected
         /\ OpenIndex(f).ok /\ f[1].kind = "store" => OpenIndex(f) = StoreIndex(f)
         /\ OpenIndex(f).ok /\ f[1].kind # "store" => OpenIndex(f) = PackedIndex(f)
<1>1. OpenStore(f) = IF StoreOpens(f) THEN StoreIndex(f) ELSE Rejected
  BY DEF OpenStore, StoreOpens, StoreIndex, TableOf
<1>2. OpenCompressed(f) = IF PackedOpens(f) THEN PackedIndex(f) ELSE Rejected
  BY DEF OpenCompressed, PackedOpens, PackedIndex, TableOf, RecordsOf, DataOf, Marked
<1>3. ~Rejected.ok /\ Rejected.ok \in BOOLEAN /\ StoreIndex(f).ok = TRUE /\ PackedIndex(f).ok = TRUE
  BY DEF Rejected, StoreIndex, PackedIndex
<1> QED
  BY <1>1, <1>2, <1>3 DEF OpenIndex

\* What opens has a table, and the slices of a STORE container are as long as it says.
LEMMA OpenAny ==
  ASSUME NEW f, IsSeq(f), Measured(f), NEW idx, idx = OpenIndex(f), idx.ok
  PROVE  /\ IsSeq(idx.files) /\ idx.store \in BOOLEAN
         /\ idx.store => \A k \in 1 .. Len(idx.files) : Len(idx.bytes[k]) = idx.files[k].len
<1> DEFINE ftr == Last(f)
           tab == TableOf(f)
<1>1. ~(Len(f) < 2) /\ ftr.kind = "footer" /\ ftr = f[Len(f)]
  BY OpenCases DEF Last
<1>2. Len(f) \in Nat /\ DOMAIN f = 1 .. Len(f)
  BY IsSeqFacts
<1>3. ftr.table \in Nat /\ ftr.files \in Nat
  <2>1. Len(f) \in DOMAIN f
    BY <1>1, <1>2
  <2> QED
    BY <1>1, <2>1 DEF Measured, Numbered
<1>4. /\ IsSeq(tab) /\ Len(tab) = ftr.files
      /\ \A k \in 1 .. ftr.files : tab[k] = f[ftr.table + k]
  BY ONLY <1>3, Stretch DEF TableOf
<1>5. CASE f[1].kind = "store"
  <2>1. idx = StoreIndex(f) /\ StoreOpens(f)
    BY <1>5, OpenCases
  <2>2. /\ idx.files = tab /\ idx.store = TRUE
        /\ \A k \in DOMAIN tab : idx.bytes[k] = Slice(f, PayloadAt(tab, ftr.table + ftr.files + 1, k), tab[k].len)
    BY <2>1 DEF StoreIndex
  <2>3. ASSUME NEW k \in 1 .. Len(tab) PROVE Len(idx.bytes[k]) = tab[k].len
    <3>1. k \in DOMAIN tab /\ tab[k] = f[ftr.table + k]
      BY <1>4, IsSeqFacts
    <3>2. tab[k].kind = "stored"
      BY <2>1, <3>1 DEF StoreOpens, Kinds
    <3>3. ftr.table + k \in DOMAIN f
      <4>1. ftr.table + ftr.files < Len(f)
        BY <2>1 DEF StoreOpens
      <4> QED
        BY <4>1, <1>2, <1>3, <1>4
    <3>4. tab[k].len \in Nat
      BY <3>1, <3>2, <3>3 DEF Measured, Numbered
    <3>5. PICK from, n : from = PayloadAt(tab, ftr.table + ftr.files + 1, k) /\ n = tab[k].len
      OBVIOUS
    <3>6. idx.bytes[k] = [j \in 1 .. n |-> f[from + j - 1].byte]
      BY <2>2, <3>1, <3>5 DEF Slice
    <3>7. Len(idx.bytes[k]) = n
      BY <3>4, <3>5, <3>6
    <3> QED
      BY <3>5, <3>7
  <2> QED
    BY <1>4, <2>2, <2>3
<1>6. CASE f[1].kind # "store"
  <2>1. idx.files = tab /\ idx.store = FALSE
    BY <1>6, OpenCases DEF PackedIndex
  <2> QED
    BY <1>4, <2>1
<1> QED
  BY <1>5, <1>6

----------------------------------------------------------------------------
(* Types, and what is remembered of the inputs.                            *)

Held == Contents \cup {Gone}

Stages == {"idle", "refused", "done", "failed", "crashed"} \cup Writing

EntryCell == [kind : {"entry"}, path : Paths, len : Nat, refs : Seq(Nat)]

Runs(packed) ==
  [pc : Stages, dict : Dicts \cup {NoDict}, pieces : Seq(Seq(Nat)), entries : Seq(EntryCell),
   packed : {packed}, edits : Nat, at : Nat \ {0}]

\* The variables have their types; what an input holds is among what it has held.
Typed ==
  /\ disk \in [ToSet(Inputs) -> Held]
  /\ paths \in Naming
  /\ dictFile \in Dicts
  /\ seen \in [ToSet(Inputs) -> SUBSET Held]
  /\ create \in Runs(create.packed)
  /\ create.pc # "idle" => \A i \in ToSet(Inputs) : disk[i] \in seen[i]
  /\ create.pc # "idle" /\ create.edits = 0 => \A i \in ToSet(Inputs) : seen[i] = {disk[i]}

\* What the assumptions on the constants say of the inputs, of what they may hold and of
\* how they may be named.
LEMMA InputFacts ==
  /\ IsSeq(Inputs) /\ Count \in Nat /\ DOMAIN Inputs = 1 .. Count
  /\ \A k \in 1 .. Count : Inputs[k] \in ToSet(Inputs)
  /\ \A k, l \in 1 .. Count : Inputs[k] = Inputs[l] => k = l
  /\ Gone \notin Contents
  /\ \A c \in Contents : c \in Seq(Nat) /\ IsSeq(c) /\ Len(c) \in Nat
  /\ \A w \in Naming : w \in [ToSet(Inputs) -> Paths]
<1>1. IsSeq(Inputs)
  BY ArchiveAssumption DEF IsSeq
<1>2. Count \in Nat /\ DOMAIN Inputs = 1 .. Count
  BY <1>1, IsSeqFacts DEF Count
<1>3. \A k \in 1 .. Count : Inputs[k] \in ToSet(Inputs)
  BY <1>2 DEF ToSet
<1>4. \A k, l \in 1 .. Count : Inputs[k] = Inputs[l] => k = l
  BY <1>2, ArchiveAssumption
<1>5. Gone \notin Contents
  <2>1. Gone[1] = -2 /\ Len(Gone) = 1
    BY DEF Gone
  <2>2. Gone \notin Seq(Nat)
    BY <2>1
  <2> QED
    BY <2>2, ArchiveAssumption
<1>6. \A c \in Contents : c \in Seq(Nat) /\ IsSeq(c) /\ Len(c) \in Nat
  BY ArchiveAssumption, SeqFacts
<1> QED
  BY <1>1, <1>2, <1>3, <1>4, <1>5, <1>6, ArchiveAssumption

----------------------------------------------------------------------------
(* Induction over sets of numbers. *)

\* A nonempty set of numbers has a least element.
LEMMA LeastNumber ==
  ASSUME NEW S \in SUBSET Nat, S # {}
  PROVE  \E n \in S : \A m \in S : n <= m
<1> DEFINE R == OpToRel(<, Nat)
<1>1. IsWellFoundedOn(R, Nat)
  BY NatLessThanWellFounded
<1>2. \A m, n \in Nat : m < n => <<m, n>> \in R
  BY DEF OpToRel
<1> HIDE DEF R
<1>3. PICK n \in S : \A m \in S : ~(<<m, n>> \in R)
  BY <1>1, WFMin, Zenon
<1>4. \A m \in S : ~(m < n)
  BY <1>2, <1>3
<1> QED
  BY <1>3, <1>4, SMT

\* Induction over the numbers.
LEMMA Induction ==
  ASSUME NEW S \in SUBSET Nat, 0 \in S, \A n \in S : n + 1 \in S
  PROVE  S = Nat
<1> DEFINE T == Nat \ S
<1>1. SUFFICES ASSUME T # {} PROVE FALSE
  OBVIOUS
<1>2. PICK n \in T : \A m \in T : n <= m
  BY <1>1, LeastNumber, Zenon
<1>3. n # 0 /\ n - 1 \in Nat /\ n - 1 \notin T
  BY <1>2, SMT
<1> QED
  BY <1>3

\* Induction up to a bound.
LEMMA InductionUpTo ==
  ASSUME NEW N \in Nat, NEW S, 0 \in S, \A n \in 0 .. N - 1 : n \in S => n + 1 \in S
  PROVE  \A n \in 0 .. N : n \in S
<1> DEFINE T == {n \in Nat : n <= N => n \in S}
<1>1. T \in SUBSET Nat /\ 0 \in T
  OBVIOUS
<1>2. ASSUME NEW n \in T PROVE n + 1 \in T
  <2>1. CASE n + 1 <= N
    BY <2>1
  <2>2. CASE ~(n + 1 <= N)
    BY <2>2
  <2> QED
    BY <2>1, <2>2
<1>3. T = Nat
  <2> HIDE DEF T
  <2> QED
    BY <1>1, <1>2, Induction, Zenon
<1> QED
  BY <1>3

----------------------------------------------------------------------------
(* Sums. *)

\* f adds up seq, one number at a time.
Adds(f, seq) ==
  /\ f[0] = 0
  /\ \A k \in 1 .. Len(seq) : f[k] = f[k - 1] + seq[k]

\* The loop of SumOf has a function that satisfies it.
LEMMA SumLoop ==
  ASSUME NEW seq, Len(seq) \in Nat
  PROVE  \E f : Adds(f, seq) /\ SumOf(seq) = f[Len(seq)]
<1> DEFINE N == Len(seq)
           G(f, n) == f = [k \in 0 .. n |-> IF k = 0 THEN 0
                                            ELSE f[k - 1] + seq[k]]
           S == {n \in Nat : \E f : G(f, n)}
<1>1. 0 \in S
  <2>1. G([k \in 0 .. 0 |-> 0], 0)
    OBVIOUS
  <2> QED
    BY <2>1
<1>2. ASSUME NEW n \in S PROVE n + 1 \in S
  <2>1. PICK f : G(f, n)
    OBVIOUS
  <2> DEFINE h == [k \in 0 .. n + 1 |-> IF k = n + 1 THEN f[n] + seq[k] ELSE f[k]]
  <2>2. \A k \in 0 .. n + 1 : h[k] = IF k = 0 THEN 0 ELSE h[k - 1] + seq[k]
    <3> TAKE k \in 0 .. n + 1
    <3>1. CASE k = 0
      BY <2>1, <3>1
    <3>2. CASE k = n + 1
      BY <3>2, <2>1
    <3>3. CASE k \in 1 .. n
      <4>1. h[k] = f[k] /\ h[k - 1] = f[k - 1]
        BY <3>3
      <4>2. f[k] = f[k - 1] + seq[k]
        BY <2>1, <3>3
      <4> QED
        BY <4>1, <4>2, <3>3
    <3> QED
      BY <3>1, <3>2, <3>3
  <2>3. h = [k \in 0 .. n + 1 |-> h[k]]
    OBVIOUS
  <2> HIDE DEF h
  <2>4. G(h, n + 1)
    BY <2>2, <2>3
  <2>4a. n + 1 \in Nat
    OBVIOUS
  <2> HIDE DEF G
  <2>5. \E g : G(g, n + 1)
    BY <2>4
  <2> QED
    BY <2>4a, <2>5
<1>3. S = Nat
  <2>1. S \in SUBSET Nat
    OBVIOUS
  <2> HIDE DEF S
  <2> QED
    BY <1>1, <1>2, <2>1, Induction
<1> DEFINE f == CHOOSE f : G(f, N)
<1>4. G(f, N)
  BY <1>3
<1>5. SumOf(seq) = f[N]
  BY DEF SumOf
<1> HIDE DEF f
<1>6. Adds(f, seq)
  BY <1>4 DEF Adds
<1> QED
  BY <1>5, <1>6

\* Every such function computes SumOf.
LEMMA SumUnique ==
  ASSUME NEW seq, Len(seq) \in Nat, NEW f, Adds(f, seq)
  PROVE  SumOf(seq) = f[Len(seq)]
<1>1. PICK h : Adds(h, seq) /\ SumOf(seq) = h[Len(seq)]
  BY SumLoop
<1> DEFINE S == {k \in Nat : h[k] = f[k]}
<1>2. 0 \in S
  BY <1>1 DEF Adds
<1>3. ASSUME NEW k \in 0 .. Len(seq) - 1, k \in S PROVE k + 1 \in S
  <2>1. k + 1 \in 1 .. Len(seq) /\ (k + 1) - 1 = k
    OBVIOUS
  <2> QED
    BY <1>1, <1>3, <2>1 DEF Adds
<1>4. \A k \in 0 .. Len(seq) : k \in S
  <2> HIDE DEF S
  <2> QED
    BY <1>2, <1>3, InductionUpTo
<1> QED
  BY <1>1, <1>4

\* The sum over no cells is zero.
LEMMA SumEmpty ==
  ASSUME NEW s, Len(s) = 0
  PROVE  SumOf(s) = 0
<1>1. Adds([k \in 0 .. 0 |-> 0], s)
  BY DEF Adds
<1> QED
  BY <1>1, SumUnique

\* One more number is added.
LEMMA SumStep ==
  ASSUME NEW s, NEW n \in Nat, Len(s) = n, NEW t, Len(t) = n + 1, \A k \in 1 .. n : t[k] = s[k]
  PROVE  SumOf(t) = SumOf(s) + t[n + 1]
<1>1. PICK f : Adds(f, s) /\ SumOf(s) = f[n]
  BY SumLoop
<1> DEFINE h == [k \in 0 .. n + 1 |-> IF k = n + 1 THEN f[n] + t[n + 1] ELSE f[k]]
<1>2. Adds(h, t)
  <2>1. h[0] = 0
    BY <1>1 DEF Adds
  <2>2. ASSUME NEW k \in 1 .. n + 1 PROVE h[k] = h[k - 1] + t[k]
    <3>1. CASE k = n + 1
      BY <3>1
    <3>2. CASE k \in 1 .. n
      <4>1. h[k] = f[k] /\ h[k - 1] = f[k - 1] /\ t[k] = s[k]
        BY <3>2
      <4> QED
        BY <4>1, <3>2, <1>1 DEF Adds
    <3> QED
      BY <3>1, <3>2
  <2> QED
    BY <2>1, <2>2 DEF Adds
<1>3. SumOf(t) = h[n + 1]
  BY <1>2, SumUnique
<1> QED
  BY <1>1, <1>3

\* Equal lists have equal sums.
LEMMA SumSame ==
  ASSUME NEW s, NEW t, Len(s) \in Nat, Len(t) = Len(s), \A k \in 1 .. Len(s) : t[k] = s[k]
  PROVE  SumOf(t) = SumOf(s)
<1>1. PICK f : Adds(f, s) /\ SumOf(s) = f[Len(s)]
  BY SumLoop
<1>2. Adds(f, t)
  BY <1>1 DEF Adds
<1> QED
  BY <1>1, <1>2, SumUnique

\* The sum of numbers is a number.
LEMMA SumNumber ==
  ASSUME NEW T, T \in {Nat, Int}, NEW s, Len(s) \in Nat, \A k \in 1 .. Len(s) : s[k] \in T
  PROVE  SumOf(s) \in T
<1>1. PICK f : Adds(f, s) /\ SumOf(s) = f[Len(s)]
  BY SumLoop
<1> DEFINE S == {k \in Nat : f[k] \in T}
<1>2. 0 \in S
  BY <1>1 DEF Adds
<1>3. ASSUME NEW k \in 0 .. Len(s) - 1, k \in S PROVE k + 1 \in S
  <2>1. k + 1 \in 1 .. Len(s) /\ (k + 1) - 1 = k
    OBVIOUS
  <2>2. f[k + 1] = f[k] + s[k + 1] /\ f[k] \in T /\ s[k + 1] \in T
    BY <1>1, <1>3, <2>1 DEF Adds
  <2> QED
    BY <2>2
<1>4. \A k \in 0 .. Len(s) : k \in S
  <2> HIDE DEF S
  <2> QED
    BY <1>2, <1>3, InductionUpTo
<1> QED
  BY <1>1, <1>4

----------------------------------------------------------------------------
(* Pieces. *)

Gains(f, pieces, cut) ==
  /\ f[0] = pieces
  /\ \A k \in 1 .. Len(cut) : f[k] = Known(f[k - 1], cut[k])

\* The loop of KnownWith has a function that satisfies it.
LEMMA KnownLoop ==
  ASSUME NEW pieces, NEW cut, Len(cut) \in Nat
  PROVE  \E f : Gains(f, pieces, cut) /\ KnownWith(pieces, cut) = f[Len(cut)]
<1> DEFINE N == Len(cut)
           G(f, n) == f = [k \in 0 .. n |-> IF k = 0 THEN pieces
                                            ELSE Known(f[k - 1], cut[k])]
           S == {n \in Nat : \E f : G(f, n)}
<1>1. 0 \in S
  <2>1. G([k \in 0 .. 0 |-> pieces], 0)
    OBVIOUS
  <2> QED
    BY <2>1
<1>2. ASSUME NEW n \in S PROVE n + 1 \in S
  <2>1. PICK f : G(f, n)
    OBVIOUS
  <2> DEFINE h == [k \in 0 .. n + 1 |-> IF k = n + 1 THEN Known(f[n], cut[k]) ELSE f[k]]
  <2>2. \A k \in 0 .. n + 1 : h[k] = IF k = 0 THEN pieces ELSE Known(h[k - 1], cut[k])
    <3> TAKE k \in 0 .. n + 1
    <3>1. CASE k = 0
      BY <2>1, <3>1
    <3>2. CASE k = n + 1
      BY <3>2, <2>1
    <3>3. CASE k \in 1 .. n
      <4>1. h[k] = f[k] /\ h[k - 1] = f[k - 1]
        BY <3>3
      <4>2. f[k] = Known(f[k - 1], cut[k])
        BY <2>1, <3>3
      <4> QED
        BY <4>1, <4>2, <3>3
    <3> QED
      BY <3>1, <3>2, <3>3
  <2>3. h = [k \in 0 .. n + 1 |-> h[k]]
    OBVIOUS
  <2> HIDE DEF h
  <2>4. G(h, n + 1)
    BY <2>2, <2>3
  <2>4a. n + 1 \in Nat
    OBVIOUS
  <2> HIDE DEF G
  <2>5. \E g : G(g, n + 1)
    BY <2>4
  <2> QED
    BY <2>4a, <2>5
<1>3. S = Nat
  <2>1. S \in SUBSET Nat
    OBVIOUS
  <2> HIDE DEF S
  <2> QED
    BY <1>1, <1>2, <2>1, Induction
<1> DEFINE f == CHOOSE f : G(f, N)
<1>4. G(f, N)
  BY <1>3
<1>5. KnownWith(pieces, cut) = f[N]
  BY DEF KnownWith
<1> HIDE DEF f
<1>6. Gains(f, pieces, cut)
  BY <1>4 DEF Gains
<1> QED
  BY <1>5, <1>6

\* Adding one piece keeps the places of the others and makes it known.
LEMMA KnownOne ==
  ASSUME NEW A, NEW pieces \in Seq(A), NEW p \in A
  PROVE  /\ Known(pieces, p) \in Seq(A) /\ Len(pieces) <= Len(Known(pieces, p))
         /\ \A i \in 1 .. Len(pieces) : Known(pieces, p)[i] = pieces[i]
         /\ \E i \in 1 .. Len(Known(pieces, p)) : Known(pieces, p)[i] = p
<1>1. CASE Contains(pieces, p)
  <2>1. Known(pieces, p) = pieces
    BY <1>1 DEF Known
  <2> QED
    BY <1>1, <2>1 DEF Contains
<1>2. CASE ~Contains(pieces, p)
  <2>1. Known(pieces, p) = Append(pieces, p)
    BY <1>2 DEF Known
  <2>2. /\ Append(pieces, p) \in Seq(A) /\ Len(Append(pieces, p)) = Len(pieces) + 1
        /\ \A i \in 1 .. Len(pieces) : Append(pieces, p)[i] = pieces[i]
        /\ Append(pieces, p)[Len(pieces) + 1] = p /\ Len(pieces) \in Nat
    OBVIOUS
  <2> QED
    BY <2>1, <2>2
<1> QED
  BY <1>1, <1>2

\* So does adding those of a whole input.
LEMMA KnownFacts ==
  ASSUME NEW A, NEW pieces \in Seq(A), NEW cut, Len(cut) \in Nat,
         \A k \in 1 .. Len(cut) : cut[k] \in A
  PROVE  /\ KnownWith(pieces, cut) \in Seq(A) /\ Len(pieces) <= Len(KnownWith(pieces, cut))
         /\ \A i \in 1 .. Len(pieces) : KnownWith(pieces, cut)[i] = pieces[i]
         /\ \A k \in 1 .. Len(cut) :
              \E i \in 1 .. Len(KnownWith(pieces, cut)) : KnownWith(pieces, cut)[i] = cut[k]
<1>1. PICK f : Gains(f, pieces, cut) /\ KnownWith(pieces, cut) = f[Len(cut)]
  BY KnownLoop
<1> DEFINE Fits(g, n) ==
             /\ g \in Seq(A) /\ Len(pieces) <= Len(g)
             /\ \A i \in 1 .. Len(pieces) : g[i] = pieces[i]
             /\ \A k \in 1 .. n : \E i \in 1 .. Len(g) : g[i] = cut[k]
           S == {n \in Nat : Fits(f[n], n)}
<1>2. 0 \in S
  BY <1>1 DEF Gains
<1>3. ASSUME NEW n \in 0 .. Len(cut) - 1, n \in S PROVE n + 1 \in S
  <2>1. n + 1 \in 1 .. Len(cut) /\ (n + 1) - 1 = n /\ n \in Nat
    OBVIOUS
  <2>2. PICK g, c : g = f[n] /\ c = cut[n + 1]
    OBVIOUS
  <2>3. f[n + 1] = Known(g, c) /\ c \in A
    BY <1>1, <2>1, <2>2 DEF Gains
  <2>4. Fits(g, n)
    BY <1>3, <2>2
  <2>4a. g \in Seq(A)
    BY <2>4
  <2>5. PICK h : h = Known(g, c)
    OBVIOUS
  <2>6. /\ h \in Seq(A) /\ Len(g) <= Len(h)
        /\ \A i \in 1 .. Len(g) : h[i] = g[i]
        /\ \E i \in 1 .. Len(h) : h[i] = c
    <3>1. c \in A
      BY <2>3
    <3>2. /\ Known(g, c) \in Seq(A) /\ Len(g) <= Len(Known(g, c))
          /\ \A i \in 1 .. Len(g) : Known(g, c)[i] = g[i]
          /\ \E i \in 1 .. Len(Known(g, c)) : Known(g, c)[i] = c
      BY ONLY <2>4a, <3>1, KnownOne, ZenonT(60)
    <3> QED
      BY ONLY <2>5, <3>2
  <2>7. Len(pieces) \in Nat /\ Len(g) \in Nat /\ Len(h) \in Nat
    BY <2>4, <2>6
  <2>8. \A k \in 1 .. n + 1 : \E i \in 1 .. Len(h) : h[i] = cut[k]
    <3> TAKE k \in 1 .. n + 1
    <3>1. CASE k = n + 1
      BY <2>2, <2>6, <3>1
    <3>2. CASE k \in 1 .. n
      <4>1. PICK i \in 1 .. Len(g) : g[i] = cut[k]
        BY <2>4, <3>2
      <4>2. i \in 1 .. Len(h) /\ h[i] = cut[k]
        BY <2>6, <2>7, <4>1
      <4> QED
        BY <4>2
    <3> QED
      BY <2>1, <3>1, <3>2
  <2>9. Len(pieces) <= Len(h) /\ \A i \in 1 .. Len(pieces) : h[i] = pieces[i]
    BY <2>4, <2>6, <2>7
  <2> QED
    BY <2>1, <2>3, <2>5, <2>6, <2>8, <2>9, SMTT(30)
<1>4. \A n \in 0 .. Len(cut) : n \in S
  <2> HIDE DEF S
  <2> QED
    BY <1>2, <1>3, InductionUpTo
<1>5. Fits(f[Len(cut)], Len(cut))
  BY <1>4
<1> QED
  BY <1>1, <1>5

\* How far the first i chunks of len bytes reach.
Reach(i, len) == IF i * ChunkSize < len THEN i * ChunkSize ELSE len

NumChunks(len) == (len + ChunkSize - 1) \div ChunkSize

\* The chunks of a read cover 0 .. len without a gap: Reach is where the next one begins.
LEMMA ReachFacts ==
  ASSUME NEW len \in Nat
  PROVE  /\ NumChunks(len) \in Nat
         /\ \A i \in 0 .. NumChunks(len) : Reach(i, len) \in 0 .. len
         /\ \A i \in 1 .. NumChunks(len) : /\ (i - 1) * ChunkSize = Reach(i - 1, len)
                                           /\ Reach(i - 1, len) <= Reach(i, len)
         /\ Reach(0, len) = 0 /\ Reach(NumChunks(len), len) = len
<1> DEFINE n == NumChunks(len)
<1>1. PICK c \in Nat \ {0} : c = ChunkSize
  BY ArchiveAssumption
<1>2. n \in Int /\ n * c <= len + c - 1 /\ len + c - 1 < n * c + c
  <2>1. PICK x \in Nat : x = len + c - 1
    BY <1>1
  <2>2. x \div c \in Int /\ (x \div c) * c <= x /\ x < (x \div c) * c + c
    BY <1>1, <2>1
  <2> QED
    BY <1>1, <2>1, <2>2 DEF NumChunks
<1> HIDE DEF n
<1>3. n \in Nat
  <2>1. SUFFICES ASSUME n <= -1 PROVE FALSE
    BY <1>2
  <2>2. n * c <= -c
    BY <1>1, <1>2, <2>1
  <2> QED
    BY <1>1, <1>2, <2>2
<1>4. ASSUME NEW i \in Nat PROVE i * c \in Nat /\ i * c <= (i + 1) * c
  BY <1>1
<1>5. \A i \in 0 .. n : Reach(i, len) \in 0 .. len
  BY <1>1, <1>3, <1>4 DEF Reach
<1>6. ASSUME NEW i \in 1 .. n
      PROVE  (i - 1) * c = Reach(i - 1, len) /\ Reach(i - 1, len) <= Reach(i, len)
  <2>1. i \in Nat /\ i - 1 \in Nat /\ (i - 1) + 1 = i
    BY <1>3
  <2>2. (i - 1) * c \in Nat /\ (i - 1) * c <= i * c /\ i * c \in Nat
    BY <1>4, <2>1
  <2>3. (i - 1) * c <= (n - 1) * c /\ (n - 1) * c = n * c - c
    BY <1>1, <1>3, <2>1
  <2>4. (i - 1) * c < len
    BY <1>1, <1>2, <1>3, <2>2, <2>3
  <2> QED
    BY <1>1, <2>2, <2>4 DEF Reach
<1>7. Reach(0, len) = 0 /\ Reach(n, len) = len
  <2>1. 0 * c = 0 /\ n * c \in Nat /\ n * c >= len
    BY <1>1, <1>2, <1>3, <1>4
  <2> QED
    BY <1>1, <2>1 DEF Reach
<1> QED
  BY <1>1, <1>3, <1>5, <1>6, <1>7 DEF n

\* A chunk is a stretch of the input.
LEMMA ChunkFacts ==
  ASSUME NEW data \in Seq(Nat)
  PROVE  /\ IsSeq(Chunks(data)) /\ Len(Chunks(data)) = NumChunks(Len(data))
         /\ \A i \in 1 .. NumChunks(Len(data)) :
              /\ Chunks(data)[i] \in Seq(Nat)
              /\ Len(Chunks(data)[i]) = Reach(i, Len(data)) - Reach(i - 1, Len(data))
              /\ \A k \in 1 .. Reach(i, Len(data)) - Reach(i - 1, Len(data)) :
                   Chunks(data)[i][k] = data[Reach(i - 1, Len(data)) + k]
<1> DEFINE n == NumChunks(Len(data))
           g == Chunks(data)
<1>1. Len(data) \in Nat /\ n \in Nat
  BY ReachFacts
<1>2. g = [i \in 1 .. n |-> SubSeq(data, (i - 1) * ChunkSize + 1, Reach(i, Len(data)))]
  BY DEF Chunks, NumChunks, Reach
<1>3. g = [i \in 1 .. n |-> g[i]] /\ \A i \in 1 .. n : g[i] = SubSeq(data, (i - 1) * ChunkSize + 1, Reach(i, Len(data)))
  BY <1>2
<1> HIDE DEF g
<1>4. IsSeq(g) /\ Len(g) = n
  BY <1>1, <1>3, FunctionIsSeq
<1>5. ASSUME NEW i \in 1 .. n
      PROVE  /\ g[i] \in Seq(Nat)
             /\ Len(g[i]) = Reach(i, Len(data)) - Reach(i - 1, Len(data))
             /\ \A k \in 1 .. Reach(i, Len(data)) - Reach(i - 1, Len(data)) :
                  g[i][k] = data[Reach(i - 1, Len(data)) + k]
  <2>1. PICK a, b : a = Reach(i - 1, Len(data)) /\ b = Reach(i, Len(data))
    OBVIOUS
  <2>2. /\ i - 1 \in 0 .. n /\ i \in 0 .. n
        /\ a \in 0 .. Len(data) /\ b \in 0 .. Len(data) /\ a <= b /\ (i - 1) * ChunkSize = a
    <3>1. i - 1 \in 0 .. n /\ i \in 0 .. n
      BY <1>1
    <3> QED
      BY <1>1, <2>1, <3>1, ReachFacts
  <2>3. PICK m \in Nat : b = a + m
    <3>1. b - a \in Nat /\ b = a + (b - a)
      BY <1>1, <2>2
    <3> QED
      BY <3>1
  <2>4. g[i] = SubSeq(data, a + 1, a + m)
    BY <1>3, <2>1, <2>2, <2>3
  <2>5. a \in Nat
    BY <2>2
  <2>6. /\ Len(SubSeq(data, a + 1, a + m)) = m
        /\ \A k \in 1 .. m : SubSeq(data, a + 1, a + m)[k] = data[a + k]
    BY ONLY <2>3, <2>5, Stretch
  <2>7. SubSeq(data, a + 1, a + m) \in Seq(Nat)
    BY <1>1, <2>2, <2>3, <2>5
  <2>8. b - a = m
    BY <2>3, <2>5
  <2> QED
    BY <2>1, <2>4, <2>6, <2>7, <2>8
<1> QED
  BY <1>4, <1>5 DEF g

----------------------------------------------------------------------------
(* Types are kept.                                                         *)

\* What Gather makes of an input: the pieces known then, and its entry.
Cut(i)     == Chunks(disk[Inputs[i]])
Pool(i)    == KnownWith(create.pieces, Cut(i))
Placed(i)  == [k \in DOMAIN Cut(i) |-> CHOOSE j \in DOMAIN Pool(i) : Pool(i)[j] = Cut(i)[k]]
EntryAt(i) == Entry(paths[Inputs[i]], Len(disk[Inputs[i]]), Placed(i))

\* Gather, with its parts named.
LEMMA GatherCases ==
  ASSUME Gather
  PROVE  /\ create.pc = "gather" /\ UNCHANGED <<file, steady>>
         /\ \/ create.at > Count /\ create' = Go("emit")
            \/ ~(create.at > Count) /\ ~Present(create.at) /\ create' = Go("failed")
            \/ /\ ~(create.at > Count) /\ Present(create.at)
               /\ create' = [create EXCEPT !.pieces = Pool(create.at), !.at = @ + 1,
                                           !.entries = Append(@, EntryAt(create.at))]
  BY DEF Gather, Pool, Placed, Cut, EntryAt

\* What an input present holds is cut into pieces that the pool has at their places.
LEMMA CutFacts ==
  ASSUME Typed, NEW i \in 1 .. Count, Present(i)
  PROVE  /\ disk[Inputs[i]] \in Contents /\ disk[Inputs[i]] \in Seq(Nat) /\ Len(disk[Inputs[i]]) \in Nat
         /\ IsSeq(Cut(i)) /\ Len(Cut(i)) = NumChunks(Len(disk[Inputs[i]])) /\ Len(Cut(i)) \in Nat
         /\ Pool(i) \in Seq(Seq(Nat)) /\ Len(create.pieces) <= Len(Pool(i))
         /\ \A k \in 1 .. Len(create.pieces) : Pool(i)[k] = create.pieces[k]
         /\ IsSeq(Placed(i)) /\ Len(Placed(i)) = Len(Cut(i))
         /\ \A k \in 1 .. Len(Cut(i)) : Placed(i)[k] \in 1 .. Len(Pool(i)) /\ Pool(i)[Placed(i)[k]] = Cut(i)[k]
         /\ EntryAt(i) \in EntryCell
<1>1. PICK data : data = disk[Inputs[i]]
  OBVIOUS
<1>2. data \in Contents /\ data \in Seq(Nat) /\ Len(data) \in Nat
  BY <1>1, InputFacts DEF Typed, Held, Present
<1>3. PICK cut : cut = Chunks(data)
  OBVIOUS
<1>4. /\ IsSeq(cut) /\ Len(cut) = NumChunks(Len(data)) /\ Len(cut) \in Nat
      /\ DOMAIN cut = 1 .. Len(cut)
      /\ \A k \in 1 .. Len(cut) : cut[k] \in Seq(Nat)
  BY <1>2, <1>3, ChunkFacts, ReachFacts, IsSeqFacts
<1>5. PICK pool : pool = KnownWith(create.pieces, cut)
  OBVIOUS
<1>6. create.pieces \in Seq(Seq(Nat))
  BY DEF Typed, Runs
<1>7. PICK pieces : pieces = create.pieces
  OBVIOUS
<1>8. pieces \in Seq(Seq(Nat)) /\ pool = KnownWith(pieces, cut)
  BY <1>5, <1>6, <1>7
<1>9. PICK A : A = Seq(Nat)
  OBVIOUS
<1>10. pieces \in Seq(A) /\ Len(cut) \in Nat /\ \A k \in 1 .. Len(cut) : cut[k] \in A
  BY <1>4, <1>8, <1>9
<1>11. /\ KnownWith(pieces, cut) \in Seq(A) /\ Len(pieces) <= Len(KnownWith(pieces, cut))
       /\ \A k \in 1 .. Len(pieces) : KnownWith(pieces, cut)[k] = pieces[k]
       /\ \A k \in 1 .. Len(cut) :
            \E j \in 1 .. Len(KnownWith(pieces, cut)) : KnownWith(pieces, cut)[j] = cut[k]
  BY ONLY <1>10, KnownFacts
<1>12. /\ pool \in Seq(A) /\ Len(pieces) <= Len(pool) /\ DOMAIN pool = 1 .. Len(pool)
       /\ \A k \in 1 .. Len(pieces) : pool[k] = pieces[k]
       /\ \A k \in 1 .. Len(cut) : \E j \in 1 .. Len(pool) : pool[j] = cut[k]
  <2>1. /\ pool \in Seq(A) /\ Len(pieces) <= Len(pool)
        /\ \A k \in 1 .. Len(pieces) : pool[k] = pieces[k]
        /\ \A k \in 1 .. Len(cut) : \E j \in 1 .. Len(pool) : pool[j] = cut[k]
    BY ONLY <1>8, <1>11
  <2> QED
    BY <2>1
<1>13. PICK placed : placed = [k \in 1 .. Len(cut) |-> CHOOSE j \in 1 .. Len(pool) : pool[j] = cut[k]]
  OBVIOUS
<1>14. /\ placed = [k \in 1 .. Len(cut) |-> placed[k]]
       /\ \A k \in 1 .. Len(cut) : placed[k] \in 1 .. Len(pool) /\ pool[placed[k]] = cut[k]
  <2>1. \A k \in 1 .. Len(cut) : placed[k] = CHOOSE j \in 1 .. Len(pool) : pool[j] = cut[k]
    BY <1>13
  <2>2. placed = [k \in 1 .. Len(cut) |-> placed[k]]
    BY <1>13
  <2> QED
    BY <1>12, <2>1, <2>2
<1>15. IsSeq(placed) /\ Len(placed) = Len(cut)
  BY <1>4, <1>14, FunctionIsSeq
<1>16. Cut(i) = cut /\ Pool(i) = pool /\ Placed(i) = placed
  BY <1>1, <1>3, <1>4, <1>5, <1>12, <1>13 DEF Cut, Pool, Placed
<1>17. EntryAt(i) \in EntryCell
  <2>1. paths[Inputs[i]] \in Paths
    BY InputFacts DEF Typed
  <2>2. Len(pool) \in Nat
    BY <1>12
  <2>3. placed \in Seq(Nat)
    BY <1>4, <1>14, <2>2
  <2> QED
    BY <1>1, <1>2, <1>16, <2>1, <2>3 DEF EntryAt, Entry, EntryCell
<1> QED
  BY <1>1, <1>2, <1>4, <1>7, <1>9, <1>12, <1>14, <1>15, <1>16, <1>17

\* The stages of create by name, the writing ones among them.
LEMMA StageFacts ==
  /\ Stages = {"idle", "refused", "done", "failed", "crashed", "truncated", "gather", "emit", "table",
               "footer", "decide", "hash", "copy", "storefooter"}
  /\ Writing \subseteq Stages
  BY DEF Stages, Writing

\* What going to a stage changes.
LEMMA GoFacts ==
  ASSUME Typed, NEW s \in Stages, NEW c, c = Go(s)
  PROVE  /\ c \in Runs(create.packed) /\ c.pc = s /\ c.at = 1
         /\ c.dict = create.dict /\ c.pieces = create.pieces /\ c.entries = create.entries
         /\ c.packed = create.packed /\ c.edits = create.edits
<1>1. /\ c.pc = s /\ c.at = 1 /\ c.dict = create.dict /\ c.pieces = create.pieces
      /\ c.entries = create.entries /\ c.packed = create.packed /\ c.edits = create.edits
  BY DEF Typed, Runs, Go
<1>2. c \in Runs(create.packed)
  <2>1. PICK a : a = 1
    OBVIOUS
  <2>2. c = [create EXCEPT !.pc = s, !.at = a] /\ a \in Nat \ {0} /\ create \in Runs(create.packed)
    BY <2>1 DEF Go, Typed
  <2>3. [create EXCEPT !.pc = s, !.at = a] \in Runs(create.packed)
    BY <2>2 DEF Runs
  <2> QED
    BY ONLY <2>2, <2>3
<1> QED
  BY <1>1, <1>2

\* What taking the next item changes.
LEMMA NextItem ==
  ASSUME Typed, NEW c, c = [create EXCEPT !.at = @ + 1]
  PROVE  /\ c \in Runs(create.packed) /\ c.pc = create.pc /\ c.at = create.at + 1
         /\ c.dict = create.dict /\ c.pieces = create.pieces /\ c.entries = create.entries
         /\ c.packed = create.packed /\ c.edits = create.edits
<1>1. /\ c.pc = create.pc /\ c.at = create.at + 1
      /\ c.dict = create.dict /\ c.pieces = create.pieces /\ c.entries = create.entries
      /\ c.packed = create.packed /\ c.edits = create.edits
  BY DEF Typed, Runs
<1>2. c \in Runs(create.packed)
  <2>1. PICK a : a = create.at + 1
    OBVIOUS
  <2>2. c = [create EXCEPT !.at = a] /\ a \in Nat \ {0} /\ create \in Runs(create.packed)
    BY <2>1 DEF Typed, Runs
  <2>3. [create EXCEPT !.at = a] \in Runs(create.packed)
    BY <2>2 DEF Runs
  <2> QED
    BY ONLY <2>2, <2>3
<1> QED
  BY <1>1, <1>2

\* What gathering an input changes.
LEMMA GatherItem ==
  ASSUME Typed, NEW pool \in Seq(Seq(Nat)), NEW e \in EntryCell,
         create' = [create EXCEPT !.pieces = pool, !.at = @ + 1, !.entries = Append(@, e)]
  PROVE  /\ create' \in Runs(create.packed) /\ create'.pc = create.pc /\ create'.at = create.at + 1
         /\ create'.dict = create.dict /\ create'.pieces = pool
         /\ create'.entries = Append(create.entries, e)
         /\ create'.packed = create.packed /\ create'.edits = create.edits
<1>1. PICK a, list : a = create.at + 1 /\ list = Append(create.entries, e)
  OBVIOUS
<1>2. create \in Runs(create.packed) /\ a \in Nat \ {0} /\ list \in Seq(EntryCell)
  BY <1>1 DEF Typed, Runs
<1>3. create' = [create EXCEPT !.pieces = pool, !.at = a, !.entries = list]
  BY <1>1, <1>2 DEF Runs
<1>4. [create EXCEPT !.pieces = pool, !.at = a, !.entries = list] \in Runs(create.packed)
  BY <1>2 DEF Runs
<1>5. /\ create'.pc = create.pc /\ create'.at = a
      /\ create'.dict = create.dict /\ create'.pieces = pool /\ create'.entries = list
      /\ create'.packed = create.packed /\ create'.edits = create.edits
  BY <1>2, <1>3 DEF Runs
<1> QED
  BY <1>1, <1>3, <1>4, <1>5

\* The run goes on with other inputs, or without: the inputs it has seen are kept.
LEMMA TypedSteady ==
  ASSUME Typed, UNCHANGED <<disk, paths, dictFile, seen>>, create.pc # "idle" \/ create'.pc = "idle",
         NEW packed, create' \in Runs(packed), create'.edits = create.edits
  PROVE  Typed'
<1>1. create'.packed = packed
  BY DEF Runs
<1> QED
  BY <1>1 DEF Typed

\* The types hold at the start.
LEMMA TypedInit ==
  ASSUME Init
  PROVE  Typed
<1>1. disk \in [ToSet(Inputs) -> Held] /\ paths \in Naming /\ dictFile \in Dicts
  BY DEF Init, Held
<1>2. seen \in [ToSet(Inputs) -> SUBSET Held]
  BY DEF Init
<1>3. create \in Runs(create.packed) /\ create.pc = "idle"
  <2>1. PICK d \in {NoDict, dictFile} :
          create = [pc |-> "idle", dict |-> d, pieces |-> <<>>, entries |-> <<>>,
                    packed |-> 0, edits |-> 0, at |-> 1]
    BY DEF Init
  <2>2. d \in Dicts \cup {NoDict} /\ <<>> \in Seq(Seq(Nat)) /\ <<>> \in Seq(EntryCell)
    BY <1>1
  <2>3. "idle" \in Stages
    BY StageFacts
  <2> QED
    BY <2>1, <2>2, <2>3 DEF Runs
<1> QED
  BY <1>1, <1>2, <1>3 DEF Typed

\* Every action of the create run but the first.
CreateRest == \/ WriteHeader \/ Gather \/ EmitPiece \/ WriteTable \/ WriteFooter
              \/ KeepCompressed \/ RestartAsStore \/ StoreHash \/ StoreCopy \/ StoreFooter

\* The steps of create after the chunk loop, and a crash, keep the types.
LEMMA TypedCreate ==
  ASSUME Typed, CreateRest \/ Crash
  PROVE  Typed'
<1>1. UNCHANGED <<disk, paths, dictFile, seen>>
  BY DEF CreateRest, WriteHeader, Gather, EmitPiece, WriteTable, WriteFooter, KeepCompressed,
         RestartAsStore, StoreHash, StoreCopy, StoreFooter, Crash, steady
<1>2. create.pc # "idle"
  BY DEF CreateRest, WriteHeader, Gather, EmitPiece, WriteTable, WriteFooter, KeepCompressed,
         RestartAsStore, StoreHash, StoreCopy, StoreFooter, Crash, Writing
<1>3. \E packed : create' \in Runs(packed) /\ create'.edits = create.edits
  <2>1. CASE \E s \in Stages : create' = Go(s)
    BY <2>1, GoFacts
  <2>2. CASE create' = [create EXCEPT !.at = @ + 1]
    BY <2>2, NextItem
  <2>3. CASE Gather
    <3>1. CASE create' = Go("emit") \/ create' = Go("failed")
      BY <2>1, <3>1, StageFacts
    <3>2. CASE /\ ~(create.at > Count) /\ Present(create.at)
               /\ create' = [create EXCEPT !.pieces = Pool(create.at), !.at = @ + 1,
                                           !.entries = Append(@, EntryAt(create.at))]
      <4>1. create.at \in 1 .. Count
        BY <3>2, InputFacts DEF Typed, Runs
      <4>2. Pool(create.at) \in Seq(Seq(Nat)) /\ EntryAt(create.at) \in EntryCell
        BY <3>2, <4>1, CutFacts
      <4>3. PICK pool, e : pool = Pool(create.at) /\ e = EntryAt(create.at)
        OBVIOUS
      <4>4. create' = [create EXCEPT !.pieces = pool, !.at = @ + 1, !.entries = Append(@, e)]
        BY <3>2, <4>3
      <4> QED
        <5>1. pool \in Seq(Seq(Nat)) /\ e \in EntryCell
          BY <4>2, <4>3
        <5>2. create' \in Runs(create.packed) /\ create'.edits = create.edits
          BY ONLY Typed, <5>1, <4>4, GatherItem
        <5> QED
          BY <5>2
    <3> QED
      BY <2>3, <3>1, <3>2, GatherCases
  <2>4. CASE WriteFooter
    <3>1. PICK c, p : c = Go("decide") /\ p = SizeOf(file') /\ create' = [c EXCEPT !.packed = p]
      BY <2>4 DEF WriteFooter
    <3>2. c \in Runs(create.packed) /\ c.edits = create.edits
      BY <3>1, GoFacts, StageFacts
    <3>3. create' \in Runs(p) /\ create'.edits = create.edits
      BY <3>1, <3>2 DEF Runs
    <3> QED
      BY <3>3
  <2>5. CASE (CreateRest /\ ~Gather /\ ~WriteFooter) \/ Crash
    <3>1. \/ create' = [create EXCEPT !.at = @ + 1]
          \/ \E s \in {"gather", "table", "footer", "done", "hash", "copy", "failed", "storefooter", "crashed"} :
               create' = Go(s)
      BY <2>5 DEF CreateRest, WriteHeader, EmitPiece, WriteTable, KeepCompressed, RestartAsStore,
                  StoreHash, StoreCopy, StoreFooter, Crash
    <3> QED
      BY <2>1, <2>2, <3>1, StageFacts
  <2> QED
    BY <2>3, <2>4, <2>5
<1> QED
  BY <1>1, <1>2, <1>3, TypedSteady

\* Every step keeps the types.
LEMMA TypedNext ==
  ASSUME Typed, [Next]_vars
  PROVE  Typed'
<1>1. CASE Truncate
  <2>1. \E s \in {"truncated", "refused"} : create' = Go(s)
    BY <1>1 DEF Truncate
  <2>2. create' \in Runs(create.packed) /\ create'.packed = create.packed
    <3>1. PICK s \in Stages : create' = Go(s)
      BY <2>1, StageFacts
    <3> QED
      BY ONLY Typed, <3>1, GoFacts
  <2>3. seen' = [i \in ToSet(Inputs) |-> {disk[i]}] /\ UNCHANGED <<disk, paths, dictFile>>
    BY <1>1 DEF Truncate
  <2>4. seen' \in [ToSet(Inputs) -> SUBSET Held] /\ \A i \in ToSet(Inputs) : seen'[i] = {disk'[i]}
    BY <2>3 DEF Typed
  <2> QED
    BY <2>2, <2>3, <2>4 DEF Typed
<1>2. CASE CreateRest \/ Crash
  BY <1>2, TypedCreate
<1>3. CASE EditInput
  <2>1. PICK i \in ToSet(Inputs), c \in Held :
          /\ disk' = [disk EXCEPT ![i] = c]
          /\ seen' = [seen EXCEPT ![i] = IF create.pc = "idle" THEN @ ELSE @ \cup {c}]
    BY <1>3 DEF EditInput, Held
  <2>2. create' = [create EXCEPT !.edits = @ + 1] /\ UNCHANGED <<paths, dictFile>>
    BY <1>3 DEF EditInput
  <2>3. create' \in Runs(create.packed) /\ create'.packed = create.packed /\ create'.pc = create.pc
        /\ create'.edits = create.edits + 1 /\ create.edits \in Nat
    <3>1. PICK n : n = create.edits + 1
      OBVIOUS
    <3>2. create' = [create EXCEPT !.edits = n] /\ n \in Nat /\ create \in Runs(create.packed)
      BY <2>2, <3>1 DEF Typed, Runs
    <3>3. [create EXCEPT !.edits = n] \in Runs(create.packed)
      BY <3>2 DEF Runs
    <3>4. create' \in Runs(create.packed)
      BY ONLY <3>2, <3>3
    <3>5. create'.packed = create.packed /\ create'.pc = create.pc /\ create'.edits = n
          /\ create.edits \in Nat
      BY <3>2 DEF Runs
    <3> QED
      BY <3>1, <3>4, <3>5
  <2>4. disk' \in [ToSet(Inputs) -> Held]
    BY <2>1 DEF Typed
  <2>5. PICK more : more = IF create.pc = "idle" THEN seen[i] ELSE seen[i] \cup {c}
    OBVIOUS
  <2>6. seen' = [seen EXCEPT ![i] = more] /\ more \in SUBSET Held
    BY <2>1, <2>5 DEF Typed
  <2>7. seen' \in [ToSet(Inputs) -> SUBSET Held]
    BY <2>6 DEF Typed
  <2>8. create.pc # "idle" => \A j \in ToSet(Inputs) : disk'[j] \in seen'[j]
    BY <2>1, <2>5, <2>6 DEF Typed
  <2> QED
    BY <2>2, <2>3, <2>4, <2>7, <2>8 DEF Typed
<1>4. CASE Retrain
  <2>1. dictFile' \in Dicts /\ UNCHANGED <<disk, paths, seen, create>>
    BY <1>4 DEF Retrain
  <2> QED
    BY <2>1 DEF Typed
<1>5. CASE DamagePayload \/ DamageTable \/ CutTail \/ OpenAndDecode \/ WriteEntry \/ UNCHANGED vars
  <2>1. UNCHANGED <<disk, paths, dictFile, seen, create>>
    BY <1>5 DEF DamagePayload, DamageTable, Damage, CutTail, OpenAndDecode, WriteEntry, vars
  <2> QED
    BY <2>1 DEF Typed
<1> QED
  BY <1>1, <1>2, <1>3, <1>4, <1>5 DEF Next, Create, CreateRest

----------------------------------------------------------------------------
(* The entries gathered.                                                   *)

\* e is the entry of content c at a path, in terms of a pool of pieces.
Spells(e, path, c, pool) ==
  /\ e.path = path /\ e.len = Len(c)
  /\ IsSeq(e.refs) /\ Len(e.refs) = NumChunks(Len(c))
  /\ \A j \in 1 .. NumChunks(Len(c)) : e.refs[j] \in 1 .. Len(pool) /\ pool[e.refs[j]] = Chunks(c)[j]

\* Entry k spells something that input k held while create ran.
Spelled(k) ==
  \E c \in seen[Inputs[k]] \ {Gone} : Spells(create.entries[k], paths[Inputs[k]], c, create.pieces)

Listing == {"emit", "table", "footer", "decide", "hash", "copy", "storefooter", "done"}

\* Each input gathered has its entry, in order.
Gathered ==
  /\ \A k \in 1 .. Len(create.entries) : k <= Count /\ Spelled(k)
  /\ create.pc \in {"idle", "refused", "truncated"} => Len(create.pieces) = 0 /\ Len(create.entries) = 0
  /\ create.pc = "gather" => create.at <= Count + 1 /\ Len(create.entries) = create.at - 1
  /\ create.pc \in Listing => Len(create.entries) = Count

\* An entry spells the same content over a pool that only grew.
LEMMA SpellsMore ==
  ASSUME NEW e, NEW path, NEW c, NEW pool, NEW more, Spells(e, path, c, pool),
         Len(pool) \in Nat, Len(more) \in Nat, Len(pool) <= Len(more),
         \A k \in 1 .. Len(pool) : more[k] = pool[k]
  PROVE  Spells(e, path, c, more)
  BY DEF Spells

\* The fields of the create record and what they are made of.
LEMMA RunFields ==
  ASSUME Typed
  PROVE  /\ create.pieces \in Seq(Seq(Nat)) /\ Len(create.pieces) \in Nat /\ IsSeq(create.pieces)
         /\ create.entries \in Seq(EntryCell) /\ Len(create.entries) \in Nat /\ IsSeq(create.entries)
         /\ \A k \in 1 .. Len(create.entries) : create.entries[k] \in EntryCell
         /\ create.at \in Nat \ {0} /\ create.edits \in Nat /\ create.dict \in Dicts \cup {NoDict}
         /\ create.pc \in Stages
<1>1. /\ create.pieces \in Seq(Seq(Nat)) /\ create.entries \in Seq(EntryCell)
      /\ create.at \in Nat \ {0} /\ create.edits \in Nat /\ create.dict \in Dicts \cup {NoDict}
      /\ create.pc \in Stages
  BY DEF Typed, Runs
<1> QED
  BY <1>1, SeqFacts

\* Nothing is gathered at the start.
LEMMA GatheredInit ==
  ASSUME Init
  PROVE  Gathered
<1>1. create.entries = <<>> /\ create.pieces = <<>> /\ create.pc = "idle"
  BY DEF Init
<1> QED
  BY <1>1 DEF Gathered, Listing

\* While entries and pieces stay and the inputs' history grows, so do the entries' meanings.
LEMMA SpelledKept ==
  ASSUME Typed, Gathered, paths' = paths, create'.entries = create.entries, create'.pieces = create.pieces,
         \A i \in ToSet(Inputs) : seen[i] \subseteq seen'[i]
  PROVE  \A k \in 1 .. Len(create'.entries) : k <= Count /\ Spelled(k)'
<1>1. Len(create.entries) \in Nat
  BY RunFields
<1>2. ASSUME NEW k \in 1 .. Len(create.entries) PROVE k <= Count /\ Spelled(k)'
  <2>1. k <= Count /\ Spelled(k)
    BY DEF Gathered
  <2>2. k \in 1 .. Count
    BY <1>1, <2>1, InputFacts
  <2>3. seen[Inputs[k]] \subseteq seen'[Inputs[k]]
    BY <2>2, InputFacts
  <2>4. PICK c \in seen[Inputs[k]] \ {Gone} : Spells(create.entries[k], paths[Inputs[k]], c, create.pieces)
    BY <2>1 DEF Spelled
  <2>5. c \in seen'[Inputs[k]] \ {Gone} /\ Spells(create'.entries[k], paths'[Inputs[k]], c, create'.pieces)
    BY <2>3, <2>4
  <2> QED
    BY <2>1, <2>5 DEF Spelled
<1> QED
  BY <1>2

\* Every step keeps what create gathered: the entries listed so far spell contents that
\* were read.
LEMMA GatheredNext ==
  ASSUME Typed, Gathered, [Next]_vars
  PROVE  Gathered'
<1>1. CASE Truncate
  <2>1. PICK s \in Stages : create' = Go(s) /\ s \in {"truncated", "refused"} /\ create.pc = "idle"
    BY <1>1, StageFacts DEF Truncate
  <2>2. create'.pc = s /\ create'.entries = create.entries /\ create'.pieces = create.pieces
    BY <2>1, GoFacts
  <2>3. Len(create.pieces) = 0 /\ Len(create.entries) = 0
    BY <2>1 DEF Gathered
  <2> QED
    BY <2>1, <2>2, <2>3 DEF Gathered, Listing
<1>2. CASE Gather
  <2>1. UNCHANGED <<disk, paths, seen>> /\ create.pc = "gather"
    BY <1>2, GatherCases DEF steady
  <2>2. create.at <= Count + 1 /\ Len(create.entries) = create.at - 1
    BY <2>1 DEF Gathered
  <2>3. CASE create.at > Count /\ create' = Go("emit")
    <3>1. create'.pc = "emit" /\ create'.entries = create.entries /\ create'.pieces = create.pieces
      BY <2>3, GoFacts, StageFacts
    <3>2. Len(create'.entries) = Count
      BY <2>2, <2>3, <3>1, RunFields, InputFacts
    <3>3. \A k \in 1 .. Len(create'.entries) : k <= Count /\ Spelled(k)'
      BY <2>1, <3>1, SpelledKept
    <3> QED
      BY <3>1, <3>2, <3>3 DEF Gathered
  <2>4. CASE create' = Go("failed")
    <3>1. create'.pc = "failed" /\ create'.entries = create.entries /\ create'.pieces = create.pieces
      BY <2>4, GoFacts, StageFacts
    <3>2. \A k \in 1 .. Len(create'.entries) : k <= Count /\ Spelled(k)'
      BY <2>1, <3>1, SpelledKept
    <3> QED
      BY <3>1, <3>2 DEF Gathered, Listing
  <2>5. CASE /\ ~(create.at > Count) /\ Present(create.at)
             /\ create' = [create EXCEPT !.pieces = Pool(create.at), !.at = @ + 1,
                                         !.entries = Append(@, EntryAt(create.at))]
    <3>1. PICK i \in 1 .. Count : i = create.at
      BY <2>5, InputFacts, RunFields
    <3>2. PICK pool, e, data : pool = Pool(i) /\ e = EntryAt(i) /\ data = disk[Inputs[i]]
      OBVIOUS
    <3>3. /\ data \in Contents /\ Len(data) \in Nat
          /\ Len(Cut(i)) = NumChunks(Len(data)) /\ Len(Cut(i)) \in Nat /\ Cut(i) = Chunks(data)
          /\ pool \in Seq(Seq(Nat)) /\ Len(create.pieces) <= Len(pool)
          /\ \A k \in 1 .. Len(create.pieces) : pool[k] = create.pieces[k]
          /\ IsSeq(Placed(i)) /\ Len(Placed(i)) = Len(Cut(i))
          /\ \A k \in 1 .. Len(Cut(i)) : Placed(i)[k] \in 1 .. Len(pool) /\ pool[Placed(i)[k]] = Cut(i)[k]
          /\ e \in EntryCell
      BY <2>5, <3>1, <3>2, CutFacts DEF Cut
    <3>4. e = Entry(paths[Inputs[i]], Len(data), Placed(i))
      BY <3>2 DEF EntryAt
    <3>5. Spells(e, paths[Inputs[i]], data, pool)
      BY <3>3, <3>4 DEF Spells, Entry
    <3>6. create' = [create EXCEPT !.pieces = pool, !.at = @ + 1, !.entries = Append(@, e)]
      BY <2>5, <3>1, <3>2
    <3>7. pool \in Seq(Seq(Nat)) /\ e \in EntryCell
      BY <3>3
    <3>8. /\ create'.pc = create.pc /\ create'.at = create.at + 1 /\ create'.pieces = pool
          /\ create'.entries = Append(create.entries, e)
      BY ONLY Typed, <3>6, <3>7, GatherItem
    <3>9. PICK list, n : list = create.entries /\ n = Len(create.entries)
      OBVIOUS
    <3>10. /\ n \in Nat /\ n + 1 = i /\ Len(create'.entries) = n + 1 /\ create'.entries[n + 1] = e
           /\ \A k \in 1 .. n : create'.entries[k] = list[k]
      BY <2>2, <3>1, <3>7, <3>8, <3>9, RunFields, AppendCell
    <3>11. ASSUME NEW k \in 1 .. n + 1 PROVE k <= Count /\ Spelled(k)'
      <4>1. CASE k = n + 1
        <5>1. data \in seen[Inputs[i]] \ {Gone}
          BY <2>1, <3>1, <3>2, <3>3, InputFacts DEF Typed
        <5>2. Spells(create'.entries[k], paths'[Inputs[k]], data, create'.pieces)
          BY <2>1, <3>5, <3>8, <3>10, <4>1
        <5>3. data \in seen'[Inputs[k]] \ {Gone} /\ k <= Count
          BY <2>1, <3>10, <4>1, <5>1
        <5> QED
          BY <5>2, <5>3 DEF Spelled
      <4>2. CASE k \in 1 .. n
        <5>1. k <= Count /\ Spelled(k)
          BY <3>9, <4>2 DEF Gathered
        <5>2. PICK c \in seen[Inputs[k]] \ {Gone} :
                Spells(list[k], paths[Inputs[k]], c, create.pieces)
          BY <3>9, <5>1 DEF Spelled
        <5>3. Len(create.pieces) \in Nat /\ Len(pool) \in Nat
          BY <3>3, RunFields
        <5>4. Spells(list[k], paths[Inputs[k]], c, pool)
          BY ONLY <3>3, <5>2, <5>3, SpellsMore
        <5>5. Spells(create'.entries[k], paths'[Inputs[k]], c, create'.pieces)
          BY <2>1, <3>8, <3>10, <4>2, <5>4
        <5>6. c \in seen'[Inputs[k]] \ {Gone}
          BY <2>1, <5>2
        <5> QED
          BY <5>1, <5>5, <5>6 DEF Spelled
      <4> QED
        BY <3>10, <4>1, <4>2
    <3>12. create'.pc = "gather" /\ create'.at <= Count + 1 /\ Len(create'.entries) = create'.at - 1
      BY <2>1, <3>1, <3>8, <3>10, InputFacts
    <3> QED
      BY <3>10, <3>11, <3>12 DEF Gathered, Listing
  <2> QED
    BY <1>2, <2>3, <2>4, <2>5, GatherCases
<1>3. CASE (CreateRest /\ ~Gather) \/ Crash
  <2>1. UNCHANGED <<paths, seen>>
    BY <1>3 DEF CreateRest, WriteHeader, EmitPiece, WriteTable, WriteFooter, KeepCompressed,
         RestartAsStore, StoreHash, StoreCopy, StoreFooter, Crash, steady
  <2>2. /\ create'.entries = create.entries /\ create'.pieces = create.pieces
        /\ \/ create'.pc = create.pc /\ create.pc \in Listing
           \/ create.pc = "truncated" /\ create'.pc = "gather" /\ create'.at = 1
           \/ create.pc \in Listing /\ create'.pc \in Listing
           \/ create'.pc \in {"failed", "crashed"}
    <3>1. CASE create' = [create EXCEPT !.at = @ + 1] /\ create.pc \in Listing
      BY <3>1, NextItem
    <3>2. CASE create.pc = "truncated" /\ create' = Go("gather")
      BY <3>2, GoFacts, StageFacts
    <3>3. CASE create.pc \in Listing /\ \E s \in Listing : create' = Go(s)
      <4>1. PICK s \in Listing : create' = Go(s)
        BY <3>3
      <4>2. s \in Stages
        BY <4>1, StageFacts DEF Listing
      <4> QED
        BY <3>3, <4>1, <4>2, GoFacts
    <3>4. CASE \E s \in {"failed", "crashed"} : create' = Go(s)
      <4>1. PICK s \in {"failed", "crashed"} : create' = Go(s)
        BY <3>4
      <4>2. s \in Stages
        BY <4>1, StageFacts
      <4> QED
        BY <4>1, <4>2, GoFacts
    <3>5. CASE WriteFooter
      <4>1. PICK c, p : c = Go("decide") /\ p = SizeOf(file') /\ create' = [c EXCEPT !.packed = p]
        BY <3>5 DEF WriteFooter
      <4>2. /\ c \in Runs(create.packed) /\ c.pc = "decide" /\ c.entries = create.entries
            /\ c.pieces = create.pieces
        BY <4>1, GoFacts, StageFacts
      <4>3. create'.pc = "decide" /\ create'.entries = create.entries /\ create'.pieces = create.pieces
        BY <4>1, <4>2 DEF Runs
      <4> QED
        BY <3>5, <4>3 DEF WriteFooter, Listing
    <3> QED
      BY <1>3, <3>1, <3>2, <3>3, <3>4, <3>5
      DEF CreateRest, WriteHeader, EmitPiece, WriteTable, KeepCompressed, RestartAsStore, StoreHash,
          StoreCopy, StoreFooter, Crash, Listing
  <2>3. \A k \in 1 .. Len(create'.entries) : k <= Count /\ Spelled(k)'
    BY <2>1, <2>2, SpelledKept
  <2>4. Count \in Nat
    BY InputFacts
  <2> QED
    BY <2>2, <2>3, <2>4 DEF Gathered, Listing
<1>4. CASE EditInput
  <2>1. PICK i \in ToSet(Inputs), c \in Held :
          seen' = [seen EXCEPT ![i] = IF create.pc = "idle" THEN @ ELSE @ \cup {c}]
    BY <1>4 DEF EditInput, Held
  <2>2. create' = [create EXCEPT !.edits = @ + 1] /\ paths' = paths
    BY <1>4 DEF EditInput
  <2>3. create'.pc = create.pc /\ create'.at = create.at /\ create'.entries = create.entries
        /\ create'.pieces = create.pieces
    BY <2>2 DEF Typed, Runs
  <2>4. \A j \in ToSet(Inputs) : seen[j] \subseteq seen'[j]
    BY <2>1 DEF Typed
  <2>5. \A k \in 1 .. Len(create'.entries) : k <= Count /\ Spelled(k)'
    BY <2>2, <2>3, <2>4, SpelledKept
  <2> QED
    BY <2>3, <2>5 DEF Gathered
<1>5. CASE Retrain \/ DamagePayload \/ DamageTable \/ CutTail \/ OpenAndDecode \/ WriteEntry \/ UNCHANGED vars
  <2>1. UNCHANGED <<paths, seen, create>>
    BY <1>5 DEF Retrain, DamagePayload, DamageTable, Damage, CutTail, OpenAndDecode, WriteEntry, vars
  <2> QED
    BY <2>1 DEF Gathered, Spelled
<1> QED
  BY <1>1, <1>2, <1>3, <1>4, <1>5 DEF Next, Create, CreateRest

----------------------------------------------------------------------------
(* The file while it is written.                                           *)

HeadLen(d) == IF d = NoDict THEN 1 ELSE 2

\* The first cells of a compressed container: its head and n of its payloads.
Emitted(f, d, pieces, n) ==
  /\ f[1] = Header(d) /\ (d # NoDict => f[2] = DictRecord(d))
  /\ \A k \in 1 .. n : \E s \in PackedSizes : f[HeadLen(d) + k] = DataRecord(pieces[k], s, d)

\* The cell its table begins with.
TableCell(d, pieces) == HeadLen(d) + Len(pieces) + 1

Tabled(f, d, pieces, entries) ==
  /\ Emitted(f, d, pieces, Len(pieces))
  /\ f[TableCell(d, pieces)] = TableHead(Len(entries))
  /\ \A k \in 1 .. Len(entries) : f[TableCell(d, pieces) + k] = entries[k]

\* All of it.
Packed(f, d, pieces, entries) ==
  /\ Len(f) = TableCell(d, pieces) + Len(entries) + 1
  /\ Tabled(f, d, pieces, entries)
  /\ f[Len(f)] = Footer(TableCell(d, pieces), Len(pieces), Len(entries))

\* The head of a STORE container and its first n entries, each with the hash of something
\* the input held.
Listed(f, d, ways, held, n) ==
  /\ f[1] = StoreHeader(d) /\ f[2] = TableHead(Count)
  /\ \A k \in 1 .. n : \E c \in held[Inputs[k]] \ {Gone} : f[2 + k] = StoreEntry(ways[Inputs[k]], c)

\* Payload bytes up to a cell.
Bytes(f, to) == \A k \in Count + 3 .. to : \E b \in Nat : f[k] = PayloadByte(b)

Stored(f, d, ways, held) ==
  /\ Len(f) >= Count + 3 /\ Listed(f, d, ways, held, Count) /\ Bytes(f, Len(f) - 1)
  /\ f[Len(f)] = Footer(2, 0, Count)

\* A file that does not end with a footer.
Unfinished(f) == Len(f) < 2 \/ f[Len(f)].kind # "footer"

Ready(f, c) == Packed(f, c.dict, c.pieces, c.entries) /\ Len(c.entries) = Count

\* What the file holds at each stage of the create run.
Built ==
  /\ IsSeq(file)
  /\ create.pc \in {"idle", "refused"} => file \in {<<>>, OldArchive}
  /\ create.pc = "truncated" => Len(file) = 0
  /\ create.pc = "gather" =>
       Len(file) = HeadLen(create.dict) /\ Emitted(file, create.dict, create.pieces, 0)
  /\ create.pc = "emit" =>
       /\ create.at <= Len(create.pieces) + 1 /\ Len(file) = HeadLen(create.dict) + create.at - 1
       /\ Emitted(file, create.dict, create.pieces, create.at - 1)
  /\ create.pc = "table" =>
       /\ Len(file) = HeadLen(create.dict) + Len(create.pieces)
       /\ Emitted(file, create.dict, create.pieces, Len(create.pieces))
  /\ create.pc = "footer" =>
       /\ Len(file) = TableCell(create.dict, create.pieces) + Len(create.entries)
       /\ Tabled(file, create.dict, create.pieces, create.entries)
  /\ create.pc = "decide" => Ready(file, create) /\ create.packed = SizeOf(file)
  /\ create.pc = "hash" =>
       create.at <= Count + 1 /\ Len(file) = create.at + 1
       /\ Listed(file, create.dict, paths, seen, create.at - 1)
  /\ create.pc \in {"copy", "storefooter"} =>
       Len(file) >= Count + 2 /\ Listed(file, create.dict, paths, seen, Count) /\ Bytes(file, Len(file))
  /\ create.pc \in {"failed", "crashed"} => Unfinished(file) \/ Ready(file, create)
  /\ create.pc = "done" /\ damaged = None => Ready(file, create) \/ Stored(file, create.dict, paths, seen)
  /\ create.pc = "done" /\ damaged = "cut" => Unfinished(file)
  /\ damaged # None => create.pc = "done"

\* The header is one cell, two when a dictionary is pinned.
LEMMA HeadLenFacts ==
  ASSUME NEW d
  PROVE  HeadLen(d) \in {1, 2} /\ (d # NoDict => HeadLen(d) = 2)
  BY DEF HeadLen

\* A longer file that begins alike.
LEMMA EmittedMore ==
  ASSUME NEW f, NEW g, NEW d, NEW pieces, NEW n \in Nat, NEW m \in Nat, Emitted(f, d, pieces, n),
         HeadLen(d) + n <= m, \A k \in 1 .. m : g[k] = f[k]
  PROVE  Emitted(g, d, pieces, n)
<1>1. HeadLen(d) \in 1 .. m /\ 1 \in 1 .. m /\ (d # NoDict => 2 \in 1 .. m)
  BY HeadLenFacts
<1>2. \A k \in 1 .. n : HeadLen(d) + k \in 1 .. m
  BY HeadLenFacts
<1> QED
  BY <1>1, <1>2 DEF Emitted

\* Before its last cell is written no container of the run ends with a footer.
LEMMA NotYet ==
  ASSUME Typed, Gathered, Built, create.pc \in Writing, create.pc # "decide"
  PROVE  Unfinished(file)
<1>1. Len(file) \in Nat /\ create.at \in Nat \ {0} /\ Count \in Nat /\ Len(create.pieces) \in Nat
      /\ Len(create.entries) \in Nat /\ HeadLen(create.dict) \in {1, 2}
  BY RunFields, IsSeqFacts, InputFacts, HeadLenFacts DEF Built
<1> DEFINE h == HeadLen(create.dict)
<1>2. ASSUME NEW n \in Nat, Emitted(file, create.dict, create.pieces, n), Len(file) = h + n
      PROVE  Unfinished(file)
  <2>1. CASE n = 0
    <3>1. h = 1 \/ (h = 2 /\ create.dict # NoDict)
      BY DEF HeadLen
    <3>2. file[1].kind # "footer" /\ (create.dict # NoDict => file[2].kind # "footer")
      BY <1>2 DEF Emitted, Header, DictRecord
    <3> QED
      BY <1>2, <2>1, <3>1, <3>2 DEF Unfinished
  <2>2. CASE n # 0
    <3>1. n \in 1 .. n
      BY <2>2
    <3>2. PICK s : file[h + n] = DataRecord(create.pieces[n], s, create.dict)
      BY <1>2, <3>1 DEF Emitted
    <3>3. file[Len(file)].kind = "data"
      BY <1>2, <3>2 DEF DataRecord
    <3> QED
      BY <3>3 DEF Unfinished
  <2> QED
    BY <2>1, <2>2
<1>3. CASE create.pc = "truncated"
  BY <1>1, <1>3 DEF Built, Unfinished
<1>4. CASE create.pc = "gather"
  BY <1>1, <1>2, <1>4 DEF Built
<1>5. CASE create.pc = "emit"
  <2>1. create.at - 1 \in Nat /\ Len(file) = h + (create.at - 1)
    BY <1>1, <1>5 DEF Built
  <2> QED
    BY <1>2, <1>5, <2>1 DEF Built
<1>6. CASE create.pc = "table"
  BY <1>1, <1>2, <1>6 DEF Built
<1>7. CASE create.pc = "footer"
  <2> DEFINE t == TableCell(create.dict, create.pieces)
  <2>1. /\ Len(file) = t + Len(create.entries) /\ file[t] = TableHead(Len(create.entries))
        /\ \A k \in 1 .. Len(create.entries) : file[t + k] = create.entries[k]
    BY <1>7 DEF Built, Tabled
  <2>2. t \in Nat
    BY <1>1 DEF TableCell
  <2>3. CASE Len(create.entries) = 0
    <3>1. Len(file) = t
      BY <2>1, <2>2, <2>3
    <3> QED
      BY <2>1, <3>1 DEF Unfinished, TableHead
  <2>4. CASE Len(create.entries) # 0
    <3>1. Len(create.entries) \in 1 .. Len(create.entries)
      BY <1>1, <2>4
    <3>2. file[Len(file)] \in EntryCell
      BY <2>1, <3>1, RunFields
    <3>3. file[Len(file)].kind = "entry"
      BY <3>2 DEF EntryCell
    <3> QED
      BY <3>3 DEF Unfinished
  <2> QED
    BY <2>3, <2>4
<1>8. ASSUME NEW n \in Nat, Listed(file, create.dict, paths, seen, n), Len(file) = n + 2
      PROVE  Unfinished(file)
  <2>1. CASE n = 0
    BY <1>8, <2>1 DEF Listed, Unfinished, TableHead
  <2>2. CASE n # 0
    <3>1. n \in 1 .. n /\ Len(file) = 2 + n
      BY <1>8, <2>2
    <3>2. PICK c : file[2 + n] = StoreEntry(paths[Inputs[n]], c)
      BY <1>8, <3>1 DEF Listed
    <3>3. file[Len(file)].kind = "stored"
      BY <3>1, <3>2 DEF StoreEntry
    <3> QED
      BY <3>3 DEF Unfinished
  <2> QED
    BY <2>1, <2>2
<1>9. CASE create.pc = "hash"
  <2>1. create.at - 1 \in Nat /\ Len(file) = (create.at - 1) + 2
    BY <1>1, <1>9 DEF Built
  <2> QED
    BY <1>8, <1>9, <2>1 DEF Built
<1>10. CASE create.pc \in {"copy", "storefooter"}
  <2>1. Len(file) >= Count + 2 /\ Listed(file, create.dict, paths, seen, Count) /\ Bytes(file, Len(file))
    BY <1>10 DEF Built
  <2>2. CASE Len(file) = Count + 2
    BY <1>1, <1>8, <2>1, <2>2
  <2>3. CASE Len(file) # Count + 2
    <3>1. Len(file) \in Count + 3 .. Len(file)
      BY <1>1, <2>1, <2>3
    <3>2. PICK b : file[Len(file)] = PayloadByte(b)
      BY <2>1, <3>1 DEF Bytes
    <3>3. file[Len(file)].kind = "byte"
      BY <3>2 DEF PayloadByte
    <3> QED
      BY <3>3 DEF Unfinished
  <2> QED
    BY <2>2, <2>3
<1> QED
  BY <1>3, <1>4, <1>5, <1>6, <1>7, <1>9, <1>10 DEF Writing

\* There is no file at the start.
LEMMA BuiltInit ==
  ASSUME Init
  PROVE  Built
<1>1. create.pc = "idle" /\ file \in {<<>>, OldArchive} /\ damaged = None
  BY DEF Init
<1>2. IsSeq(<<>>) /\ IsSeq(OldArchive)
  BY ArchiveAssumption DEF IsSeq, ToSet
<1> QED
  BY <1>1, <1>2 DEF Built

\* Entries of a STORE container stay what they are when the file grows or inputs are edited.
LEMMA ListedMore ==
  ASSUME NEW f, NEW g, NEW d, NEW ways, NEW held, NEW more, NEW n \in Nat, n <= Count,
         Listed(f, d, ways, held, n), \A k \in 1 .. n + 2 : g[k] = f[k],
         \A i \in ToSet(Inputs) : held[i] \subseteq more[i]
  PROVE  Listed(g, d, ways, more, n)
<1>1. ASSUME NEW k \in 1 .. n
      PROVE  \E c \in more[Inputs[k]] \ {Gone} : g[2 + k] = StoreEntry(ways[Inputs[k]], c)
  <2>1. PICK c \in held[Inputs[k]] \ {Gone} : f[2 + k] = StoreEntry(ways[Inputs[k]], c)
    BY DEF Listed
  <2>2. k \in 1 .. Count /\ 2 + k \in 1 .. n + 2
    BY InputFacts
  <2>3. Inputs[k] \in ToSet(Inputs)
    BY <2>2, InputFacts
  <2> QED
    BY <2>1, <2>2, <2>3
<1>2. 1 \in 1 .. n + 2 /\ 2 \in 1 .. n + 2
  OBVIOUS
<1> QED
  BY <1>1, <1>2 DEF Listed

\* The run stops with what it has written.
LEMMA BuiltStops ==
  ASSUME Typed, Gathered, Built, create.pc \in Writing, UNCHANGED <<file, damaged>>,
         NEW s \in {"failed", "crashed"}, create' = Go(s)
  PROVE  Built'
<1>1. s \in Stages
  BY StageFacts
<1>2. create'.pc = s /\ create'.dict = create.dict /\ create'.pieces = create.pieces
      /\ create'.entries = create.entries
  BY <1>1, GoFacts
<1>3. Unfinished(file) \/ Ready(file, create)
  BY NotYet DEF Built
<1>4. Unfinished(file') \/ Ready(file', create')
  BY <1>2, <1>3 DEF Ready
<1>5. damaged' = None
  BY DEF Built, Writing
<1> QED
  BY <1>2, <1>4, <1>5 DEF Built

\* Opening the file and writing the head.
LEMMA BuiltHead ==
  ASSUME Typed, Gathered, Built, Truncate \/ WriteHeader
  PROVE  Built'
<1>1. CASE Truncate
  <2>1. PICK s \in Stages : create' = Go(s) /\ s \in {"truncated", "refused"}
    BY <1>1, StageFacts DEF Truncate
  <2>2. create'.pc = s
    BY <2>1, GoFacts
  <2>3. create.pc = "idle" /\ damaged' = None
    BY <1>1 DEF Truncate, readerVars, Built
  <2>4. \/ s = "truncated" /\ file' = <<>>
        \/ s = "refused" /\ file' = file
    <3>1. \/ file' = <<>> /\ create' = Go("truncated")
          \/ file' = file /\ create' = Go("refused")
      BY <1>1 DEF Truncate
    <3>2. Go("truncated").pc = "truncated" /\ Go("refused").pc = "refused"
      BY GoFacts, StageFacts
    <3> QED
      BY <2>2, <3>1, <3>2
  <2>5. IsSeq(<<>>) /\ Len(<<>>) = 0
    BY DEF IsSeq, ToSet
  <2> QED
    BY <2>2, <2>3, <2>4, <2>5 DEF Built
<1>2. CASE WriteHeader
  <2>1. PICK d, head, rest :
          /\ d = create.dict /\ head = Header(d) /\ file' = <<head>> \o rest
          /\ rest = (IF d = NoDict THEN <<>> ELSE <<DictRecord(d)>>)
    BY <1>2 DEF WriteHeader
  <2>2. create'.pc = "gather" /\ create'.dict = d /\ create'.pieces = create.pieces /\ damaged' = None
    BY <1>2, <2>1, GoFacts, StageFacts DEF WriteHeader, steady, readerVars, Built
  <2>3. CASE d = NoDict
    <3>1. file' = <<head>>
      BY <2>1, <2>3
    <3>2. IsSeq(file') /\ Len(file') = 1 /\ file'[1] = head
      BY <3>1 DEF IsSeq, ToSet
    <3> QED
      BY <2>1, <2>2, <2>3, <3>2 DEF Built, Emitted, HeadLen
  <2>4. CASE d # NoDict
    <3>1. PICK mark : mark = DictRecord(d)
      OBVIOUS
    <3>2. PICK f, g : f = <<head>> /\ g = <<mark>>
      OBVIOUS
    <3>3. /\ IsSeq(f) /\ Len(f) = 1 /\ f[1] = head
          /\ IsSeq(g) /\ Len(g) = 1 /\ g[1] = mark /\ file' = f \o g
      BY <2>1, <2>4, <3>1, <3>2 DEF IsSeq, ToSet
    <3>4. /\ IsSeq(f \o g) /\ Len(f \o g) = Len(f) + Len(g)
          /\ \A k \in 1 .. Len(f) : (f \o g)[k] = f[k]
          /\ \A k \in 1 .. Len(g) : (f \o g)[Len(f) + k] = g[k]
      <4>1. IsSeq(f) /\ IsSeq(g)
        BY <3>3
      <4> QED
        BY ONLY <4>1, ConcatCells
    <3>5. IsSeq(file') /\ Len(file') = 2 /\ file'[1] = head /\ file'[2] = mark
      BY <3>3, <3>4
    <3> QED
      BY <2>1, <2>2, <2>4, <3>1, <3>5 DEF Built, Emitted, HeadLen
  <2> QED
    BY <2>3, <2>4
<1> QED
  BY <1>1, <1>2

\* Payloads, table and footer of the compressed container.
LEMMA BuiltGather ==
  ASSUME Typed, Gathered, Built, Gather
  PROVE  Built'
<1>1. create.pc = "gather" /\ UNCHANGED <<file, damaged, disk, paths, seen>>
  BY GatherCases DEF steady, readerVars
<1>2. /\ IsSeq(file) /\ Len(file) = HeadLen(create.dict) /\ damaged = None
      /\ file[1] = Header(create.dict) /\ (create.dict # NoDict => file[2] = DictRecord(create.dict))
  BY <1>1 DEF Built, Emitted
<1>3. CASE create' = Go("failed")
  BY <1>1, <1>3, BuiltStops DEF Writing
<1>4. CASE create' = Go("emit")
  <2>1. create'.pc = "emit" /\ create'.dict = create.dict /\ create'.at = 1 /\ create'.pieces = create.pieces
    BY <1>4, GoFacts, StageFacts
  <2>2. Len(create'.pieces) \in Nat /\ HeadLen(create.dict) \in {1, 2}
    BY <2>1, RunFields, HeadLenFacts
  <2>3. Emitted(file', create'.dict, create'.pieces, create'.at - 1)
    BY <1>1, <1>2, <2>1 DEF Emitted
  <2>4. create'.at <= Len(create'.pieces) + 1 /\ Len(file') = HeadLen(create'.dict) + create'.at - 1
    BY <1>1, <1>2, <2>1, <2>2
  <2> QED
    BY <1>1, <1>2, <2>1, <2>3, <2>4 DEF Built
<1>5. CASE /\ ~(create.at > Count) /\ Present(create.at)
           /\ create' = [create EXCEPT !.pieces = Pool(create.at), !.at = @ + 1,
                                       !.entries = Append(@, EntryAt(create.at))]
  <2>1. create'.pc = "gather" /\ create'.dict = create.dict
    BY <1>1, <1>5 DEF Typed, Runs
  <2>2. Emitted(file', create'.dict, create'.pieces, 0)
    BY <1>1, <1>2, <2>1 DEF Emitted
  <2> QED
    BY <1>1, <1>2, <2>1, <2>2 DEF Built
<1> QED
  BY <1>3, <1>4, <1>5, GatherCases

\* Emitting a chunk keeps the file in step with the chunks emitted.
LEMMA BuiltEmit ==
  ASSUME Typed, Gathered, Built, EmitPiece
  PROVE  Built'
<1>1. create.pc = "emit" /\ UNCHANGED <<damaged, disk, paths, seen>>
  BY DEF EmitPiece, steady, readerVars
<1>2. PICK n, d, pieces, h :
        n = create.at - 1 /\ d = create.dict /\ pieces = create.pieces /\ h = HeadLen(d)
  OBVIOUS
<1>3. /\ IsSeq(file) /\ n \in Nat /\ n <= Len(pieces) /\ h \in {1, 2} /\ Len(pieces) \in Nat
      /\ Len(file) = h + n /\ Emitted(file, d, pieces, n) /\ damaged = None /\ create.at = n + 1
  BY <1>1, <1>2, RunFields, HeadLenFacts DEF Built
<1>4. CASE create.at > Len(create.pieces) /\ create' = Go("table") /\ UNCHANGED file
  <2>1. create'.pc = "table" /\ create'.dict = d /\ create'.pieces = pieces
    BY <1>2, <1>4, GoFacts, StageFacts
  <2>2. n = Len(pieces)
    BY <1>2, <1>3, <1>4
  <2>3. Len(file') = HeadLen(create'.dict) + Len(create'.pieces)
        /\ Emitted(file', create'.dict, create'.pieces, Len(create'.pieces))
    BY <1>2, <1>3, <1>4, <2>1, <2>2
  <2> QED
    BY <1>1, <1>3, <1>4, <2>1, <2>3 DEF Built
<1>5. CASE /\ ~(create.at > Len(create.pieces)) /\ create' = [create EXCEPT !.at = @ + 1]
           /\ \E s \in PackedSizes :
                file' = Append(file, DataRecord(create.pieces[create.at], s, create.dict))
  <2>1. create'.pc = "emit" /\ create'.dict = d /\ create'.pieces = pieces /\ create'.at = n + 2
    BY <1>1, <1>2, <1>3, <1>5, NextItem
  <2>2. PICK s \in PackedSizes : file' = Append(file, DataRecord(pieces[n + 1], s, d))
    BY <1>2, <1>3, <1>5
  <2>3. PICK cell : cell = DataRecord(pieces[n + 1], s, d)
    OBVIOUS
  <2>4. /\ IsSeq(file') /\ Len(file') = h + n + 1 /\ file'[h + n + 1] = cell
        /\ \A k \in 1 .. h + n : file'[k] = file[k]
    BY <1>3, <2>2, <2>3, AppendCell
  <2>5. Emitted(file', d, pieces, n + 1)
    <3>1. Emitted(file', d, pieces, n)
      <4>1. h + n \in Nat /\ HeadLen(d) + n <= h + n
        BY <1>2, <1>3
      <4>2. PICK f, g, m : f = file /\ g = file' /\ m = h + n
        OBVIOUS
      <4>3. Emitted(f, d, pieces, n) /\ m \in Nat /\ HeadLen(d) + n <= m /\ \A k \in 1 .. m : g[k] = f[k]
        BY <1>3, <2>4, <4>1, <4>2
      <4>4. Emitted(g, d, pieces, n)
        BY ONLY <1>3, <4>3, EmittedMore
      <4> QED
        BY <4>2, <4>4
    <3>2. ASSUME NEW k \in 1 .. n + 1
          PROVE  \E z \in PackedSizes : file'[HeadLen(d) + k] = DataRecord(pieces[k], z, d)
      <4>1. CASE k = n + 1
        <5>1. HeadLen(d) + k = h + n + 1
          BY <1>2, <1>3, <4>1
        <5>2. file'[HeadLen(d) + k] = DataRecord(pieces[k], s, d)
          BY <2>3, <2>4, <4>1, <5>1
        <5> QED
          BY <5>2
      <4>2. CASE k \in 1 .. n
        BY <3>1, <4>2 DEF Emitted
      <4> QED
        BY <1>3, <4>1, <4>2
    <3> QED
      BY <3>1, <3>2 DEF Emitted
  <2>6. create'.at - 1 = n + 1 /\ create'.at <= Len(create'.pieces) + 1
        /\ Len(file') = HeadLen(create'.dict) + create'.at - 1
    <3>1. create'.at - 1 = n + 1 /\ h + create'.at - 1 = h + n + 1
      BY <1>3, <2>1
    <3>2. create'.at <= Len(pieces) + 1
      BY <1>2, <1>3, <1>5, <2>1
    <3>3. Len(file') = HeadLen(create'.dict) + create'.at - 1
      BY <1>2, <2>1, <2>4, <3>1
    <3> QED
      BY <2>1, <3>1, <3>2, <3>3
  <2> QED
    BY <1>1, <1>3, <2>1, <2>4, <2>5, <2>6 DEF Built
<1> QED
  BY <1>4, <1>5 DEF EmitPiece

\* Writing the entry table keeps the file in step.
LEMMA BuiltTable ==
  ASSUME Typed, Gathered, Built, WriteTable
  PROVE  Built'
<1>1. create.pc = "table" /\ create' = Go("footer") /\ UNCHANGED <<damaged, disk, paths, seen>>
  BY DEF WriteTable, steady, readerVars
<1>2. PICK d, pieces, entries, f, head, n :
        /\ d = create.dict /\ pieces = create.pieces /\ entries = create.entries
        /\ f = file /\ head = TableHead(Len(entries)) /\ n = HeadLen(d) + Len(pieces)
  OBVIOUS
<1>3. /\ create'.pc = "footer" /\ create'.dict = d /\ create'.pieces = pieces
      /\ create'.entries = entries
  BY <1>1, <1>2, GoFacts, StageFacts
<1>4. /\ IsSeq(f) /\ Len(f) = n /\ Emitted(f, d, pieces, Len(pieces)) /\ damaged = None
      /\ Len(pieces) \in Nat /\ n \in Nat /\ IsSeq(entries) /\ Len(entries) \in Nat
  BY <1>1, <1>2, RunFields, HeadLenFacts DEF Built
<1>5. PICK g, h : g = Append(f, head) /\ h = g \o entries
  OBVIOUS
<1>6. file' = h
  BY <1>2, <1>5 DEF WriteTable
<1>7. /\ IsSeq(g) /\ Len(g) = n + 1 /\ g[n + 1] = head /\ \A k \in 1 .. n : g[k] = f[k]
  BY ONLY <1>4, <1>5, AppendCell
<1>8. /\ IsSeq(h) /\ Len(h) = Len(g) + Len(entries)
      /\ \A k \in 1 .. Len(g) : h[k] = g[k]
      /\ \A k \in 1 .. Len(entries) : h[Len(g) + k] = entries[k]
  <2>1. IsSeq(g) /\ IsSeq(entries)
    BY <1>4, <1>7
  <2>2. /\ IsSeq(g \o entries) /\ Len(g \o entries) = Len(g) + Len(entries)
        /\ \A k \in 1 .. Len(g) : (g \o entries)[k] = g[k]
        /\ \A k \in 1 .. Len(entries) : (g \o entries)[Len(g) + k] = entries[k]
    BY ONLY <2>1, ConcatCells
  <2> QED
    BY ONLY <1>5, <2>2
<1>9. TableCell(d, pieces) = n + 1
  BY <1>2 DEF TableCell
<1>10. Emitted(h, d, pieces, Len(pieces))
  <2>1. HeadLen(d) + Len(pieces) <= n /\ \A k \in 1 .. n : h[k] = f[k]
    BY <1>2, <1>4, <1>7, <1>8
  <2> QED
    BY ONLY <1>4, <2>1, EmittedMore
<1>11. Tabled(h, d, pieces, entries) /\ Len(h) = TableCell(d, pieces) + Len(entries)
  <2>1. h[n + 1] = head /\ \A k \in 1 .. Len(entries) : h[n + 1 + k] = entries[k]
    BY <1>4, <1>7, <1>8
  <2> QED
    BY <1>2, <1>7, <1>8, <1>9, <1>10, <2>1 DEF Tabled
<1> QED
  BY <1>1, <1>3, <1>4, <1>6, <1>8, <1>11 DEF Built

\* A table stays what it is when the file grows.
LEMMA TabledMore ==
  ASSUME NEW f, NEW g, NEW d, NEW pieces, NEW entries, Tabled(f, d, pieces, entries),
         Len(pieces) \in Nat, Len(entries) \in Nat, NEW m \in Nat,
         TableCell(d, pieces) + Len(entries) <= m, \A k \in 1 .. m : g[k] = f[k]
  PROVE  Tabled(g, d, pieces, entries)
<1>1. PICK n, t : n = Len(pieces) /\ t = TableCell(d, pieces)
  OBVIOUS
<1>2. n \in Nat /\ t = HeadLen(d) + n + 1 /\ HeadLen(d) + n <= m /\ t \in 1 .. m
  BY <1>1, HeadLenFacts DEF TableCell
<1>3. Emitted(f, d, pieces, n)
  BY <1>1 DEF Tabled
<1>4. Emitted(g, d, pieces, n)
  BY <1>2, <1>3, EmittedMore
<1>5. \A k \in 1 .. Len(entries) : t + k \in 1 .. m
  BY <1>1, <1>2
<1> QED
  BY <1>1, <1>2, <1>4, <1>5 DEF Tabled

\* Writing the footer completes a packed file.
LEMMA BuiltFooter ==
  ASSUME Typed, Gathered, Built, WriteFooter
  PROVE  Built'
<1>1. create.pc = "footer" /\ UNCHANGED <<damaged, disk, paths, seen>>
  BY DEF WriteFooter, steady, readerVars
<1>2. PICK d, pieces, entries, f, n, t, m :
        /\ d = create.dict /\ pieces = create.pieces /\ entries = create.entries /\ f = file
        /\ n = Len(entries) /\ t = TableCell(d, pieces) /\ m = Len(f)
  OBVIOUS
<1>3. /\ create'.pc = "decide" /\ create'.dict = d /\ create'.pieces = pieces
      /\ create'.entries = entries /\ create'.packed = SizeOf(file')
  <2>1. PICK c, p : c = Go("decide") /\ p = SizeOf(file') /\ create' = [c EXCEPT !.packed = p]
    BY DEF WriteFooter
  <2>2. /\ c \in Runs(create.packed) /\ c.pc = "decide" /\ c.dict = d /\ c.pieces = pieces
        /\ c.entries = entries
    BY <1>2, <2>1, GoFacts, StageFacts
  <2> QED
    BY <2>1, <2>2 DEF Runs
<1>4. /\ IsSeq(f) /\ m = t + n /\ Tabled(f, d, pieces, entries) /\ damaged = None
      /\ Len(pieces) \in Nat /\ n \in Nat /\ n = Count /\ t \in Nat /\ m \in Nat
  BY <1>1, <1>2, RunFields, HeadLenFacts DEF Built, TableCell, Gathered, Listing
<1>5. PICK cell, g : cell = Footer(t, Len(pieces), n) /\ g = Append(f, cell)
  OBVIOUS
<1>6. file' = g
  <2>1. file' = Append(f, Footer(m - n, Len(pieces), n))
    BY <1>2 DEF WriteFooter
  <2>2. m - n = t
    BY <1>4
  <2> QED
    BY <1>5, <2>1, <2>2
<1>7. IsSeq(g) /\ Len(g) = m + 1 /\ g[m + 1] = cell /\ \A k \in 1 .. m : g[k] = f[k]
  <2>1. IsSeq(f)
    BY <1>4
  <2>2. /\ IsSeq(Append(f, cell)) /\ Len(Append(f, cell)) = Len(f) + 1
        /\ Append(f, cell)[Len(f) + 1] = cell
        /\ \A k \in 1 .. Len(f) : Append(f, cell)[k] = f[k]
    BY ONLY <2>1, AppendCell
  <2> QED
    BY <1>2, <1>5, <2>2
<1>8. Tabled(g, d, pieces, entries)
  <2>1. t + n <= m
    BY <1>4
  <2>2. Tabled(f, d, pieces, entries) /\ Len(pieces) \in Nat /\ Len(entries) \in Nat /\ m \in Nat
        /\ TableCell(d, pieces) + Len(entries) <= m /\ \A k \in 1 .. m : g[k] = f[k]
    BY <1>2, <1>4, <1>7, <2>1
  <2> QED
    BY ONLY <2>2, TabledMore
<1>9. Packed(g, d, pieces, entries)
  BY <1>2, <1>4, <1>5, <1>7, <1>8 DEF Packed
<1>10. Ready(file', create')
  BY <1>2, <1>3, <1>4, <1>6, <1>9 DEF Ready
<1> QED
  BY <1>1, <1>3, <1>4, <1>6, <1>7, <1>10 DEF Built

\* The choice between the containers.
LEMMA BuiltDecide ==
  ASSUME Typed, Gathered, Built, KeepCompressed \/ RestartAsStore
  PROVE  Built'
<1>1. create.pc = "decide" /\ UNCHANGED <<damaged, disk, paths, seen>>
  BY DEF KeepCompressed, RestartAsStore, steady, readerVars
<1>2. damaged = None /\ Ready(file, create)
  BY <1>1 DEF Built
<1>3. CASE KeepCompressed
  <2>1. /\ create'.pc = "done" /\ create'.dict = create.dict /\ create'.pieces = create.pieces
        /\ create'.entries = create.entries /\ file' = file
    BY <1>3, GoFacts, StageFacts DEF KeepCompressed
  <2>2. Ready(file', create')
    BY <1>2, <2>1 DEF Ready
  <2> QED
    BY <1>1, <1>2, <2>1, <2>2 DEF Built, None
<1>4. CASE RestartAsStore
  <2>1. create'.pc = "hash" /\ create'.dict = create.dict /\ create'.at = 1
    BY <1>4, GoFacts, StageFacts DEF RestartAsStore
  <2>2. PICK a, b : a = StoreHeader(create.dict) /\ b = TableHead(Count) /\ file' = <<a, b>>
    BY <1>4 DEF RestartAsStore
  <2>3. IsSeq(file') /\ Len(file') = 2 /\ file'[1] = a /\ file'[2] = b
    BY <2>2 DEF IsSeq, ToSet
  <2>4. Listed(file', create'.dict, paths', seen', create'.at - 1)
    BY <2>1, <2>2, <2>3 DEF Listed
  <2>5. create'.at <= Count + 1 /\ Len(file') = create'.at + 1
    BY <2>1, <2>3, InputFacts
  <2> QED
    BY <1>1, <1>2, <2>1, <2>3, <2>4, <2>5 DEF Built
<1> QED
  BY <1>3, <1>4

\* The STORE container.
LEMMA BuiltHash ==
  ASSUME Typed, Gathered, Built, StoreHash
  PROVE  Built'
<1>1. create.pc = "hash" /\ UNCHANGED <<damaged, disk, paths, seen>>
  BY DEF StoreHash, steady, readerVars
<1>2. PICK d, n, f : d = create.dict /\ n = create.at - 1 /\ f = file
  OBVIOUS
<1>3. /\ IsSeq(f) /\ n \in Nat /\ n <= Count /\ Count \in Nat /\ Len(f) = n + 2 /\ create.at = n + 1
      /\ Listed(f, d, paths, seen, n) /\ damaged = None
  <2>1. create.at \in Nat \ {0} /\ Count \in Nat
    BY RunFields, InputFacts
  <2> QED
    BY <1>1, <1>2, <2>1 DEF Built
<1>4. CASE create.at > Count /\ create' = Go("copy") /\ UNCHANGED file
  <2>1. create'.pc = "copy" /\ create'.dict = d
    BY <1>2, <1>4, GoFacts, StageFacts
  <2>2. n = Count
    BY <1>3, <1>4
  <2>3. Listed(file', create'.dict, paths', seen', Count)
    BY <1>1, <1>2, <1>3, <1>4, <2>1, <2>2
  <2>4. Len(file') >= Count + 2 /\ Bytes(file', Len(file'))
    BY <1>2, <1>3, <1>4, <2>2 DEF Bytes
  <2> QED
    BY <1>1, <1>2, <1>3, <1>4, <2>1, <2>3, <2>4 DEF Built
<1>5. CASE create' = Go("failed") /\ UNCHANGED file
  BY <1>1, <1>5, BuiltStops DEF Writing
<1>6. CASE /\ ~(create.at > Count) /\ Present(create.at) /\ create' = [create EXCEPT !.at = @ + 1]
           /\ file' = Append(file, StoreEntry(paths[Inputs[create.at]], disk[Inputs[create.at]]))
  <2>1. create'.pc = "hash" /\ create'.dict = d /\ create'.at = n + 2
    BY <1>1, <1>2, <1>3, <1>6, NextItem
  <2>2. PICK i, cell : i = Inputs[n + 1] /\ cell = StoreEntry(paths[i], disk[i])
    OBVIOUS
  <2>3. file' = Append(f, cell) /\ n + 1 \in 1 .. Count /\ i \in ToSet(Inputs) /\ disk[i] # Gone
    BY <1>2, <1>3, <1>6, <2>2, InputFacts DEF Present
  <2>4. /\ IsSeq(Append(f, cell)) /\ Len(Append(f, cell)) = Len(f) + 1
        /\ Append(f, cell)[Len(f) + 1] = cell
        /\ \A k \in 1 .. Len(f) : Append(f, cell)[k] = f[k]
    <3>1. IsSeq(f)
      BY <1>3
    <3> QED
      BY ONLY <3>1, AppendCell
  <2>5. /\ IsSeq(file') /\ Len(file') = n + 3 /\ file'[n + 3] = cell
        /\ \A k \in 1 .. n + 2 : file'[k] = f[k]
    BY <1>3, <2>3, <2>4
  <2>6. disk[i] \in seen[i] \ {Gone}
    BY <1>1, <2>3 DEF Typed
  <2>7. Listed(file', d, paths, seen, n + 1)
    <3>1. ASSUME NEW k \in 1 .. n + 1
          PROVE  \E c \in seen[Inputs[k]] \ {Gone} : file'[2 + k] = StoreEntry(paths[Inputs[k]], c)
      <4>1. CASE k = n + 1
        <5>1. file'[2 + k] = StoreEntry(paths[Inputs[k]], disk[i])
          <6>1. 2 + k = n + 3
            BY <1>3, <4>1
          <6> QED
            BY <2>2, <2>5, <4>1, <6>1
        <5>2. disk[i] \in seen[Inputs[k]] \ {Gone}
          BY <2>2, <2>6, <4>1
        <5> QED
          BY <5>1, <5>2
      <4>2. CASE k \in 1 .. n
        <5>1. PICK c \in seen[Inputs[k]] \ {Gone} : f[2 + k] = StoreEntry(paths[Inputs[k]], c)
          BY <1>3, <4>2 DEF Listed
        <5>2. file'[2 + k] = f[2 + k]
          BY <1>3, <2>5, <4>2
        <5> QED
          BY <5>1, <5>2
      <4> QED
        BY <1>3, <4>1, <4>2
    <3>2. file'[1] = f[1] /\ file'[2] = f[2]
      BY <1>3, <2>5
    <3> QED
      BY <1>3, <3>1, <3>2 DEF Listed
  <2>8. create'.at - 1 = n + 1 /\ create'.at <= Count + 1 /\ Len(file') = create'.at + 1
    BY <1>3, <2>1, <2>3, <2>5
  <2> QED
    BY <1>1, <1>3, <2>1, <2>5, <2>7, <2>8 DEF Built
<1> QED
  BY <1>4, <1>5, <1>6 DEF StoreHash

\* Copying an input in the second pass keeps the STORE file in step.
LEMMA BuiltCopy ==
  ASSUME Typed, Gathered, Built, StoreCopy
  PROVE  Built'
<1>1. create.pc = "copy" /\ UNCHANGED <<damaged, disk, paths, seen>>
  BY DEF StoreCopy, steady, readerVars
<1>2. PICK d, f : d = create.dict /\ f = file
  OBVIOUS
<1>3. /\ IsSeq(f) /\ Count \in Nat /\ Len(f) \in Nat /\ Len(f) >= Count + 2
      /\ Listed(f, d, paths, seen, Count) /\ Bytes(f, Len(f)) /\ damaged = None
  BY <1>1, <1>2, InputFacts, IsSeqFacts DEF Built
<1>4. CASE create.at > Count /\ create' = Go("storefooter") /\ UNCHANGED file
  <2>1. create'.pc = "storefooter" /\ create'.dict = d
    BY <1>2, <1>4, GoFacts, StageFacts
  <2> QED
    BY <1>1, <1>2, <1>3, <1>4, <2>1 DEF Built
<1>5. CASE create' = Go("failed") /\ UNCHANGED file
  BY <1>1, <1>5, BuiltStops DEF Writing
<1>6. CASE /\ ~(create.at > Count) /\ Present(create.at) /\ create' = [create EXCEPT !.at = @ + 1]
           /\ file' = file \o [k \in DOMAIN disk[Inputs[create.at]] |->
                                 PayloadByte(disk[Inputs[create.at]][k])]
  <2>1. create'.pc = "copy" /\ create'.dict = d
    BY <1>1, <1>2, <1>6, NextItem
  <2>2. PICK data, i : i = Inputs[create.at] /\ data = disk[i]
    OBVIOUS
  <2>3. data \in Seq(Nat)
    <3>1. create.at \in 1 .. Count
      BY <1>6, RunFields, InputFacts, SMTT(30)
    <3> QED
      BY <1>6, <2>2, <3>1, CutFacts
  <2>4. PICK more : more = [k \in DOMAIN data |-> PayloadByte(data[k])]
    OBVIOUS
  <2>5. /\ more = [k \in 1 .. Len(data) |-> more[k]] /\ Len(data) \in Nat
        /\ \A k \in 1 .. Len(data) : more[k] = PayloadByte(data[k]) /\ data[k] \in Nat
    BY <2>3, <2>4
  <2>6. IsSeq(more) /\ Len(more) = Len(data)
    BY ONLY <2>5, FunctionIsSeq
  <2>7. file' = f \o more
    BY <1>2, <1>6, <2>2, <2>4
  <2>8. /\ IsSeq(f \o more) /\ Len(f \o more) = Len(f) + Len(more)
        /\ \A k \in 1 .. Len(f) : (f \o more)[k] = f[k]
        /\ \A k \in 1 .. Len(more) : (f \o more)[Len(f) + k] = more[k]
    <3>1. IsSeq(f) /\ IsSeq(more)
      BY <1>3, <2>6
    <3> QED
      BY ONLY <3>1, ConcatCells
  <2>9. Bytes(file', Len(file'))
    <3>1. ASSUME NEW k \in Count + 3 .. Len(file') PROVE \E b \in Nat : file'[k] = PayloadByte(b)
      <4>1. CASE k <= Len(f)
        <5>1. k \in Count + 3 .. Len(f) /\ k \in 1 .. Len(f)
          BY <1>3, <4>1
        <5>2. PICK b \in Nat : f[k] = PayloadByte(b)
          BY <1>3, <5>1 DEF Bytes
        <5> QED
          BY <2>7, <2>8, <5>1, <5>2
      <4>2. CASE ~(k <= Len(f))
        <5>1. PICK j \in 1 .. Len(data) : k = Len(f) + j
          <6>1. k - Len(f) \in 1 .. Len(data) /\ k = Len(f) + (k - Len(f))
            BY <1>3, <2>5, <2>6, <2>7, <2>8, <4>2
          <6> QED
            BY <6>1
        <5>2. file'[k] = PayloadByte(data[j]) /\ data[j] \in Nat
          BY <2>5, <2>6, <2>7, <2>8, <5>1
        <5> QED
          BY <5>2
      <4> QED
        BY <4>1, <4>2
    <3> QED
      BY <3>1 DEF Bytes
  <2>10. Listed(file', d, paths, seen, Count) /\ Len(file') >= Count + 2
    <3>1. Len(file') >= Count + 2
      BY <1>3, <2>5, <2>6, <2>7, <2>8
    <3>2. \A k \in 1 .. Count + 2 : file'[k] = f[k]
      BY <1>3, <2>7, <2>8
    <3>3. PICK g : g = file'
      OBVIOUS
    <3>4. Listed(g, d, paths, seen, Count)
      <4>1. PICK ways, held : ways = paths /\ held = seen
        OBVIOUS
      <4>2. /\ Count \in Nat /\ Count <= Count /\ Listed(f, d, ways, held, Count)
            /\ \A k \in 1 .. Count + 2 : g[k] = f[k]
            /\ \A j \in ToSet(Inputs) : held[j] \subseteq held[j]
        BY <1>3, <3>2, <3>3, <4>1
      <4>3. Listed(g, d, ways, held, Count)
        BY ONLY <4>2, ListedMore
      <4> QED
        BY <4>1, <4>3
    <3> QED
      BY <3>1, <3>3, <3>4
  <2> QED
    BY <1>1, <1>3, <2>1, <2>7, <2>8, <2>9, <2>10 DEF Built
<1> QED
  BY <1>4, <1>5, <1>6 DEF StoreCopy

\* Writing the footer completes a STORE file.
LEMMA BuiltStoreFooter ==
  ASSUME Typed, Gathered, Built, StoreFooter
  PROVE  Built'
<1>1. create.pc = "storefooter" /\ UNCHANGED <<damaged, disk, paths, seen>>
  BY DEF StoreFooter, steady, readerVars
<1>2. PICK d, f, m, cell : d = create.dict /\ f = file /\ m = Len(f) /\ cell = Footer(2, 0, Count)
  OBVIOUS
<1>3. create'.pc = "done" /\ create'.dict = d /\ file' = Append(f, cell)
  BY <1>2, GoFacts, StageFacts DEF StoreFooter
<1>4. /\ IsSeq(f) /\ Count \in Nat /\ m \in Nat /\ m >= Count + 2
      /\ Listed(f, d, paths, seen, Count) /\ Bytes(f, m) /\ damaged = None
  BY <1>1, <1>2, InputFacts, IsSeqFacts DEF Built
<1>5. /\ IsSeq(Append(f, cell)) /\ Len(Append(f, cell)) = Len(f) + 1
      /\ Append(f, cell)[Len(f) + 1] = cell
      /\ \A k \in 1 .. Len(f) : Append(f, cell)[k] = f[k]
  <2>1. IsSeq(f)
    BY <1>4
  <2> QED
    BY ONLY <2>1, AppendCell
<1>6. PICK g : g = file'
  OBVIOUS
<1>7. IsSeq(g) /\ Len(g) = m + 1 /\ g[m + 1] = cell /\ \A k \in 1 .. m : g[k] = f[k]
  BY <1>2, <1>3, <1>5, <1>6
<1>8. PICK ways, held : ways = paths /\ held = seen
  OBVIOUS
<1>9. Listed(g, d, ways, held, Count)
  <2>1. /\ Count \in Nat /\ Count <= Count /\ Listed(f, d, ways, held, Count)
        /\ \A k \in 1 .. Count + 2 : g[k] = f[k]
        /\ \A j \in ToSet(Inputs) : held[j] \subseteq held[j]
    BY <1>4, <1>7, <1>8
  <2> QED
    BY ONLY <2>1, ListedMore
<1>10. Bytes(g, m)
  BY <1>4, <1>7 DEF Bytes
<1>11. Stored(g, d, ways, held)
  <2>1. Len(g) - 1 = m /\ Len(g) >= Count + 3
    BY <1>4, <1>7
  <2> QED
    BY <1>2, <1>7, <1>9, <1>10, <2>1 DEF Stored
<1>12. Stored(file', create'.dict, paths', seen')
  BY <1>1, <1>3, <1>6, <1>8, <1>11
<1> QED
  BY <1>1, <1>3, <1>4, <1>6, <1>7, <1>12 DEF Built, None

\* An input is edited: the file stays, and what its entries were taken of is remembered.
LEMMA BuiltEdit ==
  ASSUME Typed, Gathered, Built, EditInput
  PROVE  Built'
<1>1. create.pc \in Writing \cup {"idle"} /\ UNCHANGED <<file, damaged, paths>>
  BY DEF EditInput, readerVars
<1>2. create' = [create EXCEPT !.edits = @ + 1]
  BY DEF EditInput
<1>3. /\ create'.pc = create.pc /\ create'.dict = create.dict /\ create'.pieces = create.pieces
      /\ create'.entries = create.entries /\ create'.at = create.at /\ create'.packed = create.packed
  BY <1>2 DEF Typed, Runs
<1>4. damaged = None
  BY <1>1 DEF Built, Writing
<1>5. \A j \in ToSet(Inputs) : seen[j] \subseteq seen'[j]
  <2>1. PICK i \in ToSet(Inputs), c \in Held :
          seen' = [seen EXCEPT ![i] = IF create.pc = "idle" THEN @ ELSE @ \cup {c}]
    BY DEF EditInput, Held
  <2> QED
    BY <2>1 DEF Typed
<1>6. Ready(file', create') <=> Ready(file, create)
  BY <1>1, <1>3 DEF Ready
<1>7. ASSUME NEW n \in Nat, n <= Count, Listed(file, create.dict, paths, seen, n)
      PROVE  Listed(file', create'.dict, paths', seen', n)
  <2>1. PICK f, d, ways, held, more :
          f = file /\ d = create.dict /\ ways = paths /\ held = seen /\ more = seen'
    OBVIOUS
  <2>2. /\ n \in Nat /\ n <= Count /\ Listed(f, d, ways, held, n) /\ (\A k \in 1 .. n + 2 : f[k] = f[k])
        /\ \A j \in ToSet(Inputs) : held[j] \subseteq more[j]
    BY <1>5, <1>7, <2>1
  <2>3. Listed(f, d, ways, more, n)
    BY ONLY <2>2, ListedMore
  <2> QED
    BY <1>1, <1>3, <2>1, <2>3
<1>8. create.at - 1 \in Nat /\ Count \in Nat /\ create.at \in Nat
  BY RunFields, InputFacts
<1>9. CASE create.pc = "hash"
  <2>1. create.at - 1 <= Count
    BY <1>8, <1>9 DEF Built
  <2> QED
    BY <1>1, <1>3, <1>4, <1>7, <1>8, <1>9, <2>1 DEF Built
<1>10. CASE create.pc \in {"copy", "storefooter"}
  BY <1>1, <1>3, <1>4, <1>7, <1>8, <1>10 DEF Built
<1>11. CASE create.pc \notin {"hash", "copy", "storefooter"}
  BY <1>1, <1>3, <1>4, <1>6, <1>11 DEF Built, Writing
<1> QED
  BY <1>9, <1>10, <1>11

\* The remaining steps leave the file in step with the stage create is in.
LEMMA BuiltRest ==
  ASSUME Typed, Gathered, Built,
         Retrain \/ DamagePayload \/ DamageTable \/ CutTail \/ OpenAndDecode \/ WriteEntry \/ UNCHANGED vars
  PROVE  Built'
<1>1. UNCHANGED <<create, paths, seen>>
  BY DEF Retrain, DamagePayload, DamageTable, Damage, CutTail, OpenAndDecode, WriteEntry, vars
<1>2. CASE Retrain \/ OpenAndDecode \/ WriteEntry \/ UNCHANGED vars
  <2>1. UNCHANGED <<file, damaged>>
    BY <1>2 DEF Retrain, OpenAndDecode, WriteEntry, vars
  <2> QED
    BY <1>1, <2>1 DEF Built
<1>3. CASE DamagePayload \/ DamageTable
  <2>1. PICK k, becomes : Damage("payload", k, becomes) \/ Damage("table", k, becomes)
    <3>1. CASE DamagePayload
      BY <3>1 DEF DamagePayload
    <3>2. CASE DamageTable
      <4>1. \E k, becomes : Damage("table", k, becomes)
        BY <3>2 DEF DamageTable
      <4> QED
        BY <4>1
    <3> QED
      BY <1>3, <3>1, <3>2
  <2>2. /\ create.pc = "done" /\ file' = [file EXCEPT ![k] = becomes]
        /\ damaged' \in {"payload", "table", "spoiled"}
    BY <2>1 DEF Damage
  <2>3. IsSeq(file')
    BY <2>2, ExceptCell DEF Built
  <2> QED
    BY <1>1, <2>2, <2>3 DEF Built, None
<1>4. CASE CutTail
  <2>1. create.pc = "done" /\ file' = Front(file) /\ damaged' = "cut" /\ damaged = None
    BY <1>4 DEF CutTail
  <2>2. PICK m : m = Len(file)
    OBVIOUS
  <2>3. IsSeq(file) /\ m \in Nat /\ (Ready(file, create) \/ Stored(file, create.dict, paths, seen))
    BY <2>1, <2>2, IsSeqFacts DEF Built
  <2>4. Count \in Nat /\ Len(create.pieces) \in Nat /\ HeadLen(create.dict) \in {1, 2}
    BY InputFacts, RunFields, HeadLenFacts
  <2>5. m >= 3
    BY <2>2, <2>3, <2>4, SMTT(30) DEF Ready, Packed, Stored, TableCell
  <2>6. /\ IsSeq(file') /\ Len(file') = m - 1
        /\ \A k \in 1 .. m - 1 : file'[k] = file[k]
    BY <2>1, <2>2, <2>3, <2>5, FrontCells
  <2>7. file[m - 1].kind # "footer"
    <3>1. CASE Ready(file, create)
      <4>1. PICK t, e : t = TableCell(create.dict, create.pieces) /\ e = create.entries
        OBVIOUS
      <4>2. /\ m = t + Count + 1 /\ file[t] = TableHead(Count) /\ t \in Nat
            /\ \A k \in 1 .. Count : file[t + k] = e[k]
        BY <2>2, <2>4, <3>1, <4>1 DEF Ready, Packed, Tabled, TableCell
      <4>3. CASE Count = 0
        BY <2>4, <4>2, <4>3 DEF TableHead
      <4>4. CASE Count # 0
        <5>1. Count \in 1 .. Count /\ m - 1 = t + Count
          BY <2>4, <4>2, <4>4
        <5>2. file[m - 1] = e[Count]
          BY <4>2, <5>1
        <5>3. e[Count] \in EntryCell
          BY <3>1, <4>1, <5>1, RunFields DEF Ready
        <5> QED
          BY <5>2, <5>3 DEF EntryCell
      <4> QED
        BY <4>3, <4>4
    <3>2. CASE Stored(file, create.dict, paths, seen)
      <4>1. Listed(file, create.dict, paths, seen, Count) /\ Bytes(file, m - 1) /\ m >= Count + 3
        BY <2>2, <3>2 DEF Stored
      <4>2. CASE m = Count + 3
        <5>1. CASE Count = 0
          BY <2>4, <4>1, <4>2, <5>1 DEF Listed, TableHead
        <5>2. CASE Count # 0
          <6>1. Count \in 1 .. Count /\ m - 1 = 2 + Count
            BY <2>4, <4>2, <5>2
          <6>2. PICK c : file[2 + Count] = StoreEntry(paths[Inputs[Count]], c)
            BY <4>1, <6>1 DEF Listed
          <6> QED
            BY <6>1, <6>2 DEF StoreEntry
        <5> QED
          BY <5>1, <5>2
      <4>3. CASE m # Count + 3
        <5>1. m - 1 \in Count + 3 .. m - 1
          BY <2>3, <2>4, <4>1, <4>3
        <5>2. PICK b : file[m - 1] = PayloadByte(b)
          BY <4>1, <5>1 DEF Bytes
        <5> QED
          BY <5>2 DEF PayloadByte
      <4> QED
        BY <4>2, <4>3
    <3> QED
      BY <2>3, <3>1, <3>2
  <2>8. Unfinished(file')
    <3>1. m - 1 \in 1 .. m - 1
      BY <2>3, <2>5
    <3> QED
      BY <2>6, <2>7, <3>1 DEF Unfinished
  <2> QED
    BY <1>1, <2>1, <2>6, <2>8 DEF Built, None
<1> QED
  BY <1>2, <1>3, <1>4

\* Every step keeps the file in step with the stage create is in.
LEMMA BuiltNext ==
  ASSUME Typed, Gathered, Built, [Next]_vars
  PROVE  Built'
<1>1. CASE Crash
  <2>1. create.pc \in Writing /\ create' = Go("crashed") /\ UNCHANGED <<file, damaged>>
    BY <1>1 DEF Crash, steady, readerVars
  <2> QED
    BY <2>1, BuiltStops
<1>2. CASE Create
  BY <1>2, BuiltHead, BuiltGather, BuiltEmit, BuiltTable, BuiltFooter, BuiltDecide, BuiltHash,
     BuiltCopy, BuiltStoreFooter DEF Create
<1> QED
  BY <1>1, <1>2, BuiltEdit, BuiltRest DEF Next

----------------------------------------------------------------------------
(* Opening what a create run wrote.                                        *)

\* A compressed container with m payloads as far as its tables and kinds of cells go.
PackedBones(f, d, ways, m) ==
  /\ Len(f) = HeadLen(d) + m + Count + 2
  /\ f[1].kind = "header" /\ f[1].dict = (d # NoDict) /\ (d # NoDict => f[2] = DictRecord(d))
  /\ \A k \in 1 .. m : f[HeadLen(d) + k].kind = "data"
  /\ f[HeadLen(d) + m + 1] = TableHead(Count)
  /\ \A k \in 1 .. Count : /\ f[HeadLen(d) + m + 1 + k].kind = "entry"
                           /\ f[HeadLen(d) + m + 1 + k].path = ways[Inputs[k]]
  /\ f[Len(f)] = Footer(HeadLen(d) + m + 1, m, Count)

\* A STORE container in the same way.
StoredBones(f, d, ways) ==
  /\ Len(f) >= Count + 3
  /\ f[1] = StoreHeader(d) /\ f[2] = TableHead(Count)
  /\ \A k \in 1 .. Count : /\ f[2 + k].kind = "stored" /\ f[2 + k].len \in Nat
                           /\ f[2 + k].path = ways[Inputs[k]]
  /\ \A k \in Count + 3 .. Len(f) - 1 : f[k].kind = "byte"
  /\ f[Len(f)] = Footer(2, 0, Count)

\* The index of the first: head, payloads and entries are found where they were written.
PackedFound(f, d, m, idx) ==
  /\ idx.ok <=> f[1].intact
  /\ idx.ok => /\ idx.store = FALSE /\ idx.dict = d
               /\ IsSeq(idx.chunks) /\ Len(idx.chunks) = m
               /\ IsSeq(idx.files) /\ Len(idx.files) = Count
               /\ \A k \in 1 .. m : idx.chunks[k] = f[HeadLen(d) + k]
               /\ \A k \in 1 .. Count : idx.files[k] = f[HeadLen(d) + m + 1 + k]

\* The index of the second: it opens if the lengths fill the file and every slice has the
\* hash of its entry.
StoredFound(f, d, idx, tab) ==
  /\ IsSeq(tab) /\ Len(tab) = Count /\ \A k \in 1 .. Count : tab[k] = f[2 + k]
  /\ idx.ok <=> /\ PayloadAt(tab, Count + 3, Count + 1) = Len(f)
                /\ \A k \in 1 .. Count : SliceMatches(f, PayloadAt(tab, Count + 3, k), tab[k])
  /\ idx.ok => /\ idx.store = TRUE /\ idx.dict = d /\ idx.chunks = <<>> /\ idx.files = tab
               /\ \A k \in 1 .. Count : idx.bytes[k] = Slice(f, PayloadAt(tab, Count + 3, k), tab[k].len)

\* That is what open_index makes of a compressed container ...
LEMMA OpenPacked ==
  ASSUME NEW f, NEW d, NEW ways, NEW m \in Nat, IsSeq(f), PackedBones(f, d, ways, m)
  PROVE  PackedFound(f, d, m, OpenIndex(f))
<1>0. PICK idx : idx = OpenIndex(f)
  OBVIOUS
<1>1. PICK h, t, n : h = HeadLen(d) /\ t = h + m + 1 /\ n = Count
  OBVIOUS
<1>2. /\ h \in {1, 2} /\ t \in Nat /\ n \in Nat /\ Len(f) = t + n + 1 /\ Len(f) \in Nat
      /\ (d # NoDict => h = 2) /\ (d = NoDict => h = 1)
  <2>1. h \in {1, 2} /\ (d # NoDict => h = 2) /\ (d = NoDict => h = 1)
    BY <1>1 DEF HeadLen
  <2>2. n \in Nat
    BY <1>1, InputFacts
  <2>3. Len(f) = h + m + n + 2
    BY <1>1 DEF PackedBones
  <2> QED
    BY <1>1, <2>1, <2>2, <2>3, SMTT(30)
<1>3. /\ Last(f).kind = "footer" /\ Last(f).table = t /\ Last(f).chunks = m /\ Last(f).files = n
      /\ Last(f) = f[Len(f)]
  BY <1>1 DEF PackedBones, Footer, Last
<1>4. PICK tab : tab = TableOf(f)
  OBVIOUS
<1>5. IsSeq(tab) /\ Len(tab) = n /\ \A k \in 1 .. n : tab[k] = f[t + k]
  <2>1. tab = SubSeq(f, t + 1, t + n)
    BY <1>3, <1>4 DEF TableOf
  <2>2. t \in Nat /\ n \in Nat
    BY <1>2
  <2>3. /\ IsSeq(SubSeq(f, t + 1, t + n)) /\ Len(SubSeq(f, t + 1, t + n)) = n
        /\ \A k \in 1 .. n : SubSeq(f, t + 1, t + n)[k] = f[t + k]
    BY ONLY <2>2, Stretch
  <2> QED
    BY ONLY <2>1, <2>3
<1>6. Kinds(tab) \subseteq {"entry"}
  <2>1. \A k \in DOMAIN tab : tab[k].kind = "entry"
    BY <1>1, <1>5, IsSeqFacts DEF PackedBones
  <2> QED
    BY <2>1 DEF Kinds
<1>7. PICK rec : rec = RecordsOf(f)
  OBVIOUS
<1>8. PICK l \in Nat : l = t - 2
  BY <1>1, <1>2, SMTT(30)
<1>9. IsSeq(rec) /\ Len(rec) = l /\ DOMAIN rec = 1 .. l /\ \A k \in 1 .. l : rec[k] = f[1 + k]
  <2>1. PICK a \in Nat : a = 1
    OBVIOUS
  <2>2. rec = SubSeq(f, a + 1, a + l)
    <3>1. rec = SubSeq(f, 2, t - 1)
      BY <1>3, <1>7 DEF RecordsOf
    <3>2. a + 1 = 2 /\ a + l = t - 1
      BY <1>2, <1>8, <2>1
    <3> QED
      BY <3>1, <3>2
  <2>5. a \in Nat /\ l \in Nat
    BY <2>1, <1>8
  <2>3. /\ IsSeq(SubSeq(f, a + 1, a + l)) /\ Len(SubSeq(f, a + 1, a + l)) = l
        /\ \A k \in 1 .. l : SubSeq(f, a + 1, a + l)[k] = f[a + k]
    BY ONLY <2>5, Stretch
  <2>4. IsSeq(rec) /\ Len(rec) = l /\ \A k \in 1 .. l : rec[k] = f[a + k]
    BY ONLY <2>2, <2>3
  <2> QED
    BY <2>1, <2>4, IsSeqFacts
<1>10. \A k \in 1 .. m : f[h + k].kind = "data"
  BY <1>1 DEF PackedBones
<1>11. PICK data : data = DataOf(f)
  OBVIOUS
<1>12. /\ (Marked(f) <=> d # NoDict) /\ Kinds(rec) \subseteq {"dict", "data"}
       /\ \A i \in 2..Len(rec) : rec[i].kind # "dict"
       /\ IsSeq(data) /\ Len(data) = m /\ \A k \in 1 .. m : data[k] = f[h + k]
       /\ (d # NoDict => rec[1].dict = d)
  <2>1. CASE d = NoDict
    <3>1. h = 1 /\ l = m
      BY <1>1, <1>2, <1>8, <2>1
    <3>2. \A k \in 1 .. l : rec[k].kind = "data"
      BY <1>9, <1>10, <3>1
    <3>3. ~Marked(f)
      BY <1>7, <1>9, <3>1, <3>2 DEF Marked
    <3>4. data = rec
      BY <1>7, <1>11, <3>3 DEF DataOf
    <3> QED
      BY <1>9, <2>1, <3>1, <3>2, <3>3, <3>4 DEF Kinds
  <2>2. CASE d # NoDict
    <3>1. h = 2 /\ l = m + 1 /\ 1 \in 1 .. l
      BY <1>1, <1>2, <1>8, <2>2
    <3>2. rec[1] = DictRecord(d) /\ rec # <<>>
      <4>1. f[2] = DictRecord(d)
        BY <2>2 DEF PackedBones
      <4>2. rec[1] = f[2]
        BY <1>9, <3>1
      <4>3. Len(rec) # 0
        BY <1>9, <3>1
      <4> QED
        BY <4>1, <4>2, <4>3
    <3>3. Marked(f) /\ rec[1].kind = "dict" /\ rec[1].dict = d
      BY <1>7, <3>2 DEF Marked, DictRecord
    <3>4. data = Tail(rec)
      BY <1>7, <1>11, <3>3 DEF DataOf
    <3>5. PICK S : S = ToSet(rec) /\ rec \in Seq(S)
      BY <1>9 DEF IsSeq
    <3>6. data \in Seq(S) /\ Len(data) = m /\ \A k \in 1 .. m : data[k] = rec[k + 1]
      BY <1>9, <3>1, <3>2, <3>4, <3>5, HeadTailProperties
    <3>7. \A k \in 1 .. m : data[k] = f[h + k]
      <4> TAKE k \in 1 .. m
      <4>1. k + 1 \in 1 .. l /\ 1 + (k + 1) = h + k
        BY <3>1
      <4> QED
        BY <1>9, <3>6, <4>1
    <3>8. \A k \in 2 .. l : rec[k].kind = "data"
      <4> TAKE k \in 2 .. l
      <4>1. k - 1 \in 1 .. m /\ 1 + k = h + (k - 1) /\ k \in 1 .. l
        BY <3>1
      <4> QED
        BY <1>9, <1>10, <4>1
    <3>9. Kinds(rec) \subseteq {"dict", "data"}
      <4>1. \A k \in 1 .. l : k = 1 \/ k \in 2 .. l
        BY <1>8
      <4> QED
        BY <1>9, <3>3, <3>8, <4>1 DEF Kinds
    <3>10. IsSeq(data)
      BY <3>6, SeqFacts
    <3>11. \A i \in 2..Len(rec) : rec[i].kind # "dict"
      BY <1>9, <3>8
    <3> QED
      BY <2>2, <3>3, <3>6, <3>7, <3>9, <3>10, <3>11
  <2> QED
    BY <2>1, <2>2
<1>13. PackedOpens(f) <=> f[1].intact
  <2>1. f[t].kind = "table" /\ f[t].files = n
    BY <1>1 DEF PackedBones, TableHead
  <2>2. f[1].dict <=> Marked(f)
    BY <1>12 DEF PackedBones
  <2>3. t + n < Len(f)
    BY <1>2
  <2> QED
    BY <1>3, <1>4, <1>6, <1>7, <1>11, <1>12, <2>1, <2>2, <2>3 DEF PackedOpens
<1>14. f[1].kind = "header" /\ ~(Len(f) < 2)
  <2>1. f[1].kind = "header"
    BY DEF PackedBones
  <2>2. ~(Len(f) < 2)
    <3>1. h \in {1, 2} /\ m \in Nat /\ n \in Nat /\ t = h + m + 1 /\ Len(f) = t + n + 1
      BY <1>1, <1>2
    <3> QED
      BY ONLY <3>1
  <2> QED
    BY <2>1, <2>2
<1>15. idx.ok <=> PackedOpens(f)
  BY <1>0, <1>3, <1>14, OpenCases
<1>16. ASSUME idx.ok
       PROVE  /\ idx.store = FALSE /\ idx.chunks = data /\ idx.files = tab /\ idx.dict = d
  <2>1. idx = PackedIndex(f)
    BY <1>0, <1>14, <1>16, OpenCases
  <2> QED
    BY <1>4, <1>7, <1>11, <1>12, <2>1 DEF PackedIndex
<1> QED
  <2>1. idx.ok <=> f[1].intact
    BY <1>13, <1>15
  <2>2. /\ IsSeq(data) /\ Len(data) = m /\ IsSeq(tab) /\ Len(tab) = Count
        /\ \A k \in 1 .. m : data[k] = f[HeadLen(d) + k]
    BY <1>1, <1>5, <1>12
  <2>3. \A k \in 1 .. Count : tab[k] = f[HeadLen(d) + m + 1 + k]
    BY <1>1, <1>5
  <2>4. PackedFound(f, d, m, idx)
    BY ONLY <1>16, <2>1, <2>2, <2>3 DEF PackedFound
  <2> QED
    BY <1>0, <2>4

\* ... and of a STORE container.
LEMMA OpenStored ==
  ASSUME NEW f, NEW d, NEW ways, IsSeq(f), StoredBones(f, d, ways)
  PROVE  StoredFound(f, d, OpenIndex(f), TableOf(f))
<1>0. PICK idx, tab : idx = OpenIndex(f) /\ tab = TableOf(f)
  OBVIOUS
<1>1. PICK t, n, s : t = 2 /\ n = Count /\ s = Count + 3
  OBVIOUS
<1>2. n \in Nat /\ t \in Nat /\ s = t + n + 1 /\ Len(f) \in Nat /\ Len(f) >= s /\ s \in Nat
  BY <1>1, InputFacts, IsSeqFacts DEF StoredBones
<1>3. /\ Last(f).kind = "footer" /\ Last(f).table = t /\ Last(f).chunks = 0 /\ Last(f).files = n
      /\ Last(f) = f[Len(f)]
  BY <1>1 DEF StoredBones, Footer, Last
<1>4. IsSeq(tab) /\ Len(tab) = n /\ \A k \in 1 .. n : tab[k] = f[t + k]
  <2>1. tab = SubSeq(f, t + 1, t + n)
    BY <1>0, <1>3 DEF TableOf
  <2>2. t \in Nat /\ n \in Nat
    BY <1>2
  <2>3. /\ IsSeq(SubSeq(f, t + 1, t + n)) /\ Len(SubSeq(f, t + 1, t + n)) = n
        /\ \A k \in 1 .. n : SubSeq(f, t + 1, t + n)[k] = f[t + k]
    BY ONLY <2>2, Stretch
  <2> QED
    BY ONLY <2>1, <2>3
<1>5. DOMAIN tab = 1 .. n
  BY <1>4, IsSeqFacts
<1>6. Kinds(tab) \subseteq {"stored"}
  <2>1. \A k \in 1 .. n : tab[k].kind = "stored"
    BY <1>1, <1>4 DEF StoredBones
  <2> QED
    BY <1>5, <2>1 DEF Kinds
<1>7. Kinds(SubSeq(f, s, Len(f) - 1)) \subseteq {"byte"}
  <2>1. PICK a \in Nat, l \in Nat : a + 1 = s /\ a + l = Len(f) - 1
    <3>1. s - 1 \in Nat /\ Len(f) - s \in Nat /\ (s - 1) + 1 = s /\ (s - 1) + (Len(f) - s) = Len(f) - 1
      BY <1>2
    <3> QED
      BY <3>1
  <2>2. PICK b : b = SubSeq(f, a + 1, a + l)
    OBVIOUS
  <2>7. a \in Nat /\ l \in Nat
    BY <2>1
  <2>3. /\ IsSeq(SubSeq(f, a + 1, a + l)) /\ Len(SubSeq(f, a + 1, a + l)) = l
        /\ \A k \in 1 .. l : SubSeq(f, a + 1, a + l)[k] = f[a + k]
    BY ONLY <2>7, Stretch
  <2>4. IsSeq(b) /\ Len(b) = l /\ \A k \in 1 .. l : b[k] = f[a + k]
    BY ONLY <2>2, <2>3
  <2>5. \A k \in DOMAIN b : b[k].kind = "byte"
    <3> TAKE k \in DOMAIN b
    <3>1. k \in 1 .. l
      BY <2>4, IsSeqFacts
    <3>2. a + k \in Count + 3 .. Len(f) - 1
      BY <1>1, <1>2, <2>1, <3>1
    <3> QED
      BY <2>4, <3>1, <3>2 DEF StoredBones
  <2>6. SubSeq(f, s, Len(f) - 1) = b
    BY <2>1, <2>2
  <2> QED
    BY <2>5, <2>6 DEF Kinds
<1>8. StoreOpens(f) <=> /\ PayloadAt(tab, s, n + 1) = Len(f)
                        /\ \A k \in 1 .. n : SliceMatches(f, PayloadAt(tab, s, k), tab[k])
  <2>1. f[t].kind = "table" /\ f[t].files = n
    BY <1>1 DEF StoredBones, TableHead
  <2>2. t + n < Len(f)
    BY <1>2
  <2> QED
    BY <1>0, <1>2, <1>3, <1>5, <1>6, <1>7, <2>1, <2>2 DEF StoreOpens
<1>9. f[1].kind = "store" /\ f[1].dict = d /\ ~(Len(f) < 2)
  <2>1. f[1].kind = "store" /\ f[1].dict = d
    BY DEF StoredBones, StoreHeader
  <2>2. ~(Len(f) < 2)
    BY <1>1, <1>2
  <2> QED
    BY <2>1, <2>2
<1>10. idx.ok <=> StoreOpens(f)
  BY <1>0, <1>3, <1>9, OpenCases
<1>11. ASSUME idx.ok
       PROVE  /\ idx.store = TRUE /\ idx.dict = d /\ idx.chunks = <<>> /\ idx.files = tab
              /\ \A k \in 1 .. n : idx.bytes[k] = Slice(f, PayloadAt(tab, s, k), tab[k].len)
  <2>1. idx = StoreIndex(f)
    BY <1>0, <1>9, <1>11, OpenCases
  <2>2. /\ idx.store = TRUE /\ idx.dict = f[1].dict /\ idx.chunks = <<>> /\ idx.files = tab
        /\ idx.bytes = [i \in DOMAIN tab |->
                          Slice(f, PayloadAt(tab, Last(f).table + Last(f).files + 1, i), tab[i].len)]
    BY <1>0, <2>1 DEF StoreIndex
  <2>3. Last(f).table + Last(f).files + 1 = s
    BY <1>2, <1>3
  <2> QED
    BY <1>5, <1>9, <2>2, <2>3
<1> QED
  <2>1. StoredFound(f, d, idx, tab)
    BY <1>1, <1>4, <1>8, <1>10, <1>11 DEF StoredFound
  <2> QED
    BY <1>0, <2>1

\* A finished compressed container has the bones of one.
LEMMA ReadyBones ==
  ASSUME Typed, Gathered, NEW f, Ready(f, create)
  PROVE  PackedBones(f, create.dict, paths, Len(create.pieces))
<1>1. PICK d, p, e, h, m : d = create.dict /\ p = create.pieces /\ e = create.entries /\ h = HeadLen(d) /\ m = Len(p)
  OBVIOUS
<1>2. Packed(f, d, p, e) /\ Len(e) = Count
  BY <1>1 DEF Ready
<1>3. h \in {1, 2} /\ m \in Nat /\ Count \in Nat
  BY <1>1, HeadLenFacts, RunFields, InputFacts
<1>4. TableCell(d, p) = h + m + 1
  BY <1>1 DEF TableCell
<1>5. Len(f) = h + m + Count + 2
  BY <1>2, <1>3, <1>4 DEF Packed
<1>6. Emitted(f, d, p, m)
  BY <1>1, <1>2 DEF Packed, Tabled
<1>7. f[1].kind = "header" /\ f[1].dict = (d # NoDict) /\ (d # NoDict => f[2] = DictRecord(d))
  BY <1>6 DEF Emitted, Header
<1>8. \A k \in 1 .. m : f[h + k].kind = "data"
  <2> TAKE k \in 1 .. m
  <2>1. PICK s \in PackedSizes : f[h + k] = DataRecord(p[k], s, d)
    BY <1>1, <1>6 DEF Emitted
  <2> QED
    BY <2>1 DEF DataRecord
<1>9. f[h + m + 1] = TableHead(Count) /\ \A k \in 1 .. Count : f[h + m + 1 + k] = e[k]
  BY <1>2, <1>4 DEF Packed, Tabled
<1>10. \A k \in 1 .. Count : e[k].kind = "entry" /\ e[k].path = paths[Inputs[k]]
  <2> TAKE k \in 1 .. Count
  <2>1. Spelled(k) /\ e[k] \in EntryCell
    BY <1>1, <1>2, RunFields DEF Gathered
  <2> QED
    BY <1>1, <2>1 DEF Spelled, Spells, EntryCell
<1>11. f[Len(f)] = Footer(h + m + 1, m, Count)
  BY <1>1, <1>2, <1>4 DEF Packed
<1>12. /\ \A k \in 1 .. Count : /\ f[h + m + 1 + k].kind = "entry"
                                /\ f[h + m + 1 + k].path = paths[Inputs[k]]
  BY <1>9, <1>10
<1>13. PackedBones(f, d, paths, m)
  BY <1>1, <1>5, <1>7, <1>8, <1>9, <1>11, <1>12 DEF PackedBones
<1> QED
  BY <1>1, <1>13

\* What an input held was a sequence of bytes.
LEMMA SeenFacts ==
  ASSUME Typed, NEW k \in 1 .. Count, NEW c \in seen[Inputs[k]] \ {Gone}
  PROVE  c \in Contents /\ c \in Seq(Nat) /\ IsSeq(c) /\ Len(c) \in Nat
BY InputFacts DEF Typed, Held

\* A completed STORE file has the bones of one.
LEMMA StoredHasBones ==
  ASSUME Typed, NEW f, NEW d, Stored(f, d, paths, seen)
  PROVE  StoredBones(f, d, paths)
<1>1. Len(f) >= Count + 3 /\ f[1] = StoreHeader(d) /\ f[2] = TableHead(Count)
      /\ f[Len(f)] = Footer(2, 0, Count)
  BY DEF Stored, Listed
<1>2. \A k \in 1 .. Count : /\ f[2 + k].kind = "stored" /\ f[2 + k].len \in Nat
                            /\ f[2 + k].path = paths[Inputs[k]]
  <2> TAKE k \in 1 .. Count
  <2>1. PICK c \in seen[Inputs[k]] \ {Gone} : f[2 + k] = StoreEntry(paths[Inputs[k]], c)
    BY DEF Stored, Listed
  <2>2. Len(c) \in Nat
    BY SeenFacts
  <2> QED
    BY <2>1, <2>2 DEF StoreEntry
<1>3. \A k \in Count + 3 .. Len(f) - 1 : f[k].kind = "byte"
  <2> TAKE k \in Count + 3 .. Len(f) - 1
  <2>1. PICK b \in Nat : f[k] = PayloadByte(b)
    BY DEF Stored, Bytes
  <2> QED
    BY <2>1 DEF PayloadByte
<1> QED
  BY <1>1, <1>2, <1>3 DEF StoredBones

\* A file without a footer does not open.
LEMMA UnfinishedRejected ==
  ASSUME NEW f, Unfinished(f)
  PROVE  ~OpenIndex(f).ok
BY OpenCases DEF Unfinished, Last

\* The index lists every input.
ListsInputs(idx, ways) ==
  /\ Len(idx.files) = Count
  /\ \A k \in DOMAIN idx.files : idx.files[k].path = ways[Inputs[k]]

\* A file with the bones of an archive, if it opens, lists every input under its path.
LEMMA BonesList ==
  ASSUME NEW f, NEW d, NEW ways, IsSeq(f), NEW idx, idx = OpenIndex(f), idx.ok,
         (\E m \in Nat : PackedBones(f, d, ways, m)) \/ StoredBones(f, d, ways)
  PROVE  ListsInputs(idx, ways) /\ idx.dict = d
<1>1. CASE \E m \in Nat : PackedBones(f, d, ways, m)
  <2>1. PICK m \in Nat : PackedBones(f, d, ways, m)
    BY <1>1
  <2>2. /\ idx.dict = d /\ IsSeq(idx.files) /\ Len(idx.files) = Count
        /\ \A k \in 1 .. Count : idx.files[k] = f[HeadLen(d) + m + 1 + k]
    <3>1. PackedFound(f, d, m, idx)
      BY <2>1, OpenPacked
    <3> QED
      BY <3>1 DEF PackedFound
  <2>3. DOMAIN idx.files = 1 .. Count
    BY <2>2, IsSeqFacts
  <2>4. \A k \in 1 .. Count : idx.files[k].path = ways[Inputs[k]]
    BY <2>1, <2>2 DEF PackedBones
  <2> QED
    BY <2>2, <2>3, <2>4 DEF ListsInputs
<1>2. CASE StoredBones(f, d, ways)
  <2>1. PICK tab : tab = TableOf(f) /\ StoredFound(f, d, idx, tab)
    BY <1>2, OpenStored
  <2>2. /\ IsSeq(tab) /\ Len(tab) = Count /\ \A k \in 1 .. Count : tab[k] = f[2 + k]
        /\ idx.dict = d /\ idx.files = tab
    BY <2>1 DEF StoredFound
  <2>3. DOMAIN tab = 1 .. Count
    BY <2>2, IsSeqFacts
  <2>4. \A k \in 1 .. Count : tab[k].path = ways[Inputs[k]]
    BY <1>2, <2>2 DEF StoredBones
  <2> QED
    BY <2>2, <2>3, <2>4 DEF ListsInputs
<1> QED
  BY <1>1, <1>2

----------------------------------------------------------------------------
(* The numbers of the tables stay numbers, whatever is damaged.            *)

\* Measured speaks of the cells 1 to the length.
LEMMA MeasuredCells ==
  ASSUME NEW f, IsSeq(f)
  PROVE  Measured(f) <=> \A k \in 1 .. Len(f) : Numbered(f[k])
<1>1. DOMAIN f = 1 .. Len(f)
  BY IsSeqFacts
<1> QED
  BY <1>1 DEF Measured

\* A measured file stays measured when a measured cell is appended.
LEMMA MeasuredAppend ==
  ASSUME NEW f, IsSeq(f), Measured(f), NEW c, Numbered(c)
  PROVE  IsSeq(Append(f, c)) /\ Measured(Append(f, c))
<1>1. PICK g : g = Append(f, c)
  OBVIOUS
<1>2. /\ IsSeq(g) /\ Len(g) = Len(f) + 1 /\ g[Len(f) + 1] = c
      /\ \A k \in 1 .. Len(f) : g[k] = f[k]
  BY <1>1, AppendCell
<1>3. Len(f) \in Nat /\ \A k \in 1 .. Len(f) : Numbered(f[k])
  BY MeasuredCells, IsSeqFacts
<1>4. ASSUME NEW k \in 1 .. Len(g) PROVE Numbered(g[k])
  <2>1. k \in 1 .. Len(f) \/ k = Len(f) + 1
    BY <1>2, <1>3
  <2> QED
    BY <1>2, <1>3, <2>1
<1>5. Measured(g)
  BY <1>2, <1>4, MeasuredCells
<1> QED
  BY <1>1, <1>2, <1>5

\* Two measured files make a measured one.
LEMMA MeasuredConcat ==
  ASSUME NEW f, IsSeq(f), Measured(f), NEW g, IsSeq(g), Measured(g)
  PROVE  IsSeq(f \o g) /\ Measured(f \o g)
<1>1. PICK h : h = f \o g
  OBVIOUS
<1>2. /\ IsSeq(h) /\ Len(h) = Len(f) + Len(g)
      /\ \A k \in 1 .. Len(f) : h[k] = f[k]
      /\ \A k \in 1 .. Len(g) : h[Len(f) + k] = g[k]
  BY <1>1, ConcatCells
<1>3. /\ Len(f) \in Nat /\ \A k \in 1 .. Len(f) : Numbered(f[k])
      /\ Len(g) \in Nat /\ \A k \in 1 .. Len(g) : Numbered(g[k])
  BY MeasuredCells, IsSeqFacts
<1>4. ASSUME NEW k \in 1 .. Len(h) PROVE Numbered(h[k])
  <2>1. k \in 1 .. Len(f) \/ (k - Len(f) \in 1 .. Len(g) /\ Len(f) + (k - Len(f)) = k)
    BY <1>2, <1>3
  <2> QED
    BY <1>2, <1>3, <2>1
<1>5. Measured(h)
  BY <1>2, <1>4, MeasuredCells
<1> QED
  BY <1>1, <1>2, <1>5

\* The other cells that create writes carry no such number.
LEMMA PlainCells ==
  /\ \A d : Numbered(Header(d)) /\ Numbered(DictRecord(d)) /\ Numbered(StoreHeader(d))
  /\ \A p, s, d : Numbered(DataRecord(p, s, d))
  /\ \A n : Numbered(TableHead(n)) /\ Numbered(PayloadByte(n))
  /\ \A e \in EntryCell : Numbered(e)
  /\ \A path, c : Len(c) \in Nat => Numbered(StoreEntry(path, c))
  /\ \A t \in Nat, n \in Nat : \A m : Numbered(Footer(t, m, n))
BY DEF Numbered, Header, DictRecord, StoreHeader, DataRecord, TableHead, PayloadByte, EntryCell,
       StoreEntry, Footer

\* A file of one measured cell is measured.
LEMMA OneCell ==
  ASSUME NEW c, Numbered(c)
  PROVE  IsSeq(<<c>>) /\ Measured(<<c>>)
BY DEF IsSeq, ToSet, Measured

\* The empty file is measured.
LEMMA NoCell == IsSeq(<<>>) /\ Measured(<<>>)
BY DEF IsSeq, ToSet, Measured

\* The file is measured at the start.
LEMMA MeasuredInit ==
  ASSUME Init
  PROVE  Measured(file)
<1>1. file = <<>> \/ file = OldArchive
  BY DEF Init
<1>2. Measured(OldArchive)
  BY ArchiveAssumption DEF Measured, Numbered
<1> QED
  BY <1>1, <1>2, NoCell

\* The head of a file, and every cell appended.
LEMMA MeasuredHead ==
  ASSUME Truncate \/ WriteHeader \/ RestartAsStore, Measured(file)
  PROVE  Measured(file')
<1>1. CASE Truncate
  BY <1>1, NoCell DEF Truncate
<1>2. CASE WriteHeader
  <2>1. PICK f, g : /\ f = <<Header(create.dict)>>
                    /\ g = (IF create.dict = NoDict THEN <<>> ELSE <<DictRecord(create.dict)>>)
    OBVIOUS
  <2>2. file' = f \o g
    BY <1>2, <2>1 DEF WriteHeader
  <2>3. IsSeq(f) /\ Measured(f) /\ IsSeq(g) /\ Measured(g)
    BY <2>1, OneCell, NoCell, PlainCells
  <2> QED
    BY <2>2, <2>3, MeasuredConcat
<1>3. CASE RestartAsStore
  <2>1. PICK a, b : a = StoreHeader(create.dict) /\ b = TableHead(Count)
    OBVIOUS
  <2>2. Numbered(a) /\ Numbered(b) /\ file' = <<a, b>>
    BY <1>3, <2>1, PlainCells DEF RestartAsStore
  <2> QED
    BY <2>2 DEF Measured
<1> QED
  BY <1>1, <1>2, <1>3

\* What is left of a measured file when its first cells are cut off is measured.
LEMMA MeasuredTail ==
  ASSUME Typed, Gathered, Built, Measured(file),
         EmitPiece \/ WriteTable \/ WriteFooter \/ StoreHash \/ StoreCopy \/ StoreFooter
  PROVE  Measured(file')
<1>1. IsSeq(file) /\ Count \in Nat
  BY InputFacts DEF Built
<1>2. CASE EmitPiece
  <2>1. \/ file' = file
        \/ \E n \in PackedSizes : file' = Append(file, DataRecord(create.pieces[create.at], n, create.dict))
    BY <1>2 DEF EmitPiece
  <2> QED
    BY <1>1, <2>1, MeasuredAppend, PlainCells
<1>3. CASE WriteTable
  <2>1. PICK e, c : e = create.entries /\ c = TableHead(Len(e))
    OBVIOUS
  <2>2. file' = Append(file, c) \o e
    BY <1>3, <2>1 DEF WriteTable
  <2>3. IsSeq(e) /\ Measured(e)
    BY <2>1, RunFields, PlainCells, MeasuredCells
  <2>4. IsSeq(Append(file, c)) /\ Measured(Append(file, c))
    BY <1>1, <2>1, MeasuredAppend, PlainCells
  <2> QED
    BY <2>2, <2>3, <2>4, MeasuredConcat
<1>4. CASE WriteFooter
  <2>1. PICK n, t, c : n = Len(create.entries) /\ t = Len(file) - n /\ c = Footer(t, Len(create.pieces), n)
    OBVIOUS
  <2>2. file' = Append(file, c)
    BY <1>4, <2>1 DEF WriteFooter
  <2>3. n \in Nat /\ t \in Nat
    <3>1. create.pc = "footer"
      BY <1>4 DEF WriteFooter
    <3>2. Len(file) = TableCell(create.dict, create.pieces) + n
      BY <2>1, <3>1 DEF Built
    <3>3. TableCell(create.dict, create.pieces) \in Nat /\ n \in Nat
      BY <2>1, RunFields, HeadLenFacts DEF TableCell
    <3> QED
      BY <2>1, <3>2, <3>3
  <2> QED
    BY <1>1, <2>1, <2>2, <2>3, MeasuredAppend, PlainCells
<1>5. CASE StoreHash
  <2>1. CASE file' = file
    BY <2>1
  <2>2. CASE file' # file
    <3>1. /\ ~(create.at > Count) /\ Present(create.at)
          /\ file' = Append(file, StoreEntry(paths[Inputs[create.at]], disk[Inputs[create.at]]))
      BY <1>5, <2>2 DEF StoreHash
    <3>2. create.at \in 1 .. Count
      BY <1>1, <3>1, RunFields
    <3>3. Len(disk[Inputs[create.at]]) \in Nat
      BY <3>1, <3>2, CutFacts
    <3> QED
      BY <1>1, <3>1, <3>3, MeasuredAppend, PlainCells
  <2> QED
    BY <2>1, <2>2
<1>6. CASE StoreCopy
  <2>1. CASE file' = file
    BY <2>1
  <2>2. CASE file' # file
    <3>1. PICK data, more : /\ data = disk[Inputs[create.at]]
                            /\ more = [k \in DOMAIN data |-> PayloadByte(data[k])]
      OBVIOUS
    <3>2. ~(create.at > Count) /\ Present(create.at) /\ file' = file \o more
      BY <1>6, <2>2, <3>1 DEF StoreCopy
    <3>3. create.at \in 1 .. Count
      BY <1>1, <3>2, RunFields
    <3>4. data \in Seq(Nat) /\ Len(data) \in Nat /\ DOMAIN data = 1 .. Len(data)
      BY <3>1, <3>2, <3>3, CutFacts, SMTT(30)
    <3>5. more = [k \in 1 .. Len(data) |-> more[k]]
      BY <3>1, <3>4
    <3>6. IsSeq(more)
      BY <3>4, <3>5, FunctionIsSeq
    <3>7. Measured(more)
      BY <3>1, PlainCells DEF Measured
    <3> QED
      BY <1>1, <3>2, <3>6, <3>7, MeasuredConcat
  <2> QED
    BY <2>1, <2>2
<1>7. CASE StoreFooter
  <2>1. file' = Append(file, Footer(2, 0, Count))
    BY <1>7 DEF StoreFooter
  <2>2. Numbered(Footer(2, 0, Count))
    BY <1>1 DEF Numbered, Footer
  <2> QED
    BY <1>1, <2>1, <2>2, MeasuredAppend
<1> QED
  BY <1>2, <1>3, <1>4, <1>5, <1>6, <1>7

\* A cell damaged keeps its numbers numbers.
LEMMA MeasuredDamage ==
  ASSUME Typed, Built, Measured(file), DamagePayload \/ DamageTable \/ CutTail
  PROVE  Measured(file')
<1>1. IsSeq(file) /\ DOMAIN file = 1 .. Len(file) /\ Len(file) \in Nat
  BY IsSeqFacts DEF Built
<1>2. ASSUME NEW k \in DOMAIN file, NEW c, Numbered(file[k]) => Numbered(c), file' = [file EXCEPT ![k] = c]
      PROVE  Measured(file')
  <2>1. DOMAIN file' = DOMAIN file /\ file'[k] = c /\ \A j \in DOMAIN file : j # k => file'[j] = file[j]
    BY <1>2
  <2> QED
    BY <1>2, <2>1 DEF Measured
<1>3. CASE DamagePayload
  <2>1. PICK k \in DOMAIN file :
    \/ file[k].kind = "data"   /\ Damage("payload", k, [file[k] EXCEPT !.holds = Garbled])
    \/ file[k].kind = "stored" /\ Damage("payload", k, [file[k] EXCEPT !.hash = Garbled])
    \/ file[k].kind = "byte"   /\ Damage("payload", k, [file[k] EXCEPT !.byte = 1 - @])
    \/ file[k].kind = "header" /\ Damage("payload", k, [file[k] EXCEPT !.intact = FALSE])
    BY <1>3 DEF DamagePayload
  <2>2. PICK c : /\ file' = [file EXCEPT ![k] = c]
                 /\ \/ c = [file[k] EXCEPT !.holds = Garbled]
                    \/ c = [file[k] EXCEPT !.hash = Garbled]
                    \/ c = [file[k] EXCEPT !.byte = 1 - @]
                    \/ c = [file[k] EXCEPT !.intact = FALSE]
    BY <2>1 DEF Damage
  <2>3. c.kind = file[k].kind /\ c.len = file[k].len /\ c.table = file[k].table /\ c.files = file[k].files
    <3>1. PICK b : b = 1 - file[k].byte
      OBVIOUS
    <3>2. CASE c = [file[k] EXCEPT !.holds = Garbled]
      BY <3>2
    <3>3. CASE c = [file[k] EXCEPT !.hash = Garbled]
      BY <3>3
    <3>4. CASE c = [file[k] EXCEPT !.byte = b]
      BY <3>4
    <3>5. CASE c = [file[k] EXCEPT !.intact = FALSE]
      BY <3>5
    <3> QED
      BY <2>2, <3>1, <3>2, <3>3, <3>4, <3>5
  <2>4. Numbered(file[k]) => Numbered(c)
    BY <2>3 DEF Numbered
  <2> QED
    BY <1>2, <2>2, <2>4
<1>4. CASE DamageTable
  <2>1. PICK k \in DOMAIN file :
    \/ /\ file[k].kind \in {"entry", "stored"}
       /\ \E d \in {-1, 1} :
            /\ file[k].len + d >= 0
            /\ Damage("table", k, [file[k] EXCEPT !.len = @ + d])
    \/ /\ file[k].kind = "entry"
       /\ \E r \in DOMAIN file[k].refs, n \in 1..(Len(create.pieces) + 1) :
            Damage("table", k, [file[k] EXCEPT !.refs[r] = n])
    \/ /\ file[k].kind = "data"
       /\ Damage("table", k, [file[k] EXCEPT !.unpacked = @ + 1])
    BY <1>4 DEF DamageTable
  <2>2. CASE file[k].kind \in {"entry", "stored"} /\ \E d \in {-1, 1} :
            /\ file[k].len + d >= 0
            /\ Damage("table", k, [file[k] EXCEPT !.len = @ + d])
    <3>1. PICK d \in {-1, 1} : /\ file[k].len + d >= 0
                               /\ Damage("table", k, [file[k] EXCEPT !.len = @ + d])
      BY <2>2
    <3>2. PICK c, len : c = [file[k] EXCEPT !.len = len] /\ len = file[k].len + d
      OBVIOUS
    <3>3. file' = [file EXCEPT ![k] = c]
      BY <3>1, <3>2 DEF Damage
    <3>4. c.kind = file[k].kind /\ c.table = file[k].table /\ c.files = file[k].files
      BY <3>2
    <3>5. file[k].kind = "stored" /\ file[k].len \in Nat => c.len \in Nat
      <4> SUFFICES ASSUME file[k].kind = "stored", file[k].len \in Nat PROVE c.len \in Nat
        OBVIOUS
      <4>1. len \in Nat
        BY <3>1, <3>2
      <4>2. c.len = len \/ c.len = file[k].len
        BY <3>2
      <4> QED
        BY <4>1, <4>2
    <3>6. Numbered(file[k]) => Numbered(c)
      BY <3>4, <3>5 DEF Numbered
    <3> QED
      BY <1>2, <3>3, <3>6
  <2>3. CASE ~(file[k].kind \in {"entry", "stored"} /\ \E d \in {-1, 1} :
            /\ file[k].len + d >= 0
            /\ Damage("table", k, [file[k] EXCEPT !.len = @ + d]))
    <3>1. PICK c : /\ file' = [file EXCEPT ![k] = c]
                   /\ file[k].kind \in {"entry", "data"} /\ c.kind = file[k].kind
      <4>1. CASE file[k].kind = "entry" /\ \E r \in DOMAIN file[k].refs, n \in 1..(Len(create.pieces) + 1) :
                   Damage("table", k, [file[k] EXCEPT !.refs[r] = n])
        <5>1. PICK r, n : file' = [file EXCEPT ![k] = [file[k] EXCEPT !.refs[r] = n]]
          BY <4>1, ZenonT(60) DEF Damage
        <5>2. [file[k] EXCEPT !.refs[r] = n].kind = file[k].kind
          OBVIOUS
        <5> QED
          BY <4>1, <5>1, <5>2
      <4>2. CASE file[k].kind = "data" /\ Damage("table", k, [file[k] EXCEPT !.unpacked = @ + 1])
        <5>1. file' = [file EXCEPT ![k] = [file[k] EXCEPT !.unpacked = @ + 1]]
          BY <4>2 DEF Damage
        <5>2. [file[k] EXCEPT !.unpacked = @ + 1].kind = file[k].kind
          OBVIOUS
        <5> QED
          BY <4>2, <5>1, <5>2
      <4> QED
        BY <2>1, <2>3, <4>1, <4>2
    <3>2. Numbered(c)
      BY <3>1 DEF Numbered
    <3> QED
      BY <1>2, <3>1, <3>2
  <2> QED
    BY <2>2, <2>3
<1>5. CASE CutTail
  <2>1. create.pc = "done" /\ file' = Front(file) /\ damaged = None
    BY <1>5 DEF CutTail
  <2>2. Len(file) >= 1
    <3>1. Len(create.pieces) \in Nat /\ Count \in Nat /\ HeadLen(create.dict) \in {1, 2}
      BY RunFields, InputFacts, HeadLenFacts
    <3> QED
      BY <1>1, <2>1, <3>1 DEF Built, Ready, Packed, Stored, TableCell
  <2>3. IsSeq(file') /\ Len(file') = Len(file) - 1 /\ \A k \in 1 .. Len(file) - 1 : file'[k] = file[k]
    BY <1>1, <2>1, <2>2, FrontCells
  <2>4. \A k \in 1 .. Len(file) : Numbered(file[k])
    BY <1>1, MeasuredCells
  <2>5. ASSUME NEW k \in 1 .. Len(file') PROVE Numbered(file'[k])
    <3>1. k \in 1 .. Len(file) /\ k \in 1 .. Len(file) - 1
      BY <1>1, <2>3
    <3> QED
      BY <2>3, <2>4, <3>1
  <2> QED
    BY <2>3, <2>5, MeasuredCells
<1> QED
  BY <1>3, <1>4, <1>5

\* Every step keeps the file measured.
LEMMA MeasuredNext ==
  ASSUME Typed, Gathered, Built, Measured(file), [Next]_vars
  PROVE  Measured(file')
<1>1. CASE UNCHANGED file
  BY <1>1 DEF Measured
<1>2. CASE file' # file
  <2>1. ~(Gather \/ KeepCompressed \/ Crash \/ EditInput \/ Retrain \/ OpenAndDecode \/ WriteEntry \/ UNCHANGED vars)
    BY <1>2, GatherCases DEF KeepCompressed, Crash, EditInput, Retrain, OpenAndDecode, WriteEntry, vars
  <2> QED
    BY <2>1, MeasuredHead, MeasuredTail, MeasuredDamage DEF Next, Create
<1> QED
  BY <1>1, <1>2

----------------------------------------------------------------------------
(* The extract run.                                                        *)

\* What WriteEntry makes of entry k of an index, and whether it goes on after it.
Outcome(idx, k) ==
  IF idx.store THEN [data |-> idx.bytes[k], whole |-> TRUE] ELSE Written(idx, idx.files[k])

\* No entry before the k-th is a file where it needs a directory, or the other way round.
Apart(idx, k) == \A j \in 1 .. k - 1 : ~Clash(idx.files[j].path, idx.files[k].path)

Passed(idx, k) == idx.files[k].path \notin Unsafe /\ Apart(idx, k) /\ Outcome(idx, k).whole

Named(idx, p, k) == idx.files[k].path = p

\* The first n entries are in the output directory, a later one over an earlier one.
Landed(o, idx, n) ==
  \A p \in Paths :
    /\ (\A k \in 1 .. n : ~Named(idx, p, k)) => o[p] = Absent
    /\ \A k \in 1 .. n : Named(idx, p, k) /\ (\A l \in k + 1 .. n : ~Named(idx, p, l)) =>
         o[p] = Outcome(idx, k).data

\* The archive opened, and its dictionary and payloads are in order.
Opened(f, idx, given) == idx = OpenIndex(f) /\ idx.ok /\ Resolves(idx, given) /\ AllDecode(idx, given)

\* The entries before `at` went well.
Upto(idx, at) ==
  /\ at \in 1 .. Len(idx.files) + 1
  /\ \A k \in 1 .. at - 1 : Passed(idx, k)

\* The output directory and the position of the run, at each stage of it.
Reading ==
  /\ extract = [pc |-> extract.pc, given |-> extract.given, idx |-> extract.idx, at |-> extract.at]
  /\ out = [p \in Paths |-> out[p]]
  /\ extract.pc \in {"idle", "write", "done", "failed"}
  /\ extract.pc # "idle" => Created
  /\ extract.pc = "idle" => extract.idx = Rejected /\ extract.given = NoDict /\ Untouched
  /\ extract.pc \in {"write", "done"} =>
       /\ Opened(file, extract.idx, extract.given) /\ Upto(extract.idx, extract.at)
       /\ Landed(out, extract.idx, extract.at - 1)
  /\ extract.pc = "done" => extract.at = Len(extract.idx.files) + 1
  /\ extract.pc = "failed" =>
       \/ extract.idx = Rejected /\ Untouched /\ ~Opened(file, OpenIndex(file), extract.given)
       \/ /\ Opened(file, extract.idx, extract.given) /\ Upto(extract.idx, extract.at)
          /\ extract.at <= Len(extract.idx.files) /\ ~Passed(extract.idx, extract.at)
          /\ \/ Landed(out, extract.idx, extract.at - 1)
             \/ Landed(out, extract.idx, extract.at)

\* Before the first entry is written nothing has landed.
LEMMA LandedNone ==
  ASSUME NEW o, NEW idx, \A p \in Paths : o[p] = Absent
  PROVE  Landed(o, idx, 0)
BY DEF Landed

\* One more entry is written.
LEMMA LandedNext ==
  ASSUME NEW o, NEW idx, NEW at \in Nat \ {0}, Landed(o, idx, at - 1), o = [p \in Paths |-> o[p]],
         NEW new, new = [o EXCEPT ![idx.files[at].path] = Outcome(idx, at).data]
  PROVE  Landed(new, idx, at)
<1> SUFFICES ASSUME NEW p \in Paths
             PROVE  /\ (\A k \in 1 .. at : ~Named(idx, p, k)) => new[p] = Absent
                    /\ \A k \in 1 .. at : Named(idx, p, k) /\ (\A l \in k + 1 .. at : ~Named(idx, p, l)) =>
                         new[p] = Outcome(idx, k).data
  BY DEF Landed
<1>1. PICK d, q : d = Outcome(idx, at).data /\ q = idx.files[at].path
  OBVIOUS
<1>2. new = [o EXCEPT ![q] = d] /\ DOMAIN o = Paths
  BY <1>1
<1>3. /\ (\A k \in 1 .. at - 1 : ~Named(idx, p, k)) => o[p] = Absent
      /\ \A k \in 1 .. at - 1 : Named(idx, p, k) /\ (\A l \in k + 1 .. at - 1 : ~Named(idx, p, l)) =>
           o[p] = Outcome(idx, k).data
  BY DEF Landed
<1>4. at \in 1 .. at /\ \A k \in 1 .. at : k = at \/ k \in 1 .. at - 1
  OBVIOUS
<1>5. CASE q = p
  <2>1. new[p] = d /\ Named(idx, p, at)
    BY <1>1, <1>2, <1>5 DEF Named
  <2>2. ASSUME NEW k \in 1 .. at, \A l \in k + 1 .. at : ~Named(idx, p, l) PROVE k = at
    <3>1. k # at => at \in k + 1 .. at
      OBVIOUS
    <3> QED
      BY <2>1, <2>2, <3>1
  <2> QED
    BY <1>1, <1>4, <2>1, <2>2
<1>6. CASE q # p
  <2>1. new[p] = o[p] /\ ~Named(idx, p, at)
    BY <1>1, <1>2, <1>6 DEF Named
  <2>2. (\A k \in 1 .. at : ~Named(idx, p, k)) => new[p] = Absent
    <3>1. 1 .. at - 1 \subseteq 1 .. at
      OBVIOUS
    <3> QED
      BY <1>3, <2>1, <3>1
  <2>3. ASSUME NEW k \in 1 .. at, Named(idx, p, k), \A l \in k + 1 .. at : ~Named(idx, p, l)
        PROVE  new[p] = Outcome(idx, k).data
    <3>1. k \in 1 .. at - 1
      BY <1>4, <2>1, <2>3
    <3>2. k + 1 .. at - 1 \subseteq k + 1 .. at
      OBVIOUS
    <3> QED
      BY <1>3, <2>1, <2>3, <3>1, <3>2
  <2> QED
    BY <2>2, <2>3
<1> QED
  BY <1>5, <1>6

\* Nothing is being extracted at the start.
LEMMA ReadingInit ==
  ASSUME Init
  PROVE  Reading
BY DEF Init, Reading, Untouched

\* Who has not begun to read does not care what happens to the file.
LEMMA ReadingIdle ==
  ASSUME Reading, UNCHANGED <<out, extract>>, extract.pc = "idle"
  PROVE  Reading'
<1>1. Untouched'
  BY DEF Reading, Untouched
<1> QED
  BY <1>1 DEF Reading

\* While the file stays nothing else matters to the reader.
LEMMA ReadingSteady ==
  ASSUME Reading, UNCHANGED <<file, out, extract>>, Created => Created'
  PROVE  Reading'
<1>1. PICK f, x, o : f = file /\ x = extract /\ o = out
  OBVIOUS
<1>2. f = file' /\ x = extract' /\ o = out'
  BY <1>1
<1>3. Untouched' <=> Untouched
  BY DEF Untouched
<1> QED
  BY <1>1, <1>2, <1>3 DEF Reading

\* Opening for an extraction starts it at the first entry with an empty output.
LEMMA ReadingOpens ==
  ASSUME Reading, IsSeq(file), Measured(file), OpenAndDecode
  PROVE  Reading'
<1>1. Created' /\ extract.pc = "idle" /\ UNCHANGED <<file, out>> /\ extract.idx = Rejected /\ Untouched
  BY DEF OpenAndDecode, Reading, Created
<1>2. PICK given, idx :
        /\ idx = OpenIndex(file)
        /\ extract' = IF idx.ok /\ Resolves(idx, given) /\ AllDecode(idx, given)
                      THEN [pc |-> "write", given |-> given, idx |-> idx, at |-> 1]
                      ELSE [extract EXCEPT !.pc = "failed", !.given = given]
  BY DEF OpenAndDecode
<1>3. out' = [p \in Paths |-> out'[p]] /\ Untouched'
  BY <1>1 DEF Reading, Untouched
<1>4. CASE Opened(file, idx, given)
  <2>1. extract' = [pc |-> "write", given |-> given, idx |-> idx, at |-> 1]
    BY <1>2, <1>4 DEF Opened
  <2>2. IsSeq(idx.files) /\ Len(idx.files) \in Nat
    BY <1>2, <1>4, OpenAny, IsSeqFacts DEF Opened
  <2>3. Upto(idx, 1)
    BY <2>2 DEF Upto
  <2>4. Landed(out', idx, 0)
    <3>1. \A p \in Paths : out'[p] = Absent
      BY <1>3 DEF Untouched
    <3>2. PICK o : o = out'
      OBVIOUS
    <3> QED
      BY <3>1, <3>2, LandedNone
  <2>5. Opened(file', extract'.idx, extract'.given)
    BY <1>1, <1>4, <2>1
  <2> QED
    BY <1>1, <1>3, <2>1, <2>3, <2>4, <2>5 DEF Reading
<1>5. CASE ~Opened(file, idx, given)
  <2>1. extract' = [extract EXCEPT !.pc = "failed", !.given = given]
    BY <1>2, <1>5 DEF Opened
  <2>2. extract' = [pc |-> "failed", given |-> given, idx |-> Rejected, at |-> extract.at]
    BY <1>1, <2>1 DEF Reading
  <2>3. ~Opened(file', OpenIndex(file'), extract'.given)
    BY <1>1, <1>2, <1>5, <2>2
  <2> QED
    BY <1>1, <1>3, <2>2, <2>3 DEF Reading
<1> QED
  BY <1>4, <1>5

\* A path is blocked if an entry before it clashes with it.
LEMMA BlockedFacts ==
  ASSUME NEW idx, idx = extract.idx, NEW at, at = extract.at
  PROVE  Blocked(idx.files[at].path) <=> ~Apart(idx, at)
BY DEF Blocked, Standing, Clash, Apart

\* Writing, failing on and finishing an entry keep what has landed.
LEMMA ReadingWrites ==
  ASSUME Reading, IsSeq(file), Measured(file), WriteEntry
  PROVE  Reading'
<1>1. PICK idx, given, at, f, o :
        /\ idx = extract.idx /\ given = extract.given /\ at = extract.at /\ f = file /\ o = out
        /\ extract = [pc |-> "write", given |-> given, idx |-> idx, at |-> at]
        /\ file' = f /\ Created'
  BY DEF WriteEntry, Reading, Created
<1>2. /\ Opened(f, idx, given) /\ Upto(idx, at) /\ Landed(o, idx, at - 1)
      /\ o = [p \in Paths |-> o[p]]
  BY <1>1 DEF Reading
<1>3. Len(idx.files) \in Nat
  <2>1. IsSeq(idx.files)
    BY <1>1, <1>2, OpenAny DEF Opened
  <2> QED
    BY <2>1, IsSeqFacts
<1>4. at \in 1 .. Len(idx.files) + 1 /\ at \in Nat \ {0}
  BY <1>2, <1>3 DEF Upto
<1>5. PICK e, w : e = idx.files[at] /\ w = Outcome(idx, at)
  OBVIOUS
<1>6. PICK u, x : u = out' /\ x = extract'
  OBVIOUS
<1>7. CASE at > Len(idx.files)
  <2>1. u = o /\ x = [pc |-> "done", given |-> given, idx |-> idx, at |-> at]
    BY <1>1, <1>6, <1>7 DEF WriteEntry
  <2>2. at = Len(idx.files) + 1
    BY <1>3, <1>4, <1>7
  <2> QED
    BY <1>1, <1>2, <1>6, <2>1, <2>2 DEF Reading
<1>b. Blocked(e.path) <=> ~Apart(idx, at)
  BY <1>1, <1>5, BlockedFacts
<1>8. CASE ~(at > Len(idx.files)) /\ (e.path \in Unsafe \/ ~Apart(idx, at))
  <2>1. u = o /\ x = [pc |-> "failed", given |-> given, idx |-> idx, at |-> at]
    BY <1>1, <1>5, <1>6, <1>8, <1>b DEF WriteEntry
  <2>2. at <= Len(idx.files) /\ ~Passed(idx, at)
    BY <1>3, <1>4, <1>5, <1>8 DEF Passed
  <2> QED
    BY <1>1, <1>2, <1>6, <2>1, <2>2 DEF Reading
<1>9. CASE ~(at > Len(idx.files)) /\ e.path \notin Unsafe /\ Apart(idx, at)
  <2>1. /\ u = [o EXCEPT ![e.path] = w.data]
        /\ x = IF w.whole THEN [extract EXCEPT !.at = @ + 1] ELSE [extract EXCEPT !.pc = "failed"]
    BY <1>1, <1>5, <1>6, <1>9, <1>b DEF WriteEntry, Outcome
  <2>2. u = [p \in Paths |-> u[p]]
    BY <1>2, <2>1
  <2>3. Landed(u, idx, at)
    BY <1>2, <1>4, <1>5, <2>1, LandedNext
  <2>4. at <= Len(idx.files)
    BY <1>3, <1>4, <1>9
  <2>5. CASE w.whole
    <3>1. PICK next : next = at + 1
      OBVIOUS
    <3>2. x = [pc |-> "write", given |-> given, idx |-> idx, at |-> next]
      BY <1>1, <2>1, <2>5, <3>1
    <3>3. Passed(idx, at) /\ next - 1 = at
      BY <1>4, <1>5, <1>9, <2>5, <3>1 DEF Passed
    <3>4. \A k \in 1 .. at : k \in 1 .. at - 1 \/ k = at
      BY <1>4
    <3>5. Upto(idx, next)
      BY <1>2, <1>3, <1>4, <2>4, <3>1, <3>3, <3>4 DEF Upto
    <3>6. Landed(u, idx, next - 1)
      BY <2>3, <3>3
    <3> QED
      BY <1>1, <1>2, <1>6, <2>2, <3>2, <3>5, <3>6 DEF Reading
  <2>6. CASE ~w.whole
    <3>1. x = [pc |-> "failed", given |-> given, idx |-> idx, at |-> at]
      BY <1>1, <2>1, <2>6
    <3>2. ~Passed(idx, at)
      BY <1>5, <2>6 DEF Passed
    <3> QED
      BY <1>1, <1>2, <1>6, <2>2, <2>3, <2>4, <3>1, <3>2 DEF Reading
  <2> QED
    BY <2>5, <2>6
<1> QED
  BY <1>7, <1>8, <1>9

\* Every step keeps the extraction in step with the index it opened.
LEMMA ReadingNext ==
  ASSUME Reading, Built, Measured(file), [Next]_vars
  PROVE  Reading'
<1>1. IsSeq(file)
  BY DEF Built
<1>2. CASE OpenAndDecode \/ WriteEntry
  BY <1>1, <1>2, ReadingOpens, ReadingWrites
<1>3. CASE Create \/ Crash \/ EditInput
  <2>1. UNCHANGED <<out, extract>> /\ create.pc \in Writing \cup {"idle"}
    BY <1>3, GatherCases
       DEF Create, Crash, EditInput, Truncate, WriteHeader, EmitPiece, WriteTable, WriteFooter, KeepCompressed,
           RestartAsStore, StoreHash, StoreCopy, StoreFooter, steady, readerVars, Writing
  <2>2. ~Created
    BY <2>1 DEF Created, Writing
  <2>3. extract.pc = "idle"
    BY <2>2 DEF Reading
  <2> QED
    BY <2>1, <2>3, ReadingIdle
<1>4. CASE DamagePayload \/ DamageTable \/ CutTail \/ Retrain
  <2>1. UNCHANGED <<out, extract>> /\ extract.pc = "idle"
    <3>1. CASE DamagePayload
      BY <3>1 DEF DamagePayload, Damage
    <3>2. CASE DamageTable
      BY <3>2 DEF DamageTable, Damage
    <3> QED
      BY <1>4, <3>1, <3>2 DEF CutTail, Retrain
  <2> QED
    BY <2>1, ReadingIdle
<1>5. CASE UNCHANGED vars
  BY <1>5, ReadingSteady DEF vars, Created
<1> QED
  BY <1>2, <1>3, <1>4, <1>5 DEF Next

\* A set of numbers below a bound has a last one.
LEMMA LastNumber ==
  ASSUME NEW n \in Nat, NEW S, S \subseteq 1 .. n, S # {}
  PROVE  \E k \in S : \A l \in k + 1 .. n : l \notin S
<1> DEFINE T == {j \in Nat : n - j \in S}
<1>1. T # {}
  <2>1. PICK k \in S : TRUE
    OBVIOUS
  <2>2. n - k \in Nat /\ n - (n - k) = k
    BY <2>1
  <2> QED
    BY <2>1, <2>2
<1>2. PICK j \in T : \A m \in T : j <= m
  <2>1. T \subseteq Nat
    OBVIOUS
  <2> HIDE DEF T
  <2> QED
    BY <1>1, <2>1, LeastNumber
<1>3. n - j \in S
  OBVIOUS
<1>4. ASSUME NEW l \in (n - j) + 1 .. n PROVE l \notin S
  <2>1. n - l \in Nat /\ ~(j <= n - l) /\ n - (n - l) = l
    OBVIOUS
  <2> QED
    BY <1>2, <2>1
<1> QED
  BY <1>3, <1>4

\* What an entry passed leaves is as long as it says.
LEMMA PassedLength ==
  ASSUME NEW f, IsSeq(f), Measured(f), NEW idx, NEW given, Opened(f, idx, given),
         NEW k \in 1 .. Len(idx.files), Passed(idx, k)
  PROVE  Len(Outcome(idx, k).data) = idx.files[k].len
<1>1. CASE idx.store
  BY <1>1, OpenAny DEF Opened, Outcome
<1>2. CASE ~idx.store
  BY <1>2 DEF Passed, Outcome, Written
<1> QED
  BY <1>1, <1>2

\* The entries before the one a run is at are whole under their path, unless a later one
\* has it; those behind are untouched.
Prefix(idx, at, o, p, named) ==
  /\ (\A k \in named : k > at) => o[p] = Absent
  /\ (\E k \in named : k < at) /\ at \notin named =>
       Len(o[p]) \in {idx.files[k].len : k \in {n \in named : n < at}}

\* What has landed before an entry gives the prefix: a path whose entries are all still
\* to come is absent, and one written holds as many bytes as an entry promised.
LEMMA LandedPrefix ==
  ASSUME NEW f, IsSeq(f), Measured(f), NEW idx, NEW given, Opened(f, idx, given),
         NEW at, Upto(idx, at), NEW o, Landed(o, idx, at - 1) \/ (Landed(o, idx, at) /\ at <= Len(idx.files)),
         NEW p \in Paths, NEW named, named = {k \in DOMAIN idx.files : idx.files[k].path = p}
  PROVE  Prefix(idx, at, o, p, named)
<1>1. Len(idx.files) \in Nat /\ DOMAIN idx.files = 1 .. Len(idx.files)
  <2>1. IsSeq(idx.files)
    BY OpenAny DEF Opened
  <2> QED
    BY <2>1, IsSeqFacts
<1>2. at \in 1 .. Len(idx.files) + 1
  BY DEF Upto
<1>3. PICK n : n \in {at - 1, at} /\ Landed(o, idx, n) /\ n <= Len(idx.files)
  <2>1. CASE Landed(o, idx, at - 1)
    <3>1. at - 1 <= Len(idx.files)
      BY <1>1, <1>2
    <3> QED
      BY <2>1, <3>1
  <2>2. CASE Landed(o, idx, at) /\ at <= Len(idx.files)
    BY <2>2
  <2> QED
    BY <2>1, <2>2
<1>4. n \in Nat /\ at \in Nat /\ n <= at /\ 1 .. n \subseteq DOMAIN idx.files
  BY <1>1, <1>2, <1>3
<1>5. \A k \in 1 .. n : Named(idx, p, k) <=> k \in named
  BY <1>4 DEF Named
<1>6. ASSUME \A k \in named : k > at PROVE o[p] = Absent
  <2>1. \A k \in 1 .. n : ~Named(idx, p, k)
    <3> TAKE k \in 1 .. n
    <3>1. ~(k > at)
      BY <1>4
    <3> QED
      BY <1>5, <1>6, <3>1
  <2> QED
    BY <1>3, <2>1 DEF Landed
<1>7. ASSUME NEW i \in named, i < at, at \notin named
      PROVE  Len(o[p]) \in {idx.files[k].len : k \in {m \in named : m < at}}
  <2> DEFINE S == named \cap (1 .. n)
  <2>1. i \in S
    BY <1>1, <1>2, <1>3, <1>4, <1>7
  <2>2. PICK k \in S : \A l \in k + 1 .. n : l \notin S
    <3>1. S \subseteq 1 .. n /\ S # {}
      BY <2>1
    <3> HIDE DEF S
    <3> QED
      BY <1>4, <3>1, LastNumber
  <2>3. k \in named /\ k \in 1 .. n /\ k # at /\ k < at /\ k \in 1 .. at - 1
    <3>1. k \in named /\ k \in 1 .. n /\ k # at
      BY <1>7
    <3> QED
      BY <1>4, <3>1
  <2>4. \A l \in k + 1 .. n : ~Named(idx, p, l)
    <3> TAKE l \in k + 1 .. n
    <3>1. l \in 1 .. n /\ l \notin S
      BY <1>4, <2>2, <2>3
    <3> QED
      BY <1>5, <3>1
  <2>5. o[p] = Outcome(idx, k).data
    BY <1>3, <1>5, <2>3, <2>4 DEF Landed
  <2>6. Len(Outcome(idx, k).data) = idx.files[k].len
    <3>1. k \in 1 .. Len(idx.files) /\ Passed(idx, k)
      BY <1>1, <1>4, <2>3 DEF Upto
    <3> QED
      BY <3>1, PassedLength
  <2> QED
    BY <2>3, <2>5, <2>6
<1> QED
  BY <1>6, <1>7 DEF Prefix

----------------------------------------------------------------------------
(* Where the payloads of a STORE container are.                            *)

LensUpto(tab, m) == [k \in 1 .. m |-> tab[k].len]

\* A table of n entries whose lengths are numbers.
Lengthy(tab, n) == n \in Nat /\ \A k \in 1 .. n : tab[k].len \in Nat

\* One entry's payload begins where the one before it ends.
LEMMA PayloadFacts ==
  ASSUME NEW tab, NEW n, Lengthy(tab, n), NEW start \in Nat
  PROVE  /\ PayloadAt(tab, start, 1) = start
         /\ \A i \in 1 .. n + 1 : PayloadAt(tab, start, i) \in Nat /\ PayloadAt(tab, start, i) >= start
         /\ \A i \in 1 .. n : PayloadAt(tab, start, i + 1) = PayloadAt(tab, start, i) + tab[i].len
<1>0. n \in Nat
  BY DEF Lengthy
<1>1. \A i \in Nat \ {0} : PayloadAt(tab, start, i) = start + SumOf(LensUpto(tab, i - 1))
  BY DEF PayloadAt, LensUpto
<1>2. \A m \in 0 .. n : Len(LensUpto(tab, m)) = m /\ \A k \in 1 .. m : LensUpto(tab, m)[k] = tab[k].len
  BY <1>0 DEF LensUpto
<1>3. ASSUME NEW m \in 0 .. n PROVE SumOf(LensUpto(tab, m)) \in Nat
  <2>1. PICK s : s = LensUpto(tab, m)
    OBVIOUS
  <2>2. Len(s) = m /\ \A k \in 1 .. m : s[k] \in Nat
    BY <1>2, <1>0, <2>1 DEF Lengthy
  <2>3. m \in Nat
    BY <1>0
  <2>4. Nat \in {Nat, Int} /\ Len(s) \in Nat /\ \A k \in 1 .. Len(s) : s[k] \in Nat
    BY <2>2, <2>3
  <2> QED
    BY <2>1, <2>4, SumNumber
<1>4. ASSUME NEW i \in 1 .. n
      PROVE  SumOf(LensUpto(tab, i)) = SumOf(LensUpto(tab, i - 1)) + tab[i].len
  <2>1. PICK s, t, m : s = LensUpto(tab, i - 1) /\ t = LensUpto(tab, i) /\ m = i - 1
    OBVIOUS
  <2>2. m \in Nat /\ m + 1 = i /\ m \in 0 .. n /\ i \in 0 .. n
    BY <1>0, <2>1
  <2>4. /\ Len(s) = m /\ Len(t) = m + 1 /\ t[i] = tab[i].len
        /\ \A k \in 1 .. m : t[k] = s[k]
    BY <1>2, <2>1, <2>2
  <2>3. SumOf(t) = SumOf(s) + t[m + 1]
    BY <2>2, <2>4, SumStep
  <2> QED
    BY <2>1, <2>2, <2>3, <2>4
<1>5. PayloadAt(tab, start, 1) = start
  <2>1. SumOf(LensUpto(tab, 0)) = 0
    BY <1>0, <1>2, SumEmpty
  <2> QED
    BY <1>1, <2>1
<1>6. ASSUME NEW i \in 1 .. n + 1
      PROVE  PayloadAt(tab, start, i) \in Nat /\ PayloadAt(tab, start, i) >= start
  <2>1. i - 1 \in 0 .. n /\ i \in Nat \ {0}
    BY <1>0
  <2> QED
    BY <1>1, <1>3, <2>1
<1>7. ASSUME NEW i \in 1 .. n
      PROVE  PayloadAt(tab, start, i + 1) = PayloadAt(tab, start, i) + tab[i].len
  <2>1. /\ i \in Nat \ {0} /\ i + 1 \in Nat \ {0} /\ (i + 1) - 1 = i /\ i - 1 \in 0 .. n
        /\ tab[i].len \in Nat
    BY <1>0 DEF Lengthy
  <2>2. PICK a, b : a = SumOf(LensUpto(tab, i - 1)) /\ b = SumOf(LensUpto(tab, i)) /\ a \in Nat
    BY <1>3, <2>1
  <2>3. PayloadAt(tab, start, i + 1) = start + b /\ PayloadAt(tab, start, i) = start + a
    BY <1>1, <2>1, <2>2
  <2> QED
    BY <1>4, <2>1, <2>2, <2>3
<1> QED
  BY <1>5, <1>6, <1>7

\* It depends on the lengths alone.
SameLens(tab, more, n) == n \in Nat /\ \A k \in 1 .. n : tab[k].len = more[k].len

\* Where a payload starts depends on the lengths before it only.
LEMMA PayloadSame ==
  ASSUME NEW tab, NEW more, NEW n, SameLens(tab, more, n), NEW start, NEW i \in 1 .. n + 1
  PROVE  PayloadAt(tab, start, i) = PayloadAt(more, start, i)
<1>1. [k \in 1 .. (i - 1) |-> tab[k].len] = [k \in 1 .. (i - 1) |-> more[k].len]
  BY DEF SameLens
<1> QED
  BY <1>1 DEF PayloadAt

\* Every byte between the table and the footer belongs to an entry.
LEMMA PayloadCovers ==
  ASSUME NEW tab, NEW n, Lengthy(tab, n), NEW start \in Nat,
         NEW k \in Nat, start <= k, k < PayloadAt(tab, start, n + 1)
  PROVE  \E i \in 1 .. n : PayloadAt(tab, start, i) <= k /\ k < PayloadAt(tab, start, i) + tab[i].len
<1>0. n \in Nat
  BY DEF Lengthy
<1> DEFINE S == {i \in 1 .. n + 1 : k < PayloadAt(tab, start, i)}
<1>1. n + 1 \in S /\ S \subseteq Nat
  BY <1>0
<1>2. PICK i \in S : \A j \in S : i <= j
  <2> HIDE DEF S
  <2> QED
    BY <1>1, LeastNumber
<1>3. i \in 1 .. n + 1 /\ k < PayloadAt(tab, start, i)
  OBVIOUS
<1>4. i # 1
  <2>1. PayloadAt(tab, start, 1) = start
    BY PayloadFacts
  <2> QED
    BY <1>3, <2>1
<1>5. i - 1 \in 1 .. n /\ i - 1 \in 1 .. n + 1 /\ (i - 1) + 1 = i
  BY <1>0, <1>3, <1>4
<1>6. PayloadAt(tab, start, i) = PayloadAt(tab, start, i - 1) + tab[i - 1].len
  BY <1>5, PayloadFacts
<1>7. PayloadAt(tab, start, i - 1) \in Nat
  BY <1>5, PayloadFacts
<1>8. ~(k < PayloadAt(tab, start, i - 1))
  <2>1. i - 1 \notin S
    <3>1. ~(i <= i - 1)
      BY <1>3, <1>0
    <3> QED
      BY <1>2, <3>1
  <2> QED
    BY <1>5, <2>1
<1>9. PayloadAt(tab, start, i - 1) <= k
  BY <1>7, <1>8
<1> QED
  BY <1>3, <1>5, <1>6, <1>9

----------------------------------------------------------------------------
(* A damaged archive and the one it was.                                   *)

\* Cell k of g becomes c, by a flip that some hash covers ...
PayloadHarm(g, k, c) ==
  \/ g[k].kind = "data"   /\ c = [g[k] EXCEPT !.holds = Garbled]
  \/ g[k].kind = "stored" /\ c = [g[k] EXCEPT !.hash = Garbled]
  \/ g[k].kind = "byte"   /\ c = [g[k] EXCEPT !.byte = 1 - @]
  \/ g[k].kind = "header" /\ c = [g[k] EXCEPT !.intact = FALSE]

\* ... or by one that none does.
TableHarm(g, k, c) ==
  \/ /\ g[k].kind \in {"entry", "stored"}
     /\ \E d \in {-1, 1} : g[k].len + d >= 0 /\ c = [g[k] EXCEPT !.len = @ + d]
  \/ g[k].kind = "entry" /\ \E r \in DOMAIN g[k].refs, n \in Nat : c = [g[k] EXCEPT !.refs[r] = n]
  \/ g[k].kind = "data" /\ c = [g[k] EXCEPT !.unpacked = @ + 1]

Harmed(g, f, how) ==
  \E k \in DOMAIN g : \E c :
    /\ f = [g EXCEPT ![k] = c] /\ c # g[k]
    /\ PayloadHarm(g, k, c) \/ TableHarm(g, k, c)
    /\ how = "payload" => PayloadHarm(g, k, c)

\* What a create run of this state, dictionary, naming and history finishes.
Complete(g, c, ways, held) == IsSeq(g) /\ (Ready(g, c) \/ Stored(g, c.dict, ways, held))

\* A damaged file was a complete one, which opened unless the file counts as spoiled.
Origin ==
  damaged \notin {None, "cut"} =>
    \E g : /\ Complete(g, create, paths, seen) /\ Harmed(g, file, damaged)
           /\ damaged # "spoiled" => OpenIndex(g).ok

\* No file was damaged at the start.
LEMMA OriginInit ==
  ASSUME Init
  PROVE  Origin
BY DEF Init, Origin

\* Damage changes one cell of a completed file, in its payload or in its table.
LEMMA DamageHarms ==
  ASSUME Typed, DamagePayload \/ DamageTable
  PROVE  /\ create.pc = "done" /\ damaged = None /\ UNCHANGED <<create, paths, seen>>
         /\ damaged' # "spoiled" => OpenIndex(file).ok
         /\ Harmed(file, file', damaged')
<1>1. CASE DamagePayload
  <2>1. PICK k \in DOMAIN file :
    \/ file[k].kind = "data"   /\ Damage("payload", k, [file[k] EXCEPT !.holds = Garbled])
    \/ file[k].kind = "stored" /\ Damage("payload", k, [file[k] EXCEPT !.hash = Garbled])
    \/ file[k].kind = "byte"   /\ Damage("payload", k, [file[k] EXCEPT !.byte = 1 - @])
    \/ file[k].kind = "header" /\ Damage("payload", k, [file[k] EXCEPT !.intact = FALSE])
    BY <1>1 DEF DamagePayload
  <2>2. PICK c : Damage("payload", k, c) /\ PayloadHarm(file, k, c)
    BY <2>1 DEF PayloadHarm
  <2> QED
    BY <2>2 DEF Damage, Harmed
<1>2. CASE DamageTable
  <2>1. PICK k \in DOMAIN file :
    \/ /\ file[k].kind \in {"entry", "stored"}
       /\ \E d \in {-1, 1} :
            /\ file[k].len + d >= 0
            /\ Damage("table", k, [file[k] EXCEPT !.len = @ + d])
    \/ /\ file[k].kind = "entry"
       /\ \E r \in DOMAIN file[k].refs, n \in 1..(Len(create.pieces) + 1) :
            Damage("table", k, [file[k] EXCEPT !.refs[r] = n])
    \/ /\ file[k].kind = "data"
       /\ Damage("table", k, [file[k] EXCEPT !.unpacked = @ + 1])
    BY <1>2 DEF DamageTable
  <2>2. PICK c : Damage("table", k, c) /\ TableHarm(file, k, c)
    <3>1. CASE /\ file[k].kind \in {"entry", "stored"}
               /\ \E d \in {-1, 1} :
                    /\ file[k].len + d >= 0
                    /\ Damage("table", k, [file[k] EXCEPT !.len = @ + d])
      BY <3>1 DEF TableHarm
    <3>2. CASE /\ file[k].kind = "entry"
               /\ \E r \in DOMAIN file[k].refs, n \in 1..(Len(create.pieces) + 1) :
                    Damage("table", k, [file[k] EXCEPT !.refs[r] = n])
      <4>1. 1..(Len(create.pieces) + 1) \subseteq Nat
        BY RunFields
      <4> QED
        BY <3>2, <4>1 DEF TableHarm
    <3>3. CASE /\ file[k].kind = "data"
               /\ Damage("table", k, [file[k] EXCEPT !.unpacked = @ + 1])
      BY <3>3 DEF TableHarm
    <3> QED
      BY <2>1, <3>1, <3>2, <3>3
  <2> QED
    BY <2>2 DEF Damage, Harmed
<1> QED
  BY <1>1, <1>2

\* Every step keeps the account of where the file came from.
LEMMA OriginNext ==
  ASSUME Typed, Built, Origin, [Next]_vars
  PROVE  Origin'
<1>1. CASE DamagePayload \/ DamageTable
  <2>1. PICK g, f, how, c, ways, held :
          g = file /\ f = file' /\ how = damaged' /\ c = create /\ ways = paths /\ held = seen
    OBVIOUS
  <2>2. c = create' /\ ways = paths' /\ held = seen' /\ (how # "spoiled" => OpenIndex(g).ok) /\ Harmed(g, f, how)
    BY <1>1, <2>1, DamageHarms
  <2>3. Complete(g, c, ways, held)
    BY <1>1, <2>1, DamageHarms DEF Built, Complete
  <2> QED
    BY <2>1, <2>2, <2>3 DEF Origin
<1>2. CASE CutTail
  BY <1>2 DEF CutTail, Origin
<1>3. CASE Retrain \/ OpenAndDecode \/ WriteEntry \/ UNCHANGED vars
  <2>1. UNCHANGED <<file, damaged, create, paths, seen>>
    BY <1>3 DEF Retrain, OpenAndDecode, WriteEntry, vars
  <2>2. PICK f, how, c, ways, held :
          f = file /\ how = damaged /\ c = create /\ ways = paths /\ held = seen
    OBVIOUS
  <2> QED
    BY <2>1, <2>2 DEF Origin
<1>4. CASE Create \/ Crash \/ EditInput
  <2>1. UNCHANGED damaged /\ create.pc \in Writing \cup {"idle"}
    BY <1>4, GatherCases
       DEF Create, Crash, EditInput, Truncate, WriteHeader, EmitPiece, WriteTable, WriteFooter, KeepCompressed,
           RestartAsStore, StoreHash, StoreCopy, StoreFooter, steady, readerVars, Writing
  <2>2. damaged = None
    BY <2>1 DEF Built, Writing
  <2> QED
    BY <2>1, <2>2 DEF Origin
<1> QED
  BY <1>1, <1>2, <1>3, <1>4 DEF Next

\* Harm leaves the kind of a cell, its path, its dictionary and the hash of a payload.
Alike(a, b) ==
  /\ a.kind \in {"data", "stored", "byte", "header", "entry"} /\ b.kind = a.kind
  /\ a.kind \in {"entry", "stored"} => b.path = a.path
  /\ a.kind = "header" => b.dict = a.dict
  /\ a.kind = "stored" /\ a.len \in Nat => b.len \in Nat
  /\ a.kind = "data" => b.hash = a.hash
  /\ a \in EntryCell => b \in EntryCell

\* Either kind of harm leaves a cell alike.
LEMMA HarmAlike ==
  ASSUME NEW g, NEW k, NEW c, PayloadHarm(g, k, c) \/ TableHarm(g, k, c)
  PROVE  Alike(g[k], c)
<1>1. PICK a : a = g[k]
  OBVIOUS
<1>0. a \in EntryCell => a.kind = "entry"
  BY DEF EntryCell
<1>2. CASE PayloadHarm(g, k, c)
  <2>1. CASE a.kind = "data" /\ c = [a EXCEPT !.holds = Garbled]
    <3>1. c.kind = a.kind /\ c.hash = a.hash
      BY <2>1
    <3> QED
      BY <1>0, <1>1, <2>1, <3>1 DEF Alike
  <2>2. CASE a.kind = "stored" /\ c = [a EXCEPT !.hash = Garbled]
    <3>1. c.kind = a.kind /\ c.path = a.path /\ c.len = a.len
      BY <2>2
    <3> QED
      BY <1>0, <1>1, <2>2, <3>1 DEF Alike
  <2>3. CASE a.kind = "byte" /\ c = [a EXCEPT !.byte = 1 - @]
    <3>1. PICK b : b = 1 - a.byte
      OBVIOUS
    <3>2. c = [a EXCEPT !.byte = b]
      BY <2>3, <3>1
    <3>3. c.kind = a.kind
      BY <3>2
    <3> QED
      BY <1>0, <1>1, <2>3, <3>3 DEF Alike
  <2>4. CASE a.kind = "header" /\ c = [a EXCEPT !.intact = FALSE]
    <3>1. c.kind = a.kind /\ c.dict = a.dict
      BY <2>4
    <3> QED
      BY <1>0, <1>1, <2>4, <3>1 DEF Alike
  <2> QED
    BY <1>1, <1>2, <2>1, <2>2, <2>3, <2>4 DEF PayloadHarm
<1>3. CASE TableHarm(g, k, c)
  <2>1. CASE /\ a.kind \in {"entry", "stored"}
             /\ \E d \in {-1, 1} : a.len + d >= 0 /\ c = [a EXCEPT !.len = @ + d]
    <3>1. PICK d \in {-1, 1} : a.len + d >= 0 /\ c = [a EXCEPT !.len = @ + d]
      BY <2>1
    <3>2. PICK n : n = a.len + d
      OBVIOUS
    <3>3. c = [a EXCEPT !.len = n]
      BY <3>1, <3>2
    <3>4. c.kind = a.kind /\ c.path = a.path /\ (c.len = n \/ c.len = a.len)
      BY <3>3
    <3>5. a.len \in Nat => n \in Nat
      BY <3>1, <3>2
    <3>6. a.kind = "stored" /\ a.len \in Nat => c.len \in Nat
      BY <3>4, <3>5
    <3>7. a \in EntryCell => c \in EntryCell
      BY <3>3, <3>5 DEF EntryCell
    <3> QED
      BY <1>1, <2>1, <3>4, <3>6, <3>7 DEF Alike
  <2>2. CASE a.kind = "entry" /\ \E r \in DOMAIN a.refs, n \in Nat : c = [a EXCEPT !.refs[r] = n]
    <3>1. PICK r \in DOMAIN a.refs, n \in Nat : c = [a EXCEPT !.refs[r] = n]
      BY <2>2
    <3>2. c.kind = a.kind /\ c.path = a.path
      BY <3>1
    <3>3. PICK more : more = [a.refs EXCEPT ![r] = n]
      OBVIOUS
    <3>4. c = [a EXCEPT !.refs = more]
      BY <3>1, <3>3
    <3>5. ASSUME a \in EntryCell PROVE c \in EntryCell
      <4>1. a.refs \in Seq(Nat)
        BY <3>5 DEF EntryCell
      <4>2. more \in Seq(Nat)
        BY <3>1, <3>3, <4>1, ExceptSeq
      <4> QED
        BY <3>4, <3>5, <4>2 DEF EntryCell
    <3> QED
      BY <1>1, <2>2, <3>2, <3>5 DEF Alike
  <2>3. CASE a.kind = "data" /\ c = [a EXCEPT !.unpacked = @ + 1]
    <3>1. c.kind = a.kind /\ c.hash = a.hash
      BY <2>3
    <3> QED
      BY <1>0, <1>1, <2>3, <3>1 DEF Alike
  <2> QED
    BY <1>1, <1>3, <2>1, <2>2, <2>3 DEF TableHarm
<1> QED
  BY <1>2, <1>3

\* The cells of a compressed container with these pieces: hashes and entries.
Flesh(f, d, p) ==
  /\ \A k \in 1 .. Len(p) : f[HeadLen(d) + k].hash = p[k]
  /\ \A k \in 1 .. Count : f[HeadLen(d) + Len(p) + 1 + k] \in EntryCell

\* Harm leaves the recorded hashes, and entries that are entries.
LEMMA FleshKept ==
  ASSUME NEW g, IsSeq(g), NEW k \in DOMAIN g, NEW c, Alike(g[k], c), NEW f, f = [g EXCEPT ![k] = c],
         NEW d, NEW ways, NEW p, Len(p) \in Nat, PackedBones(g, d, ways, Len(p)), Flesh(g, d, p)
  PROVE  Flesh(f, d, p)
<1>1. /\ Len(f) = Len(g) /\ Len(g) \in Nat /\ f[k] = c /\ k \in 1 .. Len(g)
      /\ \A j \in 1 .. Len(g) : j # k => f[j] = g[j]
  BY ExceptCell, IsSeqFacts
<1>2. PICK h, n, m : h = HeadLen(d) /\ n = Count /\ m = Len(p)
  OBVIOUS
<1>3. h \in {1, 2} /\ n \in Nat /\ m \in Nat /\ Len(g) = h + m + n + 2
  BY <1>2, HeadLenFacts, InputFacts DEF PackedBones
<1>4. \A j \in 1 .. Len(g) : g[j].kind = "data" => f[j].hash = g[j].hash
  BY <1>1 DEF Alike
<1>5. \A j \in 1 .. Len(g) : g[j] \in EntryCell => f[j] \in EntryCell
  BY <1>1 DEF Alike
<1>6. \A j \in 1 .. m : h + j \in 1 .. Len(g)
  BY <1>3
<1>7. \A j \in 1 .. n : h + m + 1 + j \in 1 .. Len(g)
  BY <1>3
<1>8. \A j \in 1 .. m : g[h + j].kind = "data" /\ g[h + j].hash = p[j]
  BY <1>2 DEF PackedBones, Flesh
<1>9. \A j \in 1 .. n : g[h + m + 1 + j] \in EntryCell
  BY <1>2 DEF Flesh
<1>10. (\A j \in 1 .. m : f[h + j].hash = p[j]) /\ \A j \in 1 .. n : f[h + m + 1 + j] \in EntryCell
  BY <1>4, <1>5, <1>6, <1>7, <1>8, <1>9
<1> QED
  BY <1>2, <1>10 DEF Flesh

\* So the bones stay.
LEMMA PackedBonesKept ==
  ASSUME NEW g, IsSeq(g), NEW k \in DOMAIN g, NEW c, Alike(g[k], c), NEW f, f = [g EXCEPT ![k] = c],
         NEW d, NEW ways, NEW m \in Nat, PackedBones(g, d, ways, m)
  PROVE  PackedBones(f, d, ways, m)
<1>1. /\ Len(f) = Len(g) /\ Len(g) \in Nat /\ f[k] = c /\ k \in 1 .. Len(g)
      /\ \A j \in 1 .. Len(g) : j # k => f[j] = g[j]
  BY ExceptCell, IsSeqFacts
<1>2. PICK h, n : h = HeadLen(d) /\ n = Count
  OBVIOUS
<1>3. h \in {1, 2} /\ n \in Nat /\ (d # NoDict => h = 2)
  BY <1>2, HeadLenFacts, InputFacts
<1>4. Len(g) = h + m + n + 2
  BY <1>2 DEF PackedBones
<1>5. \A j \in 1 .. Len(g) : g[j].kind \notin {"data", "stored", "byte", "header", "entry"} => f[j] = g[j]
  BY <1>1 DEF Alike
<1>6. \A j \in 1 .. Len(g) : f[j].kind = g[j].kind
  BY <1>1 DEF Alike
<1>7. \A j \in 1 .. Len(g) : g[j].kind \in {"entry", "stored"} => f[j].path = g[j].path
  BY <1>1 DEF Alike
<1>8. \A j \in 1 .. Len(g) : g[j].kind = "header" => f[j].dict = g[j].dict
  BY <1>1 DEF Alike
<1>9. /\ 1 \in 1 .. Len(g) /\ 2 \in 1 .. Len(g) /\ h + m + 1 \in 1 .. Len(g) /\ Len(g) \in 1 .. Len(g)
      /\ \A j \in 1 .. m : h + j \in 1 .. Len(g)
  BY <1>3, <1>4, SMTT(30)
<1>10. \A j \in 1 .. n : h + m + 1 + j \in 1 .. Len(g)
  BY <1>3, <1>4
<1>11. Len(f) = h + m + n + 2
  BY <1>1, <1>4
<1>12. f[1].kind = "header" /\ f[1].dict = (d # NoDict)
  BY <1>6, <1>8, <1>9 DEF PackedBones
<1>13. d # NoDict => f[2] = DictRecord(d)
  BY <1>5, <1>9 DEF PackedBones, DictRecord
<1>14. \A j \in 1 .. m : f[h + j].kind = "data"
  BY <1>2, <1>6, <1>9 DEF PackedBones
<1>15. f[h + m + 1] = TableHead(n)
  BY <1>2, <1>5, <1>9 DEF PackedBones, TableHead
<1>16. \A j \in 1 .. n : f[h + m + 1 + j].kind = "entry" /\ f[h + m + 1 + j].path = ways[Inputs[j]]
  BY <1>2, <1>6, <1>7, <1>10 DEF PackedBones
<1>17. f[Len(f)] = Footer(h + m + 1, m, n)
  <2>1. g[Len(g)] = Footer(h + m + 1, m, n)
    BY <1>2 DEF PackedBones
  <2> QED
    BY <1>1, <1>5, <1>9, <2>1 DEF Footer
<1> QED
  BY <1>2, <1>11, <1>12, <1>13, <1>14, <1>15, <1>16, <1>17 DEF PackedBones

\* Damage keeps the bones of a STORE file.
LEMMA StoredBonesKept ==
  ASSUME NEW g, IsSeq(g), NEW k \in DOMAIN g, NEW c, Alike(g[k], c), NEW f, f = [g EXCEPT ![k] = c],
         NEW d, NEW ways, StoredBones(g, d, ways)
  PROVE  StoredBones(f, d, ways)
<1>1. /\ Len(f) = Len(g) /\ Len(g) \in Nat /\ f[k] = c /\ k \in 1 .. Len(g)
      /\ \A j \in 1 .. Len(g) : j # k => f[j] = g[j]
  BY ExceptCell, IsSeqFacts
<1>2. PICK n : n = Count
  OBVIOUS
<1>3. n \in Nat /\ Len(g) >= n + 3
  BY <1>2, InputFacts DEF StoredBones
<1>4. \A j \in 1 .. Len(g) : g[j].kind \notin {"data", "stored", "byte", "header", "entry"} => f[j] = g[j]
  BY <1>1 DEF Alike
<1>5. \A j \in 1 .. Len(g) : f[j].kind = g[j].kind
  BY <1>1 DEF Alike
<1>6. \A j \in 1 .. Len(g) : g[j].kind \in {"entry", "stored"} => f[j].path = g[j].path
  BY <1>1 DEF Alike
<1>7. \A j \in 1 .. Len(g) : g[j].kind = "stored" /\ g[j].len \in Nat => f[j].len \in Nat
  BY <1>1 DEF Alike
<1>8. 1 \in 1 .. Len(g) /\ 2 \in 1 .. Len(g) /\ Len(g) \in 1 .. Len(g)
  BY <1>1, <1>3
<1>9. \A j \in 1 .. n : 2 + j \in 1 .. Len(g)
  BY <1>1, <1>3
<1>10. \A j \in n + 3 .. Len(g) - 1 : j \in 1 .. Len(g)
  BY <1>1, <1>3
<1>11. f[1] = StoreHeader(d) /\ f[2] = TableHead(n)
  <2>1. g[1] = StoreHeader(d) /\ g[2] = TableHead(n)
    BY <1>2 DEF StoredBones
  <2> QED
    BY <1>4, <1>8, <2>1 DEF StoreHeader, TableHead
<1>12. \A j \in 1 .. n : /\ f[2 + j].kind = "stored" /\ f[2 + j].len \in Nat
                         /\ f[2 + j].path = ways[Inputs[j]]
  BY <1>2, <1>5, <1>6, <1>7, <1>9 DEF StoredBones
<1>13. \A j \in n + 3 .. Len(f) - 1 : f[j].kind = "byte"
  BY <1>1, <1>2, <1>5, <1>10 DEF StoredBones
<1>14. f[Len(f)] = Footer(2, 0, n)
  <2>1. g[Len(g)] = Footer(2, 0, n)
    BY <1>2 DEF StoredBones
  <2> QED
    BY <1>1, <1>4, <1>8, <2>1 DEF Footer
<1> QED
  BY <1>1, <1>2, <1>3, <1>11, <1>12, <1>13, <1>14 DEF StoredBones

\* A complete archive, and one harmed, have the bones of a container.
Boned(f, d, ways, p) ==
  IsSeq(f) /\ ((PackedBones(f, d, ways, Len(p)) /\ Flesh(f, d, p)) \/ StoredBones(f, d, ways))

\* A completed file has its bones, and a packed one its flesh.
LEMMA CompleteBones ==
  ASSUME Typed, Gathered, NEW g, Complete(g, create, paths, seen)
  PROVE  Boned(g, create.dict, paths, create.pieces)
<1>1. IsSeq(g) /\ (Ready(g, create) \/ Stored(g, create.dict, paths, seen))
  BY DEF Complete
<1>2. CASE Ready(g, create)
  <2>1. PackedBones(g, create.dict, paths, Len(create.pieces))
    BY <1>2, ReadyBones
  <2>2. PICK d, p, h, e : d = create.dict /\ p = create.pieces /\ h = HeadLen(d) /\ e = create.entries
    OBVIOUS
  <2>3. /\ \A k \in 1 .. Len(p) : \E s \in PackedSizes : g[h + k] = DataRecord(p[k], s, d)
        /\ \A k \in 1 .. Count : g[h + Len(p) + 1 + k] = e[k]
    BY <1>2, <2>2 DEF Ready, Packed, Tabled, Emitted, TableCell
  <2>4. \A k \in 1 .. Len(p) : g[h + k].hash = p[k]
    <3> TAKE k \in 1 .. Len(p)
    <3>1. PICK s \in PackedSizes : g[h + k] = DataRecord(p[k], s, d)
      BY <2>3
    <3> QED
      BY <3>1 DEF DataRecord
  <2>5. \A k \in 1 .. Count : e[k] \in EntryCell
    BY <1>2, <2>2, RunFields DEF Ready
  <2>6. Flesh(g, d, p)
    BY <2>2, <2>3, <2>4, <2>5 DEF Flesh
  <2> QED
    BY <1>1, <2>1, <2>2, <2>6 DEF Boned
<1>3. CASE Stored(g, create.dict, paths, seen)
  BY <1>1, <1>3, StoredHasBones DEF Boned
<1> QED
  BY <1>1, <1>2, <1>3

\* So has a damaged one.
LEMMA HarmedBones ==
  ASSUME NEW g, NEW d, NEW ways, NEW p, Len(p) \in Nat, Boned(g, d, ways, p), NEW f, NEW how, Harmed(g, f, how)
  PROVE  Boned(f, d, ways, p)
<1>1. PICK k \in DOMAIN g : \E c : /\ f = [g EXCEPT ![k] = c]
                                   /\ PayloadHarm(g, k, c) \/ TableHarm(g, k, c)
  BY DEF Harmed
<1>2. PICK c : f = [g EXCEPT ![k] = c] /\ (PayloadHarm(g, k, c) \/ TableHarm(g, k, c))
  BY <1>1
<1>3. Alike(g[k], c)
  BY <1>2, HarmAlike
<1>4. IsSeq(g) /\ IsSeq(f)
  BY <1>2, ExceptCell DEF Boned
<1>5. CASE PackedBones(g, d, ways, Len(p)) /\ Flesh(g, d, p)
  BY <1>2, <1>3, <1>4, <1>5, PackedBonesKept, FleshKept DEF Boned
<1>6. CASE StoredBones(g, d, ways)
  BY <1>2, <1>3, <1>4, <1>6, StoredBonesKept DEF Boned
<1> QED
  BY <1>5, <1>6 DEF Boned

\* Whatever became of it, an archive of the run that opens has its dictionary and inputs.
LEMMA OursOpens ==
  ASSUME Typed, Gathered, Built, Origin, Ours, NEW idx, idx = OpenIndex(file), idx.ok
  PROVE  /\ Boned(file, create.dict, paths, create.pieces)
         /\ idx.dict = create.dict /\ ListsInputs(idx, paths)
<1>1. IsSeq(file)
  BY DEF Built
<1>2. Boned(file, create.dict, paths, create.pieces)
  <2>1. ~Unfinished(file)
    BY UnfinishedRejected
  <2>2. CASE damaged \in {None, "cut"}
    <3>1. CASE create.pc = "done"
      BY <1>1, <2>1, <2>2, <3>1, CompleteBones DEF Built, Complete
    <3>2. CASE create.pc \in {"failed", "crashed"}
      BY <1>1, <2>1, <3>2, CompleteBones DEF Built, Complete
    <3>3. CASE create.pc = "decide"
      BY <1>1, <3>3, CompleteBones DEF Built, Complete
    <3>4. CASE create.pc \in Writing /\ create.pc # "decide"
      BY <2>1, <3>4, NotYet
    <3> QED
      BY <3>1, <3>2, <3>3, <3>4, RunFields DEF Ours, Stages
  <2>3. CASE damaged \notin {None, "cut"}
    <3>1. PICK g : Complete(g, create, paths, seen) /\ Harmed(g, file, damaged)
      BY <2>3 DEF Origin
    <3>2. PICK d, ways, p, f, how :
            d = create.dict /\ ways = paths /\ p = create.pieces /\ f = file /\ how = damaged
      OBVIOUS
    <3>3. Boned(g, d, ways, p) /\ Len(p) \in Nat
      BY <3>1, <3>2, CompleteBones, RunFields
    <3>4. Boned(f, d, ways, p)
      BY <3>1, <3>2, <3>3, HarmedBones
    <3> QED
      BY <3>2, <3>4
  <2> QED
    BY <2>2, <2>3
<1> QED
  BY <1>1, <1>2, BonesList, RunFields, ZenonT(60) DEF Boned

\* Harm to a payload, a hash or the header of a complete compressed container.
LEMMA PackedBroken ==
  ASSUME Typed, Gathered, NEW g, IsSeq(g), Ready(g, create), NEW k \in DOMAIN g, NEW c, PayloadHarm(g, k, c),
         NEW f, f = [g EXCEPT ![k] = c], NEW given
  PROVE  ~(OpenIndex(f).ok /\ AllDecode(OpenIndex(f), given))
<1>1. PICK d, p, h, m, n, ways :
        d = create.dict /\ p = create.pieces /\ h = HeadLen(d) /\ m = Len(p) /\ n = Count /\ ways = paths
  OBVIOUS
<1>2. /\ h \in {1, 2} /\ m \in Nat /\ n \in Nat /\ (h = 1 \/ d # NoDict)
      /\ \A j \in 1 .. m : p[j] \in Seq(Nat)
  BY <1>1, RunFields, InputFacts DEF HeadLen
<1>3. PackedBones(g, d, ways, m)
  BY <1>1, ReadyBones
<1>4. Alike(g[k], c)
  BY HarmAlike
<1>5. PackedBones(f, d, ways, m)
  BY <1>2, <1>3, <1>4, PackedBonesKept
<1>6. IsSeq(f) /\ k \in 1 .. Len(g) /\ f[k] = c
  BY ExceptCell, IsSeqFacts
<1>7. PICK idx : idx = OpenIndex(f) /\ PackedFound(f, d, m, idx)
  BY <1>2, <1>5, <1>6, OpenPacked
<1>8. Len(g) = h + m + n + 2
  BY <1>1, <1>3 DEF PackedBones
<1>9. k = 1 \/ (k = 2 /\ h = 2) \/ (k - h \in 1 .. m /\ h + (k - h) = k) \/ k = h + m + 1
      \/ (k - (h + m + 1) \in 1 .. n /\ h + m + 1 + (k - (h + m + 1)) = k) \/ k = Len(g)
  <2>1. k \in Nat /\ 1 <= k /\ k <= h + m + n + 2 /\ h \in {1, 2} /\ m \in Nat /\ n \in Nat
    BY <1>2, <1>6, <1>8
  <2>2. \/ k = 1 \/ (k = 2 /\ h = 2) \/ (h < k /\ k <= h + m) \/ k = h + m + 1
        \/ (h + m + 1 < k /\ k <= h + m + 1 + n) \/ k = h + m + n + 2
    BY ONLY <2>1
  <2>3. CASE h < k /\ k <= h + m
    BY ONLY <2>1, <2>3
  <2>4. CASE h + m + 1 < k /\ k <= h + m + 1 + n
    BY ONLY <2>1, <2>4
  <2> QED
    BY <1>8, <2>2, <2>3, <2>4
<1>10. CASE k = 1
  <2>1. g[k].kind = "header"
    BY <1>3, <1>10 DEF PackedBones
  <2>2. c = [g[k] EXCEPT !.intact = FALSE]
    BY <2>1 DEF PayloadHarm
  <2>3. g[k] = Header(d)
    BY <1>1, <1>10 DEF Ready, Packed, Tabled, Emitted
  <2>4. f[1].intact = FALSE
    BY <1>6, <1>10, <2>2, <2>3 DEF Header
  <2> QED
    BY <1>7, <2>4 DEF PackedFound
<1>11. CASE k = 2 /\ h = 2
  <2>1. g[2] = DictRecord(d)
    BY <1>1, <1>2, <1>3, <1>11 DEF PackedBones
  <2> QED
    BY <1>11, <2>1 DEF PayloadHarm, DictRecord
<1>12. CASE k - h \in 1 .. m /\ h + (k - h) = k
  <2>1. PICK j : j = k - h /\ j \in 1 .. m /\ h + j = k
    BY <1>12
  <2>2. PICK s \in PackedSizes : g[k] = DataRecord(p[j], s, d)
    BY <1>1, <2>1 DEF Ready, Packed, Tabled, Emitted
  <2>3. c = [g[k] EXCEPT !.holds = Garbled]
    BY <2>2 DEF PayloadHarm, DataRecord
  <2>4. c.holds = Garbled /\ c.hash = p[j]
    BY <2>2, <2>3 DEF DataRecord
  <2>5. c.holds # c.hash
    <3>1. p[j] \in Seq(Nat)
      BY <1>2, <2>1
    <3>2. p[j] # <<-1>>
      <4> SUFFICES ASSUME p[j] = <<-1>> PROVE FALSE
        OBVIOUS
      <4>1. PICK q : q = p[j]
        OBVIOUS
      <4>2. Len(q) = 1 /\ q[1] = -1
        BY <4>1
      <4>3. q[1] \in Nat
        BY <3>1, <4>1, <4>2, SeqFacts
      <4> QED
        BY <4>2, <4>3
    <3> QED
      BY <2>4, <3>2 DEF Garbled
  <2>6. ASSUME idx.ok, AllDecode(idx, given) PROVE FALSE
    <3>1. idx.chunks[j] = c /\ j \in DOMAIN idx.chunks
      BY <1>1, <1>6, <1>7, <2>1, <2>6, IsSeqFacts DEF PackedFound
    <3> QED
      BY <2>5, <2>6, <3>1 DEF AllDecode, Decodes
  <2> QED
    BY <1>7, <2>6
<1>13. CASE k = h + m + 1
  <2>1. g[k] = TableHead(n)
    BY <1>1, <1>3, <1>13 DEF PackedBones
  <2> QED
    BY <2>1 DEF PayloadHarm, TableHead
<1>14. CASE k - (h + m + 1) \in 1 .. n /\ h + m + 1 + (k - (h + m + 1)) = k
  <2>1. g[k].kind = "entry"
    BY <1>1, <1>3, <1>14 DEF PackedBones
  <2> QED
    BY <2>1 DEF PayloadHarm
<1>15. CASE k = Len(g)
  <2>1. g[k].kind = "footer"
    BY <1>3, <1>15 DEF PackedBones, Footer
  <2> QED
    BY <2>1 DEF PayloadHarm
<1> QED
  BY <1>9, <1>10, <1>11, <1>12, <1>13, <1>14, <1>15

\* A payload ends before a later one begins.
LEMMA PayloadMonotone ==
  ASSUME NEW tab, NEW n, Lengthy(tab, n), NEW start \in Nat, NEW i \in 1 .. n + 1
  PROVE  PayloadAt(tab, start, i) <= PayloadAt(tab, start, n + 1)
<1>0. n \in Nat /\ i \in Nat
  BY DEF Lengthy
<1>1. PICK at : at = [j \in 1 .. n + 1 |-> PayloadAt(tab, start, j)]
  OBVIOUS
<1>2. /\ \A j \in 1 .. n + 1 : at[j] \in Nat
      /\ \A j \in 1 .. n : at[j + 1] = at[j] + tab[j].len /\ tab[j].len \in Nat
  <2>1. \A j \in 1 .. n + 1 : at[j] = PayloadAt(tab, start, j)
    BY <1>1
  <2>2. \A j \in 1 .. n : j \in 1 .. n + 1 /\ j + 1 \in 1 .. n + 1
    BY <1>0
  <2> QED
    <3>1. \A j \in 1 .. n + 1 : at[j] \in Nat
      <4> TAKE j \in 1 .. n + 1
      <4>1. PayloadAt(tab, start, j) \in Nat
        BY PayloadFacts
      <4> QED
        BY <2>1, <4>1
    <3>2. \A j \in 1 .. n : at[j + 1] = at[j] + tab[j].len /\ tab[j].len \in Nat
      <4> TAKE j \in 1 .. n
      <4>1. PayloadAt(tab, start, j + 1) = PayloadAt(tab, start, j) + tab[j].len
        BY PayloadFacts
      <4>2. tab[j].len \in Nat
        BY DEF Lengthy
      <4> QED
        BY <2>1, <2>2, <4>1, <4>2
    <3> QED
      BY <3>1, <3>2
<1> DEFINE S == {j \in Nat : i + j <= n + 1 => at[i] <= at[i + j]}
<1>3. 0 \in S
  BY <1>0, <1>2
<1>9. PICK N : N = n + 1 /\ N \in Nat
  BY <1>0
<1>4. ASSUME NEW j \in 0 .. N - 1, j \in S PROVE j + 1 \in S
  <2> SUFFICES ASSUME i + (j + 1) <= n + 1 PROVE at[i] <= at[i + (j + 1)]
    OBVIOUS
  <2>1. i + j \in 1 .. n /\ i + (j + 1) = (i + j) + 1 /\ i + j <= n + 1 /\ i + j \in 1 .. n + 1
    BY <1>0, <1>9
  <2>2. at[i] <= at[i + j]
    BY <1>4, <2>1
  <2>3. at[i + (j + 1)] = at[i + j] + tab[i + j].len /\ tab[i + j].len \in Nat /\ at[i + j] \in Nat /\ at[i] \in Nat
    BY <1>2, <2>1
  <2> QED
    BY <2>2, <2>3
<1>5. \A j \in 0 .. N : j \in S
  <2> HIDE DEF S
  <2> QED
    BY <1>3, <1>4, <1>9, InductionUpTo
<1>6. n + 1 - i \in 0 .. n + 1 /\ i + (n + 1 - i) = n + 1
  BY <1>0
<1>7. at[i] <= at[n + 1]
  <2>1. n + 1 - i \in S
    BY <1>5, <1>6, <1>9
  <2> QED
    BY <1>0, <1>6, <2>1
<1>8. at[i] = PayloadAt(tab, start, i) /\ at[n + 1] = PayloadAt(tab, start, n + 1)
  BY <1>0, <1>1
<1> QED
  BY <1>7, <1>8

\* Harm to a payload byte or a hash of a complete STORE container that opened.
LEMMA StoredBroken ==
  ASSUME Typed, NEW g, IsSeq(g), NEW d, Stored(g, d, paths, seen), OpenIndex(g).ok,
         NEW k \in DOMAIN g, NEW c, PayloadHarm(g, k, c), NEW f, f = [g EXCEPT ![k] = c]
  PROVE  ~OpenIndex(f).ok
<1>1. PICK ways, n, s : ways = paths /\ n = Count /\ s = Count + 3
  OBVIOUS
<1>2. n \in Nat /\ s \in Nat /\ s = n + 3
  BY <1>1, InputFacts
<1>3. StoredBones(g, d, ways)
  BY <1>1, StoredHasBones
<1>4. StoredBones(f, d, ways)
  BY <1>3, HarmAlike, StoredBonesKept
<1>5. /\ IsSeq(f) /\ Len(f) = Len(g) /\ Len(g) \in Nat /\ k \in 1 .. Len(g) /\ f[k] = c
      /\ \A j \in 1 .. Len(g) : j # k => f[j] = g[j]
  BY ExceptCell, IsSeqFacts
<1>6. Len(g) >= s
  BY <1>1, <1>3 DEF StoredBones
<1>7. PICK idx, tab : idx = OpenIndex(g) /\ StoredFound(g, d, idx, tab)
  BY <1>3, OpenStored
<1>8. PICK idx2, tab2 : idx2 = OpenIndex(f) /\ StoredFound(f, d, idx2, tab2)
  BY <1>4, <1>5, OpenStored
<1>9. /\ \A j \in 1 .. n : tab[j] = g[2 + j] /\ tab2[j] = f[2 + j]
      /\ PayloadAt(tab, s, n + 1) = Len(g)
      /\ \A j \in 1 .. n : SliceMatches(g, PayloadAt(tab, s, j), tab[j])
  BY <1>1, <1>7, <1>8 DEF StoredFound
<1>10. idx2.ok => \A j \in 1 .. n : SliceMatches(f, PayloadAt(tab2, s, j), tab2[j])
  BY <1>1, <1>8 DEF StoredFound
<1>11. Lengthy(tab, n)
  BY <1>1, <1>2, <1>3, <1>9 DEF StoredBones, Lengthy
<1>12. ASSUME NEW j \in 1 .. n
       PROVE  \E b \in Contents : g[2 + j] = StoreEntry(ways[Inputs[j]], b) /\ b \in Seq(Nat)
  <2>1. PICK b \in seen[Inputs[j]] \ {Gone} : g[2 + j] = StoreEntry(ways[Inputs[j]], b)
    BY <1>1, <1>12 DEF Stored, Listed
  <2>2. b \in Contents /\ b \in Seq(Nat)
    BY <1>1, <1>12, SeenFacts
  <2> QED
    BY <2>1, <2>2
<1>13. k = 1 \/ k = 2 \/ (k - 2 \in 1 .. n /\ 2 + (k - 2) = k) \/ (s <= k /\ k < Len(g)) \/ k = Len(g)
  <2>1. k \in Nat /\ 1 <= k /\ k <= Len(g) /\ Len(g) \in Nat /\ s = n + 3 /\ n \in Nat /\ s <= Len(g)
    BY <1>2, <1>5, <1>6
  <2> QED
    BY ONLY <2>1
<1>14. CASE k = 1
  BY <1>3, <1>14 DEF StoredBones, StoreHeader, PayloadHarm
<1>15. CASE k = 2
  BY <1>3, <1>15 DEF StoredBones, TableHead, PayloadHarm
<1>16. CASE k = Len(g)
  BY <1>3, <1>16 DEF StoredBones, Footer, PayloadHarm
<1>17. CASE k - 2 \in 1 .. n /\ 2 + (k - 2) = k
  <2>1. PICK j : j \in 1 .. n /\ 2 + j = k
    BY <1>17
  <2>2. PICK b \in Contents : g[k] = StoreEntry(ways[Inputs[j]], b) /\ b \in Seq(Nat)
    BY <1>12, <2>1
  <2>3. c = [g[k] EXCEPT !.hash = Garbled]
    BY <2>2 DEF PayloadHarm, StoreEntry
  <2>4. c.hash = Garbled /\ c.len = Len(b) /\ g[k].len = Len(b) /\ g[k].hash = b
    BY <2>2, <2>3 DEF StoreEntry
  <2>5. PICK at, len : at = PayloadAt(tab, s, j) /\ len = Len(b)
    OBVIOUS
  <2>6. at = PayloadAt(tab2, s, j)
    <3>1. \A i \in 1 .. n : tab[i].len = tab2[i].len
      <4> TAKE i \in 1 .. n
      <4>1. CASE i = j
        BY <1>5, <1>9, <2>1, <2>4, <4>1
      <4>2. CASE i # j
        <5>1. 2 + i # k /\ 2 + i \in 1 .. Len(g)
          BY <1>2, <1>5, <1>6, <2>1, <4>2
        <5> QED
          BY <1>5, <1>9, <5>1
      <4> QED
        BY <4>1, <4>2
    <3>2. j \in 1 .. n + 1
      BY <1>2, <2>1
    <3>3. SameLens(tab, tab2, n)
      BY <1>2, <3>1 DEF SameLens
    <3>4. PayloadAt(tab, s, j) = PayloadAt(tab2, s, j)
      BY ONLY <3>2, <3>3, PayloadSame
    <3> QED
      BY <2>5, <3>4
  <2>7. at \in Nat /\ at >= s /\ at + len <= Len(g) /\ len \in Nat
    <3>1. j \in 1 .. n + 1 /\ j + 1 \in 1 .. n + 1
      BY <1>2, <2>1
    <3>2. at \in Nat /\ at >= s /\ PayloadAt(tab, s, j + 1) = at + tab[j].len
      BY <1>2, <1>11, <2>1, <2>5, <3>1, PayloadFacts, ZenonT(60)
    <3>3. tab[j].len = len /\ len \in Nat
      BY <1>9, <1>11, <2>1, <2>4, <2>5 DEF Lengthy
    <3>4. PayloadAt(tab, s, j + 1) <= Len(g)
      BY <1>2, <1>9, <1>11, <3>1, PayloadMonotone
    <3> QED
      BY <3>2, <3>3, <3>4
  <2>8. \A i \in 1 .. len : f[at + i - 1] = g[at + i - 1]
    <3> TAKE i \in 1 .. len
    <3>1. at + i - 1 \in 1 .. Len(g) /\ at + i - 1 # k
      BY <1>2, <1>5, <2>1, <2>7
    <3> QED
      BY <1>5, <3>1
  <2>9. Slice(f, at, len) = Slice(g, at, len)
    BY <2>8 DEF Slice
  <2>10. Slice(g, at, len) = b
    BY <1>9, <2>1, <2>4, <2>5 DEF SliceMatches
  <2>11. idx2.ok => Slice(f, at, len) = Garbled
    <3>1. tab2[j] = c
      BY <1>5, <1>9, <2>1
    <3>2. idx2.ok => SliceMatches(f, at, tab2[j])
      BY <1>10, <2>1, <2>6
    <3> QED
      BY <2>4, <2>5, <3>1, <3>2 DEF SliceMatches
  <2>12. b # Garbled
    <3> SUFFICES ASSUME b = <<-1>> PROVE FALSE
      BY DEF Garbled
    <3>1. Len(b) = 1 /\ b[1] = -1
      OBVIOUS
    <3>2. b[1] \in Nat
      BY <2>2, <3>1, SeqFacts
    <3> QED
      BY <3>1, <3>2
  <2> QED
    BY <1>8, <2>9, <2>10, <2>11, <2>12
<1>18. CASE s <= k /\ k < Len(g)
  <2>1. PICK b \in Nat : g[k] = PayloadByte(b)
    BY <1>1, <1>2, <1>5, <1>18 DEF Stored, Bytes
  <2>2. PICK x : x = 1 - b
    OBVIOUS
  <2>3. c = [g[k] EXCEPT !.byte = x]
    BY <2>1, <2>2 DEF PayloadHarm, PayloadByte
  <2>4. c.byte = x /\ g[k].byte = b /\ x # b
    BY <2>1, <2>2, <2>3 DEF PayloadByte
  <2>5. k \in Nat /\ k < PayloadAt(tab, s, n + 1)
    BY <1>5, <1>9, <1>18
  <2>6. PICK j \in 1 .. n : PayloadAt(tab, s, j) <= k /\ k < PayloadAt(tab, s, j) + tab[j].len
    BY <1>2, <1>11, <1>18, <2>5, PayloadCovers
  <2>7. PICK at, len : at = PayloadAt(tab, s, j) /\ len = tab[j].len
    OBVIOUS
  <2>8. \A i \in 1 .. n : tab2[i] = tab[i]
    <3> TAKE i \in 1 .. n
    <3>1. 2 + i \in 1 .. Len(g) /\ 2 + i # k
      BY <1>2, <1>5, <1>6, <1>18
    <3> QED
      BY <1>5, <1>9, <3>1
  <2>9. at = PayloadAt(tab2, s, j)
    <3>1. j \in 1 .. n + 1
      BY <1>2
    <3>2. SameLens(tab, tab2, n)
      BY <1>2, <2>8 DEF SameLens
    <3> QED
      BY <2>7, <3>1, <3>2, PayloadSame
  <2>10. idx2.ok => Slice(f, at, len) = Slice(g, at, len)
    <3>1. Slice(g, at, len) = tab[j].hash
      BY <1>9, <2>6, <2>7 DEF SliceMatches
    <3>2. idx2.ok => Slice(f, at, len) = tab[j].hash
      BY <1>10, <2>6, <2>7, <2>8, <2>9 DEF SliceMatches
    <3> QED
      BY <3>1, <3>2
  <2>11. at \in Nat /\ len \in Nat
    <3>1. j \in 1 .. n + 1
      BY <1>2
    <3> QED
      BY <1>2, <1>11, <2>7, <3>1, PayloadFacts DEF Lengthy
  <2>12. PICK i : i = k - at + 1
    OBVIOUS
  <2>13. i \in 1 .. len /\ at + i - 1 = k
    BY <2>5, <2>6, <2>7, <2>11, <2>12
  <2>14. Slice(f, at, len)[i] = x /\ Slice(g, at, len)[i] = b
    BY <1>5, <2>4, <2>13 DEF Slice
  <2> QED
    BY <1>8, <2>4, <2>10, <2>14
<1> QED
  BY <1>13, <1>14, <1>15, <1>16, <1>17, <1>18

\* A STORE container has nothing to decode.
LEMMA StoreDecodes ==
  ASSUME NEW f, NEW idx, idx = OpenIndex(f), idx.ok, idx.store, NEW given
  PROVE  AllDecode(idx, given)
<1>1. CASE f[1].kind = "store"
  <2>1. idx.chunks = <<>>
    BY <1>1, OpenCases DEF StoreIndex
  <2> QED
    BY <2>1 DEF AllDecode
<1>2. CASE f[1].kind # "store"
  BY <1>2, OpenCases DEF PackedIndex
<1> QED
  BY <1>1, <1>2

\* No dictionary but the writer's opens the archive, and none once a payload was harmed.
LEMMA HarmShows ==
  ASSUME Typed, Gathered, Built, Origin, Ours, NEW given, damaged = "payload" \/ given # create.dict
  PROVE  ~Opened(file, OpenIndex(file), given)
<1>1. CASE given # create.dict
  BY <1>1, OursOpens DEF Opened, Resolves
<1>2. CASE damaged = "payload"
  <2>1. PICK g : Complete(g, create, paths, seen) /\ Harmed(g, file, "payload") /\ OpenIndex(g).ok
    BY <1>2 DEF Origin, None
  <2>2. PICK k \in DOMAIN g : \E c : file = [g EXCEPT ![k] = c] /\ PayloadHarm(g, k, c)
    BY <2>1 DEF Harmed
  <2>3. PICK c : file = [g EXCEPT ![k] = c] /\ PayloadHarm(g, k, c)
    BY <2>2
  <2>4. PICK f : f = file
    OBVIOUS
  <2>5. f = [g EXCEPT ![k] = c] /\ IsSeq(g)
    BY <2>1, <2>3, <2>4 DEF Complete
  <2>6. CASE Ready(g, create)
    BY <2>3, <2>4, <2>5, <2>6, PackedBroken DEF Opened
  <2>7. CASE Stored(g, create.dict, paths, seen)
    <3>1. PICK d : d = create.dict
      OBVIOUS
    <3>2. Stored(g, d, paths, seen)
      BY <2>7, <3>1
    <3>3. ~OpenIndex(f).ok
      BY <2>1, <2>3, <2>5, <3>2, StoredBroken
    <3> QED
      BY <2>4, <3>3 DEF Opened
  <2> QED
    BY <2>1, <2>6, <2>7 DEF Complete
<1> QED
  BY <1>1, <1>2

\* What does not open leaves no output and fails the test.
LEMMA UnopenedShows ==
  ASSUME Reading, NEW given, given = extract.given, ~Opened(file, OpenIndex(file), given)
  PROVE  Untouched /\ ~Tests(file, given)
<1>1. Untouched
  BY DEF Reading, Opened
<1>2. ~Tests(file, given)
  <2> SUFFICES ASSUME Tests(file, given) PROVE FALSE
    OBVIOUS
  <2>1. PICK f, idx : f = file /\ idx = OpenIndex(f)
    OBVIOUS
  <2>2. idx.ok /\ Resolves(idx, given) /\ (idx.store \/ AllDecode(idx, given))
    BY <2>1 DEF Tests
  <2>3. AllDecode(idx, given)
    BY <2>1, <2>2, StoreDecodes
  <2> QED
    BY <2>1, <2>2, <2>3 DEF Opened
<1> QED
  BY <1>1, <1>2

----------------------------------------------------------------------------
(* Contents put together from their pieces.                                *)

\* f joins the parts, one after the other.
Joins(f, parts) ==
  \A k \in 1 .. Len(parts) : f[k] = IF k = 1 THEN parts[k] ELSE f[k - 1] \o parts[k]

\* The loop of FlattenSeq has a function that satisfies it.
LEMMA JoinLoop ==
  ASSUME NEW parts, Len(parts) \in Nat \ {0}
  PROVE  \E f : Joins(f, parts) /\ FlattenSeq(parts) = f[Len(parts)]
<1> DEFINE N == Len(parts)
           G(f, n) == f = [k \in 1 .. n |-> IF k = 1 THEN parts[k] ELSE f[k - 1] \o parts[k]]
           S == {n \in Nat : \E f : G(f, n)}
<1>1. 0 \in S
  <2>1. G([k \in 1 .. 0 |-> 0], 0)
    OBVIOUS
  <2> QED
    BY <2>1
<1>2. ASSUME NEW n \in S PROVE n + 1 \in S
  <2>1. PICK f : G(f, n)
    OBVIOUS
  <2>0. PICK more : more = IF n + 1 = 1 THEN parts[n + 1] ELSE f[n] \o parts[n + 1]
    OBVIOUS
  <2> DEFINE h == [k \in 1 .. n + 1 |-> IF k = n + 1 THEN more ELSE f[k]]
  <2>2. \A k \in 1 .. n + 1 : h[k] = IF k = 1 THEN parts[k] ELSE h[k - 1] \o parts[k]
    <3> TAKE k \in 1 .. n + 1
    <3>1. CASE k = n + 1
      <4>1. h[k] = more
        BY <3>1
      <4>2. CASE k = 1
        BY <2>0, <3>1, <4>1, <4>2
      <4>3. CASE k # 1
        <5>1. k - 1 = n /\ n \in 1 .. n + 1 /\ n # n + 1
          BY <3>1, <4>3
        <5>2. h[k - 1] = f[n]
          BY <5>1
        <5> QED
          BY <2>0, <3>1, <4>1, <4>3, <5>2
      <4> QED
        BY <4>2, <4>3
    <3>2. CASE k \in 1 .. n
      <4>1. h[k] = f[k]
        BY <3>2
      <4>2. f[k] = IF k = 1 THEN parts[k] ELSE f[k - 1] \o parts[k]
        BY <2>1, <3>2
      <4>3. k # 1 => h[k - 1] = f[k - 1]
        BY <3>2
      <4> QED
        BY <4>1, <4>2, <4>3
    <3> QED
      BY <3>1, <3>2
  <2>3. h = [k \in 1 .. n + 1 |-> h[k]]
    OBVIOUS
  <2> HIDE DEF h
  <2>4. G(h, n + 1)
    BY <2>2, <2>3
  <2>4a. n + 1 \in Nat
    OBVIOUS
  <2> HIDE DEF G
  <2>5. \E g : G(g, n + 1)
    BY <2>4
  <2> QED
    BY <2>4a, <2>5
<1>3. S = Nat
  <2>1. S \in SUBSET Nat
    OBVIOUS
  <2> HIDE DEF S
  <2> QED
    BY <1>1, <1>2, <2>1, Induction
<1> DEFINE f == CHOOSE f : G(f, N)
<1>4. G(f, N)
  BY <1>3
<1>5. FlattenSeq(parts) = f[N]
  BY DEF FlattenSeq
<1> HIDE DEF f
<1>6. Joins(f, parts)
  BY <1>4 DEF Joins
<1> QED
  BY <1>5, <1>6

\* The whole is as long as the parts together.
LEMMA JoinLength ==
  ASSUME NEW parts, IsSeq(parts), \A k \in 1 .. Len(parts) : IsSeq(parts[k]),
         NEW lens, Len(lens) = Len(parts), \A k \in 1 .. Len(parts) : lens[k] = Len(parts[k])
  PROVE  IsSeq(FlattenSeq(parts)) /\ Len(FlattenSeq(parts)) = SumOf(lens)
<1>0. Len(parts) \in Nat
  BY IsSeqFacts
<1>1. CASE Len(parts) = 0
  <2>1. FlattenSeq(parts) = parts
    BY <1>1 DEF FlattenSeq
  <2>2. SumOf(lens) = 0
    BY <1>1, SumEmpty
  <2> QED
    BY <1>1, <2>1, <2>2
<1>2. CASE Len(parts) # 0
  <2>1. PICK f : Joins(f, parts) /\ FlattenSeq(parts) = f[Len(parts)]
    BY <1>0, <1>2, JoinLoop
  <2>2. PICK s : Adds(s, lens) /\ SumOf(lens) = s[Len(lens)]
    BY <1>0, SumLoop
  <2> DEFINE S == {k \in Nat : k = 0 \/ (IsSeq(f[k]) /\ Len(f[k]) = s[k])}
  <2>3. 0 \in S
    OBVIOUS
  <2>4. ASSUME NEW k \in 0 .. Len(parts) - 1, k \in S PROVE k + 1 \in S
    <3>1. k + 1 \in 1 .. Len(parts) /\ (k + 1) - 1 = k /\ k + 1 \in Nat
      BY <1>0
    <3>2. s[k + 1] = s[k] + Len(parts[k + 1])
      BY <2>2, <3>1 DEF Adds
    <3>3. PICK part : part = parts[k + 1] /\ IsSeq(part)
      BY <3>1
    <3>4. Len(part) \in Nat
      BY <3>3, IsSeqFacts
    <3>5. CASE k = 0
      <4>1. f[k + 1] = part
        BY <2>1, <3>1, <3>3, <3>5 DEF Joins
      <4>2. s[k] = 0
        BY <2>2, <3>5 DEF Adds
      <4> QED
        BY <3>1, <3>2, <3>3, <3>4, <4>1, <4>2
    <3>6. CASE k # 0
      <4>1. PICK q : q = f[k]
        OBVIOUS
      <4>2. f[k + 1] = q \o part /\ IsSeq(q) /\ Len(q) = s[k]
        <5>1. f[k + 1] = IF k + 1 = 1 THEN parts[k + 1] ELSE f[(k + 1) - 1] \o parts[k + 1]
          BY <2>1, <3>1 DEF Joins
        <5>2. k + 1 # 1
          BY <3>1, <3>6
        <5>3. IsSeq(f[k]) /\ Len(f[k]) = s[k]
          BY <2>4, <3>6
        <5> QED
          BY <3>1, <3>3, <4>1, <5>1, <5>2, <5>3
      <4>3. IsSeq(q \o part) /\ Len(q \o part) = Len(q) + Len(part)
        BY <3>3, <4>2, ConcatCells
      <4> QED
        BY <3>1, <3>2, <3>3, <4>2, <4>3
    <3> QED
      BY <3>5, <3>6
  <2>5. \A k \in 0 .. Len(parts) : k \in S
    <3> HIDE DEF S
    <3> QED
      BY <1>0, <2>3, <2>4, InductionUpTo
  <2>6. Len(parts) \in S
    <3>1. Len(parts) \in 0 .. Len(parts)
      BY <1>0
    <3> QED
      BY <2>5, <3>1
  <2> QED
    BY <1>2, <2>1, <2>2, <2>6
<1> QED
  BY <1>1, <1>2

\* The chunks of a content joined are the content.
LEMMA JoinChunks ==
  ASSUME NEW c \in Seq(Nat)
  PROVE  FlattenSeq(Chunks(c)) = c
<1>1. PICK parts, n, len : parts = Chunks(c) /\ len = Len(c) /\ n = NumChunks(len)
  OBVIOUS
<1>2. /\ IsSeq(parts) /\ Len(parts) = n /\ n \in Nat /\ len \in Nat /\ IsSeq(c)
      /\ \A i \in 1 .. n : /\ IsSeq(parts[i])
                           /\ Len(parts[i]) = Reach(i, len) - Reach(i - 1, len)
                           /\ \A k \in 1 .. Len(parts[i]) : parts[i][k] = c[Reach(i - 1, len) + k]
  <2>1. /\ IsSeq(Chunks(c)) /\ Len(Chunks(c)) = NumChunks(Len(c))
        /\ \A i \in 1 .. NumChunks(Len(c)) :
             /\ Chunks(c)[i] \in Seq(Nat)
             /\ Len(Chunks(c)[i]) = Reach(i, Len(c)) - Reach(i - 1, Len(c))
             /\ \A k \in 1 .. Reach(i, Len(c)) - Reach(i - 1, Len(c)) :
                  Chunks(c)[i][k] = c[Reach(i - 1, Len(c)) + k]
    BY ChunkFacts
  <2>2. len \in Nat /\ IsSeq(c)
    BY <1>1, SeqFacts
  <2>3. n \in Nat
    BY <1>1, <2>2, ReachFacts
  <2>4. ASSUME NEW i \in 1 .. n
        PROVE  /\ IsSeq(parts[i])
               /\ Len(parts[i]) = Reach(i, len) - Reach(i - 1, len)
               /\ \A k \in 1 .. Len(parts[i]) : parts[i][k] = c[Reach(i - 1, len) + k]
    BY <1>1, <2>1, SeqFacts
  <2> QED
    BY <1>1, <2>1, <2>2, <2>3, <2>4
<1>3. /\ \A i \in 0 .. n : Reach(i, len) \in 0 .. len
      /\ \A i \in 1 .. n : Reach(i - 1, len) <= Reach(i, len)
      /\ Reach(0, len) = 0 /\ Reach(n, len) = len
  <2>1. len \in Nat
    BY <1>2
  <2> QED
    BY <1>1, <2>1, ReachFacts
<1>4. CASE n = 0
  <2>1. len = 0
    BY <1>3, <1>4
  <2>2. parts = c
    <3>1. IsSeq(parts) /\ IsSeq(c) /\ Len(parts) = Len(c) /\ \A k \in 1 .. Len(parts) : parts[k] = c[k]
      BY <1>1, <1>2, <1>4, <2>1
    <3> QED
      BY <3>1, CellsEqual
  <2> QED
    BY <1>1, <1>2, <1>4, <2>2 DEF FlattenSeq
<1>5. CASE n # 0
  <2>1. PICK f : Joins(f, parts) /\ FlattenSeq(parts) = f[n]
    BY <1>2, <1>5, JoinLoop
  <2> DEFINE S == {k \in Nat : k = 0 \/ /\ IsSeq(f[k]) /\ Len(f[k]) = Reach(k, len)
                                        /\ \A i \in 1 .. Reach(k, len) : f[k][i] = c[i]}
  <2>2. 0 \in S
    OBVIOUS
  <2>3. ASSUME NEW k \in 0 .. n - 1, k \in S PROVE k + 1 \in S
    <3>1. k + 1 \in 1 .. n /\ (k + 1) - 1 = k /\ k + 1 \in Nat /\ k \in 0 .. n /\ k + 1 \in 0 .. n
      BY <1>2
    <3>2. PICK part, a, b : part = parts[k + 1] /\ a = Reach(k, len) /\ b = Reach(k + 1, len)
      OBVIOUS
    <3>3. /\ IsSeq(part) /\ Len(part) = b - a /\ a \in Nat /\ b \in Nat /\ a <= b
          /\ \A i \in 1 .. Len(part) : part[i] = c[a + i]
      <4>1. a \in 0 .. len /\ b \in 0 .. len /\ Reach((k + 1) - 1, len) <= Reach(k + 1, len)
        BY <1>3, <3>1, <3>2
      <4>2. a \in Nat /\ b \in Nat /\ a <= b
        BY <1>2, <3>1, <3>2, <4>1
      <4>3. IsSeq(part) /\ Len(part) = b - a
        BY <1>2, <3>1, <3>2
      <4>4. \A i \in 1 .. Len(part) : part[i] = c[a + i]
        BY <1>2, <3>1, <3>2
      <4> QED
        BY <4>2, <4>3, <4>4
    <3>4. CASE k = 0
      <4>1. f[k + 1] = part
        BY <1>2, <2>1, <3>1, <3>2, <3>4 DEF Joins
      <4>2. a = 0
        BY <1>3, <3>2, <3>4
      <4>3. Len(part) = b /\ \A i \in 1 .. b : part[i] = c[i]
        BY <3>3, <4>2
      <4> QED
        BY <3>1, <3>2, <3>3, <4>1, <4>3
    <3>5. CASE k # 0
      <4>1. PICK q, r : q = f[k] /\ r = f[k + 1]
        OBVIOUS
      <4>2. /\ r = q \o part /\ IsSeq(q) /\ Len(q) = a
            /\ \A i \in 1 .. a : q[i] = c[i]
        <5>1. f[k + 1] = IF k + 1 = 1 THEN parts[k + 1] ELSE f[(k + 1) - 1] \o parts[k + 1]
          BY <1>2, <2>1, <3>1 DEF Joins
        <5>2. k + 1 # 1
          BY <3>1, <3>5
        <5>3. IsSeq(f[k]) /\ Len(f[k]) = Reach(k, len) /\ \A i \in 1 .. Reach(k, len) : f[k][i] = c[i]
          BY <2>3, <3>5
        <5>4. r = q \o part
          BY <3>1, <3>2, <4>1, <5>1, <5>2
        <5> QED
          BY <3>2, <4>1, <5>3, <5>4
      <4>3. /\ IsSeq(q \o part) /\ Len(q \o part) = Len(q) + Len(part)
            /\ \A i \in 1 .. Len(q) : (q \o part)[i] = q[i]
            /\ \A i \in 1 .. Len(part) : (q \o part)[Len(q) + i] = part[i]
        <5>1. IsSeq(q) /\ IsSeq(part)
          BY <3>3, <4>2
        <5> QED
          BY ONLY <5>1, ConcatCells
      <4>4. /\ IsSeq(r) /\ Len(r) = b
            /\ \A i \in 1 .. a : r[i] = c[i]
            /\ \A i \in 1 .. b - a : r[a + i] = c[a + i]
        <5>1. IsSeq(r) /\ Len(r) = b
          BY <3>3, <4>2, <4>3
        <5>2. \A i \in 1 .. a : r[i] = c[i]
          BY <4>2, <4>3
        <5>3. \A i \in 1 .. b - a : r[a + i] = c[a + i]
          BY <3>3, <4>2, <4>3
        <5> QED
          BY <5>1, <5>2, <5>3
      <4>5. \A i \in 1 .. b : r[i] = c[i]
        <5> TAKE i \in 1 .. b
        <5>1. i \in 1 .. a \/ (i - a \in 1 .. b - a /\ a + (i - a) = i)
          BY <3>3
        <5> QED
          BY <4>4, <5>1
      <4> QED
        BY <3>1, <3>2, <4>1, <4>4, <4>5
    <3> QED
      BY <3>4, <3>5
  <2>4. \A k \in 0 .. n : k \in S
    <3> HIDE DEF S
    <3> QED
      BY <1>2, <2>2, <2>3, InductionUpTo
  <2>5. /\ IsSeq(f[n]) /\ Len(f[n]) = len /\ \A i \in 1 .. len : f[n][i] = c[i]
    <3>1. n \in S
      BY <1>2, <2>4
    <3> QED
      BY <1>3, <1>5, <3>1
  <2>6. f[n] = c
    BY <1>1, <1>2, <2>5, CellsEqual
  <2> QED
    BY <1>1, <2>1, <2>6
<1> QED
  BY <1>4, <1>5

\* The bytes of an entry whose references all lead somewhere.
LEMMA EntryBytes ==
  ASSUME NEW idx, NEW e \in EntryCell, RefsExist(idx, e), NEW data, data = Joined(idx, e)
  PROVE  EntryData(idx, e) = SubSeq(data, 1, IF e.len < Len(data) THEN e.len ELSE Len(data))
<1>1. e.refs \in Seq(Nat) /\ DOMAIN e.refs = 1 .. Len(e.refs)
  BY SeqFacts DEF EntryCell
<1>2. SelectInSeq(e.refs, LAMBDA r : r \notin DOMAIN idx.chunks) = 0
  BY <1>1 DEF SelectInSeq, RefsExist
<1>3. [e EXCEPT !.refs = e.refs] = e
  BY DEF EntryCell
<1> QED
  BY <1>2, <1>3 DEF EntryData

\* Every payload is as long as its record says.
Weighed(idx) ==
  /\ IsSeq(idx.chunks)
  /\ \A i \in DOMAIN idx.chunks : IsSeq(idx.chunks[i].holds) /\ Len(idx.chunks[i].holds) = idx.chunks[i].unpacked

\* What the test adds up is the length of what extraction writes.
LEMMA ConsistentBytes ==
  ASSUME NEW idx, Weighed(idx), NEW e \in EntryCell, EntryConsistent(idx, e)
  PROVE  Written(idx, e).whole
<1>1. PICK refs : refs = e.refs
  OBVIOUS
<1>2. RefsExist(idx, e) /\ IsSeq(refs) /\ Len(refs) \in Nat /\ DOMAIN refs = 1 .. Len(refs) /\ e.len \in Nat
  BY <1>1, SeqFacts DEF EntryCell, EntryConsistent
<1>3. \A k \in 1 .. Len(refs) : refs[k] \in DOMAIN idx.chunks
  BY <1>1, <1>2 DEF RefsExist
<1>4. PICK parts : parts = [k \in DOMAIN refs |-> idx.chunks[refs[k]].holds]
  OBVIOUS
<1>5. PICK lens : lens = [k \in DOMAIN refs |-> idx.chunks[refs[k]].unpacked]
  OBVIOUS
<1>6. IsSeq(parts) /\ Len(parts) = Len(refs) /\ Len(lens) = Len(refs)
  BY <1>2, <1>4, <1>5, FunctionIsSeq
<1>7. \A k \in 1 .. Len(parts) : IsSeq(parts[k]) /\ lens[k] = Len(parts[k])
  BY <1>2, <1>3, <1>4, <1>5, <1>6 DEF Weighed
<1>8. PICK data : data = Joined(idx, e)
  OBVIOUS
<1>9. IsSeq(data) /\ Len(data) = SumOf(lens)
  <2>1. data = FlattenSeq(parts)
    BY <1>1, <1>4, <1>8 DEF Joined
  <2>2. Len(lens) = Len(parts) /\ \A k \in 1 .. Len(parts) : IsSeq(parts[k])
    BY <1>6, <1>7
  <2>3. \A k \in 1 .. Len(parts) : lens[k] = Len(parts[k])
    BY <1>7
  <2>4. IsSeq(FlattenSeq(parts)) /\ Len(FlattenSeq(parts)) = SumOf(lens)
    BY ONLY <1>6, <2>2, <2>3, JoinLength
  <2> QED
    BY <2>1, <2>4
<1>10. Len(data) = e.len
  BY <1>1, <1>5, <1>9 DEF EntryConsistent
<1>11. EntryData(idx, e) = SubSeq(data, 1, e.len)
  BY <1>2, <1>8, <1>10, EntryBytes
<1>12. Len(SubSeq(data, 1, e.len)) = e.len
  <2>1. PICK n : n = e.len
    OBVIOUS
  <2>2. Len(SubSeq(data, 0 + 1, 0 + n)) = n
    BY <1>2, <2>1, Stretch
  <2> QED
    BY <1>2, <2>1, <2>2
<1> QED
  BY <1>2, <1>11, <1>12 DEF Written

\* What the test accepts of an archive with its bones, extraction writes whole.
LEMMA TestedPasses ==
  ASSUME NEW f, NEW d, NEW ways, NEW p \in Seq(Seq(Nat)), Boned(f, d, ways, p),
         NEW given, Tests(f, given), NEW idx, idx = OpenIndex(f), NEW k \in DOMAIN idx.files
  PROVE  Outcome(idx, k).whole
<1>1. idx.ok /\ (idx.store \/ (AllDecode(idx, given) /\ EntryConsistent(idx, idx.files[k])))
  BY DEF Tests
<1>2. CASE idx.store
  BY <1>2 DEF Outcome
<1>3. CASE ~idx.store
  <2>1. IsSeq(f)
    BY DEF Boned
  <2>2. ~StoredBones(f, d, ways)
    <3> SUFFICES ASSUME StoredBones(f, d, ways) PROVE FALSE
      OBVIOUS
    <3>1. StoredFound(f, d, idx, TableOf(f))
      BY <2>1, OpenStored
    <3> QED
      BY <1>1, <1>3, <3>1 DEF StoredFound
  <2>3. PICK h, m : h = HeadLen(d) /\ m = Len(p)
    OBVIOUS
  <2>4. m \in Nat /\ \A i \in 1 .. m : p[i] \in Seq(Nat)
    BY <2>3, SeqFacts
  <2>5. PackedBones(f, d, ways, m) /\ Flesh(f, d, p)
    BY <2>2, <2>3 DEF Boned
  <2>6. PackedFound(f, d, m, idx)
    BY <2>1, <2>4, <2>5, OpenPacked
  <2>7. /\ IsSeq(idx.chunks) /\ Len(idx.chunks) = m /\ DOMAIN idx.chunks = 1 .. m
        /\ IsSeq(idx.files) /\ DOMAIN idx.files = 1 .. Count
        /\ \A i \in 1 .. m : idx.chunks[i] = f[h + i]
        /\ \A i \in 1 .. Count : idx.files[i] = f[h + m + 1 + i]
    BY <1>1, <2>3, <2>6, IsSeqFacts DEF PackedFound
  <2>8. Weighed(idx)
    <3>1. ASSUME NEW i \in 1 .. m
          PROVE  IsSeq(idx.chunks[i].holds) /\ Len(idx.chunks[i].holds) = idx.chunks[i].unpacked
      <4>1. idx.chunks[i].hash = p[i]
        BY <2>3, <2>5, <2>7 DEF Flesh
      <4>2. Decodes(idx.chunks[i], given)
        BY <1>1, <1>3, <2>7 DEF AllDecode
      <4>3. IsSeq(p[i])
        BY <2>4, SeqFacts
      <4> QED
        BY <4>1, <4>2, <4>3 DEF Decodes
    <3> QED
      BY <2>7, <3>1 DEF Weighed
  <2>9. PICK e : e = idx.files[k]
    OBVIOUS
  <2>10. e \in EntryCell
    <3>1. k \in 1 .. Count
      BY <2>7
    <3> QED
      BY <2>3, <2>5, <2>7, <2>9, <3>1 DEF Flesh
  <2>11. Written(idx, e).whole
    BY <1>1, <1>3, <2>8, <2>9, <2>10, ConsistentBytes
  <2> QED
    BY <1>3, <2>9, <2>11 DEF Outcome
<1> QED
  BY <1>2, <1>3

\* What always holds of the create run, its file, what was done to it and the extract run.
Sound == Typed /\ Gathered /\ Built /\ Measured(file) /\ Origin /\ Reading

\* The input LastNamed picks is listed, has the path, and none behind it has.
LEMMA LastNamedFacts ==
  ASSUME NEW p, NEW i \in ToSet(Inputs), paths[i] = p
  PROVE  \E k \in 1 .. Count : /\ LastNamed(p) = Inputs[k] /\ paths[Inputs[k]] = p
                               /\ \A l \in k + 1 .. Count : paths[Inputs[l]] # p
<1> DEFINE S == {k \in 1 .. Count : paths[Inputs[k]] = p}
           Chosen(k) == paths[Inputs[k]] = p /\ \A l \in DOMAIN Inputs : paths[Inputs[l]] = p => l <= k
<1>1. S \subseteq 1 .. Count /\ S # {}
  BY InputFacts DEF ToSet
<1>2. PICK n \in S : \A l \in n + 1 .. Count : l \notin S
  <2> HIDE DEF S
  <2> QED
    BY <1>1, InputFacts, LastNumber
<1>3. n \in DOMAIN Inputs /\ Chosen(n)
  <2>1. n \in 1 .. Count /\ paths[Inputs[n]] = p
    OBVIOUS
  <2>2. ASSUME NEW l \in DOMAIN Inputs, paths[Inputs[l]] = p PROVE l <= n
    <3>1. l \in S /\ l \in Nat /\ n \in Nat /\ l <= Count
      BY <2>1, <2>2, InputFacts
    <3>2. l \notin n + 1 .. Count
      BY <1>2, <3>1
    <3> QED
      BY ONLY <3>1, <3>2, InputFacts
  <2> QED
    BY <2>1, <2>2, InputFacts
<1>4. PICK k : k = CHOOSE m \in DOMAIN Inputs : Chosen(m)
  OBVIOUS
<1>5. k \in DOMAIN Inputs /\ Chosen(k)
  <2> HIDE DEF Chosen
  <2> QED
    BY <1>3, <1>4
<1>6. LastNamed(p) = Inputs[k]
  BY <1>4 DEF LastNamed
<1>7. ASSUME NEW l \in k + 1 .. Count PROVE paths[Inputs[l]] # p
  <2>1. k \in 1 .. Count /\ l \in 1 .. Count /\ ~(l <= k)
    BY <1>5, InputFacts
  <2> QED
    BY <1>5, <2>1, InputFacts
<1> QED
  BY <1>5, <1>6, <1>7, InputFacts

\* After all entries were written, a path holds the outcome of its last entry.
LEMMA LandedLast ==
  ASSUME NEW o, NEW idx, NEW ways, ListsInputs(idx, ways), IsSeq(idx.files), Landed(o, idx, Count),
         NEW p \in Paths, NEW k \in 1 .. Count, ways[Inputs[k]] = p,
         \A l \in k + 1 .. Count : ways[Inputs[l]] # p
  PROVE  o[p] = Outcome(idx, k).data
<1>1. DOMAIN idx.files = 1 .. Count
  BY IsSeqFacts DEF ListsInputs
<1>2. \A l \in 1 .. Count : Named(idx, p, l) <=> ways[Inputs[l]] = p
  BY <1>1 DEF ListsInputs, Named
<1>3. \A l \in k + 1 .. Count : ~Named(idx, p, l)
  <2> TAKE l \in k + 1 .. Count
  <2>1. l \in 1 .. Count
    BY InputFacts
  <2> QED
    BY <1>2, <2>1
<1> QED
  BY <1>2, <1>3 DEF Landed

\* The extraction of a tested archive fails only for a path that clashes with one before
\* it, and so for the names that create found.
LEMMA TestedFinishes ==
  ASSUME Sound, SafePaths, Ours, Tests(file, extract.given), extract.pc = "failed"
  PROVE  /\ \E k \in 1 .. (extract.at - 1) :
              Clash(extract.idx.files[k].path, extract.idx.files[extract.at].path)
         /\ NamesClash
<1>1. PICK f, idx, given, at, d, ways, p :
        /\ f = file /\ idx = extract.idx /\ given = extract.given /\ at = extract.at
        /\ d = create.dict /\ ways = paths /\ p = create.pieces
  OBVIOUS
<1>2. OpenIndex(f).ok /\ Opened(f, OpenIndex(f), given)
  <2>1. PICK found : found = OpenIndex(f)
    OBVIOUS
  <2>2. found.ok /\ Resolves(found, given) /\ (found.store \/ AllDecode(found, given))
    BY <1>1, <2>1 DEF Tests
  <2>3. AllDecode(found, given)
    BY <2>1, <2>2, StoreDecodes
  <2> QED
    BY <2>1, <2>2, <2>3 DEF Opened
<1>3. /\ Opened(f, idx, given) /\ Upto(idx, at) /\ at <= Len(idx.files) /\ ~Passed(idx, at)
  BY <1>1, <1>2 DEF Sound, Reading
<1>4. idx = OpenIndex(f) /\ idx.ok
  BY <1>3 DEF Opened
<1>5. Boned(f, d, ways, p) /\ ListsInputs(idx, ways)
  BY <1>1, <1>4, OursOpens DEF Sound
<1>6. p \in Seq(Seq(Nat)) /\ IsSeq(f) /\ Measured(f)
  BY <1>1, RunFields DEF Sound, Built
<1>7. IsSeq(idx.files)
  BY <1>4, <1>6, OpenAny
<1>8. at \in DOMAIN idx.files /\ at \in 1 .. Count
  <2>1. DOMAIN idx.files = 1 .. Count /\ Len(idx.files) = Count
    BY <1>5, <1>7, IsSeqFacts DEF ListsInputs
  <2> QED
    BY <1>3, <2>1, InputFacts DEF Upto
<1>9. Outcome(idx, at).whole
  BY <1>1, <1>4, <1>5, <1>6, <1>8, TestedPasses
<1>10. idx.files[at].path \notin Unsafe
  <2>1. idx.files[at].path = ways[Inputs[at]]
    BY <1>5, <1>8 DEF ListsInputs
  <2> QED
    BY <1>1, <1>8, <2>1, InputFacts DEF SafePaths
<1>11. PICK k \in 1 .. at - 1 : Clash(idx.files[k].path, idx.files[at].path)
  BY <1>3, <1>9, <1>10 DEF Passed, Apart
<1>12. NamesClash
  <2>1. k \in 1 .. Count /\ {Inputs[k], Inputs[at]} \subseteq ToSet(Inputs)
    BY <1>8, InputFacts
  <2>2. idx.files[k].path = ways[Inputs[k]] /\ idx.files[at].path = ways[Inputs[at]]
    BY <1>5, <1>8, <2>1 DEF ListsInputs
  <2> QED
    BY <1>1, <1>11, <2>1, <2>2 DEF NamesClash
<1> QED
  BY <1>1, <1>11, <1>12

\* The index of a finished extraction, and what it put into the output directory.
LEMMA DoneFacts ==
  ASSUME Sound, Ours, extract.pc = "done", NEW f, f = file, NEW idx, idx = extract.idx,
         NEW given, given = extract.given, NEW ways, ways = paths
  PROVE  /\ IsSeq(f) /\ Measured(f) /\ Opened(f, idx, given) /\ idx = OpenIndex(f) /\ idx.ok
         /\ Boned(f, create.dict, ways, create.pieces) /\ ListsInputs(idx, ways)
         /\ IsSeq(idx.files) /\ DOMAIN idx.files = 1 .. Count /\ Len(idx.files) = Count
         /\ Landed(out, idx, Count)
         /\ \A k \in 1 .. Count : Passed(idx, k)
<1>1. /\ Opened(f, idx, given) /\ Upto(idx, extract.at) /\ Landed(out, idx, extract.at - 1)
      /\ extract.at = Len(idx.files) + 1
  BY DEF Sound, Reading
<1>2. IsSeq(f) /\ Measured(f)
  BY DEF Sound, Built
<1>3. idx = OpenIndex(f) /\ idx.ok
  BY <1>1 DEF Opened
<1>4. Boned(f, create.dict, ways, create.pieces) /\ ListsInputs(idx, ways)
  BY <1>3, OursOpens DEF Sound
<1>5. IsSeq(idx.files) /\ DOMAIN idx.files = 1 .. Count /\ Len(idx.files) = Count
  BY <1>2, <1>3, <1>4, OpenAny, IsSeqFacts DEF ListsInputs
<1>6. extract.at - 1 = Count
  BY <1>1, <1>5, InputFacts
<1> QED
  BY <1>1, <1>2, <1>3, <1>4, <1>5, <1>6 DEF Upto

\* All of a sequence is the sequence.
LEMMA AllOfIt ==
  ASSUME NEW c, IsSeq(c)
  PROVE  SubSeq(c, 1, Len(c)) = c
<1>1. PICK a \in Nat, n \in Nat : a = 0 /\ n = Len(c)
  BY IsSeqFacts
<1>2. /\ IsSeq(SubSeq(c, a + 1, a + n)) /\ Len(SubSeq(c, a + 1, a + n)) = n
      /\ \A k \in 1 .. n : SubSeq(c, a + 1, a + n)[k] = c[a + k]
  <2>1. a \in Nat /\ n \in Nat
    BY <1>1
  <2> QED
    BY ONLY <2>1, Stretch
<1>3. PICK s : s = SubSeq(c, a + 1, a + n)
  OBVIOUS
<1>4. IsSeq(s) /\ Len(s) = Len(c) /\ \A k \in 1 .. Len(s) : s[k] = c[k]
  BY <1>1, <1>2, <1>3
<1>5. s = c
  BY <1>4, CellsEqual
<1>6. a + 1 = 1 /\ a + n = Len(c)
  BY <1>1
<1> QED
  BY <1>3, <1>5, <1>6

\* The payloads of an index are the pieces.
Holds(idx, pool) ==
  /\ IsSeq(idx.chunks) /\ DOMAIN idx.chunks = 1 .. Len(pool)
  /\ \A i \in 1 .. Len(pool) :
       idx.chunks[i].holds = pool[i] /\ idx.chunks[i].unpacked = Len(pool[i])

\* An entry that spells a content over the payloads is consistent and gives that content.
LEMMA SpelledBytes ==
  ASSUME NEW idx, NEW pool, Holds(idx, pool), NEW e \in EntryCell, NEW c \in Seq(Nat), NEW path,
         Spells(e, path, c, pool)
  PROVE  EntryConsistent(idx, e) /\ Written(idx, e) = [data |-> c, whole |-> TRUE]
<1>1. PICK refs, n, cut : refs = e.refs /\ n = NumChunks(Len(c)) /\ cut = Chunks(c)
  OBVIOUS
<1>2. /\ e.len = Len(c) /\ Len(c) \in Nat /\ IsSeq(c)
      /\ IsSeq(refs) /\ Len(refs) = n /\ n \in Nat /\ DOMAIN refs = 1 .. n
      /\ \A j \in 1 .. n : refs[j] \in 1 .. Len(pool) /\ pool[refs[j]] = cut[j]
  BY <1>1, SeqFacts, IsSeqFacts DEF Spells
<1>3. IsSeq(cut) /\ Len(cut) = n /\ \A j \in 1 .. n : IsSeq(cut[j])
  <2>1. IsSeq(Chunks(c)) /\ Len(Chunks(c)) = NumChunks(Len(c))
        /\ \A i \in 1 .. NumChunks(Len(c)) : Chunks(c)[i] \in Seq(Nat)
    BY ChunkFacts
  <2> QED
    BY <1>1, <2>1, SeqFacts
<1>4. RefsExist(idx, e)
  BY <1>1, <1>2 DEF RefsExist, Holds
<1>5. PICK parts : parts = [j \in DOMAIN refs |-> idx.chunks[refs[j]].holds]
  OBVIOUS
<1>6. IsSeq(parts) /\ Len(parts) = n /\ \A j \in 1 .. n : parts[j] = cut[j]
  BY <1>2, <1>5, FunctionIsSeq DEF Holds
<1>7. parts = cut
  BY <1>3, <1>6, CellsEqual
<1>8. Joined(idx, e) = c
  <2>1. Joined(idx, e) = FlattenSeq(parts)
    BY <1>1, <1>5 DEF Joined
  <2>2. FlattenSeq(cut) = c
    BY <1>1, JoinChunks
  <2> QED
    BY <1>7, <2>1, <2>2
<1>9. EntryData(idx, e) = c
  <2>1. EntryData(idx, e) = SubSeq(c, 1, Len(c))
    BY <1>2, <1>4, <1>8, EntryBytes
  <2> QED
    BY <1>2, <2>1, AllOfIt
<1>10. PICK lens : lens = [j \in DOMAIN refs |-> idx.chunks[refs[j]].unpacked]
  OBVIOUS
<1>11. SumOf(lens) = Len(c)
  <2>1. Len(lens) = n /\ \A j \in 1 .. n : lens[j] = Len(cut[j])
    BY <1>2, <1>10 DEF Holds
  <2>2. Len(FlattenSeq(cut)) = SumOf(lens)
    BY <1>3, <2>1, JoinLength
  <2> QED
    BY <1>1, <2>2, JoinChunks
<1>12. EntryConsistent(idx, e)
  BY <1>1, <1>2, <1>4, <1>10, <1>11 DEF EntryConsistent
<1> QED
  BY <1>2, <1>4, <1>9, <1>12 DEF Written

\* A complete compressed container under its own dictionary: it opens, every payload decodes,
\* and every entry gives something its input held.
LEMMA ReadyReads ==
  ASSUME Typed, Gathered, NEW f, IsSeq(f), Ready(f, create), NEW idx, idx = OpenIndex(f)
  PROVE  /\ idx.ok /\ idx.store = FALSE /\ idx.dict = create.dict /\ AllDecode(idx, create.dict)
         /\ IsSeq(idx.files) /\ DOMAIN idx.files = 1 .. Count
         /\ \A k \in 1 .. Count : /\ EntryConsistent(idx, idx.files[k])
                                  /\ Outcome(idx, k).data \in seen[Inputs[k]] \ {Gone}
<1>1. PICK d, p, e, h, m, ways :
        d = create.dict /\ p = create.pieces /\ e = create.entries /\ h = HeadLen(d) /\ m = Len(p) /\ ways = paths
  OBVIOUS
<1>2. /\ m \in Nat /\ IsSeq(p) /\ (\A k \in 1 .. m : p[k] \in Seq(Nat))
      /\ \A k \in 1 .. Len(e) : e[k] \in EntryCell
  BY <1>1, RunFields, SeqFacts
<1>3. Packed(f, d, p, e) /\ Len(e) = Count
  BY <1>1 DEF Ready
<1>4. PackedBones(f, d, ways, m)
  BY <1>1, ReadyBones
<1>5. f[1].intact
  BY <1>3 DEF Packed, Tabled, Emitted, Header
<1>6. PackedFound(f, d, m, idx)
  BY <1>2, <1>4, OpenPacked
<1>7. /\ idx.ok /\ idx.store = FALSE /\ idx.dict = d
      /\ IsSeq(idx.chunks) /\ Len(idx.chunks) = m /\ DOMAIN idx.chunks = 1 .. m
      /\ IsSeq(idx.files) /\ Len(idx.files) = Count /\ DOMAIN idx.files = 1 .. Count
      /\ \A k \in 1 .. m : idx.chunks[k] = f[h + k]
      /\ \A k \in 1 .. Count : idx.files[k] = f[h + m + 1 + k]
  BY <1>1, <1>5, <1>6, IsSeqFacts DEF PackedFound
<1>8. \A k \in 1 .. m : \E s \in PackedSizes : idx.chunks[k] = DataRecord(p[k], s, d)
  BY <1>1, <1>3, <1>7 DEF Packed, Tabled, Emitted
<1>9. \A k \in 1 .. m : /\ idx.chunks[k].holds = p[k] /\ idx.chunks[k].hash = p[k]
                        /\ idx.chunks[k].unpacked = Len(p[k]) /\ idx.chunks[k].under = d
  <2> TAKE k \in 1 .. m
  <2>1. PICK s \in PackedSizes : idx.chunks[k] = DataRecord(p[k], s, d)
    BY <1>8
  <2> QED
    BY <2>1 DEF DataRecord
<1>10. Holds(idx, p)
  BY <1>1, <1>7, <1>9 DEF Holds
<1>11. AllDecode(idx, d)
  BY <1>7, <1>9 DEF AllDecode, Decodes
<1>12. ASSUME NEW k \in 1 .. Count
       PROVE  EntryConsistent(idx, idx.files[k]) /\ Outcome(idx, k).data \in seen[Inputs[k]] \ {Gone}
  <2>1. PICK cell : cell = idx.files[k]
    OBVIOUS
  <2>2. cell = e[k] /\ cell \in EntryCell
    <3>1. f[h + m + 1 + k] = e[k]
      BY <1>1, <1>3 DEF Packed, Tabled, TableCell
    <3> QED
      BY <1>2, <1>3, <1>7, <2>1, <3>1
  <2>3. Spelled(k)
    BY <1>1, <1>3 DEF Gathered
  <2>4. PICK c \in seen[Inputs[k]] \ {Gone} : Spells(e[k], ways[Inputs[k]], c, p)
    BY <1>1, <2>3 DEF Spelled
  <2>5. c \in Seq(Nat)
    BY <2>4, SeenFacts
  <2>6. EntryConsistent(idx, cell) /\ Written(idx, cell) = [data |-> c, whole |-> TRUE]
    BY <1>10, <2>2, <2>4, <2>5, SpelledBytes
  <2>7. Outcome(idx, k).data = c
    BY <1>7, <2>1, <2>6 DEF Outcome
  <2> QED
    BY <2>1, <2>4, <2>6, <2>7
<1> QED
  BY <1>1, <1>7, <1>11, <1>12

\* A complete STORE container, if it opens: every entry gives something its input held.
LEMMA StoredReads ==
  ASSUME Typed, NEW f, IsSeq(f), Stored(f, create.dict, paths, seen), NEW idx, idx = OpenIndex(f), idx.ok,
         NEW k \in 1 .. Count
  PROVE  Outcome(idx, k).data \in seen[Inputs[k]] \ {Gone}
<1>1. PICK d, ways : d = create.dict /\ ways = paths
  OBVIOUS
<1>2. StoredBones(f, d, ways)
  BY <1>1, StoredHasBones
<1>3. PICK tab : tab = TableOf(f) /\ StoredFound(f, d, idx, tab)
  BY <1>2, OpenStored
<1>4. /\ tab[k] = f[2 + k] /\ idx.store = TRUE
      /\ SliceMatches(f, PayloadAt(tab, Count + 3, k), tab[k])
      /\ idx.bytes[k] = Slice(f, PayloadAt(tab, Count + 3, k), tab[k].len)
  BY <1>3 DEF StoredFound
<1>5. PICK c \in seen[Inputs[k]] \ {Gone} : f[2 + k] = StoreEntry(ways[Inputs[k]], c)
  BY <1>1 DEF Stored, Listed
<1>6. idx.bytes[k] = c
  BY <1>4, <1>5 DEF SliceMatches, StoreEntry
<1> QED
  BY <1>4, <1>5, <1>6 DEF Outcome

\* What an undamaged archive of this run gives for an entry is something its input held.
LEMMA OneReading ==
  ASSUME Typed, Gathered, Built, Ours, damaged = None, NEW f, f = file, NEW idx, idx = OpenIndex(f), idx.ok,
         NEW k \in 1 .. Count, Created
  PROVE  Outcome(idx, k).data \in seen[Inputs[k]] \ {Gone}
<1>1. IsSeq(f)
  BY DEF Built
<1>2. ~Unfinished(f)
  BY UnfinishedRejected
<1>3. Ready(f, create) \/ Stored(f, create.dict, paths, seen)
  <2>1. CASE create.pc = "done"
    BY <2>1 DEF Built
  <2>2. CASE create.pc \in {"failed", "crashed"}
    BY <1>2, <2>2 DEF Built
  <2> QED
    BY <2>1, <2>2 DEF Created, Ours
<1> QED
  BY <1>1, <1>3, ReadyReads, StoredReads

----------------------------------------------------------------------------
(* Nobody touches the inputs.                                              *)

\* Where the payload of an input begins if the inputs hold w.
Sizes(w)      == [k \in 1 .. Count |-> [len |-> Len(w[Inputs[k]])]]
StartOf(w, k) == PayloadAt(Sizes(w), Count + 3, k)

\* The payloads of the inputs before `at` are where they belong.
Laid(f, w, at) ==
  \A j \in 1 .. at - 1 : \A b \in 1 .. Len(w[Inputs[j]]) :
    f[StartOf(w, j) + b - 1] = PayloadByte(w[Inputs[j]][b])

\* All inputs are there, and the third reading lays them down one after the other.
Exact ==
  create.edits = 0 =>
    /\ \A i \in ToSet(Inputs) : disk[i] \in Contents
    /\ create.pc = "copy" =>
         create.at <= Count + 1 /\ Laid(file, disk, create.at) /\ Len(file) + 1 = StartOf(disk, create.at)
    /\ create.pc = "storefooter" =>
         Laid(file, disk, Count + 1) /\ Len(file) + 1 = StartOf(disk, Count + 1)
    /\ create.pc = "done" /\ damaged = None /\ file[1].kind = "store" =>
         Laid(file, disk, Count + 1) /\ Len(file) = StartOf(disk, Count + 1)

\* One input's payload begins where the one before it ends.
LEMMA StartFacts ==
  ASSUME NEW w, \A i \in ToSet(Inputs) : w[i] \in Contents
  PROVE  /\ StartOf(w, 1) = Count + 3
         /\ \A k \in 1 .. Count + 1 : StartOf(w, k) \in Nat /\ StartOf(w, k) >= Count + 3
         /\ \A k \in 1 .. Count : /\ Len(w[Inputs[k]]) \in Nat
                                  /\ StartOf(w, k + 1) = StartOf(w, k) + Len(w[Inputs[k]])
<1>1. PICK tab, n, s : tab = Sizes(w) /\ n = Count /\ s = Count + 3
  OBVIOUS
<1>2. n \in Nat /\ s \in Nat
  BY <1>1, InputFacts
<1>3. \A k \in 1 .. n : tab[k].len = Len(w[Inputs[k]]) /\ Len(w[Inputs[k]]) \in Nat
  <2> TAKE k \in 1 .. n
  <2>1. w[Inputs[k]] \in Contents
    BY <1>1, InputFacts
  <2> QED
    BY <1>1, <2>1, InputFacts DEF Sizes
<1>4. Lengthy(tab, n)
  BY <1>2, <1>3 DEF Lengthy
<1>5. /\ PayloadAt(tab, s, 1) = s
      /\ \A i \in 1 .. n + 1 : PayloadAt(tab, s, i) \in Nat /\ PayloadAt(tab, s, i) >= s
      /\ \A i \in 1 .. n : PayloadAt(tab, s, i + 1) = PayloadAt(tab, s, i) + tab[i].len
  BY <1>2, <1>4, PayloadFacts
<1> QED
  BY <1>1, <1>3, <1>5 DEF StartOf

\* A payload ends before a later one begins.
LEMMA StartsAscend ==
  ASSUME NEW w, \A i \in ToSet(Inputs) : w[i] \in Contents, NEW at \in 1 .. Count + 1, NEW j \in 1 .. at
  PROVE  StartOf(w, j) <= StartOf(w, at)
<1>1. PICK tab, n, s : tab = Sizes(w) /\ n = at - 1 /\ s = Count + 3
  OBVIOUS
<1>2. n \in Nat /\ s \in Nat /\ n + 1 = at /\ n <= Count /\ Count \in Nat
  BY <1>1, InputFacts
<1>3. \A k \in 1 .. n : tab[k].len \in Nat
  <2> TAKE k \in 1 .. n
  <2>1. k \in 1 .. Count
    BY <1>2
  <2>2. w[Inputs[k]] \in Contents
    BY <2>1, InputFacts
  <2> QED
    BY <1>1, <2>1, <2>2, InputFacts DEF Sizes
<1>4. Lengthy(tab, n)
  BY <1>2, <1>3 DEF Lengthy
<1>5. j \in 1 .. n + 1
  BY <1>2
<1>6. PayloadAt(tab, s, j) <= PayloadAt(tab, s, n + 1)
  BY <1>2, <1>4, <1>5, PayloadMonotone
<1> QED
  BY <1>1, <1>2, <1>6 DEF StartOf

\* A longer file that begins alike has the same payloads.
LEMMA LaidMore ==
  ASSUME NEW w, \A i \in ToSet(Inputs) : w[i] \in Contents, NEW at \in 1 .. Count + 1, NEW f, NEW g, NEW m \in Nat,
         Laid(f, w, at), StartOf(w, at) <= m + 1, \A k \in 1 .. m : g[k] = f[k]
  PROVE  Laid(g, w, at)
<1> SUFFICES ASSUME NEW j \in 1 .. at - 1, NEW b \in 1 .. Len(w[Inputs[j]])
             PROVE  g[StartOf(w, j) + b - 1] = PayloadByte(w[Inputs[j]][b])
  BY DEF Laid
<1>1. j \in 1 .. Count /\ j + 1 \in 1 .. at /\ at \in Nat /\ at \in 1 .. Count + 1 /\ j \in 1 .. Count + 1
  BY InputFacts
<1>2. PICK x, y, z, l : x = StartOf(w, j) /\ y = StartOf(w, j + 1) /\ z = StartOf(w, at) /\ l = Len(w[Inputs[j]])
  OBVIOUS
<1>3. x \in Nat /\ x >= Count + 3 /\ z \in Nat /\ l \in Nat /\ y = x + l /\ y <= z /\ Count \in Nat
  <2>1. x \in Nat /\ x >= Count + 3 /\ z \in Nat
    BY <1>1, <1>2, StartFacts
  <2>2. l \in Nat /\ y = x + l
    BY <1>1, <1>2, StartFacts
  <2>3. y <= z
    BY <1>1, <1>2, StartsAscend
  <2> QED
    BY <2>1, <2>2, <2>3, InputFacts
<1>4. b \in 1 .. l /\ z <= m + 1
  BY <1>2
<1>5. x + b - 1 \in 1 .. m
  BY ONLY <1>3, <1>4, m \in Nat
<1>6. f[x + b - 1] = PayloadByte(w[Inputs[j]][b])
  BY <1>2 DEF Laid
<1> QED
  BY <1>2, <1>5, <1>6

\* Before anything is written.
LEMMA ExactInit ==
  ASSUME Init
  PROVE  Exact
<1>1. create.pc = "idle"
  BY DEF Init
<1>2. \A i \in ToSet(Inputs) : disk[i] \in Contents
  BY DEF Init
<1> QED
  BY <1>1, <1>2 DEF Exact

\* Steps that lead to another stage, and steps after which somebody has touched an input.
LEMMA ExactElsewhere ==
  ASSUME Exact, disk' = disk, create'.edits = create.edits, create'.pc \notin {"copy", "storefooter", "done"}
  PROVE  Exact'
BY DEF Exact

\* The second reading ends where the third begins.
LEMMA ExactHash ==
  ASSUME Typed, Gathered, Built, Exact, StoreHash
  PROVE  Exact'
<1>1. create.pc = "hash" /\ UNCHANGED disk
  BY DEF StoreHash, steady
<1>2. CASE create.at > Count /\ create' = Go("copy") /\ UNCHANGED file
  <2>1. create'.pc = "copy" /\ create'.at = 1 /\ create'.edits = create.edits
    BY <1>2, GoFacts, StageFacts
  <2>2. Len(file) = Count + 2 /\ Count \in Nat
    <3>1. create.at <= Count + 1 /\ Len(file) = create.at + 1
      BY <1>1 DEF Built
    <3>2. create.at \in Nat /\ Count \in Nat
      BY RunFields, InputFacts
    <3> QED
      BY <1>2, <3>1, <3>2
  <2>3. ASSUME create.edits = 0
        PROVE  /\ \A i \in ToSet(Inputs) : disk'[i] \in Contents
               /\ Laid(file', disk', 1) /\ Len(file') + 1 = StartOf(disk', 1)
    <3>1. \A i \in ToSet(Inputs) : disk[i] \in Contents
      BY <2>3 DEF Exact
    <3>2. PICK w, f : w = disk /\ f = file
      OBVIOUS
    <3>3. StartOf(w, 1) = Count + 3
      BY <3>1, <3>2, StartFacts
    <3>4. Laid(f, w, 1)
      BY DEF Laid
    <3>5. disk' = w /\ file' = f /\ Len(f) + 1 = StartOf(w, 1)
      BY <1>1, <1>2, <2>2, <3>2, <3>3
    <3> QED
      BY <3>1, <3>2, <3>4, <3>5
  <2>4. 1 <= Count + 1
    BY <2>2
  <2> QED
    BY <2>1, <2>3, <2>4 DEF Exact
<1>3. CASE create' = Go("failed")
  <2>1. create'.pc = "failed" /\ create'.edits = create.edits
    BY <1>3, GoFacts, StageFacts
  <2> QED
    BY <1>1, <2>1, ExactElsewhere
<1>4. CASE create' = [create EXCEPT !.at = @ + 1]
  <2>1. create'.pc = "hash" /\ create'.edits = create.edits
    BY <1>1, <1>4, NextItem
  <2> QED
    BY <1>1, <2>1, ExactElsewhere
<1> QED
  BY <1>2, <1>3, <1>4 DEF StoreHash

\* The third reading puts the next input's bytes where they belong.
LEMMA ExactCopy ==
  ASSUME Typed, Gathered, Built, Exact, StoreCopy
  PROVE  Exact'
<1>1. create.pc = "copy" /\ UNCHANGED disk
  BY DEF StoreCopy, steady
<1>2. CASE create' = Go("failed")
  <2>1. create'.pc = "failed" /\ create'.edits = create.edits
    BY <1>2, GoFacts, StageFacts
  <2> QED
    BY <1>1, <2>1, ExactElsewhere
<1>3. CASE create.at > Count /\ create' = Go("storefooter") /\ UNCHANGED file
  <2>1. create'.pc = "storefooter" /\ create'.edits = create.edits
    BY <1>3, GoFacts, StageFacts
  <2>2. ASSUME create.edits = 0 PROVE create.at = Count + 1
    <3>1. create.at <= Count + 1
      BY <1>1, <2>2 DEF Exact
    <3> QED
      BY <1>3, <3>1, RunFields, InputFacts
  <2> QED
    BY <1>1, <1>3, <2>1, <2>2 DEF Exact
<1>4. CASE /\ ~(create.at > Count) /\ Present(create.at) /\ create' = [create EXCEPT !.at = @ + 1]
           /\ file' = file \o [k \in DOMAIN disk[Inputs[create.at]] |->
                                 PayloadByte(disk[Inputs[create.at]][k])]
  <2>1. create'.pc = "copy" /\ create'.edits = create.edits /\ create'.at = create.at + 1
    BY <1>1, <1>4, NextItem
  <2> SUFFICES ASSUME create.edits = 0
               PROVE  /\ \A i \in ToSet(Inputs) : disk'[i] \in Contents
                      /\ create'.at <= Count + 1 /\ Laid(file', disk', create'.at)
                      /\ Len(file') + 1 = StartOf(disk', create'.at)
    BY <2>1 DEF Exact
  <2>2. PICK w, f, g, n : w = disk /\ f = file /\ g = file' /\ n = create.at
    OBVIOUS
  <2>3. /\ \A i \in ToSet(Inputs) : w[i] \in Contents
        /\ Laid(f, w, n) /\ Len(f) + 1 = StartOf(w, n) /\ IsSeq(f) /\ Len(f) \in Nat
    BY <1>1, <2>2, IsSeqFacts DEF Exact, Built
  <2>4. n \in 1 .. Count /\ n \in Nat /\ Count \in Nat /\ n \in 1 .. Count + 1 /\ n + 1 <= Count + 1
    <3>1. ~(n > Count)
      BY <1>4, <2>2
    <3>2. n \in Nat \ {0}
      BY <2>2, RunFields
    <3>3. Count \in Nat
      BY InputFacts
    <3> QED
      BY ONLY <3>1, <3>2, <3>3
  <2>5. PICK data, more : data = w[Inputs[n]] /\ more = [k \in DOMAIN data |-> PayloadByte(data[k])]
    OBVIOUS
  <2>6. data \in Contents /\ IsSeq(data) /\ Len(data) \in Nat /\ DOMAIN data = 1 .. Len(data)
    BY <2>3, <2>4, <2>5, InputFacts, IsSeqFacts
  <2>7. IsSeq(more) /\ Len(more) = Len(data) /\ \A k \in 1 .. Len(data) : more[k] = PayloadByte(data[k])
    <3>1. more = [k \in 1 .. Len(data) |-> more[k]]
      BY <2>5, <2>6
    <3>2. IsSeq(more) /\ Len(more) = Len(data)
      BY ONLY <2>6, <3>1, FunctionIsSeq
    <3> QED
      BY <2>5, <2>6, <3>2
  <2>8. g = f \o more
    BY <1>4, <2>2, <2>5
  <2>9. /\ Len(g) = Len(f) + Len(data) /\ (\A k \in 1 .. Len(f) : g[k] = f[k])
        /\ \A k \in 1 .. Len(data) : g[Len(f) + k] = PayloadByte(data[k])
    <3>1. /\ Len(f \o more) = Len(f) + Len(more)
          /\ \A k \in 1 .. Len(f) : (f \o more)[k] = f[k]
          /\ \A k \in 1 .. Len(more) : (f \o more)[Len(f) + k] = more[k]
      <4>1. IsSeq(f) /\ IsSeq(more)
        BY <2>3, <2>7
      <4> QED
        BY ONLY <4>1, ConcatCells
    <3> QED
      BY <2>7, <2>8, <3>1
  <2>10. Laid(g, w, n)
    <3>1. StartOf(w, n) <= Len(f) + 1
      BY <2>3
    <3> QED
      BY <2>3, <2>4, <2>9, <3>1, LaidMore
  <2>11. Laid(g, w, n + 1)
    <3> SUFFICES ASSUME NEW j \in 1 .. (n + 1) - 1, NEW b \in 1 .. Len(w[Inputs[j]])
                 PROVE  g[StartOf(w, j) + b - 1] = PayloadByte(w[Inputs[j]][b])
      BY DEF Laid
    <3>1. CASE j \in 1 .. n - 1
      BY <2>10, <3>1 DEF Laid
    <3>2. CASE j = n
      <4>1. b \in 1 .. Len(data) /\ g[Len(f) + b] = PayloadByte(data[b])
        BY <2>5, <2>9, <3>2
      <4>2. StartOf(w, n) + b - 1 = Len(f) + b
        BY <2>3, <2>6, <4>1
      <4> QED
        BY <2>5, <3>2, <4>1, <4>2
    <3> QED
      BY <2>4, <3>1, <3>2
  <2>12. Len(g) + 1 = StartOf(w, n + 1)
    <3>1. StartOf(w, n + 1) = StartOf(w, n) + Len(data)
      BY <2>3, <2>4, <2>5, StartFacts
    <3> QED
      BY <2>3, <2>6, <2>9, <3>1
  <2> QED
    BY <1>1, <2>1, <2>2, <2>3, <2>4, <2>11, <2>12
<1> QED
  BY <1>2, <1>3, <1>4 DEF StoreCopy

\* The footer closes the STORE container behind the last payload.
LEMMA ExactStoreFooter ==
  ASSUME Typed, Gathered, Built, Exact, StoreFooter
  PROVE  Exact'
<1>1. /\ create.pc = "storefooter" /\ UNCHANGED disk
      /\ file' = Append(file, Footer(2, 0, Count)) /\ create' = Go("done")
  BY DEF StoreFooter, steady
<1>2. create'.pc = "done" /\ create'.edits = create.edits
  BY <1>1, GoFacts, StageFacts
<1> SUFFICES ASSUME create.edits = 0
             PROVE  /\ \A i \in ToSet(Inputs) : disk'[i] \in Contents
                    /\ Laid(file', disk', Count + 1) /\ Len(file') = StartOf(disk', Count + 1)
  BY <1>2 DEF Exact
<1>3. PICK w, f, c : w = disk /\ f = file /\ c = Footer(2, 0, Count)
  OBVIOUS
<1>4. /\ \A i \in ToSet(Inputs) : w[i] \in Contents
      /\ Laid(f, w, Count + 1) /\ Len(f) + 1 = StartOf(w, Count + 1) /\ IsSeq(f) /\ Len(f) \in Nat
  BY <1>1, <1>3, IsSeqFacts DEF Exact, Built
<1>5. PICK g : g = Append(f, c)
  OBVIOUS
<1>6. Len(g) = Len(f) + 1 /\ \A k \in 1 .. Len(f) : g[k] = f[k]
  <2>1. IsSeq(f)
    BY <1>4
  <2>2. Len(Append(f, c)) = Len(f) + 1 /\ \A k \in 1 .. Len(f) : Append(f, c)[k] = f[k]
    BY ONLY <2>1, AppendCell
  <2> QED
    BY <1>5, <2>2
<1>7. PICK n : n = Count + 1
  OBVIOUS
<1>8. Laid(g, w, n)
  <2>1. n \in 1 .. Count + 1 /\ Laid(f, w, n) /\ StartOf(w, n) <= Len(f) + 1
    BY <1>4, <1>7, InputFacts
  <2> QED
    BY <1>4, <1>6, <2>1, LaidMore
<1>9. file' = g /\ disk' = w
  BY <1>1, <1>3, <1>5
<1> QED
  BY <1>4, <1>6, <1>7, <1>8, <1>9

\* The steps of create that lead neither into the third reading nor to its end, and one of
\* them into the second.
LEMMA FirstPasses ==
  ASSUME Typed,
         Truncate \/ WriteHeader \/ Gather \/ EmitPiece \/ WriteTable \/ WriteFooter \/ RestartAsStore \/ Crash
  PROVE  /\ UNCHANGED <<disk, damaged>> /\ create'.edits = create.edits
         /\ create'.pc \notin {"copy", "storefooter", "done"}
         /\ create'.pc = "hash" => RestartAsStore
<1>1. UNCHANGED <<disk, damaged>>
  BY DEF Truncate, WriteHeader, Gather, EmitPiece, WriteTable, WriteFooter, RestartAsStore, Crash,
         steady, readerVars
<1>2. CASE \E s \in Stages \ {"hash", "copy", "storefooter", "done"} : create' = Go(s)
  BY <1>1, <1>2, GoFacts
<1>3. CASE create.pc = "emit" /\ create' = [create EXCEPT !.at = @ + 1]
  BY <1>1, <1>3, NextItem
<1>4. CASE WriteFooter
  <2>1. PICK c, p : c = Go("decide") /\ p = SizeOf(file') /\ create' = [c EXCEPT !.packed = p]
    BY <1>4 DEF WriteFooter
  <2>2. c \in Runs(create.packed) /\ c.edits = create.edits /\ c.pc = "decide"
    BY <2>1, GoFacts, StageFacts
  <2>3. create'.edits = create.edits /\ create'.pc = "decide"
    BY <2>1, <2>2 DEF Runs
  <2> QED
    BY <1>1, <2>3
<1>5. CASE Gather
  <2>1. CASE create' = Go("emit") \/ create' = Go("failed")
    BY <1>2, <2>1, StageFacts
  <2>2. CASE /\ create.pc = "gather"
             /\ create' = [create EXCEPT !.pieces = Pool(create.at), !.at = @ + 1,
                                         !.entries = Append(@, EntryAt(create.at))]
    <3>1. create'.edits = create.edits /\ create'.pc = "gather"
      BY <2>2 DEF Typed, Runs
    <3> QED
      BY <1>1, <3>1
  <2> QED
    BY <1>5, <2>1, <2>2, GatherCases
<1>6. CASE Truncate \/ WriteHeader \/ EmitPiece \/ WriteTable \/ Crash
  <2>1. \/ create.pc = "emit" /\ create' = [create EXCEPT !.at = @ + 1]
        \/ \E s \in {"truncated", "refused", "gather", "table", "footer", "crashed"} : create' = Go(s)
    BY <1>6 DEF Truncate, WriteHeader, EmitPiece, WriteTable, Crash
  <2> QED
    BY <1>2, <1>3, <2>1, StageFacts
<1>7. CASE RestartAsStore
  <2>1. create' = Go("hash")
    BY <1>7 DEF RestartAsStore
  <2>2. create'.pc = "hash" /\ create'.edits = create.edits
    BY <2>1, GoFacts, StageFacts
  <2> QED
    BY <1>1, <1>7, <2>2
<1> QED
  BY <1>4, <1>5, <1>6, <1>7

\* A complete compressed container does not begin with a STORE header.
LEMMA ReadyIsPacked ==
  ASSUME NEW f, NEW c, Ready(f, c)
  PROVE  f[1].kind = "header"
<1>1. f[1] = Header(c.dict)
  BY DEF Ready, Packed, Tabled, Emitted
<1> QED
  BY <1>1 DEF Header

\* What follows the create run, and the edits of others.
LEMMA ExactRest ==
  ASSUME Typed, Gathered, Built, Exact,
         EditInput \/ DamagePayload \/ DamageTable \/ CutTail \/ Retrain \/ OpenAndDecode \/ WriteEntry
           \/ UNCHANGED vars
  PROVE  Exact'
<1>1. CASE EditInput
  <2>1. create' = [create EXCEPT !.edits = @ + 1]
    BY <1>1 DEF EditInput
  <2>2. create'.edits = create.edits + 1 /\ create.edits \in Nat
    BY <2>1 DEF Typed, Runs
  <2>3. create'.edits # 0
    BY <2>2
  <2> QED
    BY <2>3 DEF Exact
<1>2. CASE DamagePayload \/ DamageTable \/ CutTail
  <2>1. create.pc = "done" /\ damaged' # None /\ UNCHANGED <<disk, create>>
    BY <1>2 DEF DamagePayload, DamageTable, CutTail, Damage, None
  <2> QED
    BY <2>1 DEF Exact
<1>3. CASE Retrain \/ OpenAndDecode \/ WriteEntry \/ UNCHANGED vars
  <2>1. UNCHANGED <<disk, create, file, damaged>>
    BY <1>3 DEF Retrain, OpenAndDecode, WriteEntry, vars
  <2> QED
    BY <2>1 DEF Exact
<1> QED
  BY <1>1, <1>2, <1>3

\* Every step keeps the payloads where they belong.
LEMMA ExactNext ==
  ASSUME Typed, Gathered, Built, Exact, [Next]_vars
  PROVE  Exact'
<1>1. CASE Truncate \/ WriteHeader \/ Gather \/ EmitPiece \/ WriteTable \/ WriteFooter \/ RestartAsStore \/ Crash
  BY <1>1, FirstPasses, ExactElsewhere
<1>2. CASE KeepCompressed
  <2>1. create.pc = "decide" /\ create' = Go("done") /\ UNCHANGED <<disk, file>>
    BY <1>2 DEF KeepCompressed, steady
  <2>2. create'.pc = "done" /\ create'.edits = create.edits
    BY <2>1, GoFacts, StageFacts
  <2>3. file'[1].kind # "store"
    BY <2>1, ReadyIsPacked DEF Built
  <2> QED
    BY <2>1, <2>2, <2>3 DEF Exact
<1>3. CASE StoreHash \/ StoreCopy \/ StoreFooter
  BY <1>3, ExactHash, ExactCopy, ExactStoreFooter
<1> QED
  BY <1>1, <1>2, <1>3, ExactRest DEF Next, Create

\* A quiet STORE container opens: its lengths fill the file and its slices are what was hashed.
LEMMA QuietStored ==
  ASSUME Typed, Built, Exact, create.pc = "done", create.edits = 0, damaged = None,
         NEW f, f = file, NEW d, d = create.dict, Stored(f, d, paths, seen)
  PROVE  Tests(f, d)
<1>1. PICK w, ways : w = disk /\ ways = paths
  OBVIOUS
<1>2. IsSeq(f) /\ StoredBones(f, d, ways)
  BY <1>1, StoredHasBones DEF Built
<1>3. PICK idx, tab : idx = OpenIndex(f) /\ tab = TableOf(f) /\ StoredFound(f, d, idx, tab)
  BY <1>2, OpenStored
<1>4. /\ \A i \in ToSet(Inputs) : w[i] \in Contents
      /\ Laid(f, w, Count + 1) /\ Len(f) = StartOf(w, Count + 1)
  <2>1. f[1].kind = "store"
    BY DEF Stored, Listed, StoreHeader
  <2> QED
    BY <1>1, <2>1 DEF Exact
<1>5. \A k \in 1 .. Count : tab[k] = StoreEntry(ways[Inputs[k]], w[Inputs[k]])
  <2> TAKE k \in 1 .. Count
  <2>1. PICK c \in seen[Inputs[k]] \ {Gone} : f[2 + k] = StoreEntry(ways[Inputs[k]], c)
    BY <1>1 DEF Stored, Listed
  <2>2. seen[Inputs[k]] = {w[Inputs[k]]}
    BY <1>1, InputFacts DEF Typed
  <2>3. tab[k] = f[2 + k]
    BY <1>3 DEF StoredFound
  <2> QED
    BY <2>1, <2>2, <2>3
<1>6. \A k \in 1 .. Count + 1 : PayloadAt(tab, Count + 3, k) = StartOf(w, k)
  <2>1. PICK n, s, even : n = Count /\ s = Count + 3 /\ even = Sizes(w)
    OBVIOUS
  <2>2. SameLens(tab, even, n)
    <3>1. \A k \in 1 .. n : tab[k].len = even[k].len
      <4> TAKE k \in 1 .. n
      <4>1. tab[k] = StoreEntry(ways[Inputs[k]], w[Inputs[k]])
        BY <1>5, <2>1
      <4>2. tab[k].len = Len(w[Inputs[k]])
        BY <4>1 DEF StoreEntry
      <4>3. even[k].len = Len(w[Inputs[k]])
        BY <2>1 DEF Sizes
      <4> QED
        BY <4>2, <4>3
    <3> QED
      BY <2>1, <3>1, InputFacts DEF SameLens
  <2> TAKE k \in 1 .. Count + 1
  <2>3. k \in 1 .. n + 1
    BY <2>1
  <2>4. PayloadAt(tab, s, k) = PayloadAt(even, s, k)
    BY ONLY <2>2, <2>3, PayloadSame
  <2> QED
    BY <2>1, <2>4 DEF StartOf
<1>7. PayloadAt(tab, Count + 3, Count + 1) = Len(f)
  BY <1>4, <1>6, InputFacts
<1>8. \A k \in 1 .. Count : SliceMatches(f, PayloadAt(tab, Count + 3, k), tab[k])
  <2> TAKE k \in 1 .. Count
  <2>1. PICK x, c : x = StartOf(w, k) /\ c = w[Inputs[k]]
    OBVIOUS
  <2>2. c \in Seq(Nat) /\ tab[k].len = Len(c) /\ tab[k].hash = c
    <3>1. tab[k] = StoreEntry(ways[Inputs[k]], c)
      BY <1>5, <2>1
    <3>2. tab[k].len = Len(c) /\ tab[k].hash = c
      BY <3>1 DEF StoreEntry
    <3>3. c \in Contents
      BY <1>4, <2>1, InputFacts
    <3> QED
      BY <3>2, <3>3, InputFacts
  <2>3. \A b \in 1 .. Len(c) : f[x + b - 1].byte = c[b]
    <3>1. k \in 1 .. (Count + 1) - 1
      BY InputFacts
    <3>2. \A b \in 1 .. Len(c) : f[x + b - 1] = PayloadByte(c[b])
      BY <1>4, <2>1, <3>1 DEF Laid
    <3> TAKE b \in 1 .. Len(c)
    <3>3. PayloadByte(c[b]).byte = c[b]
      BY DEF PayloadByte
    <3> QED
      BY <3>2, <3>3
  <2>4. Slice(f, x, Len(c)) = c
    <3>1. c = [b \in 1 .. Len(c) |-> c[b]]
      BY <2>2
    <3> QED
      BY <2>3, <3>1 DEF Slice
  <2>5. PayloadAt(tab, Count + 3, k) = x
    BY <1>6, <2>1, InputFacts
  <2> QED
    BY <2>2, <2>4, <2>5 DEF SliceMatches
<1>9. idx.ok /\ idx.store = TRUE /\ idx.dict = d
  BY <1>3, <1>7, <1>8 DEF StoredFound
<1> QED
  BY <1>3, <1>9 DEF Tests, Resolves

\* A compressed container that was not damaged passes the test, whatever was edited.
LEMMA ReadyTests ==
  ASSUME Sound, Ready(file, create)
  PROVE  Tests(file, create.dict)
<1>1. PICK f, d, idx : f = file /\ d = create.dict /\ idx = OpenIndex(f)
  OBVIOUS
<1>2. /\ idx.ok /\ idx.store = FALSE /\ idx.dict = create.dict /\ AllDecode(idx, create.dict)
      /\ IsSeq(idx.files) /\ DOMAIN idx.files = 1 .. Count
      /\ \A k \in 1 .. Count : /\ EntryConsistent(idx, idx.files[k])
                               /\ Outcome(idx, k).data \in seen[Inputs[k]] \ {Gone}
  <2>1. Typed /\ Gathered /\ IsSeq(f) /\ Ready(f, create)
    BY <1>1 DEF Sound, Built
  <2> QED
    BY <1>1, <2>1, ReadyReads
<1>3. \A k \in DOMAIN idx.files : EntryConsistent(idx, idx.files[k])
  BY <1>2
<1>4. Tests(f, d)
  BY <1>1, <1>2, <1>3 DEF Tests, Resolves
<1> QED
  BY <1>1, <1>4

\* What a quiet create run has finished passes the test, in either container.
LEMMA QuietTests ==
  ASSUME Sound, Exact, create.pc = "done", create.edits = 0, damaged = None
  PROVE  Tests(file, create.dict)
<1>1. PICK f, d : f = file /\ d = create.dict
  OBVIOUS
<1>2. CASE Ready(f, create)
  BY <1>1, <1>2, ReadyTests
<1>3. CASE Stored(f, d, paths, seen)
  BY <1>1, <1>3, QuietStored DEF Sound
<1> QED
  BY <1>1, <1>2, <1>3 DEF Sound, Built

\* A finished extraction of an undamaged archive has put one reading of the last input of a
\* path under that path.
LEMMA PathIsReading ==
  ASSUME Sound, extract.pc = "done", damaged = None, Ours, NEW p \in Paths,
         NEW i \in ToSet(Inputs), paths[i] = p
  PROVE  LastNamed(p) \in ToSet(Inputs) /\ out[p] \in seen[LastNamed(p)]
<1>1. PICK f, idx, given, ways, o : f = file /\ idx = extract.idx /\ given = extract.given /\ ways = paths /\ o = out
  OBVIOUS
<1>2. /\ IsSeq(f) /\ Measured(f) /\ Opened(f, idx, given) /\ idx = OpenIndex(f) /\ idx.ok
      /\ ListsInputs(idx, ways) /\ IsSeq(idx.files) /\ Landed(o, idx, Count)
  BY <1>1, DoneFacts
<1>3. PICK k \in 1 .. Count : /\ LastNamed(p) = Inputs[k] /\ paths[Inputs[k]] = p
                              /\ \A l \in k + 1 .. Count : paths[Inputs[l]] # p
  BY LastNamedFacts
<1>4. o[p] = Outcome(idx, k).data
  BY <1>1, <1>2, <1>3, LandedLast
<1>5. Created
  BY DEF Sound, Reading
<1>6. Outcome(idx, k).data \in seen[Inputs[k]] \ {Gone}
  BY <1>1, <1>2, <1>5, OneReading DEF Sound
<1> QED
  BY <1>1, <1>3, <1>4, <1>6, InputFacts

----------------------------------------------------------------------------
(* Sizes.                                                                  *)

\* What each kind of cell weighs.
LEMMA WidthFacts ==
  /\ \A d : Width(Header(d)) = 22 /\ Width(DictRecord(d)) = 41
  /\ \A d : Width(StoreHeader(d)) = IF d = NoDict THEN 6 ELSE 42
  /\ \A n : Width(TableHead(n)) = 8
  /\ \A p, s, d : Width(DataRecord(p, s, d)) = 41 + s
  /\ \A e \in EntryCell : Width(e) = 19 + 4 * Len(e.refs)
  /\ \A p, c : Width(StoreEntry(p, c)) = 43
  /\ \A b : Width(PayloadByte(b)) = Unit
  /\ \A t, c, n : Width(Footer(t, c, n)) = 36
<1>1. \A d : Width(Header(d)) = 22 /\ Width(DictRecord(d)) = 41
  BY DEF Width, Header, DictRecord
<1>2. \A d : Width(StoreHeader(d)) = IF d = NoDict THEN 6 ELSE 42
  BY DEF Width, StoreHeader
<1>3. \A n : Width(TableHead(n)) = 8
  BY DEF Width, TableHead
<1>4. \A p, s, d : Width(DataRecord(p, s, d)) = 41 + s
  BY DEF Width, DataRecord
<1>5. \A e \in EntryCell : Width(e) = 19 + 4 * Len(e.refs)
  BY DEF Width, EntryCell
<1>6. \A p, c : Width(StoreEntry(p, c)) = 43
  BY DEF Width, StoreEntry
<1>7. \A b : Width(PayloadByte(b)) = Unit
  BY DEF Width, PayloadByte
<1>8. \A t, c, n : Width(Footer(t, c, n)) = 36
  BY DEF Width, Footer
<1> QED
  BY <1>1, <1>2, <1>3, <1>4, <1>5, <1>6, <1>7, <1>8

\* The size of a compressed container is a number.
LEMMA ReadySize ==
  ASSUME Typed, NEW f, IsSeq(f), Ready(f, create)
  PROVE  SizeOf(f) \in Nat
<1>1. PICK d, p, e, h, m, t, n :
        /\ d = create.dict /\ p = create.pieces /\ e = create.entries /\ h = HeadLen(d) /\ m = Len(p)
        /\ t = TableCell(d, p) /\ n = Len(e)
  OBVIOUS
<1>2. Packed(f, d, p, e)
  BY <1>1 DEF Ready
<1>3. /\ m \in Nat /\ n \in Nat /\ h \in {1, 2} /\ t = h + m + 1 /\ (d # NoDict => h = 2) /\ (d = NoDict => h = 1)
      /\ \A k \in 1 .. n : e[k] \in EntryCell
  <2>1. h \in {1, 2} /\ (d # NoDict => h = 2) /\ (d = NoDict => h = 1)
    BY <1>1 DEF HeadLen
  <2>2. t = h + m + 1
    BY <1>1 DEF TableCell
  <2> QED
    BY <1>1, <2>1, <2>2, RunFields
<1>4. Len(f) = t + n + 1 /\ DOMAIN f = 1 .. t + n + 1
  BY <1>1, <1>2, IsSeqFacts DEF Packed
<1>5. ASSUME NEW k \in 1 .. t + n + 1 PROVE Width(f[k]) \in Nat
  <2>1. CASE k = 1
    <3>1. f[1] = Header(d)
      BY <1>2 DEF Packed, Tabled, Emitted
    <3> QED
      BY <2>1, <3>1, WidthFacts
  <2>2. CASE k = 2 /\ h = 2
    <3>1. f[2] = DictRecord(d)
      BY <1>2, <1>3, <2>2 DEF Packed, Tabled, Emitted
    <3> QED
      BY <2>2, <3>1, WidthFacts
  <2>3. CASE k \in h + 1 .. h + m
    <3>1. k - h \in 1 .. m /\ h + (k - h) = k
      BY <1>3, <2>3
    <3>2. PICK j \in 1 .. m : h + j = k
      BY <3>1
    <3>3. Emitted(f, d, p, m)
      BY <1>1, <1>2 DEF Packed, Tabled
    <3>4. PICK s \in PackedSizes : f[h + j] = DataRecord(p[j], s, d)
      BY <1>1, <3>3 DEF Emitted
    <3>5. Width(f[k]) = 41 + s /\ s \in Nat
      BY <3>2, <3>4, WidthFacts, ArchiveAssumption
    <3> QED
      BY <3>5
  <2>4. CASE k = t
    <3>1. f[t] = TableHead(n)
      BY <1>1, <1>2 DEF Packed, Tabled
    <3> QED
      BY <2>4, <3>1, WidthFacts
  <2>5. CASE k \in t + 1 .. t + n
    <3>1. k - t \in 1 .. n /\ t + (k - t) = k
      BY <1>3, <2>5
    <3>2. PICK j \in 1 .. n : t + j = k
      BY <3>1
    <3>3. f[k] = e[j] /\ e[j] \in EntryCell
      BY <1>1, <1>2, <1>3, <3>2 DEF Packed, Tabled
    <3>4. e[j].refs \in Seq(Nat)
      BY <3>3 DEF EntryCell
    <3>5. PICK x, l : x = e[j] /\ l = Len(x.refs)
      OBVIOUS
    <3>6. x \in EntryCell /\ f[k] = x /\ l \in Nat
      BY <3>3, <3>4, <3>5
    <3>7. Width(x) = 19 + 4 * l
      BY <3>5, <3>6, WidthFacts
    <3> QED
      BY <3>6, <3>7
  <2>6. CASE k = t + n + 1
    <3>1. f[t + n + 1] = Footer(t, m, n)
      BY <1>1, <1>2, <1>4 DEF Packed
    <3> QED
      BY <2>6, <3>1, WidthFacts
  <2> QED
    BY <1>3, <2>1, <2>2, <2>3, <2>4, <2>5, <2>6
<1>6. PICK s : s = [i \in DOMAIN f |-> Width(f[i])]
  OBVIOUS
<1>7. Len(s) = t + n + 1 /\ \A k \in 1 .. t + n + 1 : s[k] \in Nat
  BY <1>3, <1>4, <1>5, <1>6
<1>8. SumOf(s) \in Nat
  <2>1. Len(s) \in Nat /\ \A k \in 1 .. Len(s) : s[k] \in Nat
    BY <1>3, <1>7
  <2> QED
    BY <2>1, SumNumber
<1> QED
  BY <1>6, <1>8 DEF SizeOf

\* Multiplying by the weight of a byte, one byte at a time.
LEMMA ByteWeight ==
  \E mul : /\ mul[0] = 0 /\ \A x \in Nat : mul[x] = Unit * x /\ mul[x] \in Nat /\ mul[x + 1] = mul[x] + Unit
<1>1. PICK u \in Nat : u = Unit
  BY ArchiveAssumption
<1>2. u * 0 = 0 /\ \A x \in Nat : u * x \in Nat /\ u * (x + 1) = u * x + u
  OBVIOUS
<1>3. PICK mul : mul = [x \in Nat |-> u * x]
  OBVIOUS
<1>4. mul[0] = 0 /\ \A x \in Nat : mul[x] = u * x /\ mul[x] \in Nat /\ mul[x + 1] = mul[x] + u
  BY <1>2, <1>3
<1> QED
  BY <1>1, <1>4

\* The size of a STORE container with n entries and L cells.
LEMMA StoreSize ==
  ASSUME NEW f, IsSeq(f), NEW n \in Nat, NEW L \in Nat, Len(f) = L, L >= n + 3, NEW d,
         f[1] = StoreHeader(d), Width(f[2]) = 8, \A k \in 1 .. n : Width(f[2 + k]) = 43,
         \A k \in n + 3 .. L - 1 : Width(f[k]) = Unit, Width(f[L]) = 36
  PROVE  SizeOf(f) = (IF d = NoDict THEN 6 ELSE 42) + 8 + 43 * n + Unit * (L - n - 3) + 36
<1>1. PICK H \in Nat : H = IF d = NoDict THEN 6 ELSE 42
  OBVIOUS
<1>2. PICK mul : mul[0] = 0 /\ \A x \in Nat : mul[x] = Unit * x /\ mul[x] \in Nat /\ mul[x + 1] = mul[x] + Unit
  BY ByteWeight
<1>3. PICK s : s = [i \in DOMAIN f |-> Width(f[i])]
  OBVIOUS
<1>4. /\ Len(s) = L /\ s[1] = H /\ s[2] = 8 /\ s[L] = 36
      /\ (\A k \in 3 .. n + 2 : s[k] = 43) /\ \A k \in n + 3 .. L - 1 : s[k] = Unit
  <2>1. Len(s) = L /\ \A k \in 1 .. L : s[k] = Width(f[k])
    BY <1>3, IsSeqFacts
  <2>2. Width(f[1]) = H
    BY <1>1, WidthFacts
  <2>3. \A k \in 3 .. n + 2 : s[k] = 43
    <3> TAKE k \in 3 .. n + 2
    <3>1. k - 2 \in 1 .. n /\ 2 + (k - 2) = k /\ k \in 1 .. L
      OBVIOUS
    <3>2. PICK j \in 1 .. n : 2 + j = k
      BY <3>1
    <3> QED
      BY <2>1, <3>1, <3>2
  <2>4. 1 \in 1 .. L /\ 2 \in 1 .. L /\ L \in 1 .. L /\ \A k \in n + 3 .. L - 1 : k \in 1 .. L
    OBVIOUS
  <2> QED
    BY <2>1, <2>2, <2>3, <2>4
<1>5. PICK B \in Nat : B = H + 8 + 43 * n
  OBVIOUS
<1>6. PICK g : g = [k \in 0 .. L |->
                      IF k = 0 THEN 0 ELSE IF k = 1 THEN H ELSE IF k <= n + 2 THEN H + 8 + 43 * (k - 2)
                      ELSE IF k < L THEN B + mul[k - n - 2] ELSE B + mul[L - n - 3] + 36]
  OBVIOUS
<1>7. /\ g[0] = 0 /\ g[1] = H
      /\ (\A k \in 2 .. n + 2 : g[k] = H + 8 + 43 * (k - 2))
      /\ (\A k \in n + 2 .. L - 1 : g[k] = B + mul[k - n - 2])
      /\ g[L] = B + mul[L - n - 3] + 36
  <2>1. g[0] = 0 /\ g[1] = H /\ \A k \in 2 .. n + 2 : g[k] = H + 8 + 43 * (k - 2)
    BY <1>6
  <2>2. g[L] = B + mul[L - n - 3] + 36
    BY <1>6
  <2>3. \A k \in n + 2 .. L - 1 : g[k] = B + mul[k - n - 2]
    <3> TAKE k \in n + 2 .. L - 1
    <3>1. CASE k = n + 2
      <4>1. g[n + 2] = H + 8 + 43 * n
        BY <2>1
      <4>2. mul[k - n - 2] = 0
        BY <1>2, <3>1
      <4> QED
        BY <1>5, <3>1, <4>1, <4>2
    <3>2. CASE k # n + 2
      BY <1>6, <3>2
    <3> QED
      BY <3>1, <3>2
  <2> QED
    BY <2>1, <2>2, <2>3
<1>10. ASSUME NEW k \in 1 .. L PROVE g[k] = g[k - 1] + s[k]
  <2>1. CASE k = 1
    BY <1>4, <1>7, <2>1
  <2>2. CASE k = 2
    BY <1>4, <1>7, <2>2
  <2>3. CASE k \in 3 .. n + 2
    <3>1. g[k] = H + 8 + 43 * (k - 2) /\ g[k - 1] = H + 8 + 43 * ((k - 1) - 2) /\ s[k] = 43
      BY <1>4, <1>7, <2>3
    <3> QED
      BY <2>3, <3>1
  <2>4. CASE k \in n + 3 .. L - 1
    <3>1. PICK x \in Nat : x = k - n - 3
      BY <2>4
    <3>2. k - n - 2 = x + 1 /\ (k - 1) - n - 2 = x /\ k \in n + 2 .. L - 1 /\ k - 1 \in n + 2 .. L - 1
      BY <2>4, <3>1
    <3>3. PICK y, z : y = mul[x + 1] /\ z = mul[x]
      OBVIOUS
    <3>4. g[k] = B + y /\ g[k - 1] = B + z
      BY <1>7, <3>2, <3>3
    <3>5. s[k] = Unit /\ y = z + Unit /\ z \in Nat /\ Unit \in Nat
      BY <1>2, <1>4, <2>4, <3>3, ArchiveAssumption
    <3> QED
      BY <3>4, <3>5
  <2>5. CASE k = L
    <3>1. PICK x \in Nat : x = L - n - 3
      OBVIOUS
    <3>2. (L - 1) - n - 2 = x /\ L - 1 \in n + 2 .. L - 1
      BY <3>1
    <3>3. PICK z \in Nat : z = mul[x]
      BY <1>2
    <3>4. g[L] = B + z + 36 /\ g[L - 1] = B + z
      BY <1>7, <3>1, <3>2, <3>3
    <3> QED
      BY <1>4, <2>5, <3>4
  <2> QED
    BY <2>1, <2>2, <2>3, <2>4, <2>5
<1>11. g[L] = H + 8 + 43 * n + Unit * (L - n - 3) + 36
  <2>1. PICK x \in Nat : x = L - n - 3
    OBVIOUS
  <2>2. mul[x] = Unit * x
    BY <1>2
  <2> QED
    BY <1>5, <1>7, <2>1, <2>2
<1>8. Adds(g, s)
  BY <1>4, <1>7, <1>10 DEF Adds
<1>9. SumOf(s) = g[L]
  BY <1>4, <1>8, SumUnique
<1> QED
  BY <1>1, <1>3, <1>11, <1>9 DEF SizeOf

\* What create expects a STORE container of its entries to weigh.
Estimate(c) == StoreEstimate(c.dict, [i \in DOMAIN c.entries |-> c.entries[i].len])

\* The container taken is the one that looked smaller.
Decided ==
  /\ create.pc \in {"hash", "copy", "storefooter"} => create.packed \in Nat /\ Estimate(create) < create.packed
  /\ create.pc = "done" /\ damaged = None =>
       IF file[1].kind = "store" THEN create.packed \in Nat /\ Estimate(create) < create.packed
       ELSE SizeOf(file) <= Estimate(create)

\* The estimate depends on the dictionary and the entries.
LEMMA EstimateSame ==
  ASSUME NEW a, NEW b, a.dict = b.dict, a.entries = b.entries
  PROVE  Estimate(a) = Estimate(b)
BY DEF Estimate

\* It is a number.
LEMMA EstimateNumber ==
  ASSUME Typed
  PROVE  Estimate(create) \in Nat
<1>1. PICK e, lens, d : e = create.entries /\ lens = [i \in DOMAIN e |-> e[i].len] /\ d = create.dict
  OBVIOUS
<1>2. Len(lens) = Len(e) /\ Len(e) \in Nat /\ \A k \in 1 .. Len(lens) : lens[k] \in Nat
  <2>1. DOMAIN e = 1 .. Len(e) /\ Len(e) \in Nat /\ \A k \in 1 .. Len(e) : e[k] \in EntryCell
    BY <1>1, RunFields, IsSeqFacts
  <2> QED
    BY <1>1, <2>1 DEF EntryCell
<1>3. PICK total : total = SumOf(lens)
  OBVIOUS
<1>4. total \in Nat
  BY <1>2, <1>3, SumNumber
<1>5. PICK weight : weight = Unit * total
  OBVIOUS
<1>6. weight \in Nat
  BY <1>4, <1>5, ByteWeight
<1>7. Estimate(create) = (IF d = NoDict THEN 6 ELSE 42) + 8 + weight + 36 + 11 * Len(lens)
  BY <1>1, <1>3, <1>5 DEF Estimate, StoreEstimate
<1> QED
  BY <1>2, <1>6, <1>7

\* Nothing is chosen at the start.
LEMMA DecidedInit ==
  ASSUME Init
  PROVE  Decided
<1>1. create.pc = "idle"
  BY DEF Init
<1> QED
  BY <1>1 DEF Decided

\* The steps of create.
LEMMA DecidedCreate ==
  ASSUME Typed, Gathered, Built, Decided, Create \/ Crash
  PROVE  Decided'
<1>1. CASE create'.pc \notin {"hash", "copy", "storefooter", "done"}
  BY <1>1 DEF Decided
<1>2. CASE RestartAsStore
  <2>1. create.pc = "decide" /\ StoreLooksSmaller /\ create' = Go("hash")
    BY <1>2 DEF RestartAsStore
  <2>2. /\ create'.pc = "hash" /\ create'.dict = create.dict /\ create'.entries = create.entries
        /\ create'.packed = create.packed
    BY <2>1, GoFacts, StageFacts
  <2>3. Estimate(create') = Estimate(create)
    BY <2>2, EstimateSame
  <2>4. create.packed \in Nat
    BY <2>1, ReadySize DEF Built
  <2>5. Estimate(create) < create.packed
    BY <2>1 DEF StoreLooksSmaller, Estimate
  <2> QED
    BY <2>2, <2>3, <2>4, <2>5 DEF Decided
<1>3. CASE KeepCompressed
  <2>1. create.pc = "decide" /\ ~StoreLooksSmaller /\ create' = Go("done") /\ UNCHANGED file
    BY <1>3 DEF KeepCompressed
  <2>2. /\ create'.pc = "done" /\ create'.dict = create.dict /\ create'.entries = create.entries
    BY <2>1, GoFacts, StageFacts
  <2>3. Estimate(create') = Estimate(create)
    BY <2>2, EstimateSame
  <2>4. create.packed = SizeOf(file) /\ SizeOf(file) \in Nat /\ file[1].kind = "header"
    BY <2>1, ReadySize, ReadyIsPacked DEF Built
  <2>5. ~(Estimate(create) < create.packed)
    BY <2>1 DEF StoreLooksSmaller, Estimate
  <2>6. SizeOf(file) <= Estimate(create)
    BY <2>4, <2>5, EstimateNumber
  <2> QED
    BY <2>1, <2>2, <2>3, <2>4, <2>6 DEF Decided
<1>4. CASE StoreHash \/ StoreCopy
  <2>1. create.pc \in {"hash", "copy"}
    BY <1>4 DEF StoreHash, StoreCopy
  <2>2. create' = [create EXCEPT !.at = @ + 1] \/ \E s \in {"copy", "storefooter", "failed"} : create' = Go(s)
    BY <1>4 DEF StoreHash, StoreCopy
  <2>3. /\ create'.pc \in {"hash", "copy", "storefooter", "failed"}
        /\ create'.dict = create.dict /\ create'.entries = create.entries /\ create'.packed = create.packed
    <3>1. CASE create' = [create EXCEPT !.at = @ + 1]
      BY <2>1, <3>1, NextItem
    <3>2. CASE \E s \in {"copy", "storefooter", "failed"} : create' = Go(s)
      BY <3>2, GoFacts, StageFacts
    <3> QED
      BY <2>2, <3>1, <3>2
  <2>4. Estimate(create') = Estimate(create)
    BY <2>3, EstimateSame
  <2> QED
    BY <2>1, <2>3, <2>4 DEF Decided
<1>5. CASE StoreFooter
  <2>1. create.pc = "storefooter" /\ file' = Append(file, Footer(2, 0, Count)) /\ create' = Go("done")
    BY <1>5 DEF StoreFooter
  <2>2. /\ create'.pc = "done"
        /\ create'.dict = create.dict /\ create'.entries = create.entries /\ create'.packed = create.packed
    BY <2>1, GoFacts, StageFacts
  <2>3. Estimate(create') = Estimate(create)
    BY <2>2, EstimateSame
  <2>4. file'[1].kind = "store"
    <3>1. PICK f, c : f = file /\ c = Footer(2, 0, Count)
      OBVIOUS
    <3>2. IsSeq(f) /\ Len(f) \in Nat /\ Len(f) >= Count + 2 /\ f[1].kind = "store"
      BY <2>1, <3>1, IsSeqFacts DEF Built, Listed, StoreHeader
    <3>3. 1 \in 1 .. Len(f)
      BY <3>2, InputFacts
    <3>4. \A k \in 1 .. Len(f) : Append(f, c)[k] = f[k]
      BY <3>2, AppendCell
    <3>5. file' = Append(f, c)
      BY <2>1, <3>1
    <3> QED
      BY <3>2, <3>3, <3>4, <3>5
  <2> QED
    BY <2>1, <2>2, <2>3, <2>4 DEF Decided
<1>6. CASE Truncate \/ WriteHeader \/ Gather \/ EmitPiece \/ WriteTable \/ WriteFooter \/ Crash
  <2>1. create'.pc \notin {"copy", "storefooter", "done"} /\ (create'.pc = "hash" => RestartAsStore)
    BY <1>6, FirstPasses
  <2> QED
    BY <1>1, <1>2, <2>1
<1> QED
  BY <1>2, <1>3, <1>4, <1>5, <1>6 DEF Create

\* Every step keeps the choice.
LEMMA DecidedNext ==
  ASSUME Typed, Gathered, Built, Decided, [Next]_vars
  PROVE  Decided'
<1>1. CASE Create \/ Crash
  BY <1>1, DecidedCreate
<1>2. CASE EditInput
  <2>1. create' = [create EXCEPT !.edits = @ + 1] /\ create.pc # "done"
    BY <1>2 DEF EditInput, Writing
  <2>2. /\ create'.pc = create.pc /\ create'.dict = create.dict /\ create'.entries = create.entries
        /\ create'.packed = create.packed
    BY <2>1 DEF Typed, Runs
  <2>3. Estimate(create') = Estimate(create)
    BY <2>2, EstimateSame
  <2> QED
    BY <2>1, <2>2, <2>3 DEF Decided
<1>3. CASE DamagePayload \/ DamageTable \/ CutTail
  <2>1. create.pc = "done" /\ damaged' # None /\ UNCHANGED create
    BY <1>3 DEF DamagePayload, DamageTable, CutTail, Damage, None
  <2> QED
    BY <2>1 DEF Decided
<1>4. CASE Retrain \/ OpenAndDecode \/ WriteEntry \/ UNCHANGED vars
  <2>1. UNCHANGED <<create, file, damaged>>
    BY <1>4 DEF Retrain, OpenAndDecode, WriteEntry, vars
  <2> QED
    BY <2>1 DEF Decided, Estimate
<1> QED
  BY <1>1, <1>2, <1>3, <1>4 DEF Next

\* A quiet STORE container weighs what was expected of it, and a hash for every entry.
LEMMA QuietSize ==
  ASSUME Typed, Gathered, Built, Exact, create.pc = "done", create.edits = 0, damaged = None,
         NEW f, f = file, Stored(f, create.dict, paths, seen)
  PROVE  SizeOf(f) = Estimate(create) + 32 * Count
<1>1. PICK w, ways, d, e, n, L :
        w = disk /\ ways = paths /\ d = create.dict /\ e = create.entries /\ n = Count /\ L = Len(f)
  OBVIOUS
<1>2. /\ n \in Nat /\ L \in Nat /\ IsSeq(f) /\ L >= n + 3
      /\ f[1] = StoreHeader(d) /\ f[2] = TableHead(n) /\ f[L] = Footer(2, 0, n)
  BY <1>1, IsSeqFacts, InputFacts DEF Built, Stored, Listed
<1>3. (\A i \in ToSet(Inputs) : w[i] \in Contents) /\ L = StartOf(w, n + 1)
  <2>1. f[1].kind = "store"
    BY <1>2 DEF StoreHeader
  <2> QED
    BY <1>1, <2>1 DEF Exact
<1>4. \A k \in 1 .. n : Width(f[2 + k]) = 43
  <2> TAKE k \in 1 .. n
  <2>1. PICK c : f[2 + k] = StoreEntry(ways[Inputs[k]], c)
    BY <1>1 DEF Stored, Listed
  <2> QED
    BY <2>1, WidthFacts
<1>5. \A k \in n + 3 .. L - 1 : Width(f[k]) = Unit
  <2> TAKE k \in n + 3 .. L - 1
  <2>1. PICK b : f[k] = PayloadByte(b)
    BY <1>1 DEF Stored, Bytes
  <2> QED
    BY <2>1, WidthFacts
<1>6. Width(f[2]) = 8 /\ Width(f[L]) = 36
  BY <1>2, WidthFacts
<1>7. SizeOf(f) = (IF d = NoDict THEN 6 ELSE 42) + 8 + 43 * n + Unit * (L - n - 3) + 36
  <2>1. /\ IsSeq(f) /\ n \in Nat /\ L \in Nat /\ Len(f) = L /\ L >= n + 3
        /\ f[1] = StoreHeader(d) /\ Width(f[2]) = 8 /\ Width(f[L]) = 36
        /\ (\A k \in 1 .. n : Width(f[2 + k]) = 43) /\ \A k \in n + 3 .. L - 1 : Width(f[k]) = Unit
    BY <1>1, <1>2, <1>4, <1>5, <1>6
  <2> QED
    BY ONLY <2>1, StoreSize
<1>8. PICK lens : lens = [i \in DOMAIN e |-> e[i].len]
  OBVIOUS
<1>9. Len(lens) = n /\ DOMAIN lens = 1 .. n /\ \A k \in 1 .. n : lens[k] = Len(w[Inputs[k]])
  <2>1. Len(e) = n /\ DOMAIN e = 1 .. n
    BY <1>1, RunFields, IsSeqFacts DEF Gathered, Listing
  <2>2. \A k \in 1 .. n : e[k].len = Len(w[Inputs[k]])
    <3> TAKE k \in 1 .. n
    <3>1. Spelled(k)
      BY <1>1, <2>1 DEF Gathered
    <3>2. PICK c \in seen[Inputs[k]] \ {Gone} : e[k].len = Len(c)
      BY <1>1, <3>1 DEF Spelled, Spells
    <3>3. seen[Inputs[k]] = {w[Inputs[k]]}
      BY <1>1, InputFacts DEF Typed
    <3> QED
      BY <3>2, <3>3
  <2> QED
    BY <1>2, <1>8, <2>1, <2>2
<1>10. SumOf(lens) = L - n - 3
  <2>1. PICK more, total : more = [k \in 1 .. n |-> Sizes(w)[k].len] /\ total = SumOf(lens)
    OBVIOUS
  <2>2. Len(more) = n /\ \A k \in 1 .. n : more[k] = lens[k]
    BY <1>1, <1>2, <1>9, <2>1 DEF Sizes
  <2>3. SumOf(more) = total
    BY <1>2, <1>9, <2>1, <2>2, SumSame
  <2>4. StartOf(w, n + 1) = n + 3 + SumOf(more)
    <3>1. (n + 1) - 1 = n
      BY <1>2
    <3> QED
      BY <1>1, <2>1, <3>1 DEF StartOf, PayloadAt
  <2>5. total \in Nat
    <3>1. \A k \in 1 .. Len(lens) : lens[k] \in Nat
      <4> TAKE k \in 1 .. Len(lens)
      <4>1. k \in 1 .. Count /\ lens[k] = Len(w[Inputs[k]])
        BY <1>1, <1>9
      <4>2. w[Inputs[k]] \in Contents
        BY <1>3, <4>1, InputFacts
      <4> QED
        BY <4>1, <4>2, InputFacts
    <3>2. Len(lens) \in Nat
      BY <1>2, <1>9
    <3> QED
      BY <2>1, <3>1, <3>2, SumNumber
  <2> QED
    BY <1>2, <1>3, <2>1, <2>3, <2>4, <2>5
<1>11. PICK x \in Nat : x = L - n - 3
  BY <1>2
<1>12. PICK u \in Nat : u = Unit * x
  BY ByteWeight
<1>13. Estimate(create) = (IF d = NoDict THEN 6 ELSE 42) + 8 + u + 36 + 11 * n
  BY <1>1, <1>8, <1>9, <1>10, <1>11, <1>12 DEF Estimate, StoreEstimate
<1>14. SizeOf(f) = (IF d = NoDict THEN 6 ELSE 42) + 8 + 43 * n + u + 36
  BY <1>7, <1>11, <1>12
<1> QED
  BY <1>1, <1>2, <1>13, <1>14

----------------------------------------------------------------------------
(* The theorems.                                                           *)

\* The inductive invariant: the types, what create gathered and what it built of it, the lengths
\* of the cells, where the file came from and how far the extraction has landed (main.rs
\* 550-766, 1048-1120, 1166-1490 and 1751-1839).
THEOREM AlwaysSound == Spec => []Sound
<1>1. Init => Sound
  BY TypedInit, GatheredInit, BuiltInit, MeasuredInit, OriginInit, ReadingInit DEF Sound
<1>2. Sound /\ [Next]_vars => Sound'
  <2> SUFFICES ASSUME Sound, [Next]_vars
               PROVE  Typed' /\ Gathered' /\ Built' /\ Measured(file') /\ Origin' /\ Reading'
    BY DEF Sound, Measured
  <2> QED
    BY TypedNext, GatheredNext, BuiltNext, MeasuredNext, OriginNext, ReadingNext DEF Sound
<1> QED
  BY <1>1, <1>2, PTL DEF Spec

\* Whatever was edited, removed or cut short by a crash while create ran, in either of its
\* two passes over the file: an archive that opens lists every input, under its path and in
\* order (main.rs 565-719).
THEOREM OpenedIsWhole == Spec => []OpenMeansWhole
<1>1. Sound => OpenMeansWhole
  <2> SUFFICES ASSUME Sound, Ours, NEW idx, idx = OpenIndex(file), idx.ok
               PROVE  ListsInputs(idx, paths)
    BY DEF OpenMeansWhole, ListsInputs
  <2> QED
    BY OursOpens DEF Sound
<1> QED
  BY <1>1, AlwaysSound, PTL

\* A payload, a hash or the header damaged in an archive that opened, or a dictionary other
\* than the writer's: the test says no and not one output file is created (DESIGN.md:111,
\* main.rs:583-585).
THEOREM VerifiedBeforeWritten == Spec => []NothingUnverified
<1>1. Sound => NothingUnverified
  <2> SUFFICES ASSUME Sound, Ours, damaged = "payload" \/ extract.given # create.dict
               PROVE  Untouched /\ ~Tests(file, extract.given)
    BY DEF NothingUnverified
  <2>1. PICK given : given = extract.given
    OBVIOUS
  <2>2. ~Opened(file, OpenIndex(file), given)
    BY <2>1, HarmShows DEF Sound
  <2> QED
    BY <2>1, <2>2, UnopenedShows DEF Sound
<1> QED
  BY <1>1, AlwaysSound, PTL

\* An extraction that stops in the middle leaves the entries before the failing one
\* complete and those behind it untouched (main.rs:1809).
THEOREM FailedLeavesPrefix == Spec => []FailureLeavesPrefix
<1>1. Sound => FailureLeavesPrefix
  <2> SUFFICES ASSUME Sound, extract.pc \in {"write", "failed"}, extract.idx.ok,
                      NEW p \in Paths, NEW named,
                      named = {k \in DOMAIN extract.idx.files : extract.idx.files[k].path = p}
               PROVE  Prefix(extract.idx, extract.at, out, p, named)
    BY DEF FailureLeavesPrefix, Prefix
  <2>1. PICK f, idx, given, at, o :
          f = file /\ idx = extract.idx /\ given = extract.given /\ at = extract.at /\ o = out
    OBVIOUS
  <2>2. idx # Rejected
    BY <2>1 DEF Rejected
  <2>3. /\ Opened(f, idx, given) /\ Upto(idx, at)
        /\ Landed(o, idx, at - 1) \/ (Landed(o, idx, at) /\ at <= Len(idx.files))
    BY <2>1, <2>2 DEF Sound, Reading
  <2>4. IsSeq(f) /\ Measured(f)
    BY <2>1 DEF Sound, Built
  <2>5. named = {k \in DOMAIN idx.files : idx.files[k].path = p}
    BY <2>1
  <2>6. Prefix(idx, at, o, p, named)
    BY <2>3, <2>4, <2>5, LandedPrefix
  <2> QED
    BY <2>1, <2>6
<1> QED
  BY <1>1, AlwaysSound, PTL

\* A finished extraction has written no two entries that clash.
LEMMA DoneApart ==
  ASSUME Sound, Ours, extract.pc = "done"
  PROVE  ~NamesClash
<1>1. PICK f, idx, given, ways : f = file /\ idx = extract.idx /\ given = extract.given /\ ways = paths
  OBVIOUS
<1>2. ListsInputs(idx, ways) /\ \A k \in 1 .. Count : Passed(idx, k)
  BY <1>1, DoneFacts
<1>3. ASSUME NEW j \in 1 .. Count, NEW k \in 1 .. Count, j < k
      PROVE  ~Clash(ways[Inputs[j]], ways[Inputs[k]])
  <2>1. Apart(idx, k) /\ j \in 1 .. k - 1
    BY <1>2, <1>3, InputFacts DEF Passed
  <2>2. idx.files[j].path = ways[Inputs[j]] /\ idx.files[k].path = ways[Inputs[k]]
    BY <1>2 DEF ListsInputs
  <2> QED
    BY <2>1, <2>2 DEF Apart
<1>4. \A p \in Paths : ~Clash(p, p)
  BY ArchiveAssumption DEF Clash
<1>5. ASSUME NEW a \in ToSet(Inputs), NEW b \in ToSet(Inputs) PROVE ~Clash(ways[a], ways[b])
  <2>1. PICK j \in 1 .. Count, k \in 1 .. Count : a = Inputs[j] /\ b = Inputs[k]
    BY InputFacts DEF ToSet
  <2>2. ways[a] \in Paths
    BY <1>1, ArchiveAssumption DEF Sound, Typed
  <2>3. j \in Nat /\ k \in Nat
    BY InputFacts
  <2>4. CASE j < k
    BY <1>3, <2>1, <2>4
  <2>5. CASE k < j
    BY <1>3, <2>1, <2>5 DEF Clash
  <2>6. CASE j = k
    BY <1>4, <2>1, <2>2, <2>6
  <2> QED
    BY <2>3, <2>4, <2>5, <2>6
<1> QED
  BY <1>1, <1>5 DEF NamesClash

\* Whichever length or reference of the tables is wrong, what the test accepts extraction can
\* finish, with the length every entry promises, unless entries clash; then it never does
\* (main.rs:1663, 1755-1763, 1820).
THEOREM TestedIsExtractable == Spec => []TestedMeansExtractable
<1>1. Sound => TestedMeansExtractable
  <2> SUFFICES ASSUME Sound, SafePaths, Ours, Tests(file, extract.given)
               PROVE  TestedMeansExtractable
    BY DEF TestedMeansExtractable
  <2>1. /\ extract.pc = "failed" =>
             \E k \in 1 .. (extract.at - 1) :
               Clash(extract.idx.files[k].path, extract.idx.files[extract.at].path)
        /\ extract.pc = "done" => ~NamesClash
    BY TestedFinishes, DoneApart
  <2>2. ASSUME extract.pc = "done", NEW k \in DOMAIN extract.idx.files, NEW p,
               p = extract.idx.files[k].path, p \in Paths, paths[Inputs[k]] = p, LastNamed(p) = Inputs[k]
        PROVE  Len(out[p]) = extract.idx.files[k].len
    <3>1. PICK f, idx, given, ways : f = file /\ idx = extract.idx /\ given = extract.given /\ ways = paths
      OBVIOUS
    <3>2. /\ IsSeq(f) /\ Measured(f) /\ Opened(f, idx, given) /\ ListsInputs(idx, ways)
          /\ IsSeq(idx.files) /\ DOMAIN idx.files = 1 .. Count /\ Len(idx.files) = Count
          /\ Landed(out, idx, Count) /\ \A j \in 1 .. Count : Passed(idx, j)
      BY <2>2, <3>1, DoneFacts
    <3>3. k \in 1 .. Count /\ Inputs[k] \in ToSet(Inputs)
      BY <2>2, <3>1, <3>2, InputFacts
    <3>4. \A l \in k + 1 .. Count : ways[Inputs[l]] # p
      <4>1. PICK j \in 1 .. Count : /\ LastNamed(p) = Inputs[j] /\ paths[Inputs[j]] = p
                                    /\ \A l \in j + 1 .. Count : paths[Inputs[l]] # p
        BY <2>2, <3>3, LastNamedFacts
      <4>2. j = k
        BY <2>2, <3>3, <4>1, InputFacts
      <4> QED
        BY <3>1, <4>1, <4>2
    <3>5. PICK o : o = out
      OBVIOUS
    <3>6. o[p] = Outcome(idx, k).data
      BY <2>2, <3>1, <3>2, <3>3, <3>4, <3>5, LandedLast
    <3>7. Len(Outcome(idx, k).data) = idx.files[k].len
      BY <3>2, <3>3, PassedLength
    <3> QED
      BY <3>1, <3>5, <3>6, <3>7
  <2> QED
    BY <2>1, <2>2 DEF TestedMeansExtractable
<1> QED
  BY <1>1, AlwaysSound, PTL

\* An undamaged archive gives, for every path, what the last input of that path held at one
\* moment of the create run, though the STORE container reads each input three times
\* (main.rs 1048-1120, 1751-1839).
THEOREM ExtractedIsAReading == Spec => []ExtractedIsOneReading
<1>1. Sound => ExtractedIsOneReading
  BY PathIsReading DEF ExtractedIsOneReading
<1> QED
  BY <1>1, AlwaysSound, PTL

\* Beside that invariant, the payloads of an untouched input lie where its entry says.
THEOREM AlwaysExact == Spec => [](Sound /\ Exact)
<1>1. Init => Sound /\ Exact
  BY TypedInit, GatheredInit, BuiltInit, MeasuredInit, OriginInit, ReadingInit, ExactInit DEF Sound
<1>2. Sound /\ Exact /\ [Next]_vars => (Sound /\ Exact)'
  <2> SUFFICES ASSUME Sound, Exact, [Next]_vars PROVE Sound' /\ Exact'
    OBVIOUS
  <2>1. Typed' /\ Gathered' /\ Built' /\ Measured(file') /\ Origin' /\ Reading'
    BY TypedNext, GatheredNext, BuiltNext, MeasuredNext, OriginNext, ReadingNext DEF Sound
  <2> QED
    BY <2>1, ExactNext DEF Sound, Measured
<1> QED
  BY <1>1, <1>2, PTL DEF Spec

\* If nobody touched the inputs, the finished archive passes the test, extracts to the end
\* unless the names create recorded clash, and gives back, under every path, the content the last input of that path has, whichever
\* container create chose (main.rs 550-766, 1048-1120 and 1751-1839).
THEOREM QuietComesBack == Spec => []QuietCreateComesBack
<1>1. Sound /\ Exact => QuietCreateComesBack
  <2> SUFFICES ASSUME Sound, Exact, create.pc = "done", create.edits = 0, damaged = None,
                      extract.given = create.dict, SafePaths
               PROVE  /\ Tests(file, create.dict) /\ (extract.pc = "failed" => NamesClash)
                      /\ extract.pc = "done" =>
                           \A p \in Paths : (\E i \in ToSet(Inputs) : paths[i] = p) => out[p] = disk[LastNamed(p)]
    BY DEF QuietCreateComesBack
  <2>1. Tests(file, create.dict)
    BY QuietTests
  <2>2. Ours
    BY DEF Ours
  <2>3. extract.pc = "failed" => NamesClash
    <3>1. Tests(file, extract.given)
      BY <2>1
    <3> QED
      BY <2>2, <3>1, TestedFinishes
  <2>4. ASSUME extract.pc = "done", NEW p \in Paths, NEW i \in ToSet(Inputs), paths[i] = p
        PROVE  out[p] = disk[LastNamed(p)]
    <3>1. LastNamed(p) \in ToSet(Inputs) /\ out[p] \in seen[LastNamed(p)]
      BY <2>2, <2>4, PathIsReading
    <3>2. seen[LastNamed(p)] = {disk[LastNamed(p)]}
      BY <3>1 DEF Sound, Typed
    <3> QED
      BY <3>1, <3>2
  <2> QED
    BY <2>1, <2>3, <2>4
<1> QED
  BY <1>1, AlwaysExact, PTL

\* A compressed archive that create finished passes its test, whatever was edited or removed
\* while its inputs were read (main.rs 596-628, 1640-1675).
THEOREM PackedAlwaysTests == Spec => []EditsSparePacked
<1>1. Sound => EditsSparePacked
  <2> SUFFICES ASSUME Sound, create.pc = "done", damaged = None, file[1].kind = "header"
               PROVE  Tests(file, create.dict)
    BY DEF EditsSparePacked
  <2>1. Ready(file, create) \/ Stored(file, create.dict, paths, seen)
    BY DEF Sound, Built
  <2>2. ~Stored(file, create.dict, paths, seen)
    BY DEF Stored, Listed, StoreHeader
  <2> QED
    BY <2>1, <2>2, ReadyTests
<1> QED
  BY <1>1, AlwaysSound, PTL

\* And the container taken is the one that looked smaller.
THEOREM AlwaysDecided == Spec => [](Sound /\ Exact /\ Decided)
<1>1. Init => Decided
  BY DecidedInit
<1>2. Sound /\ Exact /\ Decided /\ [Next]_vars => Decided'
  BY DecidedNext DEF Sound
<1> QED
  BY <1>1, <1>2, AlwaysExact, PTL DEF Spec

\* The archive of untouched inputs is never larger than the STORE estimate by more than the
\* hash of each entry, and where STORE is taken it is larger than the container it replaced by
\* less than those hashes (main.rs:705-716).
THEOREM SizeStaysBounded == Spec => []SizeBound
<1>1. Sound /\ Exact /\ Decided => SizeBound
  <2> SUFFICES ASSUME Sound, Exact, Decided, create.pc = "done", create.edits = 0, damaged = None
               PROVE  /\ SizeOf(file) <= Estimate(create) + 32 * Count
                      /\ file[1].kind = "store" => SizeOf(file) < create.packed + 32 * Count
    BY DEF SizeBound, Estimate, Lengths
  <2>1. PICK f, est, n : f = file /\ est = Estimate(create) /\ n = Count
    OBVIOUS
  <2>2. est \in Nat /\ n \in Nat
    BY <2>1, EstimateNumber, InputFacts DEF Sound
  <2>3. CASE Ready(f, create)
    <3>1. f[1].kind = "header"
      BY <2>3, ReadyIsPacked
    <3>2. SizeOf(f) \in Nat
      BY <2>1, <2>3, ReadySize DEF Sound, Built
    <3>3. SizeOf(f) <= est
      BY <2>1, <3>1 DEF Decided
    <3> QED
      BY <2>1, <2>2, <3>1, <3>2, <3>3
  <2>4. CASE Stored(f, create.dict, paths, seen)
    <3>1. f[1].kind = "store"
      BY <2>4 DEF Stored, Listed, StoreHeader
    <3>2. create.packed \in Nat /\ est < create.packed
      BY <2>1, <3>1 DEF Decided
    <3>3. SizeOf(f) = est + 32 * n
      BY <2>1, <2>4, QuietSize DEF Sound
    <3> QED
      BY <2>1, <2>2, <3>2, <3>3
  <2> QED
    BY <2>1, <2>3, <2>4 DEF Sound, Built
<1> QED
  BY <1>1, AlwaysDecided, PTL

=============================================================================
