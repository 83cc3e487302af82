------------------------ MODULE GrammarSyncProofs ------------------------
(***************************************************************************)
(* Proofs about GrammarSync, for every alphabet, cap, seed and record set. *)
(*                                                                         *)
(* The argument: a table stays a closed table under every record the       *)
(* writer may write (the GC case is the interesting one: survivors are in  *)
(* ascending order, so a component, being older, is renamed to a smaller   *)
(* symbol than its rule); the reader's checks follow from the writer's;    *)
(* so, by induction over the steps, the reader never fails and holds the   *)
(* table of the writer's history at its own position.                      *)
(***************************************************************************)
EXTENDS GrammarSync, GrammarProofs

----------------------------------------------------------------------------
(* One record. *)

\* A record the writer may write leaves a closed table.
LEMMA AfterTable ==
  ASSUME NEW rules \in Table, NEW rec \in Record, MayWrite(rules, rec)
  PROVE  After(rules, rec) \in Table
<1>1. CASE rec.kind = "S"
  BY <1>1 DEF After
<1>2. CASE rec.kind = "G"
  <2>1. /\ rules \in Seq(Pair) /\ rec.defs \in Seq(Pair)
    BY DEF Table, Record
  <2>2. Len(rules) + Len(rec.defs) <= MaxRules /\ Closed(rules \o rec.defs)
    BY <1>2 DEF MayWrite
  <2>3. rules \o rec.defs \in Seq(Pair) /\ Len(rules \o rec.defs) = Len(rules) + Len(rec.defs)
    BY <2>1
  <2> QED
    BY <1>2, <2>2, <2>3 DEF After, Table
<1>3. CASE rec.kind = "GC"
  <2>1. rec.survivors \in Seq(Nat)
    BY DEF Record
  <2>2. RemapOK(rules, rec.survivors)
    BY <1>3 DEF MayWrite
  <2> QED
    BY <1>3, <2>1, <2>2, RemapTable DEF After
<1> QED
  BY <1>1, <1>2, <1>3 DEF Record

\* What the writer may write passes the reader's checks on the same table.
LEMMA WriterPassesReader ==
  ASSUME NEW rules \in Table, NEW rec \in Record, MayWrite(rules, rec)
  PROVE  Accepts(rules, rec)
<1>1. CASE rec.kind = "S"
  BY <1>1 DEF Accepts
<1>2. CASE rec.kind = "G"
  <2> DEFINE all == rules \o rec.defs
  <2>1. rules \in Seq(Pair) /\ rec.defs \in Seq(Pair)
    BY DEF Table, Record
  <2>2. /\ Len(rules) + Len(rec.defs) <= MaxRules
        /\ Closed(all)
        /\ \A k \in 1 .. Len(rec.tokens) : Known(all, rec.tokens[k])
    BY <1>2 DEF MayWrite
  <2>3. Len(all) = Len(rules) + Len(rec.defs) /\ Len(rules) \in Nat /\ Len(rec.defs) \in Nat
    BY <2>1
  <2>4. Len(rec.defs) <= MaxRules
    BY <2>2, <2>3, AlphabetFacts
  <2>5. \A i \in 1 .. Len(rec.defs) : RuleOK(all, Len(rules) + i)
    BY <2>2, <2>3 DEF Closed
  <2> QED
    BY <1>2, <2>2, <2>4, <2>5 DEF Accepts
<1>3. CASE rec.kind = "GC"
  BY <1>3 DEF MayWrite, Accepts
<1> QED
  BY <1>1, <1>2, <1>3 DEF Record

----------------------------------------------------------------------------
(* The inductive invariant. *)

\* The history is a run of the writer, and the reader is at its place in it.
History ==
  \A k \in 1 .. Len(stream) :
    MayWrite(tables[k], stream[k]) /\ tables[k + 1] = After(tables[k], stream[k])

IInv == TypeOK /\ InSync /\ History

LEMMA InitInv == Init => IInv
<1> SUFFICES ASSUME Init PROVE IInv
  OBVIOUS
<1>1. PICK seed \in SeedTables : tables = <<seed>> /\ decRules = seed
  BY DEF Init
<1>2. seed \in Table
  BY SyncAssumption
<1>3. stream = <<>> /\ decoded = 0 /\ verdict = "ok"
  BY DEF Init
<1>4. Len(stream) = 0 /\ stream \in Seq(Record)
  BY <1>3
<1>5. TypeOK
  BY <1>1, <1>2, <1>3, <1>4 DEF TypeOK
<1>6. InSync
  BY <1>1, <1>3 DEF InSync
<1>7. History
  BY <1>4 DEF History
<1> QED
  BY <1>5, <1>6, <1>7 DEF IInv

\* Writing appends to the history; nothing the reader has seen changes.
LEMMA WriteInv == IInv /\ WriteAny => IInv'
<1> SUFFICES ASSUME IInv, WriteAny PROVE IInv'
  OBVIOUS
<1> DEFINE n   == Len(stream)
           rec == stream'[n + 1]
<1>1. /\ rec \in Record
      /\ MayWrite(tables[n + 1], rec)
      /\ stream' = Append(stream, rec)
      /\ tables' = Append(tables, After(tables[n + 1], rec))
      /\ decoded' = decoded /\ decRules' = decRules /\ verdict' = verdict
  BY DEF WriteAny, EncRules
<1>2. /\ stream \in Seq(Record) /\ tables \in Seq(Table) /\ Len(tables) = n + 1 /\ n \in Nat
      /\ decoded \in 0 .. n /\ decRules \in Table /\ verdict = "ok"
      /\ decRules = tables[decoded + 1]
  BY DEF IInv, TypeOK, InSync
<1>3. tables[n + 1] \in Table
  BY <1>2
<1> HIDE DEF rec
<1>4. After(tables[n + 1], rec) \in Table
  BY <1>1, <1>3, AfterTable
<1>5. Len(stream') = n + 1 /\ stream' \in Seq(Record) /\ stream'[n + 1] = rec
  BY <1>1, <1>2
<1>6. /\ Len(tables') = n + 2 /\ tables' \in Seq(Table)
      /\ tables'[n + 2] = After(tables[n + 1], rec)
  BY <1>1, <1>2, <1>4
<1>7. \A k \in 1 .. n : stream'[k] = stream[k]
  BY <1>1, <1>2
<1>8. \A k \in 1 .. n + 1 : tables'[k] = tables[k]
  BY <1>1, <1>2
<1>9. TypeOK'
  BY <1>1, <1>2, <1>5, <1>6 DEF TypeOK
<1>10. InSync'
  BY <1>1, <1>2, <1>8 DEF InSync
<1>11. History'
  <2> SUFFICES ASSUME NEW k \in 1 .. n + 1
               PROVE  /\ MayWrite(tables'[k], stream'[k])
                      /\ tables'[k + 1] = After(tables'[k], stream'[k])
    BY <1>5 DEF History, MayWrite, After, RemapOK
  <2>1. CASE k \in 1 .. n
    <3>1. MayWrite(tables[k], stream[k]) /\ tables[k + 1] = After(tables[k], stream[k])
      BY <2>1 DEF IInv, History
    <3> QED
      BY <2>1, <3>1, <1>2, <1>7, <1>8
  <2>2. CASE k = n + 1
    BY <2>2, <1>1, <1>2, <1>5, <1>6, <1>8
  <2> QED
    BY <2>1, <2>2, <1>2
<1> QED
  BY <1>9, <1>10, <1>11 DEF IInv

\* Reading follows the history by one step and never fails.
LEMMA ReadInv == IInv /\ Read => IInv'
<1> SUFFICES ASSUME IInv, Read PROVE IInv'
  OBVIOUS
<1> DEFINE n   == decoded + 1
           rec == stream[n]
<1>1. /\ stream \in Seq(Record) /\ tables \in Seq(Table) /\ Len(tables) = Len(stream) + 1
      /\ decoded \in 0 .. Len(stream) /\ decRules \in Table /\ decRules = tables[n]
      /\ verdict = "ok"
  BY DEF IInv, TypeOK, InSync
<1>2. n \in 1 .. Len(stream)
  BY <1>1 DEF Read
<1>3. rec \in Record
  BY <1>1, <1>2
<1>4. MayWrite(tables[n], rec) /\ tables[n + 1] = After(tables[n], rec)
  BY <1>2 DEF IInv, History
<1>5. Accepts(decRules, rec)
  BY <1>1, <1>3, <1>4, WriterPassesReader
<1>6. /\ decRules' = After(decRules, rec) /\ decoded' = n /\ verdict' = verdict
      /\ stream' = stream /\ tables' = tables
  BY <1>5 DEF Read
<1>7. decRules' = tables[n + 1] /\ decRules' \in Table
  BY <1>1, <1>2, <1>4, <1>6
<1>8. TypeOK'
  BY <1>1, <1>2, <1>6, <1>7 DEF TypeOK
<1>9. InSync'
  BY <1>1, <1>6, <1>7 DEF InSync
<1>10. History'
  BY <1>6 DEF IInv, History
<1> QED
  BY <1>8, <1>9, <1>10 DEF IInv

LEMMA StutterInv == IInv /\ UNCHANGED vars => IInv'
BY DEF IInv, TypeOK, InSync, History, vars

----------------------------------------------------------------------------
(* Theorems. *)

\* The inductive invariant holds in every run of the protocol.
THEOREM ProtocolInv == Protocol => []IInv
<1>1. IInv /\ [WriteAny \/ Read]_vars => IInv'
  BY WriteInv, ReadInv, StutterInv
<1> QED
  BY InitInv, <1>1, PTL DEF Protocol

\* A writer that chooses from the given records, up to the bound, follows the protocol.
THEOREM SpecFollowsProtocol == Spec => Protocol
<1>1. TypeOK /\ [Next]_vars => [WriteAny \/ Read]_vars
  <2> SUFFICES ASSUME TypeOK, NEW rec \in Records, Write(rec) PROVE WriteAny
    BY DEF Next
  <2>1. rec \in Record /\ stream \in Seq(Record)
    BY SyncAssumption DEF TypeOK
  <2>2. stream' = Append(stream, rec)
    BY DEF Write
  <2>3. Len(stream') = Len(stream) + 1 /\ stream'[Len(stream) + 1] = rec
    BY <2>1, <2>2
  <2> QED
    BY <2>1, <2>3 DEF Write, WriteAny
<1>2. IInv /\ [Next]_vars => IInv'
  BY <1>1, WriteInv, ReadInv, StutterInv DEF IInv
<1>3. IInv => TypeOK
  BY DEF IInv
<1> QED
  BY <1>1, <1>2, <1>3, InitInv, PTL DEF Spec, Protocol

\* The types of the protocol's state; in particular both tables stay closed and within
\* the alphabet cap, whatever GC removes.
THEOREM SyncTypeCorrect == Protocol => []TypeOK
BY ProtocolInv, PTL DEF IInv

\* Writer and reader hold the same table at every record boundary, and no check of the
\* reader ever fails.
THEOREM SyncCorrect == Protocol => []InSync
BY ProtocolInv, PTL DEF IInv

\* The same two for the bounded writer of Spec.
THEOREM SpecCorrect == Spec => [](TypeOK /\ InSync)
BY SpecFollowsProtocol, SyncTypeCorrect, SyncCorrect, PTL
============================================================================
