---------------------------- MODULE TableTransform ----------------------------
(***************************************************************************)
(* table.rs: a slice whose complete lines form a grid is regrouped column  *)
(* by column, integer and date columns as differences where that is        *)
(* smaller, and rebuilt exactly.  A byte is a number; the digits are       *)
(* 0..Radix-1 and the structural bytes lie above them.  A date cell is     *)
(* <<Minus, year since MinYear, month, day>>: four bytes for the ten of    *)
(* YYYY-MM-DD, one per field.                                              *)
(***************************************************************************)
EXTENDS Integers, Sequences, SequencesExt, FiniteSetsExt

CONSTANTS
  Newline, Minus,
  Delims,        \* the column delimiters in order of preference
  Radix,         \* of the digits (10)
  Half,          \* 2^63: integers are -Half..Half-1
  VarBase,       \* 128: values a varint byte carries
  MaxVarBytes,   \* 10
  MinGridBytes, MaxEdgeBytes, MaxCols,
  MinYear, MaxYear  \* 1800, 2400

ASSUME TableAssumption ==
  /\ Radix > 1 /\ Half > Radix /\ VarBase > 1 /\ VarBase ^ MaxVarBytes >= 2 * Half
  /\ Cardinality({Newline, Minus} \cup Range(Delims)) = Len(Delims) + 2
  /\ \A b \in {Newline, Minus} \cup Range(Delims) : b >= Radix

Nothing == <<>>       \* an Option: <<>> or <<value>>
IsSome(o) == o # Nothing

TotalLength(ss) == FoldFunction(+, 0, [i \in DOMAIN ss |-> Len(ss[i])])
Total(ns) == FoldFunction(+, 0, ns)

-----------------------------------------------------------------------------
(* Varints: little end first, a flag on every byte but the last. *)

UvLen(v) == CHOOSE n \in 1..MaxVarBytes : v < VarBase ^ n /\ (n = 1 \/ v >= VarBase ^ (n - 1))

PutUvarint(v) ==
  [i \in 1..UvLen(v) |-> ((v \div VarBase ^ (i - 1)) % VarBase)
                         + (IF i < UvLen(v) THEN VarBase ELSE 0)]

\* `read_uvarint` from position p (0-based) up to end; <<>> if cut off or too long.
ReadUvarint(b, p, end) ==
  LET lasts == {n \in 1..MaxVarBytes : p + n <= end /\ b[p + n] < VarBase}
      n == Min(lasts)
  IN  IF lasts = {} THEN Nothing
      ELSE <<[value |-> Total([i \in 1..n |-> (b[p + i] % VarBase) * VarBase ^ (i - 1)]),
              next |-> p + n]>>

Wrapped(v)  == ((v + Half) % (2 * Half)) - Half          \* wrapping_add, wrapping_sub
Zigzag(v)   == IF v >= 0 THEN 2 * v ELSE -2 * v - 1
Unzigzag(u) == IF u % 2 = 0 THEN u \div 2 ELSE -((u + 1) \div 2)

-----------------------------------------------------------------------------
(* Numbers and dates *)

DaysFromCivil(year, m, d) ==
  LET y   == IF m <= 2 THEN year - 1 ELSE year
      era == y \div 400
      yoe == y - era * 400
      mp  == (m + 9) % 12
      doy == (153 * mp + 2) \div 5 + d - 1
      doe == yoe * 365 + yoe \div 4 - yoe \div 100 + doy
  IN  era * 146097 + doe - 719468

\* Faulty variant: the days of a 400-year cycle are taken apart without its last leap day.
CivilFromDaysShortCycle(day) ==
  LET z   == day + 719468
      era == z \div 146097
      doe == z - era * 146097
      yoe == (doe - doe \div 1460 + doe \div 36524) \div 365
      doy == doe - (365 * yoe + yoe \div 4 - yoe \div 100)
      mp  == (5 * doy + 2) \div 153
      m   == IF mp < 10 THEN mp + 3 ELSE mp - 9
  IN  <<yoe + era * 400 + (IF m <= 2 THEN 1 ELSE 0), m, doy - (153 * mp + 2) \div 5 + 1>>

CivilFromDays(day) ==
  LET z   == day + 719468
      era == z \div 146097
      doe == z - era * 146097
      yoe == (doe - doe \div 1460 + doe \div 36524 - doe \div 146096) \div 365
      doy == doe - (365 * yoe + yoe \div 4 - yoe \div 100)
      mp  == (5 * doy + 2) \div 153
      m   == IF mp < 10 THEN mp + 3 ELSE mp - 9
  IN  <<yoe + era * 400 + (IF m <= 2 THEN 1 ELSE 0), m, doy - (153 * mp + 2) \div 5 + 1>>

\* Day 31 of any month parses; only rendering tells that there is no such day.
ParseDate(c) ==
  IF /\ Len(c) = 4 /\ c[1] = Minus /\ MinYear + c[2] <= MaxYear
     /\ c[3] \in 1..12 /\ c[4] \in 1..31
  THEN <<DaysFromCivil(MinYear + c[2], c[3], c[4])>> ELSE Nothing

RenderDate(z) ==
  LET ymd == CivilFromDays(z)
  IN  IF ymd[1] \in MinYear..MaxYear
      THEN <<<<Minus, ymd[1] - MinYear, ymd[2], ymd[3]>>>> ELSE Nothing

\* i64::to_string.
RenderNat(a) ==
  LET n == CHOOSE k \in 1..32 : a \div Radix ^ k = 0 /\ (k = 1 \/ a \div Radix ^ (k - 1) > 0)
  IN  [i \in 1..n |-> (a \div Radix ^ (n - i)) % Radix]

RenderInt(v) == IF v < 0 THEN <<Minus>> \o RenderNat(-v) ELSE RenderNat(v)

\* An integer counts only if rendering it gives the very same bytes.
ParseDigits(c, digits, sign) ==
  LET v == sign * Total([i \in DOMAIN digits |-> digits[i] * Radix ^ (Len(digits) - i)])
  IN  IF /\ digits # <<>> /\ Radix ^ (Len(digits) - 1) <= Half
         /\ \A i \in DOMAIN digits : digits[i] < Radix
         /\ v \in (-Half)..(Half - 1) /\ RenderInt(v) = c
      THEN <<v>> ELSE Nothing

ParseInt(c) == IF c # <<>> /\ c[1] = Minus THEN ParseDigits(c, Tail(c), -1) ELSE ParseDigits(c, c, 1)

IntEligible(cells) == \A i \in DOMAIN cells : IsSome(ParseInt(cells[i]))

\* Faulty variant: parsing is taken for proof that the date exists.
DateEligibleParsed(cells) == \A i \in DOMAIN cells : IsSome(ParseDate(cells[i]))

DateEligible(cells) ==
  \A i \in DOMAIN cells : /\ IsSome(ParseDate(cells[i]))
                          /\ RenderDate(ParseDate(cells[i])[1]) = <<cells[i]>>

Parse(cell, dmode) == IF dmode = "int" THEN ParseInt(cell)[1] ELSE ParseDate(cell)[1]

\* The first value as it is, then differences.
DeltaValues(cells, dmode) ==
  LET v == [i \in DOMAIN cells |-> Parse(cells[i], dmode)]
  IN  [i \in DOMAIN cells |-> IF i = 1 THEN v[1] ELSE Wrapped(v[i] - v[i - 1])]

\* The bytes a column takes as it is and as differences, lengths included.
Fixed(cells) == \A i \in DOMAIN cells : Len(cells[i]) = Len(cells[1])
RawBytes(cells) ==
  TotalLength(cells)
  + (IF Fixed(cells) THEN 0 ELSE Total([i \in DOMAIN cells |-> UvLen(Len(cells[i]))]))
DeltaBytes(values) ==
  LET lens == [i \in DOMAIN values |-> UvLen(Zigzag(values[i]))]
  IN  Total([i \in DOMAIN lens |-> lens[i] + UvLen(lens[i])])

Describe(cells, dmode) ==
  IF dmode # "none" /\ DeltaBytes(DeltaValues(cells, dmode)) < RawBytes(cells)
  THEN [fixed |-> FALSE, width |-> 0, dmode |-> dmode]
  ELSE [fixed |-> Fixed(cells), width |-> IF Fixed(cells) THEN Len(cells[1]) ELSE 0,
        dmode |-> "none"]

\* `column_decision`, and what candidate makes of it: differences only where they are fewer.
ColumnDecision(cells) ==
  Describe(cells, IF IntEligible(cells) THEN "int" ELSE IF DateEligible(cells) THEN "date" ELSE "none")

-----------------------------------------------------------------------------
(* The transform *)

Positions(s, b) == {i \in DOMAIN s : s[i] = b}

Split(s, b) ==
  LET cuts == <<0>> \o SetToSortSeq(Positions(s, b), <) \o <<Len(s) + 1>>
  IN  [i \in 1..(Len(cuts) - 1) |-> SubSeq(s, cuts[i] + 1, cuts[i + 1] - 1)]

\* The delimiters found equally often, and at least once, on every line.
Uniform(lines) ==
  {k \in DOMAIN Delims :
     \E n \in 1..(MaxCols - 1) :
       \A i \in DOMAIN lines : Cardinality(Positions(lines[i], Delims[k])) = n}

Framed(values, fixed) ==
  (IF fixed THEN <<>> ELSE FlattenSeq([i \in DOMAIN values |-> PutUvarint(Len(values[i]))]))
  \o FlattenSeq(values)

Deltas(values) == [i \in DOMAIN values |-> PutUvarint(Zigzag(values[i]))]

ColumnBytes(cells, d) ==
  Framed(IF d.dmode = "none" THEN cells ELSE Deltas(DeltaValues(cells, d.dmode)), d.fixed)

\* Lines to columns, under a delimiter every line has equally often.
Columns(lines, delim) ==
  LET rows == [r \in DOMAIN lines |-> Split(lines[r], delim)]
  IN  [c \in DOMAIN rows[1] |-> [r \in DOMAIN rows |-> rows[r][c]]]

\* The transform stream and its description: head and tail as they are, the columns between.
Plan(raw, f, l, delim, cols, descs) ==
  LET t == SubSeq(raw, 1, f) \o FlattenSeq([c \in DOMAIN cols |-> ColumnBytes(cols[c], descs[c])])
           \o SubSeq(raw, l + 1, Len(raw))
  IN  [stream |-> t,
       meta |-> [rowDelim |-> Newline, colDelim |-> delim, nRows |-> Len(cols[1]),
                 nCols |-> Len(cols), tLen |-> Len(t), headLen |-> f,
                 tailLen |-> Len(raw) - l, cols |-> descs]]

Planned(raw, f, l, delim, cols) ==
  Plan(raw, f, l, delim, cols, [c \in DOMAIN cols |-> ColumnDecision(cols[c])])

\* The lines between the first newline and the last.
Grid(raw, f, l, lines) ==
  IF f > MaxEdgeBytes \/ Len(raw) - l > MaxEdgeBytes \/ Uniform(lines) = {} THEN Nothing
  ELSE LET delim == Delims[Min(Uniform(lines))]
       IN  <<Planned(raw, f, l, delim, Columns(lines, delim))>>

Lined(raw, f, l) ==
  IF l = f + 1 THEN Nothing ELSE Grid(raw, f, l, Split(SubSeq(raw, f + 1, l - 1), Newline))

\* `candidate`: what the slice becomes, if it is a grid.
Candidate(raw) ==
  LET nls == Positions(raw, Newline)
  IN  IF Len(raw) < MinGridBytes \/ Cardinality(nls) < 2 THEN Nothing
      ELSE Lined(raw, Min(nls), Max(nls))

\* The wrapper keeps a width only for fixed columns and packs the rest into flags; of the
\* four modes one is an error, and the upper bits are, except the lowest of them.
FlagsOK(flags) == flags < 16 /\ (flags \div 2) % 4 < 3
DMode(flags) == <<"none", "int", "date">>[((flags \div 2) % 4) + 1]
Flags(d) == (IF d.fixed THEN 1 ELSE 0) + 2 * (CHOOSE k \in 0..2 : DMode(2 * k) = d.dmode)

WrapBlock(meta) ==
  [meta EXCEPT !.cols = [c \in DOMAIN meta.cols |->
     <<Flags(meta.cols[c])>> \o (IF meta.cols[c].fixed THEN <<meta.cols[c].width>> ELSE <<>>)]]

TryUnwrap(w) ==
  IF /\ w.nCols \in 2..MaxCols /\ w.nRows > 0 /\ w.tLen >= w.headLen + w.tailLen
     /\ \A c \in DOMAIN w.cols : FlagsOK(w.cols[c][1])
  THEN <<[w EXCEPT !.cols = [c \in DOMAIN w.cols |->
            [fixed |-> w.cols[c][1] % 2 = 1, dmode |-> DMode(w.cols[c][1]),
             width |-> IF w.cols[c][1] % 2 = 1 THEN w.cols[c][2] ELSE 0]]]>>
  ELSE Nothing

\* Where a column that starts at p keeps its values, and how long each is.
Lengths(t, n, p, end) ==
  LET at[r \in 0..n] ==
        IF r = 0 THEN [p |-> p, lens |-> <<>>, ok |-> TRUE]
        ELSE LET prev == at[r - 1]
                 u == ReadUvarint(t, prev.p, end)
             IN  IF prev.ok /\ IsSome(u)
                 THEN [p |-> u[1].next, lens |-> Append(prev.lens, u[1].value), ok |-> TRUE]
                 ELSE [prev EXCEPT !.ok = FALSE]
  IN  at[n]

Placed(lay, end) == [base |-> lay.p, lens |-> lay.lens, end |-> lay.p + Total(lay.lens),
                     ok |-> lay.ok /\ lay.p + Total(lay.lens) <= end]

Layout(t, meta, c, p, end) ==
  Placed(IF meta.cols[c].fixed
         THEN [p |-> p, lens |-> [r \in 1..meta.nRows |-> meta.cols[c].width], ok |-> TRUE]
         ELSE Lengths(t, meta.nRows, p, end), end)

\* The columns one behind the other, from the head to the tail.
Layouts(t, meta) ==
  LET end == meta.tLen - meta.tailLen
      lay[c \in 0..meta.nCols] ==
        IF c = 0 THEN [base |-> 0, lens |-> <<>>, end |-> meta.headLen, ok |-> TRUE]
        ELSE LET prev == lay[c - 1]
             IN  IF prev.ok THEN Layout(t, meta, c, prev.end, end) ELSE prev
  IN  lay

Slices(t, lay) ==
  [r \in DOMAIN lay.lens |->
     LET from == lay.base + Total(SubSeq(lay.lens, 1, r - 1))
     IN  SubSeq(t, from + 1, from + lay.lens[r])]

Sums(deltas) ==
  LET value[r \in DOMAIN deltas] == IF r = 1 THEN Unzigzag(deltas[1])
                                    ELSE Wrapped(value[r - 1] + Unzigzag(deltas[r]))
  IN  value

Render(value, dmode) == IF dmode = "int" THEN <<RenderInt(value)>> ELSE RenderDate(value)

Rendered(values, dmode) == [r \in DOMAIN values |-> Render(values[r], dmode)]

\* A slice must hold one varint and nothing else.
Undelta(slices, reads, dmode) ==
  IF \E r \in DOMAIN reads : ~IsSome(reads[r]) \/ reads[r][1].next # Len(slices[r])
  THEN [r \in DOMAIN reads |-> Nothing]
  ELSE Rendered(Sums([r \in DOMAIN reads |-> reads[r][1].value]), dmode)

\* The cells a column decodes to, <<>> where a delta does not render.
ColumnCells(slices, dmode) ==
  IF dmode = "none" THEN [r \in DOMAIN slices |-> <<slices[r]>>]
  ELSE Undelta(slices, [r \in DOMAIN slices |-> ReadUvarint(slices[r], 0, Len(slices[r]))], dmode)

Row(meta, cells, r) ==
  FlattenSeq([c \in 1..meta.nCols |->
    (IF c = 1 THEN <<>> ELSE <<meta.colDelim>>) \o cells[c][r][1]]) \o <<meta.rowDelim>>

Assemble(t, meta, expected, cells) ==
  LET out == SubSeq(t, 1, meta.headLen)
             \o FlattenSeq([r \in 1..meta.nRows |-> Row(meta, cells, r)])
             \o SubSeq(t, meta.tLen - meta.tailLen + 1, Len(t))
  IN  IF /\ \A c \in 1..meta.nCols, r \in 1..meta.nRows : IsSome(cells[c][r])
         /\ Len(out) = expected
      THEN <<out>> ELSE Nothing

Laid(t, meta, expected, lay) ==
  IF lay[meta.nCols].ok /\ lay[meta.nCols].end = meta.tLen - meta.tailLen
  THEN Assemble(t, meta, expected,
         [c \in 1..meta.nCols |-> ColumnCells(Slices(t, lay[c]), meta.cols[c].dmode)])
  ELSE Nothing

\* `inverse`: <<the slice>>, or <<>> for an error.
TableInverse(t, meta, expected) ==
  IF /\ Len(t) = meta.tLen /\ meta.nRows * meta.nCols <= expected
     /\ meta.headLen + meta.tailLen <= meta.tLen /\ Len(meta.cols) = meta.nCols
  THEN Laid(t, meta, expected, Layouts(t, meta)) ELSE Nothing
=============================================================================
