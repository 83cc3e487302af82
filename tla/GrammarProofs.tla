--------------------------- MODULE GrammarProofs ---------------------------
(***************************************************************************)
(* Facts about the operators of PersistentGrammar, for every alphabet, cap,*)
(* phrase length, merge bound and chunk: discovery invents only rules that *)
(* keep the table closed, and what it makes of a chunk unfolds to the      *)
(* chunk; a rejected attempt leaves the grammar as it was; the indexes     *)
(* name live rules and nothing else.                                       *)
(*                                                                         *)
(* They rest on facts about the rule table by itself: a closed table       *)
(* expands every symbol it knows to a nonempty string of bytes; appending  *)
(* rules changes no expansion; garbage collection leaves a closed table in *)
(* which every survivor stands for the same bytes as before.               *)
(*                                                                         *)
(* The loops of the model are recursive functions on 0 .. n.  The library  *)
(* states induction over an operator, which the backends cannot            *)
(* instantiate, so induction is stated here over a set of numbers, and     *)
(* each loop gets two of them: there is a function satisfying the          *)
(* recursion, and what every function satisfying it computes.              *)
(***************************************************************************)
EXTENDS PersistentGrammar, TLAPS, WellFoundedInduction, FiniteSetTheorems

----------------------------------------------------------------------------
(* Induction over sets of numbers. *)

\* A nonempty set of numbers has a least element.
LEMMA LeastNumber ==
  ASSUME NEW S \in SUBSET Nat, S # {}
  PROVE  \E n \in S : \A m \in S : n <= m
<1> DEFINE R == OpToRel(<, Nat)
<1>1. IsWellFoundedOn(R, Nat)
  BY NatLessThanWellFounded
<1>2. \A m, n \in Nat : m < n => <<m, n>> \in R
  BY DEF OpToRel
<1> HIDE DEF R
<1>3. PICK n \in S : \A m \in S : ~(<<m, n>> \in R)
  BY <1>1, WFMin, Zenon
<1>4. \A m \in S : ~(m < n)
  BY <1>2, <1>3
<1> QED
  BY <1>3, <1>4, SMT

\* Induction over the numbers.
LEMMA Induction ==
  ASSUME NEW S \in SUBSET Nat, 0 \in S, \A n \in S : n + 1 \in S
  PROVE  S = Nat
<1> DEFINE T == Nat \ S
<1>1. SUFFICES ASSUME T # {} PROVE FALSE
  OBVIOUS
<1>2. PICK n \in T : \A m \in T : n <= m
  BY <1>1, LeastNumber, Zenon
<1>3. n # 0 /\ n - 1 \in Nat /\ n - 1 \notin T
  BY <1>2, SMT
<1> QED
  BY <1>3

\* Induction up to a bound.
LEMMA InductionUpTo ==
  ASSUME NEW N \in Nat, NEW S, 0 \in S, \A n \in 0 .. N - 1 : n \in S => n + 1 \in S
  PROVE  \A n \in 0 .. N : n \in S
<1> DEFINE T == {n \in Nat : n <= N => n \in S}
<1>1. T \in SUBSET Nat /\ 0 \in T
  OBVIOUS
<1>2. ASSUME NEW n \in T PROVE n + 1 \in T
  <2>1. CASE n + 1 <= N
    BY <2>1
  <2>2. CASE ~(n + 1 <= N)
    BY <2>2
  <2> QED
    BY <2>1, <2>2
<1>3. T = Nat
  <2> HIDE DEF T
  <2> QED
    BY <1>1, <1>2, Induction, Zenon
<1> QED
  BY <1>3

\* Strong induction up to a bound.
LEMMA StrongInductionUpTo ==
  ASSUME NEW N \in Nat, NEW S,
         \A n \in 1 .. N : (\A m \in 1 .. n - 1 : m \in S) => n \in S
  PROVE  \A n \in 1 .. N : n \in S
<1> DEFINE T == {n \in 1 .. N : n \notin S}
<1>1. SUFFICES ASSUME T # {} PROVE FALSE
  OBVIOUS
<1>2. T \in SUBSET Nat
  OBVIOUS
<1>3. PICK n \in T : \A m \in T : n <= m
  <2> HIDE DEF T
  <2> QED
    BY <1>1, <1>2, LeastNumber, Zenon
<1>4. \A m \in 1 .. n - 1 : m \in S
  BY <1>3
<1> QED
  BY <1>3, <1>4

----------------------------------------------------------------------------
(* Sequences, in the form the proofs below need them. *)

\* An element of a concatenation.
LEMMA ConcatElement ==
  ASSUME NEW A, NEW s \in Seq(A), NEW t \in Seq(A)
  PROVE  /\ s \o t \in Seq(A)
         /\ Len(s \o t) = Len(s) + Len(t)
         /\ \A i \in 1 .. Len(s) : (s \o t)[i] = s[i]
         /\ \A i \in Len(s) + 1 .. Len(s) + Len(t) : (s \o t)[i] = t[i - Len(s)]
OBVIOUS

\* Concatenation is associative and <<>> is its unit.
LEMMA ConcatAssociative ==
  ASSUME NEW A, NEW s \in Seq(A), NEW t \in Seq(A), NEW u \in Seq(A)
  PROVE  /\ (s \o t) \o u = s \o (t \o u)
         /\ <<>> \o s = s /\ s \o <<>> = s
OBVIOUS

\* The same for strings of bytes.
LEMMA BytesAssociative ==
  ASSUME NEW s \in Seq(Literal), NEW t \in Seq(Literal), NEW u \in Seq(Literal)
  PROVE  (s \o t) \o u = s \o (t \o u)
OBVIOUS

----------------------------------------------------------------------------
(* The alphabet and the table. *)

\* Literals come first, and there is at least one.
LEMMA AlphabetFacts ==
  /\ NLit \in Nat /\ NLit > 0
  /\ MaxSyms \in Nat /\ NLit < MaxSyms
  /\ MaxRules \in Nat /\ MaxRules = MaxSyms - NLit
BY AlphabetAssumption DEF MaxRules

\* The two components of a rule of a table are symbols older than the rule.
LEMMA TableRule ==
  ASSUME NEW rules \in Table, NEW i \in 1 .. Len(rules), NEW h \in {1, 2}
  PROVE  /\ rules[i] \in Pair
         /\ rules[i][h] \in 0 .. (MaxSyms - 1)
         /\ rules[i][h] < NLit + i - 1
<1>1. rules \in Seq(Pair) /\ Closed(rules)
  BY DEF Table
<1>2. rules[i] \in Pair
  BY <1>1
<1>3. rules[i][1] \in 0 .. (MaxSyms - 1) /\ rules[i][2] \in 0 .. (MaxSyms - 1)
  BY <1>2 DEF Pair, Symbol
<1>4. rules[i][1] < NLit + i - 1 /\ rules[i][2] < NLit + i - 1
  BY <1>1 DEF Closed, RuleOK, Id
<1> QED
  BY <1>2, <1>3, <1>4

\* The length of a table is a number within the cap.
LEMMA TableLength ==
  ASSUME NEW rules \in Table
  PROVE  rules \in Seq(Pair) /\ Len(rules) \in Nat /\ Len(rules) <= MaxRules
BY DEF Table

\* The first rules of a table are a table.
LEMMA TablePrefix ==
  ASSUME NEW rules \in Table, NEW n \in 0 .. Len(rules)
  PROVE  /\ SubSeq(rules, 1, n) \in Table
         /\ Len(SubSeq(rules, 1, n)) = n
         /\ \A i \in 1 .. n : SubSeq(rules, 1, n)[i] = rules[i]
<1> DEFINE s == SubSeq(rules, 1, n)
<1>1. rules \in Seq(Pair) /\ Len(rules) \in Nat /\ Len(rules) <= MaxRules /\ Closed(rules)
  BY TableLength DEF Table
<1>2. s \in Seq(Pair) /\ Len(s) = n /\ \A i \in 1 .. n : s[i] = rules[i]
  BY <1>1
<1> HIDE DEF s
<1>3. Closed(s)
  BY <1>1, <1>2 DEF Closed, RuleOK
<1>4. s \in Table
  BY <1>1, <1>2, <1>3, AlphabetFacts DEF Table
<1> QED
  BY <1>2, <1>4 DEF s

\* A rule of two symbols that the table knows may be appended while there is room.
LEMMA TableAppend ==
  ASSUME NEW rules \in Table, Len(rules) < MaxRules, NEW pair \in Pair,
         Known(rules, pair[1]), Known(rules, pair[2])
  PROVE  /\ Append(rules, pair) \in Table
         /\ Len(Append(rules, pair)) = Len(rules) + 1
         /\ \A i \in 1 .. Len(rules) : Append(rules, pair)[i] = rules[i]
         /\ Append(rules, pair)[Len(rules) + 1] = pair
<1> DEFINE s == Append(rules, pair)
<1>1. rules \in Seq(Pair) /\ Len(rules) \in Nat /\ Closed(rules)
  BY DEF Table
<1>2. /\ s \in Seq(Pair) /\ Len(s) = Len(rules) + 1 /\ s[Len(rules) + 1] = pair
      /\ \A i \in 1 .. Len(rules) : s[i] = rules[i]
  BY <1>1
<1>3. RuleOK(s, Len(rules) + 1)
  BY <1>1, <1>2, AlphabetFacts DEF Known, RuleOK, Id
<1> HIDE DEF s
<1>4. \A i \in 1 .. Len(rules) : RuleOK(s, i)
  BY <1>1, <1>2 DEF Closed, RuleOK
<1>5. Closed(s)
  BY <1>1, <1>2, <1>3, <1>4 DEF Closed
<1>6. s \in Table
  BY <1>1, <1>2, <1>5, AlphabetFacts DEF Table
<1> QED
  BY <1>2, <1>6 DEF s

\* A symbol of the alphabet that the table knows, by its kind.
LEMMA SymbolKinds ==
  ASSUME NEW rules \in Table, NEW s \in Nat, Known(rules, s)
  PROVE  /\ s \in Symbol
         /\ s < NLit => s \in Literal
         /\ ~(s < NLit) => Position(s) \in 1 .. Len(rules) /\ s = Id(Position(s))
BY TableLength, AlphabetFacts DEF Known, Symbol, Literal, Position, Id

\* The symbol of a rule is known, and its position is the rule's.
LEMMA RuleSymbol ==
  ASSUME NEW rules \in Table, NEW i \in 1 .. Len(rules)
  PROVE  /\ Id(i) \in Symbol /\ Id(i) \in Nat /\ Known(rules, Id(i))
         /\ Position(Id(i)) = i /\ ~(Id(i) < NLit)
BY TableLength, AlphabetFacts DEF Known, Symbol, Position, Id

----------------------------------------------------------------------------
(* Expansion into bytes. *)

\* A nonempty string of bytes.
Phrase == Seq(Literal) \ {<<>>}

\* A known symbol has bytes, and they depend only on the rules up to it.
LEMMA BytesKnown ==
  ASSUME NEW exps \in Seq(Phrase), NEW more \in Seq(Phrase),
         Len(exps) <= Len(more), \A i \in 1 .. Len(exps) : more[i] = exps[i],
         NEW s \in Nat, s < NLit + Len(exps)
  PROVE  Bytes(exps, s) \in Phrase /\ Bytes(more, s) = Bytes(exps, s)
<1>1. CASE s < NLit
  <2>1. s \in Literal
    BY <1>1, AlphabetFacts DEF Literal
  <2> QED
    BY <1>1, <2>1 DEF Bytes, Phrase
<1>2. CASE ~(s < NLit)
  <2>1. Position(s) \in 1 .. Len(exps)
    BY <1>2, AlphabetFacts DEF Position
  <2> QED
    BY <1>2, <2>1 DEF Bytes
<1> QED
  BY <1>1, <1>2

\* Two nonempty strings make one.
LEMMA PhraseConcat ==
  ASSUME NEW v \in Phrase, NEW w \in Phrase
  PROVE  v \o w \in Phrase /\ Len(v \o w) = Len(v) + Len(w) /\ Len(v) \in Nat \ {0}
<1>1. v \in Seq(Literal) /\ w \in Seq(Literal) /\ v # <<>> /\ w # <<>>
  BY DEF Phrase
<1>2. v \o w \in Seq(Literal) /\ Len(v \o w) = Len(v) + Len(w) /\ Len(v) \in Nat
  BY <1>1
<1>3. Len(v) # 0
  BY <1>1
<1> QED
  BY <1>2, <1>3, <1>1 DEF Phrase

\* What `exps` has computed after the first k rules.
Expanded(rules, exps, k) ==
  /\ exps \in Seq(Phrase) /\ Len(exps) = k
  /\ \A i \in 1 .. k : exps[i] = Bytes(exps, rules[i][1]) \o Bytes(exps, rules[i][2])

\* One more rule.
LEMMA ExpandedStep ==
  ASSUME NEW rules \in Table, NEW k \in 1 .. Len(rules), NEW exps, Expanded(rules, exps, k - 1)
  PROVE  Expanded(rules, WithRule(exps, rules[k]), k)
<1> DEFINE left == Bytes(exps, rules[k][1])
           right == Bytes(exps, rules[k][2])
           more == WithRule(exps, rules[k])
<1>1. exps \in Seq(Phrase) /\ Len(exps) = k - 1 /\ k \in Nat
  BY DEF Expanded
<1>2. \A i \in 1 .. k : /\ rules[i][1] \in Nat /\ rules[i][1] < NLit + i - 1
                        /\ rules[i][2] \in Nat /\ rules[i][2] < NLit + i - 1
  <2> TAKE i \in 1 .. k
  <2>1. i \in 1 .. Len(rules)
    BY TableLength
  <2> QED
    BY <2>1, TableRule, AlphabetFacts
<1>3. left \in Phrase /\ right \in Phrase
  <2>1. \A s \in Nat : s < NLit + (k - 1) => Bytes(exps, s) \in Phrase
    BY <1>1, BytesKnown
  <2>2. k \in 1 .. k
    BY <1>1
  <2> QED
    BY <1>2, <2>1, <2>2, AlphabetFacts
<1>4. more = Append(exps, left \o right) /\ left \o right \in Phrase
  BY <1>3, PhraseConcat DEF WithRule
<1> HIDE DEF left, right, more
<1>5. /\ more \in Seq(Phrase) /\ Len(more) = k /\ more[k] = left \o right
      /\ \A i \in 1 .. k - 1 : more[i] = exps[i]
  BY <1>1, <1>4
<1>6. \A s \in Nat : s < NLit + (k - 1) => Bytes(more, s) = Bytes(exps, s)
  <2>1. /\ exps \in Seq(Phrase) /\ more \in Seq(Phrase) /\ Len(exps) <= Len(more)
        /\ \A i \in 1 .. Len(exps) : more[i] = exps[i]
    BY <1>1, <1>5
  <2>2. \A s \in Nat : s < NLit + Len(exps) => Bytes(more, s) = Bytes(exps, s)
    BY ONLY <2>1, BytesKnown, Zenon
  <2> QED
    BY <1>1, <2>2
<1>7. \A i \in 1 .. k : more[i] = Bytes(more, rules[i][1]) \o Bytes(more, rules[i][2])
  <2> TAKE i \in 1 .. k
  <2>1. /\ Bytes(more, rules[i][1]) = Bytes(exps, rules[i][1])
        /\ Bytes(more, rules[i][2]) = Bytes(exps, rules[i][2])
    BY <1>2, <1>6, AlphabetFacts
  <2>2. CASE i = k
    BY <2>1, <2>2, <1>5 DEF left, right
  <2>3. CASE i \in 1 .. k - 1
    <3>1. exps[i] = Bytes(exps, rules[i][1]) \o Bytes(exps, rules[i][2])
      BY <2>3 DEF Expanded
    <3> QED
      BY <2>1, <2>3, <3>1, <1>5
  <2> QED
    BY <2>2, <2>3
<1> QED
  BY <1>5, <1>7 DEF Expanded, more

\* The expansions of a closed table: one nonempty string per rule, the bytes of its two
\* components (`unfold`, and the phrase cache of grammar.rs).
LEMMA ExpansionsFacts ==
  ASSUME NEW rules \in Table
  PROVE  Expanded(rules, Expansions(rules), Len(rules))
<1> DEFINE N == Len(rules)
           G(f, n) == f = [k \in 0 .. n |-> IF k = 0 THEN <<>> ELSE WithRule(f[k - 1], rules[k])]
           S == {n \in Nat : \E f : G(f, n)}
<1>1. 0 \in S
  <2>1. G([k \in 0 .. 0 |-> <<>>], 0)
    OBVIOUS
  <2> QED
    BY <2>1
<1>2. ASSUME NEW n \in S PROVE n + 1 \in S
  <2>1. PICK f : G(f, n)
    OBVIOUS
  <2> DEFINE h == [k \in 0 .. n + 1 |-> IF k = n + 1 THEN WithRule(f[n], rules[k]) ELSE f[k]]
  <2>2. \A k \in 0 .. n + 1 : h[k] = IF k = 0 THEN <<>> ELSE WithRule(h[k - 1], rules[k])
    <3> TAKE k \in 0 .. n + 1
    <3>1. CASE k = 0
      BY <2>1, <3>1
    <3>2. CASE k = n + 1
      BY <3>2, <2>1
    <3>3. CASE k \in 1 .. n
      <4>1. h[k] = f[k] /\ h[k - 1] = f[k - 1]
        BY <3>3
      <4>2. f[k] = WithRule(f[k - 1], rules[k])
        BY <2>1, <3>3
      <4> QED
        BY <4>1, <4>2, <3>3
    <3> QED
      BY <3>1, <3>2, <3>3
  <2>3. h = [k \in 0 .. n + 1 |-> h[k]]
    OBVIOUS
  <2> HIDE DEF h
  <2>4. G(h, n + 1)
    BY <2>2, <2>3
  <2> QED
    BY <2>4
<1>3. S = Nat
  <2>1. S \in SUBSET Nat
    OBVIOUS
  <2> HIDE DEF S
  <2> QED
    BY <1>1, <1>2, <2>1, Induction
<1>4. N \in Nat
  BY TableLength
<1> DEFINE f == CHOOSE f : G(f, N)
<1>5. G(f, N)
  BY <1>3, <1>4
<1>6. Expansions(rules) = f[N]
  BY DEF Expansions
<1>7. /\ f[0] = <<>>
      /\ \A k \in 1 .. N : f[k] = WithRule(f[k - 1], rules[k])
  <2> HIDE DEF f
  <2> QED
    BY <1>4, <1>5
<1> HIDE DEF f, G, S
<1> DEFINE T == {k \in 0 .. N : Expanded(rules, f[k], k)}
<1>8. 0 \in T
  <2>1. Expanded(rules, <<>>, 0)
    BY DEF Expanded
  <2> QED
    BY <1>4, <1>7, <2>1
<1>9. ASSUME NEW k \in 0 .. N - 1, k \in T PROVE k + 1 \in T
  <2>1. k + 1 \in 1 .. N /\ (k + 1) - 1 = k
    BY <1>4
  <2>2. f[k + 1] = WithRule(f[k], rules[k + 1])
    BY <2>1, <1>7
  <2>3. Expanded(rules, WithRule(f[k], rules[k + 1]), k + 1)
    BY <2>1, <1>9, ExpandedStep
  <2> QED
    BY <2>1, <2>2, <2>3
<1>10. N \in T
  <2> HIDE DEF T
  <2>1. \A k \in 0 .. N : k \in T
    BY <1>4, <1>8, <1>9, InductionUpTo
  <2> QED
    BY <1>4, <2>1
<1> QED
  BY <1>6, <1>10

\* Appending rules changes no expansion.
LEMMA ExpansionsPrefix ==
  ASSUME NEW rules \in Table, NEW more \in Table, Len(rules) <= Len(more),
         \A i \in 1 .. Len(rules) : more[i] = rules[i]
  PROVE  \A i \in 1 .. Len(rules) : Expansions(more)[i] = Expansions(rules)[i]
<1> DEFINE E == Expansions(rules)
           F == Expansions(more)
           S == {i \in Nat : F[i] = E[i]}
<1>1. /\ E \in Seq(Phrase) /\ Len(E) = Len(rules)
      /\ F \in Seq(Phrase) /\ Len(F) = Len(more)
      /\ \A i \in 1 .. Len(rules) : E[i] = Bytes(E, rules[i][1]) \o Bytes(E, rules[i][2])
      /\ \A i \in 1 .. Len(more) : F[i] = Bytes(F, more[i][1]) \o Bytes(F, more[i][2])
  BY ExpansionsFacts DEF Expanded
<1>2. Len(rules) \in Nat /\ Len(more) \in Nat
  BY TableLength
<1> HIDE DEF E, F
<1>3. ASSUME NEW i \in 1 .. Len(rules), \A j \in 1 .. i - 1 : j \in S
      PROVE  i \in S
  <2>1. \A h \in {1, 2} : Bytes(F, rules[i][h]) = Bytes(E, rules[i][h])
    <3> TAKE h \in {1, 2}
    <3>1. rules[i][h] \in Nat /\ rules[i][h] < NLit + i - 1
      BY TableRule, AlphabetFacts
    <3>2. CASE rules[i][h] < NLit
      BY <3>2 DEF Bytes
    <3>3. CASE ~(rules[i][h] < NLit)
      <4>1. Position(rules[i][h]) \in 1 .. i - 1
        BY <3>1, <3>3, AlphabetFacts DEF Position
      <4> QED
        BY <1>3, <3>3, <4>1 DEF Bytes
    <3> QED
      BY <3>2, <3>3
  <2>2. i \in 1 .. Len(more) /\ more[i] = rules[i]
    BY <1>2
  <2>3. F[i] = Bytes(F, rules[i][1]) \o Bytes(F, rules[i][2])
    BY <1>1, <2>2
  <2>4. E[i] = Bytes(E, rules[i][1]) \o Bytes(E, rules[i][2])
    BY <1>1
  <2>5. Bytes(F, rules[i][1]) = Bytes(E, rules[i][1]) /\ Bytes(F, rules[i][2]) = Bytes(E, rules[i][2])
    BY <2>1
  <2>6. F[i] = E[i]
    BY <2>3, <2>4, <2>5, Zenon
  <2> QED
    BY <2>6
<1>4. \A i \in 1 .. Len(rules) : i \in S
  <2> HIDE DEF S
  <2> QED
    BY <1>2, <1>3, StrongInductionUpTo
<1> QED
  BY <1>4 DEF E, F

----------------------------------------------------------------------------
(* The bytes of a token list. *)

\* The bytes so far and those of one more token.
JoinedWith(exps, w, s) == w \o Bytes(exps, s)

\* f computes the bytes of tokens, one token at a time.
Joins(exps, tokens, f) ==
  /\ f[0] = <<>>
  /\ \A k \in 1 .. Len(tokens) : f[k] = JoinedWith(exps, f[k - 1], tokens[k])

\* The loop of Joined has a function that satisfies it.
LEMMA JoinedLoop ==
  ASSUME NEW exps, NEW tokens, Len(tokens) \in Nat
  PROVE  \E f : Joins(exps, tokens, f) /\ Joined(exps, tokens) = f[Len(tokens)]
<1> DEFINE N == Len(tokens)
           G(f, n) == f = [k \in 0 .. n |-> IF k = 0 THEN <<>>
                                            ELSE JoinedWith(exps, f[k - 1], tokens[k])]
           S == {n \in Nat : \E f : G(f, n)}
<1>1. 0 \in S
  <2>1. G([k \in 0 .. 0 |-> <<>>], 0)
    OBVIOUS
  <2> QED
    BY <2>1
<1>2. ASSUME NEW n \in S PROVE n + 1 \in S
  <2>1. PICK f : G(f, n)
    OBVIOUS
  <2> DEFINE h == [k \in 0 .. n + 1 |-> IF k = n + 1 THEN JoinedWith(exps, f[n], tokens[k])
                                        ELSE f[k]]
  <2>2. \A k \in 0 .. n + 1 : h[k] = IF k = 0 THEN <<>> ELSE JoinedWith(exps, h[k - 1], tokens[k])
    <3> TAKE k \in 0 .. n + 1
    <3>1. CASE k = 0
      BY <2>1, <3>1
    <3>2. CASE k = n + 1
      BY <3>2, <2>1
    <3>3. CASE k \in 1 .. n
      <4>1. h[k] = f[k] /\ h[k - 1] = f[k - 1]
        BY <3>3
      <4>2. f[k] = JoinedWith(exps, f[k - 1], tokens[k])
        BY <2>1, <3>3
      <4> QED
        BY <4>1, <4>2, <3>3
    <3> QED
      BY <3>1, <3>2, <3>3
  <2>3. h = [k \in 0 .. n + 1 |-> h[k]]
    OBVIOUS
  <2> HIDE DEF h
  <2>4. G(h, n + 1)
    BY <2>2, <2>3
  <2> QED
    BY <2>4
<1>3. S = Nat
  <2>1. S \in SUBSET Nat
    OBVIOUS
  <2> HIDE DEF S
  <2> QED
    BY <1>1, <1>2, <2>1, Induction
<1> DEFINE f == CHOOSE f : G(f, N)
<1>4. G(f, N)
  BY <1>3
<1>5. Joined(exps, tokens) = f[N]
  BY DEF Joined, JoinedWith
<1> HIDE DEF f
<1>6. Joins(exps, tokens, f)
  BY <1>4 DEF Joins
<1> QED
  BY <1>5, <1>6

\* Every such function computes Joined.
LEMMA JoinedUnique ==
  ASSUME NEW exps, NEW tokens, Len(tokens) \in Nat, NEW f, Joins(exps, tokens, f)
  PROVE  Joined(exps, tokens) = f[Len(tokens)]
<1>1. PICK h : Joins(exps, tokens, h) /\ Joined(exps, tokens) = h[Len(tokens)]
  BY JoinedLoop
<1> DEFINE S == {k \in Nat : h[k] = f[k]}
<1>2. 0 \in S
  BY <1>1 DEF Joins
<1>3. ASSUME NEW k \in 0 .. Len(tokens) - 1, k \in S PROVE k + 1 \in S
  <2>1. k + 1 \in 1 .. Len(tokens) /\ (k + 1) - 1 = k
    OBVIOUS
  <2> QED
    BY <1>1, <1>3, <2>1 DEF Joins
<1>4. \A k \in 0 .. Len(tokens) : k \in S
  <2> HIDE DEF S
  <2> QED
    BY <1>2, <1>3, InductionUpTo
<1> QED
  BY <1>1, <1>4

\* No token has no bytes.
LEMMA JoinedEmpty ==
  ASSUME NEW exps
  PROVE  Joined(exps, <<>>) = <<>>
<1>1. Joins(exps, <<>>, [k \in 0 .. 0 |-> <<>>])
  BY DEF Joins
<1> QED
  BY <1>1, JoinedUnique

\* One more token brings its bytes.
LEMMA JoinedAppend ==
  ASSUME NEW exps, NEW A, NEW tokens \in Seq(A), NEW s \in A
  PROVE  Joined(exps, Append(tokens, s)) = Joined(exps, tokens) \o Bytes(exps, s)
<1> DEFINE n == Len(tokens)
           more == Append(tokens, s)
<1>1. PICK f : Joins(exps, tokens, f) /\ Joined(exps, tokens) = f[n]
  BY JoinedLoop
<1> DEFINE h == [k \in 0 .. n + 1 |-> IF k = n + 1 THEN JoinedWith(exps, f[n], s) ELSE f[k]]
<1>2. /\ Len(more) = n + 1 /\ more[n + 1] = s /\ n \in Nat
      /\ \A k \in 1 .. n : more[k] = tokens[k]
  OBVIOUS
<1> HIDE DEF more
<1>3. Joins(exps, more, h)
  <2>1. h[0] = <<>>
    BY <1>1, <1>2 DEF Joins
  <2>2. ASSUME NEW k \in 1 .. n + 1 PROVE h[k] = JoinedWith(exps, h[k - 1], more[k])
    <3>1. CASE k = n + 1
      BY <3>1, <1>2
    <3>2. CASE k \in 1 .. n
      <4>1. h[k] = f[k] /\ h[k - 1] = f[k - 1]
        BY <3>2, <1>2
      <4> QED
        BY <4>1, <3>2, <1>1, <1>2 DEF Joins
    <3> QED
      BY <3>1, <3>2, <1>2
  <2> QED
    BY <2>1, <2>2, <1>2 DEF Joins
<1>4. Joined(exps, more) = h[n + 1]
  BY <1>2, <1>3, JoinedUnique
<1> QED
  BY <1>1, <1>2, <1>4 DEF more, JoinedWith

\* Tokens that a table of n rules knows.
KnownTokens(n, tokens) ==
  tokens \in Seq(Nat) /\ \A k \in 1 .. Len(tokens) : tokens[k] < NLit + n

\* Known tokens have bytes, at least one each, and rules appended later change nothing.
LEMMA JoinedFacts ==
  ASSUME NEW exps \in Seq(Phrase), NEW more \in Seq(Phrase),
         Len(exps) <= Len(more), \A i \in 1 .. Len(exps) : more[i] = exps[i],
         NEW tokens, KnownTokens(Len(exps), tokens)
  PROVE  /\ Joined(exps, tokens) \in Seq(Literal)
         /\ Len(tokens) <= Len(Joined(exps, tokens))
         /\ Joined(more, tokens) = Joined(exps, tokens)
<1> DEFINE N == Len(tokens)
<1>0. Len(tokens) \in Nat
  BY DEF KnownTokens
<1>1. PICK f : Joins(exps, tokens, f) /\ Joined(exps, tokens) = f[N]
  BY ONLY <1>0, JoinedLoop, Zenon
<1>2. PICK h : Joins(more, tokens, h) /\ Joined(more, tokens) = h[N]
  BY ONLY <1>0, JoinedLoop, Zenon
<1>3. N \in Nat /\ \A k \in 1 .. N : tokens[k] \in Nat /\ tokens[k] < NLit + Len(exps)
  BY DEF KnownTokens
<1> DEFINE S == {k \in Nat : f[k] \in Seq(Literal) /\ k <= Len(f[k]) /\ h[k] = f[k]}
<1>4. 0 \in S
  <2>1. f[0] = <<>> /\ h[0] = <<>>
    BY <1>1, <1>2 DEF Joins
  <2>2. <<>> \in Seq(Literal) /\ Len(<<>>) = 0
    OBVIOUS
  <2> HIDE DEF S
  <2>3. f[0] \in Seq(Literal) /\ 0 <= Len(f[0]) /\ h[0] = f[0]
    BY <2>1, <2>2
  <2> QED
    BY <2>3 DEF S
<1>5. ASSUME NEW k \in 0 .. N - 1, k \in S PROVE k + 1 \in S
  <2> DEFINE b == Bytes(exps, tokens[k + 1])
  <2>1. k + 1 \in 1 .. N /\ (k + 1) - 1 = k
    BY <1>3
  <2>2. b \in Phrase /\ Bytes(more, tokens[k + 1]) = b
    BY <1>3, <2>1, BytesKnown
  <2>3. f[k + 1] = f[k] \o b /\ h[k + 1] = h[k] \o b
    BY <1>1, <1>2, <2>1, <2>2 DEF Joins, JoinedWith
  <2> HIDE DEF b
  <2>4. b \in Seq(Literal) /\ Len(b) \in Nat /\ Len(b) >= 1
    BY <2>2, PhraseConcat DEF Phrase
  <2>5. f[k] \in Seq(Literal) /\ k <= Len(f[k]) /\ h[k] = f[k]
    BY <1>5
  <2>6. f[k + 1] \in Seq(Literal) /\ Len(f[k + 1]) = Len(f[k]) + Len(b)
    BY <2>3, <2>4, <2>5
  <2>7. k + 1 <= Len(f[k + 1])
    BY <2>4, <2>5, <2>6
  <2>8. h[k + 1] = f[k + 1] /\ k + 1 \in Nat
    BY <2>3, <2>5
  <2> QED
    BY <2>6, <2>7, <2>8
<1>6. \A k \in 0 .. N : k \in S
  <2> HIDE DEF S
  <2> QED
    BY <1>3, <1>4, <1>5, InductionUpTo
<1> QED
  BY <1>1, <1>2, <1>3, <1>6

----------------------------------------------------------------------------
(* Garbage collection. *)

\* A component of the survivor at place p is renamed to a symbol below p's new symbol.
LEMMA RenamedOlder ==
  ASSUME NEW rules \in Table, NEW survivors \in Seq(Nat), RemapOK(rules, survivors),
         NEW p \in 1 .. Len(survivors), NEW h \in {1, 2}
  PROVE  /\ Renamed(survivors, rules[survivors[p]][h]) \in Symbol
         /\ Renamed(survivors, rules[survivors[p]][h]) < Id(p)
<1> DEFINE i == survivors[p]
           s == rules[i][h]
<1>1. i \in 1 .. Len(rules) /\ i \in Nat
  BY DEF RemapOK
<1>2. s \in 0 .. (MaxSyms - 1) /\ s < NLit + i - 1
  BY <1>1, TableRule
<1>3. Len(survivors) \in Nat /\ Len(survivors) <= MaxRules
  BY DEF RemapOK
<1>4. CASE s < NLit
  <2>1. Renamed(survivors, s) = s
    BY <1>4 DEF Renamed
  <2> QED
    BY <2>1, <1>2, <1>3, <1>4, AlphabetFacts, SMTT(30) DEF Symbol, Id
<1>5. CASE ~(s < NLit)
  <2>1. s \notin Literal
    BY <1>5, <1>2, AlphabetFacts DEF Literal
  <2>2. s \in {rules[i][1], rules[i][2]}
    OBVIOUS
  <2>3. Position(s) \in Components(rules, i)
    BY <2>1, <2>2 DEF Components
  <2>4. Position(s) \in Kept(survivors)
    BY <2>3 DEF RemapOK
  <2>5. \E q \in 1 .. Len(survivors) : survivors[q] = Position(s)
    BY <2>4 DEF Kept
  <2> DEFINE q == CHOOSE q \in 1 .. Len(survivors) : survivors[q] = Position(s)
  <2>6. q \in 1 .. Len(survivors) /\ survivors[q] = Position(s)
    BY <2>5
  <2>7. Renamed(survivors, s) = Id(q)
    BY <1>5 DEF Renamed
  <2> HIDE DEF q
  <2>8. survivors[q] < survivors[p] /\ survivors[q] \in Nat /\ survivors[p] \in Nat
    <3>1. survivors[q] = s - NLit + 1
      BY <2>6 DEF Position
    <3> HIDE DEF s
    <3>2. survivors[q] \in Nat /\ survivors[q] < i
      BY <3>1, <1>1, <1>2, <1>5, AlphabetFacts
    <3> QED
      BY <3>2, <1>1
  <2>9. q < p
    <3>1. p < q => survivors[p] < survivors[q]
      BY <2>6 DEF RemapOK, Ascending
    <3> QED
      BY <3>1, <2>6, <2>8
  <2> QED
    BY <2>6, <2>7, <2>9, <1>3, AlphabetFacts DEF Id, Symbol
<1> QED
  BY <1>4, <1>5

\* Garbage collection leaves a closed table, one rule per survivor (`apply_gc`).
LEMMA RemapTable ==
  ASSUME NEW rules \in Table, NEW survivors \in Seq(Nat), RemapOK(rules, survivors)
  PROVE  Remap(rules, survivors) \in Table /\ Len(Remap(rules, survivors)) = Len(survivors)
<1> DEFINE new == Remap(rules, survivors)
           n   == Len(survivors)
<1>1. n \in Nat /\ n <= MaxRules
  BY DEF RemapOK
<1>2. \A p \in 1 .. n : /\ new[p] \in Pair
                        /\ new[p][1] < Id(p) /\ new[p][2] < Id(p)
  <2> TAKE p \in 1 .. n
  <2>1. new[p] = <<Renamed(survivors, rules[survivors[p]][1]),
                   Renamed(survivors, rules[survivors[p]][2])>>
    BY DEF Remap
  <2> QED
    BY <2>1, RenamedOlder DEF Pair
<1>3. new = [p \in 1 .. n |-> new[p]]
  BY DEF Remap
<1> HIDE DEF new
<1>4. new \in Seq(Pair) /\ Len(new) = n
  BY <1>1, <1>2, <1>3
<1>5. Closed(new)
  BY <1>2, <1>4 DEF Closed, RuleOK
<1>6. new \in Table
  BY <1>1, <1>4, <1>5 DEF Table
<1> QED
  BY <1>4, <1>6 DEF new


\* After a garbage collection every survivor stands for the bytes it stood for
\* (`apply_gc`: the phrase of a rule is not in the record, only its place).
LEMMA ExpansionsRemap ==
  ASSUME NEW rules \in Table, NEW survivors \in Seq(Nat), RemapOK(rules, survivors)
  PROVE  \A p \in 1 .. Len(survivors) :
           Expansions(Remap(rules, survivors))[p] = Expansions(rules)[survivors[p]]
<1> DEFINE new == Remap(rules, survivors)
           E   == Expansions(rules)
           F   == Expansions(new)
           n   == Len(survivors)
           S   == {p \in Nat : F[p] = E[survivors[p]]}
<1>1. new \in Table /\ Len(new) = n /\ n \in Nat
  BY RemapTable
<1>2. /\ \A i \in 1 .. Len(rules) : E[i] = Bytes(E, rules[i][1]) \o Bytes(E, rules[i][2])
      /\ \A p \in 1 .. n : F[p] = Bytes(F, new[p][1]) \o Bytes(F, new[p][2])
  BY <1>1, ExpansionsFacts DEF Expanded
<1>3. \A p \in 1 .. n : /\ new[p][1] = Renamed(survivors, rules[survivors[p]][1])
                        /\ new[p][2] = Renamed(survivors, rules[survivors[p]][2])
  BY DEF Remap
<1> HIDE DEF E, F, new
<1>4. ASSUME NEW p \in 1 .. n, \A q \in 1 .. p - 1 : q \in S
      PROVE  p \in S
  <2> DEFINE i == survivors[p]
  <2>1. i \in 1 .. Len(rules)
    BY DEF RemapOK
  <2>2. ASSUME NEW h \in {1, 2} PROVE Bytes(F, Renamed(survivors, rules[i][h])) = Bytes(E, rules[i][h])
    <3> DEFINE s == rules[i][h]
               r == Renamed(survivors, s)
    <3>1. s \in Nat /\ r \in Nat /\ r < Id(p)
      <4>1. s \in Nat
        BY <2>1, TableRule, AlphabetFacts
      <4>2. r \in Symbol /\ r < Id(p)
        BY RenamedOlder
      <4> QED
        BY <4>1, <4>2, AlphabetFacts DEF Symbol
    <3>2. CASE s < NLit
      BY <3>2 DEF Renamed, Bytes
    <3>3. CASE ~(s < NLit)
      <4>1. s \notin Literal
        BY <3>1, <3>3, AlphabetFacts DEF Literal
      <4>2. Position(s) \in Components(rules, i)
        BY <4>1 DEF Components
      <4>3. \E q \in 1 .. n : survivors[q] = Position(s)
        BY <4>2 DEF RemapOK, Kept
      <4> DEFINE q == CHOOSE q \in 1 .. n : survivors[q] = Position(s)
      <4>4. q \in 1 .. n /\ survivors[q] = Position(s)
        BY <4>3
      <4>5. r = Id(q)
        BY <3>3 DEF Renamed
      <4> HIDE DEF q, r, s
      <4>6. ~(r < NLit) /\ Position(r) = q /\ q \in 1 .. p - 1
        BY <3>1, <4>4, <4>5, <1>1, AlphabetFacts DEF Id, Position
      <4>7. F[q] = E[survivors[q]]
        BY <4>6, <1>4
      <4>8. Bytes(F, r) = F[q] /\ Bytes(E, s) = E[Position(s)]
        BY <4>6, <3>3 DEF Bytes
      <4> QED
        BY <4>4, <4>7, <4>8 DEF r, s
    <3> QED
      BY <3>2, <3>3
  <2>3. /\ Bytes(F, new[p][1]) = Bytes(E, rules[i][1])
        /\ Bytes(F, new[p][2]) = Bytes(E, rules[i][2])
    BY <1>3, <2>2
  <2>4. F[p] = Bytes(F, new[p][1]) \o Bytes(F, new[p][2])
    BY <1>2
  <2>5. E[i] = Bytes(E, rules[i][1]) \o Bytes(E, rules[i][2])
    BY <1>2, <2>1
  <2>6. F[p] = E[i]
    BY <2>3, <2>4, <2>5, Zenon
  <2> QED
    BY <2>6
<1>5. \A p \in 1 .. n : p \in S
  <2> HIDE DEF S
  <2> QED
    BY <1>1, <1>4, StrongInductionUpTo
<1> QED
  BY <1>5 DEF E, F, new

----------------------------------------------------------------------------
(* Unfolding a chunk. *)

\* Tokens that the table knows unfold to bytes, at least one each, and to the same ones
\* whatever is appended to the table later.
LEMMA UnfoldFacts ==
  ASSUME NEW rules \in Table, NEW more \in Table, Len(rules) <= Len(more),
         \A i \in 1 .. Len(rules) : more[i] = rules[i],
         NEW tokens, KnownTokens(Len(rules), tokens)
  PROVE  /\ Unfold(tokens, rules) \in Seq(Literal)
         /\ Len(tokens) <= Len(Unfold(tokens, rules))
         /\ Unfold(tokens, more) = Unfold(tokens, rules)
<1>1. /\ Expansions(rules) \in Seq(Phrase) /\ Len(Expansions(rules)) = Len(rules)
      /\ Expansions(more) \in Seq(Phrase) /\ Len(Expansions(more)) = Len(more)
  BY ExpansionsFacts DEF Expanded
<1>2. \A i \in 1 .. Len(rules) : Expansions(more)[i] = Expansions(rules)[i]
  BY ExpansionsPrefix
<1> QED
  BY <1>1, <1>2, JoinedFacts DEF Unfold


----------------------------------------------------------------------------
(* The encoder. *)

\* The parameters of the encoder, as facts.
LEMMA EncoderFacts ==
  /\ MaxPhrase \in Nat /\ MaxPhrase >= 2
  /\ MinPairCount \in Nat \ {0}
  /\ MaxMerges \in Nat
BY EncoderAssumption

\* `more` is `rules` with rules appended.
Extends(rules, more) ==
  Len(rules) <= Len(more) /\ \A i \in 1 .. Len(rules) : more[i] = rules[i]

\* A nonempty bounded set of numbers has a greatest element.
LEMMA MaxFacts ==
  ASSUME NEW m \in Nat, NEW S \in SUBSET (0 .. m), S # {}
  PROVE  Max(S) \in S /\ \A x \in S : Max(S) >= x
<1> DEFINE T == {m - x : x \in S}
<1>1. T \in SUBSET Nat /\ T # {}
  <2>1. \A x \in S : x \in 0 .. m /\ m - x \in Nat
    OBVIOUS
  <2>2. T \in SUBSET Nat
    BY <2>1
  <2>3. PICK x \in S : TRUE
    OBVIOUS
  <2>4. m - x \in T
    BY <2>3
  <2> QED
    BY <2>2, <2>4
<1>2. PICK n \in T : \A k \in T : n <= k
  <2> HIDE DEF T
  <2> QED
    BY <1>1, LeastNumber, Zenon
<1>3. PICK y \in S : n = m - y
  BY <1>2
<1>4. \A x \in S : y >= x
  <2> TAKE x \in S
  <2>1. m - x \in T /\ x \in Nat /\ y \in Nat
    BY <1>3
  <2> QED
    BY <1>2, <1>3, <2>1
<1>5. \E x \in S : \A z \in S : x >= z
  BY <1>3, <1>4
<1> QED
  BY <1>5 DEF Max

----------------------------------------------------------------------------
(* Splicing. *)

\* f is a run of Splice.
SpliceRun(syms, p, id, f) ==
  /\ f[0] = [at |-> 1, out |-> <<>>]
  /\ \A k \in 1 .. Len(syms) : f[k] = SpliceAt(syms, p, id, f[k - 1])
  /\ Splice(syms, p, id) = f[Len(syms)].out

\* Splice has a run.
LEMMA SpliceLoop ==
  ASSUME NEW syms, Len(syms) \in Nat, NEW p, NEW id
  PROVE  \E f : SpliceRun(syms, p, id, f)
<1> DEFINE N == Len(syms)
           G(f, n) == f = [k \in 0 .. n |-> IF k = 0 THEN [at |-> 1, out |-> <<>>]
                                            ELSE SpliceAt(syms, p, id, f[k - 1])]
           S == {n \in Nat : \E f : G(f, n)}
<1>1. 0 \in S
  <2>1. G([k \in 0 .. 0 |-> [at |-> 1, out |-> <<>>]], 0)
    OBVIOUS
  <2> QED
    BY <2>1
<1>2. ASSUME NEW n \in S PROVE n + 1 \in S
  <2>1. PICK f : G(f, n)
    OBVIOUS
  <2> DEFINE h == [k \in 0 .. n + 1 |-> IF k = n + 1 THEN SpliceAt(syms, p, id, f[n]) ELSE f[k]]
  <2>2. \A k \in 0 .. n + 1 : h[k] = IF k = 0 THEN [at |-> 1, out |-> <<>>] ELSE SpliceAt(syms, p, id, h[k - 1])
    <3> TAKE k \in 0 .. n + 1
    <3>1. CASE k = 0
      BY <2>1, <3>1
    <3>2. CASE k = n + 1
      BY <3>2, <2>1
    <3>3. CASE k \in 1 .. n
      <4>1. h[k] = f[k] /\ h[k - 1] = f[k - 1]
        BY <3>3
      <4>2. f[k] = SpliceAt(syms, p, id, f[k - 1])
        BY <2>1, <3>3
      <4> QED
        BY <4>1, <4>2, <3>3
    <3> QED
      BY <3>1, <3>2, <3>3
  <2>3. h = [k \in 0 .. n + 1 |-> h[k]]
    OBVIOUS
  <2> HIDE DEF h
  <2>4. G(h, n + 1)
    BY <2>2, <2>3
  <2> QED
    BY <2>4
<1>3. S = Nat
  <2>1. S \in SUBSET Nat
    OBVIOUS
  <2> HIDE DEF S
  <2> QED
    BY <1>1, <1>2, <2>1, Induction
<1> DEFINE f == CHOOSE f : G(f, N)
<1>4. N \in Nat
  OBVIOUS
<1>5. G(f, N)
  BY <1>3, <1>4
<1>6. Splice(syms, p, id) = f[N].out
  BY DEF Splice
<1> HIDE DEF f
<1>7. f[0] = [at |-> 1, out |-> <<>>]
  BY <1>4, <1>5
<1>8. \A k \in 1 .. N : f[k] = SpliceAt(syms, p, id, f[k - 1])
  BY <1>4, <1>5
<1>9. SpliceRun(syms, p, id, f)
  BY <1>6, <1>7, <1>8 DEF SpliceRun
<1> QED
  BY <1>9

\* What Splice has done before its k-th look: it stands behind the k-th symbol at least,
\* and what it has written has the bytes of what it has read.
SpliceAtInv(exps, syms, at, out, k) ==
  /\ at \in 1 .. Len(syms) + 1 /\ at > k
  /\ KnownTokens(Len(exps), out)
  /\ Joined(exps, out) = Joined(exps, SubSeq(syms, 1, at - 1))

SpliceInv(exps, syms, s, k) ==
  \E at, out : s = [at |-> at, out |-> out] /\ SpliceAtInv(exps, syms, at, out, k)

\* One more symbol of a list.
LEMMA PrefixGrows ==
  ASSUME NEW A, NEW syms \in Seq(A), NEW i \in 1 .. Len(syms)
  PROVE  /\ SubSeq(syms, 1, i) = Append(SubSeq(syms, 1, i - 1), syms[i])
         /\ SubSeq(syms, 1, i - 1) \in Seq(A) /\ syms[i] \in A
OBVIOUS

\* Appending a known token.
LEMMA KnownAppend ==
  ASSUME NEW n \in Nat, NEW tokens, KnownTokens(n, tokens), NEW s \in Nat, s < NLit + n
  PROVE  KnownTokens(n, Append(tokens, s)) /\ tokens \in Seq(Nat)
BY DEF KnownTokens

\* The first of known tokens are known.
LEMMA KnownPrefix ==
  ASSUME NEW n \in Nat, NEW tokens, KnownTokens(n, tokens), NEW k \in 0 .. Len(tokens)
  PROVE  KnownTokens(n, SubSeq(tokens, 1, k)) /\ Len(SubSeq(tokens, 1, k)) = k
<1>1. tokens \in Seq(Nat)
  BY DEF KnownTokens
<1>2. SubSeq(tokens, 1, k) \in Seq(Nat) /\ Len(SubSeq(tokens, 1, k)) = k
      /\ \A i \in 1 .. k : SubSeq(tokens, 1, k)[i] = tokens[i]
  BY <1>1
<1> QED
  BY <1>1, <1>2 DEF KnownTokens

\* One look of Splice.
LEMMA SpliceStep ==
  ASSUME NEW exps \in Seq(Phrase), NEW syms, KnownTokens(Len(exps), syms),
         NEW p, NEW id \in Nat, id < NLit + Len(exps),
         Bytes(exps, id) = Bytes(exps, p[1]) \o Bytes(exps, p[2]),
         NEW k \in 1 .. Len(syms), NEW s, SpliceInv(exps, syms, s, k - 1)
  PROVE  SpliceInv(exps, syms, SpliceAt(syms, p, id, s), k)
<1>0. PICK at, out : s = [at |-> at, out |-> out] /\ SpliceAtInv(exps, syms, at, out, k - 1)
  BY DEF SpliceInv
<1> SUFFICES \E at2, out2 : /\ SpliceAt(syms, p, id, [at |-> at, out |-> out])
                                 = [at |-> at2, out |-> out2]
                           /\ SpliceAtInv(exps, syms, at2, out2, k)
  BY <1>0 DEF SpliceInv
<1> DEFINE n == Len(syms)
           t == SpliceAt(syms, p, id, [at |-> at, out |-> out])
           hit == <<syms[at], syms[at + 1]>> = p
<1>1. /\ syms \in Seq(Nat) /\ n \in Nat
      /\ \A i \in 1 .. n : syms[i] \in Nat /\ syms[i] < NLit + Len(exps)
  BY DEF KnownTokens
<1>2. /\ at \in 1 .. n + 1 /\ at > k - 1 /\ at \in Nat
      /\ out \in Seq(Nat) /\ KnownTokens(Len(exps), out)
      /\ Joined(exps, out) = Joined(exps, SubSeq(syms, 1, at - 1))
  BY <1>0, <1>1 DEF SpliceAtInv, KnownTokens
<1>3. CASE at > n
  <2>1. t = [at |-> at, out |-> out]
    BY <1>3 DEF SpliceAt
  <2>2. SpliceAtInv(exps, syms, at, out, k)
    BY <1>3, <1>1, <1>2 DEF SpliceAtInv
  <2> QED
    BY <2>1, <2>2
<1>4. CASE at <= n /\ ~(at < n /\ hit)
  <2>1. t = [at |-> at + 1, out |-> Append(out, syms[at])]
    BY <1>1, <1>2, <1>4 DEF SpliceAt
  <2>2. at \in 1 .. n /\ (at + 1) - 1 = at
    BY <1>1, <1>2, <1>4
  <2>3. KnownTokens(Len(exps), Append(out, syms[at]))
    <3>1. syms[at] \in Nat /\ syms[at] < NLit + Len(exps) /\ Len(exps) \in Nat
      BY <1>1, <2>2
    <3>2. KnownTokens(Len(exps), out)
      BY <1>2
    <3> QED
      BY ONLY <3>1, <3>2, KnownAppend
  <2>4. Joined(exps, Append(out, syms[at])) = Joined(exps, out) \o Bytes(exps, syms[at])
    BY <1>1, <1>2, <2>2, JoinedAppend
  <2>5. Joined(exps, SubSeq(syms, 1, at)) =
          Joined(exps, SubSeq(syms, 1, at - 1)) \o Bytes(exps, syms[at])
    BY <1>1, <2>2, PrefixGrows, JoinedAppend, ZenonT(60)
  <2>6. Joined(exps, Append(out, syms[at])) = Joined(exps, SubSeq(syms, 1, (at + 1) - 1))
    BY <1>2, <2>2, <2>4, <2>5
  <2>7. at + 1 \in 1 .. n + 1 /\ at + 1 > k
    BY <1>2, <2>2
  <2>8. SpliceAtInv(exps, syms, at + 1, Append(out, syms[at]), k)
    BY <2>3, <2>6, <2>7 DEF SpliceAtInv
  <2> QED
    BY <2>1, <2>8
<1>5. CASE at < n /\ hit
  <2>1. t = [at |-> at + 2, out |-> Append(out, id)]
    BY <1>1, <1>2, <1>5 DEF SpliceAt
  <2>2. at \in 1 .. n /\ at + 1 \in 1 .. n /\ (at + 1) - 1 = at /\ (at + 2) - 1 = at + 1
    <3> HIDE DEF hit
    <3> QED
      BY <1>1, <1>2, <1>5, SMTT(30)
  <2>3. KnownTokens(Len(exps), Append(out, id))
    BY <1>2, KnownAppend
  <2> DEFINE before == Joined(exps, SubSeq(syms, 1, at - 1))
             left   == Bytes(exps, syms[at])
             right  == Bytes(exps, syms[at + 1])
  <2>4. Joined(exps, Append(out, id)) = before \o (left \o right)
    <3>1. Joined(exps, Append(out, id)) = Joined(exps, out) \o Bytes(exps, id)
      BY <1>2, JoinedAppend
    <3>2. p[1] = syms[at] /\ p[2] = syms[at + 1]
      BY <1>5
    <3> QED
      BY <3>1, <3>2, <1>2
  <2>5. Joined(exps, SubSeq(syms, 1, at)) = before \o left
    BY <1>1, <2>2, PrefixGrows, JoinedAppend, ZenonT(60)
  <2>6. Joined(exps, SubSeq(syms, 1, at + 1)) = (before \o left) \o right
    <3>1. SubSeq(syms, 1, at + 1) = Append(SubSeq(syms, 1, at), syms[at + 1])
          /\ SubSeq(syms, 1, at) \in Seq(Nat)
      BY <1>1, <2>2, PrefixGrows
    <3> QED
      BY <1>1, <2>2, <2>5, <3>1, JoinedAppend
  <2>7. before \in Seq(Literal) /\ left \in Seq(Literal) /\ right \in Seq(Literal)
    <3>1. at - 1 \in 0 .. n
      BY <1>1, <2>2
    <3>2. KnownTokens(Len(exps), SubSeq(syms, 1, at - 1))
      BY <3>1, KnownPrefix
    <3>3. \A x \in Nat : x < NLit + Len(exps) => Bytes(exps, x) \in Seq(Literal)
      BY BytesKnown, SMTT(30) DEF Phrase
    <3>4. before \in Seq(Literal)
      BY <3>2, JoinedFacts
    <3> QED
      BY <3>3, <3>4, <1>1, <2>2
  <2> HIDE DEF before, left, right
  <2>8. before \o (left \o right) = (before \o left) \o right
    BY <2>7, BytesAssociative
  <2>9. Joined(exps, Append(out, id)) = Joined(exps, SubSeq(syms, 1, (at + 2) - 1))
    BY <2>2, <2>4, <2>6, <2>8
  <2>10. at + 2 \in 1 .. n + 1 /\ at + 2 > k
    BY <1>1, <1>2, <2>2
  <2>11. SpliceAtInv(exps, syms, at + 2, Append(out, id), k)
    BY <2>3, <2>9, <2>10 DEF SpliceAtInv
  <2> QED
    BY <2>1, <2>11
<1>6. \/ at > n
      \/ at <= n /\ ~(at < n /\ hit)
      \/ at < n /\ hit
  <2> HIDE DEF hit
  <2> QED
    BY <1>1, <1>2
<1> QED
  BY <1>3, <1>4, <1>5, <1>6, Zenon

\* Replacing a pair by a symbol with the pair's bytes changes no byte of the list.
LEMMA SpliceFacts ==
  ASSUME NEW exps \in Seq(Phrase), NEW syms, KnownTokens(Len(exps), syms),
         NEW p, NEW id \in Nat, id < NLit + Len(exps),
         Bytes(exps, id) = Bytes(exps, p[1]) \o Bytes(exps, p[2])
  PROVE  /\ KnownTokens(Len(exps), Splice(syms, p, id))
         /\ Joined(exps, Splice(syms, p, id)) = Joined(exps, syms)
<1> DEFINE N == Len(syms)
<1>1. syms \in Seq(Nat) /\ Len(syms) \in Nat
  BY DEF KnownTokens
<1>2. PICK f : SpliceRun(syms, p, id, f)
  BY <1>1, SpliceLoop
<1> DEFINE S == {k \in Nat : SpliceInv(exps, syms, f[k], k)}
<1>3. 0 \in S
  <2>1. KnownTokens(Len(exps), <<>>) /\ SubSeq(syms, 1, 0) = <<>>
    BY <1>1 DEF KnownTokens
  <2>2. SpliceAtInv(exps, syms, 1, <<>>, 0)
    <3>1. 1 - 1 = 0 /\ 1 \in 1 .. N + 1 /\ 1 > 0
      BY <1>1
    <3> QED
      BY <2>1, <3>1 DEF SpliceAtInv
  <2>3. SpliceInv(exps, syms, f[0], 0)
    BY <1>2, <2>2 DEF SpliceRun, SpliceInv
  <2> QED
    BY <2>3
<1>4. ASSUME NEW k \in 0 .. N - 1, k \in S PROVE k + 1 \in S
  <2>1. k + 1 \in 1 .. N /\ (k + 1) - 1 = k /\ k + 1 \in Nat
    BY <1>1
  <2>2. SpliceInv(exps, syms, f[k], (k + 1) - 1)
    BY <1>4, <2>1
  <2>3. SpliceInv(exps, syms, SpliceAt(syms, p, id, f[k]), k + 1)
    BY <2>1, <2>2, SpliceStep
  <2>4. f[k + 1] = SpliceAt(syms, p, id, f[k])
    BY <1>2, <2>1 DEF SpliceRun
  <2> QED
    BY <2>1, <2>3, <2>4
<1>5. \A k \in 0 .. N : k \in S
  <2> HIDE DEF S
  <2> QED
    BY <1>1, <1>3, <1>4, InductionUpTo
<1>6. SpliceInv(exps, syms, f[N], N)
  BY <1>1, <1>5
<1>7. PICK at, out : f[N] = [at |-> at, out |-> out] /\ SpliceAtInv(exps, syms, at, out, N)
  BY <1>6 DEF SpliceInv
<1>8. at = N + 1 /\ SubSeq(syms, 1, N) = syms
  BY <1>1, <1>7 DEF SpliceAtInv
<1>9. Joined(exps, out) = Joined(exps, SubSeq(syms, 1, N))
  <2>1. (N + 1) - 1 = N
    BY <1>1
  <2> QED
    BY <1>7, <1>8, <2>1 DEF SpliceAtInv
<1>10. Splice(syms, p, id) = out
  BY <1>2, <1>7 DEF SpliceRun
<1>11. KnownTokens(Len(exps), out)
  BY <1>7 DEF SpliceAtInv
<1> QED
  BY <1>8, <1>9, <1>10, <1>11

----------------------------------------------------------------------------
(* The pair index and the trie. *)

\* Every entry names a key of the list, by the symbol of its place.
Names(index, keys) ==
  \A q \in DOMAIN index : \E i \in 1 .. Len(keys) : keys[i] = q /\ index[q] = Id(i)

\* And every nonempty key has an entry.
Indexes(index, keys) ==
  /\ Names(index, keys)
  /\ DOMAIN index = {keys[i] : i \in 1 .. Len(keys)} \ {<<>>}

\* `new` holds the old entries and one for each nonempty key, which replaces an old one.
Entered(index, keys, from, new) ==
  /\ DOMAIN new = DOMAIN index \cup ({keys[i] : i \in from .. Len(keys)} \ {<<>>})
  /\ \A q \in DOMAIN new :
       \/ \E j \in from .. Len(keys) : keys[j] = q /\ new[q] = Id(j)
       \/ q \in DOMAIN index /\ new[q] = index[q]

\* What EnterFrom leaves of the old entries and makes of the new ones.
LEMMA EnterFacts ==
  ASSUME NEW index, NEW keys, Len(keys) \in Nat, NEW from \in Nat \ {0}
  PROVE  Entered(index, keys, from, EnterFrom(index, keys, from))
<1> DEFINE fresh == {keys[i] : i \in from .. Len(keys)} \ {<<>>}
           places(k) == {i \in from .. Len(keys) : keys[i] = k}
           new == EnterFrom(index, keys, from)
<1>1. new = [k \in DOMAIN index \cup fresh |-> IF k \in fresh THEN Id(Max(places(k))) ELSE index[k]]
  BY DEF EnterFrom
<1>2. ASSUME NEW q \in fresh PROVE Max(places(q)) \in from .. Len(keys) /\ keys[Max(places(q))] = q
  <2>1. places(q) # {}
    OBVIOUS
  <2>2. places(q) \in SUBSET (0 .. Len(keys))
    OBVIOUS
  <2>3. Max(places(q)) \in places(q)
    <3> HIDE DEF places
    <3> QED
      BY <2>1, <2>2, MaxFacts
  <2> QED
    BY <2>3
<1>3. DOMAIN new = DOMAIN index \cup fresh
  BY <1>1
<1>4. ASSUME NEW q \in DOMAIN new
      PROVE  \/ \E j \in from .. Len(keys) : keys[j] = q /\ new[q] = Id(j)
             \/ q \in DOMAIN index /\ new[q] = index[q]
  <2>1. CASE q \in fresh
    <3> HIDE DEF new, fresh, places
    <3>1. new[q] = Id(Max(places(q)))
      BY <1>1, <2>1
    <3> QED
      BY <1>2, <2>1, <3>1
  <2>2. CASE q \notin fresh
    <3> HIDE DEF new, fresh, places
    <3> QED
      BY <1>1, <1>3, <1>4, <2>2
  <2> QED
    BY <2>1, <2>2
<1> HIDE DEF new
<1> QED
  BY <1>3, <1>4 DEF Entered, new

\* Entering keys keeps entries right, also when the list has grown meanwhile.
LEMMA EnterNames ==
  ASSUME NEW index, NEW old, NEW keys, Len(keys) \in Nat, Len(old) \in Nat,
         Names(index, old), Extends(old, keys), NEW from \in Nat \ {0}
  PROVE  Names(EnterFrom(index, keys, from), keys)
<1> DEFINE new == EnterFrom(index, keys, from)
<1> SUFFICES ASSUME NEW q \in DOMAIN new
             PROVE  \E i \in 1 .. Len(keys) : keys[i] = q /\ new[q] = Id(i)
  BY DEF Names
<1>0. Entered(index, keys, from, new)
  BY EnterFacts
<1> HIDE DEF new
<1>1. \/ \E j \in from .. Len(keys) : keys[j] = q /\ new[q] = Id(j)
      \/ q \in DOMAIN index /\ new[q] = index[q]
  BY <1>0 DEF Entered
<1>2. CASE \E j \in from .. Len(keys) : keys[j] = q /\ new[q] = Id(j)
  BY <1>2
<1>3. CASE q \in DOMAIN index /\ new[q] = index[q]
  <2>1. PICK i \in 1 .. Len(old) : old[i] = q /\ index[q] = Id(i)
    BY <1>3 DEF Names
  <2>2. i \in 1 .. Len(keys) /\ keys[i] = q
    BY <2>1 DEF Extends
  <2> QED
    BY <1>3, <2>1, <2>2
<1> QED
  BY <1>1, <1>2, <1>3

\* Entering the keys appended to a list indexes the longer list.
LEMMA EnterIndexes ==
  ASSUME NEW index, NEW old, NEW keys, Len(keys) \in Nat, Len(old) \in Nat,
         Indexes(index, old), Extends(old, keys)
  PROVE  Indexes(EnterFrom(index, keys, Len(old) + 1), keys)
<1> DEFINE from == Len(old) + 1
           new == EnterFrom(index, keys, from)
<1>1. from \in Nat \ {0}
  OBVIOUS
<1>2. Names(new, keys)
  BY <1>1, EnterNames DEF Indexes
<1>3. DOMAIN new = DOMAIN index \cup ({keys[i] : i \in from .. Len(keys)} \ {<<>>})
  <2>1. Entered(index, keys, from, new)
    BY <1>1, EnterFacts
  <2> HIDE DEF new
  <2> QED
    BY <2>1 DEF Entered
<1>4. DOMAIN index = {old[i] : i \in 1 .. Len(old)} \ {<<>>}
  BY DEF Indexes
<1>5. {keys[i] : i \in 1 .. Len(keys)} =
        {old[i] : i \in 1 .. Len(old)} \cup {keys[i] : i \in from .. Len(keys)}
  <2>1. \A i \in 1 .. Len(old) : i \in 1 .. Len(keys) /\ keys[i] = old[i]
    BY DEF Extends
  <2>2. \A i \in 1 .. Len(keys) : i \in 1 .. Len(old) \/ i \in from .. Len(keys)
    OBVIOUS
  <2>3. \A i \in from .. Len(keys) : i \in 1 .. Len(keys)
    OBVIOUS
  <2> HIDE DEF from
  <2> QED
    BY <2>1, <2>2, <2>3
<1> HIDE DEF new, from
<1>6. DOMAIN new = {keys[i] : i \in 1 .. Len(keys)} \ {<<>>}
  BY <1>3, <1>4, <1>5
<1> QED
  BY <1>2, <1>6 DEF Indexes, new, from

\* Clearing the maps first indexes the list from nothing.
LEMMA EnterAll ==
  ASSUME NEW keys, Len(keys) \in Nat
  PROVE  Indexes(EnterFrom(NoMap, keys, 1), keys)
<1>1. Indexes(NoMap, <<>>) /\ Len(<<>>) = 0
  BY DEF Indexes, Names, NoMap
<1>2. Extends(<<>>, keys)
  BY DEF Extends
<1>3. Indexes(EnterFrom(NoMap, keys, Len(<<>>) + 1), keys)
  BY <1>1, <1>2, EnterIndexes
<1> QED
  BY <1>1, <1>3

\* The phrases of a table: one per rule, its bytes or <<>>.
LEMMA PhrasesFacts ==
  ASSUME NEW rules \in Table
  PROVE  /\ Len(Phrases(rules)) = Len(rules) /\ Len(Phrases(rules)) \in Nat
         /\ \A i \in 1 .. Len(rules) :
              Phrases(rules)[i] = IF Len(Expansions(rules)[i]) <= MaxPhrase
                                  THEN Expansions(rules)[i] ELSE <<>>
BY TableLength DEF Phrases

\* Appending rules appends phrases.
LEMMA PhrasesExtend ==
  ASSUME NEW rules \in Table, NEW more \in Table, Extends(rules, more)
  PROVE  Extends(Phrases(rules), Phrases(more))
<1>1. \A i \in 1 .. Len(rules) : Expansions(more)[i] = Expansions(rules)[i]
  BY ExpansionsPrefix DEF Extends
<1>2. \A i \in 1 .. Len(rules) : i \in 1 .. Len(more)
  BY TableLength DEF Extends
<1>3. \A i \in 1 .. Len(rules) : Phrases(more)[i] = Phrases(rules)[i]
  BY <1>1, <1>2, PhrasesFacts
<1> QED
  BY <1>3, PhrasesFacts DEF Extends

----------------------------------------------------------------------------
(* Tokenising a chunk with the trie. *)

\* The longest match is a phrase of the trie and lies within the chunk.
LEMMA LongestFacts ==
  ASSUME NEW trie, NEW raw, Len(raw) \in Nat, NEW i \in 1 .. Len(raw) + 1
  PROVE  /\ LongestAt(trie, raw, i) \in 0 .. (Len(raw) - i + 1)
         /\ LongestAt(trie, raw, i) > 0 =>
              SubSeq(raw, i, i + LongestAt(trie, raw, i) - 1) \in DOMAIN trie
<1> DEFINE m == Len(raw) - i + 1
           S == {0} \cup {n \in 1 .. m : SubSeq(raw, i, i + n - 1) \in DOMAIN trie}
<1>1. m \in Nat /\ S \in SUBSET (0 .. m) /\ S # {}
  OBVIOUS
<1>2. Max(S) \in S
  <2> HIDE DEF S, m
  <2> QED
    BY <1>1, MaxFacts
<1>3. LongestAt(trie, raw, i) = Max(S)
  BY DEF LongestAt
<1> QED
  BY <1>1, <1>2, <1>3

\* Two neighbouring pieces of a list.
LEMMA PiecesJoin ==
  ASSUME NEW raw \in Seq(Literal), NEW i \in 1 .. Len(raw), NEW n \in 1 .. (Len(raw) - i + 1)
  PROVE  /\ SubSeq(raw, 1, i - 1) \o SubSeq(raw, i, i + n - 1) = SubSeq(raw, 1, i + n - 1)
         /\ SubSeq(raw, 1, i - 1) \in Seq(Literal)
         /\ SubSeq(raw, i, i + n - 1) \in Seq(Literal)
         /\ Len(SubSeq(raw, i, i + n - 1)) = n
OBVIOUS

\* Every symbol the trie gives out is one the table knows, with the phrase for its bytes.
LEMMA TrieSymbol ==
  ASSUME NEW rules \in Table, NEW trie, Names(trie, Phrases(rules)),
         NEW w \in DOMAIN trie, w # <<>>
  PROVE  /\ trie[w] \in Nat /\ trie[w] < NLit + Len(rules)
         /\ Bytes(Expansions(rules), trie[w]) = w
<1>1. PICK i \in 1 .. Len(Phrases(rules)) : Phrases(rules)[i] = w /\ trie[w] = Id(i)
  BY DEF Names
<1>2. i \in 1 .. Len(rules)
  BY <1>1, PhrasesFacts
<1>3. Expansions(rules)[i] = w
  BY <1>1, <1>2, PhrasesFacts
<1>4. Id(i) \in Nat /\ Known(rules, Id(i)) /\ Position(Id(i)) = i /\ ~(Id(i) < NLit)
  BY <1>2, RuleSymbol
<1> QED
  BY <1>1, <1>3, <1>4 DEF Known, Bytes

\* f is a run of ReuseVia.
ReuseRun(trie, raw, f) ==
  /\ f[0] = [at |-> 1, out |-> <<>>]
  /\ \A k \in 1 .. Len(raw) : f[k] = ReuseAt(trie, raw, f[k - 1])
  /\ ReuseVia(trie, raw) = f[Len(raw)].out

\* ReuseVia has a run.
LEMMA ReuseLoop ==
  ASSUME NEW raw, Len(raw) \in Nat, NEW trie
  PROVE  \E f : ReuseRun(trie, raw, f)
<1> DEFINE N == Len(raw)
           G(f, n) == f = [k \in 0 .. n |-> IF k = 0 THEN [at |-> 1, out |-> <<>>]
                                            ELSE ReuseAt(trie, raw, f[k - 1])]
           S == {n \in Nat : \E f : G(f, n)}
<1>1. 0 \in S
  <2>1. G([k \in 0 .. 0 |-> [at |-> 1, out |-> <<>>]], 0)
    OBVIOUS
  <2> QED
    BY <2>1
<1>2. ASSUME NEW n \in S PROVE n + 1 \in S
  <2>1. PICK f : G(f, n)
    OBVIOUS
  <2> DEFINE h == [k \in 0 .. n + 1 |-> IF k = n + 1 THEN ReuseAt(trie, raw, f[n]) ELSE f[k]]
  <2>2. \A k \in 0 .. n + 1 : h[k] = IF k = 0 THEN [at |-> 1, out |-> <<>>] ELSE ReuseAt(trie, raw, h[k - 1])
    <3> TAKE k \in 0 .. n + 1
    <3>1. CASE k = 0
      BY <2>1, <3>1
    <3>2. CASE k = n + 1
      BY <3>2, <2>1
    <3>3. CASE k \in 1 .. n
      <4>1. h[k] = f[k] /\ h[k - 1] = f[k - 1]
        BY <3>3
      <4>2. f[k] = ReuseAt(trie, raw, f[k - 1])
        BY <2>1, <3>3
      <4> QED
        BY <4>1, <4>2, <3>3
    <3> QED
      BY <3>1, <3>2, <3>3
  <2>3. h = [k \in 0 .. n + 1 |-> h[k]]
    OBVIOUS
  <2> HIDE DEF h
  <2>4. G(h, n + 1)
    BY <2>2, <2>3
  <2> QED
    BY <2>4
<1>3. S = Nat
  <2>1. S \in SUBSET Nat
    OBVIOUS
  <2> HIDE DEF S
  <2> QED
    BY <1>1, <1>2, <2>1, Induction
<1> DEFINE f == CHOOSE f : G(f, N)
<1>4. N \in Nat
  OBVIOUS
<1>5. G(f, N)
  BY <1>3, <1>4
<1>6. ReuseVia(trie, raw) = f[N].out
  BY DEF ReuseVia
<1> HIDE DEF f
<1>7. f[0] = [at |-> 1, out |-> <<>>]
  BY <1>4, <1>5
<1>8. \A k \in 1 .. N : f[k] = ReuseAt(trie, raw, f[k - 1])
  BY <1>4, <1>5
<1>9. ReuseRun(trie, raw, f)
  BY <1>6, <1>7, <1>8 DEF ReuseRun
<1> QED
  BY <1>9

\* What ReuseVia has done before its k-th look: it stands behind the k-th byte at least,
\* and what it has written unfolds to the bytes it has passed.
ReuseAtInv(rules, raw, at, out, k) ==
  /\ at \in 1 .. Len(raw) + 1 /\ at > k
  /\ KnownTokens(Len(rules), out)
  /\ Unfold(out, rules) = SubSeq(raw, 1, at - 1)

ReuseInv(rules, raw, s, k) ==
  \E at, out : s = [at |-> at, out |-> out] /\ ReuseAtInv(rules, raw, at, out, k)

\* One look of ReuseVia.
LEMMA ReuseStep ==
  ASSUME NEW rules \in Table, NEW trie, Names(trie, Phrases(rules)), NEW raw \in Seq(Literal),
         NEW k \in 1 .. Len(raw), NEW s, ReuseInv(rules, raw, s, k - 1)
  PROVE  ReuseInv(rules, raw, ReuseAt(trie, raw, s), k)
<1>0. PICK at, out : s = [at |-> at, out |-> out] /\ ReuseAtInv(rules, raw, at, out, k - 1)
  BY DEF ReuseInv
<1> SUFFICES \E at2, out2 : /\ ReuseAt(trie, raw, [at |-> at, out |-> out])
                                 = [at |-> at2, out |-> out2]
                           /\ ReuseAtInv(rules, raw, at2, out2, k)
  BY <1>0 DEF ReuseInv
<1> DEFINE n == LongestAt(trie, raw, at)
           t == ReuseAt(trie, raw, [at |-> at, out |-> out])
           E == Expansions(rules)
<1>1. /\ at \in 1 .. Len(raw) + 1 /\ at > k - 1 /\ at \in Nat
      /\ out \in Seq(Nat) /\ KnownTokens(Len(rules), out)
      /\ Joined(E, out) = SubSeq(raw, 1, at - 1)
      /\ Len(raw) \in Nat /\ Len(rules) \in Nat
  BY <1>0, TableLength DEF ReuseAtInv, KnownTokens, Unfold
<1>2. n \in 0 .. (Len(raw) - at + 1) /\ (n > 0 => SubSeq(raw, at, at + n - 1) \in DOMAIN trie)
  BY <1>1, LongestFacts
<1> HIDE DEF n
<1>3. CASE at > Len(raw)
  <2>1. t = [at |-> at, out |-> out]
    BY <1>3 DEF ReuseAt
  <2>2. ReuseAtInv(rules, raw, at, out, k)
    BY <1>3, <1>1 DEF ReuseAtInv, Unfold
  <2> QED
    BY <2>1, <2>2
<1>4. CASE at <= Len(raw) /\ n >= 2
  <2> DEFINE w == SubSeq(raw, at, at + n - 1)
             id == trie[w]
  <2>1. at \in 1 .. Len(raw) /\ n \in 1 .. (Len(raw) - at + 1)
    BY <1>1, <1>2, <1>4
  <2>2. t = [at |-> at + n, out |-> Append(out, id)]
    <3>1. ~(at > Len(raw)) /\ n >= 2
      BY <1>1, <1>4
    <3> QED
      BY <3>1 DEF ReuseAt, n
  <2>3. w \in DOMAIN trie
    BY <1>2, <2>1
  <2>4. /\ SubSeq(raw, 1, at - 1) \o w = SubSeq(raw, 1, at + n - 1)
        /\ Len(w) = n
    BY <2>1, PiecesJoin
  <2>5. w # <<>>
    BY <2>1, <2>4
  <2> HIDE DEF w
  <2>6. id \in Nat /\ id < NLit + Len(rules) /\ Bytes(E, id) = w
    BY <2>3, <2>5, TrieSymbol
  <2> HIDE DEF id
  <2>7. KnownTokens(Len(rules), Append(out, id))
    BY <1>1, <2>6, KnownAppend
  <2>8. Joined(E, Append(out, id)) = Joined(E, out) \o w
    BY <1>1, <2>6, JoinedAppend
  <2>9. Joined(E, Append(out, id)) = SubSeq(raw, 1, (at + n) - 1)
    BY <1>1, <2>4, <2>8, SMTT(30)
  <2>10. at + n \in 1 .. Len(raw) + 1 /\ at + n > k
    BY <1>1, <2>1
  <2>11. ReuseAtInv(rules, raw, at + n, Append(out, id), k)
    BY <2>7, <2>9, <2>10 DEF ReuseAtInv, Unfold
  <2> QED
    BY <2>2, <2>11
<1>5. CASE at <= Len(raw) /\ ~(n >= 2)
  <2> DEFINE b == raw[at]
  <2>1. at \in 1 .. Len(raw)
    BY <1>1, <1>5
  <2>2. t = [at |-> at + 1, out |-> Append(out, b)]
    <3>1. ~(at > Len(raw)) /\ ~(n >= 2)
      BY <1>1, <1>5
    <3> QED
      BY <3>1 DEF ReuseAt, n
  <2>3. b \in Literal
    BY <2>1
  <2>4. b \in Nat /\ b < NLit /\ b < NLit + Len(rules) /\ Bytes(E, b) = <<b>>
    BY <1>1, <2>3, AlphabetFacts, SMTT(30) DEF Literal, Bytes
  <2>5. SubSeq(raw, 1, at - 1) \o <<b>> = SubSeq(raw, 1, at)
    BY <2>1
  <2> HIDE DEF b
  <2>6. KnownTokens(Len(rules), Append(out, b))
    BY <1>1, <2>4, KnownAppend
  <2>7. Joined(E, Append(out, b)) = Joined(E, out) \o <<b>>
    BY <1>1, <2>4, JoinedAppend
  <2>8. Joined(E, Append(out, b)) = SubSeq(raw, 1, (at + 1) - 1)
    BY <1>1, <2>5, <2>7
  <2>9. at + 1 \in 1 .. Len(raw) + 1 /\ at + 1 > k
    BY <1>1, <2>1
  <2>10. ReuseAtInv(rules, raw, at + 1, Append(out, b), k)
    BY <2>6, <2>8, <2>9 DEF ReuseAtInv, Unfold
  <2> QED
    BY <2>2, <2>10
<1>6. at > Len(raw) \/ (at <= Len(raw) /\ n >= 2) \/ (at <= Len(raw) /\ ~(n >= 2))
  BY <1>1
<1> QED
  BY <1>3, <1>4, <1>5, <1>6, Zenon

\* Tokenising a chunk with a trie of known phrases loses nothing (`reuse_via`).
LEMMA ReuseFacts ==
  ASSUME NEW rules \in Table, NEW trie, Names(trie, Phrases(rules)), NEW raw \in Seq(Literal)
  PROVE  /\ KnownTokens(Len(rules), ReuseVia(trie, raw))
         /\ Unfold(ReuseVia(trie, raw), rules) = raw
<1> DEFINE N == Len(raw)
<1>1. Len(raw) \in Nat
  OBVIOUS
<1>2. PICK f : ReuseRun(trie, raw, f)
  BY <1>1, ReuseLoop
<1> DEFINE S == {k \in Nat : ReuseInv(rules, raw, f[k], k)}
<1>3. 0 \in S
  <2>1. KnownTokens(Len(rules), <<>>) /\ SubSeq(raw, 1, 0) = <<>>
    BY DEF KnownTokens
  <2>2. ReuseAtInv(rules, raw, 1, <<>>, 0)
    <3>1. 1 - 1 = 0 /\ 1 \in 1 .. N + 1 /\ 1 > 0
      BY <1>1
    <3> QED
      BY <2>1, <3>1, JoinedEmpty DEF ReuseAtInv, Unfold
  <2>3. ReuseInv(rules, raw, f[0], 0)
    BY <1>2, <2>2 DEF ReuseRun, ReuseInv
  <2> QED
    BY <2>3
<1>4. ASSUME NEW k \in 0 .. N - 1, k \in S PROVE k + 1 \in S
  <2>1. k + 1 \in 1 .. N /\ (k + 1) - 1 = k /\ k + 1 \in Nat
    BY <1>1
  <2>2. ReuseInv(rules, raw, f[k], (k + 1) - 1)
    BY <1>4, <2>1
  <2>3. ReuseInv(rules, raw, ReuseAt(trie, raw, f[k]), k + 1)
    BY <2>1, <2>2, ReuseStep
  <2>4. f[k + 1] = ReuseAt(trie, raw, f[k])
    BY <1>2, <2>1 DEF ReuseRun
  <2> QED
    BY <2>1, <2>3, <2>4
<1>5. \A k \in 0 .. N : k \in S
  <2> HIDE DEF S
  <2> QED
    BY <1>1, <1>3, <1>4, InductionUpTo
<1>6. ReuseInv(rules, raw, f[N], N)
  BY <1>1, <1>5
<1>7. PICK at, out : f[N] = [at |-> at, out |-> out] /\ ReuseAtInv(rules, raw, at, out, N)
  BY <1>6 DEF ReuseInv
<1>8. at - 1 = N /\ SubSeq(raw, 1, N) = raw
  BY <1>1, <1>7 DEF ReuseAtInv
<1>9. ReuseVia(trie, raw) = out
  BY <1>2, <1>7 DEF ReuseRun
<1> QED
  BY <1>7, <1>8, <1>9 DEF ReuseAtInv

----------------------------------------------------------------------------
(* Pair folding. *)

\* Entries stay right when the list grows.
LEMMA NamesExtend ==
  ASSUME NEW index, NEW old, NEW keys, Len(keys) \in Nat, Len(old) \in Nat,
         Names(index, old), Extends(old, keys)
  PROVE  Names(index, keys)
<1> SUFFICES ASSUME NEW q \in DOMAIN index
             PROVE  \E i \in 1 .. Len(keys) : keys[i] = q /\ index[q] = Id(i)
  BY DEF Names
<1>1. PICK i \in 1 .. Len(old) : old[i] = q /\ index[q] = Id(i)
  BY DEF Names
<1>2. i \in 1 .. Len(keys) /\ keys[i] = q
  BY <1>1 DEF Extends
<1> QED
  BY <1>1, <1>2

\* Growing twice is growing.
LEMMA ExtendsTransitive ==
  ASSUME NEW a, NEW b, NEW c, Len(a) \in Nat, Len(b) \in Nat, Len(c) \in Nat,
         Extends(a, b), Extends(b, c)
  PROVE  Extends(a, c)
BY DEF Extends

\* A pair that occurs often enough to be folded occurs.
LEMMA CountedPair ==
  ASSUME NEW syms, Len(syms) \in Nat, NEW p, ~(PairCount(syms, p) < MinPairCount)
  PROVE  p \in AdjacentPairs(syms)
<1> DEFINE places == {i \in 1 .. Len(syms) - 1 : <<syms[i], syms[i + 1]>> = p}
<1>1. SUFFICES ASSUME places = {} PROVE FALSE
  BY DEF AdjacentPairs
<1>2. Cardinality(places) = 0
  BY <1>1, FS_EmptySet
<1>3. PairCount(syms, p) = 0
  BY <1>2 DEF PairCount
<1> QED
  BY <1>3, EncoderFacts

\* A pair of neighbours among known tokens is a pair of known symbols.
LEMMA AdjacentKnown ==
  ASSUME NEW rules \in Table, NEW syms, KnownTokens(Len(rules), syms),
         NEW p \in AdjacentPairs(syms)
  PROVE  /\ p \in Pair
         /\ p[1] \in Nat /\ Known(rules, p[1])
         /\ p[2] \in Nat /\ Known(rules, p[2])
<1>1. PICK i \in 1 .. Len(syms) - 1 : p = <<syms[i], syms[i + 1]>>
  BY DEF AdjacentPairs
<1>2. syms \in Seq(Nat) /\ i \in 1 .. Len(syms) /\ i + 1 \in 1 .. Len(syms)
  BY DEF KnownTokens
<1>3. /\ syms[i] \in Nat /\ Known(rules, syms[i])
      /\ syms[i + 1] \in Nat /\ Known(rules, syms[i + 1])
  BY <1>2 DEF KnownTokens, Known
<1>4. syms[i] \in Symbol /\ syms[i + 1] \in Symbol
  BY <1>3, SymbolKinds
<1> QED
  BY <1>1, <1>3, <1>4 DEF Pair

\* The symbol of a rule has the bytes of the rule's pair.
LEMMA RuleBytes ==
  ASSUME NEW rules \in Table, NEW i \in 1 .. Len(rules)
  PROVE  /\ Id(i) \in Nat /\ Id(i) < NLit + Len(rules)
         /\ Bytes(Expansions(rules), Id(i)) = Expansions(rules)[i]
         /\ Bytes(Expansions(rules), Id(i)) =
              Bytes(Expansions(rules), rules[i][1]) \o Bytes(Expansions(rules), rules[i][2])
<1>1. Id(i) \in Nat /\ Known(rules, Id(i)) /\ Position(Id(i)) = i /\ ~(Id(i) < NLit)
  BY RuleSymbol
<1>2. Bytes(Expansions(rules), Id(i)) = Expansions(rules)[i]
  BY <1>1 DEF Bytes
<1>3. Expansions(rules)[i] =
        Bytes(Expansions(rules), rules[i][1]) \o Bytes(Expansions(rules), rules[i][2])
  BY ExpansionsFacts DEF Expanded
<1> QED
  BY <1>1, <1>2, <1>3 DEF Known

\* Replacing a rule's pair by the rule in a token list.
LEMMA SpliceRule ==
  ASSUME NEW rules \in Table, NEW syms, KnownTokens(Len(rules), syms),
         NEW i \in 1 .. Len(rules)
  PROVE  /\ KnownTokens(Len(rules), Splice(syms, rules[i], Id(i)))
         /\ Unfold(Splice(syms, rules[i], Id(i)), rules) = Unfold(syms, rules)
<1> DEFINE E == Expansions(rules)
           id == Id(i)
           p == rules[i]
<1>1. E \in Seq(Phrase) /\ Len(E) = Len(rules)
  BY ExpansionsFacts DEF Expanded
<1>2. id \in Nat /\ id < NLit + Len(E) /\ Bytes(E, id) = Bytes(E, p[1]) \o Bytes(E, p[2])
  BY <1>1, RuleBytes
<1>3. KnownTokens(Len(E), syms)
  BY <1>1
<1> HIDE DEF E, id, p
<1>4. KnownTokens(Len(E), Splice(syms, p, id)) /\ Joined(E, Splice(syms, p, id)) = Joined(E, syms)
  BY <1>1, <1>2, <1>3, SpliceFacts
<1> QED
  BY <1>1, <1>4 DEF Unfold, E, id, p

\* Known tokens stay known when the table grows.
LEMMA KnownMore ==
  ASSUME NEW m \in Nat, NEW n \in Nat, m <= n, NEW tokens, KnownTokens(m, tokens)
  PROVE  KnownTokens(n, tokens)
<1>1. tokens \in Seq(Nat) /\ \A k \in 1 .. Len(tokens) : tokens[k] \in Nat /\ tokens[k] < NLit + m
  BY DEF KnownTokens
<1>2. \A k \in 1 .. Len(tokens) : tokens[k] < NLit + n
  BY <1>1, AlphabetFacts
<1> QED
  BY <1>1, <1>2 DEF KnownTokens

\* What holds of the state of a fold: only rules of known symbols have been appended, the
\* tokens still unfold to the chunk, and the index is right for the table so far.
FoldsTo(rules0, index0, raw, learns, syms, rules, index, staged) ==
  /\ rules \in Table /\ Extends(rules0, rules)
  /\ KnownTokens(Len(rules), syms) /\ Unfold(syms, rules) = raw
  /\ Names(index, rules)
  /\ staged \subseteq Pair
  /\ ~learns => index = index0 /\ staged \cap DOMAIN index0 = {}

FoldState(syms, rules, index, staged, done) ==
  [syms |-> syms, rules |-> rules, index |-> index, staged |-> staged, done |-> done]

FoldInv(rules0, index0, raw, learns, p) ==
  \E syms, rules, index, staged, done :
    /\ p = FoldState(syms, rules, index, staged, done)
    /\ FoldsTo(rules0, index0, raw, learns, syms, rules, index, staged)

\* One merge.
LEMMA MergeFacts ==
  ASSUME NEW rules0, Len(rules0) \in Nat, NEW index0, NEW raw, NEW learns \in BOOLEAN,
         NEW syms, NEW rules, NEW index, NEW staged, NEW done,
         FoldsTo(rules0, index0, raw, learns, syms, rules, index, staged),
         Len(rules) < MaxRules, NEW best \in AdjacentPairs(syms)
  PROVE  FoldInv(rules0, index0, raw, learns,
                 MergePair(FoldState(syms, rules, index, staged, done), best, learns))
<1> DEFINE p == FoldState(syms, rules, index, staged, done)
           t == MergePair(p, best, learns)
<1>1. /\ rules \in Table /\ Extends(rules0, rules) /\ Len(rules) \in Nat
      /\ KnownTokens(Len(rules), syms) /\ Unfold(syms, rules) = raw
      /\ Names(index, rules) /\ staged \subseteq Pair
      /\ ~learns => index = index0 /\ staged \cap DOMAIN index0 = {}
  BY TableLength DEF FoldsTo
<1>2. CASE best \in DOMAIN index
  <2> DEFINE s == Splice(syms, best, index[best])
  <2>1. t = FoldState(s, rules, index, staged, done)
    BY <1>2 DEF MergePair, FoldState
  <2>2. PICK i \in 1 .. Len(rules) : rules[i] = best /\ index[best] = Id(i)
    BY <1>1, <1>2 DEF Names
  <2>3. KnownTokens(Len(rules), s) /\ Unfold(s, rules) = raw
    BY <1>1, <2>2, SpliceRule
  <2> HIDE DEF s
  <2>4. FoldsTo(rules0, index0, raw, learns, s, rules, index, staged)
    BY <1>1, <2>3 DEF FoldsTo
  <2> QED
    BY <2>1, <2>4 DEF FoldInv
<1>3. CASE best \notin DOMAIN index
  <2> DEFINE more == Append(rules, best)
             n == Len(rules) + 1
             s == Splice(syms, best, Id(n))
             ix == IF learns THEN EnterFrom(index, more, n) ELSE index
             st == staged \cup {best}
  <2>1. t = FoldState(s, more, ix, st, done)
    BY <1>3 DEF MergePair, FoldState
  <2>2. best \in Pair /\ Known(rules, best[1]) /\ Known(rules, best[2])
    BY <1>1, AdjacentKnown
  <2>3. /\ more \in Table /\ Len(more) = n /\ more[n] = best
        /\ \A i \in 1 .. Len(rules) : more[i] = rules[i]
    BY <1>1, <2>2, TableAppend
  <2>4. Len(more) \in Nat /\ n \in 1 .. Len(more) /\ n \in Nat \ {0} /\ Len(rules) <= Len(more)
    BY <1>1, <2>3
  <2> HIDE DEF more, n
  <2>5. Extends(rules, more)
    BY <2>3, <2>4 DEF Extends
  <2>6. Extends(rules0, more)
    BY <1>1, <2>4, <2>5, ExtendsTransitive
  <2>7. KnownTokens(Len(more), syms)
    BY <1>1, <2>4, KnownMore
  <2>8. Unfold(syms, more) = raw
    BY <1>1, <2>3, <2>4, UnfoldFacts
  <2>9. KnownTokens(Len(more), s) /\ Unfold(s, more) = raw
    BY <2>3, <2>4, <2>7, <2>8, SpliceRule
  <2>10. Names(ix, more)
    <3>1. Names(EnterFrom(index, more, n), more)
      BY <1>1, <2>4, <2>5, EnterNames
    <3>2. Names(index, more)
      BY <1>1, <2>4, <2>5, NamesExtend
    <3> QED
      BY <3>1, <3>2
  <2>11. st \subseteq Pair
    BY <1>1, <2>2
  <2>12. ~learns => ix = index0 /\ st \cap DOMAIN index0 = {}
    BY <1>1, <1>3
  <2> HIDE DEF s, ix, st
  <2>13. FoldsTo(rules0, index0, raw, learns, s, more, ix, st)
    BY <2>3, <2>6, <2>9, <2>10, <2>11, <2>12 DEF FoldsTo
  <2> QED
    BY <2>1, <2>13 DEF FoldInv
<1> QED
  BY <1>2, <1>3

\* One step of the loop.
LEMMA FoldStepFacts ==
  ASSUME NEW rules0, Len(rules0) \in Nat, NEW index0, NEW raw, NEW learns \in BOOLEAN,
         NEW p, FoldInv(rules0, index0, raw, learns, p)
  PROVE  FoldInv(rules0, index0, raw, learns, FoldStep(p, learns))
<1>1. PICK syms, rules, index, staged, done :
        /\ p = FoldState(syms, rules, index, staged, done)
        /\ FoldsTo(rules0, index0, raw, learns, syms, rules, index, staged)
  BY DEF FoldInv
<1>2. Len(syms) \in Nat
  BY <1>1 DEF FoldsTo, KnownTokens
<1> DEFINE best == BestPair(syms)
           stop == done \/ Len(syms) < 2 \/ ~CapOk(rules) \/ PairCount(syms, best) < MinPairCount
<1>3. FoldStep(p, learns) = IF stop THEN [p EXCEPT !.done = TRUE] ELSE MergePair(p, best, learns)
  BY <1>1 DEF FoldStep, FoldState
<1>4. CASE stop
  <2>1. FoldStep(p, learns) = FoldState(syms, rules, index, staged, TRUE)
    BY <1>1, <1>3, <1>4 DEF FoldState
  <2> QED
    BY <1>1, <2>1 DEF FoldInv
<1>5. CASE ~stop
  <2>1. Len(rules) < MaxRules /\ ~(PairCount(syms, best) < MinPairCount)
    BY <1>5 DEF CapOk
  <2>2. best \in AdjacentPairs(syms)
    BY <1>2, <2>1, CountedPair
  <2> HIDE DEF best
  <2>3. FoldInv(rules0, index0, raw, learns, MergePair(p, best, learns))
    BY <1>1, <2>1, <2>2, MergeFacts
  <2> QED
    BY <1>3, <1>5, <2>3
<1> QED
  BY <1>4, <1>5

\* f is a run of FoldPairs.
FoldRun(syms, rules, index, learns, f) ==
  /\ f[0] = FoldState(syms, rules, index, {}, FALSE)
  /\ \A k \in 1 .. MaxMerges : f[k] = FoldStep(f[k - 1], learns)
  /\ FoldPairs(syms, rules, index, learns) = f[MaxMerges]

\* FoldPairs has a run.
LEMMA FoldLoop ==
  ASSUME NEW syms, NEW rules, NEW index, NEW learns
  PROVE  \E f : FoldRun(syms, rules, index, learns, f)
<1> DEFINE init == FoldState(syms, rules, index, {}, FALSE)
<1> HIDE DEF init
<1> DEFINE N == MaxMerges
           G(f, n) == f = [k \in 0 .. n |-> IF k = 0 THEN init
                                            ELSE FoldStep(f[k - 1], learns)]
           S == {n \in Nat : \E f : G(f, n)}
<1>1. 0 \in S
  <2>1. G([k \in 0 .. 0 |-> init], 0)
    OBVIOUS
  <2> QED
    BY <2>1
<1>2. ASSUME NEW n \in S PROVE n + 1 \in S
  <2>1. PICK f : G(f, n)
    OBVIOUS
  <2> DEFINE h == [k \in 0 .. n + 1 |-> IF k = n + 1 THEN FoldStep(f[n], learns) ELSE f[k]]
  <2>2. \A k \in 0 .. n + 1 : h[k] = IF k = 0 THEN init ELSE FoldStep(h[k - 1], learns)
    <3> TAKE k \in 0 .. n + 1
    <3>1. CASE k = 0
      BY <2>1, <3>1
    <3>2. CASE k = n + 1
      BY <3>2, <2>1
    <3>3. CASE k \in 1 .. n
      <4>1. h[k] = f[k] /\ h[k - 1] = f[k - 1]
        BY <3>3
      <4>2. f[k] = FoldStep(f[k - 1], learns)
        BY <2>1, <3>3
      <4> QED
        BY <4>1, <4>2, <3>3
    <3> QED
      BY <3>1, <3>2, <3>3
  <2>3. h = [k \in 0 .. n + 1 |-> h[k]]
    OBVIOUS
  <2> HIDE DEF h
  <2>4. G(h, n + 1)
    BY <2>2, <2>3
  <2> QED
    BY <2>4
<1>3. S = Nat
  <2>1. S \in SUBSET Nat
    OBVIOUS
  <2> HIDE DEF S
  <2> QED
    BY <1>1, <1>2, <2>1, Induction
<1> DEFINE f == CHOOSE f : G(f, N)
<1>4. N \in Nat
  BY EncoderFacts
<1>5. G(f, N)
  BY <1>3, <1>4
<1>6. FoldPairs(syms, rules, index, learns) = f[N]
  BY DEF FoldPairs, FoldState, init
<1> HIDE DEF f
<1>7. f[0] = init
  BY <1>4, <1>5
<1>8. \A k \in 1 .. N : f[k] = FoldStep(f[k - 1], learns)
  BY <1>4, <1>5
<1>9. FoldRun(syms, rules, index, learns, f)
  BY <1>6, <1>7, <1>8 DEF FoldRun, init
<1> QED
  BY <1>9

\* Folding appends rules to a closed table and loses nothing (`bpe_engine` with the
\* callbacks of `invent` and of `fork_candidate`).
LEMMA FoldFacts ==
  ASSUME NEW rules \in Table, NEW index, Names(index, rules), NEW learns \in BOOLEAN,
         NEW syms, KnownTokens(Len(rules), syms)
  PROVE  FoldInv(rules, index, Unfold(syms, rules), learns,
                 FoldPairs(syms, rules, index, learns))
<1> DEFINE N == MaxMerges
           raw == Unfold(syms, rules)
<1>1. MaxMerges \in Nat /\ Len(rules) \in Nat
  BY EncoderFacts, TableLength
<1>2. PICK f : FoldRun(syms, rules, index, learns, f)
  BY FoldLoop
<1> DEFINE S == {k \in Nat : FoldInv(rules, index, raw, learns, f[k])}
<1>3. 0 \in S
  <2>1. Extends(rules, rules)
    BY DEF Extends
  <2>2. FoldsTo(rules, index, raw, learns, syms, rules, index, {})
    BY <2>1 DEF FoldsTo
  <2>3. FoldInv(rules, index, raw, learns, f[0])
    BY <1>2, <2>2 DEF FoldRun, FoldInv
  <2> QED
    BY <2>3
<1>4. ASSUME NEW k \in 0 .. N - 1, k \in S PROVE k + 1 \in S
  <2>1. k + 1 \in 1 .. N /\ (k + 1) - 1 = k /\ k + 1 \in Nat
    BY <1>1
  <2>2. FoldInv(rules, index, raw, learns, f[k])
    BY <1>4
  <2> HIDE DEF raw
  <2>3. FoldInv(rules, index, raw, learns, FoldStep(f[k], learns))
    BY <1>1, <2>2, FoldStepFacts
  <2>4. f[k + 1] = FoldStep(f[k], learns)
    BY <1>2, <2>1 DEF FoldRun
  <2> QED
    BY <2>1, <2>3, <2>4
<1>5. \A k \in 0 .. N : k \in S
  <2> HIDE DEF S
  <2> QED
    BY <1>1, <1>3, <1>4, InductionUpTo
<1>6. FoldInv(rules, index, raw, learns, f[N])
  BY <1>1, <1>5
<1> QED
  BY <1>2, <1>6 DEF FoldRun

----------------------------------------------------------------------------
(* Rebinding a fork's candidate on the live table. *)

\* A known symbol keeps its bytes when the table grows.
LEMMA BytesExtend ==
  ASSUME NEW rules \in Table, NEW more \in Table, Extends(rules, more),
         NEW s \in Nat, s < NLit + Len(rules)
  PROVE  /\ Bytes(Expansions(more), s) = Bytes(Expansions(rules), s)
         /\ Bytes(Expansions(rules), s) \in Phrase
<1> DEFINE E == Expansions(rules)
           F == Expansions(more)
<1>1. E \in Seq(Phrase) /\ Len(E) = Len(rules) /\ F \in Seq(Phrase) /\ Len(F) = Len(more)
  BY ExpansionsFacts DEF Expanded
<1>2. \A i \in 1 .. Len(rules) : F[i] = E[i]
  BY ExpansionsPrefix DEF Extends
<1> HIDE DEF E, F
<1>3. Len(E) <= Len(F) /\ s < NLit + Len(E)
  BY <1>1 DEF Extends
<1> QED
  BY <1>1, <1>2, <1>3, BytesKnown DEF E, F

\* Token lists whose tokens have the same bytes one by one have the same bytes.
LEMMA JoinedSame ==
  ASSUME NEW E, NEW F, NEW a, NEW b, Len(a) \in Nat, Len(b) = Len(a),
         \A k \in 1 .. Len(a) : Bytes(E, a[k]) = Bytes(F, b[k])
  PROVE  Joined(F, b) = Joined(E, a)
<1>1. PICK f : Joins(E, a, f) /\ Joined(E, a) = f[Len(a)]
  BY JoinedLoop
<1>2. Joins(F, b, f)
  BY <1>1 DEF Joins, JoinedWith
<1> QED
  BY <1>1, <1>2, JoinedUnique

\* The symbols of `live` are known, and have the bytes `exps` one by one.
Stands(rules, live, exps) ==
  /\ KnownTokens(Len(rules), live)
  /\ \A i \in 1 .. Len(live) : Bytes(Expansions(rules), live[i]) = exps[i]

\* `live` holds, for each of the first definitions of a fork, a symbol of the live table
\* with the same bytes.
Bound(rules0, index, defs, k, rules, staged, live) ==
  /\ rules \in Table /\ Extends(rules0, rules)
  /\ staged \cap DOMAIN index = {}
  /\ Len(live) <= k /\ Stands(rules, live, Expansions(defs))

BindState(rules, staged, live, full) ==
  [rules |-> rules, staged |-> staged, live |-> live, full |-> full]

BindInv(rules0, index, defs, k, p) ==
  \E rules, staged, live, full :
    /\ p = BindState(rules, staged, live, full)
    /\ Bound(rules0, index, defs, k, rules, staged, live)
    /\ full \/ Len(live) = k

\* A fork symbol whose definitions are bound becomes a live symbol with its bytes.
LEMMA ReboundFacts ==
  ASSUME NEW rules \in Table, NEW live, NEW exps, Stands(rules, live, exps),
         NEW s \in Nat, s < NLit + Len(live)
  PROVE  /\ Rebound(live, s) \in Nat /\ Rebound(live, s) < NLit + Len(rules)
         /\ Bytes(Expansions(rules), Rebound(live, s)) = Bytes(exps, s)
<1>1. /\ KnownTokens(Len(rules), live) /\ Len(live) \in Nat
      /\ \A i \in 1 .. Len(live) : Bytes(Expansions(rules), live[i]) = exps[i]
  BY DEF Stands, KnownTokens
<1>2. Len(rules) \in Nat /\ NLit \in Nat
  BY TableLength, AlphabetFacts
<1>3. CASE s < NLit
  BY <1>2, <1>3 DEF Rebound, Bytes
<1>4. CASE ~(s < NLit)
  <2> DEFINE i == Position(s)
  <2>1. i \in 1 .. Len(live)
    BY <1>1, <1>2, <1>4 DEF Position
  <2>2. Rebound(live, s) = live[i] /\ Bytes(exps, s) = exps[i]
    BY <1>4 DEF Rebound, Bytes
  <2> HIDE DEF i
  <2>3. live[i] \in Nat /\ live[i] < NLit + Len(rules)
    BY <1>1, <2>1 DEF KnownTokens
  <2> QED
    BY <1>1, <2>1, <2>2, <2>3
<1> QED
  BY <1>3, <1>4

\* One definition.
LEMMA BindStep ==
  ASSUME NEW g, NEW rules0 \in Table, Names(g.pairIndex, rules0), NEW defs \in Table,
         NEW k \in 1 .. Len(defs), NEW p, BindInv(rules0, g.pairIndex, defs, k - 1, p)
  PROVE  BindInv(rules0, g.pairIndex, defs, k, BindDef(g, p, defs[k]))
<1> DEFINE index == g.pairIndex
<1>1. PICK rules, staged, live, full :
        /\ p = BindState(rules, staged, live, full)
        /\ Bound(rules0, index, defs, k - 1, rules, staged, live)
        /\ full \/ Len(live) = k - 1
  BY DEF BindInv
<1>10. p = BindState(rules, staged, live, full)
  BY <1>1
<1>2. Len(defs) \in Nat /\ k \in Nat /\ k - 1 \in 0 .. Len(defs) /\ NLit \in Nat
  BY TableLength, AlphabetFacts
<1>3. /\ rules \in Table /\ Extends(rules0, rules) /\ staged \cap DOMAIN index = {}
      /\ KnownTokens(Len(rules), live) /\ Len(live) <= k - 1
      /\ Stands(rules, live, Expansions(defs))
      /\ \A i \in 1 .. Len(live) : Bytes(Expansions(rules), live[i]) = Expansions(defs)[i]
  BY <1>1 DEF Bound, Stands
<1>4. Len(live) \in Nat /\ Len(rules) \in Nat /\ live \in Seq(Nat)
  BY <1>3, TableLength DEF KnownTokens
<1> DEFINE def  == defs[k]
           left == Rebound(live, def[1])
           right == Rebound(live, def[2])
           pair == <<left, right>>
<1>5. /\ full => BindDef(g, p, def) = p
      /\ ~full /\ pair \in DOMAIN index =>
           BindDef(g, p, def) = BindState(rules, staged, Append(live, index[pair]), full)
      /\ ~full /\ pair \notin DOMAIN index /\ Len(rules) >= MaxRules =>
           BindDef(g, p, def) = BindState(rules, staged, live, TRUE)
      /\ ~full /\ pair \notin DOMAIN index /\ ~(Len(rules) >= MaxRules) =>
           BindDef(g, p, def) = BindState(Append(rules, pair), staged \cup {pair},
                                          Append(live, Id(Len(rules) + 1)), full)
  <2>1. p.rules = rules /\ p.staged = staged /\ p.live = live /\ p.full = full
    BY <1>10 DEF BindState
  <2>2. <<Rebound(p.live, def[1]), Rebound(p.live, def[2])>> = pair
    BY <2>1
  <2> HIDE DEF pair, def
  <2>3. full => BindDef(g, p, def) = p
    BY <2>1 DEF BindDef
  <2>4. ~full /\ pair \in DOMAIN index => BindDef(g, p, def) = [p EXCEPT !.live = Append(@, index[pair])]
    BY <2>1, <2>2 DEF BindDef
  <2>5. ~full /\ pair \notin DOMAIN index /\ Len(rules) >= MaxRules =>
          BindDef(g, p, def) = [p EXCEPT !.full = TRUE]
    BY <2>1, <2>2 DEF BindDef
  <2>6. ~full /\ pair \notin DOMAIN index /\ ~(Len(rules) >= MaxRules) =>
          BindDef(g, p, def) = [p EXCEPT !.rules  = Append(@, pair),
                                         !.staged = @ \cup {pair},
                                         !.live   = Append(@, Id(Len(p.rules) + 1))]
    BY <2>1, <2>2 DEF BindDef
  <2>7. ~full /\ pair \in DOMAIN index =>
          BindDef(g, p, def) = BindState(rules, staged, Append(live, index[pair]), full)
    BY <1>10, <2>4 DEF BindState
  <2>8. ~full /\ pair \notin DOMAIN index /\ Len(rules) >= MaxRules =>
          BindDef(g, p, def) = BindState(rules, staged, live, TRUE)
    BY <1>10, <2>5 DEF BindState
  <2>9. ~full /\ pair \notin DOMAIN index /\ ~(Len(rules) >= MaxRules) =>
          BindDef(g, p, def) = BindState(Append(rules, pair), staged \cup {pair},
                                         Append(live, Id(Len(rules) + 1)), full)
    BY <1>10, <2>1, <2>6 DEF BindState
  <2> QED
    BY <2>3, <2>7, <2>8, <2>9
<1>6. Bound(rules0, index, defs, k, rules, staged, live)
  BY <1>2, <1>3, <1>4 DEF Bound
<1>7. CASE full
  BY <1>1, <1>5, <1>6, <1>7 DEF BindInv
<1>8. CASE ~full
  <2>1. Len(live) = k - 1
    BY <1>1, <1>8
  <2>2. /\ def[1] \in Nat /\ def[1] < NLit + Len(live)
        /\ def[2] \in Nat /\ def[2] < NLit + Len(live)
    <3>1. def[1] \in Nat /\ def[1] < NLit + k - 1 /\ def[2] \in Nat /\ def[2] < NLit + k - 1
      BY TableRule
    <3> QED
      BY <1>2, <2>1, <3>1
  <2>3. /\ left \in Nat /\ left < NLit + Len(rules)
        /\ Bytes(Expansions(rules), left) = Bytes(Expansions(defs), def[1])
    BY <1>3, <2>2, ReboundFacts
  <2>4. /\ right \in Nat /\ right < NLit + Len(rules)
        /\ Bytes(Expansions(rules), right) = Bytes(Expansions(defs), def[2])
    BY <1>3, <2>2, ReboundFacts
  <2>5. Expansions(defs)[k] = Bytes(Expansions(defs), def[1]) \o Bytes(Expansions(defs), def[2])
    BY ExpansionsFacts DEF Expanded
  <2>6. pair \in Pair /\ Known(rules, pair[1]) /\ Known(rules, pair[2])
    BY <1>3, <2>3, <2>4, SymbolKinds DEF Pair, Known
  <2>7. pair[1] = left /\ pair[2] = right
    OBVIOUS
  <2> HIDE DEF left, right, pair, def
  <2>8. ASSUME NEW more \in Table, Extends(rules, more), NEW i \in 1 .. Len(more), more[i] = pair
        PROVE  /\ Id(i) \in Nat /\ Id(i) < NLit + Len(more)
               /\ Bytes(Expansions(more), Id(i)) = Expansions(defs)[k]
    <3>1. /\ Id(i) \in Nat /\ Id(i) < NLit + Len(more)
          /\ Bytes(Expansions(more), Id(i)) =
               Bytes(Expansions(more), left) \o Bytes(Expansions(more), right)
      BY <2>7, <2>8, RuleBytes
    <3>2. /\ Bytes(Expansions(more), left) = Bytes(Expansions(rules), left)
          /\ Bytes(Expansions(more), right) = Bytes(Expansions(rules), right)
      BY <1>3, <2>3, <2>4, <2>8, BytesExtend
    <3>3. Bytes(Expansions(more), Id(i)) = Expansions(defs)[k]
      BY <2>3, <2>4, <2>5, <3>1, <3>2, Zenon
    <3> QED
      BY <3>1, <3>3
  <2>9. ASSUME NEW more \in Table, Extends(rules, more), NEW new, new \cap DOMAIN index = {},
               NEW i \in 1 .. Len(more), more[i] = pair
        PROVE  BindInv(rules0, index, defs, k, BindState(more, new, Append(live, Id(i)), full))
    <3> DEFINE now == Append(live, Id(i))
    <3>1. Extends(rules0, more) /\ Len(more) \in Nat /\ Len(rules) <= Len(more)
      <4>1. Len(more) \in Nat /\ Len(rules0) \in Nat /\ Len(rules) \in Nat
        BY TableLength, <1>4
      <4> QED
        BY <1>3, <2>9, <4>1, ExtendsTransitive DEF Extends
    <3>2. /\ Id(i) \in Nat /\ Id(i) < NLit + Len(more)
          /\ Bytes(Expansions(more), Id(i)) = Expansions(defs)[k]
      BY <2>8, <2>9
    <3>3. /\ Len(now) = k /\ now[k] = Id(i)
          /\ \A j \in 1 .. k - 1 : now[j] = live[j]
      BY <1>2, <1>4, <2>1, <3>2
    <3>4. KnownTokens(Len(more), live)
      BY <1>3, <1>4, <3>1, KnownMore
    <3>5. KnownTokens(Len(more), now)
      BY <1>4, <3>1, <3>2, <3>4, KnownAppend
    <3> HIDE DEF now
    <3>6. ASSUME NEW j \in 1 .. k - 1
          PROVE  Bytes(Expansions(more), now[j]) = Expansions(defs)[j]
      <4>1. now[j] = live[j] /\ j \in 1 .. Len(live)
        BY <2>1, <3>3
      <4>2. live[j] \in Nat /\ live[j] < NLit + Len(rules)
        BY <1>3, <4>1 DEF KnownTokens
      <4>3. Bytes(Expansions(more), live[j]) = Bytes(Expansions(rules), live[j])
        BY <1>3, <2>9, <4>2, BytesExtend
      <4> QED
        BY <1>3, <4>1, <4>3
    <3>7. \A j \in 1 .. Len(now) : Bytes(Expansions(more), now[j]) = Expansions(defs)[j]
      <4>1. \A j \in 1 .. Len(now) : j \in 1 .. k - 1 \/ j = k
        BY <1>2, <3>3
      <4> QED
        BY <3>2, <3>3, <3>6, <4>1, Zenon
    <3>8. Len(now) <= k
      BY <1>2, <3>3
    <3>9. Bound(rules0, index, defs, k, more, new, now)
      BY <2>9, <3>1, <3>5, <3>7, <3>8 DEF Bound, Stands
    <3> QED
      BY <3>3, <3>9 DEF BindInv, now
  <2>10. Extends(rules, rules)
    BY DEF Extends
  <2>11. CASE pair \in DOMAIN index
    <3>1. PICK i \in 1 .. Len(rules0) : rules0[i] = pair /\ index[pair] = Id(i)
      BY <2>11 DEF Names
    <3>2. i \in 1 .. Len(rules) /\ rules[i] = pair
      BY <1>3, <1>4, <3>1, TableLength DEF Extends
    <3>3. BindInv(rules0, index, defs, k, BindState(rules, staged, Append(live, Id(i)), full))
      BY <1>3, <2>9, <2>10, <3>2
    <3>4. BindDef(g, p, def) = BindState(rules, staged, Append(live, Id(i)), full)
      BY <1>5, <1>8, <2>11, <3>1
    <3> QED
      BY <3>3, <3>4 DEF def
  <2>12. CASE pair \notin DOMAIN index /\ Len(rules) >= MaxRules
    <3>1. BindDef(g, p, def) = BindState(rules, staged, live, TRUE)
      BY <1>5, <1>8, <2>12
    <3> QED
      BY <1>6, <3>1 DEF BindInv, def
  <2>13. CASE pair \notin DOMAIN index /\ ~(Len(rules) >= MaxRules)
    <3> DEFINE more == Append(rules, pair)
               i    == Len(rules) + 1
    <3>1. Len(rules) < MaxRules
      BY <1>4, <2>13, AlphabetFacts
    <3>2. /\ more \in Table /\ Len(more) = i /\ more[i] = pair
          /\ \A j \in 1 .. Len(rules) : more[j] = rules[j]
      BY <1>3, <2>6, <3>1, TableAppend
    <3>3. Extends(rules, more) /\ i \in 1 .. Len(more)
      BY <1>4, <3>2 DEF Extends
    <3>4. (staged \cup {pair}) \cap DOMAIN index = {}
      BY <1>3, <2>13
    <3> HIDE DEF more, i
    <3>5. BindInv(rules0, index, defs, k, BindState(more, staged \cup {pair}, Append(live, Id(i)), full))
      BY <2>9, <3>2, <3>3, <3>4
    <3>6. BindDef(g, p, def) = BindState(more, staged \cup {pair}, Append(live, Id(i)), full)
      BY <1>5, <1>8, <2>13 DEF more, i
    <3> QED
      BY <3>5, <3>6 DEF def
  <2> QED
    BY <2>11, <2>12, <2>13
<1> QED
  BY <1>7, <1>8

\* f is a run of BindDefs.
BindRun(g, defs, f) ==
  /\ f[0] = BindState(g.rules, g.staged, <<>>, FALSE)
  /\ \A k \in 1 .. Len(defs) : f[k] = BindDef(g, f[k - 1], defs[k])
  /\ BindDefs(g, defs) = f[Len(defs)]

\* BindDefs has a run.
LEMMA BindLoop ==
  ASSUME NEW g, NEW defs, Len(defs) \in Nat
  PROVE  \E f : BindRun(g, defs, f)
<1> DEFINE init == BindState(g.rules, g.staged, <<>>, FALSE)
<1> HIDE DEF init
<1> DEFINE N == Len(defs)
           G(f, n) == f = [k \in 0 .. n |-> IF k = 0 THEN init
                                            ELSE BindDef(g, f[k - 1], defs[k])]
           S == {n \in Nat : \E f : G(f, n)}
<1>1. 0 \in S
  <2>1. G([k \in 0 .. 0 |-> init], 0)
    OBVIOUS
  <2> QED
    BY <2>1
<1>2. ASSUME NEW n \in S PROVE n + 1 \in S
  <2>1. PICK f : G(f, n)
    OBVIOUS
  <2> DEFINE h == [k \in 0 .. n + 1 |-> IF k = n + 1 THEN BindDef(g, f[n], defs[k]) ELSE f[k]]
  <2>2. \A k \in 0 .. n + 1 : h[k] = IF k = 0 THEN init ELSE BindDef(g, h[k - 1], defs[k])
    <3> TAKE k \in 0 .. n + 1
    <3>1. CASE k = 0
      BY <2>1, <3>1
    <3>2. CASE k = n + 1
      BY <3>2, <2>1
    <3>3. CASE k \in 1 .. n
      <4>1. h[k] = f[k] /\ h[k - 1] = f[k - 1]
        BY <3>3
      <4>2. f[k] = BindDef(g, f[k - 1], defs[k])
        BY <2>1, <3>3
      <4> QED
        BY <4>1, <4>2, <3>3
    <3> QED
      BY <3>1, <3>2, <3>3
  <2>3. h = [k \in 0 .. n + 1 |-> h[k]]
    OBVIOUS
  <2> HIDE DEF h
  <2>4. G(h, n + 1)
    BY <2>2, <2>3
  <2>5. n + 1 \in Nat
    OBVIOUS
  <2>6. \E e : G(e, n + 1)
    <3> HIDE DEF G
    <3> QED
      BY <2>4
  <2> QED
    BY <2>5, <2>6
<1>3. S = Nat
  <2>1. S \in SUBSET Nat
    OBVIOUS
  <2> HIDE DEF S
  <2> QED
    BY <1>1, <1>2, <2>1, Induction
<1> DEFINE f == CHOOSE f : G(f, N)
<1>4. N \in Nat
  OBVIOUS
<1>5. G(f, N)
  BY <1>3, <1>4
<1>6. BindDefs(g, defs) = f[N]
  BY DEF BindDefs, BindState, init
<1> HIDE DEF f
<1>7. f[0] = init
  BY <1>4, <1>5
<1>8. \A k \in 1 .. N : f[k] = BindDef(g, f[k - 1], defs[k])
  BY <1>4, <1>5
<1>9. BindRun(g, defs, f)
  BY <1>6, <1>7, <1>8 DEF BindRun, init
<1> QED
  BY <1>9

\* Binding a fork's definitions appends rules to the live table and, if there was room,
\* has a live symbol for every one of them (the loop of `rebind_comp`).
LEMMA BindFacts ==
  ASSUME NEW g, g.rules \in Table, Names(g.pairIndex, g.rules),
         g.staged \cap DOMAIN g.pairIndex = {}, NEW defs \in Table
  PROVE  BindInv(g.rules, g.pairIndex, defs, Len(defs), BindDefs(g, defs))
<1> DEFINE N == Len(defs)
<1>1. N \in Nat /\ Len(g.rules) \in Nat
  BY TableLength
<1>2. PICK f : BindRun(g, defs, f)
  BY <1>1, BindLoop
<1> DEFINE S == {k \in Nat : BindInv(g.rules, g.pairIndex, defs, k, f[k])}
<1>3. 0 \in S
  <2>1. Extends(g.rules, g.rules)
    BY DEF Extends
  <2>2. Len(<<>>) = 0 /\ <<>> \in Seq(Nat)
    OBVIOUS
  <2>3. Stands(g.rules, <<>>, Expansions(defs))
    BY <2>2 DEF Stands, KnownTokens
  <2>4. Bound(g.rules, g.pairIndex, defs, 0, g.rules, g.staged, <<>>)
    BY <2>1, <2>2, <2>3 DEF Bound
  <2>5. BindInv(g.rules, g.pairIndex, defs, 0, f[0])
    BY <1>2, <2>2, <2>4 DEF BindRun, BindInv
  <2> QED
    BY <2>5
<1>4. ASSUME NEW k \in 0 .. N - 1, k \in S PROVE k + 1 \in S
  <2>1. k + 1 \in 1 .. N /\ (k + 1) - 1 = k /\ k + 1 \in Nat
    BY <1>1
  <2>2. BindInv(g.rules, g.pairIndex, defs, (k + 1) - 1, f[k])
    BY <1>4, <2>1
  <2>3. BindInv(g.rules, g.pairIndex, defs, k + 1, BindDef(g, f[k], defs[k + 1]))
    BY <2>1, <2>2, BindStep
  <2>4. f[k + 1] = BindDef(g, f[k], defs[k + 1])
    BY <1>2, <2>1 DEF BindRun
  <2> QED
    BY <2>1, <2>3, <2>4
<1>5. \A k \in 0 .. N : k \in S
  <2> HIDE DEF S
  <2> QED
    BY <1>1, <1>3, <1>4, InductionUpTo
<1>6. BindInv(g.rules, g.pairIndex, defs, N, f[N])
  BY <1>1, <1>5
<1> QED
  BY <1>2, <1>6 DEF BindRun

\* A candidate is `None`, or a closed table of definitions and tokens that unfold to the
\* chunk if the definitions know them.
CandidateOK(cand, raw) ==
  cand.some =>
    /\ cand.defs \in Table /\ cand.tokens \in Seq(Nat)
    /\ KnownTokens(Len(cand.defs), cand.tokens) => Unfold(cand.tokens, cand.defs) = raw

\* What a worker finds in any table is a candidate for the chunk (`fork_candidate`).
LEMMA ForkFacts ==
  ASSUME NEW prefix \in Table, NEW raw \in Seq(Literal)
  PROVE  CandidateOK(ForkCandidate(prefix, raw), raw)
<1> DEFINE syms   == ReuseVia(EnterFrom(NoMap, Phrases(prefix), 1), raw)
           folded == FoldPairs(syms, prefix, EnterFrom(NoMap, prefix, 1), TRUE)
<1>1. Len(prefix) \in Nat /\ Len(Phrases(prefix)) \in Nat
  BY TableLength, PhrasesFacts
<1>2. KnownTokens(Len(prefix), syms) /\ Unfold(syms, prefix) = raw
  <2>1. Names(EnterFrom(NoMap, Phrases(prefix), 1), Phrases(prefix))
    BY <1>1, EnterAll DEF Indexes
  <2> QED
    BY <2>1, ReuseFacts
<1> HIDE DEF syms
<1>3. FoldInv(prefix, EnterFrom(NoMap, prefix, 1), raw, TRUE, folded)
  <2>1. Names(EnterFrom(NoMap, prefix, 1), prefix)
    BY <1>1, EnterAll DEF Indexes
  <2> QED
    BY <1>2, <2>1, FoldFacts
<1>4. PICK syms2, rules, index, staged, done :
        /\ folded = FoldState(syms2, rules, index, staged, done)
        /\ FoldsTo(prefix, EnterFrom(NoMap, prefix, 1), raw, TRUE, syms2, rules, index, staged)
  BY <1>3 DEF FoldInv
<1>5. folded.syms = syms2 /\ folded.rules = rules
  <2> HIDE DEF folded
  <2>1. folded = FoldState(syms2, rules, index, staged, done)
    BY <1>4
  <2> QED
    BY <2>1 DEF FoldState
<1>6. rules \in Table /\ syms2 \in Seq(Nat) /\ Unfold(syms2, rules) = raw
  BY <1>4 DEF FoldsTo, KnownTokens
<1> HIDE DEF folded
<1>7. CASE prefix = <<>>
  <2>1. ForkCandidate(prefix, raw) = None
    BY <1>7 DEF ForkCandidate
  <2> QED
    BY <2>1 DEF CandidateOK, None
<1>8. CASE prefix # <<>> /\ Len(syms) < 2
  <2>1. ForkCandidate(prefix, raw) = [some |-> TRUE, tokens |-> syms, defs |-> <<>>]
    BY <1>8 DEF ForkCandidate, syms
  <2>2. <<>> \in Table /\ Len(<<>>) = 0
    BY AlphabetFacts DEF Table, Closed
  <2>3. syms \in Seq(Nat)
    BY <1>2 DEF KnownTokens
  <2>4. ASSUME KnownTokens(0, syms) PROVE Unfold(syms, <<>>) = raw
    <3>1. Len(<<>>) <= Len(prefix) /\ \A i \in 1 .. Len(<<>>) : prefix[i] = <<>>[i]
      BY <1>1, <2>2
    <3>2. Unfold(syms, prefix) = Unfold(syms, <<>>)
      BY <2>2, <2>4, <3>1, UnfoldFacts
    <3> QED
      BY <1>2, <3>2
  <2> QED
    BY <2>1, <2>2, <2>3, <2>4 DEF CandidateOK
<1>9. CASE prefix # <<>> /\ ~(Len(syms) < 2)
  <2>1. ForkCandidate(prefix, raw) = [some |-> TRUE, tokens |-> syms2, defs |-> rules]
    BY <1>5, <1>9 DEF ForkCandidate, syms, folded
  <2> QED
    BY <1>6, <2>1 DEF CandidateOK
<1> QED
  BY <1>7, <1>8, <1>9

----------------------------------------------------------------------------
(* The encoder's record. *)

\* Its fields, and a record that has exactly these.
Fields == {"lag", "gcInterval", "rules", "pairIndex", "trie", "model", "rulesBefore", "staged",
           "epochBaseLen", "snapshotLens", "seq", "intervalStartSeq", "lastUse", "gcEpoch"}

IsGrammar(g) == g = [f \in Fields |-> g[f]]

\* h differs from g in the fields F at most.
Only(F, g, h) == IsGrammar(h) /\ \A f \in Fields \ F : h[f] = g[f]

\* What the token model has coded, call by call, and the model.
Coding == [n : Nat, tokens : Seq(Nat)]
Model  == [n : Nat, baseN : Nat, coded : Seq(Coding), baseCoded : Nat]

\* Every snapshot of the epoch is a length the table has had since the epoch began.
SnapshotsOK(base, lens, n) ==
  /\ base \in 0 .. n
  /\ lens \in Seq(Nat)
  /\ \A i \in 1 .. Len(lens) : lens[i] \in base .. n
  /\ \A i, j \in 1 .. Len(lens) : i < j => lens[i] <= lens[j]

\* The books of the encoder between two chunks.
BooksOK(g) ==
  /\ g.rules \in Table
  /\ Indexes(g.pairIndex, g.rules) /\ Indexes(g.trie, Phrases(g.rules))
  /\ g.model \in Model /\ g.model.n = NLit + Len(g.rules)
  /\ g.staged = {} /\ g.rulesBefore \in 0 .. Len(g.rules)
  /\ g.lastUse \in Seq(Nat) /\ Len(g.lastUse) = Len(g.rules)

CountersOK(g) ==
  /\ g.lag \in Nat \ {0} /\ g.gcInterval \in Nat \ {0}
  /\ g.seq \in Nat /\ g.intervalStartSeq \in Nat /\ g.gcEpoch \in Nat

GrammarOK(g) ==
  /\ IsGrammar(g) /\ BooksOK(g) /\ CountersOK(g)
  /\ SnapshotsOK(g.epochBaseLen, g.snapshotLens, Len(g.rules))

\* The fields an attempt may change.
AttemptFields == {"model", "rulesBefore", "rules", "staged"}

\* h is g with the rollback point set and perhaps rules bound, none coded yet.
Anchored(g, h) ==
  /\ Only(AttemptFields, g, h)
  /\ h.model = BeginChunk(g.model) /\ h.rulesBefore = Len(g.rules)
  /\ h.rules \in Table /\ Extends(g.rules, h.rules)
  /\ h.staged \cap DOMAIN g.pairIndex = {}

\* A rollback takes h back to the table and the coding of g.
Undoes(g, h) ==
  /\ Only(AttemptFields, g, h)
  /\ h.rulesBefore = Len(g.rules)
  /\ h.rules \in Table /\ Extends(g.rules, h.rules)
  /\ h.staged \cap DOMAIN g.pairIndex = {}
  /\ h.model \in Model /\ h.model.baseN = g.model.n
  /\ SubSeq(h.model.coded, 1, h.model.baseCoded) = g.model.coded

\* A block, from the table and the coding before it to those after it.
GrammarBlock(rules, coded, raw, block, more, codedAfter) ==
  /\ block.kind = "G"
  /\ block.defs \in Seq(Pair) /\ more = rules \o block.defs /\ more \in Table
  /\ KnownTokens(Len(more), block.tokens) /\ Unfold(block.tokens, more) = raw
  /\ codedAfter = Append(coded, [n |-> NLit + Len(more), tokens |-> block.tokens])
  /\ block.under = codedAfter

AttemptOK(g, raw, a) ==
  /\ \E h, outcome, block : a = Attempt(h, outcome, block)
  /\ Undoes(g, a.g)
  /\ a.outcome = "block" =>
       /\ GrammarBlock(g.rules, g.model.coded, raw, a.block, a.g.rules, a.g.model.coded)
       /\ a.g.model.n = NLit + Len(a.g.rules)

\* The model's books: begin, code and roll back.
LEMMA BeginFacts ==
  ASSUME NEW m \in Model
  PROVE  /\ BeginChunk(m) \in Model
         /\ BeginChunk(m).n = m.n /\ BeginChunk(m).coded = m.coded
         /\ BeginChunk(m).baseN = m.n /\ BeginChunk(m).baseCoded = Len(m.coded)
<1>1. m.coded \in Seq(Coding) /\ m.n \in Nat
  BY DEF Model
<1>2. Len(m.coded) \in Nat
  BY <1>1
<1> QED
  BY <1>1, <1>2 DEF Model, BeginChunk

LEMMA CodeFacts ==
  ASSUME NEW m \in Model, NEW n2 \in Nat, m.n <= n2, NEW tokens \in Seq(Nat)
  PROVE  /\ Code(m, n2, tokens) \in Model
         /\ Code(m, n2, tokens).n = n2
         /\ Code(m, n2, tokens).coded = Append(m.coded, [n |-> n2, tokens |-> tokens])
         /\ Code(m, n2, tokens).baseN = m.baseN /\ Code(m, n2, tokens).baseCoded = m.baseCoded
<1>1. (IF n2 > m.n THEN n2 ELSE m.n) = n2
  BY DEF Model
<1>2. Code(m, n2, tokens)
        = [m EXCEPT !.n = n2, !.coded = Append(m.coded, [n |-> n2, tokens |-> tokens])]
  BY <1>1 DEF Code
<1>3. [n |-> n2, tokens |-> tokens] \in Coding
  BY DEF Coding
<1>4. m.coded \in Seq(Coding)
  BY DEF Model
<1>5. Append(m.coded, [n |-> n2, tokens |-> tokens]) \in Seq(Coding)
  BY <1>3, <1>4
<1> QED
  BY <1>2, <1>5 DEF Model

\* An extension of a table, as the table and what has been appended.
LEMMA ExtensionSplit ==
  ASSUME NEW rules \in Table, NEW more \in Table, Extends(rules, more)
  PROVE  /\ SubSeq(more, Len(rules) + 1, Len(more)) \in Seq(Pair)
         /\ more = rules \o SubSeq(more, Len(rules) + 1, Len(more))
         /\ SubSeq(more, 1, Len(rules)) = rules
<1>1. rules \in Seq(Pair) /\ more \in Seq(Pair) /\ Len(rules) <= Len(more)
      /\ \A i \in 1 .. Len(rules) : more[i] = rules[i]
  BY TableLength DEF Extends
<1> DEFINE m == Len(rules)
           n == Len(more)
           tail == SubSeq(more, m + 1, n)
<1>2. m \in Nat /\ n \in Nat /\ m <= n
  BY <1>1
<1>3. tail \in Seq(Pair) /\ Len(tail) = n - m /\ \A i \in 1 .. n - m : tail[i] = more[m + i]
  BY <1>1, <1>2
<1>4. more = rules \o tail
  <2> DEFINE r == rules \o tail
  <2> HIDE DEF tail, r
  <2>1. /\ r \in Seq(Pair) /\ Len(r) = m + (n - m)
        /\ \A i \in 1 .. m : r[i] = rules[i]
        /\ \A i \in m + 1 .. m + (n - m) : r[i] = tail[i - m]
    BY <1>1, <1>2, <1>3, ConcatElement DEF r
  <2>2. ASSUME NEW i \in 1 .. n PROVE r[i] = more[i]
    <3>1. CASE i \in 1 .. m
      BY <1>1, <2>1, <3>1
    <3>2. CASE i \in m + 1 .. n
      <4>1. r[i] = tail[i - m] /\ i - m \in 1 .. n - m /\ m + (i - m) = i
        BY <1>2, <2>1, <3>2
      <4> QED
        BY <1>3, <4>1
    <3> QED
      BY <1>2, <3>1, <3>2
  <2>3. Len(r) = n
    BY <1>2, <2>1
  <2>4. r = more
    BY <1>1, <2>1, <2>2, <2>3
  <2> QED
    BY <2>4 DEF r
<1>5. SubSeq(more, 1, m) = rules
  BY <1>1, <1>2
<1> QED
  BY <1>3, <1>4, <1>5

\* The anchored grammar itself.
LEMMA AnchorFacts ==
  ASSUME NEW g, GrammarOK(g)
  PROVE  Anchored(g, Anchor(g)) /\ Anchor(g).rules = g.rules /\ Anchor(g).trie = g.trie
                                /\ Anchor(g).pairIndex = g.pairIndex /\ Anchor(g).staged = {}
<1> DEFINE h == Anchor(g)
<1>1. IsGrammar(g) /\ g.rules \in Table /\ g.staged = {}
  BY DEF GrammarOK, BooksOK
<1>2. /\ Only({"model", "rulesBefore"}, g, h)
      /\ h.model = BeginChunk(g.model) /\ h.rulesBefore = Len(g.rules)
      /\ h.rules = g.rules /\ h.trie = g.trie /\ h.pairIndex = g.pairIndex
      /\ h.staged = g.staged
  BY <1>1 DEF IsGrammar, Only, Fields, Anchor
<1> HIDE DEF h
<1>3. Only(AttemptFields, g, h)
  BY <1>2 DEF Only, AttemptFields
<1>4. Extends(g.rules, g.rules)
  BY <1>1, TableLength DEF Extends
<1>5. Anchored(g, h)
  BY <1>1, <1>2, <1>3, <1>4 DEF Anchored
<1> QED
  BY <1>1, <1>2, <1>5 DEF h

\* Folding and coding on an anchored grammar gives a block that decodes to the chunk and
\* an encoder that can be rolled back (`fold_and_encode`).
LEMMA EncodeFacts ==
  ASSUME NEW g, GrammarOK(g), NEW h, Anchored(g, h),
         NEW syms, KnownTokens(Len(h.rules), syms)
  PROVE  AttemptOK(g, Unfold(syms, h.rules), FoldAndEncode(h, syms))
<1> DEFINE folded == FoldPairs(syms, h.rules, h.pairIndex, FALSE)
           raw    == Unfold(syms, h.rules)
<1>1. /\ g.rules \in Table /\ Indexes(g.pairIndex, g.rules)
      /\ g.model \in Model /\ g.model.n = NLit + Len(g.rules)
  BY DEF GrammarOK, BooksOK
<1>2. /\ Only(AttemptFields, g, h)
      /\ h.model = BeginChunk(g.model) /\ h.rulesBefore = Len(g.rules)
      /\ h.rules \in Table /\ Extends(g.rules, h.rules)
      /\ h.staged \cap DOMAIN g.pairIndex = {}
  BY DEF Anchored
<1>3. IsGrammar(h) /\ h.pairIndex = g.pairIndex
  BY <1>2 DEF Only, AttemptFields, Fields
<1>4. Len(g.rules) \in Nat /\ Len(h.rules) \in Nat /\ NLit \in Nat /\ Len(g.rules) <= Len(h.rules)
  BY <1>1, <1>2, TableLength, AlphabetFacts DEF Extends
<1>5. Names(h.pairIndex, h.rules)
  BY <1>1, <1>2, <1>3, <1>4, NamesExtend DEF Indexes
<1>6. FoldInv(h.rules, h.pairIndex, raw, FALSE, folded)
  BY <1>2, <1>5, FoldFacts
<1>7. PICK syms2, rules, index, staged, done :
        /\ folded = FoldState(syms2, rules, index, staged, done)
        /\ FoldsTo(h.rules, h.pairIndex, raw, FALSE, syms2, rules, index, staged)
  BY <1>6 DEF FoldInv
<1>8. folded.syms = syms2 /\ folded.rules = rules /\ folded.staged = staged
  <2> HIDE DEF folded
  <2>1. folded = FoldState(syms2, rules, index, staged, done)
    BY <1>7
  <2> QED
    BY <2>1 DEF FoldState
<1>9. /\ rules \in Table /\ Extends(h.rules, rules)
      /\ KnownTokens(Len(rules), syms2) /\ Unfold(syms2, rules) = raw
      /\ staged \cap DOMAIN h.pairIndex = {}
  BY <1>7 DEF FoldsTo
<1>10. Len(rules) \in Nat /\ Len(h.rules) <= Len(rules) /\ syms2 \in Seq(Nat)
  BY <1>9, TableLength DEF Extends, KnownTokens
<1>11. Extends(g.rules, rules)
  BY <1>2, <1>4, <1>9, <1>10, ExtendsTransitive
<1> DEFINE begun == BeginChunk(g.model)
           model == Code(begun, NLit + Len(rules), syms2)
           defs  == SubSeq(rules, Len(g.rules) + 1, Len(rules))
           block == [kind |-> "G", defs |-> defs, tokens |-> syms2, under |-> model.coded]
           after == [h EXCEPT !.rules = rules, !.staged = @ \cup staged, !.model = model]
<1>12. FoldAndEncode(h, syms) = Attempt(after, "block", block)
  <2> HIDE DEF folded
  <2> QED
    BY <1>2, <1>8 DEF FoldAndEncode, folded
<1>13. begun \in Model /\ begun.n = g.model.n /\ begun.coded = g.model.coded
       /\ begun.baseN = g.model.n /\ begun.baseCoded = Len(g.model.coded)
  BY <1>1, BeginFacts
<1> HIDE DEF begun
<1>14. NLit + Len(rules) \in Nat /\ begun.n <= NLit + Len(rules)
  BY <1>1, <1>4, <1>10, <1>13
<1>15. /\ model \in Model /\ model.n = NLit + Len(rules)
       /\ model.coded = Append(begun.coded, [n |-> NLit + Len(rules), tokens |-> syms2])
       /\ model.baseN = begun.baseN /\ model.baseCoded = begun.baseCoded
  BY <1>10, <1>13, <1>14, CodeFacts
<1> HIDE DEF model, folded, raw
<1>16. /\ after.rules = rules /\ after.staged = h.staged \cup staged /\ after.model = model
       /\ after.rulesBefore = h.rulesBefore
  BY <1>3 DEF IsGrammar, Fields
<1>17. Only(AttemptFields, h, after)
  BY <1>3 DEF IsGrammar, Fields, Only, AttemptFields
<1> HIDE DEF after
<1>18. Only(AttemptFields, g, after)
  BY <1>2, <1>17 DEF Only
<1>19. SubSeq(model.coded, 1, model.baseCoded) = g.model.coded
  <2> DEFINE c == g.model.coded
             e == [n |-> NLit + Len(rules), tokens |-> syms2]
  <2>1. c \in Seq(Coding) /\ e \in Coding
    BY <1>1, <1>10, <1>14 DEF Model, Coding
  <2>2. model.coded = Append(c, e) /\ model.baseCoded = Len(c)
    BY <1>13, <1>15
  <2> HIDE DEF c, e
  <2>3. SubSeq(Append(c, e), 1, Len(c)) = c
    BY <2>1
  <2> QED
    BY <2>2, <2>3 DEF c
<1>20. Undoes(g, after)
  BY <1>2, <1>3, <1>9, <1>11, <1>13, <1>15, <1>16, <1>18, <1>19 DEF Undoes
<1>21. defs \in Seq(Pair) /\ rules = g.rules \o defs
  BY <1>1, <1>9, <1>11, ExtensionSplit
<1> HIDE DEF defs
<1>22. GrammarBlock(g.rules, g.model.coded, raw, block, rules, model.coded)
  BY <1>9, <1>13, <1>15, <1>21 DEF GrammarBlock
<1> HIDE DEF block
<1> DEFINE a == Attempt(after, "block", block)
<1>23. a.g = after /\ a.block = block
  BY DEF Attempt
<1>24. \E x, outcome, b : a = Attempt(x, outcome, b)
  OBVIOUS
<1> HIDE DEF a
<1>25. AttemptOK(g, raw, a)
  BY <1>15, <1>16, <1>20, <1>22, <1>23, <1>24 DEF AttemptOK
<1> QED
  BY <1>12, <1>25 DEF a, raw

\* What is anchored can be rolled back.
LEMMA AnchoredUndoes ==
  ASSUME NEW g, GrammarOK(g), NEW h, Anchored(g, h)
  PROVE  Undoes(g, h)
<1>1. g.model \in Model
  BY DEF GrammarOK, BooksOK
<1>2. /\ Only(AttemptFields, g, h) /\ h.model = BeginChunk(g.model)
      /\ h.rulesBefore = Len(g.rules) /\ h.rules \in Table /\ Extends(g.rules, h.rules)
      /\ h.staged \cap DOMAIN g.pairIndex = {}
  BY DEF Anchored
<1>3. /\ h.model \in Model /\ h.model.baseN = g.model.n /\ h.model.coded = g.model.coded
      /\ h.model.baseCoded = Len(g.model.coded)
  BY <1>1, <1>2, BeginFacts
<1>4. SubSeq(h.model.coded, 1, h.model.baseCoded) = g.model.coded
  <2>1. g.model.coded \in Seq(Coding)
    BY <1>1 DEF Model
  <2>2. SubSeq(g.model.coded, 1, Len(g.model.coded)) = g.model.coded
    BY <2>1
  <2> QED
    BY <1>3, <2>2
<1> QED
  BY <1>2, <1>3, <1>4 DEF Undoes

\* An attempt without a block.
LEMMA NoBlockFacts ==
  ASSUME NEW g, GrammarOK(g), NEW h, Anchored(g, h), NEW raw
  PROVE  AttemptOK(g, raw, Nothing(h)) /\ AttemptOK(g, raw, Panicked(h))
<1>1. Undoes(g, h)
  BY AnchoredUndoes
<1>2. ASSUME NEW outcome, outcome # "block"
      PROVE  AttemptOK(g, raw, Attempt(h, outcome, StatelessBlock))
  <2> DEFINE a == Attempt(h, outcome, StatelessBlock)
  <2>1. a.g = h /\ a.outcome # "block"
    BY <1>2 DEF Attempt
  <2>2. \E x, o, b : a = Attempt(x, o, b)
    OBVIOUS
  <2> HIDE DEF a
  <2>3. AttemptOK(g, raw, a)
    BY <1>1, <2>1, <2>2 DEF AttemptOK
  <2> QED
    BY <2>3 DEF a
<1>3. "none" # "block" /\ "panic" # "block"
  OBVIOUS
<1> QED
  BY <1>2, <1>3 DEF Nothing, Panicked

\* Discovery against the live table (`try_compress`).
LEMMA TryFacts ==
  ASSUME NEW g, GrammarOK(g), NEW raw \in Seq(Literal)
  PROVE  AttemptOK(g, raw, TryCompress(g, raw))
<1> DEFINE h    == Anchor(g)
           syms == ReuseVia(h.trie, raw)
<1>1. Anchored(g, h) /\ h.rules = g.rules /\ h.trie = g.trie
  BY AnchorFacts
<1>2. g.rules \in Table /\ Names(g.trie, Phrases(g.rules))
  BY DEF GrammarOK, BooksOK, Indexes
<1>3. KnownTokens(Len(h.rules), syms) /\ Unfold(syms, h.rules) = raw
  BY <1>1, <1>2, ReuseFacts
<1>4. TryCompress(g, raw) = FoldAndEncode(h, syms)
  BY DEF TryCompress
<1> HIDE DEF h, syms
<1>5. AttemptOK(g, Unfold(syms, h.rules), FoldAndEncode(h, syms))
  BY <1>1, <1>3, EncodeFacts
<1> QED
  BY <1>3, <1>4, <1>5

\* A candidate becomes a block that decodes to the chunk, or nothing that a rollback does
\* not undo (`rebind_comp`).
LEMMA RebindFacts ==
  ASSUME NEW g, GrammarOK(g), NEW raw, NEW cand, cand.some, CandidateOK(cand, raw)
  PROVE  AttemptOK(g, raw, RebindComp(Anchor(g), cand))
<1> DEFINE h       == Anchor(g)
           all     == BindDefs(h, cand.defs)
           rebound == [h EXCEPT !.rules = all.rules, !.staged = all.staged]
<1>1. /\ Anchored(g, h) /\ h.rules = g.rules /\ h.pairIndex = g.pairIndex /\ h.staged = {}
  BY AnchorFacts
<1> HIDE DEF h
<1>2. /\ cand.defs \in Table /\ cand.tokens \in Seq(Nat)
      /\ KnownTokens(Len(cand.defs), cand.tokens) => Unfold(cand.tokens, cand.defs) = raw
  BY DEF CandidateOK
<1>3. g.rules \in Table /\ Names(g.pairIndex, g.rules)
  BY DEF GrammarOK, BooksOK, Indexes
<1>4. BindInv(h.rules, h.pairIndex, cand.defs, Len(cand.defs), all)
  <2>1. h.rules \in Table /\ Names(h.pairIndex, h.rules) /\ h.staged \cap DOMAIN h.pairIndex = {}
    BY <1>1, <1>3
  <2> QED
    BY <1>2, <2>1, BindFacts
<1> HIDE DEF all
<1>5. PICK rules, staged, live, full :
        /\ all = BindState(rules, staged, live, full)
        /\ Bound(g.rules, g.pairIndex, cand.defs, Len(cand.defs), rules, staged, live)
        /\ full \/ Len(live) = Len(cand.defs)
  BY <1>1, <1>4 DEF BindInv
<1>6. all.rules = rules /\ all.staged = staged /\ all.live = live /\ all.full = full
  <2>1. all = BindState(rules, staged, live, full)
    BY <1>5
  <2> QED
    BY <2>1 DEF BindState
<1>7. /\ rules \in Table /\ Extends(g.rules, rules) /\ staged \cap DOMAIN g.pairIndex = {}
      /\ Stands(rules, live, Expansions(cand.defs))
  BY <1>5 DEF Bound
<1>8. Anchored(g, rebound)
  <2>1. /\ Only(AttemptFields, g, h) /\ h.model = BeginChunk(g.model)
        /\ h.rulesBefore = Len(g.rules)
    BY <1>1 DEF Anchored
  <2>2. IsGrammar(h)
    BY <2>1 DEF Only
  <2>3. /\ rebound.rules = rules /\ rebound.staged = staged /\ rebound.model = h.model
        /\ rebound.rulesBefore = h.rulesBefore
    BY <1>6, <2>2 DEF IsGrammar, Fields
  <2>4. Only(AttemptFields, h, rebound)
    BY <2>2 DEF IsGrammar, Fields, Only, AttemptFields
  <2> HIDE DEF rebound
  <2>5. Only(AttemptFields, g, rebound)
    BY <2>1, <2>4 DEF Only
  <2> QED
    BY <1>7, <2>1, <2>3, <2>5 DEF Anchored
<1>9. rebound.rules = rules
  <2>1. IsGrammar(h)
    BY <1>1 DEF Anchored, Only
  <2> QED
    BY <1>6, <2>1 DEF IsGrammar, Fields
<1> DEFINE outside == \E k \in 1 .. Len(cand.tokens) : cand.tokens[k] >= NLit + Len(all.live)
           tokens  == [k \in 1 .. Len(cand.tokens) |-> Rebound(all.live, cand.tokens[k])]
<1>10. RebindComp(h, cand) = IF all.full THEN Nothing(rebound)
                             ELSE IF outside THEN Panicked(rebound)
                             ELSE FoldAndEncode(rebound, tokens)
  BY DEF RebindComp, all
<1> HIDE DEF rebound
<1>11. CASE all.full
  BY <1>8, <1>10, <1>11, NoBlockFacts DEF h
<1>12. CASE ~all.full /\ outside
  BY <1>8, <1>10, <1>12, NoBlockFacts DEF h
<1>13. CASE ~all.full /\ ~outside
  <2>1. Len(live) = Len(cand.defs) /\ Len(live) \in Nat /\ NLit \in Nat /\ Len(cand.tokens) \in Nat
    BY <1>2, <1>5, <1>6, <1>13, TableLength, AlphabetFacts
  <2>2. \A k \in 1 .. Len(cand.tokens) : cand.tokens[k] \in Nat /\ cand.tokens[k] < NLit + Len(live)
    BY <1>2, <1>6, <1>13, <2>1
  <2>3. KnownTokens(Len(cand.defs), cand.tokens)
    BY <1>2, <2>1, <2>2 DEF KnownTokens
  <2>4. ASSUME NEW k \in 1 .. Len(cand.tokens)
        PROVE  /\ tokens[k] \in Nat /\ tokens[k] < NLit + Len(rules)
               /\ Bytes(Expansions(rules), tokens[k]) = Bytes(Expansions(cand.defs), cand.tokens[k])
    <3>1. tokens[k] = Rebound(live, cand.tokens[k])
      BY <1>6
    <3>2. cand.tokens[k] \in Nat /\ cand.tokens[k] < NLit + Len(live)
      BY <2>2
    <3> HIDE DEF tokens
    <3> QED
      BY <1>7, <3>1, <3>2, ReboundFacts
  <2>5. Len(tokens) = Len(cand.tokens) /\ tokens \in Seq(Nat)
    <3>1. \A k \in 1 .. Len(cand.tokens) : Rebound(all.live, cand.tokens[k]) \in Nat
      BY <2>4
    <3> QED
      BY <2>1, <3>1
  <2> HIDE DEF tokens
  <2>6. KnownTokens(Len(rules), tokens)
    BY <2>4, <2>5 DEF KnownTokens
  <2>7. Unfold(tokens, rules) = raw
    <3>1. Joined(Expansions(rules), tokens) = Joined(Expansions(cand.defs), cand.tokens)
      BY <2>1, <2>4, <2>5, JoinedSame
    <3> QED
      BY <1>2, <2>3, <3>1 DEF Unfold
  <2>8. AttemptOK(g, raw, FoldAndEncode(rebound, tokens))
    BY <1>8, <1>9, <2>6, <2>7, EncodeFacts
  <2> QED
    BY <1>10, <1>13, <2>8 DEF h
<1> QED
  BY <1>11, <1>12, <1>13

\* The same for what a worker has found, or not found (`commit_candidate`).
LEMMA CommitFacts ==
  ASSUME NEW g, GrammarOK(g), NEW raw, NEW cand, CandidateOK(cand, raw)
  PROVE  AttemptOK(g, raw, CommitCandidate(g, cand))
<1>1. CASE cand.some
  BY <1>1, RebindFacts DEF CommitCandidate
<1>2. CASE ~cand.some
  BY <1>2, AnchorFacts, NoBlockFacts DEF CommitCandidate
<1> QED
  BY <1>1, <1>2

\* Discovery with the snapshot of the lag.
LEMMA DiscoverFacts ==
  ASSUME NEW g, GrammarOK(g), NEW raw \in Seq(Literal), NEW snapshot \in Nat
  PROVE  AttemptOK(g, raw, DiscoverAndEncode(g, raw, snapshot))
<1>1. g.rules \in Table /\ Len(g.rules) \in Nat
  BY TableLength DEF GrammarOK, BooksOK
<1>2. CASE snapshot >= Len(g.rules)
  BY <1>2, TryFacts DEF DiscoverAndEncode
<1>3. CASE ~(snapshot >= Len(g.rules))
  <2>1. SubSeq(g.rules, 1, snapshot) \in Table
    BY <1>1, <1>3, TablePrefix
  <2>2. CandidateOK(ForkCandidate(SubSeq(g.rules, 1, snapshot), raw), raw)
    BY <2>1, ForkFacts
  <2> QED
    BY <1>3, <2>2, CommitFacts DEF DiscoverAndEncode, TryCompressForked
<1> QED
  BY <1>2, <1>3

----------------------------------------------------------------------------
(* Keeping or dropping the attempt. *)

\* The fields that change when an attempt is kept or dropped.
OutcomeFields == AttemptFields \cup {"pairIndex", "trie", "lastUse"}

\* The rule a token names was used by the chunk; no other mark has moved.
Marked(g, h, tokens) ==
  /\ \A k \in 1 .. Len(tokens) : tokens[k] >= NLit => h.lastUse[Position(tokens[k])] = g.seq
  /\ \A i \in 1 .. Len(g.rules) : h.lastUse[i] \in {g.lastUse[i], g.seq}

\* What a chunk leaves of the grammar: the books agree again, and the block written takes
\* a reader from the table and the coding before to those after.
Settled(g, raw, h, block) ==
  /\ GrammarOK(h) /\ Only(OutcomeFields, g, h) /\ Extends(g.rules, h.rules)
  /\ \/ /\ block = StatelessBlock /\ h.rules = g.rules /\ h.model.coded = g.model.coded
        /\ h.lastUse = g.lastUse
     \/ /\ GrammarBlock(g.rules, g.model.coded, raw, block, h.rules, h.model.coded)
        /\ Marked(g, h, block.tokens)

\* Snapshots within a table are within every extension of it.
LEMMA SnapshotsExtend ==
  ASSUME NEW base, NEW lens, NEW m \in Nat, NEW n \in Nat, m <= n, SnapshotsOK(base, lens, m)
  PROVE  SnapshotsOK(base, lens, n)
<1>1. \A x \in base .. m : x \in base .. n
  BY DEF SnapshotsOK
<1> QED
  BY <1>1 DEF SnapshotsOK

\* An index with the same entries.
LEMMA IndexesSame ==
  ASSUME NEW index, NEW keys, Indexes(index, keys), NEW same,
         DOMAIN same = DOMAIN index, \A q \in DOMAIN index : same[q] = index[q]
  PROVE  Indexes(same, keys)
<1>1. /\ \A q \in DOMAIN index : \E i \in 1 .. Len(keys) : keys[i] = q /\ index[q] = Id(i)
      /\ DOMAIN index = {keys[i] : i \in 1 .. Len(keys)} \ {<<>>}
  BY DEF Indexes, Names
<1>2. ASSUME NEW q \in DOMAIN same
      PROVE  \E i \in 1 .. Len(keys) : keys[i] = q /\ same[q] = Id(i)
  BY <1>1
<1>3. Names(same, keys)
  BY <1>2 DEF Names
<1> QED
  BY <1>1, <1>3 DEF Indexes

\* Dropping an attempt leaves the grammar as it was (`reject_chunk`).
LEMMA RejectFacts ==
  ASSUME NEW g, GrammarOK(g), NEW h, Undoes(g, h), NEW raw
  PROVE  Settled(g, raw, RejectChunk(h), StatelessBlock)
<1> DEFINE k == RejectChunk(h)
<1>1. /\ IsGrammar(g) /\ BooksOK(g) /\ CountersOK(g)
      /\ SnapshotsOK(g.epochBaseLen, g.snapshotLens, Len(g.rules))
  BY DEF GrammarOK
<1>2. /\ g.rules \in Table
      /\ Indexes(g.pairIndex, g.rules) /\ Indexes(g.trie, Phrases(g.rules))
      /\ g.model \in Model /\ g.model.n = NLit + Len(g.rules)
      /\ g.lastUse \in Seq(Nat) /\ Len(g.lastUse) = Len(g.rules)
  BY <1>1 DEF BooksOK
<1>3. /\ Only(AttemptFields, g, h)
      /\ h.rulesBefore = Len(g.rules)
      /\ h.rules \in Table /\ Extends(g.rules, h.rules)
      /\ h.staged \cap DOMAIN g.pairIndex = {}
      /\ h.model \in Model /\ h.model.baseN = g.model.n
      /\ SubSeq(h.model.coded, 1, h.model.baseCoded) = g.model.coded
  BY DEF Undoes
<1>4. IsGrammar(h) /\ h.pairIndex = g.pairIndex /\ h.trie = g.trie /\ h.lastUse = g.lastUse
  BY <1>3 DEF Only, AttemptFields, Fields
<1>5. /\ Only({"model", "rules", "pairIndex", "staged"}, h, k)
      /\ k.model = RollbackChunk(h.model) /\ k.rules = SubSeq(h.rules, 1, h.rulesBefore)
      /\ k.pairIndex = [q \in DOMAIN h.pairIndex \ h.staged |-> h.pairIndex[q]]
      /\ k.staged = {}
  BY <1>4 DEF IsGrammar, Fields, Only, RejectChunk
<1> HIDE DEF k
<1>6. Only(OutcomeFields, g, k)
  BY <1>3, <1>5 DEF Only, OutcomeFields, AttemptFields
<1>7. k.rules = g.rules
  BY <1>2, <1>3, <1>5, ExtensionSplit
<1>8. /\ k.model \in Model /\ k.model.n = g.model.n /\ k.model.coded = g.model.coded
  <2>1. g.model.coded \in Seq(Coding) /\ g.model.n \in Nat
    BY <1>2 DEF Model
  <2> QED
    BY <1>3, <1>5, <2>1 DEF Model, RollbackChunk
<1>9. Indexes(k.pairIndex, g.rules)
  <2>1. DOMAIN g.pairIndex \ h.staged = DOMAIN g.pairIndex
    BY <1>3
  <2>2. k.pairIndex = [q \in DOMAIN g.pairIndex |-> g.pairIndex[q]]
    BY <1>4, <1>5, <2>1
  <2>3. DOMAIN k.pairIndex = DOMAIN g.pairIndex
    BY <2>2
  <2>4. \A q \in DOMAIN g.pairIndex : k.pairIndex[q] = g.pairIndex[q]
    BY <2>2
  <2> QED
    BY <1>2, <2>3, <2>4, IndexesSame
<1>10. /\ k.trie = g.trie /\ k.lastUse = g.lastUse /\ k.rulesBefore = Len(g.rules)
       /\ k.epochBaseLen = g.epochBaseLen /\ k.snapshotLens = g.snapshotLens
  BY <1>3, <1>4, <1>5 DEF Only, Fields, AttemptFields
<1>11. Len(g.rules) \in Nat
  BY <1>2, TableLength
<1>12. BooksOK(k)
  <2>1. k.staged = {}
    BY <1>5
  <2>2. k.rulesBefore \in 0 .. Len(k.rules)
    BY <1>7, <1>10, <1>11
  <2> QED
    BY <1>2, <1>7, <1>8, <1>9, <1>10, <2>1, <2>2 DEF BooksOK
<1>13. CountersOK(k)
  BY <1>1, <1>6 DEF CountersOK, Only, Fields, OutcomeFields, AttemptFields
<1>14. IsGrammar(k)
  BY <1>6 DEF Only
<1>15. GrammarOK(k)
  BY <1>1, <1>7, <1>10, <1>12, <1>13, <1>14 DEF GrammarOK
<1>16. Extends(g.rules, k.rules)
  BY <1>7, <1>11 DEF Extends
<1> QED
  BY <1>6, <1>7, <1>8, <1>10, <1>15, <1>16 DEF Settled, k

\* The use marks of n rules, those of `used` renewed.
Marks(lastUse, n, seq, used) ==
  LET sized == lastUse \o Zeros(n - Len(lastUse))
  IN  [i \in 1 .. Len(sized) |-> IF i \in used THEN seq ELSE sized[i]]

\* There is one mark per rule, and only those of `used` have moved.
LEMMA MarkFacts ==
  ASSUME NEW lastUse \in Seq(Nat), NEW n \in Nat, Len(lastUse) <= n, NEW seq \in Nat, NEW used
  PROVE  /\ Marks(lastUse, n, seq, used) \in Seq(Nat) /\ Len(Marks(lastUse, n, seq, used)) = n
         /\ \A i \in used \cap (1 .. n) : Marks(lastUse, n, seq, used)[i] = seq
         /\ \A i \in 1 .. Len(lastUse) :
              Marks(lastUse, n, seq, used)[i] \in {lastUse[i], seq}
<1> DEFINE m == n - Len(lastUse)
           zeros == Zeros(m)
           sized == lastUse \o zeros
           marked == [i \in 1 .. Len(sized) |-> IF i \in used THEN seq ELSE sized[i]]
<1>1. m \in Nat /\ Len(lastUse) \in Nat /\ Len(lastUse) + m = n
  OBVIOUS
<1>2. zeros \in Seq(Nat) /\ Len(zeros) = m
  BY <1>1 DEF Zeros
<1> HIDE DEF m, zeros
<1>3. /\ sized \in Seq(Nat) /\ Len(sized) = Len(lastUse) + m
      /\ \A i \in 1 .. Len(lastUse) : sized[i] = lastUse[i]
  BY <1>2, ConcatElement
<1> HIDE DEF sized
<1>4. Len(sized) = n
  BY <1>1, <1>3
<1>5. marked \in Seq(Nat) /\ Len(marked) = n
  BY <1>3, <1>4
<1>6. \A i \in used \cap (1 .. n) : marked[i] = seq
  BY <1>4
<1>7. \A i \in 1 .. Len(lastUse) : marked[i] \in {lastUse[i], seq}
  BY <1>1, <1>3, <1>4
<1> QED
  BY <1>5, <1>6, <1>7 DEF sized, zeros, m, Marks

\* Keeping an attempt indexes the new rules and renews the marks of those used (the
\* accept arm of `accept_or_reject`, `commit_new_rules`).
LEMMA AcceptFacts ==
  ASSUME NEW g, GrammarOK(g), NEW h, Undoes(g, h), h.model.n = NLit + Len(h.rules), NEW raw,
         NEW block, GrammarBlock(g.rules, g.model.coded, raw, block, h.rules, h.model.coded)
  PROVE  Settled(g, raw, CommitNewRules(h, block.tokens), block)
<1> DEFINE tokens == block.tokens
           k      == CommitNewRules(h, tokens)
<1>1. /\ IsGrammar(g) /\ BooksOK(g) /\ CountersOK(g)
      /\ SnapshotsOK(g.epochBaseLen, g.snapshotLens, Len(g.rules))
  BY DEF GrammarOK
<1>2. /\ g.rules \in Table
      /\ Indexes(g.pairIndex, g.rules) /\ Indexes(g.trie, Phrases(g.rules))
      /\ g.lastUse \in Seq(Nat) /\ Len(g.lastUse) = Len(g.rules) /\ g.seq \in Nat
  BY <1>1 DEF BooksOK, CountersOK
<1>3. /\ Only(AttemptFields, g, h)
      /\ h.rulesBefore = Len(g.rules)
      /\ h.rules \in Table /\ Extends(g.rules, h.rules)
      /\ h.model \in Model
  BY DEF Undoes
<1>4. /\ IsGrammar(h) /\ h.pairIndex = g.pairIndex /\ h.trie = g.trie /\ h.lastUse = g.lastUse
      /\ h.seq = g.seq
  BY <1>3 DEF Only, AttemptFields, Fields
<1>5. Len(g.rules) \in Nat /\ Len(h.rules) \in Nat /\ Len(g.rules) <= Len(h.rules) /\ NLit \in Nat
  BY <1>2, <1>3, TableLength, AlphabetFacts DEF Extends
<1>6. KnownTokens(Len(h.rules), tokens)
  BY DEF GrammarBlock
<1> DEFINE used   == {Position(tokens[i]) : i \in 1 .. Len(tokens)}
           marked == Marks(h.lastUse, Len(h.rules), h.seq, used)
           base   == [h EXCEPT !.lastUse = marked, !.staged = {}]
<1>7. k = IndexFrom(base, h.rulesBefore + 1)
  BY DEF CommitNewRules, Marks
<1>8. /\ marked \in Seq(Nat) /\ Len(marked) = Len(h.rules)
      /\ \A i \in used \cap (1 .. Len(h.rules)) : marked[i] = g.seq
      /\ \A i \in 1 .. Len(g.rules) : marked[i] \in {g.lastUse[i], g.seq}
  <2> HIDE DEF used
  <2>1. h.lastUse \in Seq(Nat) /\ Len(h.lastUse) <= Len(h.rules) /\ h.seq \in Nat
    BY <1>2, <1>4, <1>5
  <2>2. /\ marked \in Seq(Nat) /\ Len(marked) = Len(h.rules)
        /\ \A i \in used \cap (1 .. Len(h.rules)) : marked[i] = h.seq
        /\ \A i \in 1 .. Len(h.lastUse) : marked[i] \in {h.lastUse[i], h.seq}
    BY <1>5, <2>1, MarkFacts
  <2> HIDE DEF marked
  <2> QED
    BY <1>2, <1>4, <2>2
<1> HIDE DEF marked, used
<1>9. /\ Only({"lastUse", "staged"}, h, base) /\ base.lastUse = marked /\ base.staged = {}
      /\ base.rules = h.rules /\ base.pairIndex = g.pairIndex /\ base.trie = g.trie
  BY <1>4 DEF IsGrammar, Fields, Only
<1> HIDE DEF base, k
<1>10. IsGrammar(base)
  BY <1>9 DEF Only
<1>11. /\ Only({"pairIndex", "trie"}, base, k)
       /\ k.pairIndex = EnterFrom(base.pairIndex, base.rules, h.rulesBefore + 1)
       /\ k.trie = EnterFrom(base.trie, Phrases(base.rules), h.rulesBefore + 1)
  BY <1>7, <1>10 DEF IsGrammar, Fields, Only, IndexFrom
<1>12. Only({"lastUse", "staged", "pairIndex", "trie"}, h, k)
  BY <1>9, <1>11 DEF Only
<1>13. Only(OutcomeFields, g, k)
  BY <1>3, <1>12 DEF Only, OutcomeFields, AttemptFields
<1>14. /\ IsGrammar(k) /\ k.rules = h.rules /\ k.model = h.model /\ k.rulesBefore = Len(g.rules)
       /\ k.staged = {} /\ k.lastUse = marked
  <2>1. /\ k.rules = h.rules /\ k.model = h.model /\ k.rulesBefore = h.rulesBefore
    BY <1>12 DEF Only, Fields
  <2>2. k.staged = base.staged /\ k.lastUse = base.lastUse
    BY <1>11 DEF Only, Fields
  <2> QED
    BY <1>3, <1>9, <1>13, <2>1, <2>2 DEF Only
<1>15. Indexes(k.pairIndex, h.rules)
  <2>1. k.pairIndex = EnterFrom(g.pairIndex, h.rules, Len(g.rules) + 1)
    BY <1>3, <1>9, <1>11
  <2> QED
    BY <1>2, <1>3, <1>5, <2>1, EnterIndexes
<1>16. Indexes(k.trie, Phrases(h.rules))
  <2>1. /\ Len(Phrases(g.rules)) = Len(g.rules) /\ Len(Phrases(h.rules)) = Len(h.rules)
    BY <1>2, <1>3, PhrasesFacts
  <2>2. k.trie = EnterFrom(g.trie, Phrases(h.rules), Len(Phrases(g.rules)) + 1)
    BY <1>3, <1>9, <1>11, <2>1
  <2>3. Extends(Phrases(g.rules), Phrases(h.rules))
    BY <1>2, <1>3, PhrasesExtend
  <2> QED
    BY <1>2, <1>5, <2>1, <2>2, <2>3, EnterIndexes
<1>17. BooksOK(k)
  <2>1. k.rulesBefore \in 0 .. Len(k.rules)
    BY <1>5, <1>14
  <2> QED
    BY <1>3, <1>8, <1>14, <1>15, <1>16, <2>1 DEF BooksOK
<1>18. /\ k.epochBaseLen = g.epochBaseLen /\ k.snapshotLens = g.snapshotLens /\ CountersOK(k)
  BY <1>1, <1>13 DEF CountersOK, Only, Fields, OutcomeFields, AttemptFields
<1>19. SnapshotsOK(k.epochBaseLen, k.snapshotLens, Len(k.rules))
  BY <1>1, <1>5, <1>14, <1>18, SnapshotsExtend
<1>20. GrammarOK(k)
  BY <1>14, <1>17, <1>18, <1>19 DEF GrammarOK
<1>21. Extends(g.rules, k.rules)
  BY <1>3, <1>14
<1>22. GrammarBlock(g.rules, g.model.coded, raw, block, k.rules, k.model.coded)
  BY <1>14
<1>23. Marked(g, k, tokens)
  <2>1. ASSUME NEW i \in 1 .. Len(tokens), tokens[i] >= NLit
        PROVE  k.lastUse[Position(tokens[i])] = g.seq
    <3>1. tokens[i] \in Nat /\ tokens[i] < NLit + Len(h.rules)
      BY <1>6 DEF KnownTokens
    <3>2. Position(tokens[i]) \in 1 .. Len(h.rules)
      BY <1>5, <2>1, <3>1 DEF Position
    <3>3. Position(tokens[i]) \in used
      BY DEF used
    <3> QED
      BY <1>8, <1>14, <3>2, <3>3
  <2> QED
    BY <1>8, <1>14, <2>1 DEF Marked
<1> QED
  BY <1>13, <1>20, <1>21, <1>22, <1>23 DEF Settled, k

\* Whatever the size comparison decides, the books agree again (`accept_or_reject`).
LEMMA OutcomeFacts ==
  ASSUME NEW g, GrammarOK(g), NEW raw, NEW a, AttemptOK(g, raw, a), NEW accept
  PROVE  Settled(g, raw, AcceptOrReject(a, accept).g, AcceptOrReject(a, accept).block)
<1>1. PICK h, outcome, block : a = Attempt(h, outcome, block)
  BY DEF AttemptOK
<1>2. a.g = h /\ a.outcome = outcome /\ a.block = block
  BY <1>1 DEF Attempt
<1>3. Undoes(g, h)
  BY <1>2 DEF AttemptOK
<1>4. CASE outcome = "block" /\ accept
  <2>1. /\ GrammarBlock(g.rules, g.model.coded, raw, block, h.rules, h.model.coded)
        /\ h.model.n = NLit + Len(h.rules)
    BY <1>2, <1>4 DEF AttemptOK
  <2>2. Settled(g, raw, CommitNewRules(h, block.tokens), block)
    BY <1>3, <2>1, AcceptFacts
  <2>3. AcceptOrReject(a, accept) = [a EXCEPT !.g = CommitNewRules(@, a.block.tokens)]
    BY <1>2, <1>4 DEF AcceptOrReject
  <2>4. /\ AcceptOrReject(a, accept).g = CommitNewRules(h, block.tokens)
        /\ AcceptOrReject(a, accept).block = block
    BY <1>1, <1>2, <2>3 DEF Attempt
  <2> QED
    BY <2>2, <2>4
<1>5. CASE ~(outcome = "block" /\ accept)
  <2>1. Settled(g, raw, RejectChunk(h), StatelessBlock)
    BY <1>3, RejectFacts
  <2>2. AcceptOrReject(a, accept) = [a EXCEPT !.g = RejectChunk(@), !.block = StatelessBlock]
    BY <1>2, <1>5 DEF AcceptOrReject
  <2>3. /\ AcceptOrReject(a, accept).g = RejectChunk(h)
        /\ AcceptOrReject(a, accept).block = StatelessBlock
    BY <1>1, <1>2, <2>2 DEF Attempt
  <2> QED
    BY <2>1, <2>3
<1> QED
  BY <1>4, <1>5

----------------------------------------------------------------------------
(* Grammar GC. *)

\* f is a run of Reached.
ReachedRun(rules, live, f) ==
  /\ f[0] = live
  /\ \A k \in 1 .. Len(rules) : f[k] = WithComponents(rules, f[k - 1])
  /\ Reached(rules, live) = f[Len(rules)]

\* Reached has a run.
LEMMA ReachedLoop ==
  ASSUME NEW rules, Len(rules) \in Nat, NEW live
  PROVE  \E f : ReachedRun(rules, live, f)
<1> DEFINE N == Len(rules)
           G(f, n) == f = [k \in 0 .. n |-> IF k = 0 THEN live
                                            ELSE WithComponents(rules, f[k - 1])]
           S == {n \in Nat : \E f : G(f, n)}
<1>1. 0 \in S
  <2>1. G([k \in 0 .. 0 |-> live], 0)
    OBVIOUS
  <2> QED
    BY <2>1
<1>2. ASSUME NEW n \in S PROVE n + 1 \in S
  <2>1. PICK f : G(f, n)
    OBVIOUS
  <2> DEFINE h == [k \in 0 .. n + 1 |-> IF k = n + 1 THEN WithComponents(rules, f[n]) ELSE f[k]]
  <2>2. \A k \in 0 .. n + 1 : h[k] = IF k = 0 THEN live ELSE WithComponents(rules, h[k - 1])
    <3> TAKE k \in 0 .. n + 1
    <3>1. CASE k = 0
      BY <2>1, <3>1
    <3>2. CASE k = n + 1
      BY <3>2, <2>1
    <3>3. CASE k \in 1 .. n
      <4>1. h[k] = f[k] /\ h[k - 1] = f[k - 1]
        BY <3>3
      <4>2. f[k] = WithComponents(rules, f[k - 1])
        BY <2>1, <3>3
      <4> QED
        BY <4>1, <4>2, <3>3
    <3> QED
      BY <3>1, <3>2, <3>3
  <2>3. h = [k \in 0 .. n + 1 |-> h[k]]
    OBVIOUS
  <2> HIDE DEF h
  <2>4. G(h, n + 1)
    BY <2>2, <2>3
  <2>5. n + 1 \in Nat
    OBVIOUS
  <2>6. \E e : G(e, n + 1)
    <3> HIDE DEF G
    <3> QED
      BY <2>4
  <2> QED
    BY <2>5, <2>6
<1>3. S = Nat
  <2>1. S \in SUBSET Nat
    OBVIOUS
  <2> HIDE DEF S
  <2> QED
    BY <1>1, <1>2, <2>1, Induction
<1> DEFINE f == CHOOSE f : G(f, N)
<1>4. N \in Nat
  OBVIOUS
<1>5. G(f, N)
  BY <1>3, <1>4
<1>6. Reached(rules, live) = f[N]
  BY DEF Reached
<1> HIDE DEF f
<1>7. f[0] = live
  BY <1>4, <1>5
<1>8. \A k \in 1 .. N : f[k] = WithComponents(rules, f[k - 1])
  BY <1>4, <1>5
<1>9. ReachedRun(rules, live, f)
  BY <1>6, <1>7, <1>8 DEF ReachedRun
<1> QED
  BY <1>9

\* What is live is reached.
LEMMA ReachedFacts ==
  ASSUME NEW rules, Len(rules) \in Nat, NEW live
  PROVE  live \subseteq Reached(rules, live)
<1> DEFINE N == Len(rules)
<1>1. PICK f : ReachedRun(rules, live, f)
  BY ReachedLoop
<1> DEFINE S == {k \in Nat : live \subseteq f[k]}
<1>2. 0 \in S
  BY <1>1 DEF ReachedRun
<1>3. ASSUME NEW k \in 0 .. N - 1, k \in S PROVE k + 1 \in S
  <2>1. k + 1 \in 1 .. N /\ (k + 1) - 1 = k /\ k + 1 \in Nat
    OBVIOUS
  <2>2. f[k + 1] = WithComponents(rules, f[k])
    BY <1>1, <2>1 DEF ReachedRun
  <2>3. live \subseteq f[k + 1]
    BY <1>3, <2>2 DEF WithComponents
  <2> QED
    BY <2>1, <2>3
<1>4. \A k \in 0 .. N : k \in S
  <2> HIDE DEF S
  <2> QED
    BY <1>2, <1>3, InductionUpTo
<1>5. live \subseteq f[N]
  BY <1>4
<1> QED
  BY <1>1, <1>5 DEF ReachedRun

\* f is a run of InOrder.
OrderRun(kept, last, f) ==
  /\ f[0] = <<>>
  /\ \A k \in 1 .. last : f[k] = KeepAt(kept, f[k - 1], k)
  /\ InOrder(kept, last) = f[last]

\* InOrder has a run.
LEMMA OrderLoop ==
  ASSUME NEW last \in Nat, NEW kept
  PROVE  \E f : OrderRun(kept, last, f)
<1> DEFINE N == last
           G(f, n) == f = [k \in 0 .. n |-> IF k = 0 THEN <<>>
                                            ELSE KeepAt(kept, f[k - 1], k)]
           S == {n \in Nat : \E f : G(f, n)}
<1>1. 0 \in S
  <2>1. G([k \in 0 .. 0 |-> <<>>], 0)
    OBVIOUS
  <2> QED
    BY <2>1
<1>2. ASSUME NEW n \in S PROVE n + 1 \in S
  <2>1. PICK f : G(f, n)
    OBVIOUS
  <2> DEFINE h == [k \in 0 .. n + 1 |-> IF k = n + 1 THEN KeepAt(kept, f[n], n + 1) ELSE f[k]]
  <2>2. \A k \in 0 .. n + 1 : h[k] = IF k = 0 THEN <<>> ELSE KeepAt(kept, h[k - 1], k)
    <3> TAKE k \in 0 .. n + 1
    <3>1. CASE k = 0
      BY <2>1, <3>1
    <3>2. CASE k = n + 1
      BY <3>2, <2>1
    <3>3. CASE k \in 1 .. n
      <4>1. h[k] = f[k] /\ h[k - 1] = f[k - 1]
        BY <3>3
      <4>2. f[k] = KeepAt(kept, f[k - 1], k)
        BY <2>1, <3>3
      <4> QED
        BY <4>1, <4>2, <3>3
    <3> QED
      BY <3>1, <3>2, <3>3
  <2>3. h = [k \in 0 .. n + 1 |-> h[k]]
    OBVIOUS
  <2> HIDE DEF h
  <2>4. G(h, n + 1)
    BY <2>2, <2>3
  <2>5. n + 1 \in Nat
    OBVIOUS
  <2>6. \E e : G(e, n + 1)
    <3> HIDE DEF G
    <3> QED
      BY <2>4
  <2> QED
    BY <2>5, <2>6
<1>3. S = Nat
  <2>1. S \in SUBSET Nat
    OBVIOUS
  <2> HIDE DEF S
  <2> QED
    BY <1>1, <1>2, <2>1, Induction
<1> DEFINE f == CHOOSE f : G(f, N)
<1>4. N \in Nat
  OBVIOUS
<1>5. G(f, N)
  BY <1>3, <1>4
<1>6. InOrder(kept, last) = f[N]
  BY DEF InOrder
<1> HIDE DEF f
<1>7. f[0] = <<>>
  BY <1>4, <1>5
<1>8. \A k \in 1 .. N : f[k] = KeepAt(kept, f[k - 1], k)
  BY <1>4, <1>5
<1>9. OrderRun(kept, last, f)
  BY <1>6, <1>7, <1>8 DEF OrderRun
<1> QED
  BY <1>9

\* What InOrder has listed when it has looked at k positions.
Listed(kept, order, k) ==
  /\ order \in Seq(Nat)
  /\ \A i \in 1 .. k : i \in kept => \E p \in 1 .. Len(order) : order[p] = i

\* One position.
LEMMA KeepFacts ==
  ASSUME NEW kept, NEW k \in Nat \ {0}, NEW order, Listed(kept, order, k - 1)
  PROVE  Listed(kept, KeepAt(kept, order, k), k)
<1> DEFINE more == KeepAt(kept, order, k)
<1>1. /\ order \in Seq(Nat) /\ Len(order) \in Nat
      /\ \A i \in 1 .. k - 1 : i \in kept => \E p \in 1 .. Len(order) : order[p] = i
  BY DEF Listed
<1>2. /\ more \in Seq(Nat) /\ Len(more) \in Nat /\ Len(order) <= Len(more)
      /\ \A p \in 1 .. Len(order) : more[p] = order[p]
      /\ k \in kept => Len(more) = Len(order) + 1 /\ more[Len(order) + 1] = k
  <2>1. CASE k \in kept
    <3>1. more = Append(order, k)
      BY <2>1 DEF KeepAt
    <3> QED
      BY <1>1, <3>1
  <2>2. CASE k \notin kept
    BY <1>1, <2>2 DEF KeepAt
  <2> QED
    BY <2>1, <2>2
<1> HIDE DEF more
<1>3. ASSUME NEW i \in 1 .. k, i \in kept PROVE \E p \in 1 .. Len(more) : more[p] = i
  <2>1. CASE i \in 1 .. k - 1
    <3>1. PICK p \in 1 .. Len(order) : order[p] = i
      BY <1>1, <1>3, <2>1
    <3>2. p \in 1 .. Len(more) /\ more[p] = i
      BY <1>1, <1>2, <3>1
    <3> QED
      BY <3>2
  <2>2. CASE i = k
    <3>1. Len(order) + 1 \in 1 .. Len(more) /\ more[Len(order) + 1] = i
      BY <1>1, <1>2, <1>3, <2>2
    <3> QED
      BY <3>1
  <2> QED
    BY <2>1, <2>2
<1> QED
  BY <1>2, <1>3 DEF Listed, more

\* Every kept position is listed.
LEMMA OrderFacts ==
  ASSUME NEW last \in Nat, NEW kept
  PROVE  Listed(kept, InOrder(kept, last), last)
<1>1. PICK f : OrderRun(kept, last, f)
  BY OrderLoop
<1> DEFINE S == {k \in Nat : Listed(kept, f[k], k)}
<1>2. 0 \in S
  <2>1. f[0] = <<>> /\ <<>> \in Seq(Nat)
    BY <1>1 DEF OrderRun
  <2>2. Listed(kept, f[0], 0)
    BY <2>1 DEF Listed
  <2> QED
    BY <2>2
<1>3. ASSUME NEW k \in 0 .. last - 1, k \in S PROVE k + 1 \in S
  <2>1. k + 1 \in 1 .. last /\ (k + 1) - 1 = k /\ k + 1 \in Nat \ {0}
    OBVIOUS
  <2>2. f[k + 1] = KeepAt(kept, f[k], k + 1)
    BY <1>1, <2>1 DEF OrderRun
  <2>3. Listed(kept, f[k], (k + 1) - 1)
    BY <1>3, <2>1
  <2>4. Listed(kept, f[k + 1], k + 1)
    BY <2>1, <2>2, <2>3, KeepFacts
  <2> QED
    BY <2>1, <2>4
<1>4. \A k \in 0 .. last : k \in S
  <2> HIDE DEF S
  <2> QED
    BY <1>2, <1>3, InductionUpTo
<1>5. Listed(kept, f[last], last)
  BY <1>4
<1> QED
  BY <1>1, <1>5 DEF OrderRun

\* Every live rule survives (`live_closure`).
LEMMA ClosureFacts ==
  ASSUME NEW rules, Len(rules) \in Nat, NEW live \in SUBSET (1 .. Len(rules))
  PROVE  /\ LiveClosure(rules, live) \in Seq(Nat)
         /\ live \subseteq Kept(LiveClosure(rules, live))
<1> DEFINE order == LiveClosure(rules, live)
<1>1. Listed(Reached(rules, live), order, Len(rules))
  BY OrderFacts DEF LiveClosure
<1> HIDE DEF order
<1>2. ASSUME NEW i \in live PROVE i \in Kept(order)
  <2>1. i \in Reached(rules, live)
    BY ReachedFacts
  <2>2. PICK p \in 1 .. Len(order) : order[p] = i
    BY <1>1, <2>1 DEF Listed
  <2> QED
    BY <2>2 DEF Kept
<1> QED
  BY <1>1, <1>2 DEF Listed, order

\* A remap by `survivors` takes g's table and coding to h's, and no rule used within the
\* last gcInterval chunks is lost.
Compacts(g, survivors, h) ==
  /\ survivors \in Seq(Nat) /\ Len(survivors) < Len(g.rules) /\ RemapOK(g.rules, survivors)
  /\ h.rules = Remap(g.rules, survivors)
  /\ h.model.coded = Append(g.model.coded, [n |-> NLit + Len(survivors), tokens |-> <<>>])
  /\ h.lag = g.lag /\ h.gcInterval = g.gcInterval /\ h.seq = g.seq
  /\ h.gcEpoch = g.gcEpoch + 1
  /\ \A i \in 1 .. Len(g.rules) :
       g.lastUse[i] >= g.seq - g.gcInterval + 1 => i \in Kept(survivors)
  /\ \A p \in 1 .. Len(survivors) : h.lastUse[p] = g.lastUse[survivors[p]]

\* What a GC attempt makes of the grammar.
Collected(g, t) ==
  /\ GrammarOK(t.g)
  /\ \/ t.gc = NoGc /\ Only({"intervalStartSeq"}, g, t.g)
     \/ \E survivors : /\ t.gc = [some |-> TRUE, survivors |-> survivors]
                       /\ Compacts(g, survivors, t.g)

\* Applying a GC record to the encoder's own grammar (`apply_gc`).
LEMMA ApplyFacts ==
  ASSUME NEW g, GrammarOK(g), NEW survivors \in Seq(Nat), RemapOK(g.rules, survivors),
         Len(survivors) < Len(g.rules),
         \A i \in 1 .. Len(g.rules) :
           g.lastUse[i] >= g.seq - g.gcInterval + 1 => i \in Kept(survivors)
  PROVE  GrammarOK(ApplyGc(g, survivors)) /\ Compacts(g, survivors, ApplyGc(g, survivors))
<1> DEFINE rules == Remap(g.rules, survivors)
           model == ShrinkAlphabet(g.model, NLit + Len(rules))
           marks == [p \in 1 .. Len(survivors) |-> g.lastUse[survivors[p]]]
           a == [g EXCEPT !.rules = rules, !.lastUse = marks, !.rulesBefore = Len(rules),
                          !.model = model]
           b == [a EXCEPT !.pairIndex = NoMap, !.trie = NoMap]
           c == IndexFrom(b, 1)
           h == ApplyGc(g, survivors)
<1>1. /\ IsGrammar(g) /\ BooksOK(g) /\ CountersOK(g)
  BY DEF GrammarOK
<1>2. /\ g.rules \in Table /\ g.model \in Model /\ g.model.n = NLit + Len(g.rules)
      /\ g.lastUse \in Seq(Nat) /\ Len(g.lastUse) = Len(g.rules) /\ g.gcEpoch \in Nat
  BY <1>1 DEF BooksOK, CountersOK
<1>3. Len(g.rules) \in Nat /\ Len(survivors) \in Nat /\ NLit \in Nat
  BY <1>2, TableLength, AlphabetFacts
<1>4. rules \in Table /\ Len(rules) = Len(survivors)
  BY <1>2, RemapTable
<1>5. h = StartEpoch(c)
  BY DEF ApplyGc, RebuildIndexes
<1>6. marks \in Seq(Nat) /\ Len(marks) = Len(survivors)
      /\ \A p \in 1 .. Len(survivors) : marks[p] = g.lastUse[survivors[p]]
  <2>1. \A p \in 1 .. Len(survivors) : survivors[p] \in 1 .. Len(g.rules)
    BY DEF RemapOK
  <2>2. \A p \in 1 .. Len(survivors) : g.lastUse[survivors[p]] \in Nat
    BY ONLY <1>2, <2>1, SMTT(30)
  <2> QED
    BY <1>3, <2>2
<1>7. /\ model \in Model /\ model.n = NLit + Len(rules)
      /\ model.coded = Append(g.model.coded, [n |-> NLit + Len(survivors), tokens |-> <<>>])
  <2> DEFINE n2 == NLit + Len(rules)
             e  == [n |-> n2, tokens |-> <<>>]
  <2>1. n2 \in Nat /\ ~(n2 >= g.model.n) /\ n2 = NLit + Len(survivors)
    BY <1>2, <1>3, <1>4
  <2>2. model = [g.model EXCEPT !.n = n2, !.coded = Append(g.model.coded, e)]
    BY <2>1 DEF ShrinkAlphabet
  <2>3. e \in Coding /\ g.model.coded \in Seq(Coding)
    BY <1>2, <2>1 DEF Coding, Model
  <2>4. Append(g.model.coded, e) \in Seq(Coding)
    BY <2>3
  <2> HIDE DEF n2, e, model
  <2>5. model \in Model /\ model.n = n2 /\ model.coded = Append(g.model.coded, e)
    BY <1>2, <2>1, <2>2, <2>4 DEF Model
  <2> QED
    BY <2>1, <2>5 DEF n2, e
<1> HIDE DEF rules, model, marks
<1>8. /\ Only({"rules", "lastUse", "rulesBefore", "model"}, g, a)
      /\ a.rules = rules /\ a.lastUse = marks /\ a.rulesBefore = Len(rules) /\ a.model = model
  BY <1>1 DEF IsGrammar, Fields, Only
<1> HIDE DEF a
<1>9. /\ Only({"pairIndex", "trie"}, a, b) /\ b.pairIndex = NoMap /\ b.trie = NoMap
      /\ b.rules = rules
  BY <1>8 DEF IsGrammar, Fields, Only
<1> HIDE DEF b
<1>10. /\ Only({"pairIndex", "trie"}, b, c)
       /\ c.pairIndex = EnterFrom(NoMap, rules, 1)
       /\ c.trie = EnterFrom(NoMap, Phrases(rules), 1)
       /\ c.rules = rules
  BY <1>9 DEF IsGrammar, Fields, Only, IndexFrom
<1> HIDE DEF c, h
<1>11. /\ Only({"snapshotLens", "epochBaseLen", "staged", "gcEpoch"}, c, h)
       /\ h.snapshotLens = <<>> /\ h.epochBaseLen = Len(c.rules) /\ h.staged = {}
       /\ h.gcEpoch = c.gcEpoch + 1
  BY <1>5, <1>10 DEF IsGrammar, Fields, Only, StartEpoch
<1>12. Only({"pairIndex", "trie"}, a, c)
  BY <1>9, <1>10 DEF Only
<1>13. Only({"pairIndex", "trie", "snapshotLens", "epochBaseLen", "staged", "gcEpoch"}, a, h)
  BY <1>11, <1>12 DEF Only
<1>14. Only({"rules", "lastUse", "rulesBefore", "model", "pairIndex", "trie", "snapshotLens",
             "epochBaseLen", "staged", "gcEpoch"}, g, h)
  BY <1>8, <1>13 DEF Only
<1>15. /\ h.rules = rules /\ h.lastUse = marks /\ h.rulesBefore = Len(rules) /\ h.model = model
  BY <1>8, <1>13 DEF Only, Fields
<1>16. /\ h.pairIndex = EnterFrom(NoMap, rules, 1) /\ h.trie = EnterFrom(NoMap, Phrases(rules), 1)
  BY <1>10, <1>11 DEF Only, Fields
<1>17. h.gcEpoch = g.gcEpoch + 1
  <2>1. c.gcEpoch = a.gcEpoch
    BY <1>12 DEF Only, Fields
  <2>2. a.gcEpoch = g.gcEpoch
    BY <1>8 DEF Only, Fields
  <2> QED
    BY <1>11, <2>1, <2>2
<1>18. /\ h.lag = g.lag /\ h.gcInterval = g.gcInterval /\ h.seq = g.seq
       /\ h.intervalStartSeq = g.intervalStartSeq
  BY <1>14 DEF Only, Fields
<1>19. Indexes(h.pairIndex, rules) /\ Indexes(h.trie, Phrases(rules))
  BY <1>3, <1>4, <1>16, PhrasesFacts, EnterAll
<1>20. BooksOK(h)
  <2>1. h.rulesBefore \in 0 .. Len(h.rules)
    BY <1>3, <1>4, <1>15
  <2>2. h.staged = {} /\ h.lastUse \in Seq(Nat) /\ Len(h.lastUse) = Len(h.rules)
    BY <1>4, <1>6, <1>11, <1>15
  <2> QED
    BY <1>4, <1>7, <1>15, <1>19, <2>1, <2>2 DEF BooksOK
<1>21. CountersOK(h)
  BY <1>1, <1>2, <1>17, <1>18 DEF CountersOK
<1>22. SnapshotsOK(h.epochBaseLen, h.snapshotLens, Len(h.rules))
  <2>1. h.epochBaseLen = Len(survivors) /\ Len(h.rules) = Len(survivors) /\ h.snapshotLens = <<>>
    BY <1>4, <1>10, <1>11, <1>15
  <2> QED
    BY <1>3, <2>1 DEF SnapshotsOK
<1>23. IsGrammar(h)
  BY <1>14 DEF Only
<1>24. GrammarOK(h)
  BY <1>20, <1>21, <1>22, <1>23 DEF GrammarOK
<1>25. Compacts(g, survivors, h)
  BY <1>6, <1>7, <1>15, <1>17, <1>18 DEF Compacts, rules
<1> QED
  BY <1>24, <1>25 DEF h

\* A GC attempt after a chunk (`gc_attempt`).
LEMMA GcFacts ==
  ASSUME NEW g, GrammarOK(g)
  PROVE  Collected(g, GcAttempt(g))
<1> DEFINE survivors == LiveClosure(g.rules, LiveRules(g))
           moved     == [g EXCEPT !.intervalStartSeq = g.seq + 1]
           t         == GcAttempt(g)
<1>1. /\ IsGrammar(g) /\ BooksOK(g) /\ CountersOK(g)
      /\ SnapshotsOK(g.epochBaseLen, g.snapshotLens, Len(g.rules))
  BY DEF GrammarOK
<1>2. g.rules \in Table /\ g.lastUse \in Seq(Nat) /\ Len(g.lastUse) = Len(g.rules)
  BY <1>1 DEF BooksOK
<1>3. Len(g.rules) \in Nat
  BY <1>2, TableLength
<1>4. g.seq \in Nat /\ g.intervalStartSeq \in Nat /\ g.gcInterval \in Nat
  BY <1>1 DEF CountersOK
<1>5. survivors \in Seq(Nat) /\ LiveRules(g) \subseteq Kept(survivors)
  BY <1>3, ClosureFacts DEF LiveRules
<1> HIDE DEF survivors
<1>6. /\ Only({"intervalStartSeq"}, g, moved) /\ moved.intervalStartSeq = g.seq + 1
  BY <1>1 DEF IsGrammar, Fields, Only
<1> HIDE DEF moved
<1>7. IsGrammar(moved)
  BY <1>6 DEF Only
<1>8. GrammarOK(moved)
  <2>1. /\ moved.rules = g.rules /\ moved.pairIndex = g.pairIndex /\ moved.trie = g.trie
        /\ moved.model = g.model /\ moved.staged = g.staged /\ moved.rulesBefore = g.rulesBefore
        /\ moved.lastUse = g.lastUse
    BY <1>6 DEF Only, Fields
  <2>2. /\ moved.lag = g.lag /\ moved.gcInterval = g.gcInterval /\ moved.seq = g.seq
        /\ moved.gcEpoch = g.gcEpoch
        /\ moved.epochBaseLen = g.epochBaseLen /\ moved.snapshotLens = g.snapshotLens
    BY <1>6 DEF Only, Fields
  <2>3. BooksOK(moved)
    BY <1>1, <2>1 DEF BooksOK
  <2>4. CountersOK(moved)
    BY <1>1, <1>4, <1>6, <2>2 DEF CountersOK
  <2> QED
    BY <1>1, <1>7, <2>1, <2>2, <2>3, <2>4 DEF GrammarOK
<1>9. CASE g.seq - g.intervalStartSeq + 1 < g.gcInterval
  <2>1. t = [g |-> g, gc |-> NoGc]
    BY <1>9 DEF GcAttempt
  <2> HIDE DEF t
  <2>2. t.g = g /\ t.gc = NoGc
    BY <2>1
  <2>3. Only({"intervalStartSeq"}, g, g)
    BY <1>1 DEF Only
  <2> QED
    BY <2>2, <2>3 DEF Collected, t
<1>10. CASE /\ ~(g.seq - g.intervalStartSeq + 1 < g.gcInterval)
            /\ Len(survivors) >= Len(g.rules) \/ ~RemapOK(g.rules, survivors)
  <2>1. t = [g |-> moved, gc |-> NoGc]
    BY <1>10 DEF GcAttempt, survivors, moved
  <2> HIDE DEF t
  <2>2. t.g = moved /\ t.gc = NoGc
    BY <2>1
  <2> QED
    BY <1>6, <1>8, <2>2 DEF Collected, t
<1>11. CASE /\ ~(g.seq - g.intervalStartSeq + 1 < g.gcInterval)
            /\ ~(Len(survivors) >= Len(g.rules) \/ ~RemapOK(g.rules, survivors))
  <2> DEFINE h == ApplyGc(moved, survivors)
             r == [some |-> TRUE, survivors |-> survivors]
  <2>1. t = [g |-> h, gc |-> r]
    BY <1>11 DEF GcAttempt, survivors, moved
  <2> HIDE DEF t, r, h
  <2>2. t.g = h /\ t.gc = r
    BY <2>1
  <2>3. /\ moved.rules = g.rules /\ moved.lastUse = g.lastUse /\ moved.seq = g.seq
        /\ moved.gcInterval = g.gcInterval /\ moved.lag = g.lag /\ moved.gcEpoch = g.gcEpoch
        /\ moved.model = g.model
    BY <1>6 DEF Only, Fields
  <2>4. ASSUME NEW i \in 1 .. Len(g.rules), g.lastUse[i] >= g.seq - g.gcInterval + 1
        PROVE  i \in Kept(survivors)
    <3>1. g.lastUse[i] \in Nat
      BY <1>2
    <3>2. g.lastUse[i] >= g.intervalStartSeq
      BY <1>4, <1>11, <2>4, <3>1
    <3>3. i \in LiveRules(g)
      BY <3>2 DEF LiveRules
    <3> QED
      BY <1>5, <3>3
  <2>5. RemapOK(g.rules, survivors) /\ Len(survivors) < Len(g.rules)
    <3>1. Len(survivors) \in Nat
      BY <1>5
    <3> QED
      BY <1>3, <1>11, <3>1
  <2>6. GrammarOK(h) /\ Compacts(moved, survivors, h)
    BY <1>5, <1>8, <2>3, <2>4, <2>5, ApplyFacts DEF h
  <2>7. Compacts(g, survivors, h)
    BY <2>3, <2>6 DEF Compacts
  <2> QED
    BY <2>2, <2>6, <2>7 DEF Collected, t, r
<1> QED
  BY <1>9, <1>10, <1>11

----------------------------------------------------------------------------
(* One chunk. *)

\* A snapshot length is one the live table has reached.
LEMMA SnapshotFacts ==
  ASSUME NEW g, GrammarOK(g), NEW r \in Nat
  PROVE  SnapshotLenAt(g, r) \in g.epochBaseLen .. Len(g.rules) /\ SnapshotLenAt(g, r) \in Nat
<1>1. g.lag \in Nat /\ SnapshotsOK(g.epochBaseLen, g.snapshotLens, Len(g.rules))
  BY DEF GrammarOK, CountersOK
<1>2. g.rules \in Table
  BY DEF GrammarOK, BooksOK
<1>3. Len(g.rules) \in Nat
  BY <1>2, TableLength
<1>4. /\ g.epochBaseLen \in 0 .. Len(g.rules) /\ g.snapshotLens \in Seq(Nat)
      /\ \A i \in 1 .. Len(g.snapshotLens) : g.snapshotLens[i] \in g.epochBaseLen .. Len(g.rules)
  BY <1>1 DEF SnapshotsOK
<1>5. CASE r >= g.lag /\ r - g.lag < Len(g.snapshotLens)
  <2>1. r - g.lag + 1 \in 1 .. Len(g.snapshotLens)
    BY <1>1, <1>4, <1>5
  <2>2. SnapshotLenAt(g, r) = g.snapshotLens[r - g.lag + 1]
    BY <1>5 DEF SnapshotLenAt
  <2> QED
    BY <1>3, <1>4, <2>1, <2>2
<1>6. CASE ~(r >= g.lag /\ r - g.lag < Len(g.snapshotLens))
  BY <1>3, <1>4, <1>6 DEF SnapshotLenAt
<1> QED
  BY <1>5, <1>6

\* A chunk takes the grammar g0 to k, before a GC attempt.
Advances(g0, raw, k, block) ==
  /\ k.seq = g0.seq + 1
  /\ k.lag = g0.lag /\ k.gcInterval = g0.gcInterval /\ k.gcEpoch = g0.gcEpoch
  /\ Extends(g0.rules, k.rules)
  /\ \/ /\ block = StatelessBlock /\ k.rules = g0.rules /\ k.model.coded = g0.model.coded
        /\ k.lastUse = g0.lastUse
     \/ /\ GrammarBlock(g0.rules, g0.model.coded, raw, block, k.rules, k.model.coded)
        /\ \A i \in 1 .. Len(block.tokens) :
             block.tokens[i] >= NLit => k.lastUse[Position(block.tokens[i])] = k.seq
        /\ \A i \in 1 .. Len(g0.rules) : k.lastUse[i] \in {g0.lastUse[i], k.seq}

\* The grammar a panic leaves in the middle of an attempt.
Halted(g0, h) ==
  /\ h.rules \in Table /\ Extends(g0.rules, h.rules) /\ h.pairIndex = g0.pairIndex
  /\ h.rulesBefore \in 0 .. Len(h.rules)
  /\ h.seq = g0.seq + 1 /\ h.gcEpoch = g0.gcEpoch /\ h.lag = g0.lag

\* What compressing a chunk comes to.
ChunkDone(g0, raw, c) ==
  \/ c.panic = TRUE /\ Halted(g0, c.g)
  \/ /\ c.panic = FALSE
     /\ \E k : /\ GrammarOK(k) /\ Advances(g0, raw, k, c.block)
               /\ c.rules = k.rules /\ Collected(k, c)

\* The next chunk number.
Counted(g0) == [g0 EXCEPT !.seq = @ + 1]

LEMMA CountedFacts ==
  ASSUME NEW g0, GrammarOK(g0)
  PROVE  /\ GrammarOK(Counted(g0)) /\ Only({"seq"}, g0, Counted(g0))
         /\ Counted(g0).seq = g0.seq + 1
<1> DEFINE g == Counted(g0)
<1>1. /\ IsGrammar(g0) /\ BooksOK(g0) /\ CountersOK(g0)
      /\ SnapshotsOK(g0.epochBaseLen, g0.snapshotLens, Len(g0.rules))
  BY DEF GrammarOK
<1>2. Only({"seq"}, g0, g) /\ g.seq = g0.seq + 1
  BY <1>1 DEF IsGrammar, Fields, Only, Counted
<1> HIDE DEF g
<1>3. /\ g.rules = g0.rules /\ g.pairIndex = g0.pairIndex /\ g.trie = g0.trie
      /\ g.model = g0.model /\ g.staged = g0.staged /\ g.rulesBefore = g0.rulesBefore
      /\ g.lastUse = g0.lastUse
  BY <1>2 DEF Only, Fields
<1>4. /\ g.lag = g0.lag /\ g.gcInterval = g0.gcInterval
      /\ g.intervalStartSeq = g0.intervalStartSeq /\ g.gcEpoch = g0.gcEpoch
      /\ g.epochBaseLen = g0.epochBaseLen /\ g.snapshotLens = g0.snapshotLens
  BY <1>2 DEF Only, Fields
<1>5. BooksOK(g)
  BY <1>1, <1>3 DEF BooksOK
<1>6. CountersOK(g)
  BY <1>1, <1>2, <1>4 DEF CountersOK
<1>7. IsGrammar(g)
  BY <1>2 DEF Only
<1>8. GrammarOK(g)
  BY <1>1, <1>3, <1>4, <1>5, <1>6, <1>7 DEF GrammarOK
<1> QED
  BY <1>2, <1>8 DEF g

\* What has settled is an advance on the grammar before the chunk was counted.
LEMMA SettledAdvances ==
  ASSUME NEW g0, GrammarOK(g0), NEW raw, NEW h, NEW block, Settled(Counted(g0), raw, h, block)
  PROVE  GrammarOK(h) /\ Advances(g0, raw, h, block)
<1> DEFINE g == Counted(g0)
<1>1. Only({"seq"}, g0, g) /\ g.seq = g0.seq + 1
  BY CountedFacts
<1> HIDE DEF g
<1>2. /\ g.rules = g0.rules /\ g.model = g0.model /\ g.lastUse = g0.lastUse
      /\ g.lag = g0.lag /\ g.gcInterval = g0.gcInterval /\ g.gcEpoch = g0.gcEpoch
  BY <1>1 DEF Only, Fields
<1>3. /\ GrammarOK(h) /\ Only(OutcomeFields, g, h) /\ Extends(g.rules, h.rules)
      /\ \/ /\ block = StatelessBlock /\ h.rules = g.rules /\ h.model.coded = g.model.coded
            /\ h.lastUse = g.lastUse
         \/ /\ GrammarBlock(g.rules, g.model.coded, raw, block, h.rules, h.model.coded)
            /\ Marked(g, h, block.tokens)
  BY DEF Settled, g
<1>4. h.lag = g.lag /\ h.gcInterval = g.gcInterval /\ h.gcEpoch = g.gcEpoch /\ h.seq = g.seq
  BY <1>3 DEF Only, Fields, OutcomeFields, AttemptFields
<1>5. CASE /\ block = StatelessBlock /\ h.rules = g.rules /\ h.model.coded = g.model.coded
           /\ h.lastUse = g.lastUse
  BY <1>1, <1>2, <1>3, <1>4, <1>5 DEF Advances
<1>6. CASE /\ GrammarBlock(g.rules, g.model.coded, raw, block, h.rules, h.model.coded)
           /\ Marked(g, h, block.tokens)
  <2>1. /\ \A i \in 1 .. Len(block.tokens) :
             block.tokens[i] >= NLit => h.lastUse[Position(block.tokens[i])] = h.seq
        /\ \A i \in 1 .. Len(g0.rules) : h.lastUse[i] \in {g0.lastUse[i], h.seq}
    BY <1>2, <1>4, <1>6 DEF Marked
  <2>2. GrammarBlock(g0.rules, g0.model.coded, raw, block, h.rules, h.model.coded)
    BY <1>2, <1>6
  <2> QED
    BY <1>1, <1>2, <1>3, <1>4, <2>1, <2>2 DEF Advances
<1> QED
  BY <1>3, <1>5, <1>6

\* Entering the table's length in the snapshots, then the GC attempt (`emit_tail`).
LEMMA TailFacts ==
  ASSUME NEW g0, GrammarOK(g0), NEW raw, NEW a, Settled(Counted(g0), raw, a.g, a.block)
  PROVE  ChunkDone(g0, raw, EmitTail(a))
<1> DEFINE h == a.g
           k == [h EXCEPT !.snapshotLens = Append(@, Len(h.rules))]
           t == GcAttempt(k)
           c == EmitTail(a)
<1>1. GrammarOK(h) /\ Advances(g0, raw, h, a.block)
  BY SettledAdvances
<1>2. c = [g |-> t.g, gc |-> t.gc, block |-> a.block, rules |-> k.rules, panic |-> FALSE]
  BY DEF EmitTail
<1> HIDE DEF h, t, c
<1>3. /\ IsGrammar(h) /\ BooksOK(h) /\ CountersOK(h)
      /\ SnapshotsOK(h.epochBaseLen, h.snapshotLens, Len(h.rules))
  BY <1>1 DEF GrammarOK
<1>4. /\ Only({"snapshotLens"}, h, k) /\ k.snapshotLens = Append(h.snapshotLens, Len(h.rules))
  BY <1>3 DEF IsGrammar, Fields, Only
<1> HIDE DEF k
<1>5. /\ k.rules = h.rules /\ k.pairIndex = h.pairIndex /\ k.trie = h.trie
      /\ k.model = h.model /\ k.staged = h.staged /\ k.rulesBefore = h.rulesBefore
      /\ k.lastUse = h.lastUse
  BY <1>4 DEF Only, Fields
<1>6. /\ k.lag = h.lag /\ k.gcInterval = h.gcInterval /\ k.seq = h.seq
      /\ k.intervalStartSeq = h.intervalStartSeq /\ k.gcEpoch = h.gcEpoch
      /\ k.epochBaseLen = h.epochBaseLen
  BY <1>4 DEF Only, Fields
<1>7. BooksOK(k) /\ CountersOK(k)
  BY <1>3, <1>5, <1>6 DEF BooksOK, CountersOK
<1>8. SnapshotsOK(k.epochBaseLen, k.snapshotLens, Len(k.rules))
  <2> DEFINE lens == h.snapshotLens
             n    == Len(h.rules)
             base == h.epochBaseLen
             more == Append(lens, n)
  <2>1. h.rules \in Table
    BY <1>3 DEF BooksOK
  <2>2. n \in Nat
    BY <2>1, TableLength
  <2> HIDE DEF n
  <2>3. /\ base \in 0 .. n /\ lens \in Seq(Nat)
        /\ \A i \in 1 .. Len(lens) : lens[i] \in base .. n
        /\ \A i, j \in 1 .. Len(lens) : i < j => lens[i] <= lens[j]
    BY <1>3 DEF SnapshotsOK, n
  <2> HIDE DEF lens, base
  <2>4. /\ Len(lens) \in Nat /\ Len(more) = Len(lens) + 1 /\ more \in Seq(Nat)
        /\ more[Len(lens) + 1] = n /\ \A i \in 1 .. Len(lens) : more[i] = lens[i]
    BY <2>2, <2>3
  <2> HIDE DEF more
  <2>5. \A i \in 1 .. Len(more) : more[i] \in base .. n
    <3> TAKE i \in 1 .. Len(more)
    <3>1. i \in 1 .. Len(lens) \/ i = Len(lens) + 1
      BY <2>4
    <3>2. CASE i \in 1 .. Len(lens)
      BY <2>3, <2>4, <3>2
    <3>3. CASE i = Len(lens) + 1
      <4>1. n \in base .. n
        BY <2>2, <2>3
      <4> QED
        BY <2>4, <3>3, <4>1
    <3> QED
      BY <3>1, <3>2, <3>3
  <2>6. \A i, j \in 1 .. Len(more) : i < j => more[i] <= more[j]
    <3> TAKE i, j \in 1 .. Len(more)
    <3> HAVE i < j
    <3>1. i \in 1 .. Len(lens)
      BY <2>4
    <3>2. CASE j \in 1 .. Len(lens)
      BY <2>3, <2>4, <3>1, <3>2
    <3>3. CASE j = Len(lens) + 1
      <4>1. more[i] \in base .. n
        BY <2>5
      <4> QED
        BY <2>2, <2>3, <2>4, <3>3, <4>1
    <3> QED
      BY <2>4, <3>2, <3>3, SMTT(30)
  <2>7. SnapshotsOK(base, more, n)
    BY <2>3, <2>4, <2>5, <2>6 DEF SnapshotsOK
  <2> QED
    BY <1>4, <1>5, <1>6, <2>7 DEF base, more, lens, n
<1>9. IsGrammar(k)
  BY <1>4 DEF Only
<1>10. GrammarOK(k)
  BY <1>7, <1>8, <1>9 DEF GrammarOK
<1>11. Collected(k, t)
  BY <1>10, GcFacts DEF t
<1>12. Advances(g0, raw, k, a.block)
  BY <1>1, <1>5, <1>6 DEF Advances
<1>13. c.g = t.g /\ c.gc = t.gc /\ c.block = a.block /\ c.rules = k.rules /\ c.panic = FALSE
  BY <1>2
<1>14. Collected(k, c)
  BY <1>11, <1>13 DEF Collected
<1> QED
  BY <1>10, <1>12, <1>13, <1>14 DEF ChunkDone, c

\* A panic keeps the table closed.
LEMMA HaltFacts ==
  ASSUME NEW g0, GrammarOK(g0), NEW h, Undoes(Counted(g0), h)
  PROVE  Halted(g0, h)
<1> DEFINE g == Counted(g0)
<1>1. Only({"seq"}, g0, g) /\ g.seq = g0.seq + 1
  BY CountedFacts
<1> HIDE DEF g
<1>2. /\ g.rules = g0.rules /\ g.pairIndex = g0.pairIndex /\ g.gcEpoch = g0.gcEpoch
      /\ g.lag = g0.lag
  BY <1>1 DEF Only, Fields
<1>3. /\ Only(AttemptFields, g, h) /\ h.rulesBefore = Len(g.rules)
      /\ h.rules \in Table /\ Extends(g.rules, h.rules)
  BY DEF Undoes, g
<1>4. h.pairIndex = g.pairIndex /\ h.seq = g.seq /\ h.gcEpoch = g.gcEpoch /\ h.lag = g.lag
  BY <1>3 DEF Only, Fields, AttemptFields
<1>5. g0.rules \in Table
  BY DEF GrammarOK, BooksOK
<1>6. h.rulesBefore \in 0 .. Len(h.rules)
  BY <1>2, <1>3, <1>5, TableLength DEF Extends
<1> QED
  BY <1>1, <1>2, <1>3, <1>4, <1>6 DEF Halted

\* The end of a chunk whose attempt is right.
LEMMA FinishFacts ==
  ASSUME NEW g0, GrammarOK(g0), NEW raw, NEW a, AttemptOK(Counted(g0), raw, a), NEW accept
  PROVE  ChunkDone(g0, raw, Finish(a, accept))
<1>1. CASE a.outcome = "panic"
  <2> DEFINE c == Finish(a, accept)
  <2>1. c = [g |-> a.g, gc |-> NoGc, block |-> StatelessBlock, rules |-> a.g.rules, panic |-> TRUE]
    BY <1>1 DEF Finish
  <2> HIDE DEF c
  <2>2. c.panic = TRUE /\ c.g = a.g
    BY <2>1
  <2>3. Halted(g0, a.g)
    BY HaltFacts DEF AttemptOK
  <2> QED
    BY <2>2, <2>3 DEF ChunkDone, c
<1>2. CASE a.outcome # "panic"
  <2> DEFINE b == AcceptOrReject(a, accept)
  <2>1. GrammarOK(Counted(g0))
    BY CountedFacts
  <2>2. Settled(Counted(g0), raw, b.g, b.block)
    BY <2>1, OutcomeFacts
  <2>3. Finish(a, accept) = EmitTail(b)
    BY <1>2 DEF Finish
  <2> HIDE DEF b
  <2> QED
    BY <2>2, <2>3, TailFacts
<1> QED
  BY <1>1, <1>2

\* A chunk that never reaches the grammar.
LEMMA BypassFacts ==
  ASSUME NEW g0, GrammarOK(g0), NEW raw
  PROVE  ChunkDone(g0, raw, EmitTail(Nothing(Counted(g0))))
<1> DEFINE g == Counted(g0)
           a == Nothing(g)
<1>1. GrammarOK(g)
  BY CountedFacts
<1> HIDE DEF g
<1>2. a.g = g /\ a.block = StatelessBlock
  BY DEF Nothing, Attempt
<1>3. g.rules \in Table /\ IsGrammar(g)
  BY <1>1 DEF GrammarOK, BooksOK
<1>4. Extends(g.rules, g.rules) /\ Only(OutcomeFields, g, g)
  BY <1>3, TableLength DEF Extends, Only
<1>5. Settled(g, raw, g, StatelessBlock)
  BY <1>1, <1>4 DEF Settled
<1> HIDE DEF a
<1>6. Settled(Counted(g0), raw, a.g, a.block)
  BY <1>2, <1>5 DEF g
<1> QED
  BY <1>6, TailFacts DEF a, g

\* Compressing a chunk, by whichever path, leaves books that agree, a block that decodes
\* to the chunk and a table the next GC record can be applied to (`compress`).
THEOREM CompressFacts ==
  ASSUME NEW g0, GrammarOK(g0), g0.seq \in Nat, NEW raw \in Seq(Literal), NEW accept
  PROVE  ChunkDone(g0, raw, Compress(g0, raw, accept))
<1> DEFINE g == Counted(g0)
           snapshot == SnapshotLenAt(g, ChunkIndex(g))
<1>1. GrammarOK(g) /\ g.seq = g0.seq + 1
  BY CountedFacts
<1>2. Compress(g0, raw, accept) = IF Bypasses(raw) THEN EmitTail(Nothing(g))
                                  ELSE Finish(DiscoverAndEncode(g, raw, snapshot), accept)
  BY DEF Compress, Counted
<1> HIDE DEF g
<1>3. CASE Bypasses(raw)
  BY <1>2, <1>3, BypassFacts DEF g
<1>4. CASE ~Bypasses(raw)
  <2>1. ChunkIndex(g) \in Nat
    BY <1>1 DEF ChunkIndex
  <2>2. snapshot \in Nat
    BY <1>1, <2>1, SnapshotFacts
  <2> HIDE DEF snapshot
  <2>3. AttemptOK(g, raw, DiscoverAndEncode(g, raw, snapshot))
    BY <1>1, <2>2, DiscoverFacts
  <2> QED
    BY <1>2, <1>4, <2>3, FinishFacts DEF g
<1> QED
  BY <1>3, <1>4

============================================================================
