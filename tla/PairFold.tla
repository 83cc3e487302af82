------------------------------- MODULE PairFold -------------------------------
(***************************************************************************)
(* One merge of pair folding (aahl.rs bpe_engine), as a function of the    *)
(* current symbol list alone: the reference for the incremental engine of  *)
(* FoldEngine, and the form in which PersistentGrammar uses it.            *)
(***************************************************************************)
EXTENDS Integers, Sequences, FiniteSets

AdjacentPairs(syms) == {<<syms[i], syms[i + 1]>> : i \in 1 .. Len(syms) - 1}

PairCount(syms, p) ==
  Cardinality({i \in 1 .. Len(syms) - 1 : <<syms[i], syms[i + 1]>> = p})

\* Highest count, then highest (left, right).
BestPair(syms) ==
  CHOOSE p \in AdjacentPairs(syms) : \A q \in AdjacentPairs(syms) \ {p} :
    \/ PairCount(syms, p) > PairCount(syms, q)
    \/ /\ PairCount(syms, p) = PairCount(syms, q)
       /\ p[1] > q[1] \/ (p[1] = q[1] /\ p[2] > q[2])

\* Replace the non-overlapping occurrences of p by id, left to right.
SpliceAt(syms, p, id, s) ==
  IF s.at > Len(syms) THEN s
  ELSE IF s.at < Len(syms) /\ <<syms[s.at], syms[s.at + 1]>> = p
       THEN [at |-> s.at + 2, out |-> Append(s.out, id)]
       ELSE [at |-> s.at + 1, out |-> Append(s.out, syms[s.at])]

Splice(syms, p, id) ==
  LET after[k \in 0 .. Len(syms)] ==
        IF k = 0 THEN [at |-> 1, out |-> <<>>] ELSE SpliceAt(syms, p, id, after[k - 1])
  IN  after[Len(syms)].out

\* How many occurrences Splice replaces.
Occurrences(syms, p) ==
  LET from[i \in 1 .. Len(syms) + 2] ==
        IF i >= Len(syms) THEN 0
        ELSE IF <<syms[i], syms[i + 1]>> = p THEN 1 + from[i + 2] ELSE from[i + 1]
  IN  from[1]
=============================================================================
