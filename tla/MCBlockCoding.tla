---------------------------- MODULE MCBlockCoding ----------------------------
(* Every chunk up to MaxRaw symbols for TLC, and the two callers of the engine. *)
EXTENDS BlockCoding

CONSTANT MaxRaw

MCInputs == UNION {[1..n -> 0..(NLit - 1)] : n \in 1..MaxRaw}

\* fold_with starts empty and wants the rule to pay; invent reuses the pairs it knows.
FoldWith == [seeds |-> <<>>, known |-> [p \in {} |-> 0], minRep |-> MinRep]
Invent   == [seeds |-> <<<<0, 1>>>>, known |-> [p \in {<<0, 1>>} |-> NLit], minRep |-> 1]
MCCallers == {FoldWith, Invent}
=============================================================================
