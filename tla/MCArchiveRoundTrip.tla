------------------------ MODULE MCArchiveRoundTrip ------------------------
(***************************************************************************)
(* ArchiveRoundTrip on two literals, for TLC.                              *)
(***************************************************************************)
EXTENDS ArchiveRoundTrip

\* Chunks that invent rules, reuse them, share phrases, are one phrase, bypass the grammar.
MCChunks ==
  {<<0, 1, 0, 1, 0, 1>>, <<0, 0, 0, 0, 0>>, <<0, 1, 0, 1, 1, 1, 1, 1>>,
   <<0, 0, 1, 0, 0, 1, 0, 1, 0, 0>>, <<0, 0>>, <<1, 1, 1>>}

MCHighEntropy == {<<1, 1, 1>>}

\* Every list of at most four different chunks.
MCPieceLists ==
  {s \in UNION {[1 .. n -> MCChunks] : n \in 0 .. 4} : IsInjective(s)}

\* No dictionary, or one of two rules with a rule inside a rule.
MCSeedTables == {<<>>, <<<<0, 0>>, <<2, 1>>>>}
=============================================================================
