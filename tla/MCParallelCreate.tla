------------------------- MODULE MCParallelCreate -------------------------
(***************************************************************************)
(* ParallelCreate on two literals, for TLC.                                *)
(***************************************************************************)
EXTENDS ParallelCreate

MCChunks ==
  {<<0, 1, 0, 1, 0, 1>>, <<0, 0, 0, 0, 0>>, <<0, 0, 1, 0, 0, 1, 0, 1, 0, 0>>, <<1, 1, 1>>}

MCHighEntropy == {<<1, 1, 1>>}

\* Six chunks, so that the rules of a dictionary can die while a task is under way: a GC
\* that leaves as many rules as there were makes snapshot lengths of two epochs agree.
MCLongList ==
  <<<<1, 1, 1>>, <<0, 0>>, <<0, 0, 0, 0, 0>>, <<0, 1, 0, 1, 0, 1>>,
    <<0, 1, 0, 1, 1, 1, 1, 1>>, <<1, 1, 1, 1>>>>

MCPieceLists ==
  {s \in UNION {[1 .. n -> MCChunks] : n \in 0 .. 4} : IsInjective(s)} \cup {MCLongList}

MCSeedTables == {<<>>, <<<<0, 0>>, <<2, 1>>>>}
=============================================================================
