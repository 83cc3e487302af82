-------------------------- MODULE MCGrammarSync --------------------------
(***************************************************************************)
(* GrammarSync on two literals and at most three rules, for TLC.           *)
(***************************************************************************)
EXTENDS GrammarSync

MCSeedTables == {<<>>, <<<<0, 1>>, <<2, 2>>>>}

UpTo(n, S) == UNION {[1 .. k -> S] : k \in 0 .. n}

MCPairs == {<<0, 1>>, <<2, 0>>, <<3, 0>>}

MCRecords ==
  {[kind |-> "S", defs |-> <<>>, tokens |-> <<>>, survivors |-> <<>>]}
  \cup {[kind |-> "G", defs |-> d, tokens |-> t, survivors |-> <<>>] :
          d \in UpTo(2, MCPairs), t \in UpTo(1, {1, 2, 3, 4})}
  \cup {[kind |-> "GC", defs |-> <<>>, tokens |-> <<>>, survivors |-> s] :
          s \in UpTo(2, 1 .. 3)}

\* The writer is done and the reader has caught up.
Finished == Len(stream) = MaxRecords /\ decoded = MaxRecords /\ UNCHANGED vars

MCNext == Next \/ Finished

MCSpec == Init /\ [][MCNext]_vars
============================================================================
