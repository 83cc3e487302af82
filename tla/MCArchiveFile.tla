---------------------------- MODULE MCArchiveFile ----------------------------
(* Two inputs for TLC: the second may share the first one's path, have one that no output
   directory takes, or one below the first one's; or the first one's lies below its own. *)
EXTENDS ArchiveFile, TLC

MCSymmetry == Permutations(Dicts)

MCInputs   == <<"a", "b">>
MCNaming   == {[i \in {"a", "b"} |-> i], [i \in {"a", "b"} |-> "a"], [a |-> "a", b |-> "bad"],
               [a |-> "a", b |-> "a/b"], [a |-> "a/b", b |-> "a"]}
MCPaths    == {"a", "b", "a/b", "bad", "old"}
MCNested   == {<<"a", "a/b">>}
MCContents == {<<>>, <<0, 1, 0>>, <<1, 1, 0>>}

\* What a create run without dictionary made of an input "old" that held one byte.
MCOldArchive == <<Header(NoDict), DataRecord(<<1>>, 10, NoDict), TableHead(1),
                  Entry("old", 1, <<1>>), Footer(3, 1, 1)>>
=============================================================================
