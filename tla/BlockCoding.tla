----------------------------- MODULE BlockCoding -----------------------------
(***************************************************************************)
(* From the bytes of a chunk to a stateless block and back: the engine     *)
(* folds, compress_block keeps one of the blocks it builds from the folded *)
(* tokens, decompress_block reads it.  The grammar's own use of the engine *)
(* (invent) stops at the tokens.                                           *)
(***************************************************************************)
EXTENDS FoldEngine

CONSTANTS Word, Digit, Width, RuleCtx, HotRules, Scatter, Buckets, MinTotal, MinSeen,
          MinRep, MinSpectral, MaxPeriod, PieceSize, MaxBins

VARIABLES block,    \* <<>>, or <<the block>>
          answers   \* <<>>, or what reading it answers, per expected length

codingVars == <<vars, block, answers>>

Codec == INSTANCE BlockCodec

CodingInit == Init /\ block = <<>> /\ answers = <<>>

Fold == Next /\ UNCHANGED <<block, answers>>

Emit == /\ done /\ block = <<>> /\ caller.seeds = <<>> /\ caller.minRep = MinRep
        /\ \E b \in Codec!CompressBlock(raw, Walk(list), rules) \cup {Codec!ContextEncode(raw)} :
             block' = <<b>>
        /\ UNCHANGED <<vars, answers>>

\* The reader asks for the length its index holds; one too many or too few is an index
\* that does not belong to the block.
ReadBack == /\ block # <<>> /\ answers = <<>>
            /\ answers' = [d \in {-1, 0, 1} |-> Codec!DecompressBlock(block[1], Len(raw) + d)]
            /\ UNCHANGED <<vars, block>>

CodingNext == Fold \/ Emit \/ ReadBack

CodingSpec == CodingInit /\ [][CodingNext]_codingVars
-----------------------------------------------------------------------------
\* Whichever block was kept for whichever chunk, reading it gives the chunk back; asked
\* for a shorter chunk than it holds, no codec but the periodic one answers with success.
BlocksInvert ==
  answers # <<>> => /\ answers[0] = Codec!Done(raw)
                    /\ block[1].tag # "S" => ~answers[-1].ok
=============================================================================
