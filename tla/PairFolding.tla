----------------------------- MODULE PairFolding -----------------------------
(***************************************************************************)
(* What pair folding promises (aahl.rs:209-212): every merge replaces the  *)
(* pair with the highest count, then the highest key, over the list as it  *)
(* is now.  FoldEngine, which never looks at the whole list again, is      *)
(* shown to implement this.                                                *)
(***************************************************************************)
EXTENDS PairFold

CONSTANTS NLit, MaxSyms, MaxMerges, MinPairCount, Inputs, Callers

\* A caller is the rule table it starts from, the pairs it may reuse, and the number of
\* occurrences a merge must have to pay.
VARIABLES caller, syms, rules, merges, done

vars == <<caller, syms, rules, merges, done>>

Init == /\ caller \in Callers
        /\ syms \in Inputs
        /\ rules = caller.seeds
        /\ merges = 0
        /\ done = FALSE

Foldable(p) == /\ PairCount(syms, p) >= MinPairCount
               /\ Occurrences(syms, p) >= caller.minRep

CanMerge == /\ merges < MaxMerges
            /\ NLit + Len(rules) < MaxSyms
            /\ Len(syms) >= 2
            /\ Foldable(BestPair(syms))

Merge == /\ ~done /\ CanMerge
         /\ LET p     == BestPair(syms)
                known == p \in DOMAIN caller.known
            IN  /\ syms'  = Splice(syms, p, IF known THEN caller.known[p] ELSE NLit + Len(rules))
                /\ rules' = IF known THEN rules ELSE Append(rules, p)
         /\ merges' = merges + 1
         /\ UNCHANGED <<caller, done>>

Stop == /\ ~done /\ ~CanMerge
        /\ done' = TRUE
        /\ UNCHANGED <<caller, syms, rules, merges>>

Spec == Init /\ [][Merge \/ Stop]_vars
=============================================================================
