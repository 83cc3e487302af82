------------------------------ MODULE FoldEngine ------------------------------
(***************************************************************************)
(* The incremental engine of aahl.rs `bpe_engine`: a linked list of nodes  *)
(* that only grows, a count for every adjacent pair, and a heap that is    *)
(* never cleaned: an entry whose count has changed since it was pushed is  *)
(* recognised when it is popped.  Counts and heap are touched only at the  *)
(* two edges of each splice.  One step is one turn of the merge loop.      *)
(* Node 0 stands for the -1 of the code.                                   *)
(***************************************************************************)
EXTENDS PairFold, Bags, BagsExt

CONSTANTS NLit, MaxSyms, MaxMerges, MinPairCount, Inputs, Callers

VARIABLES
  caller,   \* [seeds, known, minRep]: fold_with or the grammar's invent
  raw,      \* the symbols handed in
  list,     \* [nodes, head, counts, heap]
  rules, merges, done

vars == <<caller, raw, list, rules, merges, done>>

\* The symbols from the head on.
Walk(l) ==
  LET from[k \in 0..Len(l.nodes), i \in 0..Len(l.nodes)] ==
        IF i = 0 \/ k = 0 THEN <<>> ELSE <<l.nodes[i].sym>> \o from[k - 1, l.nodes[i].nxt]
  IN  from[Len(l.nodes), l.head]

BuildList(syms) ==
  LET n == Len(syms)
      counts == [p \in AdjacentPairs(syms) |-> PairCount(syms, p)]
  IN  [nodes  |-> [i \in 1..n |-> [sym |-> syms[i], prv |-> i - 1,
                                   nxt |-> IF i = n THEN 0 ELSE i + 1]],
       head   |-> 1,
       counts |-> counts,
       heap   |-> SetToBag({<<counts[p], p>> : p \in DOMAIN counts})]

\* Faulty variant: the count goes down and nothing is pushed, as if stale entries were
\* enough to find the pair again.
RetireSilently(l, p) ==
  IF p \notin DOMAIN l.counts THEN l
  ELSE IF l.counts[p] = 1 THEN [l EXCEPT !.counts = [q \in DOMAIN @ \ {p} |-> @[q]]]
  ELSE [l EXCEPT !.counts[p] = @ - 1]

\* `rec_decay`, and the push of what is left.
Retire(l, p) ==
  IF p \notin DOMAIN l.counts THEN l
  ELSE LET c == l.counts[p] - 1
       IN  IF c = 0
           THEN [l EXCEPT !.counts = [q \in DOMAIN @ \ {p} |-> @[q]]]
           ELSE [l EXCEPT !.counts[p] = c, !.heap = BagAdd(@, <<c, p>>)]

\* `rec_grow` and its push.
Create(l, p) ==
  LET c == IF p \in DOMAIN l.counts THEN l.counts[p] + 1 ELSE 1
  IN  [l EXCEPT !.counts = [q \in DOMAIN @ \cup {p} |-> IF q = p THEN c ELSE @[q]],
                !.heap   = BagAdd(@, <<c, p>>)]

\* Faulty variant: only the edge on the left of the pair and the pair itself are retired.
SpliceKeepsRightEdge(l, i, id) ==
  LET j == l.nodes[i].nxt
      a == l.nodes[i].prv
      b == l.nodes[j].nxt
      x == Len(l.nodes) + 1
      l1 == IF a = 0 THEN l ELSE Retire(l, <<l.nodes[a].sym, l.nodes[i].sym>>)
      l2 == Retire(l1, <<l.nodes[i].sym, l.nodes[j].sym>>)
      linked == [k \in 1..x |->
                   IF k = x THEN [sym |-> id, prv |-> a, nxt |-> b]
                   ELSE [l.nodes[k] EXCEPT !.nxt = IF k = a THEN x ELSE @,
                                           !.prv = IF k = b THEN x ELSE @]]
      l3 == [l2 EXCEPT !.nodes = linked, !.head = IF a = 0 THEN x ELSE @]
      l4 == IF a = 0 THEN l3 ELSE Create(l3, <<l.nodes[a].sym, id>>)
  IN  IF b = 0 THEN l4 ELSE Create(l4, <<id, l.nodes[b].sym>>)

\* Nodes i and its successor become one node of symbol id.
SpliceNode(l, i, id) ==
  LET j == l.nodes[i].nxt
      a == l.nodes[i].prv
      b == l.nodes[j].nxt
      x == Len(l.nodes) + 1
      left  == l.nodes[i].sym
      right == l.nodes[j].sym
      before(s) == <<l.nodes[a].sym, s>>
      after(s)  == <<s, l.nodes[b].sym>>
      l1 == IF a = 0 THEN l  ELSE Retire(l, before(left))
      l2 == Retire(l1, <<left, right>>)
      l3 == IF b = 0 THEN l2 ELSE Retire(l2, after(right))
      linked == [k \in 1..x |->
                   IF k = x THEN [sym |-> id, prv |-> a, nxt |-> b]
                   ELSE [l.nodes[k] EXCEPT !.nxt = IF k = a THEN x ELSE @,
                                           !.prv = IF k = b THEN x ELSE @]]
      l4 == [l3 EXCEPT !.nodes = linked, !.head = IF a = 0 THEN x ELSE @]
      l5 == IF a = 0 THEN l4 ELSE Create(l4, before(id))
  IN  IF b = 0 THEN l5 ELSE Create(l5, after(id))

\* One pass over the list: splice at every non-overlapping occurrence of p.
Pass(l, p, id) ==
  LET at[k \in 0..Len(l.nodes)] ==
        IF k = 0 THEN [l |-> l, cur |-> l.head]
        ELSE LET s == at[k - 1]
                 j == IF s.cur = 0 THEN 0 ELSE s.l.nodes[s.cur].nxt
             IN  IF s.cur = 0 THEN s
                 ELSE IF j # 0 /\ <<s.l.nodes[s.cur].sym, s.l.nodes[j].sym>> = p
                 THEN [l |-> SpliceNode(s.l, s.cur, id), cur |-> s.l.nodes[j].nxt]
                 ELSE [s EXCEPT !.cur = j]
  IN  at[Len(l.nodes)].l

\* Heap order: count, then left, then right.
Above(e, f) ==
  \/ e[1] > f[1]
  \/ e[1] = f[1] /\ e[2][1] > f[2][1]
  \/ e[1] = f[1] /\ e[2][1] = f[2][1] /\ e[2][2] > f[2][2]

Live(l, e) == e[2] \in DOMAIN l.counts /\ l.counts[e[2]] = e[1]
LiveEntries(l) == {e \in BagToSet(l.heap) : Live(l, e)}

\* Faulty variant: the top entry is taken without comparing it with the live count.
PoppedUnchecked(l) ==
  LET all  == BagToSet(l.heap)
      best == CHOOSE e \in all : \A f \in all \ {e} : Above(e, f)
  IN  [best |-> best, heap |-> BagRemove(l.heap, best)]

\* Popping: every stale entry above the first live one is lost, and one copy of that.
Popped(l) ==
  LET best == CHOOSE e \in LiveEntries(l) : \A f \in LiveEntries(l) \ {e} : Above(e, f)
      kept == [e \in {f \in BagToSet(l.heap) : f = best \/ Above(best, f)} |-> l.heap[e]]
  IN  [best |-> best, heap |-> BagRemove(kept, best)]

-----------------------------------------------------------------------------
Init == /\ caller \in Callers
        /\ raw \in Inputs
        /\ list = BuildList(raw)
        /\ rules = caller.seeds
        /\ merges = 0
        /\ done = FALSE

\* `cap_ok`, with the rules of this call on top of the caller's.
Room == /\ merges < MaxMerges /\ NLit + Len(rules) < MaxSyms /\ Len(raw) >= 2

\* The best live pair, if it is frequent enough and the caller's on_pair takes it.
Accepted(top) == /\ top.best[1] >= MinPairCount
                 /\ Occurrences(Walk(list), top.best[2]) >= caller.minRep

CanMerge == Room /\ LiveEntries(list) # {} /\ Accepted(Popped(list))

Merge ==
  /\ ~done /\ CanMerge
  /\ LET top   == Popped(list)
         p     == top.best[2]
         known == p \in DOMAIN caller.known
         id    == IF known THEN caller.known[p] ELSE NLit + Len(rules)
     IN  /\ list'  = Pass([list EXCEPT !.heap = top.heap], p, id)
         /\ rules' = IF known THEN rules ELSE Append(rules, p)
  /\ merges' = merges + 1
  /\ UNCHANGED <<caller, raw, done>>

Stop ==
  /\ ~done /\ ~CanMerge
  /\ done' = TRUE
  /\ UNCHANGED <<caller, raw, list, rules, merges>>

Next == Merge \/ Stop

Spec == Init /\ [][Next]_vars
-----------------------------------------------------------------------------
\* The books kept at the splice edges are those a recount of the whole list would give,
\* after any merges, runs of equal symbols included; and the links agree both ways.
CountsExact ==
  LET syms == Walk(list)
  IN  /\ DOMAIN list.counts = AdjacentPairs(syms)
      /\ \A p \in DOMAIN list.counts : list.counts[p] = PairCount(syms, p)
      /\ \A i \in DOMAIN list.nodes : i = list.head => list.nodes[i].prv = 0

\* No mutation of a count misses its push: every pair has a live entry in the heap
\* (aahl.rs:248-250), so the first live entry popped is the true maximum.
HeapCoversCounts ==
  ~done => \A p \in DOMAIN list.counts : <<list.counts[p], p>> \in BagToSet(list.heap)

\* The engine picks, splices and stops exactly as a scan of the whole list would.
Reference == INSTANCE PairFolding WITH syms <- Walk(list)
FollowsReference == Reference!Spec
=============================================================================
