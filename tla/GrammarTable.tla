--------------------------- MODULE GrammarTable ---------------------------
(***************************************************************************)
(* The rule table that encoder and decoder of an archive grow in step      *)
(* (`rules: Vec<(u16, u16)>` in src/src/grammar.rs), without its owner.    *)
(*                                                                         *)
(* A symbol below NLit is a byte; symbol NLit + k is the rule at Rust      *)
(* index k.  Here a table is a sequence, so that rule stands at position   *)
(* k + 1.  A rule is a pair of symbols.                                    *)
(***************************************************************************)
EXTENDS Integers, Sequences

CONSTANTS
  NLit,     \* how many literals there are (256 in the code)
  MaxSyms   \* the alphabet cap MAX_SYMS (4096 in the code)

ASSUME AlphabetAssumption ==
  /\ NLit \in Nat \ {0}
  /\ MaxSyms \in Nat
  /\ NLit < MaxSyms

MaxRules == MaxSyms - NLit
Literal  == 0 .. (NLit - 1)
Symbol   == 0 .. (MaxSyms - 1)
Pair     == Symbol \X Symbol

\* The symbol of the rule at position i, and the position of a rule symbol.
Id(i)       == NLit + i - 1
Position(s) == s - NLit + 1

\* The decoder's forward-reference check: a rule names literals and older rules only.
RuleOK(rules, i) == rules[i][1] < Id(i) /\ rules[i][2] < Id(i)

Closed(rules) == \A i \in 1 .. Len(rules) : RuleOK(rules, i)

Table == {rules \in Seq(Pair) : Len(rules) <= MaxRules /\ Closed(rules)}

\* A symbol the table gives a meaning to.
Known(rules, s) == s < NLit + Len(rules)

----------------------------------------------------------------------------
(* Expansion into bytes. *)

\* The bytes of one symbol, given those of the rules.
Bytes(exps, s) == IF s < NLit THEN <<s>> ELSE exps[Position(s)]

WithRule(exps, rule) == Append(exps, Bytes(exps, rule[1]) \o Bytes(exps, rule[2]))

\* The literal expansion of every rule of a closed table, older rules first.
Expansions(rules) ==
  LET exps[k \in 0 .. Len(rules)] ==
        IF k = 0 THEN <<>> ELSE WithRule(exps[k - 1], rules[k])
  IN  exps[Len(rules)]

\* The bytes of a token list, given those of the rules.
Joined(exps, tokens) ==
  LET upTo[k \in 0 .. Len(tokens)] ==
        IF k = 0 THEN <<>> ELSE upTo[k - 1] \o Bytes(exps, tokens[k])
  IN  upTo[Len(tokens)]

\* `unfold`.
Unfold(tokens, rules) == Joined(Expansions(rules), tokens)

----------------------------------------------------------------------------
(* Grammar GC: which rules a record may keep, and the table it leaves. *)

\* The positions rule i refers to.
Components(rules, i) == {Position(s) : s \in {rules[i][1], rules[i][2]} \ Literal}

Ascending(survivors) ==
  \A p, q \in 1 .. Len(survivors) : p < q => survivors[p] < survivors[q]

Kept(survivors) == {survivors[p] : p \in 1 .. Len(survivors)}

\* The checks of `apply_gc`: bounds, order, and no survivor with a dead component.
RemapOK(rules, survivors) ==
  /\ Len(survivors) <= MaxRules
  /\ \A p \in 1 .. Len(survivors) : survivors[p] \in 1 .. Len(rules)
  /\ Ascending(survivors)
  /\ \A p \in 1 .. Len(survivors) :
       Components(rules, survivors[p]) \subseteq Kept(survivors)

\* The symbol that stands for s once only `survivors` are left.
Renamed(survivors, s) ==
  IF s < NLit THEN s
  ELSE Id(CHOOSE p \in 1 .. Len(survivors) : survivors[p] = Position(s))

\* Faulty variant: the survivors' definitions keep their old component ids.
RemapUnrenamed(rules, survivors) ==
  [p \in 1 .. Len(survivors) |-> rules[survivors[p]]]

Remap(rules, survivors) ==
  [p \in 1 .. Len(survivors) |-> <<Renamed(survivors, rules[survivors[p]][1]),
                                   Renamed(survivors, rules[survivors[p]][2])>>]
============================================================================
