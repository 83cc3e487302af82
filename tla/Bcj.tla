---------------------------------- MODULE Bcj ----------------------------------
(***************************************************************************)
(* bcj.rs: the operand of every x86 call, jump and near Jcc is turned from *)
(* relative to absolute and back.  The scan steps over the operands, which *)
(* are all it changes, so both directions stop at the same opcodes.  Two   *)
(* operand bytes of base ByteBase stand for the code's four.               *)
(***************************************************************************)
EXTENDS Integers, Sequences

CONSTANTS ByteBase, Operand,    \* 256 and 4
          Branches,             \* 0xE8, 0xE9
          TwoByte, Jcc,         \* 0x0F, and the second bytes 0x80..0x8F
          Base                  \* address the code is taken to be loaded at

ASSUME BcjAssumption == /\ ByteBase > 1 /\ Operand \in Nat \ {0}
                        /\ Base \in Nat /\ TwoByte \notin Branches

Space == ByteBase ^ Operand

\* Bytes before the operand of the instruction at p, 0 if there is none.
OpcodeLength(b, p) ==
  CASE b[p] \in Branches -> 1
    [] b[p] = TwoByte /\ p < Len(b) /\ b[p + 1] \in Jcc -> 2
    [] OTHER -> 0

\* First bytes of the operands, the truncated one included.
Operands(b) ==
  LET scan[p \in 1..(Len(b) + Operand + 2)] ==
        IF p > Len(b) THEN {}
        ELSE LET n == OpcodeLength(b, p)
             IN  IF n = 0 THEN scan[p + 1] ELSE {p + n} \cup scan[p + n + Operand]
  IN  scan[1]

Whole(b, q) == q + Operand - 1 <= Len(b)

\* Little-endian value of the operand at q.
Value(b, q) ==
  LET sum[i \in 0..Operand] == IF i = 0 THEN 0 ELSE sum[i - 1] + b[q + i - 1] * ByteBase ^ (i - 1)
  IN  sum[Operand]

\* `transform`: the instruction pointer is the offset just behind the operand.
Transform(b, toAbsolute, terminal) ==
  LET ops == {q \in Operands(b) : Whole(b, q)}
      ip(q) == Base + q + Operand - 1
      new(q) == (Value(b, q) + (IF toAbsolute THEN ip(q) ELSE -ip(q))) % Space
      host(i) == {q \in ops : i \in q..(q + Operand - 1)}
      out == [i \in DOMAIN b |->
                IF host(i) = {} THEN b[i]
                ELSE LET q == CHOOSE x \in host(i) : TRUE
                     IN  (new(q) \div ByteBase ^ (i - q)) % ByteBase]
  IN  IF terminal \/ \A q \in Operands(b) : Whole(b, q)
      THEN [ok |-> TRUE, out |-> out] ELSE [ok |-> FALSE, out |-> <<>>]

Forward(b, terminal)    == Transform(b, TRUE, terminal)
BcjInverse(b, terminal) == Transform(b, FALSE, terminal)
=============================================================================
