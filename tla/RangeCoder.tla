------------------------------ MODULE RangeCoder ------------------------------
(***************************************************************************)
(* The range coder of arith.rs, over digits of base Digit with             *)
(* Width digits of state (256 and 4 in the code: a 32-bit low and range).  *)
(* A carry out of low is added to the one digit held back in `cache` and   *)
(* to the run of maximal digits counted by `cacheSize`.                    *)
(***************************************************************************)
EXTENDS Integers, Sequences

CONSTANTS Digit,   \* base of an output digit
          Width    \* digits held by low, range and code

ASSUME CoderAssumption == Digit \in Nat /\ Digit > 1 /\ Width \in Nat /\ Width > 1

DigitTo(n) == LET power[k \in 0..n] == IF k = 0 THEN 1 ELSE Digit * power[k - 1]
              IN  power[n]

Full == DigitTo(Width)
Top  == DigitTo(Width - 1)

EncoderNew == [low |-> 0, range |-> Full - 1, cache |-> 0, cacheSize |-> 1, out |-> <<>>]

\* Faulty variant: the carry reaches the held digit but not the run behind it.
CarryStops(e) ==
  LET low     == e.low % Full
      carry   == e.low \div Full
      release == low < (Digit - 1) * Top \/ carry # 0
      held    == [i \in 1..e.cacheSize |->
                    IF i = 1 THEN (e.cache + carry) % Digit ELSE Digit - 1]
  IN  [e EXCEPT !.out       = IF release THEN @ \o held ELSE @,
                !.cache     = IF release THEN low \div Top ELSE @,
                !.cacheSize = IF release THEN 1 ELSE @ + 1,
                !.low       = (low * Digit) % Full]

\* `shift_low`: release the held digits once it is known whether a carry reaches them.
ShiftLow(e) ==
  LET low     == e.low % Full
      carry   == e.low \div Full
      release == low < (Digit - 1) * Top \/ carry # 0
      held    == [i \in 1..e.cacheSize |->
                    ((IF i = 1 THEN e.cache ELSE Digit - 1) + carry) % Digit]
  IN  [e EXCEPT !.out       = IF release THEN @ \o held ELSE @,
                !.cache     = IF release THEN low \div Top ELSE @,
                !.cacheSize = IF release THEN 1 ELSE @ + 1,
                !.low       = (low * Digit) % Full]

\* `encode_step`.  A range that was divided down to 0 never reaches Top again: the loop
\* does not end, and the state keeps range 0.
EncodeStep(e, iv) ==
  LET unit == e.range \div iv.total
      scaled == [e EXCEPT !.low = @ + iv.start * unit, !.range = unit * iv.size]
      renorm[k \in 0..Width] ==      \* at most Width turns are left when range > 0
        IF k = 0 THEN scaled
        ELSE LET p == renorm[k - 1]
             IN  IF p.range < Top /\ p.range > 0
                 THEN [ShiftLow(p) EXCEPT !.range = @ * Digit] ELSE p
  IN  renorm[Width]

\* Faulty variant: one shift per digit of low, the digit held in the cache forgotten.
FlushShort(e) ==
  LET shifted[k \in 0..Width] == IF k = 0 THEN e ELSE ShiftLow(shifted[k - 1])
  IN  shifted[Width].out

\* `flush`: Width + 1 shifts push out everything held.
Flush(e) ==
  LET shifted[k \in 0..(Width + 1)] == IF k = 0 THEN e ELSE ShiftLow(shifted[k - 1])
  IN  shifted[Width + 1].out

-----------------------------------------------------------------------------
\* `read_byte`: zero past the end of the buffer; pos counts every read.
ReadDigit(d) == IF d.pos < Len(d.buf) THEN d.buf[d.pos + 1] ELSE 0

TakeDigit(d) == [d EXCEPT !.code = (@ * Digit + ReadDigit(d)) % Full, !.pos = @ + 1]

DecoderNew(buf) ==
  LET filled[k \in 0..(Width + 1)] ==
        IF k = 0 THEN [buf |-> buf, pos |-> 0, code |-> 0, range |-> Full - 1]
        ELSE TakeDigit(filled[k - 1])
  IN  filled[Width + 1]

\* `threshold` divides the range in place and answers the scaled code.
Scale(d, total) == [d EXCEPT !.range = IF @ \div total = 0 THEN 1 ELSE @ \div total]
Threshold(d, total) ==
  LET unit == d.range \div total IN IF unit = 0 THEN 0 ELSE d.code \div unit

\* `decode_step`, on a decoder that `threshold` has scaled; corrupt input saturates.
DecodeStep(d, iv) ==
  LET used == iv.start * d.range
      wide == d.range * iv.size
      taken == [d EXCEPT !.code  = IF used > @ THEN 0 ELSE @ - used,
                         !.range = IF wide = 0 THEN 1 ELSE wide]
      renorm[k \in 0..(2 * Width)] ==
        IF k = 0 THEN taken
        ELSE LET p == renorm[k - 1]
             IN  IF p.range < Top THEN [TakeDigit(p) EXCEPT !.range = @ * Digit] ELSE p
  IN  renorm[2 * Width]
=============================================================================
