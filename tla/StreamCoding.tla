----------------------------- MODULE StreamCoding -----------------------------
(***************************************************************************)
(* A one-shot coder at work: a flavour and an alphabet are chosen, then    *)
(* symbols are coded one at a time.  Every state is a stream that may end  *)
(* here, so each invariant is a statement about every stream up to         *)
(* MaxStream symbols.                                                      *)
(***************************************************************************)
EXTENDS StreamCoders

CONSTANT MaxStream   \* bound: symbols in a stream

\* No node of a tree wraps: a total is at most the alphabet and the symbols coded, and a
\* stream of 2^64 symbols does not exist.
ASSUME StreamsFit == MaxStream \in Nat /\ MaxSyms + MaxStream < Word

VARIABLES flavor, sent, coding   \* coding = [model, coder]

vars == <<flavor, sent, coding>>

\* Bytes have no rules; token alphabets may have grown to the cap.
Alphabets(fl) == IF fl = "bytes1" THEN {NLit} ELSE NLit..MaxSyms

Init == /\ flavor \in Flavors
        /\ sent = <<>>
        /\ \E n \in Alphabets(flavor) :
             coding = FreshWriter(flavor, n)

Send(s) == /\ Len(sent) < MaxStream
           /\ sent'   = Append(sent, s)
           /\ coding' = EncodeSymbol(flavor, coding, s)
           /\ UNCHANGED flavor

Next == \E s \in 0..(coding.model.n - 1) : Send(s)

Spec == Init /\ [][Next]_vars
-----------------------------------------------------------------------------
Blob == Finish(flavor, coding, Len(sent))   \* the stream, if it ends here

\* Whatever was sent, decoding the finished stream gives it back, without an error.
StreamInverts ==
  LET r == DecodeStream(flavor, Blob, coding.model.n, Len(sent))
  IN  r.ok /\ r.tokens = sent

\* A decoder consumes exactly the digits its encoder wrote: context.rs:200 takes any
\* other count for a truncated payload.
ConsumesAll ==
  Blob # <<>> =>
    DecodeStream(flavor, Blob, coding.model.n, Len(sent)).consumed = Len(Blob)

\* Every table that may be picked next is balanced, order-2 tables taught late included,
\* and gives every symbol a positive share.
TablesBalanced ==
  LET m == coding.model
  IN  /\ \A c \in DOMAIN m.rows : TableBalanced(m.rows[c])
      /\ \A b \in DOMAIN m.o2 : Active(m.o2[b]) => TableBalanced(m.o2[b])
      /\ \A b \in DOMAIN m.o2 : m.wins1[b] + m.wins2[b] > 0 => Active(m.o2[b])
=============================================================================
