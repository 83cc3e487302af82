---------------------------- MODULE MCStreamCoding ----------------------------
(***************************************************************************)
(* The stream coders and the slice transforms side by side: a behaviour is *)
(* one or the other, and what is idle keeps still.                         *)
(***************************************************************************)
EXTENDS StreamCoding, SliceTransforms

\* The bytes of the table model; digits are 0..Radix-1.
Letter == 1100
MCDelims == <<1026, 1027>>
MCYears == MinYear..MaxYear

\* Small and extreme integers, letters, nothing, dates that do and do not exist.
Cells == {<<7>>, <<Minus, Radix \div 2, 0, 0, 0, 0>>,
          <<Radix \div 2 - 1, Radix - 1, Radix - 1, Radix - 1, Radix - 1>>,
          <<Letter>>, <<>>, <<Minus, 0, 2, 29>>, <<Minus, 4, 2, 29>>, <<Minus, 600, 12, 31>>}

\* Lines of two columns, and lines that break the grid.
Lines == {a \o <<Delims[1]>> \o b \o <<Newline>> : a \in Cells, b \in {<<7>>, <<Letter, 7>>}}
         \cup {<<Newline>>, <<7, Delims[2], 7, Newline>>}
Heads == {<<Newline>>, <<7, Delims[1], 7, Newline>>, <<Letter>>}

MCPieces == [k \in Kinds |->
  CASE k = "table" -> <<Heads, Lines, Lines, Lines \cup {<<7, Delims[1]>>}>>
    [] k = "tans"  -> [i \in 1..5 |-> {<<0>>, <<1>>, <<2>>, <<3, 3, 3>>}]
    [] OTHER       -> [i \in 1..7 |-> {<<b>> : b \in 0..(ByteBase - 1)}]]

MCInit == \/ Init /\ kind = "none" /\ slice = <<>> /\ count = 0 /\ today = NoDay
          \/ /\ SliceInit \/ CalendarInit
             /\ flavor = "order0" /\ sent = <<>> /\ coding = FreshWriter("order0", NLit)
MCNext == \/ kind = "none" /\ Next /\ UNCHANGED sliceVars
          \/ SliceNext /\ UNCHANGED vars

MCSpec == MCInit /\ [][MCNext]_<<vars, sliceVars>>
=============================================================================
