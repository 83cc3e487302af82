---------------------------- MODULE SliceTransforms ----------------------------
(***************************************************************************)
(* The transforms that take a whole slice at once: the table transform of  *)
(* the v5 container, the branch filter and the table-based coder of the    *)
(* benches.  A slice grows piece by piece and may end anywhere; the        *)
(* calendar behind the date columns is walked a day at a time beside it.   *)
(***************************************************************************)
EXTENDS TableTransform, Bcj, Tans

CONSTANTS Pieces,      \* per kind, what the i-th piece of a slice may be: bounds its length
          Logs,        \* requested table exponents
          Years        \* walked by the calendar

VARIABLES kind, slice, count, today   \* today = <<year, month, day, days since 1970>>

sliceVars == <<kind, slice, count, today>>

Kinds == {"table", "bcj", "bcj_terminal", "tans"}

Leap(y) == y % 4 = 0 /\ (y % 100 # 0 \/ y % 400 = 0)
MonthLength(y, m) ==
  CASE m = 2 -> IF Leap(y) THEN 29 ELSE 28 [] m \in {4, 6, 9, 11} -> 30 [] OTHER -> 31

\* Days from 1970-01-01 to the first of January, by counting leap years.
LeapsBefore(y) == (y - 1) \div 4 - (y - 1) \div 100 + (y - 1) \div 400
NewYear(y) == 365 * (y - 1970) + LeapsBefore(y) - LeapsBefore(1970)

NoDay == <<>>

SliceInit == /\ kind \in Kinds /\ slice = <<>> /\ count = 0 /\ today = NoDay

CalendarInit == /\ kind = "calendar" /\ slice = <<>> /\ count = 0
                /\ \E y \in Years : today = <<y, 1, 1, NewYear(y)>>

Extend == /\ kind \in Kinds /\ count < Len(Pieces[kind])
          /\ \E p \in Pieces[kind][count + 1] : slice' = slice \o p
          /\ count' = count + 1
          /\ UNCHANGED <<kind, today>>

Tomorrow ==
  LET y == today[1]
      m == today[2]
      d == today[3]
  IN  /\ kind = "calendar" /\ <<m, d>> # <<12, 31>>
      /\ today' = IF d < MonthLength(y, m) THEN <<y, m, d + 1, today[4] + 1>>
                                           ELSE <<y, m + 1, 1, today[4] + 1>>
      /\ UNCHANGED <<kind, slice, count>>

SliceNext == Extend \/ Tomorrow
-----------------------------------------------------------------------------
\* A grid is rebuilt byte for byte from the stream and the description the wrapper keeps,
\* under every bound the reader imposes; asked for another length, the reader refuses.
TableInverts ==
  kind = "table" =>
    \A plan \in Range(Candidate(slice)) :
      LET meta == TryUnwrap(WrapBlock(plan.meta))
      IN  /\ IsSome(meta)
          /\ TableInverse(plan.stream, meta[1], Len(slice)) = <<slice>>
          /\ ~IsSome(TableInverse(plan.stream, meta[1], Len(slice) + 1))

\* The filter fails in both directions or undoes itself.
BcjInverts ==
  kind \in {"bcj", "bcj_terminal"} =>
    LET f == Forward(slice, kind = "bcj_terminal")
    IN  IF f.ok THEN BcjInverse(f.out, kind = "bcj_terminal") = [ok |-> TRUE, out |-> slice]
                ELSE ~BcjInverse(slice, FALSE).ok

TansInverts ==
  kind = "tans" /\ slice # <<>> =>
    \A log2 \in Logs :
      TansDecode(TansEncode(slice, log2), Len(slice)) = [ok |-> TRUE, tokens |-> slice]

\* Every transform gives back the slice it was given, whatever the slice.
TransformsInvert == TableInverts /\ BcjInverts /\ TansInverts

\* The conversions agree with the calendar, day by day, over every year a column may hold.
CalendarAgrees ==
  today # NoDay =>
    /\ DaysFromCivil(today[1], today[2], today[3]) = today[4]
    /\ CivilFromDays(today[4]) = <<today[1], today[2], today[3]>>
=============================================================================
