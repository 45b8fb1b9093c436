-------------------------------- MODULE Ranks ------------------------------
(***************************************************************************)
(* Rank strings (packages/types/src/rank.ts) as sequences of digits.  The  *)
(* characters of DIGITS ascend in code order, so comparing strings is      *)
(* comparing their digits; null, an open bound, is the empty sequence.     *)
(***************************************************************************)
EXTENDS Integers, Sequences

CONSTANT BASE

ASSUME BaseAssumption == BASE \in Nat /\ BASE >= 2

Digit == 0..(BASE - 1)

Open == <<>>

\* a < b on strings: the first difference decides, a proper prefix comes first.
Less(a, b) ==
  \E n \in 1..Len(b) : /\ n <= Len(a) + 1
                       /\ \A j \in 1..(n - 1) : a[j] = b[j]
                       /\ n <= Len(a) => a[n] < b[n]

\* Ranks that can bound another one from above: no trailing '0', which would
\* leave no room below (between "A" and "A0" there is no string).
NoTrailingZero(s) == s # Open => s[Len(s)] # 0

\* Missing digits of a read as 0.
LowerDigit(a, p) == IF p <= Len(a) THEN a[p] ELSE 0

\* An exhausted b reads as BASE.
UpperDigit(b, p) == IF p <= Len(b) THEN b[p] ELSE BASE


Mid(da, db) == (da + db) \div 2

\* b is no ceiling at p: it is null or was strictly greater at an earlier digit.
CeilingOpen(a, b, p) ==
  b = Open \/ \E k \in 1..(p - 1) : UpperDigit(b, k) > LowerDigit(a, k)

\* The middle between the bounds' digits at p.
MidAt(a, b, p) ==
  Mid(LowerDigit(a, p), IF CeilingOpen(a, b, p) THEN BASE ELSE UpperDigit(b, p))

\* rankBetween(a, b) for a < b, without its loop: a's digits up to the first
\* position with a gap, then the middle of that gap.
RankBetween(a, b) ==
  LET Gap(p) == MidAt(a, b, p) > LowerDigit(a, p)
      Limit == Len(a) + Len(b) + 1
      p == CHOOSE q \in 1..Limit : Gap(q) /\ \A k \in 1..(q - 1) : ~Gap(k)
  IN [k \in 1..p |-> IF k < p THEN LowerDigit(a, k) ELSE MidAt(a, b, p)]

\* Mutant: an empty column starts at the smallest digit.
FirstRankSmallest == <<0>>

\* The first rank of an empty column.
FirstRank == <<BASE \div 2>>
=============================================================================
