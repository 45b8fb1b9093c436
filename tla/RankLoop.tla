------------------------------ MODULE RankLoop -----------------------------
(***************************************************************************)
(* rankBetween as the code computes it: a loop that copies digits of the   *)
(* lower bound until it finds a gap.  Whether it ever leaves the loop, and *)
(* whether the string it returns lies between its arguments, depends on    *)
(* when the ceiling opens.                                                 *)
(***************************************************************************)
EXTENDS Ranks

CONSTANT Rank  \* the strings a run passes as bounds

ASSUME RankAssumption == Rank \subseteq Seq(Digit) /\ Open \in Rank

VARIABLES a, b,       \* the arguments
          result,     \* digits emitted so far; i of the code is its length
          upperOpen,  \* b imposes no further ceiling
          pc          \* "loop", "returned" or "thrown"

vars == <<a, b, result, upperOpen, pc>>

Init ==
  /\ a \in Rank
  /\ b \in {s \in Rank : NoTrailingZero(s)}
  /\ result = <<>>
  /\ upperOpen = (b = Open)
  /\ pc = IF a # Open /\ b # Open /\ ~Less(a, b) THEN "thrown" ELSE "loop"

Position == Len(result) + 1

Da == LowerDigit(a, Position)

Db == IF upperOpen THEN BASE ELSE UpperDigit(b, Position)

\* Mutant: any middle will do.
EmitWithoutGap ==
  /\ pc = "loop"
  /\ result' = Append(result, Mid(Da, Db))
  /\ pc' = "returned"
  /\ UNCHANGED <<a, b, upperOpen>>


\* A gap: return its middle.
Emit ==
  /\ pc = "loop"
  /\ Mid(Da, Db) > Da
  /\ result' = Append(result, Mid(Da, Db))
  /\ pc' = "returned"
  /\ UNCHANGED <<a, b, upperOpen>>

\* Mutant: the ceiling stays although b was greater at this digit.
DescendKeepsCeiling ==
  /\ pc = "loop"
  /\ Mid(Da, Db) <= Da
  /\ result' = Append(result, Da)
  /\ UNCHANGED <<a, b, pc, upperOpen>>

\* Mutant: the ceiling opens although b has the same digit here.
DescendOpensEarly ==
  /\ pc = "loop"
  /\ Mid(Da, Db) <= Da
  /\ upperOpen' = (upperOpen \/ Db >= Da)
  /\ result' = Append(result, Da)
  /\ UNCHANGED <<a, b, pc>>

\* Mutant: the position is not advanced.
DescendStays ==
  /\ pc = "loop"
  /\ Mid(Da, Db) <= Da
  /\ upperOpen' = (upperOpen \/ Db > Da)
  /\ UNCHANGED <<a, b, pc, result>>

\* No gap at this digit: keep a's digit and go one deeper.
Descend ==
  /\ pc = "loop"
  /\ Mid(Da, Db) <= Da
  /\ upperOpen' = (upperOpen \/ Db > Da)
  /\ result' = Append(result, Da)
  /\ UNCHANGED <<a, b, pc>>

Next == Emit \/ Descend

Spec == Init /\ [][Next]_vars /\ WF_vars(Next)
----------------------------------------------------------------------------
(* Properties.                                                             *)

\* The type invariant.
TypeOK ==
  /\ a \in Rank
  /\ b \in Rank
  /\ result \in Seq(Digit)
  /\ upperOpen \in BOOLEAN
  /\ pc \in {"loop", "returned", "thrown"}

\* "Return a rank string strictly between a and b": also across many
\* descended digits, and whichever bound is null.
StrictlyBetween ==
  pc = "returned" => /\ a # Open => Less(a, result)
                     /\ b # Open => Less(result, b)

\* The returned rank can serve as an upper bound of a later call, so that the
\* precondition on b holds for every rank the system ever generates.
ClosedUnderUse == pc = "returned" => result # Open /\ NoTrailingZero(result)

\* A call adds one digit at most to the longer of its bounds: the loop cannot
\* run away.
OneDigitLonger ==
  Len(result) <= (IF Len(a) > Len(b) THEN Len(a) ELSE Len(b)) + 1

\* The loop computes the least position with a gap.
ComputesRankBetween == pc = "returned" => result = RankBetween(a, b)

\* The loop ends.
Terminates == <>(pc # "loop")
=============================================================================
