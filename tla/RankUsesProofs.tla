--------------------------- MODULE RankUsesProofs --------------------------
(***************************************************************************)
(* Ranks at work: what rankBetween's loop returns, for every base and every *)
(* pair of bounds, and where the drops on the board put their cards.       *)
(***************************************************************************)
EXTENDS BoardDrop, RankLoop, RanksProofs, FiniteSetTheorems, FunctionTheorems

(* What the loop knows after emitting Len(result) digits without a gap:    *)
(* they are a's digits; while the ceiling stands they are b's as well and  *)
(* b has digits left; once it is open, b is null or greater at one of them.*)

CopiesLower == \A j \in 1..Len(result) : result[j] = LowerDigit(a, j)

CeilingStands ==
  ~upperOpen => /\ b # Open
                /\ Len(result) < Len(b)
                /\ \A j \in 1..Len(result) : result[j] = b[j]

CeilingOpened ==
  upperOpen => \/ b = Open
               \/ \E n \in 1..Len(b) : /\ n <= Len(result)
                                       /\ \A j \in 1..(n - 1) : result[j] = b[j]
                                       /\ result[n] < b[n]

\* The lengths: past the end of a, the digit after an opened ceiling has room.
ShortEnough == Len(result) <= Len(a) \/ Len(result) <= Len(b)

LoopInv ==
  pc = "loop" => /\ CopiesLower /\ CeilingStands /\ CeilingOpened /\ ShortEnough
                 /\ NoTrailingZero(b)
                 /\ (a # Open /\ b # Open => Less(a, b))

\* The inductive invariant.
RankInv == TypeOK /\ LoopInv /\ StrictlyBetween /\ ClosedUnderUse /\ OneDigitLonger
----------------------------------------------------------------------------
\* The digits the loop looks at.
LEMMA DigitsTyped ==
  ASSUME TypeOK
  PROVE  /\ a \in Seq(Digit) /\ b \in Seq(Digit)
         /\ Da \in Digit
         /\ Db \in Digit \cup {BASE}
         /\ Position = Len(result) + 1 /\ Len(result) \in Nat
<1>1. a \in Seq(Digit) /\ b \in Seq(Digit) /\ result \in Seq(Digit)
  BY RankAssumption DEF TypeOK
<1>2. Position = Len(result) + 1 /\ Len(result) \in Nat
  BY <1>1 DEF Position
<1>3. Da \in Digit
  BY <1>1, <1>2, BaseAssumption DEF Da, LowerDigit, Digit
<1>4. Db \in Digit \cup {BASE}
  BY <1>1, <1>2, BaseAssumption DEF Db, UpperDigit, Digit
<1> QED BY <1>1, <1>2, <1>3, <1>4

\* The middle of two digits, and when it is a gap.
LEMMA MidIsDigit ==
  ASSUME NEW da \in Digit, NEW db \in Digit \cup {BASE}
  PROVE  /\ Mid(da, db) \in Int
         /\ Mid(da, db) > da => Mid(da, db) < db /\ Mid(da, db) \in Digit
         /\ Mid(da, db) <= da => db <= da + 1
BY BaseAssumption DEF Mid, Digit

\* Below a standing ceiling the next digit of b is not smaller than a's, and if
\* they are equal b goes on.
LEMMA CeilingDigit ==
  ASSUME TypeOK, LoopInv, pc = "loop", ~upperOpen
  PROVE  /\ Position <= Len(b) /\ Db = b[Position]
         /\ Db >= Da
         /\ Db = Da => Position < Len(b)
<1> USE DEF LoopInv, CeilingStands, CopiesLower
<1>1. a \in Seq(Digit) /\ b \in Seq(Digit) /\ Position \in 1..Len(b) /\ Position = Len(result) + 1
  BY DigitsTyped DEF Position
<1>2. Db = b[Position] /\ Da = LowerDigit(a, Position) /\ Db \in Digit /\ Da \in Digit
  <2>1. Da = LowerDigit(a, Position) /\ Da \in Digit
    BY DigitsTyped DEF Da
  <2>2. Db = b[Position]
    BY <1>1 DEF Db, UpperDigit
  <2>3. b[Position] \in Digit
    BY <1>1
  <2> QED BY <2>1, <2>2, <2>3
<1>3. \A j \in 1..(Position - 1) : LowerDigit(a, j) = b[j]
  BY <1>1, DigitsTyped
<1>4. CASE Position > Len(a)
  <2>1. Da = 0
    BY <1>1, <1>2, <1>4 DEF LowerDigit
  <2>2. Db >= Da /\ (Position = Len(b) => Db # 0)
    BY <1>1, <1>2, <2>1 DEF Digit, NoTrailingZero, Open
  <2> QED BY <1>1, <1>2, <2>1, <2>2
<1>5. CASE Position <= Len(a)
  <2>1. a # Open /\ Less(a, b) /\ Da = a[Position]
    BY <1>1, <1>2, <1>5 DEF LowerDigit, Open
  <2>2. \A j \in 1..(Position - 1) : a[j] = b[j]
    BY <1>1, <1>3, <1>5 DEF LowerDigit
  <2>3. PICK n \in 1..Len(b) : /\ n <= Len(a) + 1
                               /\ \A j \in 1..(n - 1) : a[j] = b[j]
                               /\ n <= Len(a) => a[n] < b[n]
    BY <2>1 DEF Less
  <2>4. n >= Position
    <3>1. SUFFICES ASSUME n < Position PROVE FALSE
      BY <1>1
    <3>2. n \in 1..(Position - 1) /\ n <= Len(a)
      BY <1>1, <1>5, <3>1
    <3>3. a[n] = b[n]
      BY <2>2, <3>2
    <3>4. a[n] < b[n]
      BY <2>3, <3>2
    <3>5. b[n] \in Int
      <4>1. b[n] \in Digit
        BY <1>1, <2>3
      <4> QED BY <4>1, BaseAssumption DEF Digit
    <3> QED BY <3>3, <3>4, <3>5
  <2>5. CASE n = Position
    BY <1>1, <1>2, <1>5, <2>1, <2>3, <2>5 DEF Digit
  <2>6. CASE n > Position
    <3>1. Position \in 1..(n - 1)
      BY <1>1, <2>6
    <3> QED BY <1>1, <1>2, <2>1, <2>3, <3>1, <2>6 DEF Digit
  <2> QED BY <1>1, <2>4, <2>5, <2>6
<1> QED BY <1>1, <1>4, <1>5

\* At first nothing is emitted.
LEMMA RankInitHolds == Init => RankInv
<1> SUFFICES ASSUME Init PROVE RankInv
  OBVIOUS
<1>1. /\ a \in Seq(Digit) /\ b \in Seq(Digit) /\ result = <<>> /\ Len(result) = 0
      /\ a \in Rank /\ b \in Rank
  BY RankAssumption DEF Init
<1>2. TypeOK /\ StrictlyBetween /\ ClosedUnderUse /\ OneDigitLonger
  BY <1>1 DEF Init, TypeOK, StrictlyBetween, ClosedUnderUse, OneDigitLonger
<1>3. upperOpen <=> b = Open
  BY DEF Init
<1>4. CopiesLower /\ CeilingOpened /\ ShortEnough
  BY <1>1, <1>3 DEF CopiesLower, CeilingOpened, ShortEnough
<1>5. b # Open => Len(b) > 0
  BY <1>1 DEF Open
<1>6. CeilingStands
  BY <1>1, <1>5, <1>3 DEF CeilingStands
<1>7. LoopInv
  BY <1>4, <1>6 DEF Init, LoopInv
<1> QED BY <1>2, <1>7 DEF RankInv

\* Without a gap, one digit of a is emitted and everything known carries over.
LEMMA DescendStep ==
  ASSUME RankInv, Descend
  PROVE  RankInv'
<1> USE DEF RankInv
<1>1. /\ a \in Seq(Digit) /\ b \in Seq(Digit) /\ result \in Seq(Digit)
      /\ Da \in Digit /\ Db \in Digit \cup {BASE}
      /\ Position = Len(result) + 1 /\ Len(result) \in Nat
      /\ Da = LowerDigit(a, Position)
  BY DigitsTyped DEF TypeOK, Da
<1>2. Db <= Da + 1
  BY <1>1, MidIsDigit DEF Descend
<1>3. /\ result' \in Seq(Digit) /\ Len(result') = Position /\ result'[Position] = Da
      /\ \A j \in 1..Len(result) : result'[j] = result[j]
  BY <1>1 DEF Descend
<1>4. TypeOK'
  <2>1. (upperOpen \/ Db > Da) \in BOOLEAN
    OBVIOUS
  <2> QED BY <1>3, <2>1 DEF Descend, TypeOK
<1>5. CopiesLower'
  BY <1>1, <1>3 DEF Descend, LoopInv, CopiesLower
<1>6. CeilingStands'
  <2>1. SUFFICES ASSUME ~upperOpen' PROVE /\ b # Open /\ Position < Len(b)
                                          /\ \A j \in 1..Position : result'[j] = b[j]
    BY <1>3 DEF CeilingStands, Descend
  <2>2. ~upperOpen /\ ~(Db > Da) /\ pc = "loop"
    BY <2>1 DEF Descend
  <2>3. Position <= Len(b) /\ Db = b[Position] /\ Db >= Da /\ (Db = Da => Position < Len(b))
    BY <2>2, CeilingDigit
  <2>4. Db = Da
    BY <1>1, <2>2, <2>3, BaseAssumption DEF Digit
  <2>5. b # Open /\ \A j \in 1..Len(result) : result[j] = b[j]
    BY <2>2 DEF LoopInv, CeilingStands
  <2>6. ASSUME NEW j \in 1..Position PROVE result'[j] = b[j]
    <3>1. CASE j = Position
      BY <1>3, <2>3, <2>4, <3>1
    <3>2. CASE j # Position
      <4>1. j \in 1..Len(result)
        BY <1>1, <3>2
      <4> QED BY <1>3, <2>5, <4>1
    <3> QED BY <3>1, <3>2
  <2>7. Position < Len(b)
    BY <2>3, <2>4
  <2> QED BY <2>5, <2>6, <2>7
<1>7. CeilingOpened'
  <2>1. SUFFICES ASSUME upperOpen', b # Open
                 PROVE  \E n \in 1..Len(b) : /\ n <= Position
                                             /\ \A j \in 1..(n - 1) : result'[j] = b[j]
                                             /\ result'[n] < b[n]
    BY <1>3 DEF CeilingOpened, Descend
  <2>2. CASE upperOpen
    <3>1. PICK n \in 1..Len(b) : /\ n <= Len(result)
                                 /\ \A j \in 1..(n - 1) : result[j] = b[j]
                                 /\ result[n] < b[n]
      BY <2>1, <2>2 DEF Descend, LoopInv, CeilingOpened
    <3>2. n <= Position /\ n \in 1..Len(result)
      BY <1>1, <3>1
    <3>3. \A j \in 1..(n - 1) : j \in 1..Len(result)
      BY <1>1, <3>2
    <3>4. result'[n] < b[n] /\ \A j \in 1..(n - 1) : result'[j] = b[j]
      BY <1>3, <3>1, <3>2, <3>3
    <3> QED BY <3>2, <3>4
  <2>3. CASE ~upperOpen
    <3>1. Position <= Len(b) /\ Db = b[Position] /\ Db > Da
      BY <2>1, <2>3, CeilingDigit DEF Descend
    <3>2. \A j \in 1..Len(result) : result[j] = b[j]
      BY <2>3 DEF Descend, LoopInv, CeilingStands
    <3>3. Position \in 1..Len(b) /\ \A j \in 1..(Position - 1) : result'[j] = b[j]
      BY <1>1, <1>3, <3>1, <3>2
    <3>4. result'[Position] < b[Position]
      BY <1>1, <1>3, <3>1, BaseAssumption DEF Digit
    <3>5. Position <= Position
      BY <1>1
    <3> QED BY <3>3, <3>4, <3>5
  <2> QED BY <2>2, <2>3
<1>8. Position <= Len(a) \/ Position <= Len(b)
  <2>1. CASE ~upperOpen
    BY <2>1, CeilingDigit DEF Descend
  <2>2. CASE upperOpen
    <3>1. Db = BASE
      BY <2>2 DEF Db
    <3>2. Da # 0
      BY <1>1, <1>2, <3>1, BaseAssumption, MidIsDigit DEF Descend, Mid
    <3> QED BY <1>1, <3>2 DEF LowerDigit
  <2> QED BY <2>1, <2>2
<1>9. LoopInv'
  BY <1>3, <1>5, <1>6, <1>7, <1>8 DEF Descend, LoopInv, ShortEnough
<1>10. StrictlyBetween' /\ ClosedUnderUse' /\ OneDigitLonger'
  BY <1>1, <1>3, <1>8 DEF Descend, StrictlyBetween, ClosedUnderUse, OneDigitLonger
<1> QED BY <1>4, <1>9, <1>10

\* The digit returned is above a's and, under a standing ceiling, below b's.
LEMMA EmitStep ==
  ASSUME RankInv, Emit
  PROVE  RankInv'
<1> USE DEF RankInv
<1>1. /\ a \in Seq(Digit) /\ b \in Seq(Digit) /\ result \in Seq(Digit)
      /\ Da \in Digit /\ Db \in Digit \cup {BASE}
      /\ Position = Len(result) + 1 /\ Len(result) \in Nat
      /\ Da = LowerDigit(a, Position)
  BY DigitsTyped DEF TypeOK, Da
<1> DEFINE mid == Mid(Da, Db)
<1>2. mid > Da /\ mid < Db /\ mid \in Digit
  BY <1>1, MidIsDigit DEF Emit
<1>3. result' = Append(result, mid) /\ pc' = "returned" /\ a' = a /\ b' = b
      /\ upperOpen' = upperOpen /\ pc = "loop"
  BY DEF Emit
<1> HIDE DEF mid
<1>4. /\ result' \in Seq(Digit) /\ Len(result') = Position /\ result'[Position] = mid
      /\ \A j \in 1..Len(result) : result'[j] = result[j]
  BY <1>1, <1>2, <1>3
<1>5. TypeOK'
  BY <1>3, <1>4 DEF TypeOK
<1>6. ASSUME a # Open PROVE Less(a, result')
  <2>1. CASE Position <= Len(a)
    <3>1. \A j \in 1..(Position - 1) : a[j] = result'[j]
      BY <1>1, <1>3, <1>4, <2>1 DEF LoopInv, CopiesLower, LowerDigit
    <3>2. Da = a[Position]
      BY <1>1, <2>1 DEF LowerDigit
    <3> QED BY <1>1, <1>2, <1>4, <2>1, <3>1, <3>2 DEF Less
  <2>2. CASE Position > Len(a)
    <3>1. Len(a) + 1 \in 1..Position /\ Len(a) + 1 <= Len(a) + 1 /\ ~(Len(a) + 1 <= Len(a))
      BY <1>1, <2>2
    <3>2. ASSUME NEW j \in 1..Len(a) PROVE a[j] = result'[j]
      <4>1. j \in 1..Len(result) /\ j <= Len(a)
        BY <1>1, <2>2
      <4>2. result[j] = LowerDigit(a, j)
        BY <1>3, <4>1 DEF LoopInv, CopiesLower
      <4> QED BY <1>4, <4>1, <4>2 DEF LowerDigit
    <3>3. Len(a) + 1 - 1 = Len(a)
      BY <1>1
    <3> QED BY <1>4, <3>1, <3>2, <3>3 DEF Less
  <2> QED BY <1>1, <2>1, <2>2
<1>7. ASSUME b # Open PROVE Less(result', b)
  <2>1. CASE upperOpen
    <3>1. PICK n \in 1..Len(b) : /\ n <= Len(result)
                                 /\ \A j \in 1..(n - 1) : result[j] = b[j]
                                 /\ result[n] < b[n]
      BY <1>3, <1>7, <2>1 DEF LoopInv, CeilingOpened
    <3>2. n \in 1..Len(result) /\ n <= Len(result') + 1
      BY <1>1, <1>4, <3>1
    <3>3. \A j \in 1..(n - 1) : result'[j] = b[j]
      BY <1>1, <1>4, <3>1, <3>2
    <3>4. result'[n] < b[n]
      BY <1>4, <3>1, <3>2
    <3> QED BY <3>2, <3>3, <3>4 DEF Less
  <2>2. CASE ~upperOpen
    <3>1. Position \in 1..Len(b) /\ Db = b[Position]
      BY <1>1, <1>3, <2>2, CeilingDigit
    <3>2. \A j \in 1..(Position - 1) : result'[j] = b[j]
      BY <1>1, <1>3, <1>4, <2>2 DEF LoopInv, CeilingStands
    <3>3. Position <= Len(result') + 1 /\ result'[Position] < b[Position]
      BY <1>1, <1>2, <1>4, <3>1
    <3> QED BY <3>1, <3>2, <3>3 DEF Less
  <2> QED BY <2>1, <2>2
<1>8. result' # Open /\ result'[Len(result')] # 0
  <2>1. mid # 0
    BY <1>1, <1>2, BaseAssumption DEF Digit
  <2>2. Len(result') > 0
    BY <1>1, <1>4
  <2> QED BY <1>4, <2>1, <2>2 DEF Open
<1>9. OneDigitLonger'
  BY <1>1, <1>3, <1>4 DEF LoopInv, ShortEnough, OneDigitLonger
<1>10. StrictlyBetween' /\ ClosedUnderUse' /\ LoopInv'
  BY <1>3, <1>6, <1>7, <1>8 DEF StrictlyBetween, ClosedUnderUse, NoTrailingZero, LoopInv
<1> QED BY <1>5, <1>9, <1>10

\* A digit is emitted or the loop ends.
LEMMA RankStepPreserves == RankInv /\ [Next]_vars => RankInv'
<1>1. ASSUME RankInv, UNCHANGED vars PROVE RankInv'
  BY <1>1 DEF vars, RankInv, TypeOK, LoopInv, CopiesLower, CeilingStands, CeilingOpened,
     ShortEnough, StrictlyBetween, ClosedUnderUse, OneDigitLonger
<1> QED BY <1>1, EmitStep, DescendStep DEF Next

\* The invariant holds throughout.
THEOREM RankInvariance == Spec => []RankInv
BY RankInitHolds, RankStepPreserves, PTL DEF Spec

\* What rankBetween emits are digits, whatever its bounds: it never looks past a
\* digit that is not there.
THEOREM RankTypeCorrect == Spec => []TypeOK
BY RankInvariance, PTL DEF RankInv

\* A rank that rankBetween returns lies strictly between its bounds.
THEOREM Between == Spec => []StrictlyBetween
BY RankInvariance, PTL DEF RankInv

\* A rank that rankBetween returns can be an upper bound again.
THEOREM Closed == Spec => []ClosedUnderUse
BY RankInvariance, PTL DEF RankInv

\* The loop descends at most through the digits of the longer bound.
THEOREM Bounded == Spec => []OneDigitLonger
BY RankInvariance, PTL DEF RankInv

\* The digits the loop may still emit.
Remaining == (IF Len(a) > Len(b) THEN Len(a) ELSE Len(b)) + 1 - Len(result)

\* Every round of the loop brings its end nearer, whatever the bounds: it ends
\* after one round more than the longer bound has digits.
THEOREM RoundsRunOut == Spec => [][Remaining' \in Nat /\ Remaining' < Remaining]_vars
<1>1. RankInv /\ RankInv' /\ Next => Remaining' \in Nat /\ Remaining' < Remaining
  <2> SUFFICES ASSUME RankInv, RankInv', Next
               PROVE  Remaining' \in Nat /\ Remaining' < Remaining
    OBVIOUS
  <2>1. a' = a /\ b' = b /\ \E d : result' = Append(result, d)
    BY DEF Next, Emit, Descend
  <2>2. /\ Len(a) \in Nat /\ Len(b) \in Nat /\ Len(result) \in Nat
        /\ Len(result') = Len(result) + 1
    BY <2>1, RankAssumption DEF RankInv, TypeOK
  <2>3. PICK n \in Nat : n = IF Len(a) > Len(b) THEN Len(a) ELSE Len(b)
    BY <2>2
  <2>4. Len(result') <= n + 1
    BY <2>1, <2>3 DEF RankInv, OneDigitLonger
  <2>5. Remaining = n + 1 - Len(result) /\ Remaining' = n + 1 - Len(result')
    BY <2>1, <2>3 DEF Remaining
  <2> QED BY <2>2, <2>4, <2>5
<1> QED BY <1>1, RankInvariance, PTL DEF Spec
----------------------------------------------------------------------------
(* The loop computes RankBetween, the closed form IssueBoard uses: it      *)
(* stands at the first position that can have a gap.                       *)

HasGap(k) == MidAt(a, b, k) > LowerDigit(a, k)

NoGapYet ==
  pc = "loop" => /\ \A k \in 1..Len(result) : ~HasGap(k)
                 /\ upperOpen <=> CeilingOpen(a, b, Position)

\* What the loop compares is the gap of the closed form.
LEMMA LoopGap ==
  ASSUME TypeOK, NoGapYet, pc = "loop"
  PROVE  Mid(Da, Db) = MidAt(a, b, Position) /\ Da = LowerDigit(a, Position)
BY DEF NoGapYet, MidAt, Da, Db

\* Going down a digit: there was no gap at this one.
LEMMA DescendNoGap ==
  ASSUME RankInv, NoGapYet, Descend
  PROVE  NoGapYet'
<1>1. /\ Position \in Nat \ {0} /\ Position = Len(result) + 1 /\ Da \in Digit
      /\ Db \in Digit \cup {BASE} /\ Len(result) \in Nat
  BY DigitsTyped DEF RankInv, Position
<1>2. /\ pc = "loop" /\ pc' = "loop" /\ a' = a /\ b' = b
      /\ result' = Append(result, Da) /\ Mid(Da, Db) <= Da
      /\ upperOpen' <=> (upperOpen \/ Db > Da)
  BY DEF Descend
<1>3. Len(result') = Position /\ Position' = Position + 1
  BY <1>1, <1>2 DEF Position, RankInv, TypeOK
<1>4. ~HasGap(Position)
  <2>1. Mid(Da, Db) = MidAt(a, b, Position) /\ Da = LowerDigit(a, Position)
    BY <1>2, LoopGap DEF RankInv
  <2>2. Mid(Da, Db) \in Int /\ Da \in Int
    BY <1>1, MidIsDigit, BaseAssumption DEF Digit
  <2>3. ~(Mid(Da, Db) > Da)
    BY <1>2, <2>2
  <2> QED BY <2>1, <2>3 DEF HasGap
<1>5. \A k \in 1..Position : ~HasGap(k)
  <2> SUFFICES ASSUME NEW k \in 1..Position PROVE ~HasGap(k)
    OBVIOUS
  <2>1. k = Position \/ k \in 1..Len(result)
    BY <1>1
  <2> QED BY <1>2, <1>4, <2>1 DEF NoGapYet
<1>6. CeilingOpen(a, b, Position + 1)
        <=> CeilingOpen(a, b, Position) \/ UpperDigit(b, Position) > LowerDigit(a, Position)
  <2>1. 1..(Position + 1 - 1) = 1..(Position - 1) \cup {Position}
    BY <1>1
  <2> QED BY <2>1 DEF CeilingOpen
<1>7. upperOpen' <=> CeilingOpen(a, b, Position + 1)
  <2>1. upperOpen <=> CeilingOpen(a, b, Position)
    BY <1>2 DEF NoGapYet
  <2>2. CASE upperOpen
    BY <1>2, <1>6, <2>1, <2>2
  <2>3. CASE ~upperOpen
    <3>1. Db = UpperDigit(b, Position) /\ Da = LowerDigit(a, Position)
      BY <2>3 DEF Db, Da
    <3> QED BY <1>2, <1>6, <2>1, <2>3, <3>1
  <2> QED BY <2>2, <2>3
<1>8. (\A k \in 1..Len(result) : ~HasGap(k))'
  BY <1>2, <1>3, <1>5 DEF HasGap
<1>9. (upperOpen <=> CeilingOpen(a, b, Position))'
  BY <1>2, <1>3, <1>7
<1> QED BY <1>8, <1>9 DEF NoGapYet

\* The digit that ends the loop is where the closed form has its own.
LEMMA EmitComputes ==
  ASSUME RankInv, NoGapYet, Emit
  PROVE  ComputesRankBetween' /\ NoGapYet'
<1>1. /\ Position = Len(result) + 1 /\ Len(result) \in Nat
      /\ a \in Seq(Digit) /\ b \in Seq(Digit) /\ result \in Seq(Digit)
  BY DigitsTyped DEF RankInv, TypeOK
<1>2. /\ pc = "loop" /\ pc' = "returned" /\ a' = a /\ b' = b
      /\ result' = Append(result, MidAt(a, b, Position)) /\ HasGap(Position)
  BY LoopGap DEF Emit, HasGap, RankInv
<1>3. \A k \in 1..(Position - 1) : ~HasGap(k)
  BY <1>1, <1>2 DEF NoGapYet
<1> DEFINE Limit == Len(a) + Len(b) + 1
           First(q) == HasGap(q) /\ \A k \in 1..(q - 1) : ~HasGap(k)
           p == CHOOSE q \in 1..Limit : First(q)
<1>4. Position \in 1..Limit /\ First(Position)
  BY <1>1, <1>2, <1>3 DEF RankInv, LoopInv, ShortEnough
<1>5. p = Position
  <2>1. p \in 1..Limit /\ First(p)
    BY <1>4
  <2>2. ~(p < Position) /\ ~(Position < p)
    <3>1. p < Position => p \in 1..(Position - 1)
      BY <1>1, <2>1
    <3>2. Position < p => Position \in 1..(p - 1)
      BY <1>1, <1>4, <2>1
    <3> HIDE DEF p
    <3> QED BY <1>4, <2>1, <3>1, <3>2
  <2> QED BY <1>1, <2>1, <2>2
<1>6. RankBetween(a, b) = [k \in 1..p |-> IF k < p THEN LowerDigit(a, k) ELSE MidAt(a, b, p)]
  BY DEF RankBetween, HasGap
<1>7. result' = [k \in 1..Position |-> IF k < Position THEN LowerDigit(a, k)
                                       ELSE MidAt(a, b, Position)]
  BY <1>1, <1>2 DEF RankInv, LoopInv, CopiesLower
<1>8. result' = RankBetween(a, b)
  BY <1>5, <1>6, <1>7
<1> QED BY <1>2, <1>8 DEF ComputesRankBetween, NoGapYet

\* The closed form IssueBoard computes with is what the loop returns.
THEOREM Computes == Spec => []ComputesRankBetween
<1> DEFINE Inv == NoGapYet /\ ComputesRankBetween
<1>1. Init => Inv
  <2> SUFFICES ASSUME Init PROVE Inv
    OBVIOUS
  <2>1. upperOpen <=> CeilingOpen(a, b, Position)
    <3>1. Position = 1
      BY DEF Init, Position
    <3>2. CeilingOpen(a, b, Position) <=> b = Open
      BY <3>1 DEF CeilingOpen
    <3>3. upperOpen <=> b = Open
      BY DEF Init
    <3> QED BY <3>2, <3>3
  <2>2. Len(result) = 0 /\ pc # "returned"
    BY DEF Init
  <2> QED BY <2>1, <2>2 DEF NoGapYet, ComputesRankBetween
<1>2. RankInv /\ Inv /\ [Next]_vars => Inv'
  <2> SUFFICES ASSUME RankInv, Inv, [Next]_vars PROVE Inv'
    OBVIOUS
  <2>1. CASE Emit
    BY <2>1, EmitComputes
  <2>2. CASE Descend
    <3>1. pc' = "loop"
      BY <2>2 DEF Descend
    <3> QED BY <2>2, <3>1, DescendNoGap DEF ComputesRankBetween
  <2>3. CASE UNCHANGED vars
    BY <2>3 DEF vars, NoGapYet, ComputesRankBetween, HasGap, Position
  <2> QED BY <2>1, <2>2, <2>3 DEF Next
<1> QED BY <1>1, <1>2, RankInvariance, PTL DEF Spec
----------------------------------------------------------------------------
(* Drops on the board, for any cards, columns, base and length of ranks:   *)
(* a drop that is not ignored puts its card where it was released.         *)

\* A board shows finitely many cards.
BoardInv == DropTypeOK /\ IsFiniteSet(cards) /\ cards \subseteq Card

OthersOf(s, but) == {c \in cards \ {but} : status[c] = s}

\* What the board shows of a column is a sequence of all its cards.
LEMMA ShownIsAll ==
  ASSUME BoardInv, NEW s \in Column, NEW c, NEW q \in Shown(s, c)
  PROVE  /\ Len(q) \in Nat /\ DOMAIN q = 1..Len(q)
         /\ \A i \in 1..Len(q) : q[i] \in OthersOf(s, c)
         /\ \A d \in OthersOf(s, c) : \E i \in 1..Len(q) : q[i] = d
         /\ \A i, j \in 1..Len(q) : i < j => ~Less(rank[q[j]], rank[q[i]])
<1> DEFINE S == OthersOf(s, c)
           n == Cardinality(S)
<1>1. IsFiniteSet(S)
  BY FS_Subset DEF BoardInv, OthersOf
<1>2. n \in Nat
  BY <1>1, FS_CardinalityType
<1>3. /\ q \in [1..n -> S]
      /\ \A i, j \in DOMAIN q : i < j => q[i] # q[j] /\ ~Less(rank[q[j]], rank[q[i]])
  BY DEF Shown, OthersOf
<1> HIDE DEF S
<1> HIDE DEF n
<1>4. q \in Seq(S) /\ Len(q) = n /\ DOMAIN q = 1..n
  BY <1>2, <1>3
<1>5. \A i, j \in 1..n : q[i] = q[j] => i = j
  BY <1>2, <1>3
<1>6. q \in Injection(1..n, S)
  BY <1>3, <1>5 DEF Injection, IsInjective
<1>7. IsFiniteSet(1..n) /\ Cardinality(1..n) = n
  BY <1>2, FS_Interval
<1>8. q \in Surjection(1..n, S)
  BY <1>1, <1>6, <1>7, FS_Injection DEF n
<1>9. \A d \in S : \E i \in 1..n : q[i] = d
  BY <1>8 DEF Surjection
<1> QED BY <1>2, <1>3, <1>4, <1>9 DEF S

\* The ranks a drop computes between are ranks of the board, or open.
LEMMA BoundsUsable ==
  ASSUME BoardInv, NEW s \in Column, NEW c, NEW q \in Shown(s, c), NEW n \in 0..Len(q)
  PROVE  /\ Above(q, n) \in AnyRank /\ Below(q, n) \in AnyRank
         /\ NoTrailingZero(Below(q, n))
<1>1. \A i \in 1..Len(q) : rank[q[i]] \in AnyRank /\ NoTrailingZero(rank[q[i]])
  BY ShownIsAll DEF BoardInv, DropTypeOK, OthersOf, AnyRank
<1>2. Open \in AnyRank /\ NoTrailingZero(Open)
  BY DEF Open, AnyRank, NoTrailingZero
<1>3. Len(q) \in Nat
  BY ShownIsAll
<1>4. n # 0 => n \in 1..Len(q)
  BY <1>3
<1>5. n # Len(q) => n + 1 \in 1..Len(q)
  BY <1>3
<1> QED BY <1>1, <1>2, <1>4, <1>5 DEF Above, Below

\* The place of a drop is one of the column.
LEMMA PlaceInColumn ==
  ASSUME BoardInv, NEW s \in Column, NEW c, NEW q \in Shown(s, c), NEW over
  PROVE  /\ InsertAt(q, over) \in 0..Len(q)
         /\ over \in OthersOf(s, c) =>
              InsertAt(q, over) < Len(q) /\ q[InsertAt(q, over) + 1] = over
         /\ over \notin OthersOf(s, c) => InsertAt(q, over) = Len(q)
<1>1. /\ Len(q) \in Nat /\ DOMAIN q = 1..Len(q)
      /\ \A i \in 1..Len(q) : q[i] \in OthersOf(s, c)
      /\ \A d \in OthersOf(s, c) : \E i \in 1..Len(q) : q[i] = d
  BY ShownIsAll
<1>2. CASE over \in OthersOf(s, c)
  <2>1. \E i \in DOMAIN q : q[i] = over
    BY <1>1, <1>2
  <2> DEFINE k == CHOOSE i \in DOMAIN q : q[i] = over
  <2>2. k \in 1..Len(q) /\ q[k] = over
    BY <1>1, <2>1
  <2>3. InsertAt(q, over) = k - 1
    BY <2>1 DEF InsertAt
  <2> HIDE DEF k
  <2> QED BY <1>1, <1>2, <2>2, <2>3
<1>3. CASE over \notin OthersOf(s, c)
  <2>1. ~\E i \in DOMAIN q : q[i] = over
    BY <1>1, <1>3
  <2>2. InsertAt(q, over) = Len(q)
    BY <2>1 DEF InsertAt
  <2> QED BY <1>1, <1>3, <2>2
<1> QED BY <1>2, <1>3

LEMMA LessIrreflexive ==
  ASSUME NEW r \in Seq(Digit)
  PROVE  ~Less(r, r)
<1> SUFFICES ASSUME NEW n \in 1..Len(r), n <= Len(r) => r[n] < r[n]
             PROVE  FALSE
  BY DEF Less
<1>1. r[n] \in Int
  BY BaseAssumption DEF Digit
<1> QED BY <1>1

LEMMA BoardInitHolds == BoardInit => BoardInv
BY FS_EmptySet DEF BoardInit, BoardInv, DropTypeOK

\* A card added gets the rank below the last one of its column.
LEMMA AddCardInv ==
  ASSUME BoardInv, NEW c \in Card, NEW s \in Column, AddCard(c, s)
  PROVE  BoardInv' /\ drop' = NoDrop
<1>1. PICK q \in Shown(s, c) :
        LET new == RankBetween(IF q = <<>> THEN Open ELSE rank[q[Len(q)]], Open) IN
          /\ Len(new) <= MaxDigits
          /\ rank' = [d \in cards \cup {c} |-> IF d = c THEN new ELSE rank[d]]
  BY DEF AddCard
<1> DEFINE last == IF q = <<>> THEN Open ELSE rank[q[Len(q)]]
           new == RankBetween(last, Open)
<1>2. Len(q) \in Nat /\ \A i \in 1..Len(q) : q[i] \in cards
  BY ShownIsAll DEF OthersOf
<1>3. q # <<>> => Len(q) \in 1..Len(q)
  <2>1. q \in Seq(cards)
    <3>1. DOMAIN q = 1..Len(q)
      BY ShownIsAll
    <3>2. \E T : q \in [1..Cardinality(OthersOf(s, c)) -> T]
      BY DEF Shown, OthersOf
    <3>3. q = [i \in DOMAIN q |-> q[i]]
      BY <3>2
    <3> QED BY <1>2, <3>1, <3>3
  <2> QED BY <2>1
<1>4. last \in AnyRank /\ Open \in AnyRank
  BY <1>2, <1>3 DEF BoardInv, DropTypeOK, AnyRank, Open
<1> HIDE DEF last
<1>5. new \in AnyRank /\ new # Open /\ NoTrailingZero(new)
  BY <1>4, BetweenAbove
<1>6. rank' = [d \in cards \cup {c} |-> IF d = c THEN new ELSE rank[d]]
  BY <1>1 DEF last
<1> HIDE DEF new
<1>7. /\ cards' = cards \cup {c}
      /\ status' = [d \in cards \cup {c} |-> IF d = c THEN s ELSE status[d]]
      /\ drop' = NoDrop
  BY DEF AddCard
<1>8. IsFiniteSet(cards')
  BY <1>7, FS_AddElement DEF BoardInv
<1>9. DropTypeOK'
  BY <1>5, <1>6, <1>7 DEF BoardInv, DropTypeOK, AnyRank
<1> QED BY <1>7, <1>8, <1>9 DEF BoardInv

\* The status menu moves a card and leaves its rank.
LEMMA SelectStatusInv ==
  ASSUME BoardInv, NEW c \in Card, NEW s \in Column, SelectStatus(c, s)
  PROVE  BoardInv' /\ drop' = NoDrop
BY DEF BoardInv, DropTypeOK, SelectStatus

\* What a drop that is not ignored does, and that its target is a column.
LEMMA DropShape ==
  ASSUME BoardInv, NEW c \in Card, NEW over, Drop(c, over)
  PROVE  /\ c \in cards /\ over \in cards \cup Column /\ Target(over) \in Column
         /\ over \in cards => Target(over) = status[over]
         /\ over \notin cards => Target(over) = over
         /\ UNCHANGED cards
         /\ \/ drop' = [card |-> c, over |-> over, ignored |-> TRUE] /\ UNCHANGED <<status, rank>>
            \/ \E q \in Shown(Target(over), c) :
                 LET x == Above(q, InsertAt(q, over))
                     y == Below(q, InsertAt(q, over)) IN
                   /\ ~Ignores(x, y)
                   /\ rank' = [rank EXCEPT ![c] = RankBetween(x, y)]
                   /\ status' = [status EXCEPT ![c] = Target(over)]
                   /\ drop' = [card |-> c, over |-> over, ignored |-> FALSE]
<1>1. /\ c \in cards /\ over \in cards \cup Column /\ UNCHANGED cards
      /\ \E q \in Shown(Target(over), c) :
           LET x == Above(q, InsertAt(q, over))
               y == Below(q, InsertAt(q, over)) IN
             IF Ignores(x, y)
               THEN UNCHANGED <<status, rank>> /\ drop' = [card |-> c, over |-> over, ignored |-> TRUE]
               ELSE /\ Len(RankBetween(x, y)) <= MaxDigits
                    /\ rank' = [rank EXCEPT ![c] = RankBetween(x, y)]
                    /\ status' = [status EXCEPT ![c] = Target(over)]
                    /\ drop' = [card |-> c, over |-> over, ignored |-> FALSE]
  BY DEF Drop
<1>2. /\ over \in cards => Target(over) = status[over]
      /\ over \notin cards => Target(over) = over
      /\ Target(over) \in Column
  BY <1>1, BoardDropAssumption DEF BoardInv, DropTypeOK, Target
<1> QED BY <1>1, <1>2, Zenon

\* The heart of it: the rank between the neighbours at the place of the drop is
\* above the cards that were above it and below the one it was released over.
LEMMA Lands ==
  ASSUME BoardInv, NEW s \in Column, NEW c, NEW q \in Shown(s, c), NEW over,
         ~Ignores(Above(q, InsertAt(q, over)), Below(q, InsertAt(q, over)))
  PROVE  LET m == RankBetween(Above(q, InsertAt(q, over)), Below(q, InsertAt(q, over))) IN
           /\ m \in AnyRank /\ m # Open /\ NoTrailingZero(m)
           /\ over \in OthersOf(s, c) =>
                /\ Less(m, rank[over])
                /\ \A d \in OthersOf(s, c) : Less(rank[d], rank[over]) => Less(rank[d], m)
           /\ over \notin OthersOf(s, c) =>
                \A d \in OthersOf(s, c) : Less(rank[d], m)
<1> DEFINE n == InsertAt(q, over)
           x == Above(q, n)
           y == Below(q, n)
           m == RankBetween(x, y)
<1>1. /\ n \in 0..Len(q) /\ Len(q) \in Nat
      /\ over \in OthersOf(s, c) => n < Len(q) /\ q[n + 1] = over
      /\ over \notin OthersOf(s, c) => n = Len(q)
  BY PlaceInColumn, ShownIsAll
<1>2. ~Ignores(x, y)
  OBVIOUS
<1> HIDE DEF n
<1>3. x \in AnyRank /\ y \in AnyRank /\ NoTrailingZero(y)
  BY <1>1, BoundsUsable
<1>4. y = IF n = Len(q) THEN Open ELSE rank[q[n + 1]]
  BY DEF Below
<1>5. n # 0 => x = rank[q[n]]
  BY DEF Above
<1>6. \A d \in OthersOf(s, c) : rank[d] \in AnyRank /\ rank[d] # Open
  BY DEF BoardInv, DropTypeOK, OthersOf, AnyRank
<1> HIDE DEF x, y
<1>7. m \in AnyRank /\ m # Open /\ NoTrailingZero(m) /\ Less(x, m)
  BY <1>3, BetweenAbove
<1>8. y # Open => Less(m, y)
  BY <1>2, <1>3, BetweenBelow DEF Ignores
<1> HIDE DEF m
<1>9. \A i \in 1..n : Less(rank[q[i]], m)
  <2> SUFFICES ASSUME NEW i \in 1..n PROVE Less(rank[q[i]], m)
    OBVIOUS
  <2>1. n \in 1..Len(q) /\ i \in 1..Len(q) /\ n # 0
    BY <1>1
  <2>2. i = n \/ ~Less(x, rank[q[i]])
    BY <1>5, <2>1, ShownIsAll
  <2>3. q[i] \in OthersOf(s, c)
    BY <2>1, ShownIsAll
  <2>4. rank[q[i]] = x \/ Less(rank[q[i]], x)
    BY <1>3, <1>5, <1>6, <2>1, <2>2, <2>3, LessTotal
  <2> QED BY <1>3, <1>6, <1>7, <2>3, <2>4, LessTransitive
<1>10. ASSUME over \notin OthersOf(s, c), NEW d \in OthersOf(s, c)
       PROVE  Less(rank[d], m)
  <2>1. PICK i \in 1..Len(q) : q[i] = d
    BY ShownIsAll
  <2> QED BY <1>1, <1>9, <1>10, <2>1
<1>11. ASSUME over \in OthersOf(s, c)
       PROVE  /\ Less(m, rank[over])
              /\ \A d \in OthersOf(s, c) : Less(rank[d], rank[over]) => Less(rank[d], m)
  <2>1. y = rank[over] /\ y # Open
    BY <1>1, <1>4, <1>6, <1>11
  <2>2. ASSUME NEW d \in OthersOf(s, c), Less(rank[d], rank[over])
        PROVE  Less(rank[d], m)
    <3>1. PICK i \in 1..Len(q) : q[i] = d
      BY ShownIsAll
    <3>2. n + 1 \in 1..Len(q) /\ q[n + 1] = over
      BY <1>1, <1>11
    <3>3. ~(n + 1 < i)
      BY <2>2, <3>1, <3>2, ShownIsAll
    <3>4. n + 1 # i
      BY <1>6, <1>11, <2>2, <3>1, <3>2, LessIrreflexive DEF AnyRank
    <3>5. i \in 1..n
      BY <1>1, <3>3, <3>4
    <3> QED BY <1>9, <3>1, <3>5
  <2> QED BY <1>8, <2>1, <2>2
<1> QED BY <1>7, <1>10, <1>11 DEF m, x, y, n

\* A drop keeps the invariant and lands where it was released.
LEMMA DropInv ==
  ASSUME BoardInv, NEW c \in Card, NEW over, Drop(c, over)
  PROVE  BoardInv' /\ DropsLandWhereReleased'
<1>1. /\ c \in cards /\ over \in cards \cup Column /\ Target(over) \in Column
      /\ over \in cards => Target(over) = status[over]
      /\ over \notin cards => Target(over) = over
      /\ UNCHANGED cards
  BY DropShape
<1>2. CASE drop' = [card |-> c, over |-> over, ignored |-> TRUE] /\ UNCHANGED <<status, rank>>
  BY <1>1, <1>2 DEF BoardInv, DropTypeOK, DropsLandWhereReleased
<1>3. ASSUME NEW q \in Shown(Target(over), c),
             ~Ignores(Above(q, InsertAt(q, over)), Below(q, InsertAt(q, over))),
             rank' = [rank EXCEPT ![c] = RankBetween(Above(q, InsertAt(q, over)), Below(q, InsertAt(q, over)))],
             status' = [status EXCEPT ![c] = Target(over)],
             drop' = [card |-> c, over |-> over, ignored |-> FALSE]
      PROVE  BoardInv' /\ DropsLandWhereReleased'
  <2> DEFINE s == Target(over)
             m == RankBetween(Above(q, InsertAt(q, over)), Below(q, InsertAt(q, over)))
  <2>1. /\ m \in AnyRank /\ m # Open /\ NoTrailingZero(m)
        /\ over \in OthersOf(s, c) =>
             /\ Less(m, rank[over])
             /\ \A d \in OthersOf(s, c) : Less(rank[d], rank[over]) => Less(rank[d], m)
        /\ over \notin OthersOf(s, c) =>
             \A d \in OthersOf(s, c) : Less(rank[d], m)
    BY <1>1, <1>3, Lands
  <2>2. rank' = [rank EXCEPT ![c] = m] /\ status' = [status EXCEPT ![c] = s]
    BY <1>3
  <2> HIDE DEF m
  <2> HIDE DEF s
  <2>3. s \in Column /\ (over \in cards => s = status[over]) /\ (over \notin cards => s = over)
    BY <1>1 DEF s
  <2>4. BoardInv'
    BY <1>1, <1>3, <2>1, <2>2, <2>3 DEF BoardInv, DropTypeOK, AnyRank
  <2>5. Beside(c)' = OthersOf(s, c)
    BY <1>1, <2>2 DEF Beside, OthersOf, BoardInv, DropTypeOK
  <2>6. /\ rank'[c] = m /\ status'[c] = s
        /\ \A d \in OthersOf(s, c) : rank'[d] = rank[d]
    BY <1>1, <2>2 DEF OthersOf, BoardInv, DropTypeOK
  <2>7. over \notin OthersOf(s, c) => over \in {c, s}
    BY <1>1, <2>3 DEF OthersOf
  <2>8. drop'.card = c /\ drop'.over = over
    BY <1>3
  <2>9. over \in OthersOf(s, c) =>
          /\ Less(rank'[c], rank'[over])
          /\ \A d \in OthersOf(s, c) : Less(rank'[d], rank'[over]) => Less(rank'[d], rank'[c])
    BY <2>1, <2>6
  <2>10. over \notin OthersOf(s, c) =>
           over \in {c, status'[c]} /\ \A d \in OthersOf(s, c) : Less(rank'[d], rank'[c])
    BY <2>1, <2>6, <2>7
  <2> QED BY <2>4, <2>5, <2>8, <2>9, <2>10 DEF DropsLandWhereReleased
<1> QED BY <1>2, <1>3, DropShape

LEMMA BoardStepPreserves ==
  BoardInv /\ DropsLandWhereReleased /\ [BoardNext]_boardVars => BoardInv' /\ DropsLandWhereReleased'
<1> SUFFICES ASSUME BoardInv, DropsLandWhereReleased, [BoardNext]_boardVars
             PROVE  BoardInv' /\ DropsLandWhereReleased'
  OBVIOUS
<1>1. ASSUME NEW c \in Card, NEW s \in Column, AddCard(c, s) \/ SelectStatus(c, s)
      PROVE  BoardInv' /\ DropsLandWhereReleased'
  BY <1>1, AddCardInv, SelectStatusInv DEF DropsLandWhereReleased
<1>2. ASSUME NEW c \in Card, NEW over \in cards \cup Column, Drop(c, over)
      PROVE  BoardInv' /\ DropsLandWhereReleased'
  BY <1>2, DropInv
<1>3. CASE UNCHANGED boardVars
  <2>1. UNCHANGED <<cards, status, rank, drop>>
    BY <1>3 DEF boardVars
  <2> QED BY <2>1 DEF BoardInv, DropTypeOK, DropsLandWhereReleased, Beside
<1> QED BY <1>1, <1>2, <1>3 DEF BoardNext

LEMMA BoardInvariance == BoardSpec => [](BoardInv /\ DropsLandWhereReleased)
<1>1. BoardInit => BoardInv /\ DropsLandWhereReleased
  BY BoardInitHolds DEF BoardInit, DropsLandWhereReleased
<1> QED BY <1>1, BoardStepPreserves, PTL DEF BoardSpec

\* The type invariant holds: no drop leaves a rank that cannot bound another.
THEOREM DropTypeCorrect == BoardSpec => []DropTypeOK
<1>1. BoardInv => DropTypeOK
  BY DEF BoardInv
<1> QED BY <1>1, BoardInvariance, PTL

\* A drop that onDragEnd does not ignore ends above the card it was released
\* over and below those above that one, whatever cards share a rank.
THEOREM Landing == BoardSpec => []DropsLandWhereReleased
BY BoardInvariance, PTL
=============================================================================
