----------------------------- MODULE RanksProofs ---------------------------
(***************************************************************************)
(* Facts about rank strings for every base: Less is a strict total order,  *)
(* and RankBetween keeps the contract of rankBetween.                      *)
(***************************************************************************)
EXTENDS Ranks, TLAPS, WellFoundedInduction

AnyRank == Seq(Digit)

\* A nonempty set of naturals has a least element: what replaces induction here.
LEMMA LeastNat ==
  ASSUME NEW T \in SUBSET Nat, T # {}
  PROVE  \E x \in T : \A y \in T : x <= y
<1> DEFINE R == OpToRel(<, Nat)
<1>1. \A x, y \in Nat : x < y => <<x, y>> \in R
  BY Zenon DEF OpToRel
<1>2. IsWellFoundedOn(R, Nat)
  BY NatLessThanWellFounded, Zenon
<1> HIDE DEF R
<1>3. PICK x \in T : \A y \in T : ~(<<y, x>> \in R)
  BY <1>2, WFMin
<1>4. \A y \in T : ~(y < x)
  BY <1>1, <1>3, Zenon
<1> QED BY <1>4
----------------------------------------------------------------------------
LEMMA RankDigits ==
  ASSUME NEW a \in AnyRank
  PROVE  /\ Len(a) \in Nat
         /\ \A j \in 1..Len(a) : a[j] \in Int /\ 0 <= a[j] /\ a[j] < BASE
BY BaseAssumption DEF AnyRank, Digit

\* Less spelled out for one position.
LEMMA LessAt ==
  ASSUME NEW a \in AnyRank, NEW b \in AnyRank, NEW n \in 1..Len(b),
         n <= Len(a) + 1,
         \A j \in 1..(n - 1) : a[j] = b[j],
         n <= Len(a) => a[n] < b[n]
  PROVE  Less(a, b)
BY DEF Less

LEMMA LessTransitive ==
  ASSUME NEW a \in AnyRank, NEW b \in AnyRank, NEW c \in AnyRank, Less(a, b), Less(b, c)
  PROVE  Less(a, c)
<1>1. PICK n \in 1..Len(b) : /\ n <= Len(a) + 1
                             /\ \A j \in 1..(n - 1) : a[j] = b[j]
                             /\ n <= Len(a) => a[n] < b[n]
  BY DEF Less
<1>2. PICK m \in 1..Len(c) : /\ m <= Len(b) + 1
                             /\ \A j \in 1..(m - 1) : b[j] = c[j]
                             /\ m <= Len(b) => b[m] < c[m]
  BY DEF Less
<1>3. Len(a) \in Nat /\ Len(b) \in Nat /\ Len(c) \in Nat
  BY DEF AnyRank
<1>4. /\ \A j \in 1..Len(a) : a[j] \in Int
      /\ \A j \in 1..Len(b) : b[j] \in Int
      /\ \A j \in 1..Len(c) : c[j] \in Int
  BY RankDigits
<1>5. CASE n < m
  <2>1. n \in 1..Len(c) /\ b[n] = c[n]
    BY <1>1, <1>2, <1>3, <1>5
  <2>2. \A j \in 1..(n - 1) : a[j] = c[j]
    BY <1>1, <1>2, <1>3, <1>5
  <2> QED BY <1>1, <2>1, <2>2, LessAt
<1>6. CASE m <= n
  <2>1. \A j \in 1..(m - 1) : a[j] = c[j]
    BY <1>1, <1>2, <1>3, <1>6
  <2>2. m <= Len(a) + 1 /\ m <= Len(b) /\ b[m] < c[m]
    BY <1>1, <1>2, <1>3, <1>6
  <2>3. m <= Len(a) => a[m] < c[m]
    <3>1. CASE m = n
      BY <1>1, <1>2, <1>3, <1>4, <2>2, <3>1
    <3>2. CASE m < n
      BY <1>1, <1>2, <1>3, <1>4, <2>2, <3>2
    <3> QED BY <1>6, <1>3, <3>1, <3>2
  <2> QED BY <1>2, <2>1, <2>2, <2>3, LessAt
<1> QED BY <1>3, <1>5, <1>6

\* The first position at which two different ranks differ decides.
LEMMA LessTotal ==
  ASSUME NEW a \in AnyRank, NEW b \in AnyRank
  PROVE  Less(a, b) \/ a = b \/ Less(b, a)
<1>1. Len(a) \in Nat /\ Len(b) \in Nat
  BY DEF AnyRank
<1>2. /\ \A j \in 1..Len(a) : a[j] \in Int
      /\ \A j \in 1..Len(b) : b[j] \in Int
  BY RankDigits
<1> DEFINE Ends == {k \in Nat \ {0} : k > Len(a) \/ k > Len(b) \/ a[k] # b[k]}
<1>3. PICK k \in Ends : \A j \in Ends : k <= j
  <2>1. Len(a) + 1 \in Ends
    BY <1>1
  <2>2. Ends \in SUBSET Nat /\ Ends # {}
    BY <2>1
  <2> HIDE DEF Ends
  <2> QED BY <2>2, LeastNat
<1>4. \A j \in 1..(k - 1) : j <= Len(a) /\ j <= Len(b) /\ a[j] = b[j]
  <2> SUFFICES ASSUME NEW j \in 1..(k - 1)
               PROVE  j <= Len(a) /\ j <= Len(b) /\ a[j] = b[j]
    OBVIOUS
  <2>1. j \notin Ends /\ j \in Nat \ {0}
    BY <1>3
  <2> QED BY <1>1, <2>1
<1>5. k \in Nat /\ k >= 1 /\ (k > Len(a) \/ k > Len(b) \/ a[k] # b[k])
  BY <1>3
<1>6. k <= Len(a) + 1 /\ k <= Len(b) + 1
  <2>1. k >= 2 => k - 1 \in 1..(k - 1)
    BY <1>5
  <2> QED BY <1>1, <1>4, <1>5, <2>1
<1> HIDE DEF Ends
<1>7. CASE k <= Len(b) /\ (k <= Len(a) => a[k] < b[k])
  BY <1>4, <1>5, <1>6, <1>7, LessAt, <1>1
<1>8. CASE k <= Len(a) /\ (k <= Len(b) => b[k] < a[k])
  BY <1>4, <1>5, <1>6, <1>8, LessAt, <1>1
<1>9. CASE k > Len(a) /\ k > Len(b)
  <2>1. Len(a) = k - 1 /\ Len(b) = k - 1
    BY <1>1, <1>5, <1>6, <1>9
  <2>2. a = b
    BY <1>4, <2>1 DEF AnyRank
  <2> QED BY <2>2
<1> QED
  <2>1. CASE k <= Len(a) /\ k <= Len(b)
    BY <1>1, <1>2, <1>5, <1>7, <1>8, <2>1
  <2> QED BY <1>1, <1>5, <1>7, <1>8, <1>9, <2>1
----------------------------------------------------------------------------
\* The digits of the bounds as the loop reads them.
LEMMA BoundDigits ==
  ASSUME NEW a \in AnyRank, NEW b \in AnyRank, NEW p \in Nat \ {0}
  PROVE  /\ LowerDigit(a, p) \in Digit
         /\ UpperDigit(b, p) \in Digit \cup {BASE}
BY BaseAssumption DEF AnyRank, Digit, LowerDigit, UpperDigit

LEMMA MidBounds ==
  ASSUME NEW l \in Digit, NEW u \in Digit \cup {BASE}
  PROVE  /\ Mid(l, u) \in Int
         /\ Mid(l, u) > l => Mid(l, u) < u /\ Mid(l, u) \in Digit
         /\ l = 0 /\ u = BASE => Mid(l, u) > l
BY BaseAssumption DEF Mid, Digit

\* There is a gap past the end of both bounds at the latest, so RankBetween
\* copies digits of a until the first gap and ends with the middle of it.
LEMMA BetweenShape ==
  ASSUME NEW a \in AnyRank, NEW b \in AnyRank
  PROVE  \E p \in 1..(Len(a) + Len(b) + 1) :
            /\ RankBetween(a, b) = [k \in 1..p |-> IF k < p THEN LowerDigit(a, k) ELSE MidAt(a, b, p)]
            /\ MidAt(a, b, p) > LowerDigit(a, p)
<1> DEFINE Gap(q) == MidAt(a, b, q) > LowerDigit(a, q)
           Limit == Len(a) + Len(b) + 1
           Gaps == {q \in 1..Limit : Gap(q)}
<1>1. Len(a) \in Nat /\ Len(b) \in Nat /\ Limit \in 1..Limit
  BY RankDigits
<1>2. Limit \in Gaps
  <2>1. LowerDigit(a, Limit) = 0 /\ UpperDigit(b, Limit) = BASE
    BY <1>1 DEF LowerDigit, UpperDigit
  <2>2. MidAt(a, b, Limit) = Mid(0, BASE)
    BY <2>1 DEF MidAt
  <2>3. Mid(0, BASE) > 0
    BY MidBounds, BaseAssumption DEF Digit
  <2> QED BY <1>1, <2>1, <2>2, <2>3
<1>3. \E p \in Gaps : \A q \in Gaps : p <= q
  <2>1. Gaps \in SUBSET Nat /\ Gaps # {}
    BY <1>1, <1>2
  <2> HIDE DEF Gaps
  <2> QED BY <2>1, LeastNat
<1>4. \E p \in 1..Limit : Gap(p) /\ \A k \in 1..(p - 1) : ~Gap(k)
  <2>1. PICK p \in Gaps : \A q \in Gaps : p <= q
    BY <1>3
  <2>2. p \in 1..Limit /\ Gap(p)
    OBVIOUS
  <2>3. \A k \in 1..(p - 1) : k \in 1..Limit /\ ~(p <= k)
    BY <1>1, <2>2
  <2>4. \A k \in 1..(p - 1) : ~Gap(k)
    BY <2>1, <2>3
  <2> QED BY <2>2, <2>4
<1> DEFINE p == CHOOSE q \in 1..Limit : Gap(q) /\ \A k \in 1..(q - 1) : ~Gap(k)
<1>5. p \in 1..Limit /\ Gap(p)
  BY <1>4
<1>6. RankBetween(a, b) = [k \in 1..p |-> IF k < p THEN LowerDigit(a, k) ELSE MidAt(a, b, p)]
  BY DEF RankBetween
<1> QED BY <1>5, <1>6

\* The result is a rank that can bound later ones, and greater than a.
THEOREM BetweenAbove ==
  ASSUME NEW a \in AnyRank, NEW b \in AnyRank
  PROVE  /\ RankBetween(a, b) \in AnyRank
         /\ RankBetween(a, b) # Open
         /\ NoTrailingZero(RankBetween(a, b))
         /\ Less(a, RankBetween(a, b))
<1> DEFINE m == RankBetween(a, b)
<1>1. PICK p \in 1..(Len(a) + Len(b) + 1) :
        /\ m = [k \in 1..p |-> IF k < p THEN LowerDigit(a, k) ELSE MidAt(a, b, p)]
        /\ MidAt(a, b, p) > LowerDigit(a, p)
  BY BetweenShape
<1>2. Len(a) \in Nat /\ Len(b) \in Nat /\ p \in Nat /\ p >= 1
  BY RankDigits
<1>3. \A k \in 1..p : LowerDigit(a, k) \in Digit
  BY <1>2, BoundDigits
<1>4. MidAt(a, b, p) \in Digit
  <2>1. UpperDigit(b, p) \in Digit \cup {BASE}
    BY <1>2, BoundDigits
  <2>2. LowerDigit(a, p) \in Digit
    BY <1>2, <1>3
  <2> QED BY <1>1, <2>1, <2>2, MidBounds DEF MidAt
<1> HIDE DEF m
<1>5. m \in AnyRank /\ Len(m) = p
  <2>1. m \in [1..p -> Digit]
    BY <1>1, <1>3, <1>4
  <2> QED BY <1>2, <2>1 DEF AnyRank
<1>6. m[p] = MidAt(a, b, p) /\ m[p] > LowerDigit(a, p)
  BY <1>1, <1>2
<1>7. m # Open /\ NoTrailingZero(m)
  <2>1. m[p] # 0
    BY <1>2, <1>3, <1>4, <1>6, BaseAssumption DEF Digit
  <2> QED BY <1>2, <1>5, <2>1 DEF NoTrailingZero, Open
<1>8. Less(a, m)
  <2>1. CASE p <= Len(a)
    <3>1. \A j \in 1..(p - 1) : a[j] = m[j]
      BY <1>1, <1>2, <2>1 DEF LowerDigit
    <3>2. a[p] < m[p]
      BY <1>2, <1>4, <1>6, <2>1, RankDigits DEF LowerDigit, Digit
    <3> QED BY <1>2, <1>5, <2>1, <3>1, <3>2, LessAt
  <2>2. CASE p > Len(a)
    <3>1. \A j \in 1..Len(a) : a[j] = m[j]
      BY <1>1, <1>2, <2>2 DEF LowerDigit
    <3>2. Len(a) + 1 \in 1..Len(m)
      BY <1>2, <1>5, <2>2
    <3> QED BY <1>2, <1>5, <3>1, <3>2 DEF Less
  <2> QED BY <1>2, <2>1, <2>2
<1> QED BY <1>5, <1>7, <1>8 DEF m

\* Bounds in order, the upper one usable: its first digit that exceeds the
\* lower bound's exists and all digits before it agree.
LEMMA FirstExcess ==
  ASSUME NEW a \in AnyRank, NEW b \in AnyRank, Less(a, b), NoTrailingZero(b)
  PROVE  \E c \in 1..Len(b) : /\ b[c] > LowerDigit(a, c)
                              /\ \A j \in 1..(c - 1) : b[j] = LowerDigit(a, j)
<1>1. PICK n \in 1..Len(b) : /\ n <= Len(a) + 1
                             /\ \A j \in 1..(n - 1) : a[j] = b[j]
                             /\ n <= Len(a) => a[n] < b[n]
  BY DEF Less
<1>2. Len(a) \in Nat /\ Len(b) \in Nat /\ n \in Nat /\ n >= 1 /\ n <= Len(b)
  BY <1>1, RankDigits
<1>3. \A j \in 1..(n - 1) : b[j] = LowerDigit(a, j)
  BY <1>1, <1>2 DEF LowerDigit
<1>4. CASE n <= Len(a)
  <2>1. b[n] > LowerDigit(a, n)
    BY <1>1, <1>2, <1>4, RankDigits DEF LowerDigit
  <2> QED BY <1>2, <1>3, <2>1
<1>5. CASE n = Len(a) + 1
  <2> DEFINE T == {k \in n..Len(b) : b[k] # 0}
  <2>1. Len(b) \in T
    BY <1>2 DEF NoTrailingZero, Open
  <2>2. PICK c \in T : \A k \in T : c <= k
    <3>1. T \in SUBSET Nat /\ T # {}
      BY <1>2, <2>1
    <3> HIDE DEF T
    <3> QED BY <3>1, LeastNat
  <2>3. c \in n..Len(b) /\ b[c] # 0
    OBVIOUS
  <2>4. LowerDigit(a, c) = 0 /\ b[c] > 0
    BY <1>2, <1>5, <2>3, RankDigits DEF LowerDigit
  <2>5. \A j \in n..(c - 1) : b[j] = 0 /\ LowerDigit(a, j) = 0
    <3> SUFFICES ASSUME NEW j \in n..(c - 1)
                 PROVE  b[j] = 0 /\ LowerDigit(a, j) = 0
      OBVIOUS
    <3>1. j \in n..Len(b) /\ ~(c <= j)
      BY <1>2, <2>3
    <3>2. b[j] = 0
      BY <2>2, <3>1
    <3>3. LowerDigit(a, j) = 0
      BY <1>2, <1>5, <3>1 DEF LowerDigit
    <3> QED BY <3>2, <3>3
  <2>6. \A j \in 1..(c - 1) : b[j] = LowerDigit(a, j)
    <3> SUFFICES ASSUME NEW j \in 1..(c - 1)
                 PROVE  b[j] = LowerDigit(a, j)
      OBVIOUS
    <3>1. j \in 1..(n - 1) \/ j \in n..(c - 1)
      BY <1>2, <2>3
    <3> QED BY <1>3, <2>5, <3>1
  <2> QED BY <1>2, <2>3, <2>4, <2>6
<1> QED BY <1>1, <1>2, <1>4, <1>5

\* The result is less than b.
THEOREM BetweenBelow ==
  ASSUME NEW a \in AnyRank, NEW b \in AnyRank, b # Open, NoTrailingZero(b),
         a # Open => Less(a, b)
  PROVE  Less(RankBetween(a, b), b)
<1> DEFINE m == RankBetween(a, b)
<1>1. PICK p \in 1..(Len(a) + Len(b) + 1) :
        /\ m = [k \in 1..p |-> IF k < p THEN LowerDigit(a, k) ELSE MidAt(a, b, p)]
        /\ MidAt(a, b, p) > LowerDigit(a, p)
  BY BetweenShape
<1>2. m \in AnyRank
  BY BetweenAbove
<1> HIDE DEF m
<1> SUFFICES Less(m, b)
  BY DEF m
<1>3. Len(a) \in Nat /\ Len(b) \in Nat /\ Len(b) >= 1 /\ p \in Nat /\ p >= 1 /\ Len(m) = p
  BY <1>1, <1>2, RankDigits DEF AnyRank, Open
<1>4. Less(a, b)
  <2>1. CASE a = Open
    BY <1>3, <2>1 DEF Less, Open
  <2> QED BY <2>1
<1>5. PICK c \in 1..Len(b) : /\ b[c] > LowerDigit(a, c)
                             /\ \A j \in 1..(c - 1) : b[j] = LowerDigit(a, j)
  BY <1>4, FirstExcess
<1>6. CASE c < p
  <2>1. m[c] = LowerDigit(a, c) /\ \A j \in 1..(c - 1) : m[j] = b[j]
    BY <1>1, <1>3, <1>5, <1>6
  <2>2. m[c] < b[c]
    BY <1>3, <1>5, <2>1, BoundDigits, RankDigits, BaseAssumption DEF Digit
  <2>3. c \in 1..Len(b) /\ c <= Len(m) + 1
    BY <1>3, <1>5, <1>6
  <2>4. \A j \in 1..(c - 1) : m[j] = b[j]
    BY <2>1
  <2> QED BY <1>2, <2>2, <2>3, <2>4, LessAt
<1>7. CASE p <= c
  <2>1. \A j \in 1..(p - 1) : m[j] = b[j] /\ UpperDigit(b, j) = LowerDigit(a, j)
    BY <1>1, <1>3, <1>5, <1>7 DEF UpperDigit
  <2>2. ~CeilingOpen(a, b, p)
    <3>1. \A j \in 1..(p - 1) : LowerDigit(a, j) \in Int
      BY <1>3, BoundDigits, BaseAssumption DEF Digit
    <3>2. \A j \in 1..(p - 1) : ~(UpperDigit(b, j) > LowerDigit(a, j))
      BY <2>1, <3>1
    <3> QED BY <3>2 DEF CeilingOpen
  <2>3. m[p] = Mid(LowerDigit(a, p), b[p])
    BY <1>1, <1>3, <1>5, <1>7, <2>2 DEF MidAt, UpperDigit
  <2>4. m[p] < b[p]
    <3>1. LowerDigit(a, p) \in Digit /\ b[p] \in Digit
      BY <1>3, <1>5, <1>7, BoundDigits DEF AnyRank
    <3>2. Mid(LowerDigit(a, p), b[p]) > LowerDigit(a, p)
      BY <1>1, <1>3, <2>3
    <3> QED BY <3>1, <3>2, <2>3, MidBounds
  <2> QED BY <1>2, <1>3, <1>5, <1>7, <2>1, <2>4, LessAt
<1> QED BY <1>3, <1>5, <1>6, <1>7

\* The rank of the first card of an empty column can bound later ones.
LEMMA FirstRankUsable == FirstRank \in AnyRank /\ FirstRank # Open /\ NoTrailingZero(FirstRank)
BY BaseAssumption DEF FirstRank, AnyRank, Digit, Open, NoTrailingZero
=============================================================================
