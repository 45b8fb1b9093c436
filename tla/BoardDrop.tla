----------------------------- MODULE BoardDrop -----------------------------
(***************************************************************************)
(* Where a dropped card goes: onDragEnd of the board works out the target  *)
(* column, the two neighbours and the rank between them from what the      *)
(* board shows, or ignores the drop.  One user works on the board, so that *)
(* the server stores what the board computes.                              *)
(***************************************************************************)
EXTENDS Ranks, FiniteSets

CONSTANTS Card, Column,
          MaxDigits \* bound: digits of a rank

ASSUME BoardDropAssumption == Card \cap Column = {} /\ MaxDigits \in Nat

VARIABLES cards,  \* cards on the board
          status, \* a card's column
          rank,
          drop    \* the last drop: its card, what it was released over, whether ignored

boardVars == <<cards, status, rank, drop>>

NoDrop == [card |-> "none", over |-> "none", ignored |-> FALSE]

\* The type invariant; every rank on the board can be a bound of rankBetween.
DropTypeOK ==
  /\ cards \subseteq Card
  /\ status \in [cards -> Column]
  /\ rank \in [cards -> Seq(Digit)]
  /\ \A c \in cards : rank[c] # Open /\ NoTrailingZero(rank[c])
  /\ drop = NoDrop \/ drop \in [card : cards, over : cards \cup Column, ignored : BOOLEAN]

BoardInit == cards = {} /\ status = <<>> /\ rank = <<>> /\ drop = NoDrop

\* The cards of a column but one, in the order the board shows them; sort() may
\* put cards of equal rank in either order.
Shown(s, but) ==
  LET S == {c \in cards \ {but} : status[c] = s} IN
    {q \in [1..Cardinality(S) -> S] :
       /\ \A i, j \in DOMAIN q : i < j => q[i] # q[j] /\ ~Less(rank[q[j]], rank[q[i]])}

\* A new card goes to the end of its column.
AddCard(c, s) ==
  /\ c \notin cards
  /\ \E q \in Shown(s, c) :
       LET new == RankBetween(IF q = <<>> THEN Open ELSE rank[q[Len(q)]], Open) IN
         /\ Len(new) <= MaxDigits
         /\ rank' = [d \in cards \cup {c} |-> IF d = c THEN new ELSE rank[d]]
  /\ cards' = cards \cup {c}
  /\ status' = [d \in cards \cup {c} |-> IF d = c THEN s ELSE status[d]]
  /\ drop' = NoDrop

\* The dialog's select changes the column and keeps the rank.
SelectStatus(c, s) ==
  /\ c \in cards
  /\ status' = [status EXCEPT ![c] = s]
  /\ drop' = NoDrop
  /\ UNCHANGED <<cards, rank>>
Target(over) == IF over \in Column THEN over ELSE status[over]

\* Mutant: the card is put below the one it was released over.
InsertAfter(q, over) ==
  IF \E i \in DOMAIN q : q[i] = over THEN CHOOSE i \in DOMAIN q : q[i] = over ELSE Len(q)

\* Number of cards of the column that stay above the dropped one: those above the
\* card it was released over, and all of them over the column or over itself.
InsertAt(q, over) ==
  IF \E i \in DOMAIN q : q[i] = over THEN (CHOOSE i \in DOMAIN q : q[i] = over) - 1 ELSE Len(q)

Above(q, n) == IF n = 0 THEN Open ELSE rank[q[n]]
Below(q, n) == IF n = Len(q) THEN Open ELSE rank[q[n + 1]]

\* above === below, or rankBetween throws.
Ignores(x, y) == x = y \/ (x # Open /\ y # Open /\ ~Less(x, y))

Drop(c, over) ==
  /\ c \in cards /\ over \in cards \cup Column
  /\ \E q \in Shown(Target(over), c) :
       LET x == Above(q, InsertAt(q, over))
           y == Below(q, InsertAt(q, over)) IN
         IF Ignores(x, y) THEN UNCHANGED <<status, rank>> /\ drop' = [card |-> c, over |-> over, ignored |-> TRUE]
         ELSE /\ Len(RankBetween(x, y)) <= MaxDigits
              /\ rank' = [rank EXCEPT ![c] = RankBetween(x, y)]
              /\ status' = [status EXCEPT ![c] = Target(over)]
              /\ drop' = [card |-> c, over |-> over, ignored |-> FALSE]
  /\ UNCHANGED cards

BoardNext == \E c \in Card : \/ \E s \in Column : AddCard(c, s) \/ SelectStatus(c, s)
                             \/ \E over \in cards \cup Column : Drop(c, over)

BoardSpec == BoardInit /\ [][BoardNext]_boardVars
----------------------------------------------------------------------------
(* Properties.                                                             *)

Beside(c) == {d \in cards \ {c} : status[d] = status[c]}

\* A drop that is not ignored puts the card where it was released: directly above
\* the card under it, with every card that was above that one still above, also
\* among cards of equal rank; over a column, at its end.
DropsLandWhereReleased ==
  drop # NoDrop /\ ~drop.ignored =>
    LET c == drop.card
        over == drop.over IN
      IF over \in Beside(c)
        THEN /\ Less(rank[c], rank[over])
             /\ \A d \in Beside(c) : Less(rank[d], rank[over]) => Less(rank[d], rank[c])
        ELSE /\ over \in {c, status[c]}
             /\ \A d \in Beside(c) : Less(rank[d], rank[c])

\* "dropped in place": a drop that is ignored was one over the card's own column.
IgnoredInPlace ==
  drop # NoDrop /\ drop.ignored => Target(drop.over) = status[drop.card]
=============================================================================
