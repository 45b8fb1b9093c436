---------------------------- MODULE MCBoardSync ----------------------------
(* A small instance of BoardSync for TLC.                                  *)
EXTENDS BoardSync, TLC

CONSTANTS i1, i2, p1, text1

\* Both issues belong to the first project; the second one's board is empty.
MCProjectOf == [i \in Issue |-> p1]
MCPlace == {1, 2}

Symmetric == Permutations(Mutation)

\* One issue exists and its board is opened.
MCInit == Init /\ rows = {[id |-> i1, place |-> 1, text |-> text1]} /\ shown = p1
MCSpec == MCInit /\ [][Next]_vars

\* Writes, troubles and mutations under way are three together.  The second issue
\* keeps its text, and where there are troubles its place.
Bounds ==
  /\ Len(log) + troubles + Cardinality(mut) <= 3
  /\ \A x \in held \cup {q.card : q \in mut} :
       x.id = i2 => x.text = text1 /\ (x.place = 1 => troubles = 0)
=============================================================================
