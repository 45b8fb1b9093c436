---------------------------- MODULE MCIssueBoard ---------------------------
(* Small instances of IssueBoard for TLC.                                  *)
EXTENDS IssueBoard, TLC

Symmetric == Permutations(Issue) \cup Permutations(Status) \cup Permutations(Req)

Creating == {r \in Req : req[r].pc \in {"readLast", "insert"}}

\* Two issues in two columns, or any number of them while one column is in use;
\* then a move names no card twice.
Bounds ==
  \/ Cardinality(created) + Cardinality(Creating) <= 2
  \/ \E s \in Status :
       /\ \A i \in issues : status[i] = s
       /\ \A r \in Req :
            /\ req[r].status \in {s, None}
            /\ req[r].issue # None => req[r].issue \notin {req[r].aboveId, req[r].belowId}
            /\ req[r].aboveId = req[r].belowId => req[r].aboveId = None
=============================================================================
