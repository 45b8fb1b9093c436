----------------------------- MODULE IssueBoard ----------------------------
(***************************************************************************)
(* IssuesService on one project: issue numbers from the project's counter, *)
(* and ranks that order the cards of a status column.  create runs in a    *)
(* transaction that holds the project row from its first statement on; the *)
(* calls of move, update and remove are separate statements.  Each sees    *)
(* what is committed when it runs (read committed).  Audit row, broadcast  *)
(* and notification at the end of a handler change nothing modelled here.  *)
(***************************************************************************)
EXTENDS Ranks, FiniteSets

CONSTANTS Issue,      \* ids; their number bounds the issues ever created
          Status,     \* columns
          Req,        \* request handlers that run at the same time
          None,
          MaxRankLen  \* bound: ranks do not grow beyond this length

ASSUME NoneAssumption == None \notin Issue \cup Status \cup Req
ASSUME MaxRankLenAssumption == MaxRankLen \in Nat

VARIABLES issues,     \* issues with a committed row
          number,     \* column number; kept of deleted issues as history
          status,     \* column status
          rank,       \* column rank
          counter,    \* committed projects.issueCounter
          lock,       \* the create transaction that holds the project row
          req,        \* per handler: where it stands and what it has read
          created,    \* history: issues ever committed
          touched     \* history: issues moved or given another status

rows == <<issues, number, status, rank>>
history == <<created, touched>>
vars == <<rows, counter, lock, req, history>>

PCs == {"idle", "readLast", "insert", "update", "move", "remove"}

\* A handler: its issue, its target column, the neighbours it still has to look
\* up, their ranks when looked up (Open: no such neighbour), and in create the
\* rank and number it will insert.
Idle == [pc |-> "idle", issue |-> None, status |-> None, aboveId |-> None, belowId |-> None,
         above |-> Open, below |-> Open, rank |-> Open, number |-> 0]

\* The type invariant: numbers and columns of committed rows, and who may hold
\* the project row.
TypeOK ==
  /\ issues \subseteq created
  /\ created \subseteq Issue
  /\ touched \subseteq issues
  /\ number \in [Issue -> Nat]
  /\ status \in [Issue -> Status \cup {None}]
  /\ \A i \in issues : status[i] \in Status /\ rank[i] \in Seq(Digit)
  /\ counter \in Nat
  /\ lock \in Req \cup {None}
  /\ \A r \in Req : /\ req[r].pc \in PCs
                    /\ req[r].pc \in {"readLast", "insert"} <=> lock = r

Init ==
  /\ issues = {}
  /\ number = [i \in Issue |-> 0]
  /\ status = [i \in Issue |-> None]
  /\ rank = [i \in Issue |-> Open]
  /\ counter = 0
  /\ lock = None
  /\ req = [r \in Req |-> Idle]
  /\ created = {}
  /\ touched = {}
----------------------------------------------------------------------------
Return(r) == req' = [req EXCEPT ![r] = Idle]

Column(s) == {i \in issues : status[i] = s}

\* Mutant: ORDER BY rank ascending.
LastRanksAscending(s) ==
  {rank[i] : i \in {k \in Column(s) : \A j \in Column(s) : ~Less(rank[j], rank[k])}}

\* ORDER BY rank DESC in code order (the collation of the deployed database): a
\* greatest rank of the column; issues that tie have the same one.
LastRanks(s) ==
  {rank[i] : i \in {k \in Column(s) : \A j \in Column(s) : ~Less(rank[k], rank[j])}}

\* Mutant: the number is one more than the rows there are.
CreateLockCountsRows(r, s) ==
  /\ req[r].pc = "idle"
  /\ lock = None
  /\ lock' = r
  /\ req' = [req EXCEPT ![r] = [Idle EXCEPT !.pc = "readLast", !.status = s,
                                            !.number = Cardinality(issues) + 1]]
  /\ UNCHANGED <<rows, counter, history>>

\* Mutant: the increment commits on its own, before the transaction begins.
CreateLockOutsideTransaction(r, s) ==
  /\ req[r].pc = "idle"
  /\ counter' = counter + 1
  /\ req' = [req EXCEPT ![r] = [Idle EXCEPT !.pc = "readLast", !.status = s,
                                            !.number = counter + 1]]
  /\ UNCHANGED <<rows, lock, history>>

\* create: the transaction increments the counter, which locks the project row
\* until it ends; the increment is visible to others only when it commits.
CreateLock(r, s) ==
  /\ req[r].pc = "idle"
  /\ lock = None
  /\ lock' = r
  /\ req' = [req EXCEPT ![r] = [Idle EXCEPT !.pc = "readLast", !.status = s,
                                            !.number = counter + 1]]
  /\ UNCHANGED <<rows, counter, history>>

\* create: the last rank of the column, and the rank after it.
CreateReadLast(r) ==
  LET s == req[r].status
      Nexts == IF Column(s) = {} THEN {FirstRank}
               ELSE {RankBetween(last, Open) : last \in LastRanks(s)}
  IN /\ req[r].pc = "readLast"
     /\ \E next \in Nexts :
          /\ Len(next) <= MaxRankLen
          /\ req' = [req EXCEPT ![r].pc = "insert", ![r].rank = next]
     /\ UNCHANGED <<rows, counter, lock, history>>

\* create: insert the row and commit.  (project, number) is unique.
CreateCommit(r, i) ==
  LET q == req[r] IN
  /\ q.pc = "insert"
  /\ i \in Issue \ created
  /\ \A j \in issues : number[j] # q.number
  /\ counter' = q.number
  /\ lock' = None
  /\ issues' = issues \cup {i}
  /\ number' = [number EXCEPT ![i] = q.number]
  /\ status' = [status EXCEPT ![i] = q.status]
  /\ rank' = [rank EXCEPT ![i] = q.rank]
  /\ created' = created \cup {i}
  /\ Return(r)
  /\ UNCHANGED touched

\* update, move and remove first look the issue up; without it they answer 404.
Begin(r, i, label, s, above, below) ==
  /\ req[r].pc = "idle"
  /\ i \in issues
  /\ req' = [req EXCEPT ![r] = [Idle EXCEPT !.pc = label, !.issue = i, !.status = s,
                                            !.aboveId = above, !.belowId = below]]
  /\ UNCHANGED <<rows, counter, lock, history>>

UpdateRead(r, i, s) == Begin(r, i, "update", s, None, None)

\* update: a new status leaves the rank as it is; a deleted row makes it throw.
UpdateWrite(r) ==
  LET i == req[r].issue IN
  /\ req[r].pc = "update"
  /\ i \in issues
  /\ status' = [status EXCEPT ![i] = req[r].status]
  /\ touched' = touched \cup {i}
  /\ Return(r)
  /\ UNCHANGED <<issues, number, rank, counter, lock, created>>

\* move: the caller names the cards it saw above and below the drop position.
MoveRead(r, i, s, above, below) == Begin(r, i, "move", s, above, below)

\* The rank of a neighbour if it is still in the target column, else Open.
NeighbourRank(i, s) == IF i \in Column(s) THEN rank[i] ELSE Open

\* move: the two neighbour queries run concurrently and answer in any order.
ReadAbove(r) ==
  LET q == req[r] IN
  /\ q.pc = "move"
  /\ q.aboveId # None
  /\ req' = [req EXCEPT ![r].aboveId = None,
                        ![r].above = NeighbourRank(q.aboveId, q.status)]
  /\ UNCHANGED <<rows, counter, lock, history>>

ReadBelow(r) ==
  LET q == req[r] IN
  /\ q.pc = "move"
  /\ q.belowId # None
  /\ req' = [req EXCEPT ![r].belowId = None,
                        ![r].below = NeighbourRank(q.belowId, q.status)]
  /\ UNCHANGED <<rows, counter, lock, history>>

\* Mutant: the order of the bounds is not checked.
InOrderAssumed(above, below) == TRUE

\* rankBetween throws on two bounds that are not in order.
InOrder(above, below) == above # Open /\ below # Open => Less(above, below)

\* move: write a rank strictly between the ranks read.  Bounds out of order
\* (400) and a row deleted meanwhile end in Fail.
MoveWrite(r) ==
  LET q == req[r]
      between == RankBetween(q.above, q.below)
  IN /\ q.pc = "move"
     /\ q.aboveId = None /\ q.belowId = None
     /\ InOrder(q.above, q.below)
     /\ Len(between) <= MaxRankLen
     /\ q.issue \in issues
     /\ status' = [status EXCEPT ![q.issue] = q.status]
     /\ rank' = [rank EXCEPT ![q.issue] = between]
     /\ touched' = touched \cup {q.issue}
     /\ Return(r)
     /\ UNCHANGED <<issues, number, counter, lock, created>>

RemoveRead(r, i) == Begin(r, i, "remove", None, None, None)

RemoveWrite(r) ==
  LET i == req[r].issue IN
  /\ req[r].pc = "remove"
  /\ i \in issues
  /\ issues' = issues \ {i}
  /\ status' = [status EXCEPT ![i] = None]
  /\ rank' = [rank EXCEPT ![i] = Open]
  /\ touched' = touched \ {i}
  /\ Return(r)
  /\ UNCHANGED <<number, counter, lock, created>>

\* Mutant: a failed transaction keeps the project row locked.
FailKeepsLock(r) ==
  /\ req[r].pc # "idle"
  /\ Return(r)
  /\ UNCHANGED <<rows, counter, lock, history>>

\* A statement throws or the process dies; an open transaction rolls back.
Fail(r) ==
  /\ req[r].pc # "idle"
  /\ lock' = IF lock = r THEN None ELSE lock
  /\ Return(r)
  /\ UNCHANGED <<rows, counter, history>>

Next ==
  \/ \E r \in Req, s \in Status : CreateLock(r, s)
  \/ \E r \in Req, i \in Issue : CreateCommit(r, i) \/ RemoveRead(r, i)
  \/ \E r \in Req, i \in Issue, s \in Status : UpdateRead(r, i, s)
  \/ \E r \in Req, i \in Issue, s \in Status, above, below \in created \cup {None} :
        MoveRead(r, i, s, above, below)
  \/ \E r \in Req : \/ CreateReadLast(r) \/ UpdateWrite(r) \/ ReadAbove(r) \/ ReadBelow(r)
                    \/ MoveWrite(r) \/ RemoveWrite(r) \/ Fail(r)

Spec == Init /\ [][Next]_vars
----------------------------------------------------------------------------
(* Properties.                                                             *)

\* "Per-project monotonic issue number": the issues ever created, deleted ones
\* included, are numbered 1 to counter without a gap and without reuse, whatever
\* creates race, throw or are rolled back.
NumbersAreASequence ==
  /\ \A i, j \in created : number[i] = number[j] => i = j
  /\ {number[i] : i \in created} = 1..counter

\* Creates of one column appear in the order of their numbers as long as nobody
\* moves them: the last rank is read under the lock that orders the numbers.
CreatesInOrder ==
  \A i, j \in issues \ touched :
     status[i] = status[j] /\ number[i] < number[j] => Less(rank[i], rank[j])

\* Every stored rank can bound a later drop: rankBetween needs an upper bound
\* without trailing '0', and no chain of creates and moves stores another.
RanksUsable == \A i \in issues : rank[i] # Open /\ NoTrailingZero(rank[i])

\* The rank r writes lies strictly between the neighbours it has read.
LandsBetween(r) ==
  LET new == rank'[req[r].issue] IN
  /\ req[r].above # Open => Less(req[r].above, new)
  /\ req[r].below # Open => Less(new, req[r].below)

\* A drop lands strictly between the neighbours move has read, whatever other
\* requests did to the column meanwhile; if it cannot, move writes nothing.
DropsLandBetween == [][\A r \in Req : MoveWrite(r) => LandsBetween(r)]_vars

\* "above: smaller rank, below: larger rank": two cards of a column differ in
\* rank, so that a card can be dropped between them.
RanksDistinct ==
  \A i, j \in issues : status[i] = status[j] /\ rank[i] = rank[j] => i = j
=============================================================================
