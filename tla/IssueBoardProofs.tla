-------------------------- MODULE IssueBoardProofs -------------------------
(***************************************************************************)
(* Proofs about IssueBoard for any number of issues, columns and handlers, *)
(* any base and any bound on the length of ranks.                          *)
(***************************************************************************)
EXTENDS IssueBoard, RanksProofs

\* What can bound a new rank: a rank without trailing zero, or nothing.
Bound == {s \in AnyRank : NoTrailingZero(s)}

Id == Issue \cup {None}
Handler == [pc : PCs, issue : Id, status : Status \cup {None}, aboveId : Id, belowId : Id,
            above : Bound, below : Bound, rank : AnyRank, number : Nat]

Creating == {"readLast", "insert"}

\* Handlers hold what they have read; the writers know their target column.
HandlersOK ==
  /\ req \in [Req -> Handler]
  /\ rank \in [Issue -> AnyRank]
  /\ \A r \in Req : req[r].pc \in Creating \cup {"update", "move"} => req[r].status \in Status

Usable(s) == s # Open /\ NoTrailingZero(s)

\* The holder of the project row is about to take the next number, with a rank
\* above every issue of its column that nobody has moved.
CreatorOK ==
  \A r \in Req :
    /\ req[r].pc \in Creating => req[r].number = counter + 1
    /\ req[r].pc = "insert" =>
         /\ Usable(req[r].rank)
         /\ \A i \in issues \ touched : status[i] = req[r].status => Less(rank[i], req[r].rank)

\* The inductive invariant.
IInv == /\ TypeOK /\ HandlersOK /\ CreatorOK
        /\ NumbersAreASequence /\ CreatesInOrder /\ RanksUsable
----------------------------------------------------------------------------
LEMMA IdleTyped == Open \in Bound /\ Open \in AnyRank /\ Idle \in Handler /\ Idle.pc = "idle"
<1>1. Open \in AnyRank /\ Open \in Bound
  BY DEF Open, AnyRank, Bound, NoTrailingZero
<1> QED BY <1>1 DEF Idle, Handler, PCs, Id

LEMMA InitInv == Init => IInv
<1> SUFFICES ASSUME Init PROVE IInv
  OBVIOUS
<1> USE DEF Init
<1>1. Open \in AnyRank /\ Idle \in Handler /\ Idle.pc = "idle"
  BY IdleTyped
<1>2. TypeOK
  BY <1>1, NoneAssumption DEF TypeOK, PCs
<1>3. HandlersOK /\ CreatorOK
  BY <1>1 DEF HandlersOK, CreatorOK, Creating
<1>4. NumbersAreASequence
  BY DEF NumbersAreASequence
<1>5. CreatesInOrder /\ RanksUsable
  BY DEF CreatesInOrder, RanksUsable
<1> QED BY <1>2, <1>3, <1>4, <1>5 DEF IInv

\* A step of one handler that leaves every other one as it is.
LEMMA HandlerStep ==
  ASSUME HandlersOK, NEW r \in Req, NEW q \in Handler, req' = [req EXCEPT ![r] = q]
  PROVE  /\ req' \in [Req -> Handler]
         /\ req'[r] = q
         /\ \A x \in Req : x # r => req'[x] = req[x]
BY DEF HandlersOK

LEMMA ReturnStep ==
  ASSUME HandlersOK, NEW r \in Req, Return(r)
  PROVE  /\ req' \in [Req -> Handler]
         /\ req'[r].pc = "idle"
         /\ \A x \in Req : x # r => req'[x] = req[x]
BY IdleTyped, HandlerStep DEF Return

LEMMA CreateLockInv ==
  ASSUME IInv, NEW r \in Req, NEW s \in Status, CreateLock(r, s)
  PROVE  IInv'
<1> DEFINE q == [Idle EXCEPT !.pc = "readLast", !.status = s, !.number = counter + 1]
<1> USE DEF IInv
<1>1. q \in Handler /\ q.pc = "readLast" /\ q.status = s /\ q.number = counter + 1
  <2>1. counter + 1 \in Nat
    BY DEF TypeOK
  <2> QED BY <2>1, IdleTyped DEF Handler, PCs
<1>2. /\ lock = None /\ lock' = r /\ req[r].pc = "idle"
      /\ req' = [req EXCEPT ![r] = q]
      /\ UNCHANGED <<issues, number, status, rank, counter, created, touched>>
  BY DEF CreateLock, rows, history
<1> HIDE DEF q
<1>3. /\ req' \in [Req -> Handler] /\ req'[r] = q
      /\ \A x \in Req : x # r => req'[x] = req[x]
  BY <1>1, <1>2, HandlerStep
<1>4. TypeOK'
  <2>1. \A x \in Req : x # r => req[x].pc \notin {"readLast", "insert"}
    BY <1>2, NoneAssumption DEF TypeOK
  <2>2. \A x \in Req : req'[x].pc \in PCs /\ (req'[x].pc \in {"readLast", "insert"} <=> lock' = x)
    BY <1>1, <1>2, <1>3, <2>1 DEF TypeOK, PCs
  <2> QED BY <1>2, <2>2 DEF TypeOK
<1>5. HandlersOK'
  BY <1>1, <1>2, <1>3 DEF HandlersOK
<1>6. CreatorOK'
  BY <1>1, <1>2, <1>3 DEF CreatorOK, Creating, Usable
<1>7. (NumbersAreASequence /\ CreatesInOrder /\ RanksUsable)'
  BY <1>2 DEF NumbersAreASequence, CreatesInOrder, RanksUsable
<1> QED BY <1>4, <1>5, <1>6, <1>7

LEMMA CreateReadLastInv ==
  ASSUME IInv, NEW r \in Req, CreateReadLast(r)
  PROVE  IInv'
<1> USE DEF IInv
<1> DEFINE s == req[r].status
           Nexts == IF Column(s) = {} THEN {FirstRank}
                    ELSE {RankBetween(last, Open) : last \in LastRanks(s)}
<1>1. PICK next \in Nexts : req' = [req EXCEPT ![r].pc = "insert", ![r].rank = next]
  BY DEF CreateReadLast
<1>2. /\ req[r].pc = "readLast" /\ s \in Status
      /\ UNCHANGED <<issues, number, status, rank, counter, lock, created, touched>>
  BY DEF CreateReadLast, rows, history, HandlersOK, Creating
<1>3. \A i \in Column(s) : rank[i] \in AnyRank
  BY DEF Column, TypeOK, HandlersOK
<1>4. next \in AnyRank /\ Usable(next) /\ \A i \in Column(s) : Less(rank[i], next)
  <2>1. CASE Column(s) = {}
    BY <2>1, FirstRankUsable DEF Usable
  <2>2. CASE Column(s) # {}
    <3>1. PICK k \in Column(s) : /\ next = RankBetween(rank[k], Open)
                                 /\ \A j \in Column(s) : ~Less(rank[k], rank[j])
      BY <2>2 DEF LastRanks
    <3>2. /\ next \in AnyRank /\ Usable(next) /\ Less(rank[k], next)
      BY <1>3, <3>1, BetweenAbove, IdleTyped DEF Usable
    <3>3. ASSUME NEW j \in Column(s) PROVE Less(rank[j], next)
      <4>1. rank[j] = rank[k] \/ Less(rank[j], rank[k])
        BY <1>3, <3>1, LessTotal
      <4> QED BY <1>3, <3>2, <4>1, LessTransitive
    <3> QED BY <3>2, <3>3
  <2> QED BY <2>1, <2>2
<1> DEFINE q == [req[r] EXCEPT !.pc = "insert", !.rank = next]
<1>5. /\ q \in Handler /\ q.pc = "insert" /\ q.rank = next
      /\ q.status = s /\ q.number = req[r].number
  BY <1>4 DEF HandlersOK, Handler, PCs
<1>6. req' = [req EXCEPT ![r] = q]
  BY <1>1 DEF HandlersOK
<1> HIDE DEF q, Nexts
<1>7. /\ req' \in [Req -> Handler] /\ req'[r] = q
      /\ \A x \in Req : x # r => req'[x] = req[x]
  BY <1>5, <1>6, HandlerStep
<1>8. TypeOK'
  <2>1. \A x \in Req : req'[x].pc \in PCs /\ (req'[x].pc \in {"readLast", "insert"} <=> lock' = x)
    BY <1>2, <1>5, <1>7 DEF TypeOK, PCs
  <2> QED BY <1>2, <2>1 DEF TypeOK
<1>9. HandlersOK'
  BY <1>2, <1>5, <1>7 DEF HandlersOK
<1>10. CreatorOK'
  <2>1. \A i \in issues : status[i] = s => Less(rank[i], next)
    BY <1>4 DEF Column
  <2>2. req[r].number = counter + 1
    BY <1>2 DEF CreatorOK, Creating
  <2> QED BY <1>2, <1>4, <1>5, <1>7, <2>1, <2>2 DEF CreatorOK
<1>11. (NumbersAreASequence /\ CreatesInOrder /\ RanksUsable)'
  BY <1>2 DEF NumbersAreASequence, CreatesInOrder, RanksUsable
<1> QED BY <1>8, <1>9, <1>10, <1>11

LEMMA CreateCommitInv ==
  ASSUME IInv, NEW r \in Req, NEW i \in Issue, CreateCommit(r, i)
  PROVE  IInv'
<1> USE DEF IInv
<1> DEFINE q == req[r]
<1>1. /\ q.pc = "insert" /\ i \notin created
      /\ counter' = q.number /\ lock' = None
      /\ issues' = issues \cup {i}
      /\ number' = [number EXCEPT ![i] = q.number]
      /\ status' = [status EXCEPT ![i] = q.status]
      /\ rank' = [rank EXCEPT ![i] = q.rank]
      /\ created' = created \cup {i}
      /\ touched' = touched
      /\ Return(r)
  BY DEF CreateCommit
<1>2. /\ q \in Handler /\ q.status \in Status /\ q.number = counter + 1 /\ lock = r
      /\ Usable(q.rank)
      /\ \A j \in issues \ touched : status[j] = q.status => Less(rank[j], q.rank)
  BY <1>1 DEF HandlersOK, CreatorOK, Creating, TypeOK
<1>3. /\ req' \in [Req -> Handler] /\ req'[r].pc = "idle"
      /\ \A x \in Req : x # r => req'[x] = req[x] /\ req'[x].pc \notin Creating
  <2>1. \A x \in Req : x # r => req[x].pc \notin Creating
    BY <1>2 DEF TypeOK, Creating
  <2> QED BY <1>1, <2>1, ReturnStep
<1>4. /\ q.status \in Status \cup {None} /\ q.rank \in AnyRank /\ q.number \in Nat
      /\ counter \in Nat /\ issues \subseteq created /\ touched \subseteq issues
  BY <1>2 DEF Handler, TypeOK
<1> HIDE DEF q
<1>5. TypeOK'
  <2>1. \A x \in Req : req'[x].pc \in PCs /\ (req'[x].pc \in {"readLast", "insert"} <=> lock' = x)
    BY <1>1, <1>3, NoneAssumption DEF TypeOK, PCs, Creating
  <2>2. \A j \in issues' : status'[j] \in Status /\ rank'[j] \in Seq(Digit)
    BY <1>1, <1>2, <1>4 DEF TypeOK, HandlersOK, AnyRank
  <2> QED BY <1>1, <1>4, <2>1, <2>2 DEF TypeOK
<1>6. HandlersOK'
  BY <1>1, <1>3, <1>4 DEF HandlersOK, Creating
<1>7. CreatorOK'
  BY <1>3 DEF CreatorOK, Creating
<1>8. number'[i] = counter + 1 /\ \A j \in created : number'[j] = number[j] /\ j # i
  BY <1>1, <1>2, <1>4 DEF TypeOK
<1>9. NumbersAreASequence'
  <2>1. \A j \in created : number[j] \in 1..counter
    BY DEF NumbersAreASequence
  <2>2. \A j, k \in created' : number'[j] = number'[k] => j = k
    BY <1>1, <1>4, <1>8, <2>1 DEF NumbersAreASequence
  <2>3. {number'[j] : j \in created'} = {number[j] : j \in created} \cup {counter + 1}
    BY <1>1, <1>8
  <2>4. 1..counter' = 1..counter \cup {counter + 1}
    BY <1>1, <1>2, <1>4
  <2> QED BY <2>2, <2>3, <2>4 DEF NumbersAreASequence
<1>10. CreatesInOrder'
  <2> SUFFICES ASSUME NEW j \in issues' \ touched', NEW k \in issues' \ touched',
                      status'[j] = status'[k], number'[j] < number'[k]
               PROVE  Less(rank'[j], rank'[k])
    BY DEF CreatesInOrder
  <2>1. \A x \in issues : /\ x # i /\ number'[x] = number[x] /\ number[x] \in 1..counter
                          /\ status'[x] = status[x] /\ rank'[x] = rank[x]
    BY <1>1, <1>4, <1>8 DEF TypeOK, HandlersOK, NumbersAreASequence
  <2>2. status'[i] = q.status /\ rank'[i] = q.rank
    BY <1>1, <1>4 DEF TypeOK, HandlersOK
  <2>3. j # i
    BY <1>1, <1>4, <1>8, <2>1
  <2>4. CASE k = i
    BY <1>1, <1>2, <2>1, <2>2, <2>3, <2>4
  <2>5. CASE k # i
    BY <1>1, <2>1, <2>3, <2>5 DEF CreatesInOrder
  <2> QED BY <2>4, <2>5
<1>11. RanksUsable'
  BY <1>1, <1>2, <1>4 DEF RanksUsable, Usable, HandlersOK
<1> QED BY <1>5, <1>6, <1>7, <1>9, <1>10, <1>11

LEMMA BeginInv ==
  ASSUME IInv, NEW r \in Req, NEW i \in Issue, NEW label \in {"update", "move", "remove"},
         NEW s \in Status \cup {None}, label # "remove" => s \in Status,
         NEW above \in Id, NEW below \in Id, Begin(r, i, label, s, above, below)
  PROVE  IInv'
<1> USE DEF IInv
<1> DEFINE q == [Idle EXCEPT !.pc = label, !.issue = i, !.status = s,
                             !.aboveId = above, !.belowId = below]
<1>1. q \in Handler /\ q.pc = label /\ q.status = s
  BY IdleTyped DEF Handler, PCs, Id
<1>2. /\ req[r].pc = "idle"
      /\ req' = [req EXCEPT ![r] = q]
      /\ UNCHANGED <<issues, number, status, rank, counter, lock, created, touched>>
  BY DEF Begin, rows, history
<1> HIDE DEF q
<1>3. /\ req' \in [Req -> Handler] /\ req'[r] = q
      /\ \A x \in Req : x # r => req'[x] = req[x]
  BY <1>1, <1>2, HandlerStep
<1>4. TypeOK'
  <2>1. \A x \in Req : req'[x].pc \in PCs /\ (req'[x].pc \in {"readLast", "insert"} <=> lock' = x)
    BY <1>1, <1>2, <1>3 DEF TypeOK, PCs
  <2> QED BY <1>2, <2>1 DEF TypeOK
<1>5. HandlersOK'
  BY <1>1, <1>2, <1>3 DEF HandlersOK, Creating
<1>6. CreatorOK'
  BY <1>1, <1>2, <1>3 DEF CreatorOK, Creating
<1>7. (NumbersAreASequence /\ CreatesInOrder /\ RanksUsable)'
  BY <1>2 DEF NumbersAreASequence, CreatesInOrder, RanksUsable
<1> QED BY <1>4, <1>5, <1>6, <1>7

\* A handler that holds no lock returns: what remains of the others.
LEMMA ReturnTypes ==
  ASSUME TypeOK, HandlersOK, NEW r \in Req, Return(r), req[r].pc \notin Creating, lock' = lock
  PROVE  /\ req' \in [Req -> Handler] /\ req'[r].pc = "idle"
         /\ \A x \in Req : x # r => req'[x] = req[x]
         /\ \A x \in Req : req'[x].pc \in PCs /\ (req'[x].pc \in Creating <=> lock' = x)
<1>1. /\ req' \in [Req -> Handler] /\ req'[r].pc = "idle"
      /\ \A x \in Req : x # r => req'[x] = req[x]
  BY ReturnStep
<1> QED BY <1>1 DEF TypeOK, PCs, Creating

\* update and move: one issue gets a new status, and perhaps a new rank.
LEMMA TouchInv ==
  ASSUME IInv, NEW r \in Req, Return(r), req[r].pc \notin Creating,
         NEW i \in issues, NEW s \in Status, NEW k \in AnyRank, Usable(k),
         status' = [status EXCEPT ![i] = s],
         rank' = [rank EXCEPT ![i] = k],
         touched' = touched \cup {i},
         UNCHANGED <<issues, number, counter, lock, created>>
  PROVE  IInv'
<1> USE DEF IInv
<1>1. /\ req' \in [Req -> Handler] /\ req'[r].pc = "idle"
      /\ \A x \in Req : x # r => req'[x] = req[x]
      /\ \A x \in Req : req'[x].pc \in PCs /\ (req'[x].pc \in Creating <=> lock' = x)
  BY ReturnTypes
<1>2. \A j \in Issue : j # i => status'[j] = status[j] /\ rank'[j] = rank[j]
  BY DEF TypeOK, HandlersOK
<1>3. i \in Issue /\ rank'[i] = k /\ status'[i] = s
  BY DEF TypeOK, HandlersOK
<1>4. TypeOK'
  BY <1>1, <1>2, <1>3 DEF TypeOK, Creating, AnyRank
<1>5. HandlersOK'
  BY <1>1, <1>3 DEF HandlersOK, Creating
<1>6. CreatorOK'
  <2>1. \A j \in issues' \ touched' : j \in issues \ touched /\ j # i /\ j \in Issue
    BY DEF TypeOK
  <2>2. \A x \in Req : req'[x].pc \in Creating => req'[x] = req[x]
    BY <1>1 DEF Creating
  <2>3. "insert" \in Creating
    BY DEF Creating
  <2> QED BY <1>2, <2>1, <2>2, <2>3 DEF CreatorOK
<1>7. NumbersAreASequence'
  BY DEF NumbersAreASequence
<1>8. CreatesInOrder'
  <2>1. \A j \in issues' \ touched' : j \in issues \ touched /\ j # i /\ j \in Issue
    BY DEF TypeOK
  <2> QED BY <1>2, <2>1 DEF CreatesInOrder
<1>9. RanksUsable'
  BY <1>2, <1>3 DEF RanksUsable, Usable, TypeOK
<1> QED BY <1>4, <1>5, <1>6, <1>7, <1>8, <1>9

LEMMA UpdateWriteInv ==
  ASSUME IInv, NEW r \in Req, UpdateWrite(r)
  PROVE  IInv'
<1> DEFINE i == req[r].issue
<1>1. /\ i \in issues /\ req[r].status \in Status /\ rank[i] \in AnyRank /\ Usable(rank[i])
  BY DEF IInv, UpdateWrite, HandlersOK, RanksUsable, Usable, TypeOK
<1>2. rank' = [rank EXCEPT ![i] = rank[i]]
  BY DEF UpdateWrite, IInv, HandlersOK
<1> QED BY <1>1, <1>2, TouchInv DEF UpdateWrite, Creating

LEMMA MoveWriteInv ==
  ASSUME IInv, NEW r \in Req, MoveWrite(r)
  PROVE  IInv'
<1> DEFINE q == req[r]
           between == RankBetween(q.above, q.below)
<1>1. q.issue \in issues /\ q.status \in Status /\ q.above \in AnyRank /\ q.below \in AnyRank
  BY DEF IInv, MoveWrite, HandlersOK, Handler, Bound
<1>2. between \in AnyRank /\ Usable(between)
  BY <1>1, BetweenAbove DEF Usable
<1>3. /\ q.pc = "move" /\ Return(r)
      /\ status' = [status EXCEPT ![q.issue] = q.status]
      /\ rank' = [rank EXCEPT ![q.issue] = between]
      /\ touched' = touched \cup {q.issue}
      /\ UNCHANGED <<issues, number, counter, lock, created>>
  BY DEF MoveWrite
<1> HIDE DEF between
<1> QED BY <1>1, <1>2, <1>3, TouchInv DEF Creating

LEMMA RemoveWriteInv ==
  ASSUME IInv, NEW r \in Req, RemoveWrite(r)
  PROVE  IInv'
<1> USE DEF IInv
<1> DEFINE i == req[r].issue
<1>1. /\ req[r].pc \notin Creating /\ i \in issues /\ i \in Issue
      /\ issues' = issues \ {i}
      /\ status' = [status EXCEPT ![i] = None]
      /\ rank' = [rank EXCEPT ![i] = Open]
      /\ touched' = touched \ {i}
      /\ Return(r)
      /\ UNCHANGED <<number, counter, lock, created>>
  BY DEF RemoveWrite, Creating, TypeOK
<1> HIDE DEF i
<1>2. /\ req' \in [Req -> Handler] /\ req'[r].pc = "idle"
      /\ \A x \in Req : x # r => req'[x] = req[x]
      /\ \A x \in Req : req'[x].pc \in PCs /\ (req'[x].pc \in Creating <=> lock' = x)
  BY <1>1, ReturnTypes
<1>3. \A j \in issues' : /\ j \in issues /\ j \in Issue
                         /\ status'[j] = status[j] /\ rank'[j] = rank[j]
  BY <1>1 DEF TypeOK, HandlersOK
<1>4. TypeOK'
  <2>1. status' \in [Issue -> Status \cup {None}]
    BY <1>1 DEF TypeOK
  <2> QED BY <1>1, <1>2, <1>3, <2>1 DEF TypeOK, Creating
<1>5. HandlersOK'
  BY <1>1, <1>2, IdleTyped DEF HandlersOK, Creating
<1>6. CreatorOK'
  <2>1. \A x \in Req : req'[x].pc \in Creating => req'[x] = req[x]
    BY <1>2 DEF Creating
  <2>2. \A j \in issues' \ touched' : j \in issues \ touched
    BY <1>1
  <2>3. "insert" \in Creating
    BY DEF Creating
  <2> QED BY <1>1, <1>3, <2>1, <2>2, <2>3 DEF CreatorOK
<1>7. NumbersAreASequence'
  BY <1>1 DEF NumbersAreASequence
<1>8. CreatesInOrder'
  <2>1. \A j \in issues' \ touched' : j \in issues \ touched
    BY <1>1
  <2> QED BY <1>1, <1>3, <2>1 DEF CreatesInOrder
<1>9. RanksUsable'
  BY <1>3 DEF RanksUsable
<1> QED BY <1>4, <1>5, <1>6, <1>7, <1>8, <1>9

\* move reads a neighbour: only the handler's own record changes.
LEMMA ReadInv ==
  ASSUME IInv, NEW r \in Req, NEW q \in Handler, req' = [req EXCEPT ![r] = q],
         req[r].pc = "move", q.pc = "move", q.status = req[r].status,
         UNCHANGED <<rows, counter, lock, history>>
  PROVE  IInv'
<1> USE DEF IInv
<1>1. UNCHANGED <<issues, number, status, rank, counter, lock, created, touched>>
  BY DEF rows, history
<1>2. /\ req' \in [Req -> Handler] /\ req'[r] = q
      /\ \A x \in Req : x # r => req'[x] = req[x]
  BY HandlerStep
<1>3. TypeOK'
  <2>1. \A x \in Req : req'[x].pc \in PCs /\ (req'[x].pc \in {"readLast", "insert"} <=> lock' = x)
    BY <1>1, <1>2 DEF TypeOK, PCs
  <2> QED BY <1>1, <2>1 DEF TypeOK
<1>4. HandlersOK'
  BY <1>1, <1>2 DEF HandlersOK, Creating
<1>5. CreatorOK'
  BY <1>1, <1>2 DEF CreatorOK, Creating
<1>6. (NumbersAreASequence /\ CreatesInOrder /\ RanksUsable)'
  BY <1>1 DEF NumbersAreASequence, CreatesInOrder, RanksUsable
<1> QED BY <1>3, <1>4, <1>5, <1>6

LEMMA NeighbourRankTyped ==
  ASSUME HandlersOK, TypeOK, RanksUsable, NEW i \in Id, NEW s \in Status
  PROVE  NeighbourRank(i, s) \in Bound
BY IdleTyped DEF NeighbourRank, Column, HandlersOK, TypeOK, RanksUsable, Bound

LEMMA ReadAboveInv ==
  ASSUME IInv, NEW r \in Req, ReadAbove(r)
  PROVE  IInv'
<1> DEFINE k == NeighbourRank(req[r].aboveId, req[r].status)
           q == [req[r] EXCEPT !.aboveId = None, !.above = k]
<1>1. req[r] \in Handler /\ req[r].pc = "move" /\ req[r].status \in Status
  BY DEF IInv, HandlersOK, ReadAbove
<1>2. k \in Bound
  BY <1>1, NeighbourRankTyped DEF IInv, Handler
<1>3. req' = [req EXCEPT ![r] = q]
  BY DEF ReadAbove, IInv, HandlersOK
<1> HIDE DEF k
<1>4. q \in Handler /\ q.pc = "move" /\ q.status = req[r].status
  BY <1>1, <1>2 DEF Handler, Id
<1> HIDE DEF q
<1> QED BY <1>1, <1>3, <1>4, ReadInv DEF ReadAbove

LEMMA ReadBelowInv ==
  ASSUME IInv, NEW r \in Req, ReadBelow(r)
  PROVE  IInv'
<1> DEFINE k == NeighbourRank(req[r].belowId, req[r].status)
           q == [req[r] EXCEPT !.belowId = None, !.below = k]
<1>1. req[r] \in Handler /\ req[r].pc = "move" /\ req[r].status \in Status
  BY DEF IInv, HandlersOK, ReadBelow
<1>2. k \in Bound
  BY <1>1, NeighbourRankTyped DEF IInv, Handler
<1>3. req' = [req EXCEPT ![r] = q]
  BY DEF ReadBelow, IInv, HandlersOK
<1> HIDE DEF k
<1>4. q \in Handler /\ q.pc = "move" /\ q.status = req[r].status
  BY <1>1, <1>2 DEF Handler, Id
<1> HIDE DEF q
<1> QED BY <1>1, <1>3, <1>4, ReadInv DEF ReadBelow

LEMMA FailInv ==
  ASSUME IInv, NEW r \in Req, Fail(r)
  PROVE  IInv'
<1> USE DEF IInv
<1>1. /\ lock' = IF lock = r THEN None ELSE lock
      /\ UNCHANGED <<issues, number, status, rank, counter, created, touched>>
      /\ req' \in [Req -> Handler] /\ req'[r].pc = "idle"
      /\ \A x \in Req : x # r => req'[x] = req[x]
  BY ReturnStep DEF Fail, rows, history
<1>2. TypeOK'
  <2>1. \A x \in Req : req'[x].pc \in PCs /\ (req'[x].pc \in {"readLast", "insert"} <=> lock' = x)
    BY <1>1, NoneAssumption DEF TypeOK, PCs
  <2> QED BY <1>1, <2>1 DEF TypeOK
<1>3. HandlersOK'
  BY <1>1 DEF HandlersOK, Creating
<1>4. CreatorOK'
  BY <1>1 DEF CreatorOK, Creating
<1>5. (NumbersAreASequence /\ CreatesInOrder /\ RanksUsable)'
  BY <1>1 DEF NumbersAreASequence, CreatesInOrder, RanksUsable
<1> QED BY <1>2, <1>3, <1>4, <1>5

LEMMA NextInv == IInv /\ [Next]_vars => IInv'
<1> SUFFICES ASSUME IInv, [Next]_vars PROVE IInv'
  OBVIOUS
<1>1. ASSUME NEW r \in Req, NEW s \in Status, CreateLock(r, s) PROVE IInv'
  BY <1>1, CreateLockInv
<1>2. ASSUME NEW r \in Req, CreateReadLast(r) PROVE IInv'
  BY <1>2, CreateReadLastInv
<1>3. ASSUME NEW r \in Req, NEW i \in Issue, CreateCommit(r, i) PROVE IInv'
  BY <1>3, CreateCommitInv
<1>4. ASSUME NEW r \in Req, NEW i \in Issue, NEW s \in Status, UpdateRead(r, i, s) PROVE IInv'
  BY <1>4, BeginInv DEF UpdateRead, Id
<1>5. ASSUME NEW r \in Req, UpdateWrite(r) PROVE IInv'
  BY <1>5, UpdateWriteInv
<1>6. ASSUME NEW r \in Req, NEW i \in Issue, NEW s \in Status,
             NEW above \in created \cup {None}, NEW below \in created \cup {None},
             MoveRead(r, i, s, above, below)
      PROVE  IInv'
  <2>1. above \in Id /\ below \in Id
    BY DEF IInv, TypeOK, Id
  <2> QED BY <1>6, <2>1, BeginInv DEF MoveRead
<1>7. ASSUME NEW r \in Req, ReadAbove(r) \/ ReadBelow(r) PROVE IInv'
  BY <1>7, ReadAboveInv, ReadBelowInv
<1>8. ASSUME NEW r \in Req, MoveWrite(r) PROVE IInv'
  BY <1>8, MoveWriteInv
<1>9. ASSUME NEW r \in Req, NEW i \in Issue, RemoveRead(r, i) PROVE IInv'
  BY <1>9, BeginInv DEF RemoveRead, Id
<1>10. ASSUME NEW r \in Req, RemoveWrite(r) PROVE IInv'
  BY <1>10, RemoveWriteInv
<1>11. ASSUME NEW r \in Req, Fail(r) PROVE IInv'
  BY <1>11, FailInv
<1>12. CASE UNCHANGED vars
  <2>1. UNCHANGED <<issues, number, status, rank, counter, lock, req, created, touched>>
    BY <1>12 DEF vars, rows, history
  <2> QED BY <2>1 DEF IInv, TypeOK, HandlersOK, CreatorOK, NumbersAreASequence,
                      CreatesInOrder, RanksUsable
<1> QED BY <1>1, <1>2, <1>3, <1>4, <1>5, <1>6, <1>7, <1>8, <1>9, <1>10, <1>11, <1>12 DEF Next
----------------------------------------------------------------------------
\* Every reachable state of IssuesService satisfies the inductive invariant.
THEOREM Invariance == Spec => []IInv
BY InitInv, NextInv, PTL DEF Spec

\* The project row has at most one holder, a create between its first statement
\* and its commit; committed rows have a column and a rank.
THEOREM TypeCorrect == Spec => []TypeOK
BY Invariance, PTL DEF IInv

\* issueCounter numbers the issues ever created without gap or reuse, for any
\* number of concurrent, failing or rolled-back requests.
THEOREM Numbering == Spec => []NumbersAreASequence
BY Invariance, PTL DEF IInv

\* Issues of a column that nobody moved stand in the order of their numbers.
THEOREM CreationOrder == Spec => []CreatesInOrder
BY Invariance, PTL DEF IInv

\* No chain of creates and moves stores a rank that rankBetween cannot take as
\* an upper bound.
THEOREM Usability == Spec => []RanksUsable
BY Invariance, PTL DEF IInv

\* A drop lands strictly between the neighbours move has read, however other
\* requests have changed the column before and after: what is read never ends
\* in '0', and the check rejects bounds out of order.
LEMMA DropBetween ==
  ASSUME IInv, NEW r \in Req, MoveWrite(r)
  PROVE  /\ req[r].above # Open => Less(req[r].above, rank'[req[r].issue])
         /\ req[r].below # Open => Less(rank'[req[r].issue], req[r].below)
<1> DEFINE q == req[r]
           between == RankBetween(q.above, q.below)
<1>1. q \in Handler /\ q.issue \in Issue /\ InOrder(q.above, q.below)
  BY DEF IInv, HandlersOK, MoveWrite, TypeOK
<1>2. /\ q.above \in AnyRank /\ q.below \in AnyRank
      /\ NoTrailingZero(q.above) /\ NoTrailingZero(q.below)
  BY <1>1 DEF Handler, Bound
<1>3. rank'[q.issue] = between
  BY <1>1 DEF MoveWrite, IInv, HandlersOK
<1> HIDE DEF q
<1>4. Less(q.above, between)
  BY <1>2, BetweenAbove
<1>5. q.below # Open => Less(between, q.below)
  BY <1>1, <1>2, BetweenBelow DEF InOrder
<1> QED BY <1>3, <1>4, <1>5 DEF q

THEOREM Dropping == Spec => DropsLandBetween
<1>1. IInv => [\A r \in Req : MoveWrite(r) => LandsBetween(r)]_vars
  BY DropBetween DEF LandsBetween
<1> QED BY <1>1, Invariance, PTL DEF DropsLandBetween
=============================================================================
