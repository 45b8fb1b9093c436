--------------------------- MODULE PresenceProofs --------------------------
(***************************************************************************)
(* Proofs about Presence for any number of sockets, users and projects.    *)
(***************************************************************************)
EXTENDS Presence, FiniteSetTheorems, TLAPS

\* What holds of a socket that never raced: it waits for one join at most, of a
\* room it is not in, and once closed has left its rooms.
Calm(s) ==
  /\ conn[s] # "open" => ~Busy(s) /\ rooms[s] = {}
  /\ Busy(s) => s \in known
  /\ \A p, q \in Project : joining[s][p] > 0 /\ joining[s][q] > 0 => p = q
  /\ \A p \in Project : joining[s][p] > 0 => joining[s][p] = 1 /\ p \notin rooms[s]

CalmSockets == \A s \in Socket \ raced : Calm(s)

\* A user none of whose sockets raced is counted exactly.
ExactCount ==
  \A p \in Project, u \in User :
     (\A s \in raced : UserOf[s] # u) => roster[p][u] = Cardinality(Present(p, u))

\* The inductive invariant.
IInv == TypeOK /\ NobodyHidden /\ CalmSockets /\ ExactCount
----------------------------------------------------------------------------
LEMMA PresentFinite ==
  ASSUME NEW p, NEW u
  PROVE  IsFiniteSet(Present(p, u)) /\ Cardinality(Present(p, u)) \in Nat
<1>1. Present(p, u) \subseteq Socket
  BY DEF Present
<1> QED BY <1>1, SocketAssumption, FS_Subset, FS_CardinalityType

\* Leaving rooms the socket is in takes one from each count it was part of.
LEMMA LeaveRoomsCounts ==
  ASSUME TypeOK, NEW s \in Socket, NEW ps \in SUBSET rooms[s], LeaveRooms(s, ps),
         NEW p \in Project, NEW u \in User
  PROVE  /\ roster[p][u] >= Cardinality(Present(p, u)) => roster'[p][u] >= Cardinality(Present(p, u)')
         /\ roster[p][u] = Cardinality(Present(p, u)) => roster'[p][u] = Cardinality(Present(p, u)')
<1>1. /\ rooms' = [rooms EXCEPT ![s] = @ \ ps]
      /\ roster'[p] = IF p \in ps /\ roster[p][UserOf[s]] > 0
                        THEN [roster[p] EXCEPT ![UserOf[s]] = @ - 1] ELSE roster[p]
  BY DEF LeaveRooms
<1>2. roster[p] \in [User -> Nat] /\ UserOf[s] \in User /\ rooms \in [Socket -> SUBSET Project]
  BY UserOfAssumption DEF TypeOK
<1>3. Cardinality(Present(p, u)) \in Nat
  BY PresentFinite
<1>4. CASE p \in ps /\ UserOf[s] = u
  <2>1. s \in Present(p, u) /\ Present(p, u)' = Present(p, u) \ {s}
    BY <1>1, <1>2, <1>4 DEF Present
  <2>2. Cardinality(Present(p, u)') = Cardinality(Present(p, u)) - 1
    BY <2>1, PresentFinite, FS_RemoveElement
  <2>3. Cardinality(Present(p, u)) # 0
    BY <2>1, PresentFinite, FS_EmptySet
  <2>4. roster[p][u] > 0 => roster'[p][u] = roster[p][u] - 1
    BY <1>1, <1>2, <1>4
  <2> QED BY <1>2, <1>3, <2>2, <2>3, <2>4
<1>5. CASE ~(p \in ps /\ UserOf[s] = u)
  <2>1. Present(p, u)' = Present(p, u)
    BY <1>1, <1>2, <1>5 DEF Present
  <2>2. roster'[p][u] = roster[p][u]
    BY <1>1, <1>2, <1>5
  <2> QED BY <2>1, <2>2
<1> QED BY <1>4, <1>5

\* Joining a room counts the socket, once more if it was in the room.
LEMMA JoinCounts ==
  ASSUME TypeOK, NEW s \in Socket, NEW q \in Project,
         rooms' = [rooms EXCEPT ![s] = @ \cup {q}],
         roster' = [roster EXCEPT ![q][UserOf[s]] = @ + 1],
         NEW p \in Project, NEW u \in User
  PROVE  /\ roster[p][u] >= Cardinality(Present(p, u)) => roster'[p][u] >= Cardinality(Present(p, u)')
         /\ (UserOf[s] = u => q \notin rooms[s]) /\ roster[p][u] = Cardinality(Present(p, u))
              => roster'[p][u] = Cardinality(Present(p, u)')
<1>1. roster \in [Project -> [User -> Nat]] /\ UserOf[s] \in User /\ rooms \in [Socket -> SUBSET Project]
  BY UserOfAssumption DEF TypeOK
<1>2. Cardinality(Present(p, u)) \in Nat
  BY PresentFinite
<1>3. CASE p = q /\ UserOf[s] = u
  <2>1. roster'[p][u] = roster[p][u] + 1
    BY <1>1, <1>3
  <2>2. Present(p, u)' = Present(p, u) \cup {s}
    BY <1>1, <1>3 DEF Present
  <2>3. /\ s \in Present(p, u) => Cardinality(Present(p, u)') = Cardinality(Present(p, u))
        /\ s \notin Present(p, u) => Cardinality(Present(p, u)') = Cardinality(Present(p, u)) + 1
    BY <2>2, PresentFinite, FS_AddElement
  <2>4. q \notin rooms[s] => s \notin Present(p, u)
    BY <1>3 DEF Present
  <2> QED BY <1>1, <1>2, <2>1, <2>3, <2>4
<1>4. CASE ~(p = q /\ UserOf[s] = u)
  <2>1. Present(p, u)' = Present(p, u)
    BY <1>1, <1>4 DEF Present
  <2>2. roster'[p][u] = roster[p][u]
    BY <1>1, <1>4
  <2> QED BY <2>1, <2>2
<1> QED BY <1>3, <1>4
----------------------------------------------------------------------------
Counts == NobodyHidden /\ ExactCount

LEMMA CountsKept ==
  ASSUME Counts, rooms' = rooms, roster' = roster, raced \subseteq raced'
  PROVE  Counts'
BY DEF Counts, NobodyHidden, ExactCount, Present

LEMMA CountsLeave ==
  ASSUME TypeOK, Counts, NEW s \in Socket, NEW ps \in SUBSET rooms[s], LeaveRooms(s, ps),
         raced \subseteq raced'
  PROVE  Counts'
<1>1. ASSUME NEW p \in Project, NEW u \in User
      PROVE  /\ roster'[p][u] >= Cardinality(Present(p, u)')
             /\ roster[p][u] = Cardinality(Present(p, u)) => roster'[p][u] = Cardinality(Present(p, u)')
  BY LeaveRoomsCounts DEF Counts, NobodyHidden
<1>2. NobodyHidden'
  BY <1>1 DEF NobodyHidden
<1>3. ExactCount'
  <2> SUFFICES ASSUME NEW p \in Project, NEW u \in User, \A x \in raced' : UserOf[x] # u
               PROVE  roster'[p][u] = Cardinality(Present(p, u)')
    BY DEF ExactCount
  <2> QED BY <1>1 DEF Counts, ExactCount
<1> QED BY <1>2, <1>3 DEF Counts

LEMMA LeaveRoomsTypes ==
  ASSUME TypeOK, NEW s \in Socket, NEW ps \in SUBSET rooms[s], LeaveRooms(s, ps)
  PROVE  /\ rooms' \in [Socket -> SUBSET Project]
         /\ roster' \in [Project -> [User -> Nat]]
         /\ rooms'[s] = rooms[s] \ ps
         /\ \A x \in Socket : x # s => rooms'[x] = rooms[x]
<1>1. rooms \in [Socket -> SUBSET Project] /\ roster \in [Project -> [User -> Nat]] /\ UserOf[s] \in User
  BY UserOfAssumption DEF TypeOK
<1>2. rooms' = [rooms EXCEPT ![s] = @ \ ps]
  BY DEF LeaveRooms
<1>3. roster' \in [Project -> [User -> Nat]]
  <2>1. ASSUME NEW p \in Project, roster[p][UserOf[s]] > 0
        PROVE  [roster[p] EXCEPT ![UserOf[s]] = @ - 1] \in [User -> Nat]
    BY <1>1, <2>1
  <2>2. \A p \in Project : roster[p] \in [User -> Nat]
    BY <1>1
  <2> QED BY <2>1, <2>2 DEF LeaveRooms
<1> QED BY <1>1, <1>2, <1>3

\* A socket sends something, or closes: it stays calm only if it was not busy.
LEMMA RaceStep ==
  ASSUME TypeOK, NEW s \in Socket, NEW cond, Race(s, cond)
  PROVE  /\ raced \subseteq raced' /\ raced' \subseteq Socket
         /\ \A x \in Socket \ raced' : x \notin raced
         /\ s \notin raced' => ~cond
BY DEF Race, TypeOK

LEMMA InitInv == Init => IInv
<1> SUFFICES ASSUME Init PROVE IInv
  OBVIOUS
<1>1. TypeOK
  BY MaxJoinsAssumption DEF Init, TypeOK
<1>2. \A p, u : Present(p, u) = {}
  BY DEF Init, Present
<1>3. \A p \in Project, u \in User : roster[p][u] = Cardinality(Present(p, u))
  BY <1>2, FS_EmptySet DEF Init
<1>4. NobodyHidden /\ ExactCount
  BY <1>3, PresentFinite DEF NobodyHidden, ExactCount
<1>5. CalmSockets
  BY DEF Init, CalmSockets, Calm, Busy
<1> QED BY <1>1, <1>4, <1>5 DEF IInv

LEMMA CloseInv ==
  ASSUME IInv, NEW s \in Socket, Close(s), UNCHANGED <<known, joining, joins>>,
         shaking' \subseteq shaking
  PROVE  IInv'
<1>1. /\ conn' = [conn EXCEPT ![s] = "closed"]
      /\ inRoom' = [inRoom EXCEPT ![s] = {}]
      /\ LeaveRooms(s, rooms[s]) /\ Race(s, Busy(s))
  BY DEF Close
<1>2. TypeOK /\ Counts /\ CalmSockets
  BY DEF IInv, Counts
<1>3. /\ rooms' \in [Socket -> SUBSET Project] /\ roster' \in [Project -> [User -> Nat]]
      /\ rooms'[s] = {} /\ \A x \in Socket : x # s => rooms'[x] = rooms[x]
  BY <1>1, <1>2, LeaveRoomsTypes
<1>4. /\ raced \subseteq raced' /\ raced' \subseteq Socket
      /\ \A x \in Socket \ raced' : x \notin raced
      /\ s \notin raced' => ~Busy(s)
  BY <1>1, <1>2, RaceStep
<1>5. TypeOK'
  BY <1>1, <1>2, <1>3, <1>4 DEF TypeOK
<1>6. Counts'
  BY <1>1, <1>2, <1>4, CountsLeave
<1>7. CalmSockets'
  <2> SUFFICES ASSUME NEW x \in Socket, x \notin raced' PROVE Calm(x)'
    BY DEF CalmSockets
  <2>1. Calm(x) /\ (Busy(x)' <=> Busy(x))
    BY <1>2, <1>4 DEF CalmSockets, Busy
  <2>2. CASE x = s
    BY <1>3, <1>4, <2>1, <2>2 DEF Calm
  <2>3. CASE x # s
    BY <1>1, <1>2, <1>3, <2>1, <2>3 DEF Calm, TypeOK
  <2> QED BY <2>2, <2>3
<1> QED BY <1>5, <1>6, <1>7 DEF IInv, Counts

LEMMA LeaveInv ==
  ASSUME IInv, NEW s \in Socket, NEW p \in Project, Leave(s, p)
  PROVE  IInv'
<1> DEFINE ps == rooms[s] \cap {p}
<1>1. /\ inRoom' = [inRoom EXCEPT ![s] = @ \ ps]
      /\ LeaveRooms(s, ps) /\ Race(s, Busy(s))
      /\ UNCHANGED <<conn, shaking, known, joining, joins>>
  BY DEF Leave
<1>2. TypeOK /\ Counts /\ CalmSockets
  BY DEF IInv, Counts
<1>3. /\ rooms' \in [Socket -> SUBSET Project] /\ roster' \in [Project -> [User -> Nat]]
      /\ \A x \in Socket : rooms'[x] \subseteq rooms[x]
  BY <1>1, <1>2, LeaveRoomsTypes
<1>4. /\ raced \subseteq raced' /\ raced' \subseteq Socket
      /\ \A x \in Socket \ raced' : x \notin raced
  BY <1>1, <1>2, RaceStep
<1>5. TypeOK'
  BY <1>1, <1>2, <1>3, <1>4 DEF TypeOK
<1>6. Counts'
  BY <1>1, <1>2, <1>4, CountsLeave
<1>7. CalmSockets'
  <2> SUFFICES ASSUME NEW x \in Socket, x \notin raced' PROVE Calm(x)'
    BY DEF CalmSockets
  <2>1. Calm(x) /\ (Busy(x)' <=> Busy(x))
    BY <1>1, <1>2, <1>4 DEF CalmSockets, Busy
  <2>2. rooms'[x] \subseteq rooms[x] /\ conn' = conn /\ known' = known /\ joining' = joining
    BY <1>1, <1>3
  <2> QED BY <2>1, <2>2 DEF Calm
<1> QED BY <1>5, <1>6, <1>7 DEF IInv, Counts

\* Steps that touch neither rooms nor roster.
LEMMA ConnectInv ==
  ASSUME IInv, NEW s \in Socket, Connect(s) \/ Handshake(s)
  PROVE  IInv'
<1>1. /\ \A x \in Socket : conn'[x] # "open" => conn[x] # "open"
      /\ conn' \in [Socket -> {"new", "open", "closed"}]
      /\ shaking' \subseteq Socket /\ known' \subseteq Socket \ shaking' /\ known \subseteq known'
      /\ \A x \in shaking' \cup known' : conn'[x] # "new"
      /\ UNCHANGED <<joining, inRoom, rooms, roster, joins, raced>>
  <2>1. /\ conn \in [Socket -> {"new", "open", "closed"}]
        /\ shaking \subseteq Socket /\ known \subseteq Socket \ shaking
        /\ \A x \in shaking \cup known : conn[x] # "new"
    BY DEF IInv, TypeOK
  <2>2. CASE Connect(s)
    <3>1. s \notin known
      BY <2>2 DEF IInv, TypeOK, Connect
    <3> QED BY <2>1, <2>2, <3>1 DEF Connect
  <2>3. CASE Handshake(s)
    BY <2>1, <2>3 DEF Handshake
  <2> QED BY <2>2, <2>3
<1>2. TypeOK /\ Counts /\ CalmSockets
  BY DEF IInv, Counts
<1>3. TypeOK'
  BY <1>1, <1>2 DEF TypeOK
<1>4. Counts'
  BY <1>1, <1>2, CountsKept
<1>5. CalmSockets'
  <2> SUFFICES ASSUME NEW x \in Socket, x \notin raced' PROVE Calm(x)'
    BY DEF CalmSockets
  <2>1. Calm(x) /\ (Busy(x)' <=> Busy(x))
    BY <1>1, <1>2 DEF CalmSockets, Busy
  <2> QED BY <1>1, <2>1 DEF Calm
<1> QED BY <1>3, <1>4, <1>5 DEF IInv, Counts

LEMMA JoinInv ==
  ASSUME IInv, NEW s \in Socket, NEW p \in Project, Join(s, p)
  PROVE  IInv'
<1>1. /\ joining' = [joining EXCEPT ![s][p] = @ + 1]
      /\ joins[s] < MaxJoins /\ joins' = [joins EXCEPT ![s] = @ + 1]
      /\ conn[s] = "open"
      /\ Race(s, Busy(s) \/ p \in rooms[s] \/ s \notin known)
      /\ UNCHANGED <<conn, shaking, known, inRoom, rooms, roster>>
  BY DEF Join, Connected
<1>2. TypeOK /\ Counts /\ CalmSockets
  BY DEF IInv, Counts
<1>3. /\ raced \subseteq raced' /\ raced' \subseteq Socket
      /\ \A x \in Socket \ raced' : x \notin raced
      /\ s \notin raced' => ~(Busy(s) \/ p \in rooms[s] \/ s \notin known)
  BY <1>1, <1>2, RaceStep
<1>4. joining \in [Socket -> [Project -> Nat]] /\ joins \in [Socket -> 0..MaxJoins]
  BY <1>2 DEF TypeOK
<1>5. TypeOK'
  <2>1. joins' \in [Socket -> 0..MaxJoins]
    BY <1>1, <1>4, MaxJoinsAssumption
  <2>2. joining' \in [Socket -> [Project -> Nat]]
    BY <1>1, <1>4
  <2> QED BY <1>1, <1>2, <1>3, <2>1, <2>2 DEF TypeOK
<1>6. Counts'
  BY <1>1, <1>2, <1>3, CountsKept
<1>7. CalmSockets'
  <2> SUFFICES ASSUME NEW x \in Socket, x \notin raced' PROVE Calm(x)'
    BY DEF CalmSockets
  <2>1. Calm(x)
    BY <1>2, <1>3 DEF CalmSockets
  <2>2. CASE x = s
    <3>1. ~Busy(s) /\ p \notin rooms[s] /\ s \in known
      BY <1>3, <2>2
    <3>2. \A q \in Project : joining[s][q] = 0
      BY <1>4, <3>1 DEF Busy
    <3>3. joining'[s][p] = 1 /\ \A q \in Project : q # p => joining'[s][q] = 0
      BY <1>1, <1>4, <3>2
    <3> QED BY <1>1, <2>2, <3>1, <3>3 DEF Calm
  <2>3. CASE x # s
    <3>1. joining'[x] = joining[x] /\ (Busy(x)' <=> Busy(x))
      BY <1>1, <1>4, <2>3 DEF Busy
    <3> QED BY <1>1, <2>1, <3>1 DEF Calm
  <2> QED BY <2>2, <2>3
<1> QED BY <1>5, <1>6, <1>7 DEF IInv, Counts

\* One join is answered: what changes in joining.
LEMMA Answered ==
  ASSUME TypeOK, NEW s \in Socket, NEW p \in Project, joining[s][p] > 0,
         joining' = [joining EXCEPT ![s][p] = @ - 1]
  PROVE  /\ joining' \in [Socket -> [Project -> Nat]]
         /\ Calm(s) => ~(Busy(s)') /\ conn[s] = "open" /\ p \notin rooms[s]
         /\ \A x \in Socket : x # s => joining'[x] = joining[x] /\ (Busy(x)' <=> Busy(x))
<1>1. joining \in [Socket -> [Project -> Nat]]
  BY DEF TypeOK
<1>2. joining' \in [Socket -> [Project -> Nat]]
  BY <1>1
<1>3. \A x \in Socket : x # s => joining'[x] = joining[x]
  BY <1>1
<1>4. ASSUME Calm(s) PROVE ~(Busy(s)') /\ conn[s] = "open" /\ p \notin rooms[s]
  <2>1. joining[s][p] = 1 /\ \A q \in Project : q # p => ~(joining[s][q] > 0)
    BY <1>4 DEF Calm
  <2>2. joining'[s][p] = 0 /\ \A q \in Project : ~(joining'[s][q] > 0)
    BY <1>1, <2>1
  <2>3. Busy(s)
    BY DEF Busy
  <2> QED BY <1>4, <2>2, <2>3 DEF Calm, Busy
<1> QED BY <1>2, <1>3, <1>4 DEF Busy

LEMMA JoinFailInv ==
  ASSUME IInv, NEW s \in Socket, NEW p \in Project, JoinFail(s, p)
  PROVE  IInv'
<1>1. /\ joining[s][p] > 0 /\ joining' = [joining EXCEPT ![s][p] = @ - 1]
      /\ UNCHANGED <<conn, shaking, known, inRoom, rooms, roster, joins, raced>>
  BY DEF JoinFail
<1>2. TypeOK /\ Counts /\ CalmSockets
  BY DEF IInv, Counts
<1>3. /\ joining' \in [Socket -> [Project -> Nat]]
      /\ Calm(s) => ~(Busy(s)')
      /\ \A x \in Socket : x # s => joining'[x] = joining[x] /\ (Busy(x)' <=> Busy(x))
  BY <1>1, <1>2, Answered
<1>4. TypeOK'
  BY <1>1, <1>2, <1>3 DEF TypeOK
<1>5. Counts'
  BY <1>1, <1>2, CountsKept
<1>6. CalmSockets'
  <2> SUFFICES ASSUME NEW x \in Socket, x \notin raced' PROVE Calm(x)'
    BY DEF CalmSockets
  <2>1. Calm(x)
    BY <1>1, <1>2 DEF CalmSockets
  <2>2. CASE x = s
    BY <1>1, <1>3, <2>1, <2>2 DEF Calm, Busy
  <2>3. CASE x # s
    BY <1>1, <1>3, <2>1, <2>3 DEF Calm
  <2> QED BY <2>2, <2>3
<1> QED BY <1>4, <1>5, <1>6 DEF IInv, Counts

LEMMA JoinResumeInv ==
  ASSUME IInv, NEW s \in Socket, NEW p \in Project, JoinResume(s, p)
  PROVE  IInv'
<1>1. /\ joining[s][p] > 0 /\ joining' = [joining EXCEPT ![s][p] = @ - 1]
      /\ inRoom' = [inRoom EXCEPT ![s] = @ \cup {p}]
      /\ IF s \in known
           THEN /\ rooms' = [rooms EXCEPT ![s] = @ \cup {p}]
                /\ roster' = [roster EXCEPT ![p][UserOf[s]] = @ + 1]
           ELSE UNCHANGED <<rooms, roster>>
      /\ UNCHANGED <<conn, shaking, known, joins, raced>>
  BY DEF JoinResume
<1>2. TypeOK /\ Counts /\ CalmSockets
  BY DEF IInv, Counts
<1>3. /\ joining' \in [Socket -> [Project -> Nat]]
      /\ Calm(s) => ~(Busy(s)') /\ conn[s] = "open" /\ p \notin rooms[s]
      /\ \A x \in Socket : x # s => joining'[x] = joining[x] /\ (Busy(x)' <=> Busy(x))
  BY <1>1, <1>2, Answered
<1>4. /\ roster \in [Project -> [User -> Nat]] /\ rooms \in [Socket -> SUBSET Project]
      /\ UserOf[s] \in User /\ inRoom \in [Socket -> SUBSET Project]
  BY <1>2, UserOfAssumption DEF TypeOK
<1>5. TypeOK'
  <2>1. /\ roster' \in [Project -> [User -> Nat]] /\ rooms' \in [Socket -> SUBSET Project]
        /\ \A x \in Socket \ known' : rooms'[x] = {}
    <3>1. CASE s \in known
      <4>1. rooms' \in [Socket -> SUBSET Project] /\ \A x \in Socket : x # s => rooms'[x] = rooms[x]
        BY <1>1, <1>4, <3>1
      <4>2. roster' \in [Project -> [User -> Nat]]
        BY <1>1, <1>4, <3>1
      <4> QED BY <1>1, <1>2, <3>1, <4>1, <4>2 DEF TypeOK
    <3>2. CASE s \notin known
      BY <1>1, <1>2, <3>2 DEF TypeOK
    <3> QED BY <3>1, <3>2
  <2>2. inRoom' \in [Socket -> SUBSET Project]
    BY <1>1, <1>4
  <2> QED BY <1>1, <1>2, <1>3, <2>1, <2>2 DEF TypeOK
<1>6. Counts'
  <2>1. CASE s \notin known
    BY <1>1, <1>2, <2>1, CountsKept
  <2>2. CASE s \in known
    <3>1. ASSUME NEW q \in Project, NEW u \in User
          PROVE  /\ roster'[q][u] >= Cardinality(Present(q, u)')
                 /\ (UserOf[s] = u => p \notin rooms[s]) /\ roster[q][u] = Cardinality(Present(q, u))
                      => roster'[q][u] = Cardinality(Present(q, u)')
      BY <1>1, <1>2, <2>2, JoinCounts DEF Counts, NobodyHidden
    <3>2. NobodyHidden'
      BY <3>1 DEF NobodyHidden
    <3>3. ExactCount'
      <4> SUFFICES ASSUME NEW q \in Project, NEW u \in User, \A x \in raced : UserOf[x] # u
                   PROVE  roster'[q][u] = Cardinality(Present(q, u)')
        BY <1>1 DEF ExactCount
      <4>1. UserOf[s] = u => p \notin rooms[s]
        BY <1>2, <1>3 DEF CalmSockets
      <4> QED BY <1>2, <3>1, <4>1 DEF Counts, ExactCount
    <3> QED BY <3>2, <3>3 DEF Counts
  <2> QED BY <2>1, <2>2
<1>7. CalmSockets'
  <2> SUFFICES ASSUME NEW x \in Socket, x \notin raced' PROVE Calm(x)'
    BY DEF CalmSockets
  <2>1. Calm(x)
    BY <1>1, <1>2 DEF CalmSockets
  <2>2. CASE x = s
    <3>1. ~(Busy(s)') /\ conn'[s] = "open"
      BY <1>1, <1>3, <2>1, <2>2
    <3> QED BY <2>2, <3>1 DEF Calm, Busy
  <2>3. CASE x # s
    <3>1. rooms'[x] = rooms[x]
      BY <1>1, <1>4, <2>3
    <3> QED BY <1>1, <1>3, <2>1, <2>3, <3>1 DEF Calm
  <2> QED BY <2>2, <2>3
<1> QED BY <1>5, <1>6, <1>7 DEF IInv, Counts

LEMMA RestartInv == IInv /\ Restart => IInv'
<1> SUFFICES ASSUME IInv, Restart PROVE IInv'
  OBVIOUS
<1>1. TypeOK'
  BY DEF IInv, TypeOK, Restart
<1>2. \A p \in Project, u \in User : Present(p, u)' = {} /\ roster'[p][u] = 0
  BY DEF Restart, Present
<1>3. NobodyHidden' /\ ExactCount'
  <2>1. \A p \in Project, u \in User : Cardinality(Present(p, u)') = 0
    BY <1>2, FS_EmptySet
  <2>2. NobodyHidden'
    BY <1>2, <2>1 DEF NobodyHidden
  <2>3. ExactCount'
    BY <1>2, <2>1 DEF ExactCount
  <2> QED BY <2>2, <2>3
<1>4. CalmSockets'
  BY DEF Restart, CalmSockets, Calm, Busy
<1> QED BY <1>1, <1>3, <1>4 DEF IInv

LEMMA NextInv == IInv /\ [Next]_vars => IInv'
<1> SUFFICES ASSUME IInv, [Next]_vars PROVE IInv'
  OBVIOUS
<1>1. ASSUME NEW s \in Socket, Connect(s) \/ Handshake(s) PROVE IInv'
  BY <1>1, ConnectInv
<1>2. ASSUME NEW s \in Socket, Disconnect(s) PROVE IInv'
  BY <1>2, CloseInv DEF Disconnect
<1>3. ASSUME NEW s \in Socket, Reject(s) PROVE IInv'
  <2>1. CASE s \in Connected
    BY <1>3, <2>1, CloseInv DEF Reject
  <2>2. CASE s \notin Connected
    <3>1. /\ shaking' \subseteq shaking
          /\ UNCHANGED <<conn, known, joining, inRoom, rooms, roster, joins, raced>>
      BY <1>3, <2>2 DEF Reject
    <3> QED BY <3>1 DEF IInv, TypeOK, NobodyHidden, ExactCount, Present, CalmSockets, Calm, Busy
  <2> QED BY <2>1, <2>2
<1>4. ASSUME NEW s \in Socket, NEW p \in Project, Join(s, p) PROVE IInv'
  BY <1>4, JoinInv
<1>5. ASSUME NEW s \in Socket, NEW p \in Project, JoinResume(s, p) PROVE IInv'
  BY <1>5, JoinResumeInv
<1>6. ASSUME NEW s \in Socket, NEW p \in Project, JoinFail(s, p) PROVE IInv'
  BY <1>6, JoinFailInv
<1>7. ASSUME NEW s \in Socket, NEW p \in Project, Leave(s, p) PROVE IInv'
  BY <1>7, LeaveInv
<1>8. CASE Restart
  BY <1>8, RestartInv
<1>9. CASE UNCHANGED vars
  <2>1. UNCHANGED <<conn, shaking, known, joining, inRoom, rooms, roster, joins, raced>>
    BY <1>9 DEF vars
  <2>2. TypeOK' /\ CalmSockets'
    BY <2>1 DEF IInv, TypeOK, CalmSockets, Calm, Busy
  <2>3. Counts'
    BY <2>1, CountsKept DEF IInv, Counts
  <2> QED BY <2>2, <2>3 DEF IInv, Counts
<1> QED BY <1>1, <1>2, <1>3, <1>4, <1>5, <1>6, <1>7, <1>8, <1>9 DEF Next
----------------------------------------------------------------------------
\* Every reachable state of the gateway satisfies the inductive invariant.
THEOREM Invariance == Spec => []IInv
BY InitInv, NextInv, PTL DEF Spec

\* Counts are never negative, and client.data.rooms stays empty until the
\* handshake is over.
THEOREM TypeCorrect == Spec => []TypeOK
BY Invariance, PTL DEF IInv

\* No race of joins, leaves and disconnects hides a user who has a socket in the
\* room from its roster.
THEOREM Visibility == Spec => []NobodyHidden
BY Invariance, PTL DEF IInv

\* The roster is exact for users whose sockets never raced.
THEOREM Exactness == Spec => []ExactWithoutRaces
<1>1. IInv => ExactWithoutRaces
  <2> SUFFICES ASSUME IInv, NEW p \in Project, NEW u \in User, \A s \in raced : UserOf[s] # u
               PROVE  roster[p][u] = Cardinality(Present(p, u) \cap Connected)
    BY DEF ExactWithoutRaces
  <2>1. Present(p, u) \subseteq Connected
    BY DEF IInv, CalmSockets, Calm, Present, Connected
  <2>2. Present(p, u) \cap Connected = Present(p, u)
    BY <2>1
  <2> QED BY <2>2 DEF IInv, ExactCount
<1> QED BY <1>1, Invariance, PTL
=============================================================================
