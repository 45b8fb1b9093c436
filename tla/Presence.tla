------------------------------ MODULE Presence -----------------------------
(***************************************************************************)
(* RealtimeGateway on one node: sockets shake hands, join and leave the    *)
(* rooms of projects, and disconnect; the node keeps a roster that counts  *)
(* the sockets of each user in each room.  handleConnection and onJoin     *)
(* await the database; all that happens between two awaits is one step.    *)
(***************************************************************************)
EXTENDS Integers, FiniteSets

CONSTANTS Socket,     \* connections; a client that reconnects gets another
          User,
          Project,
          UserOf,     \* the user whose token a socket presents
          Member,     \* <<user, project>>: the user belongs to the project's organisation
          MaxJoins    \* bound: joins a socket ever sends

ASSUME SocketAssumption == IsFiniteSet(Socket)
ASSUME UserOfAssumption == UserOf \in [Socket -> User]
ASSUME MemberAssumption == Member \subseteq User \X Project
ASSUME MaxJoinsAssumption == MaxJoins \in Nat

VARIABLES conn,       \* "new", "open" or "closed"
          shaking,    \* sockets whose handleConnection is waiting
          known,      \* sockets whose client.data is set
          joining,    \* per socket and project: onJoin calls waiting for their query
          inRoom,     \* socket.io's rooms
          rooms,      \* client.data.rooms
          roster,     \* presence: sockets counted per room and user
          joins,      \* joins sent, for the bound
          raced       \* history: sockets that sent something else, or closed, during a
                      \* join, or joined a room they were in

vars == <<conn, shaking, known, joining, inRoom, rooms, roster, joins, raced>>

\* The type invariant.
TypeOK ==
  /\ conn \in [Socket -> {"new", "open", "closed"}]
  /\ shaking \subseteq Socket /\ known \subseteq Socket \ shaking
  /\ joining \in [Socket -> [Project -> Nat]]
  /\ inRoom \in [Socket -> SUBSET Project]
  /\ rooms \in [Socket -> SUBSET Project]
  /\ roster \in [Project -> [User -> Nat]]
  /\ joins \in [Socket -> 0..MaxJoins]
  /\ raced \subseteq Socket
  /\ \A s \in Socket \ known : rooms[s] = {}
  /\ \A s \in shaking \cup known : conn[s] # "new"

Init ==
  /\ conn = [s \in Socket |-> "new"]
  /\ shaking = {} /\ known = {}
  /\ joining = [s \in Socket |-> [p \in Project |-> 0]]
  /\ inRoom = [s \in Socket |-> {}]
  /\ rooms = [s \in Socket |-> {}]
  /\ roster = [p \in Project |-> [u \in User |-> 0]]
  /\ joins = [s \in Socket |-> 0]
  /\ raced = {}
----------------------------------------------------------------------------
Connected == {s \in Socket : conn[s] = "open"}

Busy(s) == \E p \in Project : joining[s][p] > 0

Race(s, cond) == raced' = IF cond THEN raced \cup {s} ELSE raced

\* Mutant: the user leaves the roster although another tab stays.
LeaveRoomsOfUser(s, ps) ==
  /\ rooms' = [rooms EXCEPT ![s] = @ \ ps]
  /\ roster' = [p \in Project |-> IF p \in ps THEN [roster[p] EXCEPT ![UserOf[s]] = 0] ELSE roster[p]]

\* leaveRoom for every room in ps: the user's count goes down, never below 0.
LeaveRooms(s, ps) ==
  /\ rooms' = [rooms EXCEPT ![s] = @ \ ps]
  /\ roster' = [p \in Project |->
                  IF p \in ps /\ roster[p][UserOf[s]] > 0
                    THEN [roster[p] EXCEPT ![UserOf[s]] = @ - 1] ELSE roster[p]]

Connect(s) ==
  /\ conn[s] = "new"
  /\ conn' = [conn EXCEPT ![s] = "open"]
  /\ shaking' = shaking \cup {s}
  /\ UNCHANGED <<known, joining, inRoom, rooms, roster, joins, raced>>

\* handleConnection has verified the token and found the user; the socket may
\* have gone meanwhile.
Handshake(s) ==
  /\ s \in shaking
  /\ shaking' = shaking \ {s}
  /\ known' = known \cup {s}
  /\ UNCHANGED <<conn, joining, inRoom, rooms, roster, joins, raced>>

\* Mutant: handleDisconnect is not implemented.
CloseSilently(s) ==
  /\ conn' = [conn EXCEPT ![s] = "closed"]
  /\ inRoom' = [inRoom EXCEPT ![s] = {}]
  /\ Race(s, Busy(s))
  /\ UNCHANGED <<rooms, roster>>

\* The socket closes: socket.io takes it out of its rooms and handleDisconnect
\* leaves those in client.data.rooms.
Close(s) ==
  /\ conn' = [conn EXCEPT ![s] = "closed"]
  /\ inRoom' = [inRoom EXCEPT ![s] = {}]
  /\ LeaveRooms(s, rooms[s])
  /\ Race(s, Busy(s))

Disconnect(s) ==
  /\ s \in Connected
  /\ Close(s)
  /\ UNCHANGED <<shaking, known, joining, joins>>

\* handleConnection rejects the token and disconnects the socket.
Reject(s) ==
  /\ s \in shaking
  /\ shaking' = shaking \ {s}
  /\ IF s \in Connected THEN Close(s) ELSE UNCHANGED <<conn, inRoom, rooms, roster, raced>>
  /\ UNCHANGED <<known, joining, joins>>

\* onJoin up to its query.  It asks for a membership of client.data.userId, which
\* before the end of the handshake is undefined and filters nothing.
Join(s, p) ==
  /\ s \in Connected
  /\ joins[s] < MaxJoins
  /\ s \in known => <<UserOf[s], p>> \in Member
  /\ joins' = [joins EXCEPT ![s] = @ + 1]
  /\ joining' = [joining EXCEPT ![s][p] = @ + 1]
  /\ Race(s, Busy(s) \/ p \in rooms[s] \/ s \notin known)
  /\ UNCHANGED <<conn, shaking, known, inRoom, rooms, roster>>

\* Mutant: client.data.rooms exists before the handshake is over.
JoinResumeEarly(s, p) ==
  /\ joining[s][p] > 0
  /\ joining' = [joining EXCEPT ![s][p] = @ - 1]
  /\ inRoom' = [inRoom EXCEPT ![s] = @ \cup {p}]
  /\ rooms' = [rooms EXCEPT ![s] = @ \cup {p}]
  /\ roster' = [roster EXCEPT ![p][UserOf[s]] = @ + 1]
  /\ UNCHANGED <<conn, shaking, known, joins, raced>>

\* onJoin after its query: the socket joins the room and is counted in its roster;
\* while client.data is not set it throws in between.
JoinResume(s, p) ==
  /\ joining[s][p] > 0
  /\ joining' = [joining EXCEPT ![s][p] = @ - 1]
  /\ inRoom' = [inRoom EXCEPT ![s] = @ \cup {p}]
  /\ IF s \in known
       THEN /\ rooms' = [rooms EXCEPT ![s] = @ \cup {p}]
            /\ roster' = [roster EXCEPT ![p][UserOf[s]] = @ + 1]
       ELSE UNCHANGED <<rooms, roster>>
  /\ UNCHANGED <<conn, shaking, known, joins, raced>>

\* The query of onJoin fails.
JoinFail(s, p) ==
  /\ joining[s][p] > 0
  /\ joining' = [joining EXCEPT ![s][p] = @ - 1]
  /\ UNCHANGED <<conn, shaking, known, inRoom, rooms, roster, joins, raced>>

\* onLeave: only rooms in client.data.rooms are left.
Leave(s, p) ==
  /\ s \in Connected
  /\ inRoom' = [inRoom EXCEPT ![s] = @ \ (rooms[s] \cap {p})]
  /\ LeaveRooms(s, rooms[s] \cap {p})
  /\ Race(s, Busy(s))
  /\ UNCHANGED <<conn, shaking, known, joining, joins>>

\* The node restarts: all of this lives in its memory.
Restart ==
  /\ conn' = [s \in Socket |-> IF conn[s] = "new" THEN "new" ELSE "closed"]
  /\ joining' = [s \in Socket |-> [p \in Project |-> 0]]
  /\ inRoom' = [s \in Socket |-> {}]
  /\ rooms' = [s \in Socket |-> {}]
  /\ roster' = [p \in Project |-> [u \in User |-> 0]]
  /\ shaking' = {}
  /\ UNCHANGED <<known, joins, raced>>

Next ==
  \/ \E s \in Socket : Connect(s) \/ Handshake(s) \/ Reject(s) \/ Disconnect(s)
  \/ \E s \in Socket, p \in Project : Join(s, p) \/ JoinResume(s, p) \/ JoinFail(s, p) \/ Leave(s, p)
  \/ Restart

Spec == Init /\ [][Next]_vars
----------------------------------------------------------------------------
(* Properties.                                                             *)

Present(p, u) == {s \in Socket : UserOf[s] = u /\ p \in rooms[s]}

\* Whatever joins, leaves and disconnects race: a user with a socket in a room
\* is in its roster, counted at least once per socket, so that closing one tab
\* never hides a user who has another one open.
NobodyHidden ==
  \A p \in Project, u \in User : roster[p][u] >= Cardinality(Present(p, u))

\* "dedup multiple tabs by counting sockets": the roster is exact for users whose
\* sockets each waited for a join to finish before they did anything else.
ExactWithoutRaces ==
  \A p \in Project, u \in User :
     (\A s \in raced : UserOf[s] # u)
       => roster[p][u] = Cardinality(Present(p, u) \cap Connected)

\* "a presence roster reflects only locally connected sockets": a user in the
\* roster has a connected socket in the room.
OnlyConnectedArePresent ==
  \A p \in Project, u \in User : roster[p][u] > 0 => Present(p, u) \cap Connected # {}
=============================================================================
