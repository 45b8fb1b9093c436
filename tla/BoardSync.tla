----------------------------- MODULE BoardSync -----------------------------
(***************************************************************************)
(* A browser tab that shows boards, and the server behind it.  The tab     *)
(* keeps one list of issues per project (React Query's cache), changes it  *)
(* optimistically, refetches it after each mutation of its own and patches *)
(* it with the events of the room it has joined.  Other users write too.   *)
(* A row is written first and announced after the request's audit insert,  *)
(* so announcements may come in another order than the writes.             *)
(***************************************************************************)
EXTENDS Naturals, Sequences, FiniteSets

CONSTANTS Project, Issue,
          ProjectOf,  \* the project of an issue
          Place,      \* a column and a rank in it, in the order list() sorts
          Text,       \* the other fields of an issue
          Mutation,   \* mutations of this tab that run at the same time
          Limit,      \* the board's ?limit=100
          MaxWrites,  \* bound: committed writes, by anybody
          MaxTroubles \* bound: changes of board or token, connections lost, requests failed

ASSUME BoardSyncAssumption ==
  /\ ProjectOf \in [Issue -> Project]
  /\ Place \subseteq Nat
  /\ Limit \in Nat \ {0}
  /\ MaxWrites \in Nat /\ MaxTroubles \in Nat

Entry == [id : Issue, place : Place, text : Text]
Kind == {"created", "updated", "moved", "deleted"}
Field == {"place", "text"}
Event == [n : 1..MaxWrites, kind : Kind, card : Entry]
Request == [m : Mutation, kind : Kind, set : Field, card : Entry, project : Project,
            previous : SUBSET Entry, n : 0..MaxWrites]
Fetch == [st : {"idle", "asked", "answered"}, list : SUBSET Entry, n : 0..MaxWrites]

VARIABLES rows,     \* the issues table
          born,     \* ids given so far
          pending,  \* events of committed writes whose request has not emitted yet
          conn,     \* the socket is connected
          inRoom,   \* rooms of the socket, at the server
          joining,  \* joins the gateway has not finished, or the socket not sent
          wire,     \* events on their way to the tab
          shown,    \* project of the board on the screen
          loaded,   \* projects with data in the cache
          cache,    \* that data
          invalid,  \* projects whose query is marked invalidated
          fetch,    \* the request for a project's list
          mut,      \* this tab's mutations under way; n > 0 once committed
          troubles, \* number of troubles so far
          log,      \* history: the issue of each committed write
          held,     \* history: every row the server has stored
          off       \* history: projects whose cache a named race may have left behind

server == <<rows, born, pending, log, held>>
socket == <<conn, inRoom, joining, wire>>
client == <<shown, loaded, cache, invalid, fetch, mut>>
vars == <<server, socket, client, troubles, off>>

\* The type invariant: events carry the number of their write, a socket that is
\* not connected is in no room, and mutations of one tab are told apart.
TypeOK ==
  /\ rows \subseteq Entry /\ held \subseteq Entry /\ born \subseteq Issue
  /\ log \in Seq(Issue) /\ Len(log) <= MaxWrites
  /\ pending \subseteq Event
  /\ conn \in BOOLEAN
  /\ inRoom \subseteq Project /\ joining \subseteq Project
  /\ wire \in Seq(Event)
  /\ shown \in Project
  /\ loaded \subseteq Project /\ invalid \subseteq Project /\ off \subseteq Project
  /\ cache \in [Project -> SUBSET Entry]
  /\ fetch \in [Project -> Fetch]
  /\ mut \subseteq Request
  /\ troubles \in 0..MaxTroubles
  /\ ~conn => inRoom = {} /\ wire = <<>>
  /\ \A e \in pending \cup {wire[k] : k \in DOMAIN wire} :
       e.n \in DOMAIN log /\ log[e.n] = e.card.id /\ e.card \in held
  /\ \A x, y \in mut : x.m = y.m => x = y

Idle == [st |-> "idle", list |-> {}, n |-> 0]
Asked == [st |-> "asked", list |-> {}, n |-> 0]

\* A board is opened in a fresh tab; some issues exist.
Init ==
  /\ rows \in SUBSET Entry
  /\ \A x, y \in rows : x.id = y.id => x = y
  /\ held = rows
  /\ born = {x.id : x \in rows}
  /\ log = <<>> /\ pending = {}
  /\ conn = TRUE /\ inRoom = {} /\ wire = <<>>
  /\ shown \in Project /\ joining = {shown}
  /\ loaded = {} /\ invalid = {} /\ off = {} /\ mut = {}
  /\ cache = [p \in Project |-> {}]
  /\ fetch = [p \in Project |-> IF p = shown THEN Asked ELSE Idle]
  /\ troubles = 0
----------------------------------------------------------------------------
(* The server.                                                             *)

RowsOf(p) == {x \in rows : ProjectOf[x.id] = p}

\* A row after the field set was given the value it has in c.
Assign(x, set, c) == IF set = "place" THEN [x EXCEPT !.place = c.place]
                                      ELSE [x EXCEPT !.text = c.text]

Trouble == troubles < MaxTroubles /\ troubles' = troubles + 1

\* What a write of one kind makes of the table; new is the row it returns.  A
\* move computes its own rank, from the neighbours as the server finds them.
Change(kind, set, c, new) ==
  \/ kind = "created" /\ c.id \notin born /\ new = c /\ rows' = rows \cup {new}
  \/ \E x \in rows :
       /\ x.id = c.id
       /\ \/ kind = "updated" /\ new = Assign(x, set, c) /\ rows' = (rows \ {x}) \cup {new}
          \/ kind = "moved" /\ new = Assign(x, set, new) /\ rows' = (rows \ {x}) \cup {new}
          \/ kind = "deleted" /\ new = x /\ rows' = rows \ {x}

\* A committed write and the event its request will emit after the audit insert.
Write(kind, set, c) ==
  /\ Len(log) < MaxWrites
  /\ \E new \in Entry :
       /\ new.id = c.id
       /\ Change(kind, set, c, new)
       /\ held' = held \cup {new}
       /\ pending' = pending \cup
            {[n |-> Len(log) + 1, kind |-> kind, card |-> new]}
  /\ born' = born \cup {c.id}
  /\ log' = Append(log, c.id)

\* What a client may ask for a card x it has: forms and drops send changes.
Asks(kind, set, x, c) ==
  /\ c.id = x.id
  /\ \/ kind = "updated" /\ c # x /\ c = Assign(x, set, c)
     \/ kind = "moved" /\ set = "place" /\ c = Assign(x, set, c)
     \/ kind = "deleted" /\ set = "place" /\ c = x

\* Another user's request, or one of this tab whose answer was given up.
OtherWrite(kind, set, c) ==
  /\ \/ kind = "created" /\ set = "place"
     \/ \E x \in rows : Asks(kind, set, x, c)
  /\ Write(kind, set, c)
  /\ UNCHANGED <<socket, client, troubles, off>>

\* emitToProject: the room gets the event, in the order the emits run.  The tab
\* misses it when its socket is not in the room.
Emit(e) ==
  LET p == ProjectOf[e.card.id] IN
  /\ e \in pending
  /\ pending' = pending \ {e}
  /\ IF p \in inRoom
       THEN /\ wire' = Append(wire, e) /\ off' = off
       ELSE wire' = wire /\ off' = off \cup {p}
  /\ UNCHANGED <<rows, born, log, held, conn, inRoom, joining, client, troubles>>

\* onJoin after its query.
Joined(p) ==
  /\ conn /\ p \in joining
  /\ joining' = joining \ {p}
  /\ inRoom' = inRoom \cup {p}
  /\ UNCHANGED <<server, conn, wire, client, troubles, off>>

\* list: a snapshot, cut after the first Limit issues of the board's order.
Answer(p) ==
  /\ fetch[p].st = "asked"
  /\ \E list \in SUBSET RowsOf(p) :
       /\ Cardinality(list) = Limit \/ list = RowsOf(p)
       /\ Cardinality(list) <= Limit
       /\ \A x \in list, y \in RowsOf(p) \ list : x.place <= y.place
       /\ fetch' = [fetch EXCEPT ![p] = [st |-> "answered", list |-> list, n |-> Len(log)]]
       /\ off' = IF list = RowsOf(p) THEN off \ {p} ELSE off \cup {p}
  /\ UNCHANGED <<server, socket, shown, loaded, cache, invalid, mut, troubles>>
----------------------------------------------------------------------------
(* The socket.                                                             *)

\* Mutant: the server keeps the rooms of a socket that is gone.
DisconnectKeepsRooms ==
  /\ conn
  /\ conn' = FALSE /\ joining' = {} /\ wire' = <<>>
  /\ off' = off \cup {ProjectOf[wire[k].card.id] : k \in DOMAIN wire}
  /\ Trouble
  /\ UNCHANGED <<server, client, inRoom>>

\* The connection is lost with what was on the wire.
Disconnect ==
  /\ conn
  /\ conn' = FALSE /\ inRoom' = {} /\ joining' = {} /\ wire' = <<>>
  /\ off' = off \cup {ProjectOf[wire[k].card.id] : k \in DOMAIN wire}
  /\ Trouble
  /\ UNCHANGED <<server, client>>

\* socket.io reconnects; nothing joins the room again.
Reconnect ==
  /\ ~conn
  /\ conn' = TRUE
  /\ UNCHANGED <<server, inRoom, joining, wire, client, troubles, off>>

\* The effect of useBoardRealtime runs again: the cleanup leaves the old room,
\* the body joins the new one.  On a socket that is not connected the join waits
\* for the connection, and an older one goes with the socket getSocket replaces.
Rejoin(p) ==
  /\ inRoom' = inRoom \ {shown}
  /\ joining' = IF conn THEN joining \cup {p} ELSE {p}

\* A new access token is a dependency of the effect.
TokenRefreshed ==
  /\ Rejoin(shown)
  /\ Trouble
  /\ UNCHANGED <<server, conn, wire, client, off>>
----------------------------------------------------------------------------
(* The cache.                                                              *)

\* Mutant: a card is appended although the list has it already.
PatchedTwice(list, kind, c) ==
  CASE kind = "created" -> list \cup {c}
    [] kind = "updated" -> {IF x.id = c.id THEN c ELSE x : x \in list}
    [] kind = "moved"   -> {IF x.id = c.id THEN Assign(x, "place", c) ELSE x : x \in list}
    [] kind = "deleted" -> {x \in list : x.id # c.id}

\* Mutant: no handler for issue:deleted.
PatchedKeepsDeleted(list, kind, c) ==
  CASE kind = "created" -> IF \E x \in list : x.id = c.id THEN list ELSE list \cup {c}
    [] kind = "updated" -> {IF x.id = c.id THEN c ELSE x : x \in list}
    [] kind = "moved"   -> {IF x.id = c.id THEN Assign(x, "place", c) ELSE x : x \in list}
    [] kind = "deleted" -> list

\* What the handlers, and onMutate, make of a list.
Patched(list, kind, c) ==
  CASE kind = "created" -> IF \E x \in list : x.id = c.id THEN list ELSE list \cup {c}
    [] kind = "updated" -> {IF x.id = c.id THEN c ELSE x : x \in list}
    [] kind = "moved"   -> {IF x.id = c.id THEN Assign(x, "place", c) ELSE x : x \in list}
    [] kind = "deleted" -> {x \in list : x.id # c.id}

SetQueryData(p, list) ==
  /\ cache' = [cache EXCEPT ![p] = list]
  /\ loaded' = loaded \cup {p}

\* A handler patches the list of the board shown now, whatever room the event
\* comes from.
Deliver ==
  LET e == Head(wire)
      p == ProjectOf[e.card.id]
      overtaken == fetch[p].st = "answered" /\ fetch[p].n < e.n
      toCome == {x.n : x \in pending} \cup {wire[k].n : k \in 2..Len(wire)}
      outdated == \E k \in (e.n + 1)..Len(log) : log[k] = e.card.id /\ k \notin toCome IN
  /\ wire # <<>>
  /\ wire' = Tail(wire)
  /\ SetQueryData(shown, Patched(cache[shown], e.kind, e.card))
  /\ invalid' = invalid \ {shown}
  /\ off' = IF p # shown THEN off \cup {p, shown}
            ELSE IF outdated \/ overtaken THEN off \cup {p} ELSE off
  /\ UNCHANGED <<server, conn, inRoom, joining, shown, fetch, mut, troubles>>

\* Another board is opened.  Its query refetches if it has no data or was
\* invalidated, and otherwise when its data is older than staleTime.
Show(p) ==
  /\ p # shown
  /\ shown' = p
  /\ Rejoin(p)
  /\ \/ fetch[p].st = "idle" /\ fetch' = [fetch EXCEPT ![p] = Asked]
     \/ (fetch[p].st # "idle" \/ p \in loaded \ invalid) /\ UNCHANGED fetch
  /\ Trouble
  /\ UNCHANGED <<server, conn, wire, loaded, cache, invalid, mut, off>>

Receive(p) ==
  /\ fetch[p].st = "answered"
  /\ SetQueryData(p, fetch[p].list)
  /\ invalid' = invalid \ {p}
  /\ fetch' = [fetch EXCEPT ![p] = Idle]
  /\ UNCHANGED <<server, socket, shown, mut, troubles, off>>

\* The request and its retry have failed; the data stays.
FetchFails(p) ==
  /\ fetch[p].st # "idle"
  /\ fetch' = [fetch EXCEPT ![p] = Idle]
  /\ invalid' = invalid \cup {p}
  /\ off' = off \cup {p}
  /\ Trouble
  /\ UNCHANGED <<server, socket, shown, loaded, cache, mut>>

\* onMutate of a move, an update or a deletion of a card on the screen: a fetch
\* under way is cancelled, the list is kept for onError and patched.
Mutate(m, kind, set, c) ==
  /\ \A q \in mut : q.m # m
  /\ \E x \in cache[shown] : Asks(kind, set, x, c)
  /\ fetch' = [fetch EXCEPT ![shown] = Idle]
  /\ SetQueryData(shown, Patched(cache[shown], kind, c))
  /\ invalid' = invalid \ {shown}
  /\ mut' = mut \cup {[m |-> m, kind |-> kind, set |-> set, card |-> c, project |-> shown,
                       previous |-> cache[shown], n |-> 0]}
  /\ UNCHANGED <<server, socket, shown, troubles, off>>

\* useCreateIssue has no onMutate.
MutateCreate(m, c) ==
  /\ \A q \in mut : q.m # m /\ q.kind # "created"
  /\ ProjectOf[c.id] = shown
  /\ mut' = mut \cup {[m |-> m, kind |-> "created", set |-> "place", card |-> c, project |-> shown,
                       previous |-> {}, n |-> 0]}
  /\ UNCHANGED <<server, socket, shown, loaded, cache, invalid, fetch, troubles, off>>

\* The server carries the mutation out.
Commit(q) ==
  /\ q \in mut /\ q.n = 0
  /\ Write(q.kind, q.set, q.card)
  /\ mut' = (mut \ {q}) \cup {[q EXCEPT !.n = Len(log) + 1]}
  /\ UNCHANGED <<socket, shown, loaded, cache, invalid, fetch, troubles, off>>

\* invalidateQueries: the query on the screen is fetched again, another one is
\* marked for the next time it is shown.
Invalidate(p) ==
  /\ invalid' = invalid \cup {p}
  /\ fetch' = IF p = shown THEN [fetch EXCEPT ![p] = Asked] ELSE fetch

\* The handler answers after its emit: onSuccess, onSettled.
Succeed(q) ==
  /\ q \in mut /\ q.n > 0
  /\ \A e \in pending : e.n # q.n
  /\ mut' = mut \ {q}
  /\ Invalidate(q.project)
  /\ UNCHANGED <<server, socket, shown, loaded, cache, troubles, off>>

\* Mutant: only onSuccess refetches.
MutationFailsForGood(q) ==
  /\ q \in mut
  /\ mut' = mut \ {q}
  /\ IF q.kind = "created" THEN UNCHANGED <<loaded, cache>> ELSE SetQueryData(q.project, q.previous)
  /\ Trouble
  /\ UNCHANGED <<server, socket, shown, invalid, fetch, off>>

\* The request is rejected or its answer lost: onError restores the list onMutate
\* kept, onSettled invalidates it.  A failed create does neither.
MutationFails(q) ==
  /\ q \in mut
  /\ mut' = mut \ {q}
  /\ IF q.kind = "created" THEN UNCHANGED <<loaded, cache, invalid, fetch>>
     ELSE SetQueryData(q.project, q.previous) /\ Invalidate(q.project)
  /\ Trouble
  /\ UNCHANGED <<server, socket, shown, off>>

Next ==
  \/ \E kind \in Kind, set \in Field, c \in Entry :
       OtherWrite(kind, set, c) \/ \E m \in Mutation : Mutate(m, kind, set, c)
  \/ \E m \in Mutation, c \in Entry : MutateCreate(m, c)
  \/ \E e \in pending : Emit(e)
  \/ \E p \in Project : Joined(p) \/ Answer(p) \/ Show(p) \/ Receive(p) \/ FetchFails(p)
  \/ \E q \in mut : Commit(q) \/ Succeed(q) \/ MutationFails(q)
  \/ Disconnect \/ Reconnect \/ TokenRefreshed \/ Deliver

Spec == Init /\ [][Next]_vars
----------------------------------------------------------------------------
(* Properties.                                                             *)

\* Whatever refetches, creates of one's own and events cross, the board never has
\* two cards of one issue (the handler of issue:created looks first).
OneCardPerIssue ==
  \A p \in Project : \A x, y \in cache[p] : x.id = y.id => x = y

\* The server has stored the fields of this card, together or not.
Genuine(x) ==
  /\ \E h \in held : h.id = x.id /\ h.place = x.place
  /\ \E h \in held : h.id = x.id /\ h.text = x.text

\* An optimistic value the server never stored is not left behind: while it is in
\* a list, a mutation of that list is under way, or a fetch is, or the list is
\* marked for one, or the last fetch has failed.  Two mutations that overlap
\* restore each other's guesses, so this rests on every settled one refetching.
NoLastingGuesses ==
  \A p \in Project :
    (\E x \in cache[p] : ~Genuine(x)) =>
      \/ \E q \in mut : q.project = p
      \/ fetch[p].st # "idle"
      \/ p \in invalid \cup off

\* Nothing is under way that could still change the board shown.
Quiet ==
  /\ pending = {} /\ wire = <<>>
  /\ fetch[shown].st = "idle"
  /\ \A q \in mut : q.project # shown

\* "keeps the React Query issue cache in sync": once all is quiet the board shows
\* the rows of its project, unless since its last snapshot one of the races in off
\* has happened: an event missed outside the room or lost with the connection, or
\* delivered to another board, or announced out of order, or overtaken by the
\* snapshot; a fetch that failed; a project beyond the limit.
InSyncWithoutRaces ==
  Quiet /\ shown \notin off => cache[shown] = RowsOf(shown)
=============================================================================
