--------------------------- MODULE BoardSyncProofs -------------------------
(***************************************************************************)
(* The board and its cache, for any projects, issues, places and numbers   *)
(* of mutations and writes: its lists have one card per issue and keep no  *)
(* guess for good, and in the absence of the named races the events bring  *)
(* them to what the table has.                                             *)
(***************************************************************************)
EXTENDS BoardSync, TLAPS

\* A list has at most one entry of an issue.
UniqueIds(list) == \A x, y \in list : x.id = y.id => x = y

\* The table, every list that was answered or kept for a rollback, and the cache.
ListsUnique ==
  /\ UniqueIds(rows)
  /\ \A x \in rows : x.id \in born
  /\ \A p \in Project : UniqueIds(cache[p]) /\ UniqueIds(fetch[p].list)
  /\ \A q \in mut : UniqueIds(q.previous)

\* Mutations that have changed the list of a project and will have it fetched.
Guessing(p) == \E q \in mut : q.project = p /\ q.kind # "created"

\* The board on the screen has data or a fetch under way that brings it, and is
\* fetched when its query is invalidated.
ShownIsFetched ==
  shown \notin loaded \/ shown \in invalid => fetch[shown].st # "idle" \/ shown \in off

\* What the server answers it has stored; what is in the cache and not stored has
\* a mutation or a fetch that will replace it.
GuessesReplaced ==
  /\ rows \subseteq held
  /\ \A p \in Project : \A x \in fetch[p].list : Genuine(x)
  /\ \A p \in Project : (\E x \in cache[p] : ~Genuine(x)) =>
       Guessing(p) \/ fetch[p].st # "idle" \/ p \in off \/ (p \in invalid /\ p # shown)

\* Events on their way: emitted or not.
Out == pending \cup {wire[k] : k \in DOMAIN wire}
OutOf(i) == {e \in Out : e.card.id = i}

\* An event is on its way once.
EventsOnce ==
  /\ \A e, f \in Out : e.n = f.n => e = f
  /\ \A k, l \in DOMAIN wire : wire[k] = wire[l] => k = l
  /\ \A k \in DOMAIN wire : wire[k] \notin pending

Later(e) == {k \in DOMAIN log : k > e.n /\ log[k] = e.card.id}
Delivered(k) == \A f \in Out : f.n # k

\* The newest event of an issue says what the table has of it.
NewestTold(e) ==
  Later(e) = {} => IF e.kind = "deleted" THEN \A x \in rows : x.id # e.card.id
                                         ELSE e.card \in rows

\* No write precedes the creation of an issue, and none follows its deletion.
OrderKept(e) ==
  /\ e.kind = "deleted" => Later(e) = {}
  /\ e.kind = "created" => \A k \in DOMAIN log : k < e.n => log[k] # e.card.id

\* When all that follows an event is on its way: the issue exists unless its
\* deletion is, and an event that sets the text tells it unless a later one does.
RowTold(e) ==
  (\A k \in Later(e) : ~Delivered(k)) =>
    \/ \E r \in rows : r.id = e.card.id
    \/ \E f \in OutOf(e.card.id) : f.kind = "deleted"

TextTold(e) ==
  /\ e.kind \in {"created", "updated"}
  /\ \A k \in Later(e) : ~Delivered(k)
  /\ \A f \in OutOf(e.card.id) : f.n > e.n => f.kind \notin {"updated", "deleted"}
  => \E r \in rows : r.id = e.card.id /\ r.text = e.card.text

EventsTrue ==
  /\ \A k \in DOMAIN log : log[k] \in born
  /\ \A e \in Out : NewestTold(e) /\ OrderKept(e) /\ RowTold(e) /\ TextTold(e)

\* An event of the issue is on its way that was overtaken by a later one; when it
\* arrives, the tab is off.
Overtaken(i) == \E e \in OutOf(i) : \E k \in Later(e) : Delivered(k)

\* The events in due, one after the other, make of a list what the table has of i.
Reaches(list, i, due) ==
  /\ \A r \in rows : r.id = i =>
       (\E x \in list : x.id = i) \/ \E e \in due : e.kind = "created"
  /\ \A x \in list : x.id = i =>
       (\E r \in rows : r.id = i) \/ \E e \in due : e.kind = "deleted"
  /\ \A x \in list, r \in rows : x.id = i /\ r.id = i =>
       /\ x.text = r.text \/ \E e \in due : e.kind = "updated"
       /\ x.place = r.place \/ \E e \in due : e.kind \in {"updated", "moved"}

IssuesOf(p) == {i \in Issue : ProjectOf[i] = p}

\* A list that no fetch and no mutation is about to replace.
Current(p) == fetch[p].st = "idle" /\ p \in loaded \ invalid /\ ~Guessing(p)

\* The cache is brought up to date by the events to come, or one of them will
\* put the tab off.
CacheOf(p) ==
  /\ \A x \in cache[p] : x.id \in IssuesOf(p)
  /\ \A i \in IssuesOf(p) : Overtaken(i) \/ Reaches(cache[p], i, OutOf(i))

\* No write after a snapshot was delivered before it: the events still to come
\* bring it up to date.
SnapshotOf(p) ==
  /\ fetch[p].n <= Len(log)
  /\ \A x \in fetch[p].list : x.id \in IssuesOf(p)
  /\ p \notin off => \A i \in IssuesOf(p) :
       /\ \A k \in DOMAIN log : k > fetch[p].n /\ log[k] = i => ~Delivered(k)
       /\ Reaches(fetch[p].list, i, {e \in OutOf(i) : e.n > fetch[p].n})

\* A list that nothing is about to replace follows the table, and so does a
\* snapshot on its way to the tab.
Followed(p) ==
  /\ p \notin off /\ Current(p) => CacheOf(p)
  /\ fetch[p].st = "answered" => SnapshotOf(p)

SyncInv == EventsOnce /\ EventsTrue /\ \A p \in Project : Followed(p)

\* What a write does to the table, and the event it leaves.
Written(kind, c, new) ==
  /\ new \in Entry /\ new.id = c.id
  /\ Len(log) < MaxWrites
  /\ log' = Append(log, c.id)
  /\ held' = held \cup {new}
  /\ born' = born \cup {c.id}
  /\ pending' = pending \cup {[n |-> Len(log) + 1, kind |-> kind, card |-> new]}
  /\ \/ kind = "created" /\ c.id \notin born /\ rows' = rows \cup {new}
     \/ \E x \in rows :
          /\ x.id = c.id
          /\ \/ kind = "updated" /\ rows' = (rows \ {x}) \cup {new}
             \/ kind = "moved" /\ new.text = x.text /\ rows' = (rows \ {x}) \cup {new}
             \/ kind = "deleted" /\ new = x /\ rows' = rows \ {x}

\* A write is one of the four changes of the table; a move keeps the text.
LEMMA WriteEffect ==
  ASSUME TypeOK, NEW kind \in Kind, NEW fld \in Field, NEW c \in Entry,
         kind = "moved" => fld = "place", Write(kind, fld, c)
  PROVE  \E new \in Entry : Written(kind, c, new)
<1>1. PICK new \in Entry :
        /\ new.id = c.id
        /\ Change(kind, fld, c, new)
        /\ held' = held \cup {new}
        /\ pending' = pending \cup {[n |-> Len(log) + 1, kind |-> kind, card |-> new]}
  BY DEF Write
<1>3. rows \subseteq Entry
  BY DEF TypeOK
<1>4. \A x \in rows : kind = "moved" /\ new = Assign(x, fld, new) => new.text = x.text
  <2> SUFFICES ASSUME NEW x \in rows, kind = "moved", new = Assign(x, fld, new)
               PROVE  new.text = x.text
    OBVIOUS
  <2>1. new = [x EXCEPT !.place = new.place]
    BY DEF Assign
  <2>2. x \in Entry
    BY <1>3
  <2>3. [x EXCEPT !.place = new.place].text = x.text
    BY <2>2 DEF Entry
  <2> QED BY <2>1, <2>3
<1>5. /\ Len(log) < MaxWrites /\ born' = born \cup {c.id} /\ log' = Append(log, c.id)
  BY DEF Write
<1>6. \/ kind = "created" /\ c.id \notin born /\ rows' = rows \cup {new}
      \/ \E x \in rows :
           /\ x.id = c.id
           /\ \/ kind = "updated" /\ rows' = (rows \ {x}) \cup {new}
              \/ kind = "moved" /\ new.text = x.text /\ rows' = (rows \ {x}) \cup {new}
              \/ kind = "deleted" /\ new = x /\ rows' = rows \ {x}
  BY <1>1, <1>4 DEF Change
<1> QED BY <1>1, <1>5, <1>6 DEF Written

\* The events on the wire after one was added or taken.
LEMMA WireGrows ==
  ASSUME wire \in Seq(Event), NEW e \in Event, wire' = Append(wire, e)
  PROVE  /\ wire' \in Seq(Event)
         /\ Len(wire) \in Nat /\ DOMAIN wire = 1..Len(wire) /\ DOMAIN wire' = 1..(Len(wire) + 1)
         /\ \A k \in 1..Len(wire) : wire'[k] = wire[k]
         /\ wire'[Len(wire) + 1] = e
         /\ {wire'[k] : k \in DOMAIN wire'} = {wire[k] : k \in DOMAIN wire} \cup {e}
<1>1. /\ wire' \in Seq(Event)
      /\ Len(wire) \in Nat /\ DOMAIN wire = 1..Len(wire) /\ DOMAIN wire' = 1..(Len(wire) + 1)
      /\ \A k \in 1..Len(wire) : wire'[k] = wire[k]
      /\ wire'[Len(wire) + 1] = e
  OBVIOUS
<1>2. \A k \in DOMAIN wire' : k \in DOMAIN wire \/ k = Len(wire) + 1
  BY <1>1
<1>3. DOMAIN wire \subseteq DOMAIN wire' /\ Len(wire) + 1 \in DOMAIN wire'
  BY <1>1
<1> QED BY <1>1, <1>2, <1>3

LEMMA WireShrinks ==
  ASSUME wire \in Seq(Event), wire # <<>>, wire' = Tail(wire)
  PROVE  /\ wire' \in Seq(Event)
         /\ Len(wire) \in Nat \ {0} /\ DOMAIN wire = 1..Len(wire) /\ DOMAIN wire' = 1..(Len(wire) - 1)
         /\ Head(wire) = wire[1] /\ Head(wire) \in Event
         /\ \A k \in DOMAIN wire' : wire'[k] = wire[k + 1] /\ k + 1 \in 2..Len(wire)
         /\ {wire[k] : k \in DOMAIN wire} = {wire'[k] : k \in DOMAIN wire'} \cup {Head(wire)}
         /\ {wire'[k] : k \in DOMAIN wire'} = {wire[k] : k \in 2..Len(wire)}
<1>1. /\ wire' \in Seq(Event)
      /\ Len(wire) \in Nat \ {0} /\ DOMAIN wire = 1..Len(wire) /\ DOMAIN wire' = 1..(Len(wire) - 1)
      /\ Head(wire) = wire[1] /\ Head(wire) \in Event
      /\ \A k \in DOMAIN wire' : wire'[k] = wire[k + 1] /\ k + 1 \in 2..Len(wire)
  OBVIOUS
<1>2. \A k \in 2..Len(wire) : k - 1 \in DOMAIN wire' /\ wire[k] = wire'[k - 1]
  BY <1>1
<1>3. \A k \in DOMAIN wire : k = 1 \/ k \in 2..Len(wire)
  BY <1>1
<1>4. {wire'[k] : k \in DOMAIN wire'} = {wire[k] : k \in 2..Len(wire)}
  <2>1. \A k \in DOMAIN wire' : wire'[k] \in {wire[l] : l \in 2..Len(wire)}
    BY <1>1
  <2>2. \A k \in 2..Len(wire) : wire[k] \in {wire'[l] : l \in DOMAIN wire'}
    BY <1>2
  <2> QED BY <2>1, <2>2
<1>5. {wire[k] : k \in DOMAIN wire} = {wire[k] : k \in 2..Len(wire)} \cup {wire[1]}
  BY <1>1, <1>3
<1> QED BY <1>1, <1>4, <1>5

\* What the handlers make of the cards of the event's issue, and of the others.
LEMMA PatchedCards ==
  ASSUME NEW list \in SUBSET Entry, NEW kind \in Kind, NEW c \in Entry
  PROVE  /\ Patched(list, kind, c) \subseteq Entry
         /\ \A x : x.id # c.id => (x \in Patched(list, kind, c) <=> x \in list)
         /\ \A x \in Patched(list, kind, c) : x.id = c.id =>
              \/ kind = "created" /\ x \in list
              \/ kind = "created" /\ x = c /\ \A y \in list : y.id # c.id
              \/ kind = "updated" /\ x = c /\ \E y \in list : y.id = c.id
              \/ kind = "moved" /\ x.place = c.place /\ \E y \in list : y.id = c.id /\ x.text = y.text
         /\ ((\E x \in list : x.id = c.id) /\ kind # "deleted") \/ kind = "created" =>
              \E x \in Patched(list, kind, c) : x.id = c.id
         /\ UniqueIds(list) => UniqueIds(Patched(list, kind, c))
<1> DEFINE P == Patched(list, kind, c)
           moved(x) == [x EXCEPT !.place = c.place]
<1>1. \A x \in Entry : /\ Assign(x, "place", c) \in Entry
                       /\ Assign(x, "place", c).id = x.id /\ Assign(x, "place", c).text = x.text
                       /\ Assign(x, "place", c).place = c.place
  BY DEF Assign, Entry
<1>2. CASE kind = "created"
  <2>1. P = IF \E x \in list : x.id = c.id THEN list ELSE list \cup {c}
    BY <1>2 DEF Patched
  <2> HIDE DEF P
  <2> QED BY <1>2, <2>1 DEF P, UniqueIds
<1>3. CASE kind = "updated"
  <2>1. P = {IF x.id = c.id THEN c ELSE x : x \in list}
    BY <1>3 DEF Patched
  <2> HIDE DEF P
  <2>2. P \subseteq Entry
    BY <2>1
  <2>3. \A x : x.id # c.id => (x \in P <=> x \in list)
    BY <2>1
  <2>4. \A x \in P : x.id = c.id => x = c /\ \E y \in list : y.id = c.id
    BY <2>1
  <2>5. (\E x \in list : x.id = c.id) => c \in P
    BY <2>1
  <2>6. UniqueIds(list) => UniqueIds(P)
    BY <2>3, <2>4 DEF UniqueIds
  <2> QED BY <1>3, <2>2, <2>3, <2>4, <2>5, <2>6 DEF P
<1>4. CASE kind = "moved"
  <2>1. P = {IF x.id = c.id THEN Assign(x, "place", c) ELSE x : x \in list}
    BY <1>4 DEF Patched
  <2> HIDE DEF P
  <2>2. P \subseteq Entry
    BY <1>1, <2>1
  <2>3. \A x : x.id # c.id => (x \in P <=> x \in list)
    BY <1>1, <2>1
  <2>4. \A x \in P : x.id = c.id => \E y \in list : y.id = c.id /\ x = Assign(y, "place", c)
    BY <2>1
  <2>5. (\E x \in list : x.id = c.id) => \E x \in P : x.id = c.id
    <3> SUFFICES ASSUME NEW x \in list, x.id = c.id
                 PROVE  \E y \in P : y.id = c.id
      OBVIOUS
    <3>1. Assign(x, "place", c) \in P
      BY <2>1
    <3> QED BY <1>1, <3>1
  <2>6. UniqueIds(list) => UniqueIds(P)
    BY <2>3, <2>4 DEF UniqueIds
  <2>7. \A x \in P : x.id = c.id => x.place = c.place /\ \E y \in list : y.id = c.id /\ x.text = y.text
    BY <1>1, <2>4
  <2> QED BY <1>4, <2>2, <2>3, <2>5, <2>6, <2>7 DEF P
<1>5. CASE kind = "deleted"
  <2>1. P = {x \in list : x.id # c.id}
    BY <1>5 DEF Patched
  <2> HIDE DEF P
  <2> QED BY <1>5, <2>1 DEF P, UniqueIds
<1> QED BY <1>2, <1>3, <1>4, <1>5 DEF Kind

LEMMA PatchedTyped ==
  ASSUME NEW list \in SUBSET Entry, NEW kind \in Kind, NEW c \in Entry
  PROVE  Patched(list, kind, c) \in SUBSET Entry
<1>1. Patched(list, kind, c) \subseteq Entry
  BY PatchedCards
<1> QED BY <1>1
----------------------------------------------------------------------------
(* Types.                                                                  *)

\* The parts of the type invariant: server, socket and client.
ServerTyped ==
  /\ rows \subseteq Entry /\ held \subseteq Entry /\ born \subseteq Issue
  /\ log \in Seq(Issue) /\ Len(log) <= MaxWrites
  /\ pending \subseteq Event

SocketTyped ==
  /\ conn \in BOOLEAN
  /\ inRoom \subseteq Project /\ joining \subseteq Project
  /\ wire \in Seq(Event)
  /\ ~conn => inRoom = {} /\ wire = <<>>

ClientTyped ==
  /\ shown \in Project
  /\ loaded \subseteq Project /\ invalid \subseteq Project
  /\ cache \in [Project -> SUBSET Entry]
  /\ fetch \in [Project -> Fetch]
  /\ mut \subseteq Request
  /\ \A x, y \in mut : x.m = y.m => x = y

EventsLogged ==
  \A e \in Out : e.n \in DOMAIN log /\ log[e.n] = e.card.id /\ e.card \in held

LEMMA TypeParts ==
  TypeOK <=> /\ ServerTyped /\ SocketTyped /\ ClientTyped /\ EventsLogged
             /\ off \subseteq Project /\ troubles \in 0..MaxTroubles
BY DEF TypeOK, ServerTyped, SocketTyped, ClientTyped, EventsLogged, Out

\* What a write does to the server's part and to the events on their way.
LEMMA WriteTyped ==
  ASSUME TypeOK, NEW kind \in Kind, NEW c \in Entry, NEW new \in Entry, Written(kind, c, new),
         UNCHANGED wire
  PROVE  /\ ServerTyped' /\ EventsLogged'
         /\ Len(log) \in Nat /\ DOMAIN log = 1..Len(log)
         /\ Len(log') = Len(log) + 1 /\ DOMAIN log' = 1..(Len(log) + 1)
         /\ \A k \in 1..Len(log) : log'[k] = log[k]
         /\ log'[Len(log) + 1] = c.id
         /\ \E e \in Event : /\ e.n = Len(log) + 1 /\ e.kind = kind /\ e.card = new
                            /\ pending' = pending \cup {e} /\ Out' = Out \cup {e}
<1> DEFINE e == [n |-> Len(log) + 1, kind |-> kind, card |-> new]
<1>1. /\ ServerTyped /\ EventsLogged /\ c.id \in Issue
  BY TypeParts DEF Entry
<1>2. /\ Len(log) \in Nat /\ DOMAIN log = 1..Len(log)
      /\ log' \in Seq(Issue)
      /\ Len(log') = Len(log) + 1 /\ DOMAIN log' = 1..(Len(log) + 1)
      /\ \A k \in 1..Len(log) : log'[k] = log[k]
      /\ log'[Len(log) + 1] = c.id
  BY <1>1 DEF ServerTyped, Written
<1>3. Len(log) < MaxWrites
  BY DEF Written
<1>4. e \in Event /\ e.n = Len(log) + 1 /\ e.kind = kind /\ e.card = new
  BY <1>2, <1>3, BoardSyncAssumption DEF Event
<1>5. pending' = pending \cup {e}
  BY DEF Written
<1> HIDE DEF e
<1>6. Out' = Out \cup {e}
  BY <1>5 DEF Out
<1>7. held' = held \cup {new} /\ new.id = c.id
  BY DEF Written
<1>8. EventsLogged'
  BY <1>1, <1>2, <1>4, <1>6, <1>7 DEF EventsLogged
<1>9. rows' \subseteq Entry /\ born' \subseteq Issue
  BY <1>1 DEF Written, ServerTyped
<1>10. ServerTyped'
  BY <1>1, <1>2, <1>3, <1>4, <1>5, <1>7, <1>9, BoardSyncAssumption DEF ServerTyped
<1> QED BY <1>2, <1>4, <1>5, <1>6, <1>8, <1>10

\* The requests under way are told apart when one more is sent, one leaves, or
\* one is committed.
LEMMA RequestsTyped ==
  ASSUME ClientTyped
  PROVE  /\ \A q \in Request : (\A x \in mut : x.m # q.m) /\ mut' = mut \cup {q} =>
              mut' \subseteq Request /\ \A x, y \in mut' : x.m = y.m => x = y
         /\ \A q \in mut, r \in Request : r.m = q.m /\ mut' = (mut \ {q}) \cup {r} =>
              mut' \subseteq Request /\ \A x, y \in mut' : x.m = y.m => x = y
         /\ \A q \in mut : mut' = mut \ {q} =>
              mut' \subseteq Request /\ \A x, y \in mut' : x.m = y.m => x = y
BY DEF ClientTyped

\* The list of one project is replaced, or its fetch.
LEMMA CacheTyped ==
  ASSUME ClientTyped, NEW p \in Project, NEW list \in SUBSET Entry, SetQueryData(p, list)
  PROVE  /\ cache' \in [Project -> SUBSET Entry] /\ loaded' \subseteq Project
         /\ cache'[p] = list /\ \A o \in Project \ {p} : cache'[o] = cache[o]
         /\ loaded' = loaded \cup {p}
BY DEF ClientTyped, SetQueryData

LEMMA FetchTyped ==
  ASSUME ClientTyped, NEW p \in Project, NEW f \in Fetch, fetch' = [fetch EXCEPT ![p] = f]
  PROVE  /\ fetch' \in [Project -> Fetch]
         /\ fetch'[p] = f /\ \A o \in Project \ {p} : fetch'[o] = fetch[o]
BY DEF ClientTyped

LEMMA FetchValues ==
  /\ Idle \in Fetch /\ Asked \in Fetch /\ Idle.st = "idle" /\ Asked.st = "asked"
  /\ Idle.list = {} /\ Asked.list = {}
BY BoardSyncAssumption DEF Idle, Asked, Fetch

LEMMA InvalidateTyped ==
  ASSUME ClientTyped, NEW p \in Project, Invalidate(p)
  PROVE  /\ fetch' \in [Project -> Fetch] /\ invalid' = invalid \cup {p}
         /\ p = shown => fetch'[p] = Asked
         /\ p # shown => fetch'[p] = fetch[p]
         /\ \A o \in Project \ {p} : fetch'[o] = fetch[o]
<1>1. Asked \in Fetch
  BY FetchValues
<1>2. invalid' = invalid \cup {p} /\ fetch' = IF p = shown THEN [fetch EXCEPT ![p] = Asked] ELSE fetch
  BY DEF Invalidate
<1>3. CASE p = shown
  BY <1>1, <1>2, <1>3, FetchTyped
<1>4. CASE p # shown
  BY <1>2, <1>4 DEF ClientTyped
<1> QED BY <1>2, <1>3, <1>4

\* A move changes the place only, so a request that moves a card sets it.
MovesSetPlace == \A q \in mut : q.kind = "moved" => q.set = "place"

\* The requests this tab sends: with an optimistic change, or a create.
LEMMA MutateTyped ==
  ASSUME TypeOK, MovesSetPlace, NEW m \in Mutation, NEW kind \in Kind, NEW fld \in Field, NEW c \in Entry,
         Mutate(m, kind, fld, c)
  PROVE  /\ kind # "created"
         /\ \E q \in Request : /\ q.project = shown /\ q.kind = kind
                              /\ q.previous = cache[shown] /\ mut' = mut \cup {q}
         /\ mut' \subseteq Request /\ \A x, y \in mut' : x.m = y.m => x = y
         /\ MovesSetPlace'
<1> DEFINE q == [m |-> m, kind |-> kind, set |-> fld, card |-> c, project |-> shown,
                 previous |-> cache[shown], n |-> 0]
<1>1. ClientTyped /\ 0 \in 0..MaxWrites
  BY TypeParts, BoardSyncAssumption
<1>2. shown \in Project /\ cache[shown] \in SUBSET Entry
  BY <1>1 DEF ClientTyped
<1>3. /\ mut' = mut \cup {q} /\ \A x \in mut : x.m # m
      /\ kind # "created" /\ (kind = "moved" => fld = "place")
  BY DEF Mutate, Asks
<1>4. q \in Request
  BY <1>1, <1>2 DEF Request
<1>5. /\ q.project = shown /\ q.kind = kind /\ q.previous = cache[shown]
      /\ q.m = m /\ q.set = fld
  OBVIOUS
<1> HIDE DEF q
<1>6. mut' \subseteq Request /\ \A x, y \in mut' : x.m = y.m => x = y
  BY <1>1, <1>3, <1>4, <1>5, RequestsTyped
<1>7. MovesSetPlace'
  BY <1>3, <1>5 DEF MovesSetPlace
<1> QED BY <1>3, <1>4, <1>5, <1>6, <1>7

LEMMA CreateTyped ==
  ASSUME TypeOK, MovesSetPlace, NEW m \in Mutation, NEW c \in Entry, MutateCreate(m, c)
  PROVE  /\ \E q \in Request : /\ q.project = shown /\ q.kind = "created"
                              /\ q.previous = {} /\ mut' = mut \cup {q}
         /\ mut' \subseteq Request /\ \A x, y \in mut' : x.m = y.m => x = y
         /\ MovesSetPlace'
<1> DEFINE q == [m |-> m, kind |-> "created", set |-> "place", card |-> c, project |-> shown,
                 previous |-> {}, n |-> 0]
<1>1. ClientTyped /\ 0 \in 0..MaxWrites
  BY TypeParts, BoardSyncAssumption
<1>2. shown \in Project
  BY <1>1 DEF ClientTyped
<1>3. mut' = mut \cup {q} /\ \A x \in mut : x.m # m
  BY DEF MutateCreate
<1>4. q \in Request
  BY <1>1, <1>2 DEF Request, Kind, Field
<1>5. /\ q.project = shown /\ q.kind = "created" /\ q.previous = {}
      /\ q.m = m /\ q.set = "place"
  OBVIOUS
<1> HIDE DEF q
<1>6. mut' \subseteq Request /\ \A x, y \in mut' : x.m = y.m => x = y
  BY <1>1, <1>3, <1>4, <1>5, RequestsTyped
<1>7. MovesSetPlace'
  BY <1>3, <1>5 DEF MovesSetPlace
<1> QED BY <1>3, <1>4, <1>5, <1>6, <1>7

\* A request is committed: it keeps everything but the number of its write.
LEMMA CommitTyped ==
  ASSUME TypeOK, MovesSetPlace, NEW q \in mut, Commit(q)
  PROVE  /\ \E new \in Entry : Written(q.kind, q.card, new)
         /\ q.kind \in Kind /\ q.card \in Entry
         /\ \E r \in Request :
              /\ mut' = (mut \ {q}) \cup {r}
              /\ r.project = q.project /\ r.kind = q.kind /\ r.set = q.set /\ r.previous = q.previous
         /\ mut' \subseteq Request /\ \A x, y \in mut' : x.m = y.m => x = y
         /\ MovesSetPlace'
<1> DEFINE r == [q EXCEPT !.n = Len(log) + 1]
<1>1. ClientTyped /\ ServerTyped
  BY TypeParts
<1>2. q \in Request
  BY <1>1 DEF ClientTyped
<1>3. /\ q.kind \in Kind /\ q.card \in Entry /\ q.set \in Field
      /\ q.kind = "moved" => q.set = "place"
  BY <1>2 DEF Request, MovesSetPlace
<1>4. Write(q.kind, q.set, q.card) /\ mut' = (mut \ {q}) \cup {r}
  BY DEF Commit
<1>5. \E new \in Entry : Written(q.kind, q.card, new)
  BY <1>3, <1>4, WriteEffect
<1>6. Len(log) + 1 \in 0..MaxWrites
  BY <1>1, <1>5, BoardSyncAssumption DEF Written, ServerTyped
<1>7. /\ r \in Request /\ r.m = q.m
      /\ r.project = q.project /\ r.kind = q.kind /\ r.set = q.set /\ r.previous = q.previous
  BY <1>2, <1>6 DEF Request
<1> HIDE DEF r
<1>8. mut' \subseteq Request /\ \A x, y \in mut' : x.m = y.m => x = y
  BY <1>1, <1>4, <1>7, RequestsTyped
<1>9. MovesSetPlace'
  BY <1>4, <1>7 DEF MovesSetPlace
<1> QED BY <1>3, <1>4, <1>5, <1>7, <1>8, <1>9

\* Writes, by others and by this tab.
LEMMA TypeWriteStep ==
  ASSUME TypeOK, MovesSetPlace,
         \/ \E kind \in Kind, fld \in Field, c \in Entry : OtherWrite(kind, fld, c)
         \/ \E q \in mut : Commit(q)
  PROVE  TypeOK' /\ MovesSetPlace'
<1>1. /\ ServerTyped /\ SocketTyped /\ ClientTyped /\ EventsLogged
      /\ off \subseteq Project /\ troubles \in 0..MaxTroubles
  BY TypeParts
<1>2. ASSUME NEW kind \in Kind, NEW fld \in Field, NEW c \in Entry, OtherWrite(kind, fld, c)
      PROVE  TypeOK' /\ MovesSetPlace'
  <2>1. /\ kind = "moved" => fld = "place"
        /\ Write(kind, fld, c)
        /\ UNCHANGED <<conn, inRoom, joining, wire, shown, loaded, cache, invalid, fetch, mut, troubles, off>>
    BY <1>2 DEF OtherWrite, Asks, socket, client
  <2>2. PICK new \in Entry : Written(kind, c, new)
    BY <2>1, WriteEffect
  <2>3. ServerTyped' /\ EventsLogged'
    BY <2>1, <2>2, WriteTyped
  <2>4. SocketTyped' /\ ClientTyped' /\ MovesSetPlace'
    BY <1>1, <2>1 DEF SocketTyped, ClientTyped, MovesSetPlace
  <2> QED BY <1>1, <2>1, <2>3, <2>4, TypeParts DEF TypeOK, ServerTyped, SocketTyped, ClientTyped, EventsLogged, Out
<1>3. ASSUME NEW q \in mut, Commit(q)
      PROVE  TypeOK' /\ MovesSetPlace'
  <2>1. UNCHANGED <<conn, inRoom, joining, wire, shown, loaded, cache, invalid, fetch, troubles, off>>
    BY <1>3 DEF Commit, socket
  <2>2. PICK new \in Entry : Written(q.kind, q.card, new)
    BY <1>3, CommitTyped
  <2>3. /\ q.kind \in Kind /\ q.card \in Entry
        /\ mut' \subseteq Request /\ \A x, y \in mut' : x.m = y.m => x = y
        /\ MovesSetPlace'
    BY <1>3, CommitTyped
  <2>4. ServerTyped' /\ EventsLogged'
    BY <2>1, <2>2, <2>3, WriteTyped
  <2>5. SocketTyped' /\ ClientTyped'
    BY <1>1, <2>1, <2>3 DEF SocketTyped, ClientTyped
  <2> QED BY <1>1, <2>1, <2>3, <2>4, <2>5 DEF TypeOK, ServerTyped, SocketTyped, ClientTyped, EventsLogged, Out
<1> QED BY <1>2, <1>3

\* The answer to a fetch, and what it says.
LEMMA AnswerTyped ==
  ASSUME TypeOK, NEW p \in Project, Answer(p)
  PROVE  \E list \in SUBSET RowsOf(p) :
           /\ fetch[p].st = "asked"
           /\ fetch' \in [Project -> Fetch]
           /\ fetch'[p].st = "answered" /\ fetch'[p].list = list /\ fetch'[p].n = Len(log)
           /\ \A o \in Project \ {p} : fetch'[o] = fetch[o]
           /\ off' = IF list = RowsOf(p) THEN off \ {p} ELSE off \cup {p}
<1>1. PICK list \in SUBSET RowsOf(p) :
        /\ fetch' = [fetch EXCEPT ![p] = [st |-> "answered", list |-> list, n |-> Len(log)]]
        /\ off' = IF list = RowsOf(p) THEN off \ {p} ELSE off \cup {p}
  BY DEF Answer
<1> DEFINE f == [st |-> "answered", list |-> list, n |-> Len(log)]
<1>2. ClientTyped /\ ServerTyped
  BY TypeParts
<1>3. f \in Fetch /\ f.st = "answered" /\ f.list = list /\ f.n = Len(log)
  BY <1>2, BoardSyncAssumption DEF ServerTyped, RowsOf, Fetch
<1> HIDE DEF f
<1>4. /\ fetch' \in [Project -> Fetch]
      /\ fetch'[p] = f /\ \A o \in Project \ {p} : fetch'[o] = fetch[o]
  BY <1>1, <1>2, <1>3, FetchTyped DEF f
<1>5. fetch[p].st = "asked"
  BY DEF Answer
<1> QED BY <1>1, <1>3, <1>4, <1>5

\* Steps of the socket.
LEMMA TypeSocketStep ==
  ASSUME TypeOK,
         \/ \E e \in pending : Emit(e)
         \/ \E p \in Project : Joined(p)
         \/ Disconnect \/ Reconnect \/ TokenRefreshed
  PROVE  TypeOK'
<1>1. /\ ServerTyped /\ SocketTyped /\ ClientTyped /\ EventsLogged
      /\ off \subseteq Project /\ troubles \in 0..MaxTroubles
  BY TypeParts
<1>2. ASSUME NEW e \in pending, Emit(e)
      PROVE  TypeOK'
  <2> DEFINE p == ProjectOf[e.card.id]
  <2>1. /\ pending' = pending \ {e}
        /\ \/ wire' = Append(wire, e) /\ off' = off /\ p \in inRoom
           \/ wire' = wire /\ off' = off \cup {p}
        /\ UNCHANGED <<rows, born, log, held, conn, inRoom, joining, shown, loaded, cache, invalid, fetch,
                       mut, troubles>>
    BY <1>2 DEF Emit, client
  <2>2. e \in Event /\ p \in Project
    BY <1>1, BoardSyncAssumption DEF ServerTyped, Event, Entry
  <2> HIDE DEF p
  <2>3. wire' \in Seq(Event) /\ Out' \subseteq Out
    <3>1. CASE wire' = Append(wire, e)
      BY <1>1, <2>1, <2>2, <3>1, WireGrows DEF SocketTyped, Out
    <3>2. CASE wire' = wire
      BY <1>1, <2>1, <3>2 DEF SocketTyped, Out
    <3> QED BY <2>1, <3>1, <3>2
  <2>4. ServerTyped' /\ EventsLogged'
    BY <1>1, <2>1, <2>3 DEF ServerTyped, EventsLogged
  <2>5. SocketTyped'
    <3>1. conn' = conn /\ inRoom' = inRoom /\ joining' = joining
      BY <2>1
    <3>2. ~conn => wire' = <<>>
      BY <1>1, <2>1 DEF SocketTyped
    <3> QED BY <1>1, <2>3, <3>1, <3>2 DEF SocketTyped
  <2>6. ClientTyped'
    BY <1>1, <2>1 DEF ClientTyped
  <2>7. off' \subseteq Project /\ troubles' \in 0..MaxTroubles
    BY <1>1, <2>1, <2>2
  <2> QED BY <2>4, <2>5, <2>6, <2>7 DEF TypeOK, ServerTyped, SocketTyped, ClientTyped, EventsLogged, Out
<1>3. ASSUME NEW p \in Project, Joined(p)
      PROVE  TypeOK'
  <2>1. /\ conn /\ conn' = conn /\ inRoom' = inRoom \cup {p} /\ joining' = joining \ {p}
        /\ UNCHANGED <<rows, born, log, held, pending, wire, shown, loaded, cache, invalid, fetch,
                       mut, troubles, off>>
    BY <1>3 DEF Joined, client, server
  <2>2. ServerTyped' /\ EventsLogged' /\ ClientTyped'
    BY <1>1, <2>1 DEF ServerTyped, EventsLogged, ClientTyped, Out
  <2>3. SocketTyped'
    BY <1>1, <2>1 DEF SocketTyped
  <2> QED BY <1>1, <2>1, <2>2, <2>3 DEF TypeOK, ServerTyped, SocketTyped, ClientTyped, EventsLogged, Out
<1>4. CASE Disconnect
  <2>1. /\ ~conn' /\ inRoom' = {} /\ joining' = {} /\ wire' = <<>>
        /\ off' = off \cup {ProjectOf[wire[k].card.id] : k \in DOMAIN wire}
        /\ troubles' \in 0..MaxTroubles
        /\ UNCHANGED <<rows, born, log, held, pending, shown, loaded, cache, invalid, fetch, mut>>
    BY <1>1, <1>4, BoardSyncAssumption DEF Disconnect, Trouble, client, server
  <2>2. conn' \in BOOLEAN
    BY <1>4, Zenon DEF Disconnect
  <2>3. \A k \in DOMAIN wire : ProjectOf[wire[k].card.id] \in Project
    <3>1. \A k \in DOMAIN wire : wire[k] \in Event
      BY <1>1 DEF SocketTyped
    <3> QED BY <3>1, BoardSyncAssumption DEF Event, Entry
  <2>4. Out' \subseteq Out
    BY <2>1 DEF Out
  <2>5. ServerTyped' /\ EventsLogged' /\ ClientTyped'
    BY <1>1, <2>1, <2>4 DEF ServerTyped, EventsLogged, ClientTyped
  <2>6. SocketTyped'
    BY <2>1, <2>2 DEF SocketTyped
  <2> QED BY <1>1, <2>1, <2>3, <2>5, <2>6 DEF TypeOK, ServerTyped, SocketTyped, ClientTyped, EventsLogged, Out
<1>5. CASE Reconnect
  <2>1. /\ conn' /\ inRoom' = inRoom /\ joining' = joining /\ wire' = wire
        /\ UNCHANGED <<rows, born, log, held, pending, shown, loaded, cache, invalid, fetch, mut, troubles, off>>
    BY <1>5 DEF Reconnect, client, server
  <2>2. conn' \in BOOLEAN
    BY <1>5, Zenon DEF Reconnect
  <2>3. ServerTyped' /\ EventsLogged' /\ ClientTyped'
    BY <1>1, <2>1 DEF ServerTyped, EventsLogged, ClientTyped, Out
  <2>4. SocketTyped'
    BY <1>1, <2>1, <2>2 DEF SocketTyped
  <2> QED BY <1>1, <2>1, <2>3, <2>4 DEF TypeOK, ServerTyped, SocketTyped, ClientTyped, EventsLogged, Out
<1>6. CASE TokenRefreshed
  <2>1. /\ inRoom' = inRoom \ {shown} /\ joining' \subseteq Project
        /\ conn' = conn /\ wire' = wire
        /\ troubles' \in 0..MaxTroubles
        /\ UNCHANGED <<rows, born, log, held, pending, shown, loaded, cache, invalid, fetch, mut, off>>
    BY <1>1, <1>6, BoardSyncAssumption
    DEF TokenRefreshed, Rejoin, Trouble, client, server, SocketTyped, ClientTyped
  <2>2. ServerTyped' /\ EventsLogged' /\ ClientTyped'
    BY <1>1, <2>1 DEF ServerTyped, EventsLogged, ClientTyped, Out
  <2>3. SocketTyped'
    BY <1>1, <2>1 DEF SocketTyped
  <2> QED BY <1>1, <2>1, <2>2, <2>3 DEF TypeOK, ServerTyped, SocketTyped, ClientTyped, EventsLogged, Out
<1> QED BY <1>2, <1>3, <1>4, <1>5, <1>6

\* A handler takes the first event from the wire and patches the board shown.
LEMMA DeliverTyped ==
  ASSUME TypeOK, Deliver
  PROVE  LET e == Head(wire) IN
           /\ wire # <<>> /\ e = wire[1] /\ e \in Event /\ e.kind \in Kind /\ e.card \in Entry
           /\ e.card.id \in Issue /\ ProjectOf[e.card.id] \in Project
           /\ Out = Out' \cup {e}
           /\ SetQueryData(shown, Patched(cache[shown], e.kind, e.card))
           /\ cache[shown] \in SUBSET Entry /\ Patched(cache[shown], e.kind, e.card) \in SUBSET Entry
           /\ invalid' = invalid \ {shown}
           /\ UNCHANGED <<rows, born, pending, log, held, conn, inRoom, joining, shown, fetch, mut, troubles>>
<1> DEFINE e == Head(wire)
<1>1. /\ SocketTyped /\ ClientTyped
  BY TypeParts
<1>2. /\ wire # <<>> /\ wire' = Tail(wire)
      /\ SetQueryData(shown, Patched(cache[shown], e.kind, e.card))
      /\ invalid' = invalid \ {shown}
      /\ UNCHANGED <<rows, born, pending, log, held, conn, inRoom, joining, shown, fetch, mut, troubles>>
  BY DEF Deliver, server
<1>3. e = wire[1] /\ e \in Event /\ Out = Out' \cup {e}
  BY <1>1, <1>2, WireShrinks DEF SocketTyped, Out
<1> HIDE DEF e
<1>4. e.kind \in Kind /\ e.card \in Entry /\ e.card.id \in Issue /\ ProjectOf[e.card.id] \in Project
  BY <1>3, BoardSyncAssumption DEF Event, Entry
<1>5. cache[shown] \in SUBSET Entry
  BY <1>1 DEF ClientTyped
<1>6. Patched(cache[shown], e.kind, e.card) \in SUBSET Entry
  BY <1>4, <1>5, PatchedTyped
<1> QED BY <1>2, <1>3, <1>4, <1>5, <1>6 DEF e

LEMMA TypeDeliverStep ==
  ASSUME TypeOK, Deliver
  PROVE  TypeOK'
<1> DEFINE e == Head(wire)
<1>1. /\ ServerTyped /\ SocketTyped /\ ClientTyped /\ EventsLogged
      /\ off \subseteq Project /\ troubles \in 0..MaxTroubles
  BY TypeParts
<1>2. /\ wire # <<>> /\ ProjectOf[e.card.id] \in Project
      /\ Out = Out' \cup {e}
      /\ SetQueryData(shown, Patched(cache[shown], e.kind, e.card))
      /\ Patched(cache[shown], e.kind, e.card) \in SUBSET Entry
      /\ invalid' = invalid \ {shown}
      /\ UNCHANGED <<rows, born, pending, log, held, conn, inRoom, joining, shown, fetch, mut, troubles>>
  BY DeliverTyped
<1>3. wire' \in Seq(Event)
  BY <1>1, WireShrinks DEF SocketTyped, Deliver
<1>4. off' \subseteq off \cup {ProjectOf[e.card.id], shown}
  BY DEF Deliver
<1>5. cache' \in [Project -> SUBSET Entry] /\ loaded' \subseteq Project
  BY <1>1, <1>2, CacheTyped DEF ClientTyped
<1> HIDE DEF e
<1>6. ServerTyped' /\ EventsLogged'
  BY <1>1, <1>2 DEF ServerTyped, EventsLogged
<1>7. ClientTyped'
  BY <1>1, <1>2, <1>5 DEF ClientTyped
<1>8. SocketTyped'
  <2>1. conn
    BY <1>1, <1>2 DEF SocketTyped
  <2> QED BY <1>1, <1>2, <1>3, <2>1 DEF SocketTyped
<1>9. off' \subseteq Project
  BY <1>1, <1>2, <1>4 DEF ClientTyped
<1> QED BY <1>1, <1>2, <1>6, <1>7, <1>8, <1>9 DEF TypeOK, ServerTyped, SocketTyped, ClientTyped, EventsLogged, Out

\* Another board is shown; it is fetched unless it has data that may be good.
LEMMA ShowTyped ==
  ASSUME TypeOK, NEW p \in Project, Show(p)
  PROVE  /\ p # shown /\ shown' = p
         /\ fetch' \in [Project -> Fetch] /\ \A o \in Project \ {p} : fetch'[o] = fetch[o]
         /\ \/ fetch[p].st = "idle" /\ fetch'[p] = Asked
            \/ fetch' = fetch /\ (fetch[p].st # "idle" \/ p \in loaded \ invalid)
         /\ joining' \subseteq Project /\ inRoom' \subseteq inRoom /\ troubles' \in 0..MaxTroubles
         /\ UNCHANGED <<rows, born, pending, log, held, conn, wire, loaded, cache, invalid, mut, off>>
<1>1. SocketTyped /\ ClientTyped /\ troubles \in 0..MaxTroubles /\ Asked \in Fetch
  BY TypeParts, FetchValues
<1>2. \/ fetch[p].st = "idle" /\ fetch' = [fetch EXCEPT ![p] = Asked]
      \/ fetch' = fetch /\ (fetch[p].st # "idle" \/ p \in loaded \ invalid)
  BY DEF Show
<1>3. /\ fetch' \in [Project -> Fetch] /\ \A o \in Project \ {p} : fetch'[o] = fetch[o]
      /\ \/ fetch[p].st = "idle" /\ fetch'[p] = Asked
         \/ fetch' = fetch /\ (fetch[p].st # "idle" \/ p \in loaded \ invalid)
  <2>1. CASE fetch' = fetch /\ (fetch[p].st # "idle" \/ p \in loaded \ invalid)
    BY <1>1, <2>1 DEF ClientTyped
  <2>2. CASE fetch[p].st = "idle" /\ fetch' = [fetch EXCEPT ![p] = Asked]
    BY <1>1, <2>2, FetchTyped
  <2> QED BY <1>2, <2>1, <2>2
<1>4. joining' \subseteq Project /\ inRoom' \subseteq inRoom
  BY <1>1 DEF Show, Rejoin, SocketTyped
<1>5. troubles' \in 0..MaxTroubles
  BY <1>1, BoardSyncAssumption DEF Show, Trouble
<1> QED BY <1>3, <1>4, <1>5 DEF Show, server

\* An answer replaces the list.
LEMMA ReceiveTyped ==
  ASSUME TypeOK, NEW p \in Project, Receive(p)
  PROVE  /\ fetch[p].st = "answered" /\ fetch[p].list \in SUBSET Entry
         /\ cache' \in [Project -> SUBSET Entry]
         /\ cache'[p] = fetch[p].list /\ \A o \in Project \ {p} : cache'[o] = cache[o]
         /\ loaded' = loaded \cup {p} /\ invalid' = invalid \ {p}
         /\ fetch' \in [Project -> Fetch]
         /\ fetch'[p] = Idle /\ \A o \in Project \ {p} : fetch'[o] = fetch[o]
         /\ UNCHANGED <<rows, born, pending, log, held, conn, inRoom, joining, wire, shown, mut, troubles, off>>
<1>1. ClientTyped /\ Idle \in Fetch
  BY TypeParts, FetchValues
<1>2. fetch[p].st = "answered" /\ fetch[p].list \in SUBSET Entry
  BY <1>1 DEF Receive, ClientTyped, Fetch
<1>3. /\ cache' \in [Project -> SUBSET Entry]
      /\ cache'[p] = fetch[p].list /\ \A o \in Project \ {p} : cache'[o] = cache[o]
      /\ loaded' = loaded \cup {p}
  BY <1>1, <1>2, CacheTyped DEF Receive
<1>4. /\ fetch' \in [Project -> Fetch]
      /\ fetch'[p] = Idle /\ \A o \in Project \ {p} : fetch'[o] = fetch[o]
  BY <1>1, FetchTyped DEF Receive
<1> QED BY <1>2, <1>3, <1>4 DEF Receive, server, socket

\* A fetch is given up.
LEMMA FetchFailsTyped ==
  ASSUME TypeOK, NEW p \in Project, FetchFails(p)
  PROVE  /\ fetch' \in [Project -> Fetch]
         /\ fetch'[p] = Idle /\ \A o \in Project \ {p} : fetch'[o] = fetch[o]
         /\ invalid' = invalid \cup {p} /\ off' = off \cup {p} /\ troubles' \in 0..MaxTroubles
         /\ UNCHANGED <<rows, born, pending, log, held, conn, inRoom, joining, wire, shown, loaded, cache, mut>>
<1>1. ClientTyped /\ Idle \in Fetch /\ troubles \in 0..MaxTroubles
  BY TypeParts, FetchValues
<1>2. /\ fetch' \in [Project -> Fetch]
      /\ fetch'[p] = Idle /\ \A o \in Project \ {p} : fetch'[o] = fetch[o]
  BY <1>1, FetchTyped DEF FetchFails
<1>3. troubles' \in 0..MaxTroubles
  BY <1>1, BoardSyncAssumption DEF FetchFails, Trouble
<1> QED BY <1>2, <1>3 DEF FetchFails, server, socket

\* An optimistic change of the list on the screen.
LEMMA OptimisticTyped ==
  ASSUME TypeOK, NEW m \in Mutation, NEW kind \in Kind, NEW fld \in Field, NEW c \in Entry,
         Mutate(m, kind, fld, c)
  PROVE  /\ cache[shown] \in SUBSET Entry
         /\ cache' \in [Project -> SUBSET Entry]
         /\ cache'[shown] = Patched(cache[shown], kind, c)
         /\ \A o \in Project \ {shown} : cache'[o] = cache[o]
         /\ loaded' = loaded \cup {shown} /\ invalid' = invalid \ {shown}
         /\ fetch' \in [Project -> Fetch]
         /\ fetch'[shown] = Idle /\ \A o \in Project \ {shown} : fetch'[o] = fetch[o]
         /\ UNCHANGED <<rows, born, pending, log, held, conn, inRoom, joining, wire, shown, troubles, off>>
<1>1. ClientTyped /\ Idle \in Fetch
  BY TypeParts, FetchValues
<1>2. shown \in Project /\ cache[shown] \in SUBSET Entry
  BY <1>1 DEF ClientTyped
<1>3. Patched(cache[shown], kind, c) \in SUBSET Entry
  BY <1>2, PatchedTyped
<1>4. /\ cache' \in [Project -> SUBSET Entry]
      /\ cache'[shown] = Patched(cache[shown], kind, c)
      /\ \A o \in Project \ {shown} : cache'[o] = cache[o]
      /\ loaded' = loaded \cup {shown}
  BY <1>1, <1>2, <1>3, CacheTyped DEF Mutate
<1>5. /\ fetch' \in [Project -> Fetch]
      /\ fetch'[shown] = Idle /\ \A o \in Project \ {shown} : fetch'[o] = fetch[o]
  BY <1>1, <1>2, FetchTyped DEF Mutate
<1> QED BY <1>2, <1>4, <1>5 DEF Mutate, server, socket

\* A mutation settles: all but a create that failed invalidate the list, and a
\* failure restores it.
LEMMA SettleTyped ==
  ASSUME TypeOK, NEW q \in mut, Succeed(q) \/ MutationFails(q)
  PROVE  LET p == q.project IN
         /\ p \in Project /\ q.previous \in SUBSET Entry
         /\ mut' = mut \ {q}
         /\ mut' \subseteq Request /\ \A x, y \in mut' : x.m = y.m => x = y
         /\ \/ cache' = cache /\ loaded' = loaded
            \/ /\ q.kind # "created" /\ cache' \in [Project -> SUBSET Entry]
               /\ cache'[p] = q.previous /\ \A o \in Project \ {p} : cache'[o] = cache[o]
               /\ loaded' = loaded \cup {p}
         /\ \/ /\ invalid' = invalid \cup {p}
               /\ p = shown => fetch'[p] = Asked
               /\ p # shown => fetch'[p] = fetch[p]
            \/ /\ q.kind = "created" /\ cache' = cache /\ loaded' = loaded
               /\ invalid' = invalid /\ fetch' = fetch
         /\ fetch' \in [Project -> Fetch] /\ \A o \in Project \ {p} : fetch'[o] = fetch[o]
         /\ cache' \in [Project -> SUBSET Entry] /\ loaded' \subseteq Project
         /\ troubles' \in 0..MaxTroubles
         /\ UNCHANGED <<rows, born, pending, log, held, conn, inRoom, joining, wire, shown, off>>
<1> DEFINE p == q.project
<1>1. ClientTyped /\ troubles \in 0..MaxTroubles
  BY TypeParts
<1>2. p \in Project /\ q.previous \in SUBSET Entry
  BY <1>1 DEF ClientTyped, Request
<1>3. mut' = mut \ {q} /\ mut' \subseteq Request /\ \A x, y \in mut' : x.m = y.m => x = y
  BY <1>1, RequestsTyped DEF Succeed, MutationFails
<1>4. troubles' \in 0..MaxTroubles
  BY <1>1, BoardSyncAssumption DEF Succeed, MutationFails, Trouble
<1>5. UNCHANGED <<rows, born, pending, log, held, conn, inRoom, joining, wire, shown, off>>
  BY DEF Succeed, MutationFails, server, socket
<1>6. \/ cache' = cache /\ loaded' = loaded /\ Invalidate(p)
      \/ q.kind # "created" /\ SetQueryData(p, q.previous) /\ Invalidate(p)
      \/ q.kind = "created" /\ cache' = cache /\ loaded' = loaded /\ invalid' = invalid /\ fetch' = fetch
  BY DEF Succeed, MutationFails
<1> HIDE DEF p
<1>7. Invalidate(p) => /\ fetch' \in [Project -> Fetch] /\ invalid' = invalid \cup {p}
                       /\ p = shown => fetch'[p] = Asked
                       /\ p # shown => fetch'[p] = fetch[p]
                       /\ \A o \in Project \ {p} : fetch'[o] = fetch[o]
  BY <1>1, <1>2, InvalidateTyped
<1>8. SetQueryData(p, q.previous) =>
        /\ cache' \in [Project -> SUBSET Entry] /\ loaded' \subseteq Project
        /\ cache'[p] = q.previous /\ \A o \in Project \ {p} : cache'[o] = cache[o]
        /\ loaded' = loaded \cup {p}
  BY <1>1, <1>2, CacheTyped
<1>9. /\ cache \in [Project -> SUBSET Entry] /\ loaded \subseteq Project /\ fetch \in [Project -> Fetch]
  BY <1>1 DEF ClientTyped
<1>10. \/ cache' = cache /\ loaded' = loaded
       \/ /\ q.kind # "created" /\ cache' \in [Project -> SUBSET Entry]
          /\ cache'[p] = q.previous /\ \A o \in Project \ {p} : cache'[o] = cache[o]
          /\ loaded' = loaded \cup {p}
  BY <1>6, <1>8
<1>11. \/ /\ invalid' = invalid \cup {p}
          /\ p = shown => fetch'[p] = Asked
          /\ p # shown => fetch'[p] = fetch[p]
       \/ /\ q.kind = "created" /\ cache' = cache /\ loaded' = loaded
          /\ invalid' = invalid /\ fetch' = fetch
  BY <1>6, <1>7
<1>12. /\ fetch' \in [Project -> Fetch] /\ \A o \in Project \ {p} : fetch'[o] = fetch[o]
  BY <1>6, <1>7, <1>9
<1>13. cache' \in [Project -> SUBSET Entry] /\ loaded' \subseteq Project
  BY <1>6, <1>8, <1>9
<1> QED BY <1>2, <1>3, <1>4, <1>5, <1>10, <1>11, <1>12, <1>13 DEF p

\* Nothing of these steps reaches the server or the socket's events.
LEMMA TypeClientStep ==
  ASSUME TypeOK, MovesSetPlace,
         UNCHANGED <<rows, born, pending, log, held, conn, wire>>,
         inRoom' \subseteq inRoom, joining' \subseteq Project, ClientTyped',
         off' \subseteq Project, troubles' \in 0..MaxTroubles
  PROVE  TypeOK'
<1>1. /\ ServerTyped /\ SocketTyped /\ EventsLogged
  BY TypeParts
<1>2. ServerTyped' /\ EventsLogged'
  BY <1>1 DEF ServerTyped, EventsLogged, Out
<1>3. SocketTyped'
  BY <1>1 DEF SocketTyped
<1> QED BY <1>2, <1>3 DEF TypeOK, ServerTyped, SocketTyped, ClientTyped, EventsLogged, Out

\* Every step keeps the types.
LEMMA TypeStep == TypeOK /\ MovesSetPlace /\ [Next]_vars => TypeOK' /\ MovesSetPlace'
<1> SUFFICES ASSUME TypeOK, MovesSetPlace, [Next]_vars
             PROVE  TypeOK' /\ MovesSetPlace'
  OBVIOUS
<1>1. /\ ServerTyped /\ SocketTyped /\ ClientTyped /\ EventsLogged
      /\ off \subseteq Project /\ troubles \in 0..MaxTroubles
      /\ joining \subseteq Project
  BY TypeParts DEF SocketTyped
<1>2. mut' = mut => MovesSetPlace'
  BY DEF MovesSetPlace
<1>3. CASE (\E kind \in Kind, fld \in Field, c \in Entry : OtherWrite(kind, fld, c)) \/ \E q \in mut : Commit(q)
  BY <1>3, TypeWriteStep
<1>4. CASE \/ \E e \in pending : Emit(e)
           \/ \E p \in Project : Joined(p)
           \/ Disconnect \/ Reconnect \/ TokenRefreshed
  <2>1. mut' = mut
    BY <1>4 DEF Emit, Joined, Disconnect, Reconnect, TokenRefreshed, client
  <2> QED BY <1>2, <1>4, <2>1, TypeSocketStep
<1>5. CASE Deliver
  <2>1. mut' = mut
    BY <1>5 DEF Deliver
  <2> QED BY <1>2, <1>5, <2>1, TypeDeliverStep
<1>6. ASSUME NEW p \in Project, Answer(p)
      PROVE  TypeOK' /\ MovesSetPlace'
  <2>1. /\ UNCHANGED <<rows, born, pending, log, held, conn, inRoom, joining, wire>>
        /\ UNCHANGED <<shown, loaded, cache, invalid, mut, troubles>>
    BY <1>6 DEF Answer, server, socket
  <2>2. fetch' \in [Project -> Fetch] /\ off' \subseteq Project
    BY <1>1, <1>6, AnswerTyped
  <2>3. ClientTyped'
    BY <1>1, <2>1, <2>2 DEF ClientTyped
  <2> QED BY <1>1, <1>2, <2>1, <2>2, <2>3, TypeClientStep
<1>7. ASSUME NEW p \in Project, Show(p)
      PROVE  TypeOK' /\ MovesSetPlace'
  <2>1. ClientTyped'
    BY <1>1, <1>7, ShowTyped DEF ClientTyped
  <2> QED BY <1>1, <1>2, <1>7, <2>1, ShowTyped, TypeClientStep
<1>8. ASSUME NEW p \in Project, Receive(p)
      PROVE  TypeOK' /\ MovesSetPlace'
  <2>1. ClientTyped'
    BY <1>1, <1>8, ReceiveTyped DEF ClientTyped
  <2> QED BY <1>1, <1>2, <1>8, <2>1, ReceiveTyped, TypeClientStep
<1>9. ASSUME NEW p \in Project, FetchFails(p)
      PROVE  TypeOK' /\ MovesSetPlace'
  <2>1. ClientTyped'
    BY <1>1, <1>9, FetchFailsTyped DEF ClientTyped
  <2> QED BY <1>1, <1>2, <1>9, <2>1, FetchFailsTyped, TypeClientStep
<1>10. ASSUME NEW m \in Mutation, NEW kind \in Kind, NEW fld \in Field, NEW c \in Entry, Mutate(m, kind, fld, c)
       PROVE  TypeOK' /\ MovesSetPlace'
  <2>1. /\ mut' \subseteq Request /\ \A x, y \in mut' : x.m = y.m => x = y
        /\ MovesSetPlace'
    BY <1>10, MutateTyped
  <2>2. ClientTyped'
    BY <1>1, <1>10, <2>1, OptimisticTyped DEF ClientTyped
  <2> QED BY <1>1, <1>10, <2>1, <2>2, OptimisticTyped, TypeClientStep
<1>11. ASSUME NEW m \in Mutation, NEW c \in Entry, MutateCreate(m, c)
       PROVE  TypeOK' /\ MovesSetPlace'
  <2>2. /\ mut' \subseteq Request /\ \A x, y \in mut' : x.m = y.m => x = y
        /\ MovesSetPlace'
    BY <1>11, CreateTyped
  <2>3. /\ UNCHANGED <<rows, born, pending, log, held, conn, inRoom, joining, wire>>
        /\ UNCHANGED <<shown, loaded, cache, invalid, fetch, troubles, off>>
    BY <1>11 DEF MutateCreate, server, socket
  <2>4. ClientTyped'
    BY <1>1, <2>2, <2>3 DEF ClientTyped
  <2> QED BY <1>1, <2>2, <2>3, <2>4, TypeClientStep
<1>12. ASSUME NEW q \in mut, Succeed(q) \/ MutationFails(q)
       PROVE  TypeOK' /\ MovesSetPlace'
  <2>1. /\ UNCHANGED <<rows, born, pending, log, held, conn, inRoom, joining, wire, shown, off>>
        /\ mut' \subseteq Request /\ (\A x, y \in mut' : x.m = y.m => x = y) /\ mut' = mut \ {q}
        /\ fetch' \in [Project -> Fetch] /\ cache' \in [Project -> SUBSET Entry] /\ loaded' \subseteq Project
        /\ invalid' \subseteq Project
        /\ troubles' \in 0..MaxTroubles
    BY <1>1, <1>12, SettleTyped DEF ClientTyped
  <2>2. ClientTyped' /\ MovesSetPlace'
    BY <1>1, <2>1 DEF ClientTyped, MovesSetPlace
  <2> QED BY <1>1, <2>1, <2>2, TypeClientStep
<1>13. CASE UNCHANGED vars
  <2>1. /\ UNCHANGED <<rows, born, pending, log, held, conn, inRoom, joining, wire>>
        /\ UNCHANGED <<shown, loaded, cache, invalid, fetch, mut, troubles, off>>
    BY <1>13 DEF vars, server, socket, client
  <2>2. ClientTyped'
    BY <1>1, <2>1 DEF ClientTyped
  <2> QED BY <1>1, <1>2, <2>1, <2>2, TypeClientStep
<1> QED BY <1>3, <1>4, <1>5, <1>6, <1>7, <1>8, <1>9, <1>10, <1>11, <1>12, <1>13 DEF Next

\* The types and the two invariants of the lists, without the events.
ListsInv == TypeOK /\ MovesSetPlace /\ ListsUnique /\ ShownIsFetched /\ GuessesReplaced
----------------------------------------------------------------------------
(* Lists: one card per issue, and guesses that are replaced.               *)

\* What the server has stored once it has stored.
LEMMA GenuineKept ==
  ASSUME held \subseteq held', NEW x, Genuine(x)
  PROVE  /\ \E h \in held' : h.id = x.id /\ h.place = x.place
         /\ \E h \in held' : h.id = x.id /\ h.text = x.text
BY DEF Genuine

\* A list without guesses is patched without guesses by what the server stored.
LEMMA PatchedGenuine ==
  ASSUME NEW list \in SUBSET Entry, NEW kind \in Kind, NEW c \in Entry, c \in held,
         \A x \in list : Genuine(x)
  PROVE  \A x \in Patched(list, kind, c) : Genuine(x)
<1> SUFFICES ASSUME NEW x \in Patched(list, kind, c)
             PROVE  Genuine(x)
  OBVIOUS
<1>1. CASE x.id # c.id
  BY <1>1, PatchedCards
<1>2. CASE x \in list
  BY <1>2
<1>3. CASE x = c
  BY <1>3 DEF Genuine
<1>4. CASE x.id = c.id /\ x.place = c.place /\ \E y \in list : y.id = c.id /\ x.text = y.text
  BY <1>4 DEF Genuine
<1> QED BY <1>1, <1>2, <1>3, <1>4, PatchedCards

\* The table after a write.
LEMMA WriteUnique ==
  ASSUME ListsUnique, NEW kind, NEW c \in Entry, NEW new \in Entry, Written(kind, c, new)
  PROVE  UniqueIds(rows') /\ \A x \in rows' : x.id \in born'
<1>1. /\ UniqueIds(rows) /\ \A x \in rows : x.id \in born
      /\ new.id = c.id /\ born' = born \cup {c.id}
  BY DEF ListsUnique, Written
<1>2. \/ c.id \notin born /\ rows' = rows \cup {new}
      \/ \E x \in rows : x.id = c.id /\ rows' = (rows \ {x}) \cup {new}
      \/ \E x \in rows : rows' = rows \ {x}
  BY DEF Written
<1> QED BY <1>1, <1>2 DEF UniqueIds

\* A write adds what it stores and touches no list of the tab.
LEMMA ListsWriteStep ==
  ASSUME ListsInv, NEW kind, NEW c \in Entry, NEW new \in Entry, Written(kind, c, new),
         UNCHANGED <<shown, loaded, cache, invalid, fetch, off>>,
         \A r \in mut' : \E q \in mut : r.previous = q.previous,
         \A q \in mut : \E r \in mut' : r.project = q.project /\ r.kind = q.kind
  PROVE  ListsUnique' /\ ShownIsFetched' /\ GuessesReplaced'
<1>1. ListsUnique'
  BY WriteUnique DEF ListsInv, ListsUnique
<1>2. ShownIsFetched'
  BY DEF ListsInv, ShownIsFetched
<1>3. held \subseteq held' /\ rows' \subseteq held'
  BY DEF ListsInv, GuessesReplaced, Written
<1>4. \A x : Genuine(x) => Genuine(x)'
  BY <1>3, GenuineKept DEF Genuine
<1>5. \A p \in Project : Guessing(p) => Guessing(p)'
  BY DEF Guessing
<1>6. GuessesReplaced'
  BY <1>3, <1>4, <1>5 DEF ListsInv, GuessesReplaced
<1> QED BY <1>1, <1>2, <1>6

\* The server stands still: only the tab's own lists matter.
LEMMA ListsStandStill ==
  ASSUME ListsInv, UNCHANGED <<rows, born, held>>
  PROVE  /\ \A x : Genuine(x)' <=> Genuine(x)
         /\ UniqueIds(rows)' /\ (\A x \in rows : x.id \in born)' /\ (rows \subseteq held)'
         /\ mut' = mut => \A p \in Project : Guessing(p)' <=> Guessing(p)
         /\ \A p \in Project : UniqueIds(cache[p]) /\ UniqueIds(fetch[p].list)
         /\ \A q \in mut : UniqueIds(q.previous)
         /\ \A p \in Project : \A x \in fetch[p].list : Genuine(x)
         /\ \A p \in Project : (\E x \in cache[p] : ~Genuine(x)) =>
              Guessing(p) \/ fetch[p].st # "idle" \/ p \in off \/ (p \in invalid /\ p # shown)
         /\ shown \notin loaded \/ shown \in invalid => fetch[shown].st # "idle" \/ shown \in off
BY DEF ListsInv, ListsUnique, GuessesReplaced, ShownIsFetched, Genuine, Guessing, UniqueIds

\* Steps of the socket change no list and lose no mark.
LEMMA ListsSocketStep ==
  ASSUME ListsInv, UNCHANGED <<rows, born, held, shown, loaded, cache, invalid, fetch, mut>>,
         off \subseteq off'
  PROVE  ListsUnique' /\ ShownIsFetched' /\ GuessesReplaced'
<1>1. ListsUnique'
  BY DEF ListsInv, ListsUnique
<1>2. ShownIsFetched'
  BY DEF ListsInv, ShownIsFetched
<1>3. GuessesReplaced'
  BY DEF ListsInv, GuessesReplaced, Genuine, Guessing
<1> QED BY <1>1, <1>2, <1>3

\* An event patches one list, with a card that the server has stored.
LEMMA ListsDeliverStep ==
  ASSUME ListsInv, Deliver
  PROVE  ListsUnique' /\ ShownIsFetched' /\ GuessesReplaced'
<1> DEFINE e == Head(wire)
           list == Patched(cache[shown], e.kind, e.card)
<1>1. /\ e \in Out /\ e.kind \in Kind /\ e.card \in Entry
      /\ SetQueryData(shown, list) /\ cache[shown] \in SUBSET Entry /\ list \in SUBSET Entry
      /\ invalid' = invalid \ {shown}
      /\ UNCHANGED <<rows, born, held, shown, fetch, mut>>
  BY DeliverTyped DEF ListsInv
<1>2. off \subseteq off'
  BY DEF Deliver
<1>3. ClientTyped /\ EventsLogged /\ shown \in Project
  BY TypeParts DEF ListsInv, ClientTyped
<1>4. e.card \in held
  BY <1>1, <1>3 DEF EventsLogged
<1> HIDE DEF e
<1>5. UniqueIds(cache[shown]) => UniqueIds(list)
  BY <1>1, PatchedCards
<1>6. (\A x \in cache[shown] : Genuine(x)) => \A x \in list : Genuine(x)
  BY <1>1, <1>4, PatchedGenuine
<1> HIDE DEF list
<1>7. /\ cache' \in [Project -> SUBSET Entry] /\ loaded' = loaded \cup {shown}
      /\ cache'[shown] = list /\ \A o \in Project \ {shown} : cache'[o] = cache[o]
  BY <1>1, <1>3, CacheTyped
<1>8. /\ \A x : Genuine(x)' <=> Genuine(x)
      /\ \A p \in Project : Guessing(p)' <=> Guessing(p)
  BY <1>1, ListsStandStill
<1>9. ListsUnique'
  BY <1>1, <1>5, <1>7 DEF ListsInv, ListsUnique
<1>10. ShownIsFetched'
  BY <1>1, <1>2, <1>7 DEF ListsInv, ShownIsFetched
<1>11. ASSUME NEW p \in Project, \E x \in cache'[p] : ~Genuine(x)'
       PROVE  (Guessing(p) \/ fetch[p].st # "idle" \/ p \in off \/ (p \in invalid /\ p # shown))'
  <2>1. \E x \in cache[p] : ~Genuine(x)
    BY <1>6, <1>7, <1>8, <1>11
  <2>2. Guessing(p) \/ fetch[p].st # "idle" \/ p \in off \/ (p \in invalid /\ p # shown)
    BY <2>1 DEF ListsInv, GuessesReplaced
  <2> QED BY <1>1, <1>2, <1>8, <2>2
<1>12. GuessesReplaced'
  BY <1>1, <1>8, <1>11 DEF ListsInv, GuessesReplaced
<1> QED BY <1>9, <1>10, <1>12

\* The fetch of a list: asked for by opening a board, answered, received or not.
LEMMA ListsFetchStep ==
  ASSUME ListsInv, NEW p \in Project, Answer(p) \/ Show(p) \/ Receive(p) \/ FetchFails(p)
  PROVE  ListsUnique' /\ ShownIsFetched' /\ GuessesReplaced'
<1>1. TypeOK /\ shown \in Project /\ ClientTyped
  BY TypeParts DEF ListsInv, ClientTyped
<1>2. UNCHANGED <<rows, born, held, mut>>
  BY DEF Answer, Show, Receive, FetchFails, server
<1>3. /\ \A x : Genuine(x)' <=> Genuine(x)
      /\ UniqueIds(rows)' /\ (\A x \in rows : x.id \in born)' /\ (rows \subseteq held)'
      /\ \A o \in Project : Guessing(o)' <=> Guessing(o)
      /\ \A o \in Project : UniqueIds(cache[o]) /\ UniqueIds(fetch[o].list)
      /\ \A q \in mut : UniqueIds(q.previous)
      /\ \A o \in Project : \A x \in fetch[o].list : Genuine(x)
      /\ \A o \in Project : (\E x \in cache[o] : ~Genuine(x)) =>
           Guessing(o) \/ fetch[o].st # "idle" \/ o \in off \/ (o \in invalid /\ o # shown)
      /\ shown \notin loaded \/ shown \in invalid => fetch[shown].st # "idle" \/ shown \in off
  BY <1>2, ListsStandStill
<1>4. UniqueIds({}) /\ Idle.list = {} /\ Asked.list = {} /\ Asked.st = "asked"
  BY FetchValues DEF UniqueIds
<1>5. CASE Answer(p)
  <2>1. PICK list \in SUBSET RowsOf(p) :
           /\ fetch'[p].st = "answered" /\ fetch'[p].list = list
           /\ \A o \in Project \ {p} : fetch'[o] = fetch[o]
           /\ off \ {p} \subseteq off'
    BY <1>1, <1>5, AnswerTyped
  <2>2. UNCHANGED <<shown, loaded, cache, invalid>>
    BY <1>5 DEF Answer
  <2>3. UniqueIds(list) /\ \A x \in list : Genuine(x)
    BY <2>1 DEF ListsInv, ListsUnique, GuessesReplaced, UniqueIds, RowsOf, Genuine
  <2>4. ListsUnique'
    BY <1>2, <1>3, <2>1, <2>2, <2>3 DEF ListsUnique
  <2>5. ShownIsFetched'
    BY <1>3, <2>1, <2>2, <1>1 DEF ShownIsFetched
  <2>6. GuessesReplaced'
    BY <1>3, <2>1, <2>2, <2>3 DEF GuessesReplaced
  <2> QED BY <2>4, <2>5, <2>6
<1>6. CASE Show(p)
  <2>1. /\ p # shown /\ shown' = p
        /\ \A o \in Project \ {p} : fetch'[o] = fetch[o]
        /\ \/ fetch[p].st = "idle" /\ fetch'[p] = Asked
           \/ fetch' = fetch /\ (fetch[p].st # "idle" \/ p \in loaded \ invalid)
        /\ UNCHANGED <<loaded, cache, invalid, off>>
    BY <1>1, <1>6, ShowTyped
  <2>2. \A o \in Project : fetch[o].st # "idle" => fetch'[o].st # "idle"
    BY <1>4, <2>1
  <2>3. \A o \in Project : fetch'[o].list = fetch[o].list \/ fetch'[o].list = {}
    BY <1>4, <2>1
  <2>4. ListsUnique'
    BY <1>2, <1>3, <1>4, <2>1, <2>3 DEF ListsUnique
  <2>5. ShownIsFetched'
    BY <1>4, <2>1 DEF ShownIsFetched
  <2>6. \A o \in Project : (\E x \in cache[o] : ~Genuine(x)) =>
           Guessing(o) \/ fetch'[o].st # "idle" \/ o \in off \/ (o \in invalid /\ o # p)
    <3> SUFFICES ASSUME NEW o \in Project, \E x \in cache[o] : ~Genuine(x)
                 PROVE  Guessing(o) \/ fetch'[o].st # "idle" \/ o \in off \/ (o \in invalid /\ o # p)
      OBVIOUS
    <3>1. Guessing(o) \/ fetch[o].st # "idle" \/ o \in off \/ (o \in invalid /\ o # shown)
      BY <1>3
    <3> QED BY <1>4, <2>1, <2>2, <3>1
  <2>7. GuessesReplaced'
    BY <1>3, <2>1, <2>3, <2>6 DEF GuessesReplaced
  <2> QED BY <2>4, <2>5, <2>7
<1>7. CASE Receive(p)
  <2>1. /\ cache'[p] = fetch[p].list /\ \A o \in Project \ {p} : cache'[o] = cache[o]
        /\ loaded' = loaded \cup {p} /\ invalid' = invalid \ {p}
        /\ fetch'[p] = Idle /\ \A o \in Project \ {p} : fetch'[o] = fetch[o]
        /\ UNCHANGED <<shown, off>>
    BY <1>1, <1>7, ReceiveTyped
  <2>2. ListsUnique'
    BY <1>2, <1>3, <1>4, <2>1 DEF ListsUnique
  <2>3. ShownIsFetched'
    BY <1>1, <1>3, <2>1 DEF ShownIsFetched
  <2>4. GuessesReplaced'
    BY <1>3, <1>4, <2>1 DEF GuessesReplaced
  <2> QED BY <2>2, <2>3, <2>4
<1>8. CASE FetchFails(p)
  <2>1. /\ fetch'[p] = Idle /\ \A o \in Project \ {p} : fetch'[o] = fetch[o]
        /\ invalid' = invalid \cup {p} /\ off' = off \cup {p}
        /\ UNCHANGED <<shown, loaded, cache>>
    BY <1>1, <1>8, FetchFailsTyped
  <2>2. ListsUnique'
    BY <1>2, <1>3, <1>4, <2>1 DEF ListsUnique
  <2>3. ShownIsFetched'
    BY <1>1, <1>3, <2>1 DEF ShownIsFetched
  <2>4. GuessesReplaced'
    BY <1>3, <1>4, <2>1 DEF GuessesReplaced
  <2> QED BY <2>2, <2>3, <2>4
<1> QED BY <1>5, <1>6, <1>7, <1>8

\* This tab's mutations: sent, and settled.
LEMMA ListsMutateStep ==
  ASSUME ListsInv,
         \/ \E m \in Mutation, kind \in Kind, fld \in Field, c \in Entry : Mutate(m, kind, fld, c)
         \/ \E m \in Mutation, c \in Entry : MutateCreate(m, c)
  PROVE  ListsUnique' /\ ShownIsFetched' /\ GuessesReplaced'
<1>1. TypeOK /\ MovesSetPlace /\ shown \in Project /\ ClientTyped
  BY TypeParts DEF ListsInv, ClientTyped
<1>2. UNCHANGED <<rows, born, held>>
  BY DEF Mutate, MutateCreate, server
<1>3. /\ \A x : Genuine(x)' <=> Genuine(x)
      /\ UniqueIds(rows)' /\ (\A x \in rows : x.id \in born)' /\ (rows \subseteq held)'
      /\ \A o \in Project : UniqueIds(cache[o]) /\ UniqueIds(fetch[o].list)
      /\ \A q \in mut : UniqueIds(q.previous)
      /\ \A o \in Project : \A x \in fetch[o].list : Genuine(x)
      /\ \A o \in Project : (\E x \in cache[o] : ~Genuine(x)) =>
           Guessing(o) \/ fetch[o].st # "idle" \/ o \in off \/ (o \in invalid /\ o # shown)
      /\ shown \notin loaded \/ shown \in invalid => fetch[shown].st # "idle" \/ shown \in off
  BY <1>2, ListsStandStill
<1>4. UniqueIds({}) /\ Idle.list = {}
  BY FetchValues DEF UniqueIds
<1>5. ASSUME NEW m \in Mutation, NEW kind \in Kind, NEW fld \in Field, NEW c \in Entry, Mutate(m, kind, fld, c)
      PROVE  ListsUnique' /\ ShownIsFetched' /\ GuessesReplaced'
  <2>1. /\ cache[shown] \in SUBSET Entry
        /\ cache'[shown] = Patched(cache[shown], kind, c)
        /\ \A o \in Project \ {shown} : cache'[o] = cache[o]
        /\ loaded' = loaded \cup {shown} /\ invalid' = invalid \ {shown}
        /\ fetch'[shown] = Idle /\ \A o \in Project \ {shown} : fetch'[o] = fetch[o]
        /\ UNCHANGED <<shown, off>>
    BY <1>1, <1>5, OptimisticTyped
  <2>2. kind # "created"
    BY <1>1, <1>5, MutateTyped
  <2>3. PICK q \in Request : /\ q.project = shown /\ q.kind = kind
                             /\ q.previous = cache[shown] /\ mut' = mut \cup {q}
    BY <1>1, <1>5, MutateTyped
  <2>4. UniqueIds(Patched(cache[shown], kind, c))
    BY <1>1, <1>3, <2>1, PatchedCards
  <2>5. Guessing(shown)' /\ \A o \in Project : Guessing(o) => Guessing(o)'
    BY <2>1, <2>2, <2>3 DEF Guessing
  <2>6. ListsUnique'
    BY <1>1, <1>2, <1>3, <1>4, <2>1, <2>3, <2>4 DEF ListsUnique
  <2>7. ShownIsFetched'
    BY <2>1 DEF ShownIsFetched
  <2>8. GuessesReplaced'
    BY <1>3, <1>4, <2>1, <2>5 DEF GuessesReplaced
  <2> QED BY <2>6, <2>7, <2>8
<1>6. ASSUME NEW m \in Mutation, NEW c \in Entry, MutateCreate(m, c)
      PROVE  ListsUnique' /\ ShownIsFetched' /\ GuessesReplaced'
  <2>1. UNCHANGED <<shown, loaded, cache, invalid, fetch, off>>
    BY <1>6 DEF MutateCreate
  <2>2. PICK q \in Request : q.previous = {} /\ mut' = mut \cup {q}
    BY <1>1, <1>6, CreateTyped
  <2>3. \A o \in Project : Guessing(o) => Guessing(o)'
    BY <2>2 DEF Guessing
  <2>4. ListsUnique'
    BY <1>2, <1>3, <1>4, <2>1, <2>2 DEF ListsUnique
  <2>5. ShownIsFetched'
    BY <1>3, <2>1 DEF ShownIsFetched
  <2>6. GuessesReplaced'
    BY <1>3, <2>1, <2>3 DEF GuessesReplaced
  <2> QED BY <2>4, <2>5, <2>6
<1> QED BY <1>5, <1>6

\* A settled mutation has its list fetched, at once or when it is shown; a
\* rollback may bring back guesses of another one, which that fetch replaces.
LEMMA ListsSettleStep ==
  ASSUME ListsInv, NEW q \in mut, Succeed(q) \/ MutationFails(q), NEW p, p = q.project
  PROVE  ListsUnique' /\ ShownIsFetched' /\ GuessesReplaced'
<1>1. TypeOK /\ shown \in Project /\ ClientTyped
  BY TypeParts DEF ListsInv, ClientTyped
<1>2. /\ p \in Project
      /\ mut' = mut \ {q}
      /\ \/ cache' = cache /\ loaded' = loaded
         \/ /\ q.kind # "created"
            /\ cache'[p] = q.previous /\ \A o \in Project \ {p} : cache'[o] = cache[o]
            /\ loaded' = loaded \cup {p}
      /\ \/ /\ invalid' = invalid \cup {p}
            /\ p = shown => fetch'[p] = Asked
            /\ p # shown => fetch'[p] = fetch[p]
         \/ /\ q.kind = "created" /\ cache' = cache /\ loaded' = loaded
            /\ invalid' = invalid /\ fetch' = fetch
      /\ \A o \in Project \ {p} : fetch'[o] = fetch[o]
      /\ UNCHANGED <<rows, born, held, shown, off>>
  BY <1>1, SettleTyped
<1>3. /\ \A x : Genuine(x)' <=> Genuine(x)
      /\ UniqueIds(rows)' /\ (\A x \in rows : x.id \in born)' /\ (rows \subseteq held)'
      /\ \A o \in Project : UniqueIds(cache[o]) /\ UniqueIds(fetch[o].list)
      /\ \A x \in mut : UniqueIds(x.previous)
      /\ \A o \in Project : \A x \in fetch[o].list : Genuine(x)
      /\ \A o \in Project : (\E x \in cache[o] : ~Genuine(x)) =>
           Guessing(o) \/ fetch[o].st # "idle" \/ o \in off \/ (o \in invalid /\ o # shown)
      /\ shown \notin loaded \/ shown \in invalid => fetch[shown].st # "idle" \/ shown \in off
  BY <1>2, ListsStandStill
<1>4. UniqueIds({}) /\ Asked.list = {} /\ Asked.st = "asked"
  BY FetchValues DEF UniqueIds
<1>5. \A o \in Project : fetch'[o].list = fetch[o].list \/ fetch'[o].list = {}
  BY <1>1, <1>2, <1>4
<1>6. \A o \in Project : fetch[o].st # "idle" => fetch'[o].st # "idle"
  BY <1>1, <1>2, <1>4
<1>7. ListsUnique'
  <2>1. \A o \in Project : UniqueIds(cache'[o]) /\ UniqueIds(fetch'[o].list)
    BY <1>2, <1>3, <1>4, <1>5
  <2>2. \A x \in mut' : UniqueIds(x.previous)
    BY <1>2, <1>3
  <2> QED BY <1>3, <2>1, <2>2 DEF ListsUnique
<1>8. ShownIsFetched'
  BY <1>1, <1>2, <1>3, <1>4, <1>6 DEF ShownIsFetched
<1>9. GuessesReplaced'
  <2>1. ASSUME NEW o \in Project, \E x \in cache'[o] : ~Genuine(x)
        PROVE  (Guessing(o) \/ fetch[o].st # "idle" \/ o \in off \/ (o \in invalid /\ o # shown))'
    <3>1. CASE o = p /\ q.kind # "created"
      <4>1. CASE p = shown /\ fetch'[p] = Asked
        BY <1>4, <3>1, <4>1
      <4>2. CASE p # shown
        BY <1>2, <3>1, <4>2
      <4> QED BY <1>2, <3>1, <4>1, <4>2
    <3>2. CASE o # p \/ q.kind = "created"
      <4>1. \E x \in cache[o] : ~Genuine(x)
        BY <1>2, <2>1, <3>2
      <4>2. Guessing(o) \/ fetch[o].st # "idle" \/ o \in off \/ (o \in invalid /\ o # shown)
        BY <1>3, <4>1
      <4>3. Guessing(o) => Guessing(o)'
        BY <1>2, <3>2 DEF Guessing
      <4>4. invalid \subseteq invalid'
        BY <1>2
      <4> QED BY <1>2, <1>6, <4>2, <4>3, <4>4
    <3> QED BY <3>1, <3>2
  <2>2. ASSUME NEW o \in Project, NEW x \in fetch'[o].list
        PROVE  Genuine(x)
    <3>1. x \in fetch[o].list
      BY <1>5, <2>2
    <3> QED BY <1>3, <3>1
  <2> QED BY <1>3, <2>1, <2>2 DEF GuessesReplaced
<1> QED BY <1>7, <1>8, <1>9

\* Every step keeps the lists unique and their guesses accounted for.
LEMMA ListsStep == ListsInv /\ [Next]_vars => ListsInv'
<1> SUFFICES ASSUME ListsInv, [Next]_vars
             PROVE  ListsUnique' /\ ShownIsFetched' /\ GuessesReplaced'
  BY TypeStep DEF ListsInv
<1>1. TypeOK /\ MovesSetPlace
  BY DEF ListsInv
<1>2. ASSUME NEW kind \in Kind, NEW fld \in Field, NEW c \in Entry, OtherWrite(kind, fld, c)
      PROVE  ListsUnique' /\ ShownIsFetched' /\ GuessesReplaced'
  <2>1. /\ kind = "moved" => fld = "place"
        /\ Write(kind, fld, c)
        /\ UNCHANGED <<shown, loaded, cache, invalid, fetch, off>> /\ mut' = mut
    BY <1>2 DEF OtherWrite, Asks, client
  <2>2. PICK new \in Entry : Written(kind, c, new)
    BY <1>1, <2>1, WriteEffect
  <2> QED BY <2>1, <2>2, ListsWriteStep
<1>3. ASSUME NEW q \in mut, Commit(q)
      PROVE  ListsUnique' /\ ShownIsFetched' /\ GuessesReplaced'
  <2>1. UNCHANGED <<shown, loaded, cache, invalid, fetch, off>>
    BY <1>3 DEF Commit
  <2>2. PICK new \in Entry : Written(q.kind, q.card, new)
    BY <1>1, <1>3, CommitTyped
  <2>3. q.card \in Entry
    BY <1>1, <1>3, CommitTyped
  <2>4. PICK r \in Request :
              /\ mut' = (mut \ {q}) \cup {r}
              /\ r.project = q.project /\ r.kind = q.kind /\ r.previous = q.previous
    BY <1>1, <1>3, CommitTyped
  <2>5. /\ \A x \in mut' : \E y \in mut : x.previous = y.previous
        /\ \A y \in mut : \E x \in mut' : x.project = y.project /\ x.kind = y.kind
    BY <2>4
  <2> QED BY <2>1, <2>2, <2>3, <2>5, ListsWriteStep
<1>4. CASE \/ \E e \in pending : Emit(e)
           \/ \E p \in Project : Joined(p)
           \/ Disconnect \/ Reconnect \/ TokenRefreshed \/ UNCHANGED vars
  <2>1. UNCHANGED <<rows, born, held, shown, loaded, cache, invalid, fetch, mut>> /\ off \subseteq off'
    BY <1>4 DEF Emit, Joined, Disconnect, Reconnect, TokenRefreshed, server, client, vars
  <2> QED BY <2>1, ListsSocketStep
<1>5. CASE Deliver
  BY <1>5, ListsDeliverStep
<1>6. ASSUME NEW p \in Project, Answer(p) \/ Show(p) \/ Receive(p) \/ FetchFails(p)
      PROVE  ListsUnique' /\ ShownIsFetched' /\ GuessesReplaced'
  BY <1>6, ListsFetchStep
<1>7. CASE \/ \E m \in Mutation, kind \in Kind, fld \in Field, c \in Entry : Mutate(m, kind, fld, c)
           \/ \E m \in Mutation, c \in Entry : MutateCreate(m, c)
  BY <1>7, ListsMutateStep
<1>8. ASSUME NEW q \in mut, Succeed(q) \/ MutationFails(q)
      PROVE  ListsUnique' /\ ShownIsFetched' /\ GuessesReplaced'
  <2>1. \E p : p = q.project
    OBVIOUS
  <2> QED BY <1>8, <2>1, ListsSettleStep
<1> QED BY <1>2, <1>3, <1>4, <1>5, <1>6, <1>7, <1>8 DEF Next

LEMMA ListsInit == Init => ListsInv
<1> SUFFICES ASSUME Init
             PROVE  ListsInv
  OBVIOUS
<1>1. /\ rows \subseteq Entry /\ UniqueIds(rows) /\ held = rows /\ born = {x.id : x \in rows}
      /\ log = <<>> /\ pending = {} /\ conn = TRUE /\ inRoom = {} /\ wire = <<>>
      /\ shown \in Project /\ joining = {shown}
      /\ loaded = {} /\ invalid = {} /\ off = {} /\ mut = {}
      /\ cache = [p \in Project |-> {}]
      /\ fetch = [p \in Project |-> IF p = shown THEN Asked ELSE Idle]
      /\ troubles = 0
  BY DEF Init, UniqueIds
<1>2. /\ Asked \in Fetch /\ Idle \in Fetch /\ Asked.list = {} /\ Idle.list = {} /\ Asked.st = "asked"
  BY FetchValues
<1>3. /\ \A p \in Project : cache[p] = {} /\ fetch[p].list = {}
      /\ cache \in [Project -> SUBSET Entry] /\ fetch \in [Project -> Fetch]
      /\ fetch[shown] = Asked
  BY <1>1, <1>2
<1>4. born \subseteq Issue
  BY <1>1 DEF Entry
<1>5. TypeOK
  <2>1. ServerTyped
    BY <1>1, <1>4, BoardSyncAssumption DEF ServerTyped
  <2>2. SocketTyped
    BY <1>1 DEF SocketTyped
  <2>3. ClientTyped
    BY <1>1, <1>3 DEF ClientTyped
  <2>4. EventsLogged
    BY <1>1 DEF EventsLogged, Out
  <2>5. off \subseteq Project /\ troubles \in 0..MaxTroubles
    BY <1>1, BoardSyncAssumption
  <2> QED BY <2>1, <2>2, <2>3, <2>4, <2>5, TypeParts
<1>6. ListsUnique
  BY <1>1, <1>3 DEF ListsUnique, UniqueIds
<1>7. ShownIsFetched
  BY <1>2, <1>3 DEF ShownIsFetched
<1>8. GuessesReplaced
  BY <1>1, <1>3 DEF GuessesReplaced
<1>9. MovesSetPlace
  BY <1>1 DEF MovesSetPlace
<1> QED BY <1>5, <1>6, <1>7, <1>8, <1>9 DEF ListsInv

\* The types, one card per issue in every list, and guesses that are replaced.
THEOREM ListsInvariance == Spec => []ListsInv
<1>1. Init => ListsInv
  BY ListsInit
<1>2. ListsInv /\ [Next]_vars => ListsInv'
  BY ListsStep
<1> QED BY <1>1, <1>2, PTL DEF Spec

\* Every event on its way is that of a committed write and carries a card the
\* server has stored; a tab runs each of its mutations once.
THEOREM BoardTypeCorrect == Spec => []TypeOK
<1>1. ListsInv => TypeOK
  BY DEF ListsInv
<1> QED BY <1>1, ListsInvariance, PTL

\* The board has one card per issue, whatever creates, refetches and events cross.
THEOREM OneCardOnBoard == Spec => []OneCardPerIssue
<1>1. ListsInv => OneCardPerIssue
  BY DEF ListsInv, ListsUnique, UniqueIds, OneCardPerIssue
<1> QED BY <1>1, ListsInvariance, PTL

\* A value the server never stored stays in a list only while something is under
\* way, or marked, that will replace it.
THEOREM GuessesGo == Spec => []NoLastingGuesses
<1>1. ListsInv => NoLastingGuesses
  BY DEF ListsInv, GuessesReplaced, Guessing, NoLastingGuesses
<1> QED BY <1>1, ListsInvariance, PTL
----------------------------------------------------------------------------
(* Events: each is on its way once, and is true of the table.              *)

LEMMA EventsTyped ==
  ASSUME TypeOK
  PROVE  /\ Len(log) \in Nat /\ DOMAIN log = 1..Len(log)
         /\ \A e \in Out : /\ e \in Event /\ e.n \in Nat /\ e.n \in DOMAIN log
                           /\ log[e.n] = e.card.id /\ e.card.id \in Issue /\ e.card \in Entry
                           /\ e.kind \in Kind
<1>1. ServerTyped /\ SocketTyped /\ EventsLogged
  BY TypeParts
<1>2. Len(log) \in Nat /\ DOMAIN log = 1..Len(log)
  BY <1>1 DEF ServerTyped
<1>3. \A e \in Out : e \in Event
  BY <1>1 DEF ServerTyped, SocketTyped, Out
<1>4. \A e \in Event : e.card \in Entry /\ e.card.id \in Issue /\ e.kind \in Kind
  BY DEF Event, Entry
<1> QED BY <1>1, <1>2, <1>3, <1>4 DEF EventsLogged

\* Emitting an event, delivering or losing one: no other event appears.
LEMMA OnceSocketStep ==
  ASSUME TypeOK, EventsOnce,
         \/ \E e \in pending : Emit(e)
         \/ Disconnect
         \/ Deliver
  PROVE  EventsOnce' /\ Out' \subseteq Out
<1>1. SocketTyped /\ ServerTyped
  BY TypeParts
<1>2. ASSUME NEW e \in pending, Emit(e)
      PROVE  EventsOnce' /\ Out' \subseteq Out
  <2>1. e \in Event
    BY <1>1 DEF ServerTyped
  <2>2. pending' = pending \ {e}
    BY <1>2 DEF Emit
  <2>3. CASE wire' = wire
    <3>1. Out' \subseteq Out
      BY <2>2, <2>3 DEF Out
    <3> QED BY <2>2, <2>3, <3>1 DEF EventsOnce
  <2>4. CASE wire' = Append(wire, e)
    <3>1. /\ Len(wire) \in Nat /\ DOMAIN wire = 1..Len(wire) /\ DOMAIN wire' = 1..(Len(wire) + 1)
          /\ \A k \in 1..Len(wire) : wire'[k] = wire[k]
          /\ wire'[Len(wire) + 1] = e
          /\ {wire'[k] : k \in DOMAIN wire'} = {wire[k] : k \in DOMAIN wire} \cup {e}
      BY <1>1, <2>1, <2>4, WireGrows DEF SocketTyped
    <3>2. Out' \subseteq Out
      BY <2>2, <3>1 DEF Out
    <3>3. \A k \in DOMAIN wire : wire[k] # e
      BY DEF EventsOnce
    <3>4. \A k \in DOMAIN wire' : k \in DOMAIN wire \/ k = Len(wire) + 1
      BY <3>1
    <3>5. \A k \in DOMAIN wire' : wire'[k] \notin pending'
      BY <2>2, <3>1, <3>4 DEF EventsOnce
    <3>6. \A k, l \in DOMAIN wire' : wire'[k] = wire'[l] => k = l
      BY <3>1, <3>3, <3>4 DEF EventsOnce
    <3>7. \A d, f \in Out' : d.n = f.n => d = f
      BY <3>2 DEF EventsOnce
    <3> QED BY <3>2, <3>5, <3>6, <3>7 DEF EventsOnce
  <2> QED BY <1>2, <2>3, <2>4 DEF Emit
<1>3. CASE Disconnect
  <2>1. pending' = pending /\ wire' = <<>>
    BY <1>3 DEF Disconnect, server
  <2>2. Out' \subseteq Out /\ DOMAIN wire' = {}
    BY <2>1 DEF Out
  <2> QED BY <2>2 DEF EventsOnce
<1>4. CASE Deliver
  <2>1. /\ wire # <<>> /\ wire' = Tail(wire) /\ pending' = pending
    BY <1>4 DEF Deliver, server
  <2>2. /\ Len(wire) \in Nat \ {0} /\ DOMAIN wire = 1..Len(wire) /\ DOMAIN wire' = 1..(Len(wire) - 1)
        /\ \A k \in DOMAIN wire' : wire'[k] = wire[k + 1] /\ k + 1 \in 2..Len(wire)
        /\ {wire[k] : k \in DOMAIN wire} = {wire'[k] : k \in DOMAIN wire'} \cup {Head(wire)}
    BY <1>1, <2>1, WireShrinks DEF SocketTyped
  <2>3. Out' \subseteq Out
    BY <2>1, <2>2 DEF Out
  <2>4. \A k \in DOMAIN wire' : k + 1 \in DOMAIN wire /\ k \in Nat
    BY <2>2
  <2>5. \A k \in DOMAIN wire' : wire'[k] \notin pending'
    BY <2>1, <2>2, <2>4 DEF EventsOnce
  <2>6. ASSUME NEW k \in DOMAIN wire', NEW l \in DOMAIN wire', wire'[k] = wire'[l]
        PROVE  k = l
    <3>1. k + 1 = l + 1
      BY <2>2, <2>4, <2>6 DEF EventsOnce
    <3> QED BY <2>4, <3>1
  <2>7. \A d, f \in Out' : d.n = f.n => d = f
    BY <2>3 DEF EventsOnce
  <2> QED BY <2>3, <2>5, <2>6, <2>7 DEF EventsOnce
<1> QED BY <1>2, <1>3, <1>4

\* The event that a handler takes is gone.
LEMMA HeadGone ==
  ASSUME TypeOK, EventsOnce, Deliver
  PROVE  /\ Head(wire) \in Out
         /\ Out' = Out \ {Head(wire)}
         /\ {x.n : x \in pending} \cup {wire[k].n : k \in 2..Len(wire)} = {f.n : f \in Out'}
<1>1. SocketTyped
  BY TypeParts
<1>2. /\ wire # <<>> /\ wire' = Tail(wire) /\ pending' = pending
  BY DEF Deliver, server
<1>3. /\ Len(wire) \in Nat \ {0} /\ DOMAIN wire = 1..Len(wire) /\ DOMAIN wire' = 1..(Len(wire) - 1)
      /\ Head(wire) = wire[1]
      /\ {wire[k] : k \in DOMAIN wire} = {wire'[k] : k \in DOMAIN wire'} \cup {Head(wire)}
      /\ {wire'[k] : k \in DOMAIN wire'} = {wire[k] : k \in 2..Len(wire)}
  BY <1>1, <1>2, WireShrinks DEF SocketTyped
<1>4. Out = Out' \cup {Head(wire)}
  BY <1>2, <1>3 DEF Out
<1>5. Head(wire) \notin Out'
  <2>1. 1 \in DOMAIN wire /\ \A k \in 2..Len(wire) : k \in DOMAIN wire /\ k # 1
    BY <1>3
  <2>2. Head(wire) \notin pending
    BY <1>3, <2>1 DEF EventsOnce
  <2>3. \A k \in 2..Len(wire) : wire[k] # Head(wire)
    BY <1>3, <2>1 DEF EventsOnce
  <2> QED BY <1>2, <1>3, <2>2, <2>3 DEF Out
<1>6. Out' = pending \cup {wire[k] : k \in 2..Len(wire)}
  BY <1>2, <1>3 DEF Out
<1>7. {f.n : f \in Out'} = {x.n : x \in pending} \cup {wire[k].n : k \in 2..Len(wire)}
  BY <1>6
<1> QED BY <1>4, <1>5, <1>7

\* When no row changes, an event that arrives or is lost leaves the others true:
\* a later one that is gone was delivered.
LEMMA TrueWithoutWrites ==
  ASSUME TypeOK, EventsOnce, EventsTrue, Out' \subseteq Out, UNCHANGED <<rows, born, log>>
  PROVE  EventsTrue'
<1>1. \A e \in Out : e.n \in DOMAIN log /\ e.n \in Nat /\ log[e.n] = e.card.id
  BY EventsTyped
<1>2. \A k \in DOMAIN log : log'[k] \in born'
  BY DEF EventsTrue
<1>3. ASSUME NEW e \in Out'
      PROVE  (NewestTold(e) /\ OrderKept(e) /\ RowTold(e) /\ TextTold(e))'
  <2>1. e \in Out /\ NewestTold(e) /\ OrderKept(e) /\ RowTold(e) /\ TextTold(e)
    BY <1>3 DEF EventsTrue
  <2>2. Later(e)' = Later(e)
    BY DEF Later
  <2>3. NewestTold(e)' /\ OrderKept(e)'
    BY <2>1, <2>2 DEF NewestTold, OrderKept
  <2>4. ASSUME \A k \in Later(e) : ~Delivered(k)'
        PROVE  /\ \A k \in Later(e) : ~Delivered(k)
               /\ \A f \in OutOf(e.card.id) : f.n > e.n => f \in OutOf(e.card.id)'
    <3>1. \A k \in Later(e) : ~Delivered(k)
      BY <2>4 DEF Delivered
    <3>2. ASSUME NEW f \in OutOf(e.card.id), f.n > e.n
          PROVE  f \in OutOf(e.card.id)'
      <4>1. f \in Out /\ f.card.id = e.card.id
        BY DEF OutOf
      <4>2. f.n \in Later(e)
        BY <1>1, <3>2, <4>1 DEF Later
      <4>3. PICK g \in Out' : g.n = f.n
        BY <2>4, <4>2 DEF Delivered
      <4>4. g = f
        BY <4>1, <4>3 DEF EventsOnce
      <4> QED BY <4>1, <4>3, <4>4 DEF OutOf
    <3> QED BY <3>1, <3>2
  <2>5. RowTold(e)'
    <3> SUFFICES ASSUME \A k \in Later(e) : ~Delivered(k)', \A r \in rows : r.id # e.card.id
                 PROVE  \E f \in OutOf(e.card.id)' : f.kind = "deleted"
      BY <2>2 DEF RowTold
    <3>1. PICK f \in OutOf(e.card.id) : f.kind = "deleted"
      BY <2>1, <2>4 DEF RowTold
    <3>2. f \in Out /\ f.card.id = e.card.id /\ Later(f) = {}
      BY <3>1 DEF OutOf, EventsTrue, OrderKept
    <3>3. ~(e.n > f.n)
      BY <1>1, <2>1, <3>2 DEF Later
    <3>4. CASE f.n > e.n
      BY <2>4, <3>1, <3>4
    <3>5. CASE f.n = e.n
      <4>1. f = e
        BY <2>1, <3>2, <3>5 DEF EventsOnce
      <4> QED BY <1>3, <3>1, <4>1 DEF OutOf
    <3> QED BY <1>1, <2>1, <3>2, <3>3, <3>4, <3>5
  <2>6. TextTold(e)'
    <3> SUFFICES ASSUME e.kind \in {"created", "updated"},
                        \A k \in Later(e) : ~Delivered(k)',
                        \A f \in OutOf(e.card.id)' : f.n > e.n => f.kind \notin {"updated", "deleted"}
                 PROVE  \E r \in rows : r.id = e.card.id /\ r.text = e.card.text
      BY <2>2 DEF TextTold
    <3> QED BY <2>1, <2>4 DEF TextTold
  <2> QED BY <2>3, <2>5, <2>6
<1> QED BY <1>2, <1>3 DEF EventsTrue

\* A write and its event: the event is the newest of its issue, and the others of
\* the issue are now followed by one that is on its way.
LEMMA EventsWriteStep ==
  ASSUME TypeOK, ListsUnique, EventsOnce, EventsTrue,
         NEW kind \in Kind, NEW c \in Entry, NEW new \in Entry, Written(kind, c, new), UNCHANGED wire
  PROVE  EventsOnce' /\ EventsTrue'
<1> DEFINE N == Len(log) + 1
<1>1. /\ Len(log) \in Nat /\ DOMAIN log = 1..Len(log)
      /\ DOMAIN log' = 1..N
      /\ \A k \in 1..Len(log) : log'[k] = log[k]
      /\ log'[N] = c.id
  BY WriteTyped
<1>2. PICK d \in Event : /\ d.n = N /\ d.kind = kind /\ d.card = new
                         /\ pending' = pending \cup {d} /\ Out' = Out \cup {d}
  BY WriteTyped
<1>3. \A e \in Out : e.n \in Nat /\ e.n \in DOMAIN log /\ log[e.n] = e.card.id /\ e.kind \in Kind
  BY EventsTyped
<1>4. /\ new.id = c.id /\ born' = born \cup {c.id}
      /\ \/ kind = "created" /\ c.id \notin born /\ rows' = rows \cup {new}
         \/ \E x \in rows :
              /\ x.id = c.id
              /\ \/ kind = "updated" /\ rows' = (rows \ {x}) \cup {new}
                 \/ kind = "moved" /\ new.text = x.text /\ rows' = (rows \ {x}) \cup {new}
                 \/ kind = "deleted" /\ new = x /\ rows' = rows \ {x}
  BY DEF Written
<1>5. /\ UniqueIds(rows) /\ \A x \in rows : x.id \in born
      /\ \A k \in DOMAIN log : log[k] \in born
  BY DEF ListsUnique, EventsTrue
<1>6. \A x : x.id # c.id => (x \in rows' <=> x \in rows)
  BY <1>4
<1>7. IF kind = "deleted" THEN \A x \in rows' : x.id # c.id ELSE new \in rows'
  BY <1>4, <1>5 DEF UniqueIds
<1> HIDE DEF N
<1>8. N \in Nat /\ N \notin DOMAIN log /\ N \in DOMAIN log'
      /\ \A k \in DOMAIN log : k < N /\ k \in DOMAIN log' /\ log'[k] = log[k]
  BY <1>1 DEF N
<1>9. \A k \in DOMAIN log' : k = N \/ k \in DOMAIN log
  BY <1>1 DEF N
<1>10. EventsOnce'
  <2>1. \A e, f \in Out' : e.n = f.n => e = f
    BY <1>2, <1>3, <1>8 DEF EventsOnce
  <2>2. \A k \in DOMAIN wire : wire[k] # d
    BY <1>2, <1>3, <1>8 DEF Out
  <2> QED BY <1>2, <2>1, <2>2 DEF EventsOnce
<1>11. \A k \in DOMAIN log' : log'[k] \in born'
  BY <1>1, <1>4, <1>5, <1>8, <1>9
<1>12. (NewestTold(d) /\ OrderKept(d) /\ RowTold(d) /\ TextTold(d))'
  <2>1. Later(d)' = {}
    <3>1. \A k \in DOMAIN log' : ~(k > N)
      BY <1>1, <1>8
    <3> QED BY <1>2, <3>1 DEF Later
  <2>2. NewestTold(d)'
    BY <1>2, <1>4, <1>7 DEF NewestTold
  <2>3. OrderKept(d)'
    BY <1>2, <1>4, <1>5, <1>8, <1>9, <2>1 DEF OrderKept
  <2>4. kind # "deleted" => new \in rows' /\ new.id = new.id /\ new.text = new.text
    BY <1>7
  <2>5. RowTold(d)'
    BY <1>2, <2>4 DEF RowTold, OutOf
  <2>6. TextTold(d)'
    BY <1>2, <2>4 DEF TextTold
  <2> QED BY <2>2, <2>3, <2>5, <2>6
<1>13. ASSUME NEW e \in Out
       PROVE  (NewestTold(e) /\ OrderKept(e) /\ RowTold(e) /\ TextTold(e))'
  <2>1. NewestTold(e) /\ OrderKept(e) /\ RowTold(e) /\ TextTold(e)
    BY DEF EventsTrue
  <2>2. e.n \in DOMAIN log /\ e.n \in Nat /\ log[e.n] = e.card.id
    BY <1>3
  <2>3. \A k \in DOMAIN log : ~Delivered(k)' => ~Delivered(k)
    BY <1>2, <1>8 DEF Delivered
  <2>4. CASE e.card.id # c.id
    <3>1. Later(e)' = Later(e)
      BY <1>1, <1>8, <1>9, <2>4 DEF Later
    <3>2. OutOf(e.card.id)' = OutOf(e.card.id)
      BY <1>2, <1>4, <2>4 DEF OutOf
    <3>3. \A k \in Later(e) : ~Delivered(k)' => ~Delivered(k)
      BY <2>3 DEF Later
    <3>4. NewestTold(e)'
      <4>1. Later(e) = {} => IF e.kind = "deleted" THEN \A x \in rows : x.id # e.card.id
                                                   ELSE e.card \in rows
        BY <2>1 DEF NewestTold
      <4> QED BY <1>6, <2>4, <3>1, <4>1 DEF NewestTold
    <3>5. OrderKept(e)'
      <4>1. e.kind = "created" => \A k \in DOMAIN log : k < e.n => log[k] # e.card.id
        BY <2>1 DEF OrderKept
      <4> QED BY <1>1, <1>8, <1>9, <2>1, <2>4, <3>1, <4>1 DEF OrderKept
    <3>6. RowTold(e)'
      <4>1. (\A k \in Later(e) : ~Delivered(k)) =>
              (\E r \in rows : r.id = e.card.id) \/ \E f \in OutOf(e.card.id) : f.kind = "deleted"
        BY <2>1 DEF RowTold
      <4> QED BY <1>6, <2>4, <3>1, <3>2, <3>3, <4>1 DEF RowTold
    <3>7. TextTold(e)'
      <4>1. /\ e.kind \in {"created", "updated"}
            /\ \A k \in Later(e) : ~Delivered(k)
            /\ \A f \in OutOf(e.card.id) : f.n > e.n => f.kind \notin {"updated", "deleted"}
            => \E r \in rows : r.id = e.card.id /\ r.text = e.card.text
        BY <2>1 DEF TextTold
      <4> QED BY <1>6, <2>4, <3>1, <3>2, <3>3, <4>1 DEF TextTold
    <3> QED BY <3>4, <3>5, <3>6, <3>7
  <2>5. CASE e.card.id = c.id
    <3>1. c.id \in born
      BY <1>5, <2>2, <2>5
    <3>2. PICK x \in rows :
            /\ x.id = c.id
            /\ \/ kind = "updated" /\ rows' = (rows \ {x}) \cup {new}
               \/ kind = "moved" /\ new.text = x.text /\ rows' = (rows \ {x}) \cup {new}
               \/ kind = "deleted" /\ new = x /\ rows' = rows \ {x}
      BY <1>4, <3>1
    <3>3. e.kind # "deleted"
      BY <2>1, <2>5, <3>2 DEF OrderKept, NewestTold
    <3>4. N \in Later(e)'
      BY <1>1, <1>8, <2>2, <2>5 DEF Later
    <3>5. NewestTold(e)'
      BY <3>4 DEF NewestTold
    <3>6. OrderKept(e)'
      <4>1. e.kind = "created" => \A k \in DOMAIN log : k < e.n => log[k] # e.card.id
        BY <2>1 DEF OrderKept
      <4>2. \A k \in DOMAIN log' : k < e.n => k \in DOMAIN log /\ log'[k] = log[k]
        BY <1>1, <1>8, <1>9, <2>2
      <4> QED BY <3>3, <4>1, <4>2 DEF OrderKept
    <3>7. RowTold(e)'
      <4>1. kind = "deleted" => d \in OutOf(e.card.id)' /\ d.kind = "deleted"
        BY <1>2, <1>4, <2>5 DEF OutOf
      <4>2. kind # "deleted" => new \in rows' /\ new.id = e.card.id
        BY <1>4, <1>7, <2>5
      <4> QED BY <4>1, <4>2 DEF RowTold
    <3>8. TextTold(e)'
      <4> SUFFICES ASSUME e.kind \in {"created", "updated"},
                          \A k \in Later(e)' : ~Delivered(k)',
                          \A f \in OutOf(e.card.id)' : f.n > e.n => f.kind \notin {"updated", "deleted"}
                   PROVE  \E r \in rows' : r.id = e.card.id /\ r.text = e.card.text
        BY DEF TextTold
      <4>1. d \in OutOf(e.card.id)' /\ d.n > e.n
        BY <1>2, <1>4, <1>8, <2>2, <2>5 DEF OutOf
      <4>2. kind = "moved" /\ new.text = x.text
        BY <1>2, <3>2, <4>1
      <4>3. \A k \in Later(e) : k \in Later(e)' /\ k \in DOMAIN log
        BY <1>8 DEF Later
      <4>4. \A k \in Later(e) : ~Delivered(k)
        BY <2>3, <4>3
      <4>5. \A f \in OutOf(e.card.id) : f \in OutOf(e.card.id)'
        BY <1>2 DEF OutOf
      <4>6. PICK r \in rows : r.id = e.card.id /\ r.text = e.card.text
        BY <2>1, <4>4, <4>5 DEF TextTold
      <4>7. r = x
        BY <1>5, <2>5, <3>2, <4>6 DEF UniqueIds
      <4>8. new \in rows' /\ new.id = e.card.id
        BY <1>4, <1>7, <2>5, <4>2
      <4> QED BY <4>2, <4>6, <4>7, <4>8
    <3> QED BY <3>5, <3>6, <3>7, <3>8
  <2> QED BY <2>4, <2>5
<1> QED BY <1>2, <1>10, <1>11, <1>12, <1>13 DEF EventsTrue

\* Every step keeps the events true of the table.
LEMMA EventsStep ==
  ASSUME ListsInv, EventsOnce, EventsTrue, [Next]_vars
  PROVE  EventsOnce' /\ EventsTrue'
<1>1. TypeOK /\ MovesSetPlace /\ ListsUnique
  BY DEF ListsInv
<1>2. ASSUME NEW kind \in Kind, NEW fld \in Field, NEW c \in Entry, OtherWrite(kind, fld, c)
      PROVE  EventsOnce' /\ EventsTrue'
  <2>1. (kind = "moved" => fld = "place") /\ Write(kind, fld, c) /\ wire' = wire
    BY <1>2 DEF OtherWrite, Asks, socket
  <2>2. PICK new \in Entry : Written(kind, c, new)
    BY <1>1, <2>1, WriteEffect
  <2> QED BY <1>1, <2>1, <2>2, EventsWriteStep
<1>3. ASSUME NEW q \in mut, Commit(q)
      PROVE  EventsOnce' /\ EventsTrue'
  <2>1. q.kind \in Kind /\ q.card \in Entry /\ wire' = wire
    BY <1>1, <1>3, CommitTyped DEF Commit, socket
  <2>2. PICK new \in Entry : Written(q.kind, q.card, new)
    BY <1>1, <1>3, CommitTyped
  <2> QED BY <1>1, <2>1, <2>2, EventsWriteStep
<1>4. CASE (\E e \in pending : Emit(e)) \/ Disconnect \/ Deliver
  <2>1. UNCHANGED <<rows, born, log>>
    BY <1>4 DEF Emit, Disconnect, Deliver, server
  <2>2. EventsOnce' /\ Out' \subseteq Out
    BY <1>1, <1>4, OnceSocketStep
  <2> QED BY <1>1, <2>1, <2>2, TrueWithoutWrites
<1>5. CASE \/ \E p \in Project : Joined(p) \/ Answer(p) \/ Show(p) \/ Receive(p) \/ FetchFails(p)
           \/ \E m \in Mutation, kind \in Kind, fld \in Field, c \in Entry : Mutate(m, kind, fld, c)
           \/ \E m \in Mutation, c \in Entry : MutateCreate(m, c)
           \/ \E q \in mut : Succeed(q) \/ MutationFails(q)
           \/ Reconnect \/ TokenRefreshed \/ UNCHANGED vars
  <2>1. UNCHANGED <<rows, born, log, pending, wire>>
    BY <1>5 DEF Joined, Answer, Show, Receive, FetchFails, Mutate, MutateCreate, Succeed, MutationFails,
                Reconnect, TokenRefreshed, vars, server, socket
  <2>2. Out' = Out
    BY <2>1 DEF Out
  <2>3. EventsOnce'
    BY <2>1, <2>2 DEF EventsOnce
  <2> QED BY <1>1, <2>1, <2>2, <2>3, TrueWithoutWrites
<1> QED BY <1>2, <1>3, <1>4, <1>5 DEF Next
----------------------------------------------------------------------------
(* The list of each project follows the table.                             *)

\* Whether an issue was overtaken, and whether a list reaches it, rests on its own
\* rows, writes and events.
LEMMA IssueUntouched ==
  ASSUME TypeOK, TypeOK', NEW i,
         OutOf(i)' = OutOf(i),
         \A k \in DOMAIN log : k \in DOMAIN log' /\ log'[k] = log[k],
         \A k \in DOMAIN log' : log'[k] = i => k \in DOMAIN log,
         \A x : x.id = i => (x \in rows' <=> x \in rows)
  PROVE  /\ Overtaken(i) => Overtaken(i)'
         /\ \A k \in DOMAIN log : log[k] = i /\ ~Delivered(k) => ~Delivered(k)'
         /\ \A list, due : Reaches(list, i, due) => Reaches(list, i, due)'
<1>1. /\ \A e \in Out : e.n \in DOMAIN log /\ log[e.n] = e.card.id
      /\ \A e \in Out' : e.n \in DOMAIN log' /\ log'[e.n] = e.card.id
  <2>1. EventsLogged /\ EventsLogged'
    BY DEF TypeOK, EventsLogged, Out
  <2> QED BY <2>1 DEF EventsLogged
<1>2. \A k \in DOMAIN log : log[k] = i => (Delivered(k) => Delivered(k)') /\ (~Delivered(k) => ~Delivered(k)')
  <2> SUFFICES ASSUME NEW k \in DOMAIN log, log[k] = i
               PROVE  (Delivered(k) => Delivered(k)') /\ (~Delivered(k) => ~Delivered(k)')
    OBVIOUS
  <2>1. \A f \in Out : f.n = k => f \in OutOf(i)
    BY <1>1 DEF OutOf
  <2>2. \A f \in Out' : f.n = k => f \in OutOf(i)'
    BY <1>1 DEF OutOf
  <2>3. (\E f \in Out : f.n = k) <=> \E f \in Out' : f.n = k
    BY <2>1, <2>2 DEF OutOf
  <2> QED BY <2>3 DEF Delivered
<1>3. Overtaken(i) => Overtaken(i)'
  <2> SUFFICES ASSUME NEW e \in OutOf(i), NEW k \in Later(e), Delivered(k)
               PROVE  Overtaken(i)'
    BY DEF Overtaken
  <2>1. k \in DOMAIN log /\ log[k] = i /\ k > e.n
    BY DEF Later, OutOf
  <2>2. k \in Later(e)'
    BY <2>1 DEF Later, OutOf
  <2> QED BY <1>2, <2>1, <2>2 DEF Overtaken
<1>4. ASSUME NEW list, NEW due, Reaches(list, i, due)
      PROVE  Reaches(list, i, due)'
  BY <1>4 DEF Reaches
<1> QED BY <1>2, <1>3, <1>4

LEMMA ReachesMore ==
  ASSUME NEW list, NEW i, NEW due, NEW more, due \subseteq more, Reaches(list, i, due)
  PROVE  Reaches(list, i, more)
BY DEF Reaches

\* A step that writes nothing: a project whose events and list stay as they are.
LEMMA ProjectKept ==
  ASSUME TypeOK, TypeOK', UNCHANGED <<rows, log>>, NEW p \in Project, Followed(p),
         p \notin off' => p \notin off /\ \A i \in IssuesOf(p) : OutOf(i)' = OutOf(i),
         p \notin off' /\ Current(p)' => Current(p) /\ cache'[p] = cache[p],
         fetch'[p].st = "answered" => fetch'[p] = fetch[p]
  PROVE  Followed(p)'
<1>1. \A i \in IssuesOf(p) : OutOf(i)' = OutOf(i) =>
        /\ Overtaken(i) => Overtaken(i)'
        /\ \A k \in DOMAIN log : log[k] = i /\ ~Delivered(k) => ~Delivered(k)'
        /\ \A list, due : Reaches(list, i, due) => Reaches(list, i, due)'
  BY IssueUntouched
<1>2. ASSUME p \notin off', Current(p)'
      PROVE  CacheOf(p)'
  <2>1. CacheOf(p) /\ cache'[p] = cache[p]
    BY <1>2 DEF Followed
  <2>2. ASSUME NEW i \in IssuesOf(p)
        PROVE  Overtaken(i)' \/ Reaches(cache[p], i, OutOf(i))'
    <3>1. Overtaken(i) \/ Reaches(cache[p], i, OutOf(i))
      BY <2>1 DEF CacheOf
    <3>2. OutOf(i)' = OutOf(i)
      BY <1>2
    <3>3. Reaches(cache[p], i, OutOf(i)) => Reaches(cache[p], i, OutOf(i))'
      BY <1>1, <2>1, <3>2 DEF Reaches
    <3> QED BY <1>1, <3>1, <3>2, <3>3
  <2> QED BY <2>1, <2>2 DEF CacheOf, IssuesOf
<1>3. ASSUME fetch'[p].st = "answered"
      PROVE  SnapshotOf(p)'
  <2>1. SnapshotOf(p) /\ fetch'[p] = fetch[p]
    BY <1>3 DEF Followed
  <2>2. /\ fetch[p].n <= Len(log)
        /\ \A x \in fetch[p].list : x.id \in IssuesOf(p)
    BY <2>1 DEF SnapshotOf
  <2>3. ASSUME p \notin off', NEW i \in IssuesOf(p)
        PROVE  /\ \A k \in DOMAIN log : k > fetch[p].n /\ log[k] = i => ~Delivered(k)'
               /\ Reaches(fetch[p].list, i, {e \in OutOf(i) : e.n > fetch[p].n})'
    <3>1. /\ \A k \in DOMAIN log : k > fetch[p].n /\ log[k] = i => ~Delivered(k)
          /\ Reaches(fetch[p].list, i, {e \in OutOf(i) : e.n > fetch[p].n})
      BY <2>1, <2>3 DEF SnapshotOf
    <3>2. OutOf(i)' = OutOf(i)
      BY <2>3
    <3>3. {e \in OutOf(i)' : e.n > fetch[p].n} = {e \in OutOf(i) : e.n > fetch[p].n}
      BY <3>2
    <3> QED BY <1>1, <2>1, <3>1, <3>2, <3>3 DEF Reaches
  <2> QED BY <2>1, <2>2, <2>3 DEF SnapshotOf, IssuesOf
<1> QED BY <1>2, <1>3 DEF Followed

\* A list that the events in due bring up to date is brought up to date again by
\* them and the event of a new write.
LEMMA WriteReaches ==
  ASSUME TypeOK, ListsUnique, EventsTrue,
         NEW kind \in Kind, NEW c \in Entry, NEW new \in Entry, Written(kind, c, new),
         NEW list, NEW due \in SUBSET OutOf(c.id), Reaches(list, c.id, due),
         NEW more, due \subseteq more, NEW d \in more, d.kind = kind
  PROVE  Reaches(list, c.id, more)'
<1>1. /\ UniqueIds(rows) /\ \A x \in rows : x.id \in born
      /\ \A k \in DOMAIN log : log[k] \in born
  BY DEF ListsUnique, EventsTrue
<1>2. new.id = c.id
  BY DEF Written
<1>3. \A x \in due : x.n \in DOMAIN log /\ log[x.n] = c.id
  BY EventsTyped DEF OutOf
<1>4. /\ \A r \in rows : r.id = c.id => (\E x \in list : x.id = c.id) \/ \E e \in due : e.kind = "created"
      /\ \A x \in list : x.id = c.id => (\E r \in rows : r.id = c.id) \/ \E e \in due : e.kind = "deleted"
      /\ \A x \in list, r \in rows : x.id = c.id /\ r.id = c.id =>
           /\ x.text = r.text \/ \E e \in due : e.kind = "updated"
           /\ x.place = r.place \/ \E e \in due : e.kind \in {"updated", "moved"}
  BY DEF Reaches
<1>5. CASE kind = "created" /\ c.id \notin born /\ rows' = rows \cup {new}
  <2>1. due = {}
    BY <1>1, <1>3, <1>5
  <2>2. \A x \in list : x.id # c.id
    BY <1>1, <1>4, <1>5, <2>1
  <2> QED BY <1>5, <2>2 DEF Reaches
<1>6. ASSUME NEW x \in rows, x.id = c.id, kind = "updated", rows' = (rows \ {x}) \cup {new}
      PROVE  Reaches(list, c.id, more)'
  <2>1. \A r \in rows' : r.id = c.id => r = new
    BY <1>1, <1>6 DEF UniqueIds
  <2> QED BY <1>2, <1>4, <1>6, <2>1 DEF Reaches
<1>7. ASSUME NEW x \in rows, x.id = c.id, kind = "moved", new.text = x.text, rows' = (rows \ {x}) \cup {new}
      PROVE  Reaches(list, c.id, more)'
  <2>1. \A r \in rows' : r.id = c.id => r = new
    BY <1>1, <1>7 DEF UniqueIds
  <2> QED BY <1>2, <1>4, <1>7, <2>1 DEF Reaches
<1>8. ASSUME NEW x \in rows, x.id = c.id, kind = "deleted", rows' = rows \ {x}
      PROVE  Reaches(list, c.id, more)'
  <2>1. \A r \in rows' : r.id # c.id
    BY <1>1, <1>8 DEF UniqueIds
  <2> QED BY <1>8, <2>1 DEF Reaches
<1> QED BY <1>5, <1>6, <1>7, <1>8 DEF Written

\* A write leaves its event: every list that followed the table still does.
LEMMA FollowedWriteStep ==
  ASSUME TypeOK, TypeOK', ListsUnique, EventsTrue,
         NEW kind \in Kind, NEW c \in Entry, NEW new \in Entry, Written(kind, c, new),
         UNCHANGED <<wire, loaded, cache, invalid, fetch, off>>,
         \A q \in mut : \E r \in mut' : r.project = q.project /\ r.kind = q.kind,
         NEW p \in Project, Followed(p)
  PROVE  Followed(p)'
<1> DEFINE N == Len(log) + 1
<1>1. /\ Len(log) \in Nat /\ DOMAIN log = 1..Len(log)
      /\ Len(log') = N /\ DOMAIN log' = 1..N
      /\ \A k \in 1..Len(log) : log'[k] = log[k]
      /\ log'[N] = c.id
  BY WriteTyped
<1>2. PICK d \in Event : d.n = N /\ d.kind = kind /\ d.card = new /\ Out' = Out \cup {d}
  BY WriteTyped
<1>3. fetch[p].n \in Nat
  <2>1. fetch[p] \in Fetch
    BY TypeParts DEF ClientTyped
  <2> QED BY <2>1, BoardSyncAssumption DEF Fetch
<1> HIDE DEF N
<1>4. /\ N \in Nat /\ N \notin DOMAIN log
      /\ \A k \in DOMAIN log : k < N /\ k \in DOMAIN log' /\ log'[k] = log[k]
      /\ \A k \in DOMAIN log' : k = N \/ k \in DOMAIN log
  BY <1>1 DEF N
<1>5. new.id = c.id /\ \A x : x.id # c.id => (x \in rows' <=> x \in rows)
  BY DEF Written
<1>6. Current(p)' => Current(p)
  BY DEF Current, Guessing
<1>7. OutOf(c.id)' = OutOf(c.id) \cup {d} /\ \A i : i # c.id => OutOf(i)' = OutOf(i)
  BY <1>2, <1>5 DEF OutOf
<1>8. ASSUME NEW i, i # c.id
      PROVE  /\ Overtaken(i) => Overtaken(i)'
             /\ \A k \in DOMAIN log : log[k] = i /\ ~Delivered(k) => ~Delivered(k)'
             /\ \A list, due : Reaches(list, i, due) => Reaches(list, i, due)'
  <2>1. \A k \in DOMAIN log' : log'[k] = i => k \in DOMAIN log
    BY <1>1, <1>4, <1>8
  <2>2. \A x : x.id = i => (x \in rows' <=> x \in rows)
    BY <1>5, <1>8
  <2> QED BY <1>4, <1>7, <1>8, <2>1, <2>2, IssueUntouched
<1>9. Overtaken(c.id) => Overtaken(c.id)'
  <2> SUFFICES ASSUME NEW e \in OutOf(c.id), NEW k \in Later(e), Delivered(k)
               PROVE  Overtaken(c.id)'
    BY DEF Overtaken
  <2>1. k \in Later(e)' /\ k # N
    BY <1>4 DEF Later
  <2>2. Delivered(k)'
    BY <1>2, <2>1 DEF Delivered
  <2> QED BY <1>7, <2>1, <2>2 DEF Overtaken
<1>10. ASSUME p \notin off', Current(p)'
       PROVE  CacheOf(p)'
  <2>1. CacheOf(p)
    BY <1>6, <1>10 DEF Followed
  <2>2. ASSUME NEW i \in IssuesOf(p)
        PROVE  Overtaken(i)' \/ Reaches(cache[p], i, OutOf(i))'
    <3>1. Overtaken(i) \/ Reaches(cache[p], i, OutOf(i))
      BY <2>1 DEF CacheOf
    <3>2. CASE i # c.id
      <4>1. PICK list, due : list = cache[p] /\ due = OutOf(i)
        OBVIOUS
      <4>2. list = cache'[p] /\ due = OutOf(i)'
        BY <1>7, <3>2, <4>1
      <4>3. Overtaken(i) \/ Reaches(list, i, due)
        BY <3>1, <4>1
      <4>4. Overtaken(i)' \/ Reaches(list, i, due)'
        BY <1>8, <3>2, <4>3
      <4> QED BY <4>2, <4>4 DEF Reaches
    <3>3. CASE i = c.id /\ Reaches(cache[p], i, OutOf(i))
      <4>1. OutOf(c.id) \subseteq OutOf(c.id)' /\ d \in OutOf(c.id)'
        BY <1>7
      <4>2. Reaches(cache[p], c.id, OutOf(c.id))
        BY <3>3
      <4>3. \A more : OutOf(c.id) \subseteq more /\ d \in more => Reaches(cache[p], c.id, more)'
        BY <1>2, <4>2, WriteReaches
      <4> QED BY <3>3, <4>1, <4>3 DEF Reaches
    <3> QED BY <1>9, <3>1, <3>2, <3>3
  <2> QED BY <2>1, <2>2 DEF CacheOf, IssuesOf
<1>11. ASSUME fetch'[p].st = "answered"
       PROVE  SnapshotOf(p)'
  <2>1. /\ fetch[p].n <= Len(log)
        /\ \A x \in fetch[p].list : x.id \in IssuesOf(p)
        /\ p \notin off => \A i \in IssuesOf(p) :
             /\ \A k \in DOMAIN log : k > fetch[p].n /\ log[k] = i => ~Delivered(k)
             /\ Reaches(fetch[p].list, i, {e \in OutOf(i) : e.n > fetch[p].n})
    BY <1>11 DEF Followed, SnapshotOf
  <2>2. fetch[p].n < N /\ fetch[p].n <= Len(log')
    BY <1>1, <1>3, <2>1 DEF N
  <2>3. ASSUME p \notin off', NEW i \in IssuesOf(p)
        PROVE  /\ \A k \in DOMAIN log' : k > fetch[p].n /\ log'[k] = i => ~Delivered(k)'
               /\ Reaches(fetch[p].list, i, {e \in OutOf(i) : e.n > fetch[p].n})'
    <3>1. /\ \A k \in DOMAIN log : k > fetch[p].n /\ log[k] = i => ~Delivered(k)
          /\ Reaches(fetch[p].list, i, {e \in OutOf(i) : e.n > fetch[p].n})
      BY <2>1, <2>3
    <3>2. \A k \in DOMAIN log' : k > fetch[p].n /\ log'[k] = i => ~Delivered(k)'
      BY <1>2, <1>4, <3>1 DEF Delivered
    <3>3. CASE i # c.id
      <4>1. PICK list, due : list = fetch[p].list /\ due = {e \in OutOf(i) : e.n > fetch[p].n}
        OBVIOUS
      <4>2. list = fetch'[p].list /\ due = {e \in OutOf(i)' : e.n > fetch'[p].n}
        BY <1>7, <3>3, <4>1
      <4>3. Reaches(list, i, due)
        BY <3>1, <4>1
      <4>4. Reaches(list, i, due)'
        BY <1>8, <3>3, <4>3
      <4> QED BY <3>2, <4>2, <4>4 DEF Reaches
    <3>4. CASE i = c.id
      <4>1. PICK list, due : list = fetch[p].list /\ due = {e \in OutOf(i) : e.n > fetch[p].n}
        OBVIOUS
      <4>2. due \in SUBSET OutOf(c.id) /\ Reaches(list, c.id, due)
        BY <3>1, <3>4, <4>1
      <4>3. \A more : due \subseteq more /\ d \in more => Reaches(list, c.id, more)'
        BY <1>2, <4>2, WriteReaches
      <4>4. PICK more : more = due \cup {d}
        OBVIOUS
      <4>5. Reaches(list, c.id, more)'
        BY <4>3, <4>4
      <4>6. list = fetch'[p].list /\ more = {e \in OutOf(i)' : e.n > fetch'[p].n}
        BY <1>2, <1>7, <2>2, <3>4, <4>1, <4>4
      <4> QED BY <3>2, <3>4, <4>5, <4>6 DEF Reaches
    <3> QED BY <3>3, <3>4
  <2> QED BY <2>1, <2>2, <2>3 DEF SnapshotOf, IssuesOf
<1> QED BY <1>10, <1>11 DEF Followed

\* An event whose successors are all on their way is patched into a list: what it
\* was due to bring it has brought.
LEMMA PatchedReaches ==
  ASSUME TypeOK, UniqueIds(rows), EventsOnce, EventsTrue,
         NEW e \in Out, \A k \in Later(e) : ~Delivered(k),
         NEW list \in SUBSET Entry, NEW i, i = e.card.id, Reaches(list, i, OutOf(i)),
         NEW due, due = OutOf(i) \ {e}
  PROVE  Reaches(Patched(list, e.kind, e.card), i, due)
<1>1. /\ e.kind \in Kind /\ e.card \in Entry
      /\ \A f \in Out : f.n \in Nat /\ f.n \in DOMAIN log /\ log[f.n] = f.card.id /\ f.kind \in Kind
  BY EventsTyped
<1>2. \A f \in Out : NewestTold(f) /\ OrderKept(f) /\ RowTold(f) /\ TextTold(f)
  BY DEF EventsTrue
<1>3. ASSUME NEW r \in rows, r.id = i, NEW f \in OutOf(i)
      PROVE  f.kind # "deleted"
  <2>1. f \in Out /\ f.card.id = i
    BY DEF OutOf
  <2> QED BY <1>2, <1>3, <2>1 DEF OrderKept, NewestTold
<1>4. (\E r \in rows : r.id = i) \/ \E f \in OutOf(i) : f.kind = "deleted"
  BY <1>2 DEF RowTold
<1>5. ASSUME NEW r \in rows, r.id = i, e.kind \in {"created", "updated"}, \A f \in due : f.kind # "updated"
      PROVE  e.card.text = r.text
  <2>1. \A f \in OutOf(i) : f.n > e.n => f \in due
    BY <1>1 DEF OutOf
  <2>2. \A f \in OutOf(e.card.id) : f.n > e.n => f.kind \notin {"updated", "deleted"}
    BY <1>3, <1>5, <2>1
  <2>3. PICK x \in rows : x.id = e.card.id /\ x.text = e.card.text
    BY <1>2, <1>5, <2>2 DEF TextTold
  <2> QED BY <1>5, <2>3 DEF UniqueIds
<1>6. ASSUME NEW r \in rows, r.id = i, e.kind # "deleted", \A f \in due : f.kind \notin {"updated", "moved"}
      PROVE  e.card.place = r.place
  <2>1. ASSUME NEW k \in Later(e)
        PROVE  FALSE
    <3>1. PICK f \in Out : f.n = k
      BY DEF Delivered
    <3>2. k \in DOMAIN log /\ k > e.n /\ log[k] = i
      BY DEF Later
    <3>3. f \in OutOf(i) /\ f \in due
      BY <1>1, <3>1, <3>2 DEF OutOf
    <3>4. f.kind = "created"
      BY <1>1, <1>3, <1>6, <3>3 DEF OutOf, Kind
    <3>5. e.n < f.n /\ log[e.n] = f.card.id
      BY <1>1, <3>1, <3>2
    <3> QED BY <1>1, <1>2, <3>4, <3>5 DEF OrderKept
  <2>2. e.card \in rows
    BY <1>2, <1>6, <2>1 DEF NewestTold
  <2> QED BY <1>6, <2>2 DEF UniqueIds
<1>7. /\ \A r \in rows : r.id = i => (\E x \in list : x.id = i) \/ \E f \in OutOf(i) : f.kind = "created"
      /\ \A x \in list : x.id = i => (\E r \in rows : r.id = i) \/ \E f \in OutOf(i) : f.kind = "deleted"
      /\ \A x \in list, r \in rows : x.id = i /\ r.id = i =>
           /\ x.text = r.text \/ \E f \in OutOf(i) : f.kind = "updated"
           /\ x.place = r.place \/ \E f \in OutOf(i) : f.kind \in {"updated", "moved"}
  BY DEF Reaches
<1>8. PICK P : P = Patched(list, e.kind, e.card)
  OBVIOUS
<1>9. /\ \A x \in P : x.id = i =>
           \/ e.kind = "created" /\ x \in list
           \/ e.kind = "created" /\ x = e.card /\ \A y \in list : y.id # i
           \/ e.kind = "updated" /\ x = e.card /\ \E y \in list : y.id = i
           \/ e.kind = "moved" /\ x.place = e.card.place /\ \E y \in list : y.id = i /\ x.text = y.text
      /\ ((\E x \in list : x.id = i) /\ e.kind # "deleted") \/ e.kind = "created" => \E x \in P : x.id = i
  BY <1>1, <1>8, PatchedCards
<1>10. ASSUME NEW r \in rows, r.id = i
       PROVE  (\E x \in P : x.id = i) \/ \E f \in due : f.kind = "created"
  <2>1. e.kind # "deleted"
    BY <1>3, <1>10 DEF OutOf
  <2> QED BY <1>7, <1>9, <1>10, <2>1
<1>11. ASSUME NEW x \in P, x.id = i
       PROVE  (\E r \in rows : r.id = i) \/ \E f \in due : f.kind = "deleted"
  <2>1. e.kind # "deleted"
    BY <1>9, <1>11
  <2> QED BY <1>4, <2>1
<1>12. ASSUME NEW x \in P, NEW r \in rows, x.id = i, r.id = i
       PROVE  /\ x.text = r.text \/ \E f \in due : f.kind = "updated"
              /\ x.place = r.place \/ \E f \in due : f.kind \in {"updated", "moved"}
  <2>1. CASE e.kind = "created" /\ x \in list
    BY <1>7, <1>12, <2>1
  <2>2. CASE e.kind \in {"created", "updated"} /\ x = e.card
    BY <1>5, <1>6, <1>12, <2>2
  <2>3. CASE e.kind = "moved" /\ x.place = e.card.place /\ \E y \in list : y.id = i /\ x.text = y.text
    BY <1>6, <1>7, <1>12, <2>3
  <2> QED BY <1>9, <1>12, <2>1, <2>2, <2>3
<1> QED BY <1>8, <1>10, <1>11, <1>12 DEF Reaches

\* An event arrives: the list of the board shown is patched; a project that is not
\* off afterwards has all its other events still.
LEMMA FollowedDeliverStep ==
  ASSUME ListsInv, TypeOK', EventsOnce, EventsTrue, Deliver, NEW p \in Project, Followed(p)
  PROVE  Followed(p)'
<1>1. PICK e : e = Head(wire)
  OBVIOUS
<1>2. TypeOK /\ UniqueIds(rows) /\ ShownIsFetched /\ ClientTyped
  BY TypeParts DEF ListsInv, ListsUnique
<1>3. /\ e \in Out /\ e.kind \in Kind /\ e.card \in Entry
      /\ e.card.id \in Issue /\ ProjectOf[e.card.id] \in Project
      /\ SetQueryData(shown, Patched(cache[shown], e.kind, e.card))
      /\ cache[shown] \in SUBSET Entry /\ Patched(cache[shown], e.kind, e.card) \in SUBSET Entry
      /\ invalid' = invalid \ {shown}
      /\ UNCHANGED <<rows, log, shown, fetch, mut>>
  BY <1>1, <1>2, DeliverTyped
<1>4. PICK list \in SUBSET Entry : list = Patched(cache[shown], e.kind, e.card)
  BY <1>3
<1>5. /\ loaded' = loaded \cup {shown}
      /\ cache'[shown] = list /\ \A o \in Project \ {shown} : cache'[o] = cache[o]
  BY <1>2, <1>3, <1>4, CacheTyped DEF ClientTyped
<1>6. /\ Out' = Out \ {e}
      /\ {x.n : x \in pending} \cup {wire[k].n : k \in 2..Len(wire)} = {f.n : f \in Out'}
  BY <1>1, <1>2, HeadGone
<1>7. /\ Len(log) \in Nat /\ DOMAIN log = 1..Len(log)
      /\ \A f \in Out : f.n \in Nat /\ f.n \in DOMAIN log /\ log[f.n] = f.card.id
  BY <1>2, EventsTyped
<1>8. off' = IF ProjectOf[e.card.id] # shown THEN off \cup {ProjectOf[e.card.id], shown}
             ELSE IF \/ \E k \in (e.n + 1)..Len(log) : log[k] = e.card.id /\ k \notin {f.n : f \in Out'}
                     \/ fetch[ProjectOf[e.card.id]].st = "answered" /\ fetch[ProjectOf[e.card.id]].n < e.n
                  THEN off \cup {ProjectOf[e.card.id]} ELSE off
  BY <1>1, <1>6 DEF Deliver
<1>9. \A i : i # e.card.id => OutOf(i)' = OutOf(i)
  BY <1>6 DEF OutOf
<1>10. Guessing(p)' <=> Guessing(p)
  BY <1>3 DEF Guessing
<1>11. CASE p # shown
  <2>1. p \notin off' => p \notin off /\ p # ProjectOf[e.card.id]
    BY <1>8, <1>11
  <2>2. p \notin off' => \A i \in IssuesOf(p) : OutOf(i)' = OutOf(i)
    BY <1>9, <2>1 DEF IssuesOf
  <2>3. Current(p)' => Current(p) /\ cache'[p] = cache[p]
    BY <1>3, <1>5, <1>10, <1>11 DEF Current
  <2> QED BY <1>2, <1>3, <2>1, <2>2, <2>3, ProjectKept
<1>12. CASE p = shown /\ ~(shown \notin off')
  <2>1. p \in off'
    BY <1>12
  <2>2. fetch'[p].st = "answered" => fetch'[p] = fetch[p]
    BY <1>3
  <2> QED BY <1>2, <1>3, <2>1, <2>2, ProjectKept
<1>13. CASE p = shown /\ shown \notin off'
  <2>1. /\ p \notin off /\ p = ProjectOf[e.card.id] /\ e.card.id \in IssuesOf(p)
        /\ ~(fetch[p].st = "answered" /\ fetch[p].n < e.n)
        /\ \A k \in (e.n + 1)..Len(log) : log[k] = e.card.id => k \in {f.n : f \in Out'}
    BY <1>3, <1>8, <1>13 DEF IssuesOf
  <2>2. ASSUME NEW k \in Later(e)
        PROVE  \E f \in Out' : f.n = k
    <3>1. k \in (e.n + 1)..Len(log) /\ log[k] = e.card.id
      BY <1>3, <1>7 DEF Later
    <3> QED BY <2>1, <3>1
  <2>3. \A i : i # e.card.id =>
          /\ Overtaken(i) => Overtaken(i)'
          /\ \A k \in DOMAIN log : log[k] = i /\ ~Delivered(k) => ~Delivered(k)'
          /\ \A l, due : Reaches(l, i, due) => Reaches(l, i, due)'
    BY <1>2, <1>3, <1>9, IssueUntouched
  <2>4. Overtaken(e.card.id) => Overtaken(e.card.id)'
    <3> SUFFICES ASSUME NEW f \in OutOf(e.card.id), NEW k \in Later(f), Delivered(k)
                 PROVE  Overtaken(e.card.id)'
      BY DEF Overtaken
    <3>1. f # e
      BY <1>6, <2>2 DEF Delivered
    <3>2. f \in OutOf(e.card.id)' /\ k \in Later(f)' /\ Delivered(k)'
      BY <1>3, <1>6, <3>1 DEF OutOf, Later, Delivered
    <3> QED BY <3>2 DEF Overtaken
  <2>5. ASSUME Current(p)'
        PROVE  CacheOf(p)'
    <3>1. Current(p)
      <4>1. fetch[p].st = "idle" /\ ~Guessing(p)
        BY <1>3, <1>10, <2>5 DEF Current
      <4> QED BY <1>2, <1>13, <2>1, <4>1 DEF Current, ShownIsFetched
    <3>2. /\ \A x \in cache[p] : x.id \in IssuesOf(p)
          /\ \A i \in IssuesOf(p) : Overtaken(i) \/ Reaches(cache[p], i, OutOf(i))
      BY <2>1, <3>1 DEF Followed, CacheOf
    <3>3. \A x : x.id # e.card.id => (x \in list <=> x \in cache[p])
      BY <1>3, <1>4, <1>13, PatchedCards
    <3>4. \A x \in list : x.id \in IssuesOf(p)
      BY <2>1, <3>2, <3>3
    <3>5. ASSUME NEW i \in IssuesOf(p)
          PROVE  Overtaken(i)' \/ \A due : due = OutOf(i)' => Reaches(list, i, due)'
      <4>1. CASE Overtaken(i)
        BY <2>3, <2>4, <4>1
      <4>2. CASE i # e.card.id /\ Reaches(cache[p], i, OutOf(i))
        <5> SUFFICES ASSUME NEW due, due = OutOf(i)'
                     PROVE  Reaches(list, i, due)'
          OBVIOUS
        <5>1. due = OutOf(i)
          BY <1>9, <4>2
        <5>2. Reaches(list, i, due)
          BY <3>3, <4>2, <5>1 DEF Reaches
        <5> QED BY <2>3, <4>2, <5>2
      <4>3. CASE i = e.card.id /\ Reaches(cache[p], i, OutOf(i))
        <5> SUFFICES ASSUME NEW due, due = OutOf(i)'
                     PROVE  Reaches(list, i, due)'
          OBVIOUS
        <5>1. due = OutOf(i) \ {e}
          BY <1>6 DEF OutOf
        <5>2. \A k \in Later(e) : ~Delivered(k)
          BY <1>6, <2>2 DEF Delivered
        <5>3. Reaches(list, i, due)
          BY <1>2, <1>3, <1>4, <1>13, <4>3, <5>1, <5>2, PatchedReaches
        <5> QED BY <1>3, <5>3 DEF Reaches
      <4> QED BY <3>2, <4>1, <4>2, <4>3
    <3>6. cache'[p] = list
      BY <1>5, <1>13
    <3>7. ASSUME NEW i \in IssuesOf(p)
          PROVE  Overtaken(i)' \/ Reaches(cache[p], i, OutOf(i))'
      <4>1. PICK due : due = OutOf(i)'
        OBVIOUS
      <4>2. Overtaken(i)' \/ Reaches(list, i, due)'
        BY <3>5, <4>1
      <4> QED BY <3>6, <4>1, <4>2 DEF Reaches
    <3> QED BY <3>4, <3>6, <3>7 DEF CacheOf, IssuesOf
  <2>6. ASSUME fetch'[p].st = "answered"
        PROVE  SnapshotOf(p)'
    <3>1. /\ fetch[p].n <= Len(log)
          /\ \A x \in fetch[p].list : x.id \in IssuesOf(p)
          /\ \A i \in IssuesOf(p) :
               /\ \A k \in DOMAIN log : k > fetch[p].n /\ log[k] = i => ~Delivered(k)
               /\ Reaches(fetch[p].list, i, {f \in OutOf(i) : f.n > fetch[p].n})
      BY <1>3, <2>1, <2>6 DEF Followed, SnapshotOf
    <3>2. fetch[p].n \in Nat /\ ~(fetch[p].n < e.n)
      <4>1. fetch[p] \in Fetch
        BY <1>2 DEF ClientTyped
      <4> QED BY <1>3, <2>1, <2>6, <4>1, BoardSyncAssumption DEF Fetch
    <3>3. ASSUME NEW i \in IssuesOf(p)
          PROVE  /\ \A k \in DOMAIN log : k > fetch[p].n /\ log[k] = i => ~Delivered(k)'
                 /\ {f \in OutOf(i)' : f.n > fetch[p].n} = {f \in OutOf(i) : f.n > fetch[p].n}
      <4>1. ASSUME NEW k \in DOMAIN log, k > fetch[p].n, log[k] = i
            PROVE  ~Delivered(k)'
        <5>1. PICK f \in Out : f.n = k
          BY <3>1, <4>1 DEF Delivered
        <5>2. f # e
          BY <1>3, <1>7, <3>2, <4>1, <5>1
        <5> QED BY <1>6, <5>1, <5>2 DEF Delivered
      <4>2. ~(e.n > fetch[p].n)
        BY <1>3, <1>7, <3>2
      <4>3. {f \in OutOf(i)' : f.n > fetch[p].n} = {f \in OutOf(i) : f.n > fetch[p].n}
        BY <1>6, <4>2 DEF OutOf
      <4> QED BY <4>1, <4>3
    <3>4. ASSUME NEW i \in IssuesOf(p)
          PROVE  Reaches(fetch[p].list, i, {f \in OutOf(i) : f.n > fetch[p].n})'
      <4>1. PICK l, due : l = fetch[p].list /\ due = {f \in OutOf(i) : f.n > fetch[p].n}
        OBVIOUS
      <4>2. Reaches(l, i, due)
        BY <3>1, <4>1
      <4>3. l = fetch'[p].list /\ due = {f \in OutOf(i)' : f.n > fetch'[p].n}
        BY <1>3, <3>3, <4>1
      <4> QED BY <1>3, <4>2, <4>3 DEF Reaches
    <3> QED BY <1>3, <3>1, <3>3, <3>4 DEF SnapshotOf, IssuesOf
  <2> QED BY <2>5, <2>6 DEF Followed
<1> QED BY <1>11, <1>12, <1>13

\* The socket joins, loses its connection, or gets an event: a project that is not
\* off afterwards has all its events still.
LEMMA FollowedSocketStep ==
  ASSUME TypeOK, TypeOK', EventsOnce, NEW p \in Project, Followed(p),
         \/ \E e \in pending : Emit(e)
         \/ \E o \in Project : Joined(o)
         \/ Disconnect \/ Reconnect \/ TokenRefreshed \/ UNCHANGED vars
  PROVE  Followed(p)'
<1>1. UNCHANGED <<rows, log, loaded, cache, invalid, fetch, mut>> /\ off \subseteq off'
  BY DEF Emit, Joined, Disconnect, Reconnect, TokenRefreshed, vars, server, client
<1>2. Current(p)' => Current(p)
  BY <1>1 DEF Current, Guessing
<1>3. ASSUME NEW e \in pending, Emit(e)
      PROVE  p \notin off' => \A i \in IssuesOf(p) : OutOf(i)' = OutOf(i)
  <2>1. /\ pending' = pending \ {e}
        /\ \/ wire' = Append(wire, e)
           \/ wire' = wire /\ off' = off \cup {ProjectOf[e.card.id]}
    BY <1>3 DEF Emit
  <2>2. CASE wire' = Append(wire, e)
    <3>1. wire \in Seq(Event) /\ e \in Event
      BY TypeParts DEF SocketTyped, ServerTyped
    <3>2. {wire'[k] : k \in DOMAIN wire'} = {wire[k] : k \in DOMAIN wire} \cup {e}
      BY <2>2, <3>1, WireGrows
    <3>3. Out' = Out
      BY <2>1, <3>2 DEF Out
    <3> QED BY <3>3 DEF OutOf
  <2>3. CASE wire' = wire /\ off' = off \cup {ProjectOf[e.card.id]}
    <3>1. \A f : f # e => (f \in Out' <=> f \in Out)
      BY <2>1, <2>3 DEF Out
    <3> QED BY <2>3, <3>1 DEF OutOf, IssuesOf
  <2> QED BY <2>1, <2>2, <2>3
<1>4. CASE Disconnect
  <2>1. /\ pending' = pending /\ wire' = <<>>
        /\ off' = off \cup {ProjectOf[wire[k].card.id] : k \in DOMAIN wire}
    BY <1>4 DEF Disconnect, server
  <2>2. Out' = pending
    BY <2>1 DEF Out
  <2>3. p \notin off' => \A i \in IssuesOf(p) : OutOf(i)' = OutOf(i)
    BY <2>1, <2>2 DEF Out, OutOf, IssuesOf
  <2> QED BY <1>1, <1>2, <2>3, ProjectKept
<1>5. CASE (\E o \in Project : Joined(o)) \/ Reconnect \/ TokenRefreshed \/ UNCHANGED vars
  <2>1. UNCHANGED <<pending, wire>>
    BY <1>5 DEF Joined, Reconnect, TokenRefreshed, vars, server, socket
  <2>2. \A i : OutOf(i)' = OutOf(i)
    BY <2>1 DEF Out, OutOf
  <2> QED BY <1>1, <1>2, <2>2, ProjectKept
<1>6. ASSUME NEW e \in pending, Emit(e)
      PROVE  Followed(p)'
  <2>1. p \notin off' => \A i \in IssuesOf(p) : OutOf(i)' = OutOf(i)
    BY <1>3, <1>6
  <2> QED BY <1>1, <1>2, <2>1, ProjectKept
<1> QED BY <1>4, <1>5, <1>6

\* A snapshot is the table: nothing is due yet.
LEMMA SnapshotTaken ==
  ASSUME TypeOK, TypeOK', ListsUnique, NEW p \in Project, Answer(p), NEW o \in Project, Followed(o)
  PROVE  Followed(o)'
<1>1. PICK list \in SUBSET RowsOf(p) :
        /\ fetch[p].st = "asked"
        /\ fetch'[p].st = "answered" /\ fetch'[p].list = list /\ fetch'[p].n = Len(log)
        /\ \A q \in Project \ {p} : fetch'[q] = fetch[q]
        /\ off' = IF list = RowsOf(p) THEN off \ {p} ELSE off \cup {p}
  BY AnswerTyped
<1>2. UNCHANGED <<rows, log, pending, wire, loaded, cache, invalid, mut>>
  BY DEF Answer, server, socket
<1>3. \A i : OutOf(i)' = OutOf(i)
  BY <1>2 DEF Out, OutOf
<1>4. CASE o # p
  <2>1. Current(o)' => Current(o)
    BY <1>1, <1>2, <1>4 DEF Current, Guessing
  <2>2. o \notin off' => o \notin off
    BY <1>1, <1>4
  <2> QED BY <1>1, <1>2, <1>3, <1>4, <2>1, <2>2, ProjectKept
<1>5. CASE o = p
  <2>1. ~Current(o)'
    BY <1>1, <1>5 DEF Current
  <2>2. /\ fetch'[o].n <= Len(log')
        /\ \A x \in fetch'[o].list : x.id \in IssuesOf(o)
    <3>1. Len(log) \in Nat /\ rows \subseteq Entry
      BY EventsTyped, TypeParts DEF ServerTyped
    <3> QED BY <1>1, <1>2, <1>5, <3>1 DEF RowsOf, IssuesOf, Entry
  <2>3. ASSUME o \notin off', NEW i \in IssuesOf(o)
        PROVE  /\ \A k \in DOMAIN log : k > Len(log) /\ log[k] = i => ~Delivered(k)'
               /\ Reaches(fetch[o].list, i, {e \in OutOf(i) : e.n > fetch[o].n})'
    <3>1. \A k \in DOMAIN log : ~(k > Len(log))
      BY EventsTyped
    <3>2. fetch'[o].list = RowsOf(o)
      BY <1>1, <1>5, <2>3
    <3>3. \A r \in rows : r.id = i => r \in RowsOf(o)
      BY <2>3 DEF RowsOf, IssuesOf
    <3>4. \A due : Reaches(RowsOf(o), i, due)
      BY <3>3 DEF Reaches, RowsOf, ListsUnique, UniqueIds
    <3>5. PICK l, due : l = RowsOf(o) /\ due = {e \in OutOf(i)' : e.n > fetch'[o].n}
      OBVIOUS
    <3>6. Reaches(l, i, due)
      BY <3>4, <3>5
    <3> QED BY <1>2, <3>1, <3>2, <3>5, <3>6 DEF Reaches
  <2>4. SnapshotOf(o)'
    BY <1>1, <1>2, <1>5, <2>2, <2>3 DEF SnapshotOf, IssuesOf
  <2> QED BY <2>1, <2>4 DEF Followed
<1> QED BY <1>4, <1>5

\* The list received is that of the snapshot, with more events to come.
LEMMA SnapshotReceived ==
  ASSUME TypeOK, TypeOK', NEW p \in Project, Receive(p), NEW o \in Project, Followed(o)
  PROVE  Followed(o)'
<1>1. /\ cache'[p] = fetch[p].list /\ \A q \in Project \ {p} : cache'[q] = cache[q]
      /\ loaded' = loaded \cup {p} /\ invalid' = invalid \ {p}
      /\ fetch'[p] = Idle /\ \A q \in Project \ {p} : fetch'[q] = fetch[q]
      /\ off' = off
  BY ReceiveTyped
<1>2. UNCHANGED <<rows, log, pending, wire, mut>> /\ fetch[p].st = "answered"
  BY DEF Receive, server, socket
<1>3. \A i : OutOf(i)' = OutOf(i)
  BY <1>2 DEF Out, OutOf
<1>4. Idle.st # "answered"
  BY DEF Idle
<1>5. CASE o # p
  <2>1. Current(o)' => Current(o)
    BY <1>1, <1>2, <1>5 DEF Current, Guessing
  <2> QED BY <1>1, <1>2, <1>3, <1>5, <2>1, ProjectKept
<1>6. CASE o = p
  <2>1. ASSUME o \notin off'
        PROVE  CacheOf(o)'
    <3>1. /\ \A x \in fetch[o].list : x.id \in IssuesOf(o)
          /\ \A i \in IssuesOf(o) : Reaches(fetch[o].list, i, {e \in OutOf(i) : e.n > fetch[o].n})
      BY <1>1, <1>2, <1>6, <2>1 DEF Followed, SnapshotOf
    <3>2. ASSUME NEW i \in IssuesOf(o)
          PROVE  Reaches(cache[o], i, OutOf(i))'
      <4>1. PICK l, due : l = fetch[o].list /\ due = OutOf(i)
        OBVIOUS
      <4>2. Reaches(l, i, due)
        BY <3>1, <4>1, ReachesMore
      <4>3. l = cache'[o] /\ due = OutOf(i)'
        BY <1>1, <1>3, <1>6, <4>1
      <4> QED BY <1>2, <4>2, <4>3 DEF Reaches
    <3> QED BY <1>1, <1>6, <3>1, <3>2 DEF CacheOf, IssuesOf
  <2>2. fetch'[o].st # "answered"
    BY <1>1, <1>4, <1>6
  <2> QED BY <2>1, <2>2 DEF Followed
<1> QED BY <1>5, <1>6

\* A fetch asked for or given up, a mutation sent or settled: a list that changes
\* by one of them is not current, for something will replace it.
LEMMA FollowedTabStep ==
  ASSUME TypeOK, TypeOK', MovesSetPlace, NEW p \in Project, Followed(p),
         \/ \E o \in Project : Show(o) \/ FetchFails(o)
         \/ \E m \in Mutation, kind \in Kind, fld \in Field, c \in Entry : Mutate(m, kind, fld, c)
         \/ \E m \in Mutation, c \in Entry : MutateCreate(m, c)
         \/ \E q \in mut : Succeed(q) \/ MutationFails(q)
  PROVE  Followed(p)'
<1>1. UNCHANGED <<rows, log, pending, wire>> /\ off \subseteq off'
  BY DEF Show, FetchFails, Mutate, MutateCreate, Succeed, MutationFails, server, socket
<1>2. \A i : OutOf(i)' = OutOf(i)
  BY <1>1 DEF Out, OutOf
<1>3. /\ Asked.st = "asked" /\ Idle.st = "idle"
  BY FetchValues
<1>4. shown \in Project
  BY TypeParts DEF ClientTyped
<1>5. SUFFICES /\ p \notin off' /\ Current(p)' => Current(p) /\ cache'[p] = cache[p]
               /\ fetch'[p].st = "answered" => fetch'[p] = fetch[p]
  <2>1. p \notin off' => p \notin off /\ \A i \in IssuesOf(p) : OutOf(i)' = OutOf(i)
    BY <1>1, <1>2
  <2> QED BY <1>1, <1>5, <2>1, ProjectKept
<1>6. ASSUME NEW o \in Project, Show(o)
      PROVE  /\ p \notin off' /\ Current(p)' => Current(p) /\ cache'[p] = cache[p]
             /\ fetch'[p].st = "answered" => fetch'[p] = fetch[p]
  <2>1. /\ \A r \in Project \ {o} : fetch'[r] = fetch[r]
        /\ fetch'[o] = Asked \/ fetch' = fetch
        /\ UNCHANGED <<loaded, cache, invalid, mut>>
    BY <1>6, ShowTyped
  <2>2. fetch'[p] = fetch[p] \/ fetch'[p] = Asked
    BY <2>1
  <2>3. Guessing(p) => Guessing(p)'
    BY <2>1 DEF Guessing
  <2> QED BY <1>3, <2>1, <2>2, <2>3 DEF Current
<1>7. ASSUME NEW o \in Project, FetchFails(o)
      PROVE  /\ p \notin off' /\ Current(p)' => Current(p) /\ cache'[p] = cache[p]
             /\ fetch'[p].st = "answered" => fetch'[p] = fetch[p]
  <2>1. /\ fetch'[o] = Idle /\ \A r \in Project \ {o} : fetch'[r] = fetch[r]
        /\ invalid' = invalid \cup {o} /\ off' = off \cup {o}
        /\ UNCHANGED <<loaded, cache, mut>>
    BY <1>7, FetchFailsTyped
  <2>2. Guessing(p) => Guessing(p)'
    BY <2>1 DEF Guessing
  <2>3. CASE p = o
    BY <1>3, <2>1, <2>3
  <2>4. CASE p # o
    BY <2>1, <2>2, <2>4 DEF Current
  <2> QED BY <2>3, <2>4
<1>8. ASSUME NEW m \in Mutation, NEW kind \in Kind, NEW fld \in Field, NEW c \in Entry, Mutate(m, kind, fld, c)
      PROVE  /\ p \notin off' /\ Current(p)' => Current(p) /\ cache'[p] = cache[p]
             /\ fetch'[p].st = "answered" => fetch'[p] = fetch[p]
  <2>1. /\ \A o \in Project \ {shown} : cache'[o] = cache[o]
        /\ loaded' = loaded \cup {shown} /\ invalid' = invalid \ {shown}
        /\ fetch'[shown] = Idle /\ \A o \in Project \ {shown} : fetch'[o] = fetch[o]
    BY <1>8, OptimisticTyped
  <2>2. kind # "created"
    BY <1>8, MutateTyped
  <2>3. PICK q \in Request : q.project = shown /\ q.kind = kind /\ mut' = mut \cup {q}
    BY <1>8, MutateTyped
  <2>4. (p = shown => Guessing(p)') /\ (Guessing(p) => Guessing(p)')
    BY <2>2, <2>3 DEF Guessing
  <2>5. CASE p = shown
    <3>1. fetch'[p] = Idle
      BY <2>1, <2>5
    <3>2. ~Current(p)'
      BY <2>4, <2>5 DEF Current
    <3> QED BY <1>3, <3>1, <3>2
  <2>6. CASE p # shown
    BY <2>1, <2>4, <2>6 DEF Current
  <2> QED BY <2>5, <2>6
<1>9. ASSUME NEW m \in Mutation, NEW c \in Entry, MutateCreate(m, c)
      PROVE  /\ p \notin off' /\ Current(p)' => Current(p) /\ cache'[p] = cache[p]
             /\ fetch'[p].st = "answered" => fetch'[p] = fetch[p]
  <2>1. UNCHANGED <<loaded, cache, invalid, fetch>>
    BY <1>9 DEF MutateCreate
  <2>2. mut \subseteq mut'
    BY <1>9 DEF MutateCreate
  <2>3. Guessing(p) => Guessing(p)'
    BY <2>2 DEF Guessing
  <2> QED BY <2>1, <2>3 DEF Current
<1>10. ASSUME NEW q \in mut, Succeed(q) \/ MutationFails(q)
       PROVE  /\ p \notin off' /\ Current(p)' => Current(p) /\ cache'[p] = cache[p]
              /\ fetch'[p].st = "answered" => fetch'[p] = fetch[p]
  <2>1. PICK o : o = q.project
    OBVIOUS
  <2>2. /\ mut' = mut \ {q}
        /\ \/ cache' = cache /\ loaded' = loaded
           \/ /\ \A r \in Project \ {o} : cache'[r] = cache[r]
              /\ loaded' = loaded \cup {o}
        /\ \/ /\ invalid' = invalid \cup {o}
              /\ o = shown => fetch'[o] = Asked
              /\ o # shown => fetch'[o] = fetch[o]
           \/ /\ q.kind = "created" /\ cache' = cache /\ loaded' = loaded
              /\ invalid' = invalid /\ fetch' = fetch
        /\ \A r \in Project \ {o} : fetch'[r] = fetch[r]
    BY <1>10, <2>1, SettleTyped
  <2>3. p # o \/ q.kind = "created" => (Guessing(p) => Guessing(p)')
    BY <2>1, <2>2 DEF Guessing
  <2>4. CASE p # o
    <3>1. cache'[p] = cache[p] /\ fetch'[p] = fetch[p]
      BY <2>2, <2>4
    <3>2. p \in loaded' \ invalid' => p \in loaded \ invalid
      BY <2>2, <2>4
    <3> QED BY <2>3, <2>4, <3>1, <3>2 DEF Current
  <2>5. CASE p = o /\ invalid' = invalid \cup {o} /\ (fetch'[o] = Asked \/ fetch'[o] = fetch[o])
    BY <1>3, <2>5 DEF Current
  <2>6. CASE /\ q.kind = "created" /\ cache' = cache /\ loaded' = loaded
             /\ invalid' = invalid /\ fetch' = fetch
    BY <2>3, <2>6 DEF Current
  <2> QED BY <2>2, <2>4, <2>5, <2>6
<1> QED BY <1>6, <1>7, <1>8, <1>9, <1>10

\* Every step keeps the events true and the lists following the table.
LEMMA SyncStep ==
  ASSUME ListsInv, ListsInv', SyncInv, [Next]_vars
  PROVE  SyncInv'
<1>1. TypeOK /\ TypeOK' /\ MovesSetPlace /\ ListsUnique
  BY DEF ListsInv
<1>2. EventsOnce' /\ EventsTrue'
  BY EventsStep DEF SyncInv
<1>3. ASSUME NEW p \in Project
      PROVE  Followed(p)'
  <2>1. Followed(p) /\ EventsOnce /\ EventsTrue
    BY DEF SyncInv
  <2>2. ASSUME NEW kind \in Kind, NEW fld \in Field, NEW c \in Entry, OtherWrite(kind, fld, c)
        PROVE  Followed(p)'
    <3>1. /\ kind = "moved" => fld = "place"
          /\ Write(kind, fld, c)
          /\ UNCHANGED <<wire, loaded, cache, invalid, fetch, off>> /\ mut' = mut
      BY <2>2 DEF OtherWrite, Asks, socket, client
    <3>2. PICK new \in Entry : Written(kind, c, new)
      BY <1>1, <3>1, WriteEffect
    <3> QED BY <1>1, <2>1, <3>1, <3>2, FollowedWriteStep
  <2>3. ASSUME NEW q \in mut, Commit(q)
        PROVE  Followed(p)'
    <3>1. UNCHANGED <<wire, loaded, cache, invalid, fetch, off>>
      BY <2>3 DEF Commit, socket
    <3>2. PICK new \in Entry : Written(q.kind, q.card, new)
      BY <1>1, <2>3, CommitTyped
    <3>3. q.kind \in Kind /\ q.card \in Entry
      BY <1>1, <2>3, CommitTyped
    <3>4. PICK r \in Request : mut' = (mut \ {q}) \cup {r} /\ r.project = q.project /\ r.kind = q.kind
      BY <1>1, <2>3, CommitTyped
    <3>5. \A y \in mut : \E x \in mut' : x.project = y.project /\ x.kind = y.kind
      BY <3>4
    <3> QED BY <1>1, <2>1, <3>1, <3>2, <3>3, <3>5, FollowedWriteStep
  <2>4. CASE \/ \E e \in pending : Emit(e)
             \/ \E o \in Project : Joined(o)
             \/ Disconnect \/ Reconnect \/ TokenRefreshed \/ UNCHANGED vars
    BY <1>1, <2>1, <2>4, FollowedSocketStep
  <2>5. CASE Deliver
    BY <1>1, <2>1, <2>5, FollowedDeliverStep
  <2>6. ASSUME NEW o \in Project, Answer(o)
        PROVE  Followed(p)'
    BY <1>1, <2>1, <2>6, SnapshotTaken
  <2>7. ASSUME NEW o \in Project, Receive(o)
        PROVE  Followed(p)'
    BY <1>1, <2>1, <2>7, SnapshotReceived
  <2>8. CASE \/ \E o \in Project : Show(o) \/ FetchFails(o)
             \/ \E m \in Mutation, kind \in Kind, fld \in Field, c \in Entry : Mutate(m, kind, fld, c)
             \/ \E m \in Mutation, c \in Entry : MutateCreate(m, c)
             \/ \E q \in mut : Succeed(q) \/ MutationFails(q)
    BY <1>1, <2>1, <2>8, FollowedTabStep
  <2> QED BY <2>2, <2>3, <2>4, <2>5, <2>6, <2>7, <2>8 DEF Next
<1> QED BY <1>2, <1>3 DEF SyncInv

LEMMA SyncInit == Init => SyncInv
<1> SUFFICES ASSUME Init
             PROVE  SyncInv
  OBVIOUS
<1>1. /\ log = <<>> /\ pending = {} /\ wire = <<>> /\ loaded = {}
      /\ fetch = [p \in Project |-> IF p = shown THEN Asked ELSE Idle]
  BY DEF Init
<1>2. Out = {} /\ DOMAIN log = {} /\ DOMAIN wire = {}
  BY <1>1 DEF Out
<1>3. EventsOnce /\ EventsTrue
  BY <1>1, <1>2 DEF EventsOnce, EventsTrue
<1>4. \A p \in Project : fetch[p].st # "answered" /\ p \notin loaded
  BY <1>1, FetchValues
<1>5. \A p \in Project : Followed(p)
  BY <1>4 DEF Followed, Current
<1> QED BY <1>3, <1>5 DEF SyncInv

\* The events on their way bring every list up to date, or a named race has
\* put its project off.
THEOREM SyncInvariance == Spec => [](ListsInv /\ SyncInv)
<1>1. Init => ListsInv /\ SyncInv
  BY ListsInit, SyncInit
<1>2. ListsInv /\ SyncInv /\ [Next]_vars => (ListsInv /\ SyncInv)'
  BY ListsStep, SyncStep
<1> QED BY <1>1, <1>2, PTL DEF Spec

\* useBoardRealtime "keeps the React Query issue cache in sync": when nothing is
\* under way and none of the named races has happened since the last snapshot, the
\* board shows exactly the rows of its project.
THEOREM BoardInSync == Spec => []InSyncWithoutRaces
<1>1. ListsInv /\ SyncInv => InSyncWithoutRaces
  <2> SUFFICES ASSUME ListsInv, SyncInv, Quiet, shown \notin off
               PROVE  cache[shown] = RowsOf(shown)
    BY DEF InSyncWithoutRaces
  <2>1. shown \in Project /\ rows \subseteq Entry /\ cache[shown] \subseteq Entry
    BY TypeParts DEF ListsInv, ClientTyped, ServerTyped
  <2>2. Current(shown)
    BY DEF ListsInv, ShownIsFetched, Quiet, Guessing, Current
  <2>3. /\ \A x \in cache[shown] : x.id \in IssuesOf(shown)
        /\ \A i \in IssuesOf(shown) : Overtaken(i) \/ Reaches(cache[shown], i, OutOf(i))
    BY <2>1, <2>2 DEF SyncInv, Followed, CacheOf
  <2>4. \A i : OutOf(i) = {}
    BY DEF Quiet, Out, OutOf
  <2>5. \A i \in IssuesOf(shown) : Reaches(cache[shown], i, {})
    BY <2>3, <2>4 DEF Overtaken
  <2>6. \A x, y \in Entry : x.id = y.id /\ x.place = y.place /\ x.text = y.text => x = y
    BY DEF Entry
  <2>7. ASSUME NEW x \in cache[shown]
        PROVE  x \in RowsOf(shown)
    <3>1. x.id \in IssuesOf(shown)
      BY <2>3
    <3>2. Reaches(cache[shown], x.id, {})
      BY <2>5, <3>1
    <3>3. PICK r \in rows : r.id = x.id
      BY <3>2 DEF Reaches
    <3>4. x.text = r.text /\ x.place = r.place
      BY <3>2, <3>3 DEF Reaches
    <3>5. x = r
      BY <2>1, <2>6, <3>3, <3>4
    <3> QED BY <3>1, <3>5 DEF RowsOf, IssuesOf
  <2>8. ASSUME NEW r \in RowsOf(shown)
        PROVE  r \in cache[shown]
    <3>1. r \in rows /\ r.id \in IssuesOf(shown)
      BY <2>1 DEF RowsOf, IssuesOf, Entry
    <3>2. Reaches(cache[shown], r.id, {})
      BY <2>5, <3>1
    <3>3. PICK x \in cache[shown] : x.id = r.id
      BY <3>1, <3>2 DEF Reaches
    <3>4. x.text = r.text /\ x.place = r.place
      BY <3>1, <3>2, <3>3 DEF Reaches
    <3>5. x = r
      BY <2>1, <2>6, <3>1, <3>3, <3>4
    <3> QED BY <3>5
  <2> QED BY <2>7, <2>8
<1> QED BY <1>1, SyncInvariance, PTL
=============================================================================
