# A verification project for the multi-tenant project-management API

The repository is a TypeScript monorepo: a NestJS API (`src/apps/api`) on
PostgreSQL, Redis and object storage, a Next.js board (`src/apps/web`) and two
shared packages (`src/packages/types`, `src/packages/db`). The API is one
asynchronous process, or several behind a load balancer. A request handler is a
sequence of database calls with awaits between them, so the calls of two
handlers interleave. Transactions are the exception: the code opens two (`create`
of an issue and `acceptInvite`). What makes this program hard to test
follows from that: rows are read in one call and used in a later one. What spans
the API and something else (a browser's cache, Stripe, the object store, the job
queue) spans no transaction at all.

These modules model that. An action is one database call, or everything a
handler does between two awaits; what a handler has read stays in its own
state until it uses it. TLC checks small instances, TLAPS proves the main
properties for every value of the constants.

## 1. Inventory

### Components that are modelled

| Component | State | Operations | Interacts with |
|---|---|---|---|
| Sessions (`auth/token.service.ts`) | `refresh_tokens`: token, family, user, `revokedAt`, `expiresAt` | `issueForUser`, `rotate`, `revoke` | login and register start a family; the web client's retry presents its cookie |
| Auth client (`web/lib/api.ts`, `auth-store.ts`, `providers.tsx`) | the browser's cookie; per tab the access token, the shared refresh, its calls | login, silent restore, `request` with one retry, reload | sessions, through `/auth/refresh` |
| Membership (`orgs/orgs.service.ts`, `common/guards`) | memberships, invites, organisations | `create`, `addMember`, `updateMemberRole`, `removeMember`, `acceptInvite` | TenantGuard and RbacGuard run first; mails carry invite links |
| Roles (`types/src/rbac.ts`) | none | `can`, `atLeast` | RbacGuard |
| Ranks (`types/src/rank.ts`) | none | `rankBetween`, `firstRank` | `create` and `move` on the server, the optimistic drop on the board |
| Issues (`issues/issues.service.ts`) | issues (number, status, rank), `project.issueCounter` | `create`, `update`, `move`, `remove`, `list` | ranks; broadcasts and notifications after the write |
| Presence (`realtime/realtime.gateway.ts`) | per node: rooms of each socket, roster of each room | `handleConnection`, `onJoin`, `onLeave`, `handleDisconnect` | socket.io's rooms; the board's roster |
| Board client (`web/lib/hooks.ts`, `use-board-realtime.ts`, `socket.ts`, `components/board.tsx`) | a list of issues per project, queries and mutations under way, the socket | queries, optimistic mutations, event handlers, drops | `list` and the writes of issues; events of the gateway's rooms |
| Notifications (`notifications/*`) | the job queue, `notifications`, a user's preferences, the panel that shows them | `enqueue`, `process`, `markRead`, `updatePrefs` | enqueued by `create` and `update` of an issue; mails |
| Billing (`billing/*`) | the organisation's `subscriptions` row; customers, sessions, subscriptions and events at Stripe | `createCheckout`, `handleWebhook` | Stripe |
| Attachments (`attachments/*`, `storage.service.ts`) | `attachments` rows, objects, uploads of tabs | `presign`, `confirm`, `remove`, `list`, the tab's upload | the object store; rows go with their issue |
| Seed script (`db/prisma/seed.ts`) | where it stands | upserts, the counter it sets | the issues and the counter of a project in use |

What is hard in each, and what makes it correct:

- **Sessions.** `rotate` reads a token, judges it, revokes it and inserts its
  successor in three calls. Two rotations, a rotation and a logout, or a failure
  between two calls can meet at any point. Correct means: a session never changes
  its user, a dead family is never revived, and one token does not turn into
  unboundedly many.
- **Auth client.** One cookie, several tabs, and a refresh that only the calls of one
  tab share. Correct means: a browser in which no two refreshes overlapped keeps the
  session of its last login, and every call ends.
- **Membership.** Every operation checks a row and writes later. Correct means:
  nobody is in an organisation without somebody allowed to ask for it having
  asked, only founders own, the check that protects the OWNER holds at the write.
- **Ranks.** A loop over digits whose exit depends on a flag set in an earlier
  iteration. Correct means: it ends, strictly between its bounds, and what it
  returns can be a bound again.
- **Issues.** `create` holds the project row's lock from its counter increment to
  its commit; `move` and `update` take no lock. Correct means: numbers have no
  gap and no reuse, creates stay in order, drops land where the card was dropped.
- **Presence.** `onJoin` awaits between a message and its effect, while the socket
  may leave, close or join again. Correct means: nobody with an open tab is
  hidden, and nobody without one is shown.
- **Board client.** A list is changed by its own mutations before the server has
  them, by events after it, and replaced by refetches at any time. Correct means:
  when all is quiet it is the server's list, and no guess of its own stays.
- **Notifications.** An attempt that fails leaves what it has done to the next one.
  Correct means: a job ends, a completed one has its row, mails are not repeated
  by retries and respect the preference.
- **Billing.** Two parties remember one customer, and webhooks come late, twice and
  out of order. Correct means: the row becomes what Stripe has, never a mixture.
- **Attachments.** Rows and objects are created and deleted in separate requests and
  calls. Correct means: a row has its object, an object without a row has a reason.
- **Seed script.** It sets the counter of a project that may be in use. Correct
  means: the next number is free.

### Components that are not modelled

| Component | Why |
|---|---|
| Projects | one guarded insert; the race on its key is that of a slug, which `Membership` has |
| Audit trail | rows whose write failures are swallowed and that only `auditLogs` reads |
| Row level security | policies that PostgreSQL evaluates; no service calls `runWithTenant`, the only code that would set their variable |
| Request validation | pure parsing; the constraints that matter are assumptions (`GrantAssumption`) or guards here |
| Redis adapter, health, error reporting, configuration, start-up, pages, tests, CI | wiring, output or rendering without state of their own |

Of the modelled components these parts are left out: the cursor of a user on a board,
which is shown and never kept; comments and labels, whose handlers insert and delete
single rows; the filters of `list`; the queries of the web client that only fetch;
the expiry of download links.

## 2. Modules

| Module | Models | Correspondence |
|---|---|---|
| `CredentialLife` | what is promised of a credential: none, alive, dead, in that order | abstract; refined by `RefreshTokens` (families) and `Membership` (invite links) |
| `RefreshTokens` | `TokenService` | `RotateRead` is the `findUnique` with the check that follows it, `RotateNuke` the `updateMany`, `RotateConsume` the `update`, `RotateCreate` the `create`; `Fail` ends a handler after any of them; `Expire` is time |
| `AuthClient` | the tabs of a browser, on top of `RefreshTokens` | `ex` is the one `/auth/refresh` of a tab, `call` its api calls, `serving` which tab a handler answers; `Unauthorized` is a 401, `Release` what the awaiting calls do, `Refused` also the second attempt of the silent restore |
| `Rbac` | `rbac.ts`, `RbacGuard` | the tables and the two comparisons |
| `Membership` | `OrgsService` behind the guards, `AuthService.register` | `req[r]` is what handler `r` has read so far; `row` is the id of a membership row, so that a write by id misses a row that was deleted and inserted again |
| `Ranks` | `rank.ts` | strings as sequences of digits; `RankBetween` is the loop's result without the loop |
| `RankLoop` | the loop of `rankBetween` | `Emit` and `Descend` are the two branches of its body |
| `IssueBoard` | `IssuesService` on one project | `CreateLock`, `CreateReadLast`, `CreateCommit` are the transaction; `MoveRead`, `ReadAbove`, `ReadBelow`, `MoveWrite` the calls of `move`, whose two neighbour queries answer in any order |
| `BoardSync` | a tab's issue lists and socket, with the writes and announcements of `IssuesService` | `Write` is a committed write, `Emit` its `emitToProject` after the audit insert, `Deliver` the handlers of `useBoardRealtime`, `Mutate` `onMutate`, `Succeed` and `MutationFails` `onSuccess`, `onError`, `onSettled`; `fetch` is the state of a query |
| `BoardDrop` | `onDragEnd` | `Shown` is the sorted column, `InsertAt` the index, `Ignores` its early returns |
| `Presence` | `RealtimeGateway` on one node | `Join` is `onJoin` up to its await, `JoinResume` what follows; `LeaveRooms` is `leaveRoom` |
| `Notifications` | `NotificationsService`, the processor, the settings panel | `CreateRow`, `LookupUser`, `SendMail` are the calls of `process`; `Stall` is a worker that died; `UpdatePrefs` is a toggle carried out while the panel waits for it, `OtherUpdate` one it has given up, or another tab's |
| `Billing` | `BillingService` and Stripe | `ReadOrg` to `CreateSession` are the calls of `createCheckout`, `FindRecord` and `Reconcile` those of `reconcileSubscription`; `Pay` and `Progress` happen at Stripe |
| `Attachments` | `AttachmentsService`, `uploadAttachment`, the store | one action per request or call; `RemoveRow` and `RemoveObject` are the two deletions of `remove` |
| `Seed` | the script's loop and last update, against `create` and `remove` | `position` is the script's loop variable, `creating` an open transaction |
| `MC*` | the instances TLC checks | values, symmetry, bounds |
| `BoardSyncProofs`, `IssueBoardProofs`, `MembershipProofs`, `PresenceProofs`, `RanksProofs`, `RefreshTokensProofs` | theorems about the module of that name, the last one also about `AuthClient` | see section 5 |
| `RankUsesProofs`, `ServicesProofs` | theorems about `RankLoop` and `BoardDrop`; about `Attachments`, `Billing`, `Notifications` and `Seed`, and the six together | see section 5 |

Operators whose comment begins with *Mutant* are plausible bugs of the
definition below them. No specification uses them; put in that definition's place
they make TLC refute the property they are meant for.

Abstractions that matter:

- A token, a slug, an address or an issue is a model value. Random values are
  fresh. `Lower` is the lower-casing of addresses, an idempotent function on them:
  invites are stored lower-cased and accounts as typed, so one person may own
  `Bob` and `bob`.
- Audit inserts follow the write they record, are swallowed when they fail and
  are never read back; they are left out. So are the mails of invites.
- A request that ends in an error changes nothing more: it is `Fail`, which a
  handler may also take at any other point (a lost connection, a dead process).
- Ranks are compared in code order, as the client and `rankBetween` do. The
  server's `ORDER BY rank` uses the database's collation, which orders digits and
  letters the same way only if it is a C collation.
- Presence: a socket's user is fixed by the token it presents. `inRoom` is
  socket.io's own record, `rooms` is `client.data.rooms`; a join that resumes
  before the handshake has set `client.data` changes the first and throws before
  it changes the second.
- `BoardSync`: a place is a column with a rank, a number in the order `list` sorts;
  the other fields of an issue are one value. Ranks themselves are `IssueBoard`'s and
  `BoardDrop`'s. A refetch answers with the rows of one moment.
- `Billing`: every price of a subscription is that of a configured plan, so the FREE that
  `reconcileSubscription` falls back to for an unknown price does not occur.
- `Notifications` has one settings panel. What the user's other tabs write, and what the
  server still carries out of a toggle that failed for the panel, is `OtherUpdate`: any
  preference, on or off, at any time.
- The variables `off`, `upset`, `careless`, `outdated`, `late` and `orphaned` are
  history: each collects, by name, the races and failures after which the code
  promises less. A property that mentions one says what holds without them.

## 3. Runs

| Run | Question | Bounds, and why they are enough |
|---|---|---|
| `sessions` | Do racing, failing and retried requests keep a session with its user, bound the successors of a token, and leave dead families dead? Does a browser keep its session without races, and does every call end? | 3 tokens, 2 families, 2 users, 2 handlers: a token, two successors, a second session. Either anybody presents any token, or 2 tabs with one call each and 2 troubles do |
| `tokens_single_use_race` | Is a token single-use? No: two rotations that both read it first. | 1 family, 2 handlers |
| `members_race` | Do checks hold at the write? Do invites die for good? Is anybody in an organisation that did not ask for them? | 2 people, 2 roles of which one may invite, 2 links so that one replaces the other, 2 different grants; or 2 organisations and 2 accounts equal up to case; 2 handlers, 1 deletion per membership |
| `members_owner_demoted` | Does the founder stay OWNER? No: `addMember` overwrites the role. | 1 handler is enough |
| `invites_single_use_race` | Does a link admit once? No: two acceptances that both read it first. | 1 link, 2 handlers |
| `board_race` | Are numbers a sequence, do creates keep their order, are stored ranks usable, do drops land between the neighbours they read? | 3 issues of one column, or 2 issues in 2 columns; 2 requests, base 2 and 2 digits, so that ranks collide and run out at once |
| `board_equal_ranks` | Do the cards of a column differ in rank? No, even with one request at a time. | 2 issues, 2 columns, 1 request |
| `presence_tabs` | Is anybody with an open tab hidden? Is the roster exact when nothing raced? | 2 tabs of one user and 1 of another, 2 projects of which one is not visible to the second, 2 joins a socket |
| `presence_ghost` | Is everybody in the roster connected? No: a join that resumes after the disconnect. | 2 sockets, 1 project |
| `board_sync` | Does a quiet board show what the server has? Does it double a card, or keep a guess? | 2 boards, 2 issues of one of them, 2 writes, 2 mutations, 2 troubles, 3 of these together; a limit of 1 issue, so that the second one is beyond it |
| `board_drop_ignored` | Is a drop that is ignored one in place? No: one on an empty column is ignored too. | 2 cards, 2 columns |
| `services` | Six questions of components that share no state, see below. | one behaviour moves one of them (`subject`), the others stand still |

`services` asks, one component at a time:

- `Notifications`: do jobs end, with a row each, without repeated mails, silent in a run
  that began muted, and does the settings panel end up right? One job, 3 attempts, 1
  death, 2 toggles of 2 preferences, 2 failures. While the job is under way the panel
  rests and others change the preference.
- `Billing`: does the row become what Stripe has, and is it never a mixture? 2
  customers, 2 subscriptions, 2 checkouts, 3 events, 1 webhook at a time.
- `Attachments`: do rows have objects, and objects reasons? 3 keys of 2 issues, 2
  removals.
- `Seed`: is the next number free? 3 seeded issues, 6 numbers.
- `BoardDrop`: do drops land where the card was released? 3 cards, 2 columns, base 4.
- `RankLoop`: does `rankBetween` end, in order, with a usable rank, as its closed form
  says? Base 4, all bounds of up to 3 digits: every combination of adjacent, equal
  and exhausted digits at two positions.

Six of the runs end in a violation on purpose. Each states what a comment, an
error message or a document of the code says and shows a run of the code that breaks
it; the line and the quotation are under `findings` in `PROJECT.json`. The passing runs
beside them say what holds instead: not single use but one successor per racing
handler; not a fixed OWNER but an OWNER check that is never stale where it is
made; not distinct ranks but drops that land between what they read or change
nothing; not an exact roster but one that never hides anybody and is exact for
sockets that let a join finish; not every drop but every drop that is not ignored.

What the modules deliberately do not claim:

- `ClosedFamilyIsDead` (after a logout or a reuse no token of the family is usable)
  is proved for one handler at a time only: a rotation that passed its check before
  the logout inserts a usable successor after it, and `ImplementsCredentialLife`
  counts the family as alive until then.
- A new issue need not rank below every card of its column: a card that is
  moved to the bottom between `CreateReadLast` and `CreateCommit` ends level with it
  or below it, so `CreatesInOrder` speaks of cards nobody moved.
- A browser keeps its session only while no two refreshes overlap. Two tabs that are
  loaded together present one cookie twice, and the slower one is taken for a thief.
  Likewise a tab that is reloaded while its refresh is under way, and a lost answer.
- `InSyncWithoutRaces` excuses the events missed while the socket was in no room. A
  socket that reconnects joins no room again, so a board stays deaf until its
  effect runs again.
- The clients patch the events of their own writes as well, although
  `ARCHITECTURE.md:86-87` has them ignored.
- A card released over itself goes to the end of its column, since its own index is
  -1 in the column without it; `DropsLandWhereReleased` says so.
- `ReconciledWithoutRaces` excuses a second subscription of one customer, which
  overwrites the row of the first, a webhook of an unknown customer, which is
  acknowledged and lost, and an older event delivered last. An
  `incomplete_expired` subscription keeps its plan, with status `CANCELED`.
- `PanelInSync` excuses the preferences written since the server last answered the panel by
  a request the panel has given up (a toggle that failed for the client need not have
  failed at the server) or by another tab, until it is answered again; after a fetch
  that failed it claims nothing until the next answer.
- `MutedMeansSilent` is about a preference that is off for the whole of a run, from when
  the worker takes the job until it asks. One switched off between the two mutes the
  mail as well, one switched off after the question does not.
- `RowsHaveObjects` is about clients that follow `uploadAttachment`: `confirm` itself
  does not ask the store.
- `NextNumberIsFree` excuses a run of the script that has not reached its end, and
  one that has set the counter back: after that `schema.prisma:206` ("monotonic
  per-project issue number") no longer holds.

Named bounds in the modules: `MaxRejoin` (deletions of one membership),
`MaxRankLen` and `MaxDigits` (digits of a stored rank), `MaxJoins` (joins a socket
sends), `MaxTroubles` (expiries, lost answers, reloads, lost connections), `MaxWrites`,
`MaxMisses`, `MaxEvents`, `MaxNumber`. The sizes of `Token`, `Family`, `InviteToken`,
`Issue`, `Socket` and `Key` bound what can be created. `MaxAttempts` and
`MaxStalls` are the code's and BullMQ's own. When the bounds are used up the system
has nothing left to do, hence `CHECK_DEADLOCK FALSE` in most runs; `sessions` always
has a request to serve and is checked for deadlock. Some MC modules state a
constraint `Bounds`, which leaves out combinations of things that are explored
separately; its comment says which. Symmetry is declared over sets whose elements no
definition distinguishes, in runs of safety properties only.

Fairness. `RankLoop`: a loop that is running keeps running. `NotifyFairness`: a
request that has committed goes on to `enqueue`, and the worker takes jobs and works
on them, which is what BullMQ's worker does while one is up; that an attempt fails or
the worker dies is never demanded. `AuthClient`: handlers end, with an error if need
be, requests that were sent are answered, and a tab reacts to an answer; users need
not do anything. Nothing else has any: nothing in the code retries a failed request of
the other components, so no request is bound to finish, and no liveness is claimed.

## 4. Hazards

`PROJECT.json` lists them with their lines. Each names the properties that would fail,
but for two: a `register` whose later calls fail, whose pieces nothing relates to
each other, and the collation of the database, which is not in the code.

## 5. Proofs

| Module | Theorem | Holds |
|---|---|---|
| `RefreshTokensProofs` | `TypeCorrect`, `OneUser`, `BoundedReplay`, `Refinement` | for any tokens, families, users and handlers |
| | `Composition`, `ClientTypeCorrect`, `KeepsSession` (of `AuthClient`) | for any tabs and calls as well, and any bound on troubles |
| | `SequentialSafety` | with at most one handler: single use, revoked families are dead, one usable token per family |
| `MembershipProofs` | `TypeCorrect`, `OwnerCheckSound`, `Ownership`, `Isolation`, `InviteRefinement` | for any organisations, addresses, roles other than OWNER, lower-casing and handlers |
| | `BoundedAdmission` | a link admits at most as often as there are handlers, for any finite number of them |
| | `SequentialAdmission` | with at most one handler: once |
| `BoardSyncProofs` | `BoardTypeCorrect`, `OneCardOnBoard`, `GuessesGo`, `BoardInSync` | for any projects, issues, places, texts, mutations and limit, and any bounds on writes and troubles |
| `RanksProofs` | `BetweenAbove`, `BetweenBelow` | the closed form lies between its bounds and is usable |
| `RankUsesProofs` | `RankTypeCorrect`, `Between`, `Closed`, `Bounded`, `RoundsRunOut`, `Computes` (of `RankLoop`) | for every base from 2 and all bounds the precondition admits |
| | `DropTypeCorrect`, `Landing` (of `BoardDrop`) | for any cards, columns, base and rank length |
| `IssueBoardProofs` | `TypeCorrect`, `Numbering`, `CreationOrder`, `Usability`, `Dropping` | for any issues, columns, requests, base and rank length |
| `ServicesProofs` | `AttachmentsTypeCorrect`, `Downloadable`, `NothingLeaks`, `RemovedOnce` | for any keys, issues and removals |
| | `BillingTypeCorrect`, `RowShowsOneEvent`, `CheckoutsShareCustomer`, `RowFollowsStripe` | for any customers, subscriptions, events, checkouts and webhooks at a time |
| | `NotifyTypeCorrect`, `RowsCounted`, `MailsCounted`, `MutedUsersGetNone`, `PanelSettles` | for any jobs, attempts, deaths, toggles, failures and writes of others |
| | `SeedTypeCorrect`, `CreatesSucceed` | for any length of the seed list |
| | `ServicesTypeCorrect` | the six components of the run `services` side by side |
| `PresenceProofs` | `TypeCorrect`, `Visibility`, `Exactness` | for any finite set of sockets, any users, projects and memberships |

The assumptions are those the modules name: `None` is outside the sets it joins,
invites carry no OWNER role, lower-casing is idempotent, the base is at least 2,
sockets are finitely many, cards are not columns, a key has an issue.

How they go:

- **Sessions.** A handler past its read holds an existing row; a handler about to
  insert has revoked the row it holds, and no other row names the same parent and
  minter. Hence one successor per handler. For the refinement: a handler at
  `consume` or `create` keeps its family alive in the mapping, so an insert
  prolongs the life of a family and never restores it. With one handler
  (`SequentialSafety`, which no run repeats) the invariant is strengthened by
  `SeqInv` (an open rotation has the only live token), which a second handler breaks.
- **Browser.** `ClientStepRefines`: a step of a tab is one of `RefreshTokens` or
  changes nothing there, so the server's theorems hold of `ClientSpec` too.
  `SessionWithoutRaces` alone does not say who is about to replace the cookie:
  `InTurn` adds that, without races, one tab at most has a refresh under way, for the
  user of the last login, with the cookie until it is served, and that only the
  handler serving it is at work; `Serves` that no two handlers serve one tab.
- **Membership.** `AdmittedOnlyByGrant` is not inductive by itself: a role
  travels from the request through the handler and the invite row to the
  membership row, and `InvitesAreGrants` and `HandlersActOnGrants` carry the
  grant along. `OwnerCheckNeverStale` rests on nothing making an existing
  member an OWNER.
- **Invite links.** `InviteRefinement` follows the pattern of the sessions: a handler
  at its commit keeps the link alive in the mapping, only `AddMemberInvite` gives a
  link out, and every other step leaves the dead ones dead (`NoLinkRevived`). That
  `invites_single_use_race` finds a link that admits twice raises the question how
  often: `AdmitInv` counts the admissions of a link together with the handlers that
  still hold it. A commit takes the row out of play, because a link is that of one
  row for good (`LinksHaveOneRow`), so a link that has admitted somebody is found no
  more, and the sum never exceeds the number of handlers.
- **Ranks.** `RankLoop`'s invariant says the emitted digits are `a`'s, and `b`
  agrees with them or is open. `Computes` ties the loop to the closed form.
  Facts about the least position with a gap come from the least-element
  principle for naturals, since data induction over an operator is not available.
  `b` must not end in the digit 0: between `A` and `A0` there is no rank.
  `Usability` shows the system never stores one that does.
- **Issues.** The holder of the project row carries the next number, and once it
  has read the last rank, a rank above every card of its column that nobody
  moved. Moved cards may pass it, which is why the order is claimed of the
  others only. `Dropping` combines the neighbours a handler holds, which are
  usable because stored ranks are, with `BetweenAbove` and `BetweenBelow`.
- **Board and cache.** Two invariants. `ListsInv`: the table, the cache, each answer
  on its way and each list kept for a rollback have one entry an issue; a card the
  server never stored has in its project a mutation or a fetch under way, or a mark,
  that will replace it. A rollback may bring back the guess of another mutation, whose
  settling then has the list fetched, which is why guesses are counted by project.
  `SyncInv`: what `Quiet` says at the end must be said of every moment before.
  `EventsTrue`: the newest event of an issue on its way says what the table has, no
  event of it precedes its creation or follows its deletion, and an event that no
  delivered one has passed still has its text in the table unless a later event on
  its way changes it. `Reaches`: the events on their way, applied in their order,
  turn a list into the table. `Followed` claims that of the cache while nothing is about
  to replace it, but for issues of which a later event has come before an earlier one
  (`Overtaken`; delivering that earlier one puts the board off), and of each snapshot
  with the events after it. Without events on their way `Reaches` is equality.
- **Presence.** Each change of a socket's rooms is matched in the roster or leaves
  the count too high; a socket that is *calm* (it never raced) has one join under
  way at most and, once closed, none and no rooms. Counting uses the library's
  facts on finite cardinality.
- **Drops.** What the board shows of a column is an injection of `1..n` into its `n`
  cards and therefore all of them, by the library's facts on finite sets: the cards
  above the place of the drop are those with smaller indices, none of them ranks above
  the neighbour, and the new rank is above the neighbour by `BetweenAbove` and below
  the card under it by `BetweenBelow`. Nothing is assumed of ranks being distinct.
- **Attachments.** The properties need three more facts: an upload about to be
  confirmed has stored its object; a removal holds a key whose upload is over, so no
  insert can bring its row back; and between the two deletions there is no row.
- **Billing.** A checkout about to save or to open a session has a customer
  (`CustomerInHand`). `InTurn`: with no overlap and no failure one checkout at most is on
  its way to a customer, and then there is none yet. `WrittenInOrder`: with one
  subscription and no unknown customer every event is due or was written, and the row
  shows the newest one written, so that an empty `due` leaves the newest of all.
- **Notifications.** Counting rows needs their place within the runs (`RowsNumbered`),
  and mails that the run under way has sent none yet (`MailsPerDeath`): a failure after
  the last call cannot happen, only a death. A job whose
  preference is on while its run has not asked is remembered, and a mail is about to go
  for those only (`AllowedKept`). For the panel, the answer on its way is the user's row
  while no click is under way, but for what others wrote since (`AnswerIsCurrent`).
- **Seed script.** `SeedInv` says which numbers lie beyond the counter: those of a run of
  the script that has not set it yet.
- **Side by side.** `ServicesTypeCorrect` is about the specification of the run itself: the
  component that moves keeps its invariant by its own step lemma, and the others stand
  still at the initial states that `ServicesInv` remembers.

Every invariant, action property and refinement of the passing runs is a theorem. Only
model-checked are the three liveness properties, `CallsSettle`, `JobsEnd` and
`Terminates`, since fairness and ENABLED are outside the prover's reach, and the
violations. Of `Terminates` the other half is proved: each round of `rankBetween`
lowers a natural number (`RoundsRunOut`); that a running loop takes its next round is
what `WF_vars(Next)` says. The invariants behind the theorems about `BoardSync`, `Billing`,
`Notifications` and invite links were checked with TLC on the instances of section 3 before they
were proved.

## 6. Order of work, and what is left

Sessions, membership, ranks, issues and presence came first, because everything else
rests on them; then the clients (`AuthClient` over `RefreshTokens`, `BoardSync`,
`BoardDrop`) and the services that span the database and something else; then the
theorems about all of them. What would come next: presence of one project on two nodes
behind the Redis adapter; an abstract specification of the board (a list that
eventually is the table) that `BoardSync` implements; and the composition of
`BoardSync` with `IssueBoard`, whose ranks it abstracts to places.

## 7. Running

`tlc -config <cfg> <module>` with the pairs in `PROJECT.json`; `tlapm <module>` for
each `*Proofs` module.
