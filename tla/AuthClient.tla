----------------------------- MODULE AuthClient ----------------------------
(***************************************************************************)
(* The tabs of one browser as clients of RefreshTokens: lib/api.ts, the    *)
(* auth store and the silent restore of providers.tsx.  The tabs share the *)
(* refresh cookie and nothing else.  A handler of RefreshTokens serves one *)
(* POST /auth/refresh and goes on when the tab has stopped waiting.        *)
(***************************************************************************)
EXTENDS RefreshTokens, Naturals

CONSTANTS Tab,
          Call,        \* api calls a tab may have under way
          MaxTroubles  \* bound: tokens expired, replies lost, reloads

ASSUME AuthClientAssumption == None \notin Tab /\ MaxTroubles \in Nat

VARIABLES cookie,   \* the browser's refresh cookie
          sub,      \* the user of the access token in a tab's store
          stale,    \* tabs whose access token has expired
          restore,  \* how far a tab's silent restore has come
          call,     \* a tab's api calls
          sentOk,   \* calls last sent with a valid access token
          ex,       \* the tab's POST /auth/refresh under way: at most one
          serving,  \* the tab a handler will answer
          troubles, \* number of troubles so far
          lastUser, \* history: the user who logged in last
          upset     \* history: two refreshes overlapped, or one went wrong

tabs == <<cookie, sub, stale, restore, call, sentOk>>
clientVars == <<tabs, ex, serving, troubles, lastUser, upset>>
allVars == <<vars, clientVars>>

NoEx == [st |-> "none", token |-> None]
States == {"none", "sent", "served", "granted", "refused", "failed"}

\* The type invariant, with that of the server: a tab waits for a handler only
\* while one serves it, and calls wait only for an exchange of their own tab.
ClientTypeOK ==
  /\ TypeOK
  /\ cookie \in rows \cup {None}
  /\ sub \in [Tab -> User \cup {None}]
  /\ stale \subseteq Tab
  /\ restore \in [Tab -> {"first", "waiting", "again", "done"}]
  /\ call \in [Tab -> [Call -> {"idle", "sent", "waiting", "resent"}]]
  /\ sentOk \subseteq Tab \X Call
  /\ ex \in [Tab -> [st : States, token : Token \cup {None}]]
  /\ serving \in [Req -> Tab \cup {None}]
  /\ troubles \in 0..MaxTroubles
  /\ lastUser \in User \cup {None}
  /\ upset \in BOOLEAN
  /\ \A b \in Tab : ex[b].st = "served" <=> \E r \in Req : serving[r] = b
  /\ \A b \in Tab : (\E c \in Call : call[b][c] = "waiting") => ex[b].st # "none"

Ask(token) == [st |-> "sent", token |-> token]

\* Tabs that have just been loaded, in a browser without a session.
ClientInit ==
  /\ Init
  /\ cookie = None
  /\ sub = [b \in Tab |-> None]
  /\ stale = {} /\ sentOk = {}
  /\ restore = [b \in Tab |-> "first"]
  /\ call = [b \in Tab |-> [c \in Call |-> "idle"]]
  /\ ex = [b \in Tab |-> Ask(None)]
  /\ serving = [r \in Req |-> None]
  /\ troubles = 0
  /\ lastUser = None
  /\ upset = FALSE

Trouble == troubles < MaxTroubles /\ troubles' = troubles + 1

\* Some other tab has a refresh under way.
Overlap(b) == \E other \in Tab \ {b} : ex[other].st # "none" /\ ex[other].token # None
----------------------------------------------------------------------------
(* The server, on behalf of the tabs.                                      *)

\* AuthController.refresh up to rotate's first call.  Without a cookie, 401.
Serve(b, r) ==
  /\ ex[b].st = "sent" /\ ex[b].token # None
  /\ RotateRead(r, ex[b].token)
  /\ serving' = [serving EXCEPT ![r] = b]
  /\ ex' = [ex EXCEPT ![b].st = "served"]
  /\ UNCHANGED <<tabs, troubles, lastUser, upset>>

ServeNoCookie(b) ==
  /\ ex[b].st = "sent" /\ ex[b].token = None
  /\ ex' = [ex EXCEPT ![b].st = "refused"]
  /\ UNCHANGED <<vars, tabs, serving, troubles, lastUser, upset>>

\* The handler has ended with an answer; nobody may be waiting for it any more.
Answer(r, st, token) ==
  /\ ex' = IF serving[r] = None THEN ex ELSE [ex EXCEPT ![serving[r]] = [st |-> st, token |-> token]]
  /\ serving' = [serving EXCEPT ![r] = None]
  /\ UNCHANGED <<tabs, troubles, lastUser>>

ServeConsume(r) == RotateConsume(r) /\ UNCHANGED clientVars

ServeCreate(r, t) == RotateCreate(r, t) /\ Answer(r, "granted", t) /\ UNCHANGED upset

ServeNuke(r) == RotateNuke(r) /\ Answer(r, "refused", existing[r]) /\ UNCHANGED upset

ServeFail(r) == Fail(r) /\ Answer(r, "failed", existing[r]) /\ upset' = TRUE

SessionExpires(t) == Expire(t) /\ Trouble /\ upset' = TRUE /\ UNCHANGED <<tabs, ex, serving, lastUser>>
----------------------------------------------------------------------------
(* A tab.                                                                  *)

\* login: the answer sets the cookie and the store.  A refresh of another tab
\* that is still under way will set the cookie again.
Login(b, r, u, f, t) ==
  /\ restore[b] = "done"
  /\ IssueForUser(r, u, f, t)
  /\ cookie' = t
  /\ sub' = [sub EXCEPT ![b] = u]
  /\ stale' = stale \ {b}
  /\ lastUser' = u
  /\ upset' = (upset \/ \E other \in Tab : ex[other].st # "none")
  /\ UNCHANGED <<restore, call, sentOk, ex, serving, troubles>>

AccessExpires(b) ==
  /\ sub[b] # None /\ b \notin stale
  /\ Trouble
  /\ stale' = stale \cup {b}
  /\ UNCHANGED <<vars, cookie, sub, restore, call, sentOk, ex, serving, lastUser, upset>>

\* request: the call goes out with the access token of the store, if any.
Send(b, c) ==
  /\ restore[b] = "done" /\ call[b][c] = "idle"
  /\ call' = [call EXCEPT ![b][c] = "sent"]
  /\ sentOk' = IF sub[b] # None /\ b \notin stale THEN sentOk \cup {<<b, c>>} ELSE sentOk
  /\ UNCHANGED <<vars, cookie, sub, stale, restore, ex, serving, troubles, lastUser, upset>>

\* An answer other than 401, a lost answer, or a 401 to the second attempt.
Settle(b, c) ==
  /\ call[b][c] \in {"sent", "resent"}
  /\ call' = [call EXCEPT ![b][c] = "idle"]
  /\ sentOk' = sentOk \ {<<b, c>>}
  /\ UNCHANGED <<vars, cookie, sub, stale, restore, ex, serving, troubles, lastUser, upset>>

\* A 401 to the first attempt: refreshAccessToken, "refreshing ??= ...".
Unauthorized(b, c) ==
  /\ call[b][c] = "sent" /\ <<b, c>> \notin sentOk
  /\ call' = [call EXCEPT ![b][c] = "waiting"]
  /\ IF ex[b].st = "none"
       THEN ex' = [ex EXCEPT ![b] = Ask(cookie)] /\ upset' = (upset \/ Overlap(b))
       ELSE UNCHANGED <<ex, upset>>
  /\ UNCHANGED <<vars, cookie, sub, stale, restore, sentOk, serving, troubles, lastUser>>

\* Mutant: a refresh that failed leaves the calls that wait for it alone.
ReleaseOnSuccess(b, ok) ==
  IF ok
    THEN /\ call' = [call EXCEPT ![b] = [c \in Call |-> IF @[c] = "waiting" THEN "resent" ELSE @[c]]]
         /\ sentOk' = sentOk \cup {<<b, c>> : c \in {d \in Call : call[b][d] = "waiting"}}
    ELSE UNCHANGED <<call, sentOk>>

\* Mutant: without a token the waiting calls start over.
ReleaseStartsOver(b, ok) ==
  /\ call' = [call EXCEPT ![b] = [c \in Call |->
       IF @[c] = "waiting" THEN (IF ok THEN "resent" ELSE "sent") ELSE @[c]]]
  /\ sentOk' = IF ok THEN sentOk \cup {<<b, c>> : c \in {d \in Call : call[b][d] = "waiting"}}
                     ELSE sentOk

\* The refresh is over.  With a token every waiting call is sent once more, as
\* its last attempt; without one every waiting call fails.
Release(b, ok) ==
  /\ call' = [call EXCEPT ![b] = [c \in Call |->
       IF @[c] = "waiting" THEN (IF ok THEN "resent" ELSE "idle") ELSE @[c]]]
  /\ sentOk' = IF ok THEN sentOk \cup {<<b, c>> : c \in {d \in Call : call[b][d] = "waiting"}}
                     ELSE sentOk

\* Mutant: refresh answers with an access token and sets no cookie.
GrantedWithoutCookie(b) ==
  /\ ex[b].st = "granted"
  /\ sub' = [sub EXCEPT ![b] = userId[ex[b].token]]
  /\ stale' = stale \ {b}
  /\ Release(b, TRUE)
  /\ restore' = [restore EXCEPT ![b] = "done"]
  /\ ex' = [ex EXCEPT ![b] = NoEx]
  /\ UNCHANGED <<vars, cookie, serving, troubles, lastUser, upset>>

\* The silent restore posts /auth/refresh through request, whose own 401 leads to
\* a refresh and a second attempt.
Granted(b) ==
  /\ ex[b].st = "granted"
  /\ cookie' = ex[b].token
  /\ sub' = [sub EXCEPT ![b] = userId[ex[b].token]]
  /\ stale' = stale \ {b}
  /\ Release(b, TRUE)
  /\ restore' = [restore EXCEPT ![b] = IF @ = "waiting" THEN "again" ELSE "done"]
  /\ ex' = [ex EXCEPT ![b] = IF restore[b] = "waiting" THEN Ask(ex[b].token) ELSE NoEx]
  /\ upset' = (upset \/ (restore[b] = "waiting" /\ Overlap(b)))
  /\ UNCHANGED <<vars, serving, troubles, lastUser>>

Refused(b) ==
  /\ ex[b].st \in {"refused", "failed"}
  /\ Release(b, FALSE)
  /\ LET again == restore[b] = "first" /\ ex[b].st = "refused" IN
       /\ restore' = [restore EXCEPT ![b] = IF again THEN "waiting" ELSE "done"]
       /\ ex' = [ex EXCEPT ![b] = IF again THEN Ask(cookie) ELSE NoEx]
       /\ upset' = (upset \/ (again /\ Overlap(b)))
  /\ UNCHANGED <<vars, cookie, sub, stale, serving, troubles, lastUser>>
Abandon(b) == serving' = [r \in Req |-> IF serving[r] = b THEN None ELSE serving[r]]

\* fetch rejects: the answer, and the cookie with it, never arrives.
ReplyLost(b) ==
  /\ ex[b].st # "none"
  /\ Trouble
  /\ Release(b, FALSE)
  /\ Abandon(b)
  /\ restore' = [restore EXCEPT ![b] = "done"]
  /\ ex' = [ex EXCEPT ![b] = NoEx]
  /\ upset' = TRUE
  /\ UNCHANGED <<vars, cookie, sub, stale, lastUser>>

\* A tab is loaded again, or closed and another one opened: its memory is gone,
\* and with it whoever waited for an answer.
Reload(b) ==
  /\ Trouble
  /\ sub' = [sub EXCEPT ![b] = None]
  /\ stale' = stale \ {b}
  /\ restore' = [restore EXCEPT ![b] = "first"]
  /\ call' = [call EXCEPT ![b] = [c \in Call |-> "idle"]]
  /\ sentOk' = sentOk \ ({b} \X Call)
  /\ Abandon(b)
  /\ ex' = [ex EXCEPT ![b] = Ask(cookie)]
  /\ upset' = (upset \/ Overlap(b) \/ ex[b].st # "none")
  /\ UNCHANGED <<vars, cookie, lastUser>>

Handle(r) == ServeNuke(r) \/ ServeConsume(r) \/ ServeFail(r) \/ \E t \in Token : ServeCreate(r, t)

Browse(b) ==
  \/ ServeNoCookie(b) \/ Granted(b) \/ Refused(b)
  \/ \E r \in Req : Serve(b, r)
  \/ \E c \in Call : Settle(b, c) \/ Unauthorized(b, c)

ClientNext ==
  \/ \E r \in Req : Handle(r)
  \/ \E b \in Tab : Browse(b) \/ AccessExpires(b) \/ ReplyLost(b) \/ Reload(b)
  \/ \E b \in Tab, c \in Call : Send(b, c)
  \/ \E b \in Tab, r \in Req, u \in User, f \in Family, t \in Token : Login(b, r, u, f, t)
  \/ \E t \in Token : SessionExpires(t)

\* Handlers end, with an error if need be; requests that were sent are answered
\* and tabs react to answers.
Fairness ==
  /\ \A r \in Req : WF_allVars(Handle(r))
  /\ \A b \in Tab : WF_allVars(ServeNoCookie(b) \/ Granted(b) \/ Refused(b) \/ \E r \in Req : Serve(b, r))
  /\ \A b \in Tab, c \in Call : WF_allVars(Settle(b, c) \/ Unauthorized(b, c))

ClientSpec == ClientInit /\ [][ClientNext]_allVars /\ Fairness
----------------------------------------------------------------------------
(* Properties.                                                             *)

\* An honest browser keeps the session of its last login: as long as no two
\* refreshes overlapped and none was lost, its cookie is that user's and is
\* usable, or is being replaced right now.
SessionWithoutRaces ==
  ~upset /\ lastUser # None =>
    /\ cookie # None /\ userId[cookie] = lastUser
    /\ Live(cookie) \/ \E b \in Tab : ex[b].st \in {"served", "granted"}

\* Every api call ends: the refresh it waits for is answered or given up, and it
\* is attempted twice at most.
CallsSettle ==
  \A b \in Tab, c \in Call : call[b][c] # "idle" ~> call[b][c] = "idle"
=============================================================================
