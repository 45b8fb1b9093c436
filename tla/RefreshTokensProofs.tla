------------------------ MODULE RefreshTokensProofs ------------------------
(***************************************************************************)
(* Proofs about RefreshTokens for any number of tokens, families, users    *)
(* and handlers, and about AuthClient for any number of tabs and calls.    *)
(***************************************************************************)
EXTENDS AuthClient, TLAPS

(* Why OneSuccessorPerHandler holds: a row has a parent only once that     *)
(* parent is revoked, a handler past its check has not minted from the row *)
(* it read, and it inserts the successor only after revoking that row.     *)

ParentIsRevoked == \A t \in rows : parent[t] # None => parent[t] \in revoked

CreatesAfterConsume == \A r \in Req : pc[r] = "create" => existing[r] \in revoked

NotYetMinted ==
  \A r \in Req : pc[r] \in {"consume", "create"} =>
     \A t \in rows : parent[t] = existing[r] => minter[t] # r

\* The inductive invariant.
IInv ==
  /\ TypeOK
  /\ FamilyHasOneUser
  /\ ParentIsRevoked
  /\ CreatesAfterConsume
  /\ NotYetMinted
  /\ OneSuccessorPerHandler
----------------------------------------------------------------------------
\* The initial state, without rows and with every handler idle, satisfies it.
LEMMA InitIInv == Init => IInv
BY NoneAssumption DEF Init, IInv, TypeOK, PCs, FamilyHasOneUser, ParentIsRevoked,
   CreatesAfterConsume, NotYetMinted, OneSuccessorPerHandler

\* A login inserts the only row of its family and has no parent.
LEMMA IssueForUserIInv ==
  ASSUME IInv, NEW r \in Req, NEW u \in User, NEW f \in Family, NEW t \in Token,
         IssueForUser(r, u, f, t)
  PROVE  IInv'
<1> USE NoneAssumption DEF IInv, IssueForUser, CreateRefresh, handlers
<1>1. TypeOK'
  BY DEF TypeOK, PCs
<1>2. FamilyHasOneUser'
  BY DEF TypeOK, FamilyHasOneUser
<1>3. ParentIsRevoked' /\ CreatesAfterConsume'
  BY DEF TypeOK, ParentIsRevoked, CreatesAfterConsume
<1>4. NotYetMinted'
  BY DEF TypeOK, NotYetMinted
<1>5. OneSuccessorPerHandler'
  BY DEF TypeOK, OneSuccessorPerHandler
<1> QED BY <1>1, <1>2, <1>3, <1>4, <1>5

\* The successor copies family and user of the row its handler read, which is
\* revoked by now and of which this handler has minted nothing yet.
LEMMA RotateCreateIInv ==
  ASSUME IInv, NEW r \in Req, NEW t \in Token, RotateCreate(r, t)
  PROVE  IInv'
<1> USE NoneAssumption DEF IInv, RotateCreate, CreateRefresh, Return
<1>1. TypeOK'
  BY DEF TypeOK, PCs
<1>2. FamilyHasOneUser'
  BY DEF TypeOK, FamilyHasOneUser
<1>3. ParentIsRevoked' /\ CreatesAfterConsume'
  BY DEF TypeOK, ParentIsRevoked, CreatesAfterConsume
<1>4. NotYetMinted'
  BY DEF TypeOK, NotYetMinted
<1>5. OneSuccessorPerHandler'
  BY DEF TypeOK, NotYetMinted, OneSuccessorPerHandler
<1> QED BY <1>1, <1>2, <1>3, <1>4, <1>5

\* A handler that reads a live row has not minted from it: nobody has.
LEMMA RotateReadIInv ==
  ASSUME IInv, NEW r \in Req, NEW t \in Token, RotateRead(r, t)
  PROVE  IInv'
<1> USE NoneAssumption DEF IInv, RotateRead, Goto, db, history
<1>1. TypeOK'
  BY DEF TypeOK, PCs
<1>2. FamilyHasOneUser' /\ ParentIsRevoked' /\ OneSuccessorPerHandler'
  BY DEF FamilyHasOneUser, ParentIsRevoked, OneSuccessorPerHandler
<1>3. CreatesAfterConsume'
  BY DEF TypeOK, CreatesAfterConsume
<1>4. NotYetMinted'
  BY DEF TypeOK, ParentIsRevoked, NotYetMinted
<1> QED BY <1>1, <1>2, <1>3, <1>4

\* The other calls only revoke or expire rows, or move a handler away from the
\* part of rotate between its check and its insert.
LEMMA OtherStepsIInv ==
  ASSUME IInv,
         \/ \E r \in Req, t \in Token : LogoutRead(r, t)
         \/ \E r \in Req : RotateNuke(r) \/ RotateConsume(r) \/ LogoutRevoke(r) \/ Fail(r)
         \/ \E t \in Token : Expire(t)
         \/ UNCHANGED vars
  PROVE  IInv'
<1> USE DEF IInv, LogoutRead, RotateNuke, RotateConsume, LogoutRevoke, Fail, Expire,
            RevokeFamily, Return, Goto, vars, db, handlers, history
<1>1. TypeOK'
  BY DEF TypeOK, PCs
<1>2. rows' = rows /\ familyId' = familyId /\ userId' = userId /\ parent' = parent
      /\ minter' = minter /\ revoked \subseteq revoked'
  OBVIOUS
<1>3. FamilyHasOneUser' /\ ParentIsRevoked' /\ OneSuccessorPerHandler'
  BY <1>2 DEF FamilyHasOneUser, ParentIsRevoked, OneSuccessorPerHandler
<1>4. CreatesAfterConsume'
  BY DEF TypeOK, CreatesAfterConsume
<1>5. NotYetMinted'
  BY <1>2 DEF TypeOK, NotYetMinted
<1> QED BY <1>1, <1>3, <1>4, <1>5

LEMMA NextIInv == IInv /\ [Next]_vars => IInv'
BY IssueForUserIInv, RotateCreateIInv, RotateReadIInv, OtherStepsIInv DEF Next

\* The invariant holds throughout.
THEOREM Invariance == Spec => []IInv
BY InitIInv, NextIInv, PTL DEF Spec

\* Type correctness, for any constants.
THEOREM TypeCorrect == Spec => []TypeOK
BY Invariance, PTL DEF IInv

\* Racing, failing and repeated rotations never move a session to another user.
THEOREM OneUser == Spec => []FamilyHasOneUser
BY Invariance, PTL DEF IInv

\* A token has at most as many successors as there are handlers racing on it.
THEOREM BoundedReplay == Spec => []OneSuccessorPerHandler
BY Invariance, PTL DEF IInv
----------------------------------------------------------------------------
(* Refinement: every step is a step of CredentialLife.                     *)

\* A step that starts no family and revives none is allowed.
LEMMA NoRevivalRefines ==
  ASSUME families' = families, \A f \in families : Dead(f) => Dead(f)'
  PROVE  CL!Next
BY DEF CL!Next, CL!Ageing, FamilyState

\* A login opens its family: the token it inserts is live.
LEMMA IssueForUserRefines ==
  ASSUME IInv, NEW r \in Req, NEW u \in User, NEW f \in Family, NEW t \in Token,
         IssueForUser(r, u, f, t)
  PROVE  CL!Next
<1> USE NoneAssumption DEF IInv, TypeOK, IssueForUser, CreateRefresh, handlers
<1>1. ~Dead(f)'
  <2>1. t \in rows' /\ familyId'[t] = f /\ t \notin revoked' /\ t \notin expired'
    OBVIOUS
  <2> QED BY <2>1 DEF Dead, Live
<1>2. \A g \in Family \ {f} : Dead(g)' <=> Dead(g)
  BY DEF Dead, Live
<1> QED BY <1>1, <1>2 DEF CL!Next, CL!Ageing, FamilyState

\* No call of a handler revives a family: a rotation goes past its check only
\* on a live token, and from then on the family is alive until it is done.
LEMMA HandlerRefines ==
  ASSUME IInv, NEW r \in Req, NEW t \in Token,
         \/ RotateRead(r, t)
         \/ RotateCreate(r, t)
         \/ LogoutRead(r, t)
         \/ RotateNuke(r)
         \/ RotateConsume(r)
         \/ LogoutRevoke(r)
         \/ Fail(r)
  PROVE  CL!Next
<1> USE NoneAssumption DEF IInv, TypeOK, Return, Goto, db, history
<1>1. CASE RotateRead(r, t) \/ LogoutRead(r, t)
  <2> USE <1>1 DEF RotateRead, LogoutRead
  <2>1. families' = families /\ \A f \in families : Dead(f) => Dead(f)'
    BY DEF Dead, Live
  <2> QED BY <2>1, NoRevivalRefines
<1>2. CASE RotateCreate(r, t)
  <2> USE <1>2 DEF RotateCreate, CreateRefresh
  <2>1. families' = families /\ \A f \in families : Dead(f) => Dead(f)'
    BY DEF Dead, Live
  <2> QED BY <2>1, NoRevivalRefines
<1>3. CASE RotateNuke(r) \/ LogoutRevoke(r)
  <2> USE <1>3 DEF RotateNuke, LogoutRevoke, RevokeFamily
  <2>1. families' = families /\ \A f \in families : Dead(f) => Dead(f)'
    BY DEF Dead, Live
  <2> QED BY <2>1, NoRevivalRefines
<1>4. CASE RotateConsume(r) \/ Fail(r)
  <2> USE <1>4 DEF RotateConsume, Fail
  <2>1. families' = families /\ \A f \in families : Dead(f) => Dead(f)'
    BY DEF Dead, Live
  <2> QED BY <2>1, NoRevivalRefines
<1> QED BY <1>1, <1>2, <1>3, <1>4

\* Expiry can only close the family of the token that expires.
LEMMA ExpireRefines ==
  ASSUME IInv, NEW t \in Token, Expire(t)
  PROVE  CL!Next
<1> USE DEF IInv, TypeOK, Expire, handlers, history
<1>1. families' = families /\ \A f \in families : Dead(f) => Dead(f)'
  BY DEF Dead, Live
<1> QED BY <1>1, NoRevivalRefines

\* TokenService implements CredentialLife: a dead family stays dead.
THEOREM Refinement == Spec => ImplementsCredentialLife
<1>1. Init => CL!Init
  BY DEF Init, CL!Init, FamilyState
<1>2. IInv /\ [Next]_vars => [CL!Next]_FamilyState
  <2> SUFFICES ASSUME IInv, [Next]_vars
               PROVE  [CL!Next]_FamilyState
    OBVIOUS
  <2>1. CASE UNCHANGED vars
    BY <2>1 DEF vars, db, handlers, history, FamilyState, Dead, Live
  <2>2. CASE Next
    <3>1. CASE \E r \in Req, u \in User, f \in Family, t \in Token : IssueForUser(r, u, f, t)
      BY <3>1, IssueForUserRefines
    <3>2. CASE \E r \in Req, t \in Token :
                 RotateRead(r, t) \/ RotateCreate(r, t) \/ LogoutRead(r, t)
      BY <3>2, HandlerRefines
    <3>3. CASE \E r \in Req : RotateNuke(r) \/ RotateConsume(r) \/ LogoutRevoke(r) \/ Fail(r)
      <4>1. PICK r \in Req : RotateNuke(r) \/ RotateConsume(r) \/ LogoutRevoke(r) \/ Fail(r)
        BY <3>3
      <4>2. existing[r] \in Token
        BY <4>1 DEF IInv, TypeOK, RotateNuke, RotateConsume, LogoutRevoke, Fail
      <4> QED BY <4>1, <4>2, HandlerRefines
    <3>4. CASE \E t \in Token : Expire(t)
      BY <3>4, ExpireRefines
    <3> QED BY <2>2, <3>1, <3>2, <3>3, <3>4 DEF Next
  <2> QED BY <2>1, <2>2
<1> QED BY <1>1, <1>2, Invariance, PTL DEF Spec, ImplementsCredentialLife, CL!Spec
----------------------------------------------------------------------------
(* One handler at a time.  With a single handler the two promises of the   *)
(* comments hold; the invariant ties the handler's place in rotate to what *)
(* is live in the family it works on.                                      *)

ClosedIsRevoked == \A t \in rows : familyId[t] \in closed => t \in revoked

RotatesOpenFamily ==
  \A r \in Req : pc[r] \in {"consume", "create"} => familyId[existing[r]] \notin closed

LiveWhileRotating ==
  \A r \in Req, t \in rows : familyId[t] = familyId[existing[r]] /\ Live(t) =>
     /\ pc[r] = "consume" => t = existing[r]
     /\ pc[r] # "create"

SeqInv == ClosedIsRevoked /\ RotatesOpenFamily /\ OneLiveTokenPerFamily /\ LiveWhileRotating

\* A step of the only handler, or of the clock, keeps the sequential invariant.
LEMMA SeqInvStep ==
  ASSUME \A r, s \in Req : r = s, IInv, SeqInv, [Next]_vars
  PROVE  SeqInv'
<1> USE NoneAssumption DEF IInv, TypeOK, SeqInv
<1>1. ASSUME NEW r \in Req, NEW u \in User, NEW f \in Family, NEW t \in Token,
             IssueForUser(r, u, f, t)
      PROVE  SeqInv'
  <2> USE <1>1 DEF IssueForUser, CreateRefresh, handlers
  <2>1. ClosedIsRevoked' /\ RotatesOpenFamily'
    BY DEF ClosedIsRevoked, RotatesOpenFamily
  <2>2. OneLiveTokenPerFamily'
    BY DEF OneLiveTokenPerFamily, Live
  <2>3. LiveWhileRotating'
    BY DEF LiveWhileRotating, Live
  <2> QED BY <2>1, <2>2, <2>3
<1>2. ASSUME NEW r \in Req, NEW t \in Token, RotateCreate(r, t)
      PROVE  SeqInv'
  <2> USE <1>2 DEF RotateCreate, CreateRefresh, Return
  <2>1. ClosedIsRevoked' /\ RotatesOpenFamily'
    BY DEF ClosedIsRevoked, RotatesOpenFamily
  <2>2. OneLiveTokenPerFamily'
    BY DEF OneLiveTokenPerFamily, LiveWhileRotating, Live
  <2>3. LiveWhileRotating'
    BY DEF LiveWhileRotating, Live
  <2> QED BY <2>1, <2>2, <2>3
<1>3. ASSUME NEW r \in Req, NEW t \in Token, RotateRead(r, t) \/ LogoutRead(r, t)
      PROVE  SeqInv'
  <2> USE <1>3 DEF RotateRead, LogoutRead, Goto, db, history
  <2>1. ClosedIsRevoked' /\ RotatesOpenFamily'
    BY DEF ClosedIsRevoked, RotatesOpenFamily
  <2>2. OneLiveTokenPerFamily'
    BY DEF OneLiveTokenPerFamily, Live
  <2>3. LiveWhileRotating'
    BY DEF OneLiveTokenPerFamily, LiveWhileRotating, Live
  <2> QED BY <2>1, <2>2, <2>3
<1>4. ASSUME NEW r \in Req,
             RotateNuke(r) \/ RotateConsume(r) \/ LogoutRevoke(r) \/ Fail(r)
      PROVE  SeqInv'
  <2> USE <1>4 DEF RotateNuke, RotateConsume, LogoutRevoke, Fail, RevokeFamily, Return,
                   Goto, db, history
  <2>1. ClosedIsRevoked' /\ RotatesOpenFamily'
    BY DEF ClosedIsRevoked, RotatesOpenFamily
  <2>2. OneLiveTokenPerFamily'
    BY DEF OneLiveTokenPerFamily, Live
  <2>3. LiveWhileRotating'
    BY DEF LiveWhileRotating, Live
  <2> QED BY <2>1, <2>2, <2>3
<1>5. ASSUME NEW t \in Token, Expire(t)
      PROVE  SeqInv'
  BY <1>5 DEF Expire, handlers, history, ClosedIsRevoked, RotatesOpenFamily,
     OneLiveTokenPerFamily, LiveWhileRotating, Live
<1>6. CASE UNCHANGED vars
  BY <1>6 DEF vars, db, handlers, history, ClosedIsRevoked, RotatesOpenFamily,
     OneLiveTokenPerFamily, LiveWhileRotating, Live
<1> QED BY <1>1, <1>2, <1>3, <1>4, <1>5, <1>6 DEF Next

\* Requests served one at a time make a token single-use, keep at most one
\* usable token per family, and leave a revoked family without a usable token.
THEOREM SequentialSafety ==
  ASSUME \A r, s \in Req : r = s
  PROVE  Spec => [](SingleUse /\ ClosedFamilyIsDead /\ OneLiveTokenPerFamily)
<1>1. Init => SeqInv
  BY DEF Init, SeqInv, ClosedIsRevoked, RotatesOpenFamily, OneLiveTokenPerFamily,
     LiveWhileRotating
<1>2. IInv /\ SeqInv /\ [Next]_vars => SeqInv'
  BY SeqInvStep
<1>3. IInv /\ SeqInv => SingleUse /\ ClosedFamilyIsDead /\ OneLiveTokenPerFamily
  BY DEF IInv, TypeOK, SeqInv, OneSuccessorPerHandler, SingleUse, ClosedIsRevoked,
     ClosedFamilyIsDead, Live
<1> QED BY <1>1, <1>2, <1>3, Invariance, PTL DEF Spec
----------------------------------------------------------------------------
(* The tabs of a browser as clients.                                       *)

\* A handler that will answer a tab is at work, and for that tab alone.
Serves ==
  \A r \in Req : serving[r] # None =>
    /\ pc[r] # "idle"
    /\ \A q \in Req : serving[q] = serving[r] => q = r

Tokens ==
  \A b \in Tab : /\ ex[b].token \in rows \cup {None}
                 /\ ex[b].st = "granted" => ex[b].token # None

BeforeLogin ==
  lastUser = None => /\ cookie = None
                     /\ \A b \in Tab : ex[b].token = None
                     /\ \A r \in Req : pc[r] = "idle"

\* Without races one refresh is under way at most, with the cookie and for the
\* user of the last login; until the server has its token, that token is usable.
InTurn ==
  ~upset /\ lastUser # None =>
    /\ cookie # None /\ userId[cookie] = lastUser
    /\ (\A b \in Tab : ex[b].st \notin {"served", "granted"}) => Live(cookie)
    /\ \A b \in Tab : ex[b].st # "none" =>
         /\ ex[b].token # None
         /\ ex[b].st \in {"sent", "served", "granted"}
         /\ ex[b].st = "sent" => ex[b].token = cookie
         /\ ex[b].st = "granted" => Live(ex[b].token) /\ userId[ex[b].token] = lastUser
         /\ \A other \in Tab : ex[other].st # "none" => other = b
    /\ \A r \in Req : pc[r] # "idle" =>
         /\ serving[r] # None
         /\ pc[r] \in {"consume", "create"}
         /\ userId[existing[r]] = lastUser

ClientInv == ClientTypeOK /\ Serves /\ Tokens /\ BeforeLogin /\ InTurn

\* Freshly loaded tabs of a browser without a session satisfy it.
LEMMA InitClientInv == ClientInit => ClientInv
<1> SUFFICES ASSUME ClientInit PROVE ClientInv
  OBVIOUS
<1> USE NoneAssumption, AuthClientAssumption DEF ClientInit
<1>1. ClientTypeOK
  <2>1. TypeOK
    BY InitIInv DEF IInv
  <2>2. ex \in [Tab -> [st : States, token : Token \cup {None}]] /\ \A b \in Tab : ex[b].st = "sent"
    BY DEF Ask, States
  <2>3. /\ \A r \in Req : serving[r] = None
        /\ serving \in [Req -> Tab \cup {None}]
    OBVIOUS
  <2>4. /\ call \in [Tab -> [Call -> {"idle", "sent", "waiting", "resent"}]]
        /\ \A b \in Tab, c \in Call : call[b][c] = "idle"
    OBVIOUS
  <2>5. /\ cookie \in rows \cup {None} /\ sub \in [Tab -> User \cup {None}]
        /\ restore \in [Tab -> {"first", "waiting", "again", "done"}]
        /\ stale \subseteq Tab /\ sentOk \subseteq Tab \X Call
        /\ lastUser \in User \cup {None} /\ upset \in BOOLEAN
    OBVIOUS
  <2>7. troubles \in 0..MaxTroubles
    BY DEF AuthClientAssumption
  <2>6. \A b \in Tab : ex[b].st = "served" <=> \E r \in Req : serving[r] = b
    BY <2>2, <2>3 DEF AuthClientAssumption
  <2> HIDE DEF ClientInit
  <2> QED BY <2>1, <2>2, <2>3, <2>4, <2>5, <2>6, <2>7 DEF ClientTypeOK
<1>2. Serves /\ BeforeLogin
  BY DEF Init, Serves, BeforeLogin, Ask
<1>3. Tokens /\ InTurn
  BY DEF Tokens, InTurn, Ask
<1> QED BY <1>1, <1>2, <1>3 DEF ClientInv

\* Every step of the browser and its handlers is one of TokenService or changes
\* nothing there.
LEMMA ClientStepRefines == IInv /\ ClientInv /\ [ClientNext]_allVars => [Next]_vars
<1> SUFFICES ASSUME IInv, ClientInv, [ClientNext]_allVars PROVE [Next]_vars
  OBVIOUS
<1>1. ASSUME NEW r \in Req, Handle(r) PROVE Next
  BY <1>1 DEF Handle, ServeNuke, ServeConsume, ServeFail, ServeCreate, Next
<1>2. ASSUME NEW b \in Tab, Browse(b) PROVE [Next]_vars
  <2>1. ASSUME NEW r \in Req, Serve(b, r) PROVE Next
    <3>1. ex[b].token \in Token
      BY <2>1 DEF Serve, IInv, TypeOK, ClientInv, Tokens
    <3> QED BY <2>1, <3>1 DEF Serve, Next
  <2>2. ASSUME NEW c \in Call, Settle(b, c) \/ Unauthorized(b, c) PROVE UNCHANGED vars
    BY <2>2 DEF Settle, Unauthorized
  <2>3. CASE ServeNoCookie(b) \/ Granted(b) \/ Refused(b)
    BY <2>3 DEF ServeNoCookie, Granted, Refused
  <2> QED BY <1>2, <2>1, <2>2, <2>3 DEF Browse
<1>3. ASSUME NEW b \in Tab, AccessExpires(b) \/ ReplyLost(b) \/ Reload(b) PROVE UNCHANGED vars
  BY <1>3 DEF AccessExpires, ReplyLost, Reload
<1>4. ASSUME NEW b \in Tab, NEW c \in Call, Send(b, c) PROVE UNCHANGED vars
  BY <1>4 DEF Send
<1>5. ASSUME NEW b \in Tab, NEW r \in Req, NEW u \in User, NEW f \in Family, NEW t \in Token,
             Login(b, r, u, f, t)
      PROVE  Next
  BY <1>5 DEF Login, Next
<1>6. ASSUME NEW t \in Token, SessionExpires(t) PROVE Next
  BY <1>6 DEF SessionExpires, Next
<1>7. CASE UNCHANGED allVars
  BY <1>7 DEF allVars
<1> QED BY <1>1, <1>2, <1>3, <1>4, <1>5, <1>6, <1>7 DEF ClientNext

\* Calls are sent, settle and lose their access token.
LEMMA CallStep ==
  ASSUME IInv, IInv', ClientInv,
         \/ \E b \in Tab, c \in Call : Send(b, c) \/ Settle(b, c)
         \/ \E b \in Tab : AccessExpires(b)
         \/ UNCHANGED allVars
  PROVE  ClientInv'
<1>1. /\ UNCHANGED <<vars, cookie, sub, restore, ex, serving, lastUser, upset>>
      /\ call' \in [Tab -> [Call -> {"idle", "sent", "waiting", "resent"}]]
      /\ \A b \in Tab, c \in Call : call'[b][c] = "waiting" => call[b][c] = "waiting"
      /\ stale' \subseteq Tab /\ sentOk' \subseteq Tab \X Call
      /\ troubles' \in 0..MaxTroubles
  <2>1. ASSUME NEW b \in Tab, NEW c \in Call, Send(b, c) \/ Settle(b, c)
        PROVE  <1>1!:
    <3>1. \E l \in {"sent", "idle"} : call' = [call EXCEPT ![b][c] = l]
      BY <2>1 DEF Send, Settle
    <3> QED BY <2>1, <3>1 DEF Send, Settle, ClientInv, ClientTypeOK
  <2>2. ASSUME NEW b \in Tab, AccessExpires(b)
        PROVE  <1>1!:
    BY <2>2, AuthClientAssumption DEF AccessExpires, Trouble, ClientInv, ClientTypeOK
  <2>3. CASE UNCHANGED allVars
    BY <2>3 DEF allVars, clientVars, tabs, ClientInv, ClientTypeOK
  <2> QED BY <2>1, <2>2, <2>3
<1>2. UNCHANGED <<rows, userId, revoked, expired, pc, existing>>
  BY <1>1 DEF vars, db, handlers
<1>3. ClientTypeOK'
  BY <1>1, <1>2 DEF ClientInv, ClientTypeOK, IInv
<1>4. Serves' /\ Tokens' /\ BeforeLogin'
  BY <1>1, <1>2 DEF ClientInv, Serves, Tokens, BeforeLogin
<1>5. InTurn'
  BY <1>1, <1>2 DEF ClientInv, InTurn, Live
<1> QED BY <1>3, <1>4, <1>5 DEF ClientInv

\* A handler takes a request: in turn the token it reads is usable.
LEMMA ServeStep ==
  ASSUME IInv, IInv', ClientInv, NEW b \in Tab, NEW r \in Req, Serve(b, r)
  PROVE  ClientInv'
<1>1. /\ ex[b].st = "sent" /\ ex[b].token # None
      /\ pc[r] = "idle" /\ ex[b].token \in rows
      /\ pc' = [pc EXCEPT ![r] = IF ex[b].token \in revoked \cup expired THEN "nuke" ELSE "consume"]
      /\ existing' = [existing EXCEPT ![r] = ex[b].token]
      /\ serving' = [serving EXCEPT ![r] = b]
      /\ ex' = [ex EXCEPT ![b].st = "served"]
      /\ UNCHANGED <<rows, userId, revoked, expired, cookie, sub, stale, restore, call, sentOk,
                     troubles, lastUser, upset>>
  BY DEF Serve, RotateRead, Goto, db, tabs
<1>2. /\ \A q \in Req : q # r => pc'[q] = pc[q] /\ existing'[q] = existing[q] /\ serving'[q] = serving[q]
      /\ pc'[r] = IF ex[b].token \in revoked \cup expired THEN "nuke" ELSE "consume"
      /\ existing'[r] = ex[b].token /\ serving'[r] = b
      /\ serving' \in [Req -> Tab \cup {None}]
  BY <1>1 DEF ClientInv, ClientTypeOK, IInv, TypeOK
<1>3. /\ \A x \in Tab : x # b => ex'[x] = ex[x]
      /\ ex'[b].st = "served" /\ ex'[b].token = ex[b].token
      /\ ex' \in [Tab -> [st : States, token : Token \cup {None}]]
  <2>1. ex \in [Tab -> [st : States, token : Token \cup {None}]]
    BY DEF ClientInv, ClientTypeOK
  <2>2. ex' = [ex EXCEPT ![b].st = "served"]
    BY <1>1
  <2> QED BY <2>1, <2>2 DEF States
<1>4. \A q \in Req : serving[q] # b
  BY <1>1 DEF ClientInv, ClientTypeOK
<1>5. ClientTypeOK'
  <2>1. \A x \in Tab : ex'[x].st = "served" <=> \E q \in Req : serving'[q] = x
    <3> TAKE x \in Tab
    <3>1. CASE x = b
      BY <1>2, <1>3, <3>1
    <3>2. CASE x # b
      <4>2. ASSUME NEW q \in Req PROVE serving'[q] = x <=> q # r /\ serving[q] = x
        BY <1>2, <3>2
      <4>3. serving[r] # x
        BY <1>1, <3>2, AuthClientAssumption DEF ClientInv, Serves
      <4> QED BY <1>3, <3>2, <4>2, <4>3 DEF ClientInv, ClientTypeOK
    <3> QED BY <3>1, <3>2
  <2>2. \A x \in Tab : (\E c \in Call : call'[x][c] = "waiting") => ex'[x].st # "none"
    BY <1>1, <1>3 DEF ClientInv, ClientTypeOK
  <2> QED BY <1>1, <1>2, <1>3, <2>1, <2>2 DEF ClientInv, ClientTypeOK, IInv
<1>6. Serves'
  BY <1>1, <1>2, <1>4, NoneAssumption, AuthClientAssumption DEF ClientInv, Serves
<1>7. Tokens' /\ BeforeLogin'
  BY <1>1, <1>2, <1>3 DEF ClientInv, Tokens, BeforeLogin
<1>8. InTurn'
  <2> SUFFICES ASSUME ~upset, lastUser # None PROVE InTurn'
    BY <1>1 DEF InTurn
  <2>1. /\ ex[b].token = cookie
        /\ \A x \in Tab : ex[x].st # "none" => x = b
        /\ cookie # None /\ userId[cookie] = lastUser
    BY <1>1 DEF ClientInv, InTurn
  <2>2. Live(cookie)
    BY <1>1, <2>1 DEF ClientInv, InTurn
  <2>3. pc'[r] = "consume"
    BY <1>2, <2>1, <2>2 DEF Live
  <2> QED BY <1>1, <1>2, <1>3, <2>1, <2>3, AuthClientAssumption DEF ClientInv, InTurn
<1> QED BY <1>5, <1>6, <1>7, <1>8 DEF ClientInv

\* The handler of a request ends and answers the tab it serves, if any.
LEMMA AnswerStep ==
  ASSUME IInv, IInv', ClientInv, NEW r \in Req, NEW st \in {"granted", "refused", "failed"},
         NEW token \in rows', Answer(r, st, token), upset' \in BOOLEAN,
         pc[r] # "idle", pc' = [pc EXCEPT ![r] = "idle"], rows \subseteq rows'
  PROVE  ClientTypeOK' /\ Serves' /\ Tokens' /\ BeforeLogin'
<1> USE NoneAssumption, AuthClientAssumption
<1>1. /\ serving \in [Req -> Tab \cup {None}]
      /\ ex \in [Tab -> [st : States, token : Token \cup {None}]]
      /\ serving' = [serving EXCEPT ![r] = None]
      /\ UNCHANGED <<tabs, troubles, lastUser>>
      /\ rows' \subseteq Token
  BY DEF Answer, ClientInv, ClientTypeOK, IInv, TypeOK
<1>2. /\ serving' \in [Req -> Tab \cup {None}] /\ serving'[r] = None
      /\ \A q \in Req : q # r => serving'[q] = serving[q] /\ pc'[q] = pc[q]
  BY <1>1 DEF IInv, TypeOK
<1>3. /\ ex' \in [Tab -> [st : States, token : Token \cup {None}]]
      /\ \A b \in Tab : b = serving[r] => ex'[b].st = st /\ ex'[b].token = token
      /\ \A b \in Tab : b # serving[r] => ex'[b] = ex[b]
  <2>1. CASE serving[r] = None
    BY <1>1, <2>1 DEF Answer
  <2>2. CASE serving[r] # None
    <3>1. serving[r] \in Tab
      BY <1>1, <2>2
    <3>2. [st |-> st, token |-> token] \in [st : States, token : Token \cup {None}]
      BY <1>1 DEF States
    <3>3. ex' = [ex EXCEPT ![serving[r]] = [st |-> st, token |-> token]]
      BY <2>2 DEF Answer
    <3> QED BY <1>1, <3>1, <3>2, <3>3
  <2> QED BY <2>1, <2>2
<1>4. \A b \in Tab : ex'[b].st = "served" <=> \E q \in Req : serving'[q] = b
  <2> TAKE b \in Tab
  <2>1. CASE b = serving[r]
    <3>1. \A q \in Req : serving'[q] # b
      BY <1>2, <2>1 DEF ClientInv, Serves
    <3> QED BY <1>3, <2>1, <3>1
  <2>2. CASE b # serving[r]
    <3>1. \A q \in Req : serving'[q] = b <=> serving[q] = b
      BY <1>2, <2>2
    <3> QED BY <1>3, <2>2, <3>1 DEF ClientInv, ClientTypeOK
  <2> QED BY <2>1, <2>2
<1>5. \A b \in Tab : (\E c \in Call : call'[b][c] = "waiting") => ex'[b].st # "none"
  BY <1>1, <1>3 DEF ClientInv, ClientTypeOK, tabs
<1>6. ClientTypeOK'
  <2>1. /\ cookie' \in rows' \cup {None} /\ sub' \in [Tab -> User \cup {None}] /\ stale' \subseteq Tab
        /\ restore' \in [Tab -> {"first", "waiting", "again", "done"}]
        /\ call' \in [Tab -> [Call -> {"idle", "sent", "waiting", "resent"}]]
        /\ sentOk' \subseteq Tab \X Call /\ troubles' \in 0..MaxTroubles
        /\ lastUser' \in User \cup {None}
    BY <1>1 DEF ClientInv, ClientTypeOK, tabs
  <2> QED BY <1>2, <1>3, <1>4, <1>5, <2>1 DEF ClientTypeOK, IInv
<1>7. Serves'
  BY <1>2 DEF ClientInv, Serves
<1>8. Tokens'
  BY <1>1, <1>3 DEF ClientInv, Tokens
<1>9. BeforeLogin'
  BY <1>1 DEF ClientInv, BeforeLogin
<1> QED BY <1>6, <1>7, <1>8, <1>9

\* The handler of a request goes on.  In turn it serves the tab that waits, finds
\* its token usable and replaces it.
LEMMA HandlerStep ==
  ASSUME IInv, IInv', ClientInv, NEW r \in Req, Handle(r)
  PROVE  ClientInv'
<1> USE NoneAssumption, AuthClientAssumption
<1>1. ASSUME ~upset, lastUser # None, pc[r] # "idle"
      PROVE  /\ serving[r] \in Tab /\ ex[serving[r]].st = "served"
             /\ \A b \in Tab : b # serving[r] => ex[b].st = "none"
             /\ \A q \in Req : q # r => pc[q] = "idle"
             /\ userId[existing[r]] = lastUser /\ pc[r] \in {"consume", "create"}
             /\ cookie \in rows /\ userId[cookie] = lastUser
  <2>1. serving[r] \in Tab /\ ex[serving[r]].st = "served"
    BY <1>1 DEF ClientInv, ClientTypeOK, InTurn
  <2>2. \A b \in Tab : b # serving[r] => ex[b].st = "none"
    BY <1>1, <2>1 DEF ClientInv, InTurn
  <2>3. ASSUME NEW q \in Req, q # r PROVE pc[q] = "idle"
    <3> SUFFICES ASSUME pc[q] # "idle" PROVE FALSE
      OBVIOUS
    <3>1. serving[q] \in Tab /\ ex[serving[q]].st = "served"
      BY <1>1 DEF ClientInv, ClientTypeOK, InTurn
    <3> QED BY <2>1, <2>2, <2>3, <3>1 DEF ClientInv, Serves
  <2>4. /\ userId[existing[r]] = lastUser /\ pc[r] \in {"consume", "create"}
        /\ cookie \in rows /\ userId[cookie] = lastUser
    BY <1>1 DEF ClientInv, ClientTypeOK, InTurn
  <2> QED BY <2>1, <2>2, <2>3, <2>4
<1>2. CASE ServeConsume(r)
  <2>1. /\ pc[r] = "consume" /\ existing[r] \in rows
        /\ revoked' = revoked \cup {existing[r]}
        /\ UNCHANGED <<rows, userId, expired, cookie, sub, stale, restore, call, sentOk, ex,
                       serving, troubles, lastUser, upset>>
        /\ pc'[r] = "create" /\ existing'[r] = existing[r]
        /\ \A q \in Req : q # r => pc'[q] = pc[q] /\ existing'[q] = existing[q]
    BY <1>2 DEF ServeConsume, RotateConsume, Goto, clientVars, tabs, IInv, TypeOK
  <2>2. ClientTypeOK'
    BY <2>1 DEF ClientInv, ClientTypeOK, IInv
  <2>3. Serves' /\ Tokens' /\ BeforeLogin'
    BY <2>1 DEF ClientInv, Serves, Tokens, BeforeLogin
  <2>4. InTurn'
    <3> SUFFICES ASSUME ~upset, lastUser # None PROVE InTurn'
      BY <2>1 DEF InTurn
    <3> QED BY <1>1, <2>1 DEF ClientInv, InTurn
  <2> QED BY <2>2, <2>3, <2>4 DEF ClientInv
<1>3. CASE ServeNuke(r)
  <2>1. /\ Answer(r, "refused", existing[r]) /\ upset' = upset /\ lastUser' = lastUser
        /\ pc[r] = "nuke" /\ pc' = [pc EXCEPT ![r] = "idle"] /\ rows' = rows
        /\ existing[r] \in rows
    BY <1>3 DEF ServeNuke, RotateNuke, Return, Answer, IInv, TypeOK
  <2>2. InTurn'
    BY <1>1, <2>1 DEF InTurn
  <2>3. upset' \in BOOLEAN
    BY <2>1 DEF ClientInv, ClientTypeOK
  <2> QED BY <2>1, <2>2, <2>3, AnswerStep DEF ClientInv
<1>4. CASE ServeFail(r)
  <2>1. /\ Answer(r, "failed", existing[r]) /\ upset' = TRUE
        /\ pc[r] # "idle" /\ pc' = [pc EXCEPT ![r] = "idle"] /\ rows' = rows
        /\ existing[r] \in rows
    BY <1>4 DEF ServeFail, Fail, Return, db, IInv, TypeOK
  <2>2. InTurn'
    BY <2>1 DEF InTurn
  <2> QED BY <2>1, <2>2, AnswerStep DEF ClientInv
<1>5. ASSUME NEW t \in Token, ServeCreate(r, t) PROVE ClientInv'
  <2>1. /\ Answer(r, "granted", t) /\ upset' = upset /\ lastUser' = lastUser /\ cookie' = cookie
        /\ pc[r] = "create" /\ pc' = [pc EXCEPT ![r] = "idle"]
        /\ t \notin rows /\ rows' = rows \cup {t} /\ UNCHANGED <<revoked, expired>>
        /\ userId' = [userId EXCEPT ![t] = userId[existing[r]]]
    BY <1>5 DEF ServeCreate, RotateCreate, CreateRefresh, Return, Answer, tabs
  <2>2. upset' \in BOOLEAN
    BY <2>1 DEF ClientInv, ClientTypeOK
  <2>3. ClientTypeOK' /\ Serves' /\ Tokens' /\ BeforeLogin'
    BY <2>1, <2>2, AnswerStep
  <2>4. InTurn'
    <3> SUFFICES ASSUME ~upset, lastUser # None PROVE InTurn'
      BY <2>1 DEF InTurn
    <3>1. userId'[t] = lastUser /\ userId'[cookie] = lastUser /\ Live(t)'
      BY <1>1, <2>1 DEF IInv, TypeOK, Live
    <3>2. /\ ex'[serving[r]].st = "granted" /\ ex'[serving[r]].token = t
          /\ \A b \in Tab : b # serving[r] => ex'[b].st = "none"
      BY <1>1, <2>1 DEF Answer, ClientInv, ClientTypeOK
    <3>3. \A q \in Req : pc'[q] = "idle"
      BY <1>1, <2>1 DEF IInv, TypeOK
    <3>4. serving[r] \in Tab /\ t # None /\ cookie # None
      BY <1>1, <2>1 DEF IInv, TypeOK
    <3> QED BY <2>1, <3>1, <3>2, <3>3, <3>4 DEF InTurn, Live
  <2> QED BY <2>3, <2>4 DEF ClientInv
<1> QED BY <1>2, <1>3, <1>4, <1>5 DEF Handle

\* What releasing the calls that wait does to them.
LEMMA ReleaseCalls ==
  ASSUME ClientInv, NEW b \in Tab, NEW ok \in BOOLEAN, Release(b, ok)
  PROVE  /\ call' \in [Tab -> [Call -> {"idle", "sent", "waiting", "resent"}]]
         /\ sentOk' \subseteq Tab \X Call
         /\ \A c \in Call : call'[b][c] # "waiting"
         /\ \A x \in Tab : x # b => call'[x] = call[x]
<1>1. call \in [Tab -> [Call -> {"idle", "sent", "waiting", "resent"}]] /\ sentOk \subseteq Tab \X Call
  BY DEF ClientInv, ClientTypeOK
<1>2. sentOk' \subseteq Tab \X Call
  BY <1>1 DEF Release
<1> DEFINE released == [c \in Call |->
             IF call[b][c] = "waiting" THEN (IF ok THEN "resent" ELSE "idle") ELSE call[b][c]]
<1>3. call' = [call EXCEPT ![b] = released]
  BY DEF Release
<1>4. released \in [Call -> {"idle", "sent", "waiting", "resent"}] /\ \A c \in Call : released[c] # "waiting"
  BY <1>1
<1> HIDE DEF released
<1> QED BY <1>1, <1>2, <1>3, <1>4

\* The exchange of a tab is over, and another one or none takes its place.
AfterTurn(b, st, token) ==
  /\ ex' \in [Tab -> [st : States, token : Token \cup {None}]]
  /\ ex'[b].st = st /\ ex'[b].token = token
  /\ \A x \in Tab : x # b => ex'[x] = ex[x]
  /\ serving' \in [Req -> Tab \cup {None}]
  /\ \A x \in Tab : ex'[x].st = "served" <=> \E r \in Req : serving'[r] = x
  /\ Serves' /\ Tokens'

\* A tab gives up what it waits for, or has its answer, and may ask anew.
LEMMA TurnOver ==
  ASSUME IInv, ClientInv, NEW b \in Tab, NEW st \in {"none", "sent"}, NEW token \in rows \cup {None},
         ex' = [ex EXCEPT ![b] = [st |-> st, token |-> token]], Abandon(b), UNCHANGED vars
  PROVE  AfterTurn(b, st, token)
<1> USE NoneAssumption, AuthClientAssumption
<1>1. /\ ex \in [Tab -> [st : States, token : Token \cup {None}]]
      /\ serving \in [Req -> Tab \cup {None}]
      /\ rows \subseteq Token /\ rows' = rows /\ pc' = pc
  BY DEF ClientInv, ClientTypeOK, IInv, TypeOK, vars, db, handlers
<1>2. [st |-> st, token |-> token] \in [st : States, token : Token \cup {None}]
  BY <1>1 DEF States
<1>3. /\ ex' \in [Tab -> [st : States, token : Token \cup {None}]]
      /\ ex'[b] = [st |-> st, token |-> token]
      /\ \A x \in Tab : x # b => ex'[x] = ex[x]
  BY <1>1, <1>2
<1>4. /\ serving' \in [Req -> Tab \cup {None}]
      /\ \A r \in Req : serving'[r] # b
      /\ \A r \in Req, x \in Tab : x # b => (serving'[r] = x <=> serving[r] = x)
      /\ \A r \in Req : serving'[r] # None => serving'[r] = serving[r]
  BY <1>1 DEF Abandon
<1>5. \A x \in Tab : ex'[x].st = "served" <=> \E r \in Req : serving'[r] = x
  <2> TAKE x \in Tab
  <2>1. CASE x = b
    BY <1>3, <1>4, <2>1
  <2>2. CASE x # b
    BY <1>3, <1>4, <2>2 DEF ClientInv, ClientTypeOK
  <2> QED BY <2>1, <2>2
<1>6. Serves'
  BY <1>1, <1>4 DEF ClientInv, Serves
<1>7. Tokens'
  BY <1>1, <1>3 DEF ClientInv, Tokens
<1> QED BY <1>3, <1>4, <1>5, <1>6, <1>7 DEF AfterTurn

\* A tab nobody serves has nothing to give up.
LEMMA NothingServed ==
  ASSUME ClientInv, NEW b \in Tab, ex[b].st # "served", serving' = serving
  PROVE  Abandon(b)
BY DEF Abandon, ClientInv, ClientTypeOK

\* A tab that asks with the cookie while nobody else has a refresh under way asks
\* in turn.
LEMMA AskInTurn ==
  ASSUME IInv, ClientInv, NEW b \in Tab,
         ex[b].st = "none" \/ upset', ~Overlap(b) \/ upset', upset => upset',
         ex' \in [Tab -> [st : States, token : Token \cup {None}]],
         ex'[b].st = "sent", ex'[b].token = cookie,
         \A x \in Tab : x # b => ex'[x] = ex[x],
         UNCHANGED <<vars, cookie, lastUser>>
  PROVE  InTurn'
<1> SUFFICES ASSUME ~upset', lastUser # None PROVE InTurn'
  BY DEF InTurn
<1> USE NoneAssumption, AuthClientAssumption
<1>1. UNCHANGED <<rows, userId, revoked, expired, pc, existing>>
  BY DEF vars, db, handlers
<1>2. \A x \in Tab : ex[x].st = "none"
  BY DEF ClientInv, InTurn, Overlap
<1>3. cookie # None /\ userId[cookie] = lastUser /\ Live(cookie)
  BY <1>2 DEF ClientInv, InTurn
<1>4. \A r \in Req : pc[r] = "idle"
  BY <1>2 DEF ClientInv, ClientTypeOK, InTurn
<1> QED BY <1>1, <1>2, <1>3, <1>4 DEF InTurn, Live

\* A login opens a session in the cookie; in turn nobody is refreshing another.
LEMMA LoginStep ==
  ASSUME IInv, IInv', ClientInv, NEW b \in Tab, NEW r \in Req, NEW u \in User, NEW f \in Family,
         NEW t \in Token, Login(b, r, u, f, t)
  PROVE  ClientInv'
<1> USE NoneAssumption, AuthClientAssumption
<1>1. /\ t \notin rows /\ rows' = rows \cup {t} /\ userId' = [userId EXCEPT ![t] = u]
      /\ UNCHANGED <<revoked, expired, pc, existing, restore, call, sentOk, ex, serving, troubles>>
      /\ cookie' = t /\ sub' = [sub EXCEPT ![b] = u] /\ stale' = stale \ {b} /\ lastUser' = u
      /\ upset' = (upset \/ \E other \in Tab : ex[other].st # "none")
  BY DEF Login, IssueForUser, CreateRefresh, handlers
<1>2. ClientTypeOK'
  <2>1. sub' \in [Tab -> User \cup {None}] /\ stale' \subseteq Tab /\ upset' \in BOOLEAN
    BY <1>1 DEF ClientInv, ClientTypeOK
  <2> QED BY <1>1, <2>1 DEF ClientInv, ClientTypeOK, IInv
<1>3. Serves' /\ Tokens' /\ BeforeLogin'
  BY <1>1 DEF ClientInv, Serves, Tokens, BeforeLogin
<1>4. InTurn'
  <2> SUFFICES ASSUME ~upset, \A x \in Tab : ex[x].st = "none" PROVE InTurn'
    BY <1>1 DEF InTurn
  <2>1. \A q \in Req : pc[q] = "idle"
    BY DEF ClientInv, ClientTypeOK, InTurn, BeforeLogin
  <2>2. userId'[t] = u /\ Live(t)' /\ t # None
    BY <1>1 DEF IInv, TypeOK, Live
  <2> QED BY <1>1, <2>1, <2>2 DEF InTurn, Live
<1> QED BY <1>2, <1>3, <1>4 DEF ClientInv

\* A session expires, a request has no cookie, or an answer is lost: no turn is
\* kept any more, or none was.
LEMMA TroubleStep ==
  ASSUME IInv, IInv', ClientInv,
         \/ \E t \in Token : SessionExpires(t)
         \/ \E b \in Tab : ServeNoCookie(b) \/ ReplyLost(b)
  PROVE  ClientInv'
<1> USE NoneAssumption, AuthClientAssumption
<1>1. ASSUME NEW t \in Token, SessionExpires(t) PROVE ClientInv'
  <2>1. /\ UNCHANGED <<rows, pc, cookie, sub, stale, restore, call, sentOk, ex, serving, lastUser>>
        /\ upset' = TRUE /\ troubles' \in 0..MaxTroubles
    BY <1>1 DEF SessionExpires, Expire, handlers, tabs, Trouble, ClientInv, ClientTypeOK
  <2>2. ClientTypeOK'
    BY <2>1 DEF ClientInv, ClientTypeOK, IInv, AfterTurn
  <2>3. Serves' /\ Tokens' /\ BeforeLogin' /\ InTurn'
    BY <2>1 DEF ClientInv, Serves, Tokens, BeforeLogin, InTurn
  <2> QED BY <2>2, <2>3 DEF ClientInv
<1>2. ASSUME NEW b \in Tab, ServeNoCookie(b) PROVE ClientInv'
  <2>1. /\ ex[b].st = "sent" /\ ex[b].token = None
        /\ UNCHANGED <<rows, userId, revoked, expired, pc, existing, cookie, sub, stale, restore,
                       call, sentOk, serving, troubles, lastUser, upset>>
        /\ ex' = [ex EXCEPT ![b].st = "refused"]
    BY <1>2 DEF ServeNoCookie, vars, db, handlers, tabs
  <2>2. /\ \A x \in Tab : x # b => ex'[x] = ex[x]
        /\ ex'[b].st = "refused" /\ ex'[b].token = None
        /\ ex' \in [Tab -> [st : States, token : Token \cup {None}]]
    BY <2>1 DEF ClientInv, ClientTypeOK, States
  <2>3. \A x \in Tab : ex'[x].st = "served" <=> \E q \in Req : serving'[q] = x
    BY <2>1, <2>2 DEF ClientInv, ClientTypeOK
  <2>4. ClientTypeOK'
    BY <2>1, <2>2, <2>3 DEF ClientInv, ClientTypeOK, IInv, AfterTurn
  <2>5. Serves' /\ Tokens' /\ BeforeLogin'
    BY <2>1, <2>2 DEF ClientInv, Serves, Tokens, BeforeLogin
  <2>6. InTurn'
    BY <2>1 DEF ClientInv, InTurn
  <2> QED BY <2>4, <2>5, <2>6 DEF ClientInv, AfterTurn
<1>3. ASSUME NEW b \in Tab, ReplyLost(b) PROVE ClientInv'
  <2>0. UNCHANGED <<rows, pc>>
    BY <1>3 DEF ReplyLost, vars, db, handlers
  <2>1. /\ UNCHANGED vars /\ UNCHANGED <<cookie, sub, stale, lastUser>>
        /\ upset' = TRUE /\ troubles' \in 0..MaxTroubles
        /\ Release(b, FALSE) /\ Abandon(b)
        /\ restore' = [restore EXCEPT ![b] = "done"]
        /\ ex' = [ex EXCEPT ![b] = [st |-> "none", token |-> None]]
    <3>1. troubles' \in 0..MaxTroubles
      BY <1>3, AuthClientAssumption DEF ReplyLost, Trouble, ClientInv, ClientTypeOK
    <3>2. UNCHANGED vars /\ UNCHANGED <<cookie, sub, stale, lastUser>>
      BY <1>3 DEF ReplyLost
    <3>3. ex' = [ex EXCEPT ![b] = [st |-> "none", token |-> None]]
      BY <1>3 DEF ReplyLost, NoEx
    <3> QED BY <1>3, <3>1, <3>2, <3>3 DEF ReplyLost
  <2>2. restore' \in [Tab -> {"first", "waiting", "again", "done"}]
    BY <2>1 DEF ClientInv, ClientTypeOK
  <2>3. /\ call' \in [Tab -> [Call -> {"idle", "sent", "waiting", "resent"}]]
        /\ sentOk' \subseteq Tab \X Call
        /\ \A c \in Call : call'[b][c] # "waiting"
        /\ \A x \in Tab : x # b => call'[x] = call[x]
    BY <2>1, ReleaseCalls
  <2>4. AfterTurn(b, "none", None)
    BY <2>1, TurnOver
  <2>5. ClientTypeOK'
    BY <2>0, <2>1, <2>2, <2>3, <2>4 DEF ClientInv, ClientTypeOK, IInv, AfterTurn
  <2>6. BeforeLogin' /\ InTurn'
    BY <2>0, <2>1, <2>4 DEF ClientInv, BeforeLogin, InTurn, AfterTurn
  <2> QED BY <2>4, <2>5, <2>6 DEF ClientInv, AfterTurn
<1> QED BY <1>1, <1>2, <1>3

\* A tab asks for a refresh, or has the answer to one.
LEMMA TabStep ==
  ASSUME IInv, IInv', ClientInv, NEW b \in Tab,
         Granted(b) \/ Refused(b) \/ Reload(b) \/ \E c \in Call : Unauthorized(b, c)
  PROVE  ClientInv'
<1> USE NoneAssumption, AuthClientAssumption
<1>0. /\ UNCHANGED vars /\ lastUser' = lastUser /\ UNCHANGED <<rows, userId, revoked, expired, pc, existing>>
      /\ cookie \in rows \cup {None}
      /\ restore \in [Tab -> {"first", "waiting", "again", "done"}]
  BY DEF Granted, Refused, Reload, Unauthorized, ClientInv, ClientTypeOK, vars, db, handlers
<1>1. ASSUME NEW c \in Call, Unauthorized(b, c) PROVE ClientInv'
  <2>1. /\ UNCHANGED <<cookie, sub, stale, restore, sentOk, serving, troubles>>
        /\ call' = [call EXCEPT ![b][c] = "waiting"]
    BY <1>1 DEF Unauthorized
  <2>2. /\ call' \in [Tab -> [Call -> {"idle", "sent", "waiting", "resent"}]]
        /\ \A x \in Tab : x # b => call'[x] = call[x]
    BY <2>1 DEF ClientInv, ClientTypeOK
  <2>3. CASE ex[b].st = "none"
    <3>1. ex' = [ex EXCEPT ![b] = [st |-> "sent", token |-> cookie]] /\ upset' = (upset \/ Overlap(b))
      BY <1>1, <2>3 DEF Unauthorized, Ask
    <3>2. Abandon(b)
      BY <2>1, <2>3, NothingServed
    <3>3. AfterTurn(b, "sent", cookie)
      BY <1>0, <3>1, <3>2, TurnOver
    <3>4. upset' \in BOOLEAN
      BY <3>1 DEF ClientInv, ClientTypeOK
    <3>5. ClientTypeOK'
      BY <1>0, <2>1, <2>2, <3>3, <3>4 DEF ClientInv, ClientTypeOK, IInv, AfterTurn
    <3>6. BeforeLogin'
      BY <1>0, <2>1, <3>3 DEF ClientInv, BeforeLogin, AfterTurn
    <3>7. InTurn'
      BY <1>0, <2>1, <2>3, <3>1, <3>3, AskInTurn DEF AfterTurn
    <3> QED BY <3>3, <3>5, <3>6, <3>7 DEF ClientInv, AfterTurn
  <2>4. CASE ex[b].st # "none"
    <3>1. UNCHANGED <<ex, upset>>
      BY <1>1, <2>4 DEF Unauthorized
    <3>2. ClientTypeOK'
      BY <1>0, <2>1, <2>2, <2>4, <3>1 DEF ClientInv, ClientTypeOK, IInv, AfterTurn
    <3>3. Serves' /\ Tokens' /\ BeforeLogin'
      BY <1>0, <2>1, <3>1 DEF ClientInv, Serves, Tokens, BeforeLogin
    <3>4. InTurn'
      BY <1>0, <2>1, <3>1 DEF ClientInv, InTurn, Live
    <3> QED BY <3>2, <3>3, <3>4 DEF ClientInv, AfterTurn
  <2> QED BY <2>3, <2>4
<1>2. CASE Granted(b)
  <2> DEFINE st == IF restore[b] = "waiting" THEN "sent" ELSE "none"
             token == IF restore[b] = "waiting" THEN ex[b].token ELSE None
  <2>1. /\ ex[b].st = "granted" /\ cookie' = ex[b].token /\ Release(b, TRUE)
        /\ sub' = [sub EXCEPT ![b] = userId[ex[b].token]] /\ stale' = stale \ {b}
        /\ restore' = [restore EXCEPT ![b] = IF @ = "waiting" THEN "again" ELSE "done"]
        /\ upset' = (upset \/ (restore[b] = "waiting" /\ Overlap(b)))
        /\ UNCHANGED <<serving, troubles>>
        /\ ex' = [ex EXCEPT ![b] = [st |-> st, token |-> token]]
    BY <1>2 DEF Granted, Ask, NoEx
  <2>2. ex[b].token \in rows /\ userId[ex[b].token] \in User /\ lastUser # None
    BY <2>1 DEF ClientInv, Tokens, BeforeLogin, IInv, TypeOK
  <2>3. /\ sub' \in [Tab -> User \cup {None}] /\ stale' \subseteq Tab /\ upset' \in BOOLEAN
        /\ restore' \in [Tab -> {"first", "waiting", "again", "done"}]
    BY <1>0, <2>1, <2>2 DEF ClientInv, ClientTypeOK
  <2>4. /\ call' \in [Tab -> [Call -> {"idle", "sent", "waiting", "resent"}]]
        /\ sentOk' \subseteq Tab \X Call
        /\ \A c \in Call : call'[b][c] # "waiting"
        /\ \A x \in Tab : x # b => call'[x] = call[x]
    BY <2>1, ReleaseCalls
  <2>5. st \in {"none", "sent"} /\ token \in rows \cup {None}
    BY <2>2
  <2>6. Abandon(b)
    BY <2>1, NothingServed
  <2> HIDE DEF st, token
  <2>7. AfterTurn(b, st, token)
    BY <1>0, <2>1, <2>5, <2>6, TurnOver
  <2>8. ClientTypeOK'
    BY <1>0, <2>1, <2>2, <2>3, <2>4, <2>7 DEF ClientInv, ClientTypeOK, IInv, AfterTurn
  <2>9. BeforeLogin'
    BY <1>0, <2>2 DEF BeforeLogin
  <2>10. InTurn'
    <3> SUFFICES ASSUME ~upset PROVE InTurn'
      BY <2>1 DEF InTurn, AfterTurn
    <3>1. /\ \A x \in Tab : x # b => ex[x].st = "none"
          /\ Live(ex[b].token) /\ userId[ex[b].token] = lastUser
      BY <2>1, <2>2 DEF ClientInv, InTurn
    <3>2. ASSUME NEW r \in Req PROVE pc[r] = "idle"
      <4>1. pc[r] # "idle" => serving[r] \in Tab
        BY <2>2 DEF ClientInv, ClientTypeOK, InTurn
      <4>2. serving[r] \in Tab => ex[serving[r]].st = "served"
        BY DEF ClientInv, ClientTypeOK
      <4>3. ex[b].st = "granted"
        BY <2>1
      <4> QED BY <3>1, <4>1, <4>2, <4>3
    <3>3. st # "none" => st = "sent" /\ token = cookie'
      BY <2>1 DEF st, token
    <3>4. cookie' # None /\ userId'[cookie'] = lastUser' /\ Live(cookie)'
      BY <1>0, <2>1, <2>2, <3>1 DEF Live, IInv, TypeOK
    <3> QED BY <1>0, <2>7, <3>1, <3>2, <3>3, <3>4 DEF InTurn, AfterTurn
  <2> QED BY <2>7, <2>8, <2>9, <2>10 DEF ClientInv, AfterTurn
<1>3. CASE Refused(b)
  <2> DEFINE again == restore[b] = "first" /\ ex[b].st = "refused"
             st == IF again THEN "sent" ELSE "none"
             token == IF again THEN cookie ELSE None
  <2>1. /\ ex[b].st \in {"refused", "failed"} /\ Release(b, FALSE)
        /\ restore' = [restore EXCEPT ![b] = IF again THEN "waiting" ELSE "done"]
        /\ upset' = (upset \/ (again /\ Overlap(b)))
        /\ UNCHANGED <<cookie, sub, stale, serving, troubles>>
        /\ ex' = [ex EXCEPT ![b] = [st |-> st, token |-> token]]
    BY <1>3 DEF Refused, Ask, NoEx
  <2>2. upset' \in BOOLEAN /\ restore' \in [Tab -> {"first", "waiting", "again", "done"}]
    BY <1>0, <2>1 DEF ClientInv, ClientTypeOK
  <2>3. /\ call' \in [Tab -> [Call -> {"idle", "sent", "waiting", "resent"}]]
        /\ sentOk' \subseteq Tab \X Call
        /\ \A c \in Call : call'[b][c] # "waiting"
        /\ \A x \in Tab : x # b => call'[x] = call[x]
    BY <2>1, ReleaseCalls
  <2>4. st \in {"none", "sent"} /\ token \in {cookie, None} /\ token \in rows \cup {None}
    BY <1>0
  <2>5. Abandon(b)
    BY <2>1, NothingServed
  <2>6. upset => upset'
    BY <2>1
  <2> HIDE DEF again, st, token
  <2>7. AfterTurn(b, st, token)
    BY <1>0, <2>1, <2>4, <2>5, TurnOver
  <2>8. ClientTypeOK'
    BY <1>0, <2>1, <2>2, <2>3, <2>7 DEF ClientInv, ClientTypeOK, IInv, AfterTurn
  <2>9. BeforeLogin'
    BY <1>0, <2>1, <2>4, <2>7 DEF ClientInv, BeforeLogin, AfterTurn
  <2>10. InTurn'
    BY <1>0, <2>1, <2>6 DEF ClientInv, InTurn
  <2> QED BY <2>7, <2>8, <2>9, <2>10 DEF ClientInv, AfterTurn
<1>4. CASE Reload(b)
  <2>1. /\ sub' = [sub EXCEPT ![b] = None] /\ stale' = stale \ {b}
        /\ restore' = [restore EXCEPT ![b] = "first"]
        /\ call' = [call EXCEPT ![b] = [c \in Call |-> "idle"]]
        /\ sentOk' = sentOk \ ({b} \X Call) /\ troubles' \in 0..MaxTroubles
        /\ Abandon(b)
        /\ ex' = [ex EXCEPT ![b] = [st |-> "sent", token |-> cookie]]
        /\ upset' = (upset \/ Overlap(b) \/ ex[b].st # "none") /\ cookie' = cookie
    BY <1>4 DEF Reload, Trouble, Ask, ClientInv, ClientTypeOK
  <2>2. /\ sub' \in [Tab -> User \cup {None}] /\ stale' \subseteq Tab /\ upset' \in BOOLEAN
        /\ restore' \in [Tab -> {"first", "waiting", "again", "done"}]
        /\ sentOk' \subseteq Tab \X Call
    BY <1>0, <2>1 DEF ClientInv, ClientTypeOK
  <2>3. /\ call' \in [Tab -> [Call -> {"idle", "sent", "waiting", "resent"}]]
        /\ \A x \in Tab : x # b => call'[x] = call[x]
    BY <2>1 DEF ClientInv, ClientTypeOK
  <2>4. AfterTurn(b, "sent", cookie)
    BY <1>0, <2>1, TurnOver
  <2>5. ClientTypeOK'
    BY <1>0, <2>1, <2>2, <2>3, <2>4 DEF ClientInv, ClientTypeOK, IInv, AfterTurn
  <2>6. BeforeLogin'
    BY <1>0, <2>1, <2>4 DEF ClientInv, BeforeLogin, AfterTurn
  <2>7. InTurn'
    BY <1>0, <2>1, <2>4, AskInTurn DEF AfterTurn
  <2> QED BY <2>4, <2>5, <2>6, <2>7 DEF ClientInv, AfterTurn
<1> QED BY <1>1, <1>2, <1>3, <1>4

\* Every step of the browser and its handlers keeps the invariant.
LEMMA NextClientInv == IInv /\ IInv' /\ ClientInv /\ [ClientNext]_allVars => ClientInv'
BY CallStep, ServeStep, HandlerStep, LoginStep, TroubleStep, TabStep DEF ClientNext, Browse

\* The tabs are clients TokenService admits: whatever they do, the server does
\* what it may do on its own, so all that is proved of it holds with them.
THEOREM Composition == ClientSpec => Spec /\ []ClientInv
<1>1. ClientInit => IInv /\ ClientInv
  BY InitIInv, InitClientInv DEF ClientInit
<1>2. IInv /\ ClientInv /\ [ClientNext]_allVars => [Next]_vars /\ IInv' /\ ClientInv'
  BY ClientStepRefines, NextIInv, NextClientInv
<1>3. ClientInit => Init
  BY DEF ClientInit
<1> QED BY <1>1, <1>2, <1>3, PTL DEF ClientSpec, Spec

\* Type correctness of the tabs, for any number of them and of their calls.
THEOREM ClientTypeCorrect == ClientSpec => []ClientTypeOK
BY Composition, PTL DEF ClientInv

\* An honest browser whose refreshes neither overlap nor get lost keeps the
\* session of its last login, however many tabs it has and rotations it makes.
THEOREM KeepsSession == ClientSpec => []SessionWithoutRaces
<1>1. ClientInv => SessionWithoutRaces
  BY DEF ClientInv, InTurn, SessionWithoutRaces
<1> QED BY <1>1, Composition, PTL
=============================================================================
