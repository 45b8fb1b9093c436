--------------------------- MODULE RefreshTokens ---------------------------
(***************************************************************************)
(* TokenService (apps/api/src/modules/auth/token.service.ts): rotating     *)
(* refresh tokens kept in families.  Every request runs its database calls *)
(* one at a time and outside a transaction, so the calls of two requests   *)
(* interleave; each call is one action here.  A client may present any     *)
(* token that was ever issued, any number of times: a retry, a second tab  *)
(* with the same cookie, or a thief.                                       *)
(***************************************************************************)
EXTENDS FiniteSets

CONSTANTS Token,   \* values of randomBytes(48); their number bounds a run
          Family,  \* values of nanoid(); their number bounds the logins
          User,    \* accounts whose password check succeeds
          Req,     \* request handlers that run at the same time
          None     \* no token, no handler

ASSUME NoneAssumption == None \notin Token \cup Family \cup User \cup Req

VARIABLES rows,      \* tokens with a row in refresh_tokens
          familyId,  \* column familyId, written once at insertion
          userId,    \* column userId, written once at insertion
          revoked,   \* rows with revokedAt set
          expired,   \* rows with expiresAt in the past
          pc,        \* where each handler stands
          existing,  \* the row a handler read at its first call
          families,  \* history: families a login has started
          parent,    \* history: the token whose rotation minted a token
          minter,    \* history: the handler that inserted a token's row
          closed     \* history: families a nuke or a logout has revoked

db == <<rows, familyId, userId, revoked, expired>>
handlers == <<pc, existing>>
history == <<families, parent, minter, closed>>
vars == <<db, handlers, history>>

PCs == {"idle", "nuke", "consume", "create", "revoke"}

\* The type invariant: every row is attributed to a family a login started and
\* to a user, and a handler past its first read refers to an existing row.
TypeOK ==
  /\ rows \subseteq Token
  /\ families \subseteq Family
  /\ familyId \in [Token -> Family \cup {None}]
  /\ userId \in [Token -> User \cup {None}]
  /\ \A t \in rows : familyId[t] \in families /\ userId[t] \in User
  /\ revoked \subseteq rows
  /\ expired \subseteq rows
  /\ pc \in [Req -> PCs]
  /\ existing \in [Req -> Token \cup {None}]
  /\ \A r \in Req : pc[r] # "idle" => existing[r] \in rows
  /\ parent \in [Token -> Token \cup {None}]
  /\ minter \in [Token -> Req \cup {None}]
  /\ \A t \in rows : minter[t] \in Req
  /\ closed \subseteq families

Init ==
  /\ rows = {}
  /\ familyId = [t \in Token |-> None]
  /\ userId = [t \in Token |-> None]
  /\ revoked = {}
  /\ expired = {}
  /\ pc = [r \in Req |-> "idle"]
  /\ existing = [r \in Req |-> None]
  /\ families = {}
  /\ parent = [t \in Token |-> None]
  /\ minter = [t \in Token |-> None]
  /\ closed = {}
----------------------------------------------------------------------------
(* The calls of a handler.                                                 *)

Return(r) == /\ pc' = [pc EXCEPT ![r] = "idle"]
             /\ existing' = [existing EXCEPT ![r] = None]

Goto(r, label, t) == /\ pc' = [pc EXCEPT ![r] = label]
                     /\ existing' = [existing EXCEPT ![r] = t]

\* createRefresh: one insert of a row under a fresh random token.
CreateRefresh(r, t, f, u, p) ==
  /\ t \in Token \ rows
  /\ rows' = rows \cup {t}
  /\ familyId' = [familyId EXCEPT ![t] = f]
  /\ userId' = [userId EXCEPT ![t] = u]
  /\ parent' = [parent EXCEPT ![t] = p]
  /\ minter' = [minter EXCEPT ![t] = r]
  /\ UNCHANGED <<revoked, expired, closed>>

\* Mutant: the family id is not fresh (derived from the device, say).
IssueForUserStaleFamily(r, u, f, t) ==
  /\ pc[r] = "idle"
  /\ f \in Family
  /\ families' = families \cup {f}
  /\ CreateRefresh(r, t, f, u, None)
  /\ UNCHANGED handlers

\* login and register end here: the first token of a fresh family.
IssueForUser(r, u, f, t) ==
  /\ pc[r] = "idle"
  /\ f \in Family \ families
  /\ families' = families \cup {f}
  /\ CreateRefresh(r, t, f, u, None)
  /\ UNCHANGED handlers

\* Mutant: rotate looks at revokedAt and forgets expiresAt.
RotateReadIgnoresExpiry(r, t) ==
  /\ pc[r] = "idle"
  /\ t \in rows
  /\ Goto(r, IF t \in revoked THEN "nuke" ELSE "consume", t)
  /\ UNCHANGED <<db, history>>

\* rotate up to its first write: the row is read and judged without an await
\* in between.  A token without a row is rejected and changes nothing.
RotateRead(r, t) ==
  /\ pc[r] = "idle"
  /\ t \in rows
  /\ Goto(r, IF t \in revoked \cup expired THEN "nuke" ELSE "consume", t)
  /\ UNCHANGED <<db, history>>

\* updateMany on the rows of a family that are not revoked yet.
RevokeFamily(f) ==
  /\ revoked' = revoked \cup {t \in rows : familyId[t] = f}
  /\ closed' = closed \cup {f}

\* rotate, reuse or expiry: the family is revoked and the request fails.
RotateNuke(r) ==
  /\ pc[r] = "nuke"
  /\ RevokeFamily(familyId[existing[r]])
  /\ Return(r)
  /\ UNCHANGED <<rows, familyId, userId, expired, families, parent, minter>>

\* Mutant: rotate never writes revokedAt on the token it consumes.
RotateConsumeSkipped(r) ==
  /\ pc[r] = "consume"
  /\ Goto(r, "create", existing[r])
  /\ UNCHANGED <<db, history>>

\* rotate: update({where: {id}}) revokes the presented token, whatever has
\* happened to its row since it was read.
RotateConsume(r) ==
  /\ pc[r] = "consume"
  /\ revoked' = revoked \cup {existing[r]}
  /\ Goto(r, "create", existing[r])
  /\ UNCHANGED <<rows, familyId, userId, expired, history>>


\* rotate: the successor joins the family of the row read at the start.
RotateCreate(r, t) ==
  /\ pc[r] = "create"
  /\ CreateRefresh(r, t, familyId[existing[r]], userId[existing[r]], existing[r])
  /\ Return(r)
  /\ UNCHANGED families

\* revoke (logout) up to its write; an unknown token returns at once.
LogoutRead(r, t) ==
  /\ pc[r] = "idle"
  /\ t \in rows
  /\ Goto(r, "revoke", t)
  /\ UNCHANGED <<db, history>>

LogoutRevoke(r) ==
  /\ pc[r] = "revoke"
  /\ RevokeFamily(familyId[existing[r]])
  /\ Return(r)
  /\ UNCHANGED <<rows, familyId, userId, expired, families, parent, minter>>

\* A call throws or the process dies: the handler's remaining calls are lost,
\* those it has made stay (no transaction spans them).
Fail(r) ==
  /\ pc[r] # "idle"
  /\ Return(r)
  /\ UNCHANGED <<db, history>>

\* expiresAt passes.  TTLs are configuration and may differ between restarts,
\* so no order is assumed between the expiry of two tokens.
Expire(t) ==
  /\ t \in rows \ expired
  /\ expired' = expired \cup {t}
  /\ UNCHANGED <<rows, familyId, userId, revoked, handlers, history>>

Next ==
  \/ \E r \in Req, u \in User, f \in Family, t \in Token : IssueForUser(r, u, f, t)
  \/ \E r \in Req, t \in Token :
        RotateRead(r, t) \/ RotateCreate(r, t) \/ LogoutRead(r, t)
  \/ \E r \in Req : RotateNuke(r) \/ RotateConsume(r) \/ LogoutRevoke(r) \/ Fail(r)
  \/ \E t \in Token : Expire(t)

Spec == Init /\ [][Next]_vars
----------------------------------------------------------------------------
(* Properties.                                                             *)

\* A token rotate would accept now.
Live(t) == t \in rows \ (revoked \cup expired)

\* No token of the family is usable and no rotation that passed its check is
\* still about to mint one.
Dead(f) ==
  /\ \A t \in rows : familyId[t] = f => ~Live(t)
  /\ \A r \in Req : pc[r] \in {"consume", "create"} => familyId[existing[r]] # f

FamilyState == [f \in Family |-> IF f \notin families THEN "none"
                                 ELSE IF Dead(f) THEN "dead" ELSE "alive"]

CL == INSTANCE CredentialLife WITH Credential <- Family, state <- FamilyState

\* Whatever requests race, fail or are retried, a family is opened once by a
\* login and, once it is dead, stays dead: rotate mints only for a family that
\* had a live token when the request read it.
ImplementsCredentialLife == CL!Spec

\* All tokens of a family belong to the user whose login started it: rotate
\* copies userId and familyId from one row, so no interleaving of rotations
\* moves a session to another account.
FamilyHasOneUser ==
  \A s, t \in rows : familyId[s] = familyId[t] => userId[s] = userId[t]

\* The damage of racing rotations is bounded by the handlers that race: one
\* handler never mints two successors of the same token, although it may serve
\* any number of requests that present it, since after its first success every
\* later read finds the token revoked.
OneSuccessorPerHandler ==
  \A s, t \in rows : /\ parent[s] # None
                     /\ parent[s] = parent[t]
                     /\ minter[s] = minter[t]
                     => s = t

\* "A token is single-use" (schema.prisma): no token has two successors.
SingleUse ==
  \A s, t \in rows : parent[s] # None /\ parent[s] = parent[t] => s = t

\* "the whole family is revoked" on reuse and on logout: after the updateMany
\* no token of the family is usable, then or later.
ClosedFamilyIsDead ==
  \A t \in rows : familyId[t] \in closed => ~Live(t)

\* A session continues in one place: a family never has two usable tokens.
OneLiveTokenPerFamily ==
  \A s, t \in rows : Live(s) /\ Live(t) /\ familyId[s] = familyId[t] => s = t
=============================================================================
