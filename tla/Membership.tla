----------------------------- MODULE Membership ----------------------------
(***************************************************************************)
(* OrgsService behind TenantGuard and RbacGuard: who belongs to which      *)
(* organisation in which role.  A handler's database calls interleave with *)
(* those of other handlers; only acceptInvite's two writes share a         *)
(* transaction.  The audit rows and mails that end these handlers are not  *)
(* modelled: nothing reads them back and their failures are swallowed.     *)
(***************************************************************************)
EXTENDS Rbac

CONSTANTS Org,         \* slugs
          Email,       \* addresses as typed; the account key
          Lower,       \* toLowerCase on addresses
          GrantRole,   \* roles an invite or a role change may carry
          InviteToken, \* values of randomBytes(32); bounds the invites sent
          Req,         \* request handlers that run at the same time
          None,
          MaxRejoin    \* bound: how often one membership is deleted

ASSUME LowerAssumption ==
  Lower \in [Email -> Email] /\ \A e \in Email : Lower[Lower[e]] = Lower[e]
\* inviteMemberSchema and updateMemberRoleSchema exclude OWNER.
ASSUME GrantAssumption == GrantRole \subseteq ROLES \ {"OWNER"}
ASSUME NoneAssumption == None \notin Org \cup Email \cup ROLES \cup InviteToken
ASSUME MaxRejoinAssumption == MaxRejoin \in Nat

Key == Org \X Email  \* @@unique([userId, organizationId]) and ([organizationId, email])

VARIABLES users,     \* registered accounts
          orgs,      \* existing organisations
          role,      \* membership row of (org, user): its role, None without row
          row,       \* which incarnation (id) of that row exists, or is next
          invite,    \* invite row of (org, address): its current token, or None
          offered,   \* its role
          pending,   \* invite rows that are neither accepted nor expired
          req,       \* per handler: where it stands and what it has read
          granted,   \* history: (org, address, role) an allowed caller asked for
          founder,   \* history: the user who created an organisation
          issued,    \* history: invite tokens sent so far
          redeemed   \* history: how often an invite token admitted somebody

members == <<role, row>>
invites == <<invite, offered, pending>>
history == <<granted, founder, issued, redeemed>>
vars == <<users, orgs, members, invites, req, history>>

Idle == [pc |-> "idle", key |-> None, role |-> None, id |-> 0, token |-> None, user |-> None]

PCs == {"idle", "createOrg", "addMember", "upsertMember", "upsertInvite", "updateRole",
        "updateWrite", "removeMember", "removeWrite", "accept"}

\* The request in a handler's hands, as far as it has been read.
Request == [pc : PCs, key : Key \cup {None}, role : ROLES \cup {None}, id : 0..MaxRejoin,
            token : InviteToken \cup {None}, user : Email \cup {None}]

RowsOK ==
  /\ users \subseteq Email
  /\ orgs \subseteq Org
  /\ role \in [Key -> ROLES \cup {None}]
  /\ \A k \in Key : role[k] # None => k[1] \in orgs /\ k[2] \in users
  /\ row \in [Key -> 0..MaxRejoin]
  /\ invite \in [Key -> InviteToken \cup {None}]
  /\ offered \in [Key -> GrantRole \cup {None}]
  /\ pending \subseteq Key
  /\ \A k \in Key : /\ k \in pending => invite[k] # None
                    /\ invite[k] # None => offered[k] # None /\ k[1] \in orgs
                    /\ invite[k] # None => invite[k] \in issued

HandlersOK ==
  /\ req \in [Req -> Request]
  /\ \A r \in Req :
       /\ req[r].pc # "idle" => req[r].key \in Key
       /\ req[r].pc \in {"addMember", "upsertMember", "upsertInvite", "updateRole",
                         "updateWrite", "accept"} => req[r].role \in GrantRole
       /\ req[r].pc \in {"createOrg", "accept"} => req[r].user \in users
       /\ req[r].pc = "createOrg" => req[r].user = req[r].key[2]
       /\ req[r].pc = "upsertMember" => req[r].key[2] \in users
       /\ req[r].pc \notin {"idle", "createOrg"} => req[r].key[1] \in orgs
       /\ req[r].pc = "accept" => req[r].token \in issued

HistoryOK ==
  /\ granted \subseteq Org \X Email \X GrantRole
  /\ founder \in [Org -> Email \cup {None}]
  /\ issued \subseteq InviteToken
  /\ redeemed \in [InviteToken -> Nat]

\* The type invariant: rows and invites exist only for existing organisations
\* and accounts, and a handler under way carries a key and a grantable role.
TypeOK == RowsOK /\ HandlersOK /\ HistoryOK

Init ==
  /\ users = {}
  /\ orgs = {}
  /\ role = [k \in Key |-> None]
  /\ row = [k \in Key |-> 0]
  /\ invite = [k \in Key |-> None]
  /\ offered = [k \in Key |-> None]
  /\ pending = {}
  /\ req = [r \in Req |-> Idle]
  /\ granted = {}
  /\ founder = [o \in Org |-> None]
  /\ issued = {}
  /\ redeemed = [t \in InviteToken |-> 0]
----------------------------------------------------------------------------
Return(r) == req' = [req EXCEPT ![r] = Idle]

Goto(r, label) == req' = [req EXCEPT ![r].pc = label]

\* register: the account row, unique by the address as typed.
Register(e) ==
  /\ e \in Email \ users
  /\ users' = users \cup {e}
  /\ UNCHANGED <<orgs, members, invites, req, history>>

\* create, and createOrgForUser once its loop has found a free slug.
CreateOrgCheck(r, u, o) ==
  /\ req[r].pc = "idle"
  /\ u \in users
  /\ o \in Org \ orgs
  /\ req' = [req EXCEPT ![r] = [Idle EXCEPT !.pc = "createOrg", !.key = <<o, u>>, !.user = u]]
  /\ UNCHANGED <<users, orgs, members, invites, history>>

\* Mutant: the slug has no unique index and is only checked beforehand.
CreateOrgInsertTakenSlug(r) ==
  LET k == req[r].key IN
  /\ req[r].pc = "createOrg"
  /\ orgs' = orgs \cup {k[1]}
  /\ role' = [role EXCEPT ![k] = "OWNER"]
  /\ founder' = [founder EXCEPT ![k[1]] = k[2]]
  /\ Return(r)
  /\ UNCHANGED <<users, row, invites, granted, issued, redeemed>>

\* The organisation and its OWNER membership, in one nested create.  The slug
\* is unique: the insert throws if another handler took it meanwhile.
CreateOrgInsert(r) ==
  LET k == req[r].key IN
  /\ req[r].pc = "createOrg"
  /\ k[1] \notin orgs
  /\ orgs' = orgs \cup {k[1]}
  /\ role' = [role EXCEPT ![k] = "OWNER"]
  /\ founder' = [founder EXCEPT ![k[1]] = k[2]]
  /\ Return(r)
  /\ UNCHANGED <<users, row, invites, granted, issued, redeemed>>

\* TenantGuard reads the caller's membership, RbacGuard judges its role; the
\* handler proper starts later, after an await.
Guard(r, u, o, permission) ==
  /\ req[r].pc = "idle"
  /\ u \in users
  /\ role[<<o, u>>] # None
  /\ RbacAllows(role[<<o, u>>], {permission}, {})

Admit(r, label, k, newRole) ==
  req' = [req EXCEPT ![r] = [Idle EXCEPT !.pc = label, !.key = k, !.role = newRole]]

\* POST :orgSlug/members with an address; it is lower-cased first.
AddMember(r, u, o, e, newRole) ==
  /\ Guard(r, u, o, "member:invite")
  /\ Admit(r, "addMember", <<o, Lower[e]>>, newRole)
  /\ granted' = granted \cup {<<o, Lower[e], newRole>>}
  /\ UNCHANGED <<users, orgs, members, invites, founder, issued, redeemed>>

\* Mutant: addMember takes every address for an account.
AddMemberNoLookup(r) ==
  /\ req[r].pc = "addMember"
  /\ Goto(r, "upsertMember")
  /\ UNCHANGED <<users, orgs, members, invites, history>>

\* addMember: is the lower-cased address an account?
AddMemberLookup(r) ==
  /\ req[r].pc = "addMember"
  /\ Goto(r, IF req[r].key[2] \in users THEN "upsertMember" ELSE "upsertInvite")
  /\ UNCHANGED <<users, orgs, members, invites, history>>

\* addMember: membership.upsert, which also overwrites the role of a member.
AddMemberUpsert(r) ==
  /\ req[r].pc = "upsertMember"
  /\ role' = [role EXCEPT ![req[r].key] = req[r].role]
  /\ Return(r)
  /\ UNCHANGED <<users, orgs, row, invites, history>>

\* addMember: invite.upsert under a fresh token; the raw token goes out by mail.
AddMemberInvite(r, t) ==
  LET k == req[r].key IN
  /\ req[r].pc = "upsertInvite"
  /\ t \in InviteToken \ issued
  /\ issued' = issued \cup {t}
  /\ invite' = [invite EXCEPT ![k] = t]
  /\ offered' = [offered EXCEPT ![k] = req[r].role]
  /\ pending' = pending \cup {k}
  /\ Return(r)
  /\ UNCHANGED <<users, orgs, members, granted, founder, redeemed>>

\* PATCH :orgSlug/members/:userId.
UpdateMemberRole(r, u, o, target, newRole) ==
  /\ Guard(r, u, o, "member:update_role")
  /\ Admit(r, "updateRole", <<o, target>>, newRole)
  /\ granted' = granted \cup {<<o, Lower[target], newRole>>}
  /\ UNCHANGED <<users, orgs, members, invites, founder, issued, redeemed>>

\* DELETE :orgSlug/members/:userId.
RemoveMember(r, u, o, target) ==
  /\ Guard(r, u, o, "member:remove")
  /\ Admit(r, "removeMember", <<o, target>>, None)
  /\ UNCHANGED <<users, orgs, members, invites, history>>

\* Mutant: the OWNER check is forgotten.
ReadTargetAnyRole(r) ==
  LET k == req[r].key IN
  /\ req[r].pc \in {"updateRole", "removeMember"}
  /\ role[k] # None
  /\ req' = [req EXCEPT ![r].pc = IF @ = "updateRole" THEN "updateWrite" ELSE "removeWrite",
                        ![r].id = row[k]]
  /\ UNCHANGED <<users, orgs, members, invites, history>>

\* updateMemberRole and removeMember read the row, answer 404 without one and
\* 403 for an OWNER, and remember the row's id.
ReadTarget(r) ==
  LET k == req[r].key IN
  /\ req[r].pc \in {"updateRole", "removeMember"}
  /\ IF role[k] \in {None, "OWNER"}
       THEN Return(r)
       ELSE req' = [req EXCEPT ![r].pc = IF @ = "updateRole" THEN "updateWrite" ELSE "removeWrite",
                               ![r].id = row[k]]
  /\ UNCHANGED <<users, orgs, members, invites, history>>

\* A write by id throws when that row has been deleted, even if the user has
\* joined again under a new row.
RowExists(k, id) == role[k] # None /\ row[k] = id

UpdateWrite(r) ==
  LET k == req[r].key IN
  /\ req[r].pc = "updateWrite"
  /\ RowExists(k, req[r].id)
  /\ role' = [role EXCEPT ![k] = req[r].role]
  /\ Return(r)
  /\ UNCHANGED <<users, orgs, row, invites, history>>

RemoveWrite(r) ==
  LET k == req[r].key IN
  /\ req[r].pc = "removeWrite"
  /\ RowExists(k, req[r].id)
  /\ row[k] < MaxRejoin
  /\ role' = [role EXCEPT ![k] = None]
  /\ row' = [row EXCEPT ![k] = @ + 1]
  /\ Return(r)
  /\ UNCHANGED <<users, orgs, invites, history>>

\* Mutant: the organisation is the request's, not the invite's.
AcceptAsElsewhere(r, u, k, t) ==
  \E o \in orgs :
    req' = [req EXCEPT ![r] = [Idle EXCEPT !.pc = "accept", !.key = <<o, k[2]>>,
                                           !.role = offered[k], !.token = t, !.user = u]]

\* What acceptInvite keeps of the invite it found.
AcceptAs(r, u, k, t) ==
  req' = [req EXCEPT ![r] = [Idle EXCEPT !.pc = "accept", !.key = k, !.role = offered[k],
                                         !.token = t, !.user = u]]

\* Mutant: the address is not compared.
AcceptReadAnyAddress(r, u, k, t) ==
  /\ req[r].pc = "idle"
  /\ u \in users
  /\ invite[k] = t
  /\ k \in pending
  /\ AcceptAs(r, u, k, t)
  /\ UNCHANGED <<users, orgs, members, invites, history>>

\* Mutant: acceptedAt and expiresAt are not looked at.
AcceptReadSpent(r, u, k, t) ==
  /\ req[r].pc = "idle"
  /\ u \in users
  /\ invite[k] = t
  /\ k[2] = Lower[u]
  /\ AcceptAs(r, u, k, t)
  /\ UNCHANGED <<users, orgs, members, invites, history>>

\* acceptInvite, outside its transaction: find the invite by token, refuse an
\* accepted or expired one and one sent to another address.
AcceptRead(r, u, k, t) ==
  /\ req[r].pc = "idle"
  /\ u \in users
  /\ invite[k] = t
  /\ k \in pending
  /\ k[2] = Lower[u]
  /\ AcceptAs(r, u, k, t)
  /\ UNCHANGED <<users, orgs, members, invites, history>>

\* acceptInvite's transaction: upsert the membership with the role read before,
\* mark the invite row accepted, whatever token it carries by now.
AcceptCommit(r) ==
  LET k == req[r].key IN
  /\ req[r].pc = "accept"
  /\ role' = [role EXCEPT ![<<k[1], req[r].user>>] = req[r].role]
  /\ pending' = pending \ {k}
  /\ redeemed' = [redeemed EXCEPT ![req[r].token] = @ + 1]
  /\ Return(r)
  /\ UNCHANGED <<users, orgs, row, invite, offered, granted, founder, issued>>

ExpireInvite(k) ==
  /\ k \in pending
  /\ pending' = pending \ {k}
  /\ UNCHANGED <<users, orgs, members, invite, offered, req, history>>

\* A call throws (a unique slug taken, a row gone, the database away) or the
\* process dies; what was written stays.
Fail(r) ==
  /\ req[r].pc # "idle"
  /\ Return(r)
  /\ UNCHANGED <<users, orgs, members, invites, history>>

Next ==
  \/ \E e \in Email : Register(e)
  \/ \E r \in Req, u \in Email, o \in Org : CreateOrgCheck(r, u, o)
  \/ \E r \in Req, u \in Email, o \in Org, e \in Email, g \in GrantRole :
        AddMember(r, u, o, e, g) \/ UpdateMemberRole(r, u, o, e, g)
  \/ \E r \in Req, u \in Email, o \in Org, e \in Email : RemoveMember(r, u, o, e)
  \/ \E r \in Req, t \in InviteToken : AddMemberInvite(r, t)
  \/ \E r \in Req, u \in Email, k \in Key, t \in InviteToken : AcceptRead(r, u, k, t)
  \/ \E r \in Req : \/ CreateOrgInsert(r) \/ AddMemberLookup(r) \/ AddMemberUpsert(r)
                    \/ ReadTarget(r) \/ UpdateWrite(r) \/ RemoveWrite(r)
                    \/ AcceptCommit(r) \/ Fail(r)
  \/ \E k \in Key : ExpireInvite(k)

Spec == Init /\ [][Next]_vars
----------------------------------------------------------------------------
(* Properties.                                                             *)

\* The OWNER check of updateMemberRole and removeMember is made before an
\* await; it is never stale when the write happens: no handler past it holds
\* the id of a row that is an OWNER's by now.
OwnerCheckNeverStale ==
  \A r \in Req : req[r].pc \in {"updateWrite", "removeWrite"}
                 /\ RowExists(req[r].key, req[r].id) => role[req[r].key] # "OWNER"

\* Nobody becomes an OWNER but by creating the organisation, whatever invites,
\* role changes and acceptances race.
OnlyFoundersOwn ==
  \A k \in Key : role[k] = "OWNER" => founder[k[1]] = k[2]

\* Tenant isolation: a user who did not create an organisation belongs to it
\* only in a role that a caller allowed to by the guards has asked for, for
\* that organisation and that user's address.
AdmittedOnlyByGrant ==
  \A k \in Key : role[k] \notin {None, "OWNER"} =>
     <<k[1], Lower[k[2]], role[k]>> \in granted

\* Where an invite link stands: alive while its row is pending under it or a
\* handler that has judged it valid has yet to commit.
InviteAlive(t) ==
  \/ \E k \in pending : invite[k] = t
  \/ \E r \in Req : req[r].pc = "accept" /\ req[r].token = t

InviteState == [t \in InviteToken |-> IF t \notin issued THEN "none"
                                      ELSE IF InviteAlive(t) THEN "alive" ELSE "dead"]

CL == INSTANCE CredentialLife WITH Credential <- InviteToken, state <- InviteState

\* An invite link that was accepted, has expired or was replaced by a newer
\* one, and that no handler is still acting on, never admits anybody again.
InviteImplementsCredentialLife == CL!Spec

\* "a one-time accept link": an invite token admits at most once.
InviteSingleUse == \A t \in InviteToken : redeemed[t] <= 1

\* "Cannot change the role of an owner", "Cannot remove an owner": the user
\* who created an organisation stays its OWNER.
OwnerKeepsOrg == \A o \in orgs : role[<<o, founder[o]>>] = "OWNER"
=============================================================================
