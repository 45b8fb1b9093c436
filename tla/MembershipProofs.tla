-------------------------- MODULE MembershipProofs -------------------------
(***************************************************************************)
(* Proofs about Membership for any number of organisations, addresses,     *)
(* invites and handlers.                                                   *)
(***************************************************************************)
EXTENDS Membership, FiniteSetTheorems, TLAPS

(* A grant travels through the invite row and through the handler that     *)
(* acts on it; each carries organisation, address and role unchanged.      *)

InvitesAreGrants ==
  \A k \in Key : offered[k] # None => <<k[1], k[2], offered[k]>> \in granted

\* An upsert for a key, and a role change for a user, were asked for.
HandlersActOnGrants ==
  \A r \in Req :
    /\ req[r].pc \in {"addMember", "upsertMember", "upsertInvite"} =>
         /\ Lower[req[r].key[2]] = req[r].key[2]
         /\ <<req[r].key[1], req[r].key[2], req[r].role>> \in granted
    /\ req[r].pc \in {"updateRole", "updateWrite"} =>
         <<req[r].key[1], Lower[req[r].key[2]], req[r].role>> \in granted
    /\ req[r].pc = "accept" =>
         /\ Lower[req[r].user] = req[r].key[2]
         /\ <<req[r].key[1], req[r].key[2], req[r].role>> \in granted

\* The inductive invariant.
IInv ==
  /\ TypeOK
  /\ InvitesAreGrants
  /\ HandlersActOnGrants
  /\ OwnerCheckNeverStale
  /\ OnlyFoundersOwn
  /\ AdmittedOnlyByGrant
----------------------------------------------------------------------------
\* A key is the pair of its organisation and its address.
LEMMA KeyIsPair == \A k \in Key : k[1] \in Org /\ k[2] \in Email /\ k = <<k[1], k[2]>>
BY DEF Key

\* An idle handler holds nothing.
LEMMA IdleIsRequest == Idle \in Request /\ Idle.pc = "idle"
<1>1. "idle" \in PCs /\ 0 \in 0..MaxRejoin
  BY MaxRejoinAssumption DEF PCs
<1> QED BY <1>1 DEF Idle, Request

\* A handler that changes its record to one of type Request stays typed.
LEMMA OneHandlerMoves ==
  ASSUME HandlersOK, NEW r \in Req, NEW q \in Request, req' = [req EXCEPT ![r] = q]
  PROVE  /\ req' \in [Req -> Request]
         /\ req'[r] = q
         /\ \A s \in Req \ {r} : req'[s] = req[s]
BY DEF HandlersOK

\* Nothing exists at first.
LEMMA InitIInv == Init => IInv
<1> SUFFICES ASSUME Init PROVE IInv
  OBVIOUS
<1> USE NoneAssumption, MaxRejoinAssumption DEF Init, Idle
<1>1. RowsOK /\ HistoryOK
  BY DEF RowsOK, HistoryOK
<1>4. HandlersOK
  BY IdleIsRequest DEF HandlersOK
<1>2. InvitesAreGrants /\ HandlersActOnGrants
  BY DEF InvitesAreGrants, HandlersActOnGrants
<1>3. OwnerCheckNeverStale /\ OnlyFoundersOwn /\ AdmittedOnlyByGrant
  BY DEF ROLES, OwnerCheckNeverStale, OnlyFoundersOwn, AdmittedOnlyByGrant
<1> QED BY <1>1, <1>2, <1>3, <1>4 DEF IInv, TypeOK

\* The new organisation had no row before; its OWNER row goes to its founder.
LEMMA CreateOrgIInv ==
  ASSUME IInv, NEW r \in Req, CreateOrgInsert(r)
  PROVE  IInv'
<1> USE NoneAssumption, GrantAssumption DEF IInv, CreateOrgInsert, Return, invites
<1>1. PICK o \in Org, u \in Email : req[r].key = <<o, u>> /\ req[r].user = u
  BY DEF TypeOK, HandlersOK, Key
<1>2. RowsOK' /\ HistoryOK'
  BY <1>1 DEF TypeOK, RowsOK, HandlersOK, HistoryOK, Key, ROLES
<1>6. HandlersOK'
  BY IdleIsRequest, OneHandlerMoves DEF TypeOK, HandlersOK
<1>3. InvitesAreGrants' /\ HandlersActOnGrants'
  BY DEF TypeOK, RowsOK, HandlersOK, Idle, InvitesAreGrants, HandlersActOnGrants
<1>4. OwnerCheckNeverStale'
  BY DEF TypeOK, RowsOK, HandlersOK, Idle, OwnerCheckNeverStale, RowExists
<1>5. OnlyFoundersOwn' /\ AdmittedOnlyByGrant'
  BY <1>1, KeyIsPair DEF TypeOK, RowsOK, HistoryOK, ROLES, OnlyFoundersOwn, AdmittedOnlyByGrant
<1> QED BY <1>2, <1>3, <1>4, <1>5, <1>6 DEF TypeOK

\* Steps that leave the membership and invite rows alone.
LEMMA RegisterIInv ==
  ASSUME IInv, NEW e \in Email, Register(e)
  PROVE  IInv'
<1> USE DEF IInv, Register, members, invites, history
<1>1. RowsOK' /\ HandlersOK' /\ HistoryOK'
  BY DEF TypeOK, RowsOK, HandlersOK, HistoryOK
<1>2. InvitesAreGrants' /\ HandlersActOnGrants' /\ OwnerCheckNeverStale'
      /\ OnlyFoundersOwn' /\ AdmittedOnlyByGrant'
  BY DEF InvitesAreGrants, HandlersActOnGrants, OwnerCheckNeverStale, RowExists,
     OnlyFoundersOwn, AdmittedOnlyByGrant
<1> QED BY <1>1, <1>2 DEF TypeOK

LEMMA ExpireInviteIInv ==
  ASSUME IInv, NEW k \in Key, ExpireInvite(k)
  PROVE  IInv'
<1> USE DEF IInv, ExpireInvite, members, history
<1>1. RowsOK' /\ HandlersOK' /\ HistoryOK'
  BY DEF TypeOK, RowsOK, HandlersOK, HistoryOK
<1>2. InvitesAreGrants' /\ HandlersActOnGrants' /\ OwnerCheckNeverStale'
      /\ OnlyFoundersOwn' /\ AdmittedOnlyByGrant'
  BY DEF InvitesAreGrants, HandlersActOnGrants, OwnerCheckNeverStale, RowExists,
     OnlyFoundersOwn, AdmittedOnlyByGrant
<1> QED BY <1>1, <1>2 DEF TypeOK

\* A handler that starts or ends, or reads, keeps the invariant if what it
\* holds afterwards is justified by the rows and grants of the moment.
LEMMA HandlerMoveIInv ==
  ASSUME IInv, NEW r \in Req, NEW q \in Request, req' = [req EXCEPT ![r] = q],
         UNCHANGED <<users, orgs, members, invites, founder, issued, redeemed>>,
         granted \subseteq granted', granted' \subseteq Org \X Email \X GrantRole,
         HandlersOK', HandlersActOnGrants',
         q.pc \in {"updateWrite", "removeWrite"} => role[q.key] # "OWNER"
  PROVE  IInv'
<1> USE DEF IInv, members, invites
<1>1. RowsOK' /\ HistoryOK'
  BY DEF TypeOK, RowsOK, HistoryOK
<1>2. InvitesAreGrants' /\ OnlyFoundersOwn' /\ AdmittedOnlyByGrant'
  BY DEF InvitesAreGrants, OnlyFoundersOwn, AdmittedOnlyByGrant
<1>3. OwnerCheckNeverStale'
  BY OneHandlerMoves DEF TypeOK, OwnerCheckNeverStale, RowExists
<1> QED BY <1>1, <1>2, <1>3 DEF TypeOK
----------------------------------------------------------------------------
(* Requests that pass the guards.                                          *)

\* What AddMember, UpdateMemberRole and RemoveMember leave in the handler.
LEMMA AdmitIInv ==
  ASSUME IInv, NEW r \in Req, NEW label \in {"addMember", "updateRole", "removeMember"},
         NEW o \in Org, NEW u \in Email, NEW e \in Email, NEW g \in GrantRole \cup {None},
         role[<<o, u>>] # None,
         Admit(r, label, <<o, e>>, g),
         UNCHANGED <<users, orgs, members, invites, founder, issued, redeemed>>,
         label = "addMember" => Lower[e] = e /\ g \in GrantRole,
         label = "updateRole" => g \in GrantRole,
         granted' = IF label = "removeMember" THEN granted
                                              ELSE granted \cup {<<o, Lower[e], g>>}
  PROVE  IInv'
<1> DEFINE q == [Idle EXCEPT !.pc = label, !.key = <<o, e>>, !.role = g]
<1>1. /\ q.pc = label /\ q.key = <<o, e>> /\ q.role = g
      /\ label \in PCs /\ <<o, e>> \in Key /\ g \in ROLES \cup {None}
  BY GrantAssumption DEF Idle, PCs, Key
<1>2. q \in Request
  BY <1>1, IdleIsRequest DEF Idle, Request
<1>3. req' = [req EXCEPT ![r] = q]
  BY DEF Admit
<1> HIDE DEF q
<1>4. /\ req' \in [Req -> Request]
      /\ req'[r] = q
      /\ \A s \in Req \ {r} : req'[s] = req[s]
  BY <1>2, <1>3, OneHandlerMoves DEF IInv, TypeOK
<1>5. o \in orgs /\ <<o, e>>[1] = o /\ <<o, e>>[2] = e
  BY DEF IInv, TypeOK, RowsOK, Key
<1>6. HandlersOK'
  BY <1>1, <1>4, <1>5 DEF IInv, TypeOK, HandlersOK
<1>7. granted \subseteq granted' /\ granted' \subseteq Org \X Email \X GrantRole
  BY LowerAssumption DEF IInv, TypeOK, HistoryOK
<1>8. HandlersActOnGrants'
  BY <1>1, <1>4, <1>5, <1>7 DEF IInv, HandlersActOnGrants
<1> QED BY <1>1, <1>2, <1>3, <1>6, <1>7, <1>8, HandlerMoveIInv

\* A request that passed the guards carries the grant it was let in with.
LEMMA GuardedIInv ==
  ASSUME IInv, NEW r \in Req, NEW u \in Email, NEW o \in Org, NEW e \in Email,
         \/ \E g \in GrantRole : AddMember(r, u, o, e, g) \/ UpdateMemberRole(r, u, o, e, g)
         \/ RemoveMember(r, u, o, e)
  PROVE  IInv'
<1>1. CASE \E g \in GrantRole : AddMember(r, u, o, e, g)
  <2>1. Lower[e] \in Email /\ Lower[Lower[e]] = Lower[e]
    BY LowerAssumption
  <2>2. PICK g \in GrantRole : AddMember(r, u, o, e, g)
    BY <1>1
  <2>3. granted' = granted \cup {<<o, Lower[Lower[e]], g>>}
    BY <2>1, <2>2 DEF AddMember
  <2> QED BY <2>1, <2>2, <2>3, AdmitIInv DEF AddMember, Guard
<1>2. CASE \E g \in GrantRole : UpdateMemberRole(r, u, o, e, g)
  BY <1>2, AdmitIInv DEF UpdateMemberRole, Guard
<1>3. CASE RemoveMember(r, u, o, e)
  BY <1>3, AdmitIInv DEF RemoveMember, Guard, history
<1> QED BY <1>1, <1>2, <1>3

\* create keeps the slug and the creator.
LEMMA CreateOrgCheckIInv ==
  ASSUME IInv, NEW r \in Req, NEW u \in Email, NEW o \in Org, CreateOrgCheck(r, u, o)
  PROVE  IInv'
<1> DEFINE q == [Idle EXCEPT !.pc = "createOrg", !.key = <<o, u>>, !.user = u]
<1>1. q.pc = "createOrg" /\ q.key = <<o, u>> /\ q.user = u /\ <<o, u>> \in Key /\ <<o, u>>[2] = u
  BY DEF Idle, Key
<1>2. q \in Request
  BY <1>1, IdleIsRequest DEF Idle, Request, PCs
<1>3. req' = [req EXCEPT ![r] = q]
  BY DEF CreateOrgCheck
<1> HIDE DEF q
<1>4. /\ req' \in [Req -> Request]
      /\ req'[r] = q
      /\ \A s \in Req \ {r} : req'[s] = req[s]
  BY <1>2, <1>3, OneHandlerMoves DEF IInv, TypeOK
<1>5. HandlersOK'
  BY <1>1, <1>4 DEF IInv, TypeOK, HandlersOK, CreateOrgCheck, history
<1>6. HandlersActOnGrants'
  BY <1>1, <1>4 DEF IInv, HandlersActOnGrants, CreateOrgCheck, history
<1> QED BY <1>1, <1>2, <1>3, <1>5, <1>6, HandlerMoveIInv
     DEF CreateOrgCheck, history, IInv, TypeOK, HistoryOK

\* acceptInvite holds the role and the address of the invite row it found.
LEMMA AcceptReadIInv ==
  ASSUME IInv, NEW r \in Req, NEW u \in Email, NEW k \in Key, NEW t \in InviteToken,
         AcceptRead(r, u, k, t)
  PROVE  IInv'
<1> DEFINE q == [Idle EXCEPT !.pc = "accept", !.key = k, !.role = offered[k],
                             !.token = t, !.user = u]
<1>1. /\ q.pc = "accept" /\ q.key = k /\ q.role = offered[k] /\ q.token = t /\ q.user = u
      /\ offered[k] \in GrantRole /\ k[1] \in orgs /\ t \in issued /\ k[2] = Lower[u]
      /\ u \in users
  BY DEF Idle, AcceptRead, IInv, TypeOK, RowsOK
<1>2. q \in Request
  BY <1>1, GrantAssumption, IdleIsRequest DEF Idle, Request, PCs
<1>3. req' = [req EXCEPT ![r] = q]
  BY DEF AcceptRead, AcceptAs
<1> HIDE DEF q
<1>4. /\ req' \in [Req -> Request]
      /\ req'[r] = q
      /\ \A s \in Req \ {r} : req'[s] = req[s]
  BY <1>2, <1>3, OneHandlerMoves DEF IInv, TypeOK
<1>5. HandlersOK'
  BY <1>1, <1>4 DEF IInv, TypeOK, HandlersOK, AcceptRead, history
<1>6. <<k[1], k[2], q.role>> \in granted
  BY <1>1, NoneAssumption, GrantAssumption DEF IInv, InvitesAreGrants
<1>7. HandlersActOnGrants'
  BY <1>1, <1>4, <1>6 DEF IInv, HandlersActOnGrants, AcceptRead, history
<1> QED BY <1>1, <1>2, <1>3, <1>5, <1>7, HandlerMoveIInv
     DEF AcceptRead, history, IInv, TypeOK, HistoryOK

\* Reads inside a handler change its label only; ReadTarget goes on only for a
\* row that is not an OWNER's.
LEMMA ReadIInv ==
  ASSUME IInv, NEW r \in Req, AddMemberLookup(r) \/ ReadTarget(r) \/ Fail(r)
  PROVE  IInv'
<1>1. PICK q \in Request :
        /\ req' = [req EXCEPT ![r] = q]
        /\ \/ q.pc = "idle"
           \/ /\ q.key = req[r].key /\ q.role = req[r].role
              /\ \/ q.pc = "upsertMember" /\ req[r].pc = "addMember" /\ q.key[2] \in users
                 \/ q.pc = "upsertInvite" /\ req[r].pc = "addMember"
                 \/ q.pc = "updateWrite" /\ req[r].pc = "updateRole" /\ role[q.key] # "OWNER"
                 \/ q.pc = "removeWrite" /\ req[r].pc = "removeMember" /\ role[q.key] # "OWNER"
  <2>1. req[r] \in Request /\ row \in [Key -> 0..MaxRejoin]
    BY DEF IInv, TypeOK, HandlersOK, RowsOK
  <2>2. CASE req' = [req EXCEPT ![r] = Idle]
    BY <2>2, IdleIsRequest
  <2>3. CASE AddMemberLookup(r)
    <3> DEFINE q == [req[r] EXCEPT !.pc = IF req[r].key[2] \in users THEN "upsertMember"
                                                                    ELSE "upsertInvite"]
    <3>1. q \in Request /\ req' = [req EXCEPT ![r] = q]
      BY <2>1, <2>3 DEF AddMemberLookup, Goto, Request, PCs
    <3>2. q.key = req[r].key /\ q.role = req[r].role
      BY <2>1 DEF Request
    <3>3. q.pc = IF req[r].key[2] \in users THEN "upsertMember" ELSE "upsertInvite"
      BY <2>1 DEF Request
    <3> QED BY <2>3, <3>1, <3>2, <3>3 DEF AddMemberLookup
  <2>4. CASE ReadTarget(r) /\ role[req[r].key] \notin {None, "OWNER"}
    <3> DEFINE q == [req[r] EXCEPT !.pc = IF req[r].pc = "updateRole" THEN "updateWrite"
                                                                      ELSE "removeWrite",
                                   !.id = row[req[r].key]]
    <3>1. req[r].key \in Key
      BY <2>4 DEF ReadTarget, IInv, TypeOK, HandlersOK
    <3>2. q \in Request /\ req' = [req EXCEPT ![r] = q]
      BY <2>1, <2>4, <3>1 DEF ReadTarget, Request, PCs
    <3>3. q.key = req[r].key /\ q.role = req[r].role
      BY <2>1 DEF Request
    <3>4. q.pc = IF req[r].pc = "updateRole" THEN "updateWrite" ELSE "removeWrite"
      BY <2>1 DEF Request
    <3>5. req[r].pc \in {"updateRole", "removeMember"}
      BY <2>4 DEF ReadTarget
    <3> HIDE DEF q
    <3> QED BY <2>4, <3>2, <3>3, <3>4, <3>5
  <2> QED BY <2>2, <2>3, <2>4 DEF ReadTarget, Fail, Return
<1>2. UNCHANGED <<users, orgs, members, invites, history>>
  BY DEF AddMemberLookup, ReadTarget, Fail
<1>3. /\ req' \in [Req -> Request]
      /\ req'[r] = q
      /\ \A s \in Req \ {r} : req'[s] = req[s]
  BY <1>1, OneHandlerMoves DEF IInv, TypeOK
<1>4. HandlersOK'
  BY <1>1, <1>2, <1>3 DEF IInv, TypeOK, HandlersOK, history
<1>5. HandlersActOnGrants'
  BY <1>1, <1>2, <1>3 DEF IInv, HandlersActOnGrants, history
<1> QED BY <1>1, <1>2, <1>4, <1>5, HandlerMoveIInv DEF history, IInv, TypeOK, HistoryOK
----------------------------------------------------------------------------
(* Writes.                                                                 *)

\* Ending a handler, seen from the parts of the invariant about handlers.
LEMMA ReturnKeeps ==
  ASSUME IInv, NEW r \in Req, Return(r),
         users' = users, orgs' = orgs, issued \subseteq issued', granted' = granted
  PROVE  /\ HandlersOK' /\ HandlersActOnGrants'
         /\ \A s \in Req : req'[s].pc # "idle" => req'[s] = req[s]
<1>1. /\ req' \in [Req -> Request]
      /\ req'[r] = Idle
      /\ \A s \in Req \ {r} : req'[s] = req[s]
  BY IdleIsRequest, OneHandlerMoves DEF Return, IInv, TypeOK
<1>2. HandlersOK'
  BY <1>1, IdleIsRequest DEF IInv, TypeOK, HandlersOK
<1>3. HandlersActOnGrants'
  BY <1>1, IdleIsRequest DEF IInv, HandlersActOnGrants
<1> QED BY <1>1, <1>2, <1>3, IdleIsRequest

\* Writing a granted role over or into a membership row, possibly burning an
\* invite in the same transaction.
LEMMA RoleWriteIInv ==
  ASSUME IInv, NEW r \in Req, Return(r), NEW k \in Key, NEW g \in GrantRole,
         k[1] \in orgs, k[2] \in users, <<k[1], Lower[k[2]], g>> \in granted,
         role' = [role EXCEPT ![k] = g],
         UNCHANGED <<users, orgs, row, invite, offered, granted, founder, issued>>,
         pending' \subseteq pending,
         redeemed' \in [InviteToken -> Nat]
  PROVE  IInv'
<1> USE NoneAssumption, GrantAssumption
<1>1. /\ HandlersOK' /\ HandlersActOnGrants'
      /\ \A s \in Req : req'[s].pc # "idle" => req'[s] = req[s]
  BY ReturnKeeps
<1>2. RowsOK' /\ HistoryOK'
  BY DEF IInv, TypeOK, RowsOK, HistoryOK
<1>3. InvitesAreGrants'
  BY DEF IInv, InvitesAreGrants
<1>4. OwnerCheckNeverStale'
  BY <1>1 DEF IInv, TypeOK, RowsOK, HandlersOK, OwnerCheckNeverStale, RowExists
<1>5. OnlyFoundersOwn' /\ AdmittedOnlyByGrant'
  BY DEF IInv, TypeOK, RowsOK, OnlyFoundersOwn, AdmittedOnlyByGrant
<1> QED BY <1>1, <1>2, <1>3, <1>4, <1>5 DEF IInv, TypeOK

\* The three writes of a role.
LEMMA RoleWritesIInv ==
  ASSUME IInv, NEW r \in Req, AddMemberUpsert(r) \/ UpdateWrite(r) \/ AcceptCommit(r)
  PROVE  IInv'
<1>1. CASE AddMemberUpsert(r)
  BY <1>1, RoleWriteIInv DEF AddMemberUpsert, invites, history, IInv, TypeOK, HandlersOK,
     HistoryOK, HandlersActOnGrants
<1>2. CASE UpdateWrite(r)
  <2>1. role[req[r].key] # None
    BY <1>2 DEF UpdateWrite, RowExists
  <2>2. req[r].key \in Key /\ req[r].key[1] \in orgs /\ req[r].key[2] \in users
    BY <1>2, <2>1 DEF UpdateWrite, IInv, TypeOK, HandlersOK, RowsOK
  <2> QED BY <1>2, <2>2, RoleWriteIInv DEF UpdateWrite, invites, history, IInv, TypeOK,
          HandlersOK, HistoryOK, HandlersActOnGrants
<1>3. CASE AcceptCommit(r)
  <2> DEFINE k == <<req[r].key[1], req[r].user>>
  <2>1. /\ k \in Key /\ k[1] = req[r].key[1] /\ k[2] = req[r].user
        /\ k[1] \in orgs /\ k[2] \in users /\ req[r].role \in GrantRole
        /\ req[r].token \in InviteToken
    BY <1>3 DEF AcceptCommit, IInv, TypeOK, HandlersOK, RowsOK, HistoryOK, Key
  <2>2. <<k[1], Lower[k[2]], req[r].role>> \in granted
    BY <1>3, <2>1 DEF AcceptCommit, IInv, HandlersActOnGrants
  <2>3. redeemed' \in [InviteToken -> Nat]
    BY <1>3, <2>1 DEF AcceptCommit, IInv, TypeOK, HistoryOK
  <2>4. role' = [role EXCEPT ![k] = req[r].role]
    BY <1>3 DEF AcceptCommit
  <2>5. pending' \subseteq pending /\ Return(r)
        /\ UNCHANGED <<users, orgs, row, invite, offered, granted, founder, issued>>
    BY <1>3 DEF AcceptCommit
  <2> HIDE DEF k
  <2> QED BY <2>1, <2>2, <2>3, <2>4, <2>5, RoleWriteIInv
<1> QED BY <1>1, <1>2, <1>3

\* Deleting a row leaves its key without a role.
LEMMA RemoveWriteIInv ==
  ASSUME IInv, NEW r \in Req, RemoveWrite(r)
  PROVE  IInv'
<1> USE NoneAssumption, MaxRejoinAssumption DEF RemoveWrite, invites, history
<1>1. /\ HandlersOK' /\ HandlersActOnGrants'
      /\ \A s \in Req : req'[s].pc # "idle" => req'[s] = req[s]
  BY ReturnKeeps
<1>2. req[r].key \in Key /\ row[req[r].key] \in 0..MaxRejoin
  BY DEF IInv, TypeOK, RowsOK, HandlersOK
<1>3. row' \in [Key -> 0..MaxRejoin]
  BY <1>2 DEF IInv, TypeOK, RowsOK
<1>4. RowsOK' /\ HistoryOK'
  BY <1>3 DEF IInv, TypeOK, RowsOK, HistoryOK
<1>5. InvitesAreGrants'
  BY DEF IInv, InvitesAreGrants
<1>6. OwnerCheckNeverStale'
  BY <1>1 DEF IInv, TypeOK, RowsOK, HandlersOK, OwnerCheckNeverStale, RowExists
<1>7. OnlyFoundersOwn' /\ AdmittedOnlyByGrant'
  BY DEF IInv, TypeOK, RowsOK, ROLES, OnlyFoundersOwn, AdmittedOnlyByGrant
<1> QED BY <1>1, <1>4, <1>5, <1>6, <1>7 DEF IInv, TypeOK

\* A fresh or refreshed invite carries the grant of its handler.
LEMMA AddMemberInviteIInv ==
  ASSUME IInv, NEW r \in Req, NEW t \in InviteToken, AddMemberInvite(r, t)
  PROVE  IInv'
<1> USE NoneAssumption, GrantAssumption DEF AddMemberInvite, members
<1>1. /\ HandlersOK' /\ HandlersActOnGrants'
      /\ \A s \in Req : req'[s].pc # "idle" => req'[s] = req[s]
  BY ReturnKeeps
<1>2. req[r].key \in Key /\ req[r].role \in GrantRole /\ req[r].key[1] \in orgs
  BY DEF IInv, TypeOK, HandlersOK
<1>3. RowsOK' /\ HistoryOK'
  BY <1>2 DEF IInv, TypeOK, RowsOK, HistoryOK
<1>4. InvitesAreGrants'
  BY <1>2 DEF IInv, TypeOK, RowsOK, InvitesAreGrants, HandlersActOnGrants
<1>5. OwnerCheckNeverStale'
  BY <1>1 DEF IInv, OwnerCheckNeverStale, RowExists
<1>6. OnlyFoundersOwn' /\ AdmittedOnlyByGrant'
  BY DEF IInv, OnlyFoundersOwn, AdmittedOnlyByGrant
<1> QED BY <1>1, <1>3, <1>4, <1>5, <1>6 DEF IInv, TypeOK
----------------------------------------------------------------------------
\* The invariant holds throughout.
THEOREM Invariance == Spec => []IInv
<1>1. IInv /\ [Next]_vars => IInv'
  <2> SUFFICES ASSUME IInv, [Next]_vars PROVE IInv'
    OBVIOUS
  <2>1. CASE UNCHANGED vars
    BY <2>1 DEF vars, members, invites, history, IInv, TypeOK, RowsOK, HandlersOK, HistoryOK,
       InvitesAreGrants, HandlersActOnGrants, OwnerCheckNeverStale, RowExists,
       OnlyFoundersOwn, AdmittedOnlyByGrant
  <2>2. CASE Next
    BY <2>2, RegisterIInv, CreateOrgCheckIInv, GuardedIInv, AddMemberInviteIInv,
       AcceptReadIInv, CreateOrgIInv, ReadIInv, RoleWritesIInv, RemoveWriteIInv,
       ExpireInviteIInv DEF Next
  <2> QED BY <2>1, <2>2
<1> QED BY InitIInv, <1>1, PTL DEF Spec

\* Type correctness, for any constants.
THEOREM TypeCorrect == Spec => []TypeOK
BY Invariance, PTL DEF IInv

\* However calls interleave, updateMemberRole and removeMember never write to
\* the row of an OWNER.
THEOREM OwnerCheckSound == Spec => []OwnerCheckNeverStale
BY Invariance, PTL DEF IInv

\* Ownership comes from founding an organisation and from nothing else.
THEOREM Ownership == Spec => []OnlyFoundersOwn
BY Invariance, PTL DEF IInv

\* No user is in an organisation without a grant for that organisation, that
\* address and that role.
THEOREM Isolation == Spec => []AdmittedOnlyByGrant
BY Invariance, PTL DEF IInv
----------------------------------------------------------------------------
(* Invite links.  Only AddMemberInvite gives a link out; every other step  *)
(* leaves the dead ones dead, since a handler that holds one has judged it *)
(* while its row was pending under it.                                     *)

\* A step that gives out no link and revives none is one of the abstract system.
LEMMA NoRevivalRefines ==
  ASSUME issued' = issued, \A t \in issued : InviteAlive(t)' => InviteAlive(t)
  PROVE  CL!Next
BY DEF CL!Next, CL!Ageing, InviteState

\* Handlers that were not at the commit before are the only ones that could revive.
LEMMA NoLinkRevived ==
  ASSUME IInv, issued' = issued, invite' = invite, pending' \subseteq pending,
         \A s \in Req : req'[s].pc = "accept" => req'[s] = req[s] \/ InviteAlive(req'[s].token)
  PROVE  CL!Next
<1>1. ASSUME NEW t \in issued, InviteAlive(t)'
      PROVE  InviteAlive(t)
  <2>1. CASE \E k \in pending' : invite'[k] = t
    BY <2>1 DEF InviteAlive
  <2>2. CASE \E s \in Req : req'[s].pc = "accept" /\ req'[s].token = t
    BY <2>2 DEF InviteAlive
  <2> QED BY <1>1, <2>1, <2>2 DEF InviteAlive
<1> QED BY <1>1, NoRevivalRefines

\* A link is given out under a token that nothing held; the one it replaces dies
\* unless a handler is about to commit with it.
LEMMA AddMemberInviteRefines ==
  ASSUME IInv, NEW r \in Req, NEW t \in InviteToken, AddMemberInvite(r, t)
  PROVE  CL!Next
<1> USE DEF AddMemberInvite
<1>1. /\ req[r].key \in Key /\ issued' = issued \cup {t} /\ t \notin issued
      /\ invite \in [Key -> InviteToken \cup {None}]
      /\ pending \subseteq Key
  BY DEF IInv, TypeOK, RowsOK, HandlersOK
<1>2. \A s \in Req : req'[s].pc = "accept" => req'[s] = req[s]
  BY ReturnKeeps DEF members
<1>3. InviteAlive(t)'
  BY <1>1 DEF InviteAlive
<1>4. ASSUME NEW c \in issued, InviteAlive(c)'
      PROVE  InviteAlive(c)
  <2>1. CASE \E k \in pending' : invite'[k] = c
    BY <1>1, <2>1 DEF InviteAlive
  <2>2. CASE \E s \in Req : req'[s].pc = "accept" /\ req'[s].token = c
    BY <1>2, <2>2 DEF InviteAlive
  <2> QED BY <1>4, <2>1, <2>2 DEF InviteAlive
<1> QED BY <1>1, <1>3, <1>4 DEF CL!Next, CL!Ageing, InviteState

\* A handler that found the invite holds a link that is alive.
LEMMA AcceptReadRefines ==
  ASSUME IInv, NEW r \in Req, NEW u \in Email, NEW k \in Key, NEW t \in InviteToken,
         AcceptRead(r, u, k, t)
  PROVE  CL!Next
<1> DEFINE q == [Idle EXCEPT !.pc = "accept", !.key = k, !.role = offered[k],
                             !.token = t, !.user = u]
<1>1. q.token = t /\ InviteAlive(t)
  BY DEF Idle, AcceptRead, InviteAlive
<1>2. req' = [req EXCEPT ![r] = q] /\ UNCHANGED <<issued, invite, pending>>
  BY DEF AcceptRead, AcceptAs, invites, history
<1> HIDE DEF q
<1>3. \A s \in Req : req'[s] = req[s] \/ req'[s] = q
  BY <1>2 DEF IInv, TypeOK, HandlersOK
<1> QED BY <1>1, <1>2, <1>3, NoLinkRevived

\* What a handler does that neither finds an invite nor gives one out.
OtherStep(r) ==
  \/ \E u \in Email, o \in Org : CreateOrgCheck(r, u, o)
  \/ \E u \in Email, o \in Org, e \in Email, g \in GrantRole :
       AddMember(r, u, o, e, g) \/ UpdateMemberRole(r, u, o, e, g)
  \/ \E u \in Email, o \in Org, e \in Email : RemoveMember(r, u, o, e)
  \/ AddMemberLookup(r) \/ ReadTarget(r) \/ UpdateWrite(r) \/ RemoveWrite(r)
  \/ CreateOrgInsert(r) \/ AddMemberUpsert(r) \/ AcceptCommit(r) \/ Fail(r)

\* Such a step brings no handler to the commit.
LEMMA OtherStepHoldsNothing ==
  ASSUME IInv, NEW r \in Req, OtherStep(r)
  PROVE  /\ issued' = issued /\ invite' = invite /\ pending' \subseteq pending
         /\ AcceptCommit(r) \/ redeemed' = redeemed
         /\ \A s \in Req : req'[s].pc = "accept" => req'[s] = req[s]
<1>1. /\ issued' = issued /\ invite' = invite /\ pending' \subseteq pending
      /\ AcceptCommit(r) \/ redeemed' = redeemed
  BY DEF OtherStep, CreateOrgCheck, AddMember, UpdateMemberRole, RemoveMember, AddMemberLookup,
     ReadTarget, UpdateWrite, RemoveWrite, CreateOrgInsert, AddMemberUpsert, AcceptCommit, Fail,
     invites, history
<1>2. ASSUME NEW q, q.pc # "accept", req' = [req EXCEPT ![r] = q]
      PROVE  \A s \in Req : req'[s].pc = "accept" => req'[s] = req[s]
  BY <1>2 DEF IInv, TypeOK, HandlersOK
<1>3. ASSUME NEW label \in {"addMember", "updateRole", "removeMember"}, NEW k, NEW g,
             Admit(r, label, k, g)
      PROVE  \A s \in Req : req'[s].pc = "accept" => req'[s] = req[s]
  <2>1. [Idle EXCEPT !.pc = label, !.key = k, !.role = g].pc # "accept"
    BY DEF Idle
  <2> QED BY <1>2, <1>3, <2>1 DEF Admit
<1>4. ASSUME Return(r)
      PROVE  \A s \in Req : req'[s].pc = "accept" => req'[s] = req[s]
  BY <1>1, <1>2, <1>4, IdleIsRequest DEF Return
<1>5. CASE \E u \in Email, o \in Org : CreateOrgCheck(r, u, o)
  <2>1. PICK u \in Email, o \in Org : CreateOrgCheck(r, u, o)
    BY <1>5
  <2>2. [Idle EXCEPT !.pc = "createOrg", !.key = <<o, u>>, !.user = u].pc # "accept"
    BY DEF Idle
  <2> QED BY <1>1, <1>2, <2>1, <2>2 DEF CreateOrgCheck
<1>6. CASE AddMemberLookup(r) \/ ReadTarget(r)
  <2>1. req[r] \in Request
    BY DEF IInv, TypeOK, HandlersOK
  <2>2. CASE AddMemberLookup(r)
    <3> DEFINE q == [req[r] EXCEPT !.pc = IF req[r].key[2] \in users THEN "upsertMember"
                                                                    ELSE "upsertInvite"]
    <3>1. q.pc # "accept" /\ req' = [req EXCEPT ![r] = q]
      BY <2>1, <2>2 DEF AddMemberLookup, Goto, Request
    <3> HIDE DEF q
    <3> QED BY <1>1, <1>2, <3>1
  <2>3. CASE ReadTarget(r) /\ ~Return(r)
    <3> DEFINE q == [req[r] EXCEPT !.pc = IF req[r].pc = "updateRole" THEN "updateWrite"
                                                                      ELSE "removeWrite",
                                   !.id = row[req[r].key]]
    <3>1. q.pc # "accept" /\ req' = [req EXCEPT ![r] = q]
      BY <2>1, <2>3 DEF ReadTarget, Request
    <3> HIDE DEF q
    <3> QED BY <1>1, <1>2, <3>1
  <2> QED BY <1>1, <1>4, <1>6, <2>2, <2>3
<1>7. CASE \E u \in Email, o \in Org, e \in Email, g \in GrantRole :
             AddMember(r, u, o, e, g) \/ UpdateMemberRole(r, u, o, e, g)
  BY <1>1, <1>3, <1>7 DEF AddMember, UpdateMemberRole
<1>8. CASE \E u \in Email, o \in Org, e \in Email : RemoveMember(r, u, o, e)
  BY <1>1, <1>3, <1>8 DEF RemoveMember
<1>9. CASE UpdateWrite(r) \/ RemoveWrite(r) \/ CreateOrgInsert(r) \/ AddMemberUpsert(r)
           \/ AcceptCommit(r) \/ Fail(r)
  BY <1>1, <1>4, <1>9 DEF UpdateWrite, RemoveWrite, CreateOrgInsert, AddMemberUpsert, AcceptCommit, Fail
<1>10. \A s \in Req : req'[s].pc = "accept" => req'[s] = req[s]
  BY <1>5, <1>6, <1>7, <1>8, <1>9 DEF OtherStep
<1> QED BY <1>1, <1>10

\* The steps of the system, sorted by what they do to a link.
LEMMA NextCases ==
  ASSUME Next
  PROVE  \/ \E e \in Email : Register(e)
         \/ \E k \in Key : ExpireInvite(k)
         \/ \E r \in Req, t \in InviteToken : AddMemberInvite(r, t)
         \/ \E r \in Req, u \in Email, k \in Key, t \in InviteToken : AcceptRead(r, u, k, t)
         \/ \E r \in Req : OtherStep(r)
BY DEF Next, OtherStep

\* An invite link that was accepted, has expired or was replaced, and that no
\* handler is still acting on, never admits anybody again.
THEOREM InviteRefinement == Spec => InviteImplementsCredentialLife
<1>1. Init => CL!Init
  BY DEF Init, CL!Init, InviteState
<1>2. IInv /\ [Next]_vars => [CL!Next]_InviteState
  <2> SUFFICES ASSUME IInv, [Next]_vars PROVE [CL!Next]_InviteState
    OBVIOUS
  <2>1. CASE UNCHANGED vars
    BY <2>1 DEF vars, members, invites, history, InviteState, InviteAlive
  <2>2. CASE (\E e \in Email : Register(e)) \/ (\E k \in Key : ExpireInvite(k))
    BY <2>2, NoLinkRevived DEF Register, ExpireInvite, invites, history
  <2>3. CASE \E r \in Req, t \in InviteToken : AddMemberInvite(r, t)
    BY <2>3, AddMemberInviteRefines
  <2>4. CASE \E r \in Req, u \in Email, k \in Key, t \in InviteToken : AcceptRead(r, u, k, t)
    BY <2>4, AcceptReadRefines
  <2>5. CASE \E r \in Req : OtherStep(r)
    BY <2>5, OtherStepHoldsNothing, NoLinkRevived
  <2> QED BY <2>1, <2>2, <2>3, <2>4, <2>5, NextCases
<1> QED BY <1>1, <1>2, Invariance, PTL DEF Spec, InviteImplementsCredentialLife, CL!Spec
----------------------------------------------------------------------------
(* How often a link admits.  A handler that commits takes the row out of   *)
(* play, so that only those that had found it before can still commit.     *)

\* The handlers about to commit with a link.
Holding(t) == {r \in Req : req[r].pc = "accept" /\ req[r].token = t}

\* A link is that of one row, for good.
LinksHaveOneRow ==
  /\ \A k, l \in Key : invite[k] = invite[l] /\ invite[k] # None => k = l
  /\ \A r \in Req, k \in Key :
       req[r].pc = "accept" /\ invite[k] = req[r].token => k = req[r].key

\* A link that has admitted somebody is out of play.
UsedLinksAreSpent ==
  \A t \in InviteToken : redeemed[t] > 0 => t \in issued /\ \A k \in pending : invite[k] # t

\* Every admission is that of another handler, of those still at work too.
OneAdmissionEach == \A t \in InviteToken : redeemed[t] + Cardinality(Holding(t)) <= Cardinality(Req)

AdmitInv == IInv /\ LinksHaveOneRow /\ UsedLinksAreSpent /\ OneAdmissionEach

\* "A one-time accept link" admits once per acceptance under way at the same time.
OneAdmissionPerHandler == \A t \in InviteToken : redeemed[t] <= Cardinality(Req)

\* Finitely many handlers hold a link.
LEMMA HoldingFinite ==
  ASSUME IsFiniteSet(Req), NEW t
  PROVE  IsFiniteSet(Holding(t)) /\ Cardinality(Holding(t)) \in Nat /\ Cardinality(Req) \in Nat
         /\ Cardinality(Holding(t)) <= Cardinality(Req)
BY FS_Subset, FS_CardinalityType DEF Holding

\* A step that admits nobody and after which no handler has come to hold a link.
LEMMA NobodyAdmitted ==
  ASSUME IsFiniteSet(Req), AdmitInv, IInv', redeemed' = redeemed, issued \subseteq issued',
         \A s \in Req : req'[s].pc = "accept" => req'[s] = req[s],
         LinksHaveOneRow', UsedLinksAreSpent'
  PROVE  AdmitInv'
<1>1. ASSUME NEW t \in InviteToken
      PROVE  (redeemed[t] + Cardinality(Holding(t)) <= Cardinality(Req))'
  <2>1. Holding(t)' \subseteq Holding(t)
    BY DEF Holding
  <2>2. Cardinality(Holding(t)') <= Cardinality(Holding(t)) /\ Cardinality(Holding(t)') \in Nat
    BY <2>1, HoldingFinite, FS_Subset, FS_CardinalityType
  <2>3. redeemed[t] \in Nat /\ Cardinality(Req) \in Nat /\ Cardinality(Holding(t)) \in Nat
    BY HoldingFinite DEF AdmitInv, IInv, TypeOK, HistoryOK
  <2> QED BY <2>2, <2>3 DEF AdmitInv, OneAdmissionEach
<1> QED BY <1>1 DEF AdmitInv, OneAdmissionEach

\* The same where the invite rows stay as they are, or leave play.
LEMMA NoInviteWritten ==
  ASSUME IsFiniteSet(Req), AdmitInv, IInv',
         UNCHANGED <<invite, redeemed, issued>>, pending' \subseteq pending,
         \A s \in Req : req'[s].pc = "accept" => req'[s] = req[s]
  PROVE  AdmitInv'
<1>1. LinksHaveOneRow'
  BY DEF AdmitInv, LinksHaveOneRow
<1>2. UsedLinksAreSpent'
  BY DEF AdmitInv, UsedLinksAreSpent
<1> QED BY <1>1, <1>2, NobodyAdmitted

LEMMA AddMemberInviteAdmits ==
  ASSUME IsFiniteSet(Req), AdmitInv, IInv', NEW r \in Req, NEW t \in InviteToken,
         AddMemberInvite(r, t)
  PROVE  AdmitInv'
<1> USE NoneAssumption DEF AddMemberInvite, members
<1>1. \A s \in Req : req'[s].pc = "accept" => req'[s] = req[s]
  BY ReturnKeeps DEF AdmitInv
<1>2. /\ req[r].key \in Key /\ invite \in [Key -> InviteToken \cup {None}]
      /\ pending \subseteq Key
      /\ \A k \in Key : invite[k] # None => invite[k] \in issued
      /\ \A s \in Req : req[s].pc = "accept" => req[s].token \in issued
      /\ redeemed \in [InviteToken -> Nat]
  BY DEF AdmitInv, IInv, TypeOK, RowsOK, HandlersOK, HistoryOK
<1>3. LinksHaveOneRow'
  BY <1>1, <1>2 DEF AdmitInv, LinksHaveOneRow
<1>4. UsedLinksAreSpent'
  BY <1>2 DEF AdmitInv, UsedLinksAreSpent
<1> QED BY <1>1, <1>3, <1>4, NobodyAdmitted

\* A link that is found is in play and has admitted nobody.
LEMMA AcceptReadAdmits ==
  ASSUME IsFiniteSet(Req), AdmitInv, IInv', NEW r \in Req, NEW u \in Email, NEW k \in Key,
         NEW t \in InviteToken, AcceptRead(r, u, k, t)
  PROVE  AdmitInv'
<1> DEFINE q == [Idle EXCEPT !.pc = "accept", !.key = k, !.role = offered[k],
                             !.token = t, !.user = u]
<1>1. q.token = t /\ q.key = k /\ q.pc = "accept"
  BY DEF Idle
<1>2. /\ req' = [req EXCEPT ![r] = q]
      /\ UNCHANGED <<issued, invite, pending, redeemed>>
      /\ invite[k] = t /\ k \in pending
  BY DEF AcceptRead, AcceptAs, invites, history
<1> HIDE DEF q
<1>3. req'[r] = q /\ \A s \in Req \ {r} : req'[s] = req[s]
  BY <1>2 DEF AdmitInv, IInv, TypeOK, HandlersOK
<1>4. LinksHaveOneRow'
  BY <1>1, <1>2, <1>3, NoneAssumption DEF AdmitInv, LinksHaveOneRow
<1>5. UsedLinksAreSpent'
  BY <1>2 DEF AdmitInv, UsedLinksAreSpent
<1>6. redeemed \in [InviteToken -> Nat] /\ redeemed[t] = 0
  BY <1>2 DEF AdmitInv, UsedLinksAreSpent, IInv, TypeOK, HistoryOK
<1>7. ASSUME NEW c \in InviteToken
      PROVE  (redeemed[c] + Cardinality(Holding(c)) <= Cardinality(Req))'
  <2>1. Cardinality(Holding(c)') <= Cardinality(Req) /\ Cardinality(Holding(c)') \in Nat
        /\ Cardinality(Req) \in Nat
    <3>1. Holding(c)' \subseteq Req
      BY DEF Holding
    <3> QED BY <3>1, FS_Subset, FS_CardinalityType
  <2>2. CASE c = t
    BY <1>2, <1>6, <2>1, <2>2
  <2>3. CASE c # t
    <3>1. Holding(c)' \subseteq Holding(c)
      BY <1>1, <1>3, <2>3 DEF Holding
    <3>2. Cardinality(Holding(c)') <= Cardinality(Holding(c)) /\ Cardinality(Holding(c)) \in Nat
      BY <3>1, HoldingFinite, FS_Subset
    <3> QED BY <1>2, <1>6, <2>1, <3>2 DEF AdmitInv, OneAdmissionEach
  <2> QED BY <2>2, <2>3
<1> QED BY <1>4, <1>5, <1>7 DEF AdmitInv, OneAdmissionEach

\* The handler that commits holds the link no more, and takes its row out of play.
LEMMA AcceptCommitAdmits ==
  ASSUME IsFiniteSet(Req), AdmitInv, IInv', NEW r \in Req, AcceptCommit(r)
  PROVE  AdmitInv'
<1> DEFINE t == req[r].token
           k == req[r].key
<1>1. /\ t \in InviteToken /\ t \in issued
      /\ redeemed \in [InviteToken -> Nat]
      /\ redeemed' = [redeemed EXCEPT ![t] = @ + 1]
      /\ pending' = pending \ {k} /\ pending \subseteq Key
      /\ UNCHANGED <<invite, issued>>
      /\ r \in Holding(t)
  BY DEF AcceptCommit, AdmitInv, IInv, TypeOK, RowsOK, HandlersOK, HistoryOK, Holding
<1>2. req'[r] = Idle /\ \A s \in Req \ {r} : req'[s] = req[s]
  BY DEF AcceptCommit, Return, AdmitInv, IInv, TypeOK, HandlersOK
<1>3. LinksHaveOneRow'
  BY <1>1, <1>2, IdleIsRequest DEF AdmitInv, LinksHaveOneRow
<1>4. \A l \in pending' : invite[l] # t
  BY <1>1 DEF AdmitInv, LinksHaveOneRow, AcceptCommit
<1> HIDE DEF t, k
<1>5. UsedLinksAreSpent'
  BY <1>1, <1>4 DEF AdmitInv, UsedLinksAreSpent
<1>6. ASSUME NEW c \in InviteToken
      PROVE  (redeemed[c] + Cardinality(Holding(c)) <= Cardinality(Req))'
  <2>1. Holding(c)' = Holding(c) \ {r}
    BY <1>2, IdleIsRequest DEF Holding
  <2>2. /\ IsFiniteSet(Holding(c)) /\ Cardinality(Holding(c)) \in Nat
        /\ Cardinality(Req) \in Nat
    BY HoldingFinite
  <2>3. redeemed[c] + Cardinality(Holding(c)) <= Cardinality(Req)
    BY DEF AdmitInv, OneAdmissionEach
  <2>4. CASE c = t
    <3>1. Cardinality(Holding(c)') = Cardinality(Holding(c)) - 1
      BY <1>1, <2>1, <2>2, <2>4, FS_RemoveElement
    <3>2. redeemed'[c] = redeemed[c] + 1 /\ redeemed[c] \in Nat
      BY <1>1, <2>4
    <3> QED BY <2>2, <2>3, <3>1, <3>2
  <2>5. CASE c # t
    <3>1. Cardinality(Holding(c)') <= Cardinality(Holding(c)) /\ Cardinality(Holding(c)') \in Nat
      BY <2>1, <2>2, FS_Subset, FS_CardinalityType
    <3>2. redeemed'[c] = redeemed[c] /\ redeemed[c] \in Nat
      BY <1>1, <2>5
    <3> QED BY <2>2, <2>3, <3>1, <3>2
  <2> QED BY <2>4, <2>5
<1> QED BY <1>3, <1>5, <1>6 DEF AdmitInv, OneAdmissionEach

\* The number of admissions is bounded through every step.
LEMMA AdmitInvariance == IsFiniteSet(Req) /\ Spec => []AdmitInv
<1> SUFFICES ASSUME IsFiniteSet(Req) PROVE Spec => []AdmitInv
  OBVIOUS
<1>1. Init => AdmitInv
  <2> SUFFICES ASSUME Init PROVE AdmitInv
    OBVIOUS
  <2>1. IInv
    BY InitIInv
  <2>2. LinksHaveOneRow /\ UsedLinksAreSpent
    BY DEF Init, Idle, LinksHaveOneRow, UsedLinksAreSpent
  <2>3. \A t \in InviteToken : redeemed[t] = 0 /\ redeemed[t] \in Nat
    BY DEF Init
  <2>4. OneAdmissionEach
    BY <2>3, HoldingFinite DEF OneAdmissionEach
  <2> QED BY <2>1, <2>2, <2>4 DEF AdmitInv
<1>2. AdmitInv /\ IInv' /\ [Next]_vars => AdmitInv'
  <2> SUFFICES ASSUME AdmitInv, IInv', [Next]_vars PROVE AdmitInv'
    OBVIOUS
  <2>1. CASE UNCHANGED vars
    BY <2>1, NoInviteWritten DEF vars, invites, history
  <2>2. CASE (\E e \in Email : Register(e)) \/ (\E k \in Key : ExpireInvite(k))
    BY <2>2, NoInviteWritten DEF Register, ExpireInvite, invites, history
  <2>3. CASE \E r \in Req, t \in InviteToken : AddMemberInvite(r, t)
    BY <2>3, AddMemberInviteAdmits
  <2>4. CASE \E r \in Req, u \in Email, k \in Key, t \in InviteToken : AcceptRead(r, u, k, t)
    BY <2>4, AcceptReadAdmits
  <2>5. CASE \E r \in Req : OtherStep(r)
    <3>1. PICK r \in Req : OtherStep(r)
      BY <2>5
    <3>2. CASE AcceptCommit(r)
      BY <3>2, AcceptCommitAdmits
    <3>3. CASE ~AcceptCommit(r)
      BY <3>1, <3>3, OtherStepHoldsNothing, NoInviteWritten DEF AdmitInv
    <3> QED BY <3>2, <3>3
  <2> QED BY <2>1, <2>2, <2>3, <2>4, <2>5, NextCases
<1> QED BY <1>1, <1>2, Invariance, PTL DEF Spec

\* Of any number of users, races and renewals, a link admits at most once for each
\* handler that can be at work at the same time.
THEOREM BoundedAdmission == IsFiniteSet(Req) /\ Spec => []OneAdmissionPerHandler
<1> SUFFICES ASSUME IsFiniteSet(Req) PROVE Spec => []OneAdmissionPerHandler
  OBVIOUS
<1>1. AdmitInv => OneAdmissionPerHandler
  <2> SUFFICES ASSUME AdmitInv, NEW t \in InviteToken
               PROVE  redeemed[t] <= Cardinality(Req)
    BY DEF OneAdmissionPerHandler
  <2> QED BY HoldingFinite DEF AdmitInv, OneAdmissionEach, IInv, TypeOK, HistoryOK
<1> QED BY <1>1, AdmitInvariance, PTL

\* What the race of invites_single_use_race breaks holds of a process that serves
\* one request at a time: a link admits once.
THEOREM SequentialAdmission == (\A r, s \in Req : r = s) /\ Spec => []InviteSingleUse
<1> SUFFICES ASSUME \A r, s \in Req : r = s PROVE Spec => []InviteSingleUse
  OBVIOUS
<1>1. IsFiniteSet(Req) /\ Cardinality(Req) \in Nat /\ Cardinality(Req) <= 1
  <2>1. CASE Req = {}
    BY <2>1, FS_EmptySet
  <2>2. CASE Req # {}
    <3>1. PICK r \in Req : Req = {r}
      BY <2>2
    <3>2. IsFiniteSet({r}) /\ Cardinality({r}) = 1
      BY FS_Singleton
    <3> QED BY <3>1, <3>2
  <2> QED BY <2>1, <2>2
<1>2. AdmitInv => InviteSingleUse
  <2> SUFFICES ASSUME AdmitInv, NEW t \in InviteToken PROVE redeemed[t] <= 1
    BY DEF InviteSingleUse
  <2> QED BY <1>1, HoldingFinite DEF AdmitInv, OneAdmissionEach, IInv, TypeOK, HistoryOK
<1> QED BY <1>1, <1>2, AdmitInvariance, PTL
=============================================================================
