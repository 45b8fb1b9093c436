--------------------------- MODULE ServicesProofs --------------------------
(***************************************************************************)
(* Attachments, billing, notifications and the seed script, for any keys,  *)
(* checkouts, jobs and toggles; and the components side by side.           *)
(***************************************************************************)
EXTENDS MCServices, RankUsesProofs

(* Attachments: rows have objects, and no order of successful requests     *)
(* leaves an object behind.                                                *)

\* An upload that is about to be confirmed has stored its object.
StoredBeforeConfirmed ==
  \A k \in Key : upload[k] \in {"put", "confirming"} => k \in objects

\* A removal has found a row, so the upload of its key is over and no later
\* insert brings the row back.
RemovedIsOver ==
  \A r \in Remover : removing[r] # Unused => upload[removing[r][1]] = "over"

\* Between the deletion of the row and that of the object there is no row.
DeletedIsDetached ==
  \A r \in Remover : removing[r][2] = "deleted" => removing[r][1] \notin attached

AttachmentsInv ==
  /\ AttachmentsTypeOK
  /\ StoredBeforeConfirmed
  /\ RemovedIsOver
  /\ DeletedIsDetached
  /\ RowsHaveObjects
  /\ OrphansAreExplained
  /\ OneRemovalWins

\* What a removal holds.
LEMMA RemovalHolds ==
  ASSUME AttachmentsTypeOK, NEW r \in Remover
  PROVE  \/ removing[r] = Unused /\ removing[r][2] = "found"
         \/ /\ removing[r] # Unused
            /\ removing[r][1] \in Key
            /\ removing[r] = <<removing[r][1], "found">> \/ removing[r] = <<removing[r][1], "deleted">>
BY AttachmentsAssumption DEF AttachmentsTypeOK, Unused

\* Uploads move through their stages and nothing is removed.
LEMMA UploadStep ==
  ASSUME AttachmentsInv, NEW k \in Key,
         Presign(k) \/ Put(k) \/ Confirm(k) \/ ConfirmInsert(k) \/ UploadAbandoned(k)
  PROVE  AttachmentsInv'
<1>1. /\ UNCHANGED <<issues, removing, listed>>
      /\ \A j \in Key \ {k} : upload'[j] = upload[j]
      /\ upload' \in [Key -> Stages]
      /\ upload[k] # "over"
  BY DEF AttachmentsInv, AttachmentsTypeOK, Stages, Presign, Put, Confirm, ConfirmInsert, UploadAbandoned, Advance
<1>2. k \notin attached /\ \A r \in Remover : removing[r] # Unused => removing[r][1] # k
  BY <1>1 DEF AttachmentsInv, AttachmentsTypeOK, RemovedIsOver
<1>3. /\ attached \subseteq attached' /\ attached' \subseteq attached \cup {k}
      /\ objects \subseteq objects' /\ objects' \subseteq objects \cup {k}
      /\ orphaned \subseteq orphaned' /\ orphaned' \subseteq orphaned \cup {k}
  BY DEF Presign, Put, Confirm, ConfirmInsert, UploadAbandoned, Advance
<1>4. /\ k \in attached' => upload'[k] = "over" /\ IssueOf[k] \in issues /\ k \in objects'
      /\ upload'[k] \in {"put", "confirming"} => k \in objects'
      /\ k \in objects' => k \in attached' \cup orphaned' \/ upload'[k] \in {"put", "confirming"}
  <2>1. k \in objects /\ k \notin orphaned => upload[k] \in {"put", "confirming"}
    BY <1>2, RemovalHolds DEF AttachmentsInv, OrphansAreExplained, Unused
  <2>2. upload[k] \in {"put", "confirming"} => k \in objects
    BY DEF AttachmentsInv, StoredBeforeConfirmed
  <2>3. upload \in [Key -> Stages]
    BY DEF AttachmentsInv, AttachmentsTypeOK
  <2> QED
    BY <1>2, <2>1, <2>2, <2>3 DEF Presign, Put, Confirm, ConfirmInsert, UploadAbandoned, Advance
<1>5. AttachmentsTypeOK'
  BY <1>1, <1>3, <1>4 DEF AttachmentsInv, AttachmentsTypeOK
<1>6. StoredBeforeConfirmed' /\ RemovedIsOver' /\ RowsHaveObjects'
  BY <1>1, <1>2, <1>3, <1>4, RemovalHolds
  DEF AttachmentsInv, AttachmentsTypeOK, StoredBeforeConfirmed, RemovedIsOver, RowsHaveObjects, Unused
<1>7. DeletedIsDetached'
  BY <1>1, <1>2, <1>3, RemovalHolds DEF AttachmentsInv, DeletedIsDetached
<1>8. OneRemovalWins'
  BY <1>1 DEF AttachmentsInv, OneRemovalWins, Unused
<1>9. OrphansAreExplained'
  BY <1>1, <1>3, <1>4 DEF AttachmentsInv, AttachmentsTypeOK, OrphansAreExplained
<1> QED BY <1>5, <1>6, <1>7, <1>8, <1>9 DEF AttachmentsInv

\* A removal starts: it has found a row, whose upload is over.
LEMMA RemoveFindStep ==
  ASSUME AttachmentsInv, NEW r \in Remover, NEW k \in Key, RemoveFind(r, k)
  PROVE  AttachmentsInv'
<1>1. /\ UNCHANGED <<issues, attached, objects, upload, listed, orphaned>>
      /\ k \in attached
      /\ \A s \in Remover : removing'[s] = IF s = r THEN <<k, "found">> ELSE removing[s]
      /\ removing[r] = Unused
  BY DEF RemoveFind, AttachmentsInv, AttachmentsTypeOK
<1>2. removing' \in [Remover -> (Key \X {"found", "deleted"}) \cup {Unused}]
  BY <1>1 DEF RemoveFind, AttachmentsInv, AttachmentsTypeOK, Unused
<1>3. AttachmentsTypeOK'
  BY <1>1, <1>2 DEF AttachmentsInv, AttachmentsTypeOK, Unused
<1>4. RemovedIsOver'
  BY <1>1 DEF AttachmentsInv, AttachmentsTypeOK, RemovedIsOver, Unused
<1>5. StoredBeforeConfirmed' /\ RowsHaveObjects' /\ DeletedIsDetached'
  BY <1>1 DEF AttachmentsInv, StoredBeforeConfirmed, RowsHaveObjects, DeletedIsDetached
<1>6. OneRemovalWins'
  <2> SUFFICES ASSUME NEW s \in Remover, NEW t \in Remover,
                      removing'[s] # Unused, removing'[s][2] = "deleted", removing'[t] = removing'[s]
               PROVE  s = t
    BY DEF OneRemovalWins, Unused
  <2>1. s # r /\ t # r
    BY <1>1
  <2> QED BY <1>1, <2>1 DEF AttachmentsInv, OneRemovalWins
<1>7. OrphansAreExplained'
  <2> SUFFICES ASSUME NEW j \in objects'
               PROVE  \/ j \in attached \cup orphaned
                      \/ upload[j] \in {"put", "confirming"}
                      \/ \E s \in Remover : removing'[s] = <<j, "deleted">>
    BY <1>1 DEF OrphansAreExplained
  <2>1. CASE \E s \in Remover : removing[s] = <<j, "deleted">>
    <3>1. PICK s \in Remover : removing[s] = <<j, "deleted">>
      BY <2>1
    <3>2. s # r
      BY <1>1, <3>1 DEF Unused
    <3> QED BY <1>1, <3>1, <3>2
  <2> QED BY <1>1, <2>1 DEF AttachmentsInv, OrphansAreExplained
<1> QED BY <1>3, <1>4, <1>5, <1>6, <1>7 DEF AttachmentsInv

\* The row goes; one removal at most sees it go.
LEMMA RemoveRowStep ==
  ASSUME AttachmentsInv, NEW r \in Remover, RemoveRow(r)
  PROVE  AttachmentsInv'
<1> DEFINE k == removing[r][1]
<1>1. /\ UNCHANGED <<issues, objects, upload, listed, orphaned>>
      /\ k \in Key /\ removing[r] = <<k, "found">> /\ removing[r] # Unused
      /\ attached' = attached \ {k}
      /\ upload[k] = "over"
  BY RemovalHolds DEF RemoveRow, AttachmentsInv, RemovedIsOver
<1>2. /\ \A s \in Remover : s # r => removing'[s] = removing[s]
      /\ k \in attached => removing'[r] = <<k, "deleted">>
      /\ k \notin attached => removing'[r] = Unused
      /\ removing' \in [Remover -> (Key \X {"found", "deleted"}) \cup {Unused}]
  BY <1>1 DEF RemoveRow, AttachmentsInv, AttachmentsTypeOK, Unused
<1>3. AttachmentsTypeOK'
  BY <1>1, <1>2 DEF AttachmentsInv, AttachmentsTypeOK, Unused
<1>4. RemovedIsOver' /\ DeletedIsDetached'
  BY <1>1, <1>2 DEF AttachmentsInv, RemovedIsOver, DeletedIsDetached, Unused
<1>5. StoredBeforeConfirmed' /\ RowsHaveObjects'
  BY <1>1 DEF AttachmentsInv, StoredBeforeConfirmed, RowsHaveObjects
<1>6. OneRemovalWins'
  <2> SUFFICES ASSUME NEW s \in Remover, NEW t \in Remover,
                      removing'[s] # Unused, removing'[s][2] = "deleted", removing'[t] = removing'[s]
               PROVE  s = t
    BY DEF OneRemovalWins, Unused
  <2>1. \A q \in Remover : q # r => removing[q] # <<k, "deleted">> \/ k \notin attached
    BY DEF AttachmentsInv, DeletedIsDetached
  <2>2. CASE s = r \/ t = r
    BY <1>2, <2>1, <2>2 DEF Unused
  <2>3. CASE s # r /\ t # r
    BY <1>2, <2>3 DEF AttachmentsInv, OneRemovalWins
  <2> QED BY <2>2, <2>3
<1>7. OrphansAreExplained'
  <2> SUFFICES ASSUME NEW j \in objects
               PROVE  \/ j \in attached' \cup orphaned
                      \/ upload[j] \in {"put", "confirming"}
                      \/ \E s \in Remover : removing'[s] = <<j, "deleted">>
    BY <1>1 DEF OrphansAreExplained
  <2>1. CASE j = k /\ j \in attached
    BY <1>2, <2>1
  <2>2. CASE \E s \in Remover : removing[s] = <<j, "deleted">>
    BY <1>1, <1>2, <2>2
  <2> QED BY <1>1, <2>1, <2>2 DEF AttachmentsInv, OrphansAreExplained
<1> QED BY <1>3, <1>4, <1>5, <1>6, <1>7 DEF AttachmentsInv

\* A removal ends: with its object deleted, or with a failure that is recorded
\* if the row is gone already.
LEMMA RemovalEnds ==
  ASSUME AttachmentsInv, NEW r \in Remover, RemoveObject(r) \/ RemoveFails(r)
  PROVE  AttachmentsInv'
<1> DEFINE k == removing[r][1]
<1>1. /\ UNCHANGED <<issues, attached, upload, listed>>
      /\ k \in Key
      /\ removing' = [removing EXCEPT ![r] = Unused]
      /\ \A s \in Remover : removing'[s] = IF s = r THEN Unused ELSE removing[s]
  BY RemovalHolds DEF RemoveObject, RemoveFails, AttachmentsInv, AttachmentsTypeOK
<1>2. \/ removing[r][2] = "deleted" /\ objects' = objects \ {k} /\ orphaned' = orphaned
      \/ removing[r][2] = "deleted" /\ orphaned' = orphaned \cup {k} /\ objects' = objects
      \/ removing[r] = <<k, "found">> /\ orphaned' = orphaned /\ objects' = objects
  BY RemovalHolds DEF RemoveObject, RemoveFails, AttachmentsInv
<1>3. removing' \in [Remover -> (Key \X {"found", "deleted"}) \cup {Unused}]
  BY <1>1 DEF AttachmentsInv, AttachmentsTypeOK, Unused
<1>4. AttachmentsTypeOK'
  BY <1>1, <1>2, <1>3 DEF AttachmentsInv, AttachmentsTypeOK, Unused
<1>5. RemovedIsOver' /\ DeletedIsDetached'
  BY <1>1 DEF AttachmentsInv, RemovedIsOver, DeletedIsDetached, Unused
<1>6. RowsHaveObjects'
  BY <1>1, <1>2 DEF AttachmentsInv, RowsHaveObjects, DeletedIsDetached
<1>7. StoredBeforeConfirmed'
  <2>1. removing[r][2] = "deleted" => upload[k] = "over"
    BY RemovalHolds DEF AttachmentsInv, RemovedIsOver
  <2> QED BY <1>1, <1>2, <2>1 DEF AttachmentsInv, StoredBeforeConfirmed
<1>8. OneRemovalWins'
  BY <1>1 DEF AttachmentsInv, OneRemovalWins, Unused
<1>9. OrphansAreExplained'
  <2> SUFFICES ASSUME NEW j \in objects'
               PROVE  \/ j \in attached \cup orphaned'
                      \/ upload[j] \in {"put", "confirming"}
                      \/ \E s \in Remover : removing'[s] = <<j, "deleted">>
    BY <1>1 DEF OrphansAreExplained
  <2>1. j \in objects
    BY <1>2
  <2>2. CASE \E s \in Remover : removing[s] = <<j, "deleted">>
    <3>1. PICK s \in Remover : removing[s] = <<j, "deleted">>
      BY <2>2
    <3>2. CASE s = r
      BY <1>2, <3>1, <3>2
    <3>3. CASE s # r
      BY <1>1, <3>1, <3>3
    <3> QED BY <3>2, <3>3
  <2> QED BY <1>2, <2>1, <2>2 DEF AttachmentsInv, OrphansAreExplained
<1> QED BY <1>4, <1>5, <1>6, <1>7, <1>8, <1>9 DEF AttachmentsInv

\* Issues come and go; the rows of a deleted one go with it and leave objects.
LEMMA IssueStep ==
  ASSUME AttachmentsInv, NEW i \in File, ListFiles(i) \/ DeleteIssue(i)
  PROVE  AttachmentsInv'
<1>1. /\ UNCHANGED <<objects, upload, removing>>
      /\ attached' \subseteq attached
      /\ issues' \subseteq issues
      /\ listed' \subseteq Key
      /\ orphaned \subseteq orphaned' /\ orphaned' \subseteq Key
      /\ attached \subseteq attached' \cup orphaned'
      /\ \A k \in attached' : IssueOf[k] \in issues'
  BY DEF ListFiles, DeleteIssue, AttachmentsInv, AttachmentsTypeOK
<1>2. AttachmentsTypeOK'
  BY <1>1 DEF AttachmentsInv, AttachmentsTypeOK
<1>3. StoredBeforeConfirmed' /\ RemovedIsOver' /\ DeletedIsDetached' /\ RowsHaveObjects'
  BY <1>1 DEF AttachmentsInv, StoredBeforeConfirmed, RemovedIsOver, DeletedIsDetached, RowsHaveObjects, Unused
<1>4. OrphansAreExplained'
  BY <1>1 DEF AttachmentsInv, OrphansAreExplained
<1>5. OneRemovalWins'
  BY <1>1 DEF AttachmentsInv, OneRemovalWins, Unused
<1> QED BY <1>2, <1>3, <1>4, <1>5 DEF AttachmentsInv

LEMMA AttachmentsInitHolds == AttachmentsInit => AttachmentsInv
BY DEF AttachmentsInit, AttachmentsInv, AttachmentsTypeOK, Stages, StoredBeforeConfirmed, RemovedIsOver,
       DeletedIsDetached, RowsHaveObjects, OrphansAreExplained, OneRemovalWins, Unused

\* Each step of an upload, of a removal or of an issue keeps the invariant.
LEMMA AttachmentsStepPreserves == AttachmentsInv /\ [AttachmentsNext]_attachmentVars => AttachmentsInv'
<1> SUFFICES ASSUME AttachmentsInv, [AttachmentsNext]_attachmentVars
             PROVE  AttachmentsInv'
  OBVIOUS
<1>1. ASSUME NEW k \in Key, Presign(k) \/ Put(k) \/ Confirm(k) \/ ConfirmInsert(k) \/ UploadAbandoned(k)
      PROVE  AttachmentsInv'
  BY <1>1, UploadStep
<1>2. ASSUME NEW i \in File, ListFiles(i) \/ DeleteIssue(i)
      PROVE  AttachmentsInv'
  BY <1>2, IssueStep
<1>3. ASSUME NEW r \in Remover, RemoveRow(r)
      PROVE  AttachmentsInv'
  BY <1>3, RemoveRowStep
<1>4. ASSUME NEW r \in Remover, RemoveObject(r) \/ RemoveFails(r)
      PROVE  AttachmentsInv'
  BY <1>4, RemovalEnds
<1>5. ASSUME NEW r \in Remover, NEW k \in Key, RemoveFind(r, k)
      PROVE  AttachmentsInv'
  BY <1>5, RemoveFindStep
<1>6. CASE UNCHANGED attachmentVars
  <2>1. UNCHANGED <<issues, attached, objects, upload, removing, listed, orphaned>>
    BY <1>6 DEF attachmentVars
  <2> QED BY <2>1 DEF AttachmentsInv, AttachmentsTypeOK, StoredBeforeConfirmed, RemovedIsOver,
       DeletedIsDetached, RowsHaveObjects, OrphansAreExplained, OneRemovalWins, Unused
<1> QED BY <1>1, <1>2, <1>3, <1>4, <1>5, <1>6 DEF AttachmentsNext

LEMMA AttachmentsInvariance == AttachmentsSpec => []AttachmentsInv
BY AttachmentsInitHolds, AttachmentsStepPreserves, PTL DEF AttachmentsSpec

\* The type invariant holds.
THEOREM AttachmentsTypeCorrect == AttachmentsSpec => []AttachmentsTypeOK
<1>1. AttachmentsInv => AttachmentsTypeOK
  BY DEF AttachmentsInv
<1> QED BY <1>1, AttachmentsInvariance, PTL

\* confirm inserts the row after the upload, and a removal deletes the object
\* after the row: what the database lists can be downloaded.
THEOREM Downloadable == AttachmentsSpec => []RowsHaveObjects
<1>1. AttachmentsInv => RowsHaveObjects
  BY DEF AttachmentsInv
<1> QED BY <1>1, AttachmentsInvariance, PTL

\* Only failures, closed tabs and deleted issues leave objects behind.
THEOREM NothingLeaks == AttachmentsSpec => []OrphansAreExplained
<1>1. AttachmentsInv => OrphansAreExplained
  BY DEF AttachmentsInv
<1> QED BY <1>1, AttachmentsInvariance, PTL

\* Of the removals of one attachment one at most deletes its object.
THEOREM RemovedOnce == AttachmentsSpec => []OneRemovalWins
<1>1. AttachmentsInv => OneRemovalWins
  BY DEF AttachmentsInv
<1> QED BY <1>1, AttachmentsInvariance, PTL

----------------------------------------------------------------------------
(* Billing.                                                                *)

\* A checkout that is about to save or to open a session has a customer.
CustomerInHand ==
  \A c \in Checkout : step[c] \in {"save", "session"} => found[c] # Nothing

\* Events are numbered from one without gaps, and a subscription is as its newest
\* event says.
EventsNumbered ==
  /\ IsFiniteSet(events)
  /\ \A e \in events : e.n <= Cardinality(events)
  /\ \A e, f \in events : e.n = f.n => e = f
  /\ subs # <<>> => \E e \in events : e.n = Cardinality(events)
  /\ \A e \in events : e.n = Cardinality(events) =>
       e.id \in DOMAIN subs /\ subs[e.id] = e.sub

\* Checkouts in turn: one at a time is on its way to a customer, it finds none
\* and the row has none; what there is at Stripe belongs to the row's customer.
InTurn ==
  careless \cap {"overlap", "failed"} = {} =>
    /\ "customer" \notin careless
    /\ \A c, d \in Checkout : step[c] \in {"create", "save"} /\ step[d] \in {"create", "save"} => c = d
    /\ \A c \in Checkout :
         /\ step[c] \in {"create", "save"} => row.customer = Nothing
         /\ step[c] = "create" => customers = {}
         /\ step[c] = "session" => found[c] = row.customer
    /\ \A k \in customers : k = row.customer \/ \E c \in Checkout : step[c] = "save" /\ found[c] = k
    /\ \A s \in sessions : s[1] = row.customer
    /\ \A i \in DOMAIN subs : subs[i].customer = row.customer
    /\ \A e \in events : e.sub.customer = row.customer

\* Without a second subscription all events are of one; without a customer that
\* was overwritten, an event that is not due any more was written, or a newer one;
\* and the row shows the newest one written, unless an older one came after it.
WrittenInOrder ==
  /\ "second" \notin careless => \A i, j \in DOMAIN subs : i = j
  /\ "customer" \notin careless => \A e \in events \ due : e.n <= applied
  /\ "order" \notin careless /\ applied # 0 =>
       \E e \in events : e.n = applied /\ row = Reconciled(row, e.id, e.sub)
  /\ applied # 0 => \E e \in events : e.n = applied

BillingInv ==
  /\ BillingTypeOK
  /\ CustomerInHand
  /\ EventsNumbered
  /\ RowIsOneEvent
  /\ InTurn
  /\ WrittenInOrder

\* What the update writes, and when a row shows an event.
LEMMA ReconciledRow ==
  ASSUME NEW r \in Row, NEW id \in Subscription, NEW sub \in StripeSub
  PROVE  /\ Reconciled(r, id, sub) \in Row
         /\ Reconciled(r, id, sub).customer = r.customer
         /\ \A q \in Row : q.sub = r.sub /\ q.plan = r.plan /\ q.status = r.status =>
              (r = Reconciled(r, id, sub) <=> q = Reconciled(q, id, sub))
         /\ Reconciled(r, id, sub) = Reconciled(Reconciled(r, id, sub), id, sub)
<1> DEFINE plan == IF sub.status = "canceled" THEN "FREE" ELSE sub.plan
           stat == StatusOf(sub.status)
<1>1. plan \in Plan \cup {"FREE"} /\ stat \in Status
  BY DEF StripeSub, StatusOf, Status, StripeStatus
<1>2. \A q \in Row : /\ Reconciled(q, id, sub) \in Row
                     /\ Reconciled(q, id, sub).customer = q.customer
                     /\ Reconciled(q, id, sub).sub = id
                     /\ Reconciled(q, id, sub).plan = plan
                     /\ Reconciled(q, id, sub).status = stat
  BY <1>1 DEF Row, Reconciled
<1>3. \A q \in Row : q = Reconciled(q, id, sub) <=> q.sub = id /\ q.plan = plan /\ q.status = stat
  <2> HIDE DEF plan, stat
  <2> SUFFICES ASSUME NEW q \in Row, q.sub = id, q.plan = plan, q.status = stat
               PROVE  q = Reconciled(q, id, sub)
    BY <1>2
  <2>1. \A x, y \in Row : x.customer = y.customer /\ x.sub = y.sub /\ x.plan = y.plan /\ x.status = y.status => x = y
    BY DEF Row
  <2> QED BY <1>2, <2>1
<1> HIDE DEF plan, stat
<1> QED BY <1>2, <1>3

\* Stripe's subscriptions, by id.
LEMMA SubsTyped ==
  ASSUME BillingTypeOK
  PROVE  /\ DOMAIN subs \in SUBSET Subscription
         /\ subs \in [DOMAIN subs -> StripeSub]
         /\ \A e \in events : /\ e.n \in 1..MaxEvents /\ e.id \in Subscription
                              /\ e.sub \in StripeSub /\ e.sub.customer \in Customer
         /\ \A i \in DOMAIN subs : subs[i] \in StripeSub /\ subs[i].customer \in Customer
BY DEF BillingTypeOK, Notice, StripeSub

\* The customer of the row, and what the checkouts have, are not what the events
\* are compared with.
LEMMA EventsKept ==
  ASSUME BillingInv, UNCHANGED <<stripe, applied>>, careless \subseteq careless',
         row' \in Row, row'.sub = row.sub, row'.plan = row.plan, row'.status = row.status
  PROVE  EventsNumbered' /\ RowIsOneEvent' /\ WrittenInOrder'
<1>1. subs' = subs /\ events' = events /\ due' = due /\ applied' = applied
  BY DEF stripe
<1>2. \A e \in events : row = Reconciled(row, e.id, e.sub) => row' = Reconciled(row', e.id, e.sub)
  <2> SUFFICES ASSUME NEW e \in events, row = Reconciled(row, e.id, e.sub)
               PROVE  row' = Reconciled(row', e.id, e.sub)
    OBVIOUS
  <2>1. row \in Row /\ e.id \in Subscription /\ e.sub \in StripeSub
    BY SubsTyped DEF BillingInv, BillingTypeOK
  <2> QED BY <2>1, ReconciledRow
<1>3. EventsNumbered'
  BY <1>1 DEF BillingInv, EventsNumbered
<1>4. RowIsOneEvent'
  BY <1>1, <1>2 DEF BillingInv, RowIsOneEvent
<1>5. WrittenInOrder'
  BY <1>1, <1>2 DEF BillingInv, WrittenInOrder
<1> QED BY <1>3, <1>4, <1>5

\* The requests of createCheckout.
LEMMA CheckoutTyped ==
  ASSUME BillingInv, NEW c \in Checkout,
         \/ ReadOrg(c) \/ SaveCustomer(c) \/ CreateSession(c) \/ CheckoutFails(c)
         \/ \E id \in Customer : CreateCustomer(c, id)
  PROVE  /\ BillingTypeOK' /\ CustomerInHand'
         /\ UNCHANGED <<stripe, applying, applied>>
         /\ careless \subseteq careless'
         /\ row' \in Row /\ row'.sub = row.sub /\ row'.plan = row.plan /\ row'.status = row.status
<1> USE DEF At
<1>1. UNCHANGED <<stripe, applying, applied>> /\ careless \subseteq careless'
  BY DEF ReadOrg, SaveCustomer, CreateSession, CheckoutFails, CreateCustomer
<1>2. /\ found[c] \in customers \cup {Nothing} /\ row \in Row
      /\ step \in [Checkout -> {"new", "create", "save", "session", "done"}]
      /\ found \in [Checkout -> customers \cup {Nothing}]
      /\ row.customer \in customers \cup {Nothing}
      /\ customers \subseteq Customer
  BY DEF BillingInv, BillingTypeOK
<1>3. row' \in Row /\ row'.sub = row.sub /\ row'.plan = row.plan /\ row'.status = row.status
  <2>1. CASE SaveCustomer(c)
    BY <1>2, <2>1 DEF SaveCustomer, Row
  <2> QED BY <1>2, <2>1 DEF ReadOrg, CreateSession, CheckoutFails, CreateCustomer
<1>4. step' \in [Checkout -> {"new", "create", "save", "session", "done"}]
  BY <1>2 DEF ReadOrg, SaveCustomer, CreateSession, CheckoutFails, CreateCustomer
<1>5. /\ customers \subseteq customers' /\ customers' \subseteq Customer
      /\ found' \in [Checkout -> customers' \cup {Nothing}]
  BY <1>2 DEF ReadOrg, SaveCustomer, CreateSession, CheckoutFails, CreateCustomer
<1>6. row'.customer \in customers' \cup {Nothing}
  <2>1. CASE SaveCustomer(c)
    BY <1>2, <2>1 DEF SaveCustomer, Row
  <2> QED BY <1>2, <1>5, <2>1 DEF ReadOrg, CreateSession, CheckoutFails, CreateCustomer
<1>7. sessions' \subseteq customers' \X Plan
  <2>1. CASE CreateSession(c)
    <3>1. found[c] \in customers
      BY <1>2, <2>1 DEF CreateSession, BillingInv, CustomerInHand
    <3> QED BY <1>5, <2>1, <3>1 DEF CreateSession, BillingInv, BillingTypeOK
  <2> QED BY <1>5, <2>1 DEF ReadOrg, SaveCustomer, CheckoutFails, CreateCustomer, BillingInv, BillingTypeOK
<1>8. careless' \subseteq {"overlap", "failed", "customer", "second", "order"}
  BY DEF ReadOrg, SaveCustomer, CreateSession, CheckoutFails, CreateCustomer, BillingInv, BillingTypeOK
<1>9. BillingTypeOK'
  BY <1>1, <1>3, <1>4, <1>5, <1>6, <1>7, <1>8 DEF BillingInv, BillingTypeOK, stripe
<1>10. CustomerInHand'
  BY <1>2, <1>4, <1>5, BillingAssumption
  DEF BillingInv, CustomerInHand, ReadOrg, SaveCustomer, CreateSession, CheckoutFails, CreateCustomer
<1> QED BY <1>1, <1>3, <1>9, <1>10

\* The steps of a checkout: the customer in hand, once found or made, stays.
LEMMA CheckoutStep ==
  ASSUME BillingInv, NEW c \in Checkout,
         \/ ReadOrg(c) \/ SaveCustomer(c) \/ CreateSession(c) \/ CheckoutFails(c)
         \/ \E id \in Customer : CreateCustomer(c, id)
  PROVE  BillingInv'
<1>1. /\ BillingTypeOK' /\ CustomerInHand'
      /\ UNCHANGED <<stripe, applying, applied>>
      /\ careless \subseteq careless'
      /\ row' \in Row /\ row'.sub = row.sub /\ row'.plan = row.plan /\ row'.status = row.status
  BY CheckoutTyped
<1>2. EventsNumbered' /\ RowIsOneEvent' /\ WrittenInOrder'
  BY <1>1, EventsKept
<1>3. InTurn'
  <2> SUFFICES ASSUME careless' \cap {"overlap", "failed"} = {}
               PROVE  InTurn'
    BY DEF InTurn
  <2>1. careless \cap {"overlap", "failed"} = {}
    BY <1>1
  <2>2. /\ step \in [Checkout -> {"new", "create", "save", "session", "done"}]
        /\ found \in [Checkout -> customers \cup {Nothing}]
        /\ customers \subseteq Customer
        /\ row \in Row
    BY DEF BillingInv, BillingTypeOK
  <2>3. InTurn
    BY DEF BillingInv
  <2>4. subs' = subs /\ events' = events
    BY <1>1 DEF stripe
  <2>5. CASE ReadOrg(c)
    <3>1. /\ row' = row /\ customers' = customers /\ sessions' = sessions
          /\ step[c] = "new"
          /\ \A d \in Checkout : step'[d] = IF d = c THEN IF row.customer = Nothing THEN "create" ELSE "session" ELSE step[d]
          /\ \A d \in Checkout : found'[d] = IF d = c THEN row.customer ELSE found[d]
          /\ \A d \in Checkout : step[d] \notin {"create", "save"}
          /\ careless' = careless
      BY <2>1, <2>2, <2>5 DEF ReadOrg, At
    <3>2. row.customer = Nothing => customers = {}
      BY <2>1, <2>2, <2>3, <3>1, BillingAssumption DEF InTurn
    <3> QED BY <2>1, <2>2, <2>3, <2>4, <3>1, <3>2 DEF InTurn
  <2>6. CASE SaveCustomer(c)
    <3>1. /\ row' = [row EXCEPT !.customer = found[c]]
          /\ customers' = customers /\ sessions' = sessions /\ found' = found
          /\ step[c] = "save"
          /\ \A d \in Checkout : step'[d] = IF d = c THEN "session" ELSE step[d]
          /\ row.customer = Nothing => careless' = careless
      BY <2>2, <2>6 DEF SaveCustomer, At
    <3>2. row'.customer = found[c]
      BY <2>2, <3>1 DEF Row
    <3>3. row.customer = Nothing /\ careless' = careless
      BY <2>1, <2>3, <3>1 DEF InTurn
    <3>4. /\ \A d \in Checkout : step[d] # "create" /\ step[d] # "session"
          /\ \A d \in Checkout : step[d] = "save" => d = c
      BY <2>1, <2>2, <2>3, <3>1, <3>3, BillingAssumption DEF InTurn, BillingInv, CustomerInHand
    <3>5. /\ \A k \in customers : k = found[c]
          /\ sessions = {} /\ DOMAIN subs = {} /\ events = {}
      <4>1. \A s \in sessions : s[1] \in Customer
        BY DEF BillingInv, BillingTypeOK
      <4>2. \A i \in DOMAIN subs : subs[i].customer \in Customer
        BY SubsTyped DEF BillingInv
      <4>3. \A e \in events : e.sub.customer \in Customer
        BY SubsTyped DEF BillingInv
      <4>4. Nothing \notin Customer
        BY BillingAssumption
      <4>5. \A k \in customers : k = found[c]
        BY <2>1, <2>2, <2>3, <3>3, <3>4, <4>4 DEF InTurn
      <4>6. sessions = {}
        BY <2>1, <2>3, <3>3, <4>1, <4>4 DEF InTurn
      <4>7. DOMAIN subs = {}
        BY <2>1, <2>3, <3>3, <4>2, <4>4 DEF InTurn
      <4>8. events = {}
        BY <2>1, <2>3, <3>3, <4>3, <4>4 DEF InTurn
      <4> QED BY <4>5, <4>6, <4>7, <4>8
    <3> QED BY <2>1, <2>2, <2>3, <2>4, <3>1, <3>2, <3>3, <3>4, <3>5 DEF InTurn
  <2>7. CASE CreateSession(c)
    <3>1. /\ row' = row /\ customers' = customers /\ found' = found /\ careless' = careless
          /\ step[c] = "session"
          /\ \A d \in Checkout : step'[d] = IF d = c THEN "done" ELSE step[d]
          /\ \E p \in Plan : sessions' = sessions \cup {<<found[c], p>>}
      BY <2>2, <2>7 DEF CreateSession, At
    <3> QED BY <2>1, <2>2, <2>3, <2>4, <3>1 DEF InTurn
  <2>8. CASE CheckoutFails(c)
    BY <2>8 DEF CheckoutFails
  <2>9. CASE \E id \in Customer : CreateCustomer(c, id)
    <3>1. PICK id \in Customer : CreateCustomer(c, id)
      BY <2>9
    <3>2. /\ row' = row /\ sessions' = sessions /\ careless' = careless
          /\ step[c] = "create" /\ customers' = customers \cup {id}
          /\ \A d \in Checkout : step'[d] = IF d = c THEN "save" ELSE step[d]
          /\ \A d \in Checkout : found'[d] = IF d = c THEN id ELSE found[d]
      BY <2>2, <3>1 DEF CreateCustomer, At
    <3>3. customers = {}
      BY <2>1, <2>3, <3>2 DEF InTurn
    <3> QED BY <2>1, <2>2, <2>3, <2>4, <3>2, <3>3 DEF InTurn
  <2> QED BY <2>5, <2>6, <2>7, <2>8, <2>9
<1> QED BY <1>1, <1>2, <1>3 DEF BillingInv

\* What changes at Stripe when something happens: one event more, to be delivered.
Happened(id, sub) ==
  /\ EventsNumbered'
  /\ DOMAIN subs' = DOMAIN subs \cup {id}
  /\ \A i \in DOMAIN subs' : subs'[i] = IF i = id THEN sub ELSE subs[i]
  /\ subs' \in [DOMAIN subs \cup {id} -> StripeSub]
  /\ events' \subseteq Notice /\ due' \subseteq events' /\ due \subseteq due'
  /\ events \subseteq events'
  /\ \E new \in due' : /\ events' = events \cup {new} /\ due' = due \cup {new}
                      /\ new.id = id /\ new.sub = sub

\* Something happens at Stripe: the newest event has the next number.
LEMMA HappensStep ==
  ASSUME BillingInv, NEW id \in Subscription, NEW sub \in StripeSub, Happens(id, sub)
  PROVE  Happened(id, sub)
<1> DEFINE new == [n |-> Cardinality(events) + 1, id |-> id, sub |-> sub]
<1>1. /\ Cardinality(events) < MaxEvents
      /\ subs' = [i \in DOMAIN subs \cup {id} |-> IF i = id THEN sub ELSE subs[i]]
      /\ events' = events \cup {new} /\ due' = due \cup {new}
  BY DEF Happens
<1>2. IsFiniteSet(events) /\ Cardinality(events) \in Nat
  BY FS_CardinalityType DEF BillingInv, EventsNumbered
<1>3. new.n = Cardinality(events) + 1 /\ new.id = id /\ new.sub = sub
  OBVIOUS
<1>4. new \in Notice
  BY <1>1, <1>2, BillingAssumption DEF Notice
<1>5. \A e \in events : e.n \in Nat /\ e.n # new.n
  BY <1>2, <1>3, SubsTyped DEF BillingInv, EventsNumbered
<1>6. events \subseteq Notice /\ due \subseteq events /\ subs \in [DOMAIN subs -> StripeSub]
  BY SubsTyped DEF BillingInv, BillingTypeOK
<1> HIDE DEF new
<1>7. /\ IsFiniteSet(events') /\ Cardinality(events') = Cardinality(events) + 1
  BY <1>1, <1>2, <1>5, FS_AddElement
<1>8. /\ \A e \in events' : e.n <= Cardinality(events')
      /\ \A e, f \in events' : e.n = f.n => e = f
      /\ \A e \in events' : e.n = Cardinality(events') => e = new
  <2>1. \A e \in events : e.n \in Nat /\ e.n <= Cardinality(events)
    BY <1>5 DEF BillingInv, EventsNumbered
  <2>2. \A e, f \in events : e.n = f.n => e = f
    BY DEF BillingInv, EventsNumbered
  <2>3. \A e \in events' : e \in events \/ e = new
    BY <1>1
  <2>4. \A e \in events' : e.n <= Cardinality(events')
    BY <1>2, <1>3, <1>7, <2>1, <2>3
  <2>5. \A e, f \in events' : e.n = f.n => e = f
    BY <1>5, <2>2, <2>3
  <2>6. \A e \in events' : e.n = Cardinality(events') => e = new
    BY <1>2, <1>3, <1>7, <2>1, <2>3
  <2> QED BY <2>4, <2>5, <2>6
<1>9. id \in DOMAIN subs' /\ subs'[id] = sub
  BY <1>1
<1>10. EventsNumbered'
  BY <1>1, <1>3, <1>7, <1>8, <1>9 DEF EventsNumbered
<1>11. subs' \in [DOMAIN subs \cup {id} -> StripeSub]
  BY <1>1, <1>6
<1>12. \A i \in DOMAIN subs' : subs'[i] = IF i = id THEN sub ELSE subs[i]
  BY <1>1
<1> QED BY <1>1, <1>3, <1>4, <1>6, <1>10, <1>11, <1>12 DEF Happened

\* The row, the checkouts and the events written stand still meanwhile.
LEMMA StripeStep ==
  ASSUME BillingInv, NEW id \in Subscription,
         Progress(id) \/ \E s \in sessions : Pay(id, s)
  PROVE  BillingInv'
<1>1. PICK sub \in StripeSub :
        /\ Happens(id, sub)
        /\ \/ id \in DOMAIN subs /\ sub.customer = subs[id].customer /\ careless' = careless
           \/ /\ id \notin DOMAIN subs /\ \E s \in sessions : sub.customer = s[1]
              /\ careless' = IF subs = <<>> THEN careless ELSE careless \cup {"second"}
  <2>1. CASE Progress(id)
    <3>1. id \in DOMAIN subs /\ subs[id] \in StripeSub /\ careless' = careless
      BY <2>1, SubsTyped DEF Progress, BillingInv
    <3>2. PICK st \in StripeStatus, p \in Plan : Happens(id, [subs[id] EXCEPT !.status = st, !.plan = p])
      BY <2>1 DEF Progress
    <3> DEFINE sub == [subs[id] EXCEPT !.status = st, !.plan = p]
    <3>3. sub \in StripeSub /\ sub.customer = subs[id].customer
      BY <3>1 DEF StripeSub
    <3> QED BY <3>1, <3>2, <3>3
  <2>2. CASE \E s \in sessions : Pay(id, s)
    <3>1. PICK s \in sessions : Pay(id, s)
      BY <2>2
    <3>2. s[1] \in Customer /\ s[2] \in Plan
      BY DEF BillingInv, BillingTypeOK
    <3>3. PICK st \in {"incomplete", "trialing", "active"} :
            Happens(id, [customer |-> s[1], plan |-> s[2], status |-> st])
      BY <3>1 DEF Pay
    <3> DEFINE sub == [customer |-> s[1], plan |-> s[2], status |-> st]
    <3>4. sub \in StripeSub /\ sub.customer = s[1]
      BY <3>2 DEF StripeSub, StripeStatus
    <3>5. /\ id \notin DOMAIN subs
          /\ careless' = IF subs = <<>> THEN careless ELSE careless \cup {"second"}
      BY <3>1 DEF Pay
    <3> QED BY <3>3, <3>4, <3>5
  <2> QED BY <2>1, <2>2
<1>2. /\ UNCHANGED <<row, customers, step, found, applying, applied>>
      /\ sessions' \subseteq sessions
      /\ careless \subseteq careless'
      /\ careless' \subseteq careless \cup {"second"}
  BY DEF Progress, Pay, checkouts
<1>3. /\ EventsNumbered'
      /\ DOMAIN subs' = DOMAIN subs \cup {id}
      /\ \A i \in DOMAIN subs' : subs'[i] = IF i = id THEN sub ELSE subs[i]
      /\ subs' \in [DOMAIN subs \cup {id} -> StripeSub]
      /\ events' \subseteq Notice /\ due' \subseteq events' /\ due \subseteq due'
      /\ events \subseteq events'
      /\ \E new \in due' : /\ events' = events \cup {new} /\ due' = due \cup {new}
                          /\ new.id = id /\ new.sub = sub
  <2>1. Happened(id, sub)
    BY <1>1, HappensStep
  <2> QED BY <2>1 DEF Happened
<1>4. BillingTypeOK'
  <2>1. DOMAIN subs \cup {id} \in SUBSET Subscription
    BY SubsTyped DEF BillingInv
  <2>2. \E known \in SUBSET Subscription : subs' \in [known -> StripeSub]
    BY <1>3, <2>1
  <2> QED BY <1>2, <1>3, <2>2 DEF BillingInv, BillingTypeOK
<1>5. CustomerInHand'
  BY <1>2 DEF BillingInv, CustomerInHand
<1>6. RowIsOneEvent'
  BY <1>2, <1>3 DEF BillingInv, RowIsOneEvent
<1>7. InTurn'
  <2>1. careless \cap {"overlap", "failed"} = {} => sub.customer = row.customer
    BY <1>1 DEF BillingInv, InTurn
  <2> SUFFICES ASSUME careless' \cap {"overlap", "failed"} = {}
               PROVE  InTurn'
    BY DEF InTurn
  <2>2. careless \cap {"overlap", "failed"} = {}
    BY <1>2
  <2>3. /\ \A i \in DOMAIN subs' : subs'[i].customer = row.customer
        /\ \A e \in events' : e.sub.customer = row.customer
        /\ \A s \in sessions' : s[1] = row.customer
    BY <1>2, <1>3, <2>1, <2>2 DEF BillingInv, InTurn
  <2>4. "customer" \notin careless'
    BY <1>2, <2>2 DEF BillingInv, InTurn
  <2> QED BY <1>2, <2>2, <2>3, <2>4 DEF BillingInv, InTurn
<1>8. WrittenInOrder'
  <2>1. "second" \notin careless' => \A i, j \in DOMAIN subs' : i = j
    <3>1. CASE id \in DOMAIN subs
      BY <1>2, <1>3, <3>1 DEF BillingInv, WrittenInOrder
    <3>2. CASE id \notin DOMAIN subs /\ subs = <<>>
      BY <1>3, <3>2
    <3>3. CASE id \notin DOMAIN subs /\ subs # <<>>
      BY <1>1, <3>3
    <3> QED BY <3>1, <3>2, <3>3
  <2>2. "customer" \notin careless' => \A e \in events' \ due' : e.n <= applied'
    BY <1>2, <1>3 DEF BillingInv, WrittenInOrder
  <2>3. "order" \notin careless' /\ applied' # 0 =>
          \E e \in events' : e.n = applied' /\ row' = Reconciled(row', e.id, e.sub)
    BY <1>2, <1>3 DEF BillingInv, WrittenInOrder
  <2>4. applied' # 0 => \E e \in events' : e.n = applied'
    BY <1>2, <1>3 DEF BillingInv, WrittenInOrder
  <2> QED BY <2>1, <2>2, <2>3, <2>4 DEF WrittenInOrder
<1> QED BY <1>3, <1>4, <1>5, <1>6, <1>7, <1>8 DEF BillingInv

\* A webhook request that finds the row, or fails, writes nothing.
LEMMA FindRecordStep ==
  ASSUME BillingInv, NEW d \in Delivery, WebhookFails(d) \/ \E e \in due : FindRecord(d, e)
  PROVE  BillingInv'
<1>1. /\ row' = row /\ customers' = customers /\ sessions' = sessions /\ step' = step
      /\ found' = found /\ subs' = subs /\ events' = events /\ applied' = applied
  BY DEF WebhookFails, FindRecord, checkouts, stripe
<1>2. /\ due' \subseteq due
      /\ applying' \in [Delivery -> events \cup {Nothing}]
      /\ careless \subseteq careless' /\ careless' \subseteq careless \cup {"customer"}
      /\ due' # due => /\ "customer" \in careless'
                       /\ \E e \in events : e.sub.customer # row.customer
      /\ careless' # careless => \E e \in events : e.sub.customer # row.customer
  BY DEF WebhookFails, FindRecord, stripe, BillingInv, BillingTypeOK
<1>3. BillingTypeOK'
  BY <1>1, <1>2 DEF BillingInv, BillingTypeOK
<1>4. CustomerInHand' /\ EventsNumbered' /\ RowIsOneEvent'
  BY <1>1 DEF BillingInv, CustomerInHand, EventsNumbered, RowIsOneEvent
<1>5. InTurn'
  <2> SUFFICES ASSUME careless' \cap {"overlap", "failed"} = {}
               PROVE  InTurn'
    BY DEF InTurn
  <2>1. InTurn /\ careless \cap {"overlap", "failed"} = {}
    BY <1>2 DEF BillingInv
  <2>2. careless' = careless
    BY <1>2, <2>1 DEF InTurn
  <2> QED BY <1>1, <2>1, <2>2 DEF InTurn
<1>6. WrittenInOrder'
  BY <1>1, <1>2 DEF BillingInv, WrittenInOrder
<1> QED BY <1>3, <1>4, <1>5, <1>6 DEF BillingInv

\* The update of the row.
LEMMA ReconcileStep ==
  ASSUME BillingInv, NEW d \in Delivery, Reconcile(d)
  PROVE  BillingInv'
<1> DEFINE e == applying[d]
<1>1. /\ customers' = customers /\ sessions' = sessions /\ step' = step
      /\ found' = found /\ subs' = subs /\ events' = events
  BY DEF Reconcile, checkouts
<1>2. e \in events /\ row \in Row
  BY DEF Reconcile, BillingInv, BillingTypeOK
<1>3. /\ e.id \in Subscription /\ e.sub \in StripeSub /\ e.n \in 1..MaxEvents
  BY <1>2, SubsTyped DEF BillingInv
<1>4. /\ row' = Reconciled(row, e.id, e.sub)
      /\ due \ {e} \subseteq due' /\ due' \subseteq due
      /\ applying' = [applying EXCEPT ![d] = Nothing]
  BY DEF Reconcile
<1>5. \/ e.n < applied /\ careless' = careless \cup {"order"} /\ applied' = applied
      \/ ~(e.n < applied) /\ careless' = careless \ {"order"} /\ applied' = e.n
  BY DEF Reconcile
<1>6. row' \in Row /\ row'.customer = row.customer /\ row' = Reconciled(row', e.id, e.sub)
  BY <1>2, <1>3, <1>4, ReconciledRow
<1> HIDE DEF e
<1>7. applied \in Nat /\ applied' \in Nat /\ applied <= applied' /\ e.n <= applied'
  BY <1>3, <1>5 DEF BillingInv, BillingTypeOK
<1>8. BillingTypeOK'
  <2>1. applied' \in 0..MaxEvents
    BY <1>3, <1>5 DEF BillingInv, BillingTypeOK
  <2>2. applying' \in [Delivery -> events \cup {Nothing}]
    BY <1>4 DEF BillingInv, BillingTypeOK
  <2>3. careless' \subseteq {"overlap", "failed", "customer", "second", "order"}
    BY <1>5 DEF BillingInv, BillingTypeOK
  <2> QED BY <1>1, <1>4, <1>6, <2>1, <2>2, <2>3 DEF BillingInv, BillingTypeOK
<1>9. CustomerInHand' /\ EventsNumbered'
  BY <1>1 DEF BillingInv, CustomerInHand, EventsNumbered
<1>10. RowIsOneEvent'
  BY <1>1, <1>2, <1>6 DEF RowIsOneEvent
<1>11. InTurn'
  <2>1. "customer" \in careless' <=> "customer" \in careless
    BY <1>5
  <2>2. careless' \cap {"overlap", "failed"} = {} => careless \cap {"overlap", "failed"} = {}
    BY <1>5
  <2> QED BY <1>1, <1>6, <2>1, <2>2 DEF BillingInv, InTurn
<1>12. WrittenInOrder'
  <2>1. "second" \notin careless' => \A i, j \in DOMAIN subs' : i = j
    BY <1>1, <1>5 DEF BillingInv, WrittenInOrder
  <2>2. "customer" \notin careless' => \A f \in events' \ due' : f.n <= applied'
    <3>1. \A f \in events : f.n \in Nat
      BY SubsTyped DEF BillingInv
    <3> QED BY <1>1, <1>4, <1>5, <1>7, <3>1 DEF BillingInv, WrittenInOrder
  <2>3. "order" \notin careless' /\ applied' # 0 =>
          \E f \in events' : f.n = applied' /\ row' = Reconciled(row', f.id, f.sub)
    BY <1>1, <1>2, <1>5, <1>6
  <2>4. applied' # 0 => \E f \in events' : f.n = applied'
    BY <1>1, <1>2, <1>5 DEF BillingInv, WrittenInOrder
  <2> QED BY <2>1, <2>2, <2>3, <2>4 DEF WrittenInOrder
<1> QED BY <1>8, <1>9, <1>10, <1>11, <1>12 DEF BillingInv

LEMMA BillingInitHolds == BillingInit => BillingInv
<1> SUFFICES ASSUME BillingInit
             PROVE  BillingInv
  OBVIOUS
<1>1. row \in Row /\ row.customer = Nothing /\ row.sub = Nothing /\ row.plan = "FREE"
  BY DEF BillingInit, Row, Status
<1>2. subs \in [{} -> StripeSub] /\ DOMAIN subs = {}
  BY DEF BillingInit
<1>3. BillingTypeOK
  <2>1. \E known \in SUBSET Subscription : subs \in [known -> StripeSub]
    BY <1>2
  <2> QED BY <1>1, <2>1, BillingAssumption DEF BillingInit, BillingTypeOK
<1>4. EventsNumbered
  BY <1>2, FS_EmptySet DEF BillingInit, EventsNumbered
<1>5. CustomerInHand /\ RowIsOneEvent
  BY <1>1 DEF BillingInit, CustomerInHand, RowIsOneEvent
<1>6. InTurn /\ WrittenInOrder
  BY <1>2 DEF BillingInit, InTurn, WrittenInOrder
<1> QED BY <1>3, <1>4, <1>5, <1>6 DEF BillingInv

\* Checkouts, Stripe and the webhook keep the invariant.
LEMMA BillingStepPreserves == BillingInv /\ [BillingNext]_billingVars => BillingInv'
<1> SUFFICES ASSUME BillingInv, [BillingNext]_billingVars
             PROVE  BillingInv'
  OBVIOUS
<1>1. ASSUME NEW c \in Checkout,
             \/ ReadOrg(c) \/ SaveCustomer(c) \/ CreateSession(c) \/ CheckoutFails(c)
             \/ \E id \in Customer : CreateCustomer(c, id)
      PROVE  BillingInv'
  BY <1>1, CheckoutStep
<1>2. ASSUME NEW id \in Subscription, Progress(id) \/ \E s \in sessions : Pay(id, s)
      PROVE  BillingInv'
  BY <1>2, StripeStep
<1>3. ASSUME NEW d \in Delivery, Reconcile(d)
      PROVE  BillingInv'
  BY <1>3, ReconcileStep
<1>4. ASSUME NEW d \in Delivery, WebhookFails(d) \/ \E e \in due : FindRecord(d, e)
      PROVE  BillingInv'
  BY <1>4, FindRecordStep
<1>5. CASE UNCHANGED billingVars
  <2>1. UNCHANGED <<row, customers, sessions, step, found, subs, events, due, applying, applied, careless>>
    BY <1>5 DEF billingVars, checkouts, stripe
  <2> QED BY <2>1 DEF BillingInv, BillingTypeOK, CustomerInHand, EventsNumbered, RowIsOneEvent, InTurn,
                      WrittenInOrder
<1> QED BY <1>1, <1>2, <1>3, <1>4, <1>5 DEF BillingNext

LEMMA BillingInvariance == BillingSpec => []BillingInv
BY BillingInitHolds, BillingStepPreserves, PTL DEF BillingSpec

\* The type invariant holds: what the row, the sessions and the requests name is
\* something Stripe has.
THEOREM BillingTypeCorrect == BillingSpec => []BillingTypeOK
<1>1. BillingInv => BillingTypeOK
  BY DEF BillingInv
<1> QED BY <1>1, BillingInvariance, PTL

\* The row is never a mixture of events, for any number of requests at a time.
THEOREM RowShowsOneEvent == BillingSpec => []RowIsOneEvent
<1>1. BillingInv => RowIsOneEvent
  BY DEF BillingInv
<1> QED BY <1>1, BillingInvariance, PTL

\* Checkouts that neither overlap nor fail create one customer between them, and
\* no event is lost for want of a row that names its customer.
THEOREM CheckoutsShareCustomer == BillingSpec => []OneCustomerInTurn
<1>1. BillingInv => OneCustomerInTurn
  <2> SUFFICES ASSUME BillingInv, careless \cap {"overlap", "failed"} = {}
               PROVE  Cardinality(customers) <= 1 /\ "customer" \notin careless
    BY DEF OneCustomerInTurn
  <2>1. /\ "customer" \notin careless
        /\ \A c, d \in Checkout : step[c] \in {"create", "save"} /\ step[d] \in {"create", "save"} => c = d
        /\ \A c \in Checkout : step[c] \in {"create", "save"} => row.customer = Nothing
        /\ \A k \in customers : k = row.customer \/ \E c \in Checkout : step[c] = "save" /\ found[c] = k
        /\ customers \subseteq Customer
    BY DEF BillingInv, InTurn, BillingTypeOK
  <2>2. \A j, k \in customers : j = k
    BY <2>1, BillingAssumption
  <2>3. CASE customers = {}
    <3>1. Cardinality(customers) = 0
      BY <2>3, FS_EmptySet
    <3> QED BY <2>1, <3>1
  <2>4. CASE customers # {}
    <3>1. PICK k \in customers : TRUE
      BY <2>4
    <3>2. customers = {k}
      BY <2>2
    <3>3. Cardinality(customers) = 1
      BY <3>2, FS_Singleton
    <3> QED BY <2>1, <3>3
  <2> QED BY <2>3, <2>4
<1> QED BY <1>1, BillingInvariance, PTL

\* When Stripe has nothing left to deliver the row shows its newest event, unless
\* one of the named races has happened.
THEOREM RowFollowsStripe == BillingSpec => []ReconciledWithoutRaces
<1>1. BillingInv => ReconciledWithoutRaces
  <2> SUFFICES ASSUME BillingInv, NEW id \in DOMAIN subs, due = {},
                      careless \cap {"customer", "second", "order"} = {}
               PROVE  row = Reconciled(row, id, subs[id])
    BY DEF ReconciledWithoutRaces
  <2>1. /\ "customer" \notin careless /\ "second" \notin careless /\ "order" \notin careless
    OBVIOUS
  <2>2. subs # <<>>
    OBVIOUS
  <2>3. PICK e \in events : e.n = Cardinality(events)
    BY <2>2 DEF BillingInv, EventsNumbered
  <2>4. e.id = id /\ subs[id] = e.sub
    BY <2>1, <2>3 DEF BillingInv, EventsNumbered, WrittenInOrder
  <2>5. /\ e.n <= applied /\ e.n \in Nat \ {0} /\ applied \in Nat
    BY <2>1, SubsTyped DEF BillingInv, BillingTypeOK, WrittenInOrder
  <2>6. PICK f \in events : f.n = applied /\ row = Reconciled(row, f.id, f.sub)
    BY <2>1, <2>5 DEF BillingInv, WrittenInOrder
  <2>7. f.n <= e.n
    BY <2>3 DEF BillingInv, EventsNumbered
  <2>8. f = e
    BY <2>5, <2>6, <2>7 DEF BillingInv, EventsNumbered
  <2> QED BY <2>4, <2>6, <2>8
<1> QED BY <1>1, BillingInvariance, PTL

----------------------------------------------------------------------------
(* Notifications.                                                          *)

\* A job that has neither ended nor begun its last attempt has attempts and
\* deaths left.
AttemptsLeft ==
  \A j \in Job : job[j] \in {"new", "committed", "waiting"} \cup Active =>
    attempts[j] < MaxAttempts /\ stalls[j] <= MaxStalls

\* A run's row is numbered within the runs there have been, and precedes the rest
\* of its run.
RowsNumbered ==
  /\ \A r \in inbox : r[2] <= MaxAttempts + stalls[r[1]]
  /\ \A j \in Job : job[j] \in {"lookup", "mail", "return", "completed"} =>
       \E r \in inbox : r[1] = j

\* The run under way has sent no mail before its last call.
MailsPerDeath ==
  \A j \in Job :
    /\ mails[j] <= 1 + stalls[j]
    /\ job[j] \in {"new", "committed", "waiting", "create", "lookup", "mail"} => mails[j] <= stalls[j]

\* Runs that have not asked yet are remembered when their preference is on, and a
\* mail is about to go in those only.
AllowedKept ==
  \A j \in Job :
    /\ job[j] \in {"create", "lookup"} /\ Mailable(j, pref) => j \in allowed
    /\ job[j] = "mail" => j \in allowed

\* With no click under way the answer on its way is the user's row, but for what
\* others wrote since.
AnswerIsCurrent ==
  clicks = {} /\ prefQuery[1] = "answered" =>
    \A p \in Pref \ outdated : p \in prefQuery[2] <=> p \in pref

NotifyInv ==
  /\ NotifyTypeOK
  /\ AttemptsLeft
  /\ RowsNumbered
  /\ MailsPerDeath
  /\ AllowedKept
  /\ AnswerIsCurrent
  /\ PanelInSync

\* The places of a job.
Places == {"new", "committed", "waiting"} \cup Active \cup Over

\* The steps of requests and workers: one job moves on.
Moves(j) == Assigned(j) \/ Process(j) \/ AttemptFails(j) \/ Stall(j)

\* What a step of one job does: it touches this job's counters only, adds no row
\* but that of its run, and neither of the settings.
LEMMA MoveTyped ==
  ASSUME NotifyInv, NEW j \in Job, Moves(j)
  PROVE  /\ job[j] \in Places \ Over
         /\ attempts[j] < MaxAttempts /\ stalls[j] <= MaxStalls
         /\ attempts[j] \in Nat /\ stalls[j] \in Nat /\ mails[j] \in Nat
         /\ UNCHANGED <<type, read, settings>>
         /\ job' \in [Job -> Places]
         /\ attempts' \in [Job -> Nat] /\ stalls' \in [Job -> Nat] /\ mails' \in [Job -> Nat]
         /\ \A k \in Job \ {j} : /\ job'[k] = job[k] /\ mails'[k] = mails[k]
                                 /\ attempts'[k] = attempts[k] /\ stalls'[k] = stalls[k]
         /\ inbox' = inbox \/ (job[j] = "create" /\ inbox' = inbox \cup {<<j, Run(j)>>})
         /\ allowed' \subseteq Job /\ \A k \in Job \ {j} : k \in allowed => k \in allowed'
<1> USE NotificationsAssumption
<1>1. /\ job \in [Job -> Places]
      /\ attempts \in [Job -> 0..MaxAttempts] /\ stalls \in [Job -> 0..MaxStalls + 1]
      /\ mails \in [Job -> 0..MaxAttempts + MaxStalls] /\ allowed \subseteq Job
  BY DEF NotifyInv, NotifyTypeOK, Places
<1>2. attempts[j] \in Nat /\ stalls[j] \in Nat /\ mails[j] \in Nat
  BY <1>1
<1>3. job[j] \in Places \ Over
  BY DEF Moves, Process, Assigned, Enqueue, Take, CreateRow, LookupUser, SendMail, Complete,
         AttemptFails, Stall, Places, Active, Over
<1>4. attempts[j] < MaxAttempts /\ stalls[j] <= MaxStalls
  BY <1>3 DEF NotifyInv, AttemptsLeft, Places
<1>5. /\ UNCHANGED <<type, read, settings>>
      /\ allowed' \subseteq Job /\ \A k \in Job \ {j} : k \in allowed => k \in allowed'
  BY <1>1 DEF Moves, Process, Assigned, Enqueue, Take, CreateRow, LookupUser, SendMail, Complete,
              AttemptFails, Stall
<1>6. \E place \in Places : job' = [job EXCEPT ![j] = place]
  BY DEF Moves, Process, Assigned, Enqueue, Take, CreateRow, LookupUser, SendMail, Complete,
         AttemptFails, Stall, To, Places, Active, Over
<1>7. job' \in [Job -> Places] /\ \A k \in Job \ {j} : job'[k] = job[k]
  BY <1>1, <1>6
<1>8. attempts' = attempts \/ attempts' = [attempts EXCEPT ![j] = attempts[j] + 1]
  BY DEF Moves, Process, Assigned, Enqueue, Take, CreateRow, LookupUser, SendMail, Complete,
         AttemptFails, Stall
<1>9. stalls' = stalls \/ stalls' = [stalls EXCEPT ![j] = stalls[j] + 1]
  BY DEF Moves, Process, Assigned, Enqueue, Take, CreateRow, LookupUser, SendMail, Complete,
         AttemptFails, Stall
<1>10. mails' = mails \/ mails' = [mails EXCEPT ![j] = mails[j] + 1]
  BY DEF Moves, Process, Assigned, Enqueue, Take, CreateRow, LookupUser, SendMail, Complete,
         AttemptFails, Stall
<1>11. inbox' = inbox \/ (job[j] = "create" /\ inbox' = inbox \cup {<<j, Run(j)>>})
  BY DEF Moves, Process, Assigned, Enqueue, Take, CreateRow, LookupUser, SendMail, Complete,
         AttemptFails, Stall
<1>12. attempts' \in [Job -> Nat] /\ \A k \in Job \ {j} : attempts'[k] = attempts[k]
  BY <1>1, <1>8
<1>13. stalls' \in [Job -> Nat] /\ \A k \in Job \ {j} : stalls'[k] = stalls[k]
  BY <1>1, <1>9
<1>14. mails' \in [Job -> Nat] /\ \A k \in Job \ {j} : mails'[k] = mails[k]
  BY <1>1, <1>10
<1> QED BY <1>2, <1>3, <1>4, <1>5, <1>7, <1>11, <1>12, <1>13, <1>14

\* Where the job goes and what its counters do.
LEMMA MoveCases ==
  ASSUME NotifyInv, NEW j \in Job, Moves(j)
  PROVE  \/ /\ job[j] = "new" /\ job'[j] = "committed"
            /\ UNCHANGED <<attempts, stalls, mails, inbox, allowed>>
         \/ /\ job[j] = "committed" /\ job'[j] \in {"waiting", "unsent"}
            /\ UNCHANGED <<attempts, stalls, mails, inbox, allowed>>
         \/ /\ job[j] = "waiting" /\ job'[j] = "create"
            /\ UNCHANGED <<attempts, stalls, mails, inbox>>
            /\ Mailable(j, pref) => j \in allowed'
         \/ /\ job[j] = "create" /\ job'[j] \in {"return", "lookup"}
            /\ inbox' = inbox \cup {<<j, Run(j)>>}
            /\ UNCHANGED <<attempts, stalls, mails, allowed>>
         \/ /\ job[j] = "lookup" /\ job'[j] \in {"mail", "return"}
            /\ job'[j] = "mail" => Mailable(j, pref)
            /\ UNCHANGED <<attempts, stalls, mails, inbox, allowed>>
         \/ /\ job[j] = "mail" /\ job'[j] = "return"
            /\ mails'[j] \in {mails[j], mails[j] + 1}
            /\ UNCHANGED <<attempts, stalls, inbox, allowed>>
         \/ /\ job[j] = "return" /\ job'[j] = "completed"
            /\ UNCHANGED <<attempts, stalls, mails, inbox, allowed>>
         \/ /\ job[j] \in {"create", "lookup"}
            /\ attempts'[j] = attempts[j] + 1
            /\ job'[j] = IF attempts'[j] < MaxAttempts THEN "waiting" ELSE "failed"
            /\ UNCHANGED <<stalls, mails, allowed>>
         \/ /\ job[j] \in Active
            /\ stalls'[j] = stalls[j] + 1
            /\ job'[j] = IF stalls'[j] <= MaxStalls THEN "waiting" ELSE "failed"
            /\ UNCHANGED <<attempts, mails, inbox, allowed>>
<1>1. /\ DOMAIN job = Job /\ DOMAIN attempts = Job /\ DOMAIN stalls = Job /\ DOMAIN mails = Job
  BY DEF NotifyInv, NotifyTypeOK
<1>2. CASE Assigned(j)
  BY <1>1, <1>2 DEF Assigned, To
<1>3. CASE Enqueue(j)
  BY <1>1, <1>3 DEF Enqueue, To
<1>4. CASE Take(j)
  BY <1>1, <1>4 DEF Take, To
<1>5. CASE CreateRow(j)
  BY <1>1, <1>5 DEF CreateRow, To
<1>6. CASE LookupUser(j)
  BY <1>1, <1>6 DEF LookupUser, To
<1>7. CASE SendMail(j)
  BY <1>1, <1>7 DEF SendMail, To
<1>8. CASE Complete(j)
  BY <1>1, <1>8 DEF Complete, To
<1>9. CASE AttemptFails(j)
  BY <1>1, <1>9 DEF AttemptFails, To
<1>10. CASE Stall(j)
  BY <1>1, <1>10 DEF Stall, To
<1> QED BY <1>2, <1>3, <1>4, <1>5, <1>6, <1>7, <1>8, <1>9, <1>10 DEF Moves, Process

\* A job moves, fails, stalls or ends: its rows, mails and tries stay in proportion.
LEMMA MoveStep ==
  ASSUME NotifyInv, NEW j \in Job, Moves(j)
  PROVE  NotifyInv'
<1> USE NotificationsAssumption
<1>1. /\ job[j] \in Places \ Over
      /\ attempts[j] < MaxAttempts /\ stalls[j] <= MaxStalls
      /\ attempts[j] \in Nat /\ stalls[j] \in Nat /\ mails[j] \in Nat
      /\ UNCHANGED <<type, read, settings>>
      /\ job' \in [Job -> Places]
      /\ attempts' \in [Job -> Nat] /\ stalls' \in [Job -> Nat] /\ mails' \in [Job -> Nat]
      /\ \A k \in Job \ {j} : /\ job'[k] = job[k] /\ mails'[k] = mails[k]
                              /\ attempts'[k] = attempts[k] /\ stalls'[k] = stalls[k]
      /\ inbox' = inbox \/ (job[j] = "create" /\ inbox' = inbox \cup {<<j, Run(j)>>})
      /\ allowed' \subseteq Job /\ \A k \in Job \ {j} : k \in allowed => k \in allowed'
  BY MoveTyped
<1>2. /\ pref' = pref /\ panel' = panel /\ prefQuery' = prefQuery /\ clicks' = clicks
      /\ misses' = misses /\ outdated' = outdated /\ type' = type /\ read' = read
  BY <1>1 DEF settings
<1>3. Run(j) \in 1..MaxAttempts + MaxStalls /\ Run(j) <= MaxAttempts + stalls[j]
  BY <1>1 DEF Run
<1>4. /\ attempts'[j] \in {attempts[j], attempts[j] + 1} /\ stalls'[j] \in {stalls[j], stalls[j] + 1}
      /\ attempts'[j] <= MaxAttempts /\ stalls'[j] <= MaxStalls + 1
      /\ job'[j] \in {"new", "committed", "waiting"} \cup Active =>
           attempts'[j] < MaxAttempts /\ stalls'[j] <= MaxStalls
  BY <1>1, MoveCases DEF Active
<1>5. AttemptsLeft'
  BY <1>1, <1>4 DEF NotifyInv, AttemptsLeft
<1>6. MailsPerDeath'
  <2>1. /\ mails'[j] <= 1 + stalls'[j]
        /\ job'[j] \in {"new", "committed", "waiting", "create", "lookup", "mail"} => mails'[j] <= stalls'[j]
    <3>1. /\ mails[j] <= 1 + stalls[j]
          /\ job[j] \in {"new", "committed", "waiting", "create", "lookup", "mail"} => mails[j] <= stalls[j]
      BY DEF NotifyInv, MailsPerDeath
    <3> QED BY <1>1, <3>1, MoveCases DEF Active
  <2> QED BY <1>1, <2>1 DEF NotifyInv, MailsPerDeath
<1>7. inbox' \subseteq Job \X (1..MaxAttempts + MaxStalls) /\ inbox \subseteq inbox'
  BY <1>1, <1>3 DEF NotifyInv, NotifyTypeOK
<1>8. NotifyTypeOK'
  <2>1. attempts' \in [Job -> 0..MaxAttempts] /\ stalls' \in [Job -> 0..MaxStalls + 1]
    <3>1. \A k \in Job : attempts'[k] \in 0..MaxAttempts /\ stalls'[k] \in 0..MaxStalls + 1
      BY <1>1, <1>4 DEF NotifyInv, NotifyTypeOK
    <3> QED BY <1>1, <3>1
  <2>2. mails' \in [Job -> 0..MaxAttempts + MaxStalls]
    <3>1. mails'[j] \in 0..MaxAttempts + MaxStalls
      <4>1. CASE job[j] = "mail"
        <5>1. mails[j] <= stalls[j] /\ mails'[j] <= mails[j] + 1
          BY <1>1, <4>1, MoveCases DEF NotifyInv, MailsPerDeath, Active
        <5> QED BY <1>1, <5>1
      <4>2. CASE job[j] # "mail"
        <5>1. mails'[j] = mails[j]
          BY <4>2, MoveCases
        <5> QED BY <5>1 DEF NotifyInv, NotifyTypeOK
      <4> QED BY <4>1, <4>2
    <3>2. \A k \in Job : mails'[k] \in 0..MaxAttempts + MaxStalls
      BY <1>1, <3>1 DEF NotifyInv, NotifyTypeOK
    <3> QED BY <1>1, <3>2
  <2>3. read' \subseteq inbox'
    BY <1>2, <1>7 DEF NotifyInv, NotifyTypeOK
  <2> QED BY <1>1, <1>2, <1>7, <2>1, <2>2, <2>3 DEF NotifyInv, NotifyTypeOK, Places
<1>9. RowsNumbered'
  <2>1. \A r \in inbox' : r[2] <= MaxAttempts + stalls'[r[1]]
    <3> SUFFICES ASSUME NEW r \in inbox'
                 PROVE  r[2] <= MaxAttempts + stalls'[r[1]]
      OBVIOUS
    <3>1. r[1] \in Job /\ r[2] \in Nat
      BY <1>7
    <3>2. stalls[r[1]] \in Nat /\ stalls'[r[1]] \in Nat /\ stalls[r[1]] <= stalls'[r[1]]
      BY <1>1, <1>4, <3>1 DEF NotifyInv, NotifyTypeOK
    <3>3. r[2] <= MaxAttempts + stalls[r[1]]
      BY <1>1, <1>3 DEF NotifyInv, RowsNumbered
    <3> QED BY <3>1, <3>2, <3>3
  <2>2. job'[j] \in {"lookup", "mail", "return", "completed"} => \E r \in inbox' : r[1] = j
    <3>1. job[j] \in {"lookup", "mail", "return"} => \E r \in inbox' : r[1] = j
      BY <1>7 DEF NotifyInv, RowsNumbered
    <3>2. inbox' = inbox \cup {<<j, Run(j)>>} => \E r \in inbox' : r[1] = j
      <4> DEFINE new == <<j, Run(j)>>
      <4>1. new[1] = j
        OBVIOUS
      <4> HIDE DEF new
      <4>2. inbox' = inbox \cup {new} => \E r \in inbox' : r[1] = j
        BY <4>1
      <4> QED BY <4>2 DEF new
    <3>3. job'[j] \in {"lookup", "mail", "return", "completed"} =>
            job[j] \in {"lookup", "mail", "return"} \/ inbox' = inbox \cup {<<j, Run(j)>>}
      BY MoveCases DEF Active
    <3> QED BY <3>1, <3>2, <3>3
  <2> QED BY <1>1, <1>7, <2>1, <2>2 DEF NotifyInv, RowsNumbered
<1>10. AllowedKept'
  <2>1. \A k \in Job : Mailable(k, pref)' <=> Mailable(k, pref)
    BY <1>2 DEF Mailable
  <2>2. job'[j] \in {"create", "lookup"} /\ Mailable(j, pref) => j \in allowed'
    BY MoveCases DEF NotifyInv, AllowedKept
  <2>3. job'[j] = "mail" => j \in allowed'
    BY MoveCases DEF NotifyInv, AllowedKept
  <2> QED BY <1>1, <2>1, <2>2, <2>3 DEF NotifyInv, AllowedKept
<1>11. AnswerIsCurrent' /\ PanelInSync'
  BY <1>2 DEF NotifyInv, AnswerIsCurrent, PanelInSync, IdleQuery
<1> QED BY <1>5, <1>6, <1>8, <1>9, <1>10, <1>11 DEF NotifyInv

\* Reading and the settings panel leave the jobs where they are.
PanelMoves ==
  \/ \E t \in Toggle, p \in Pref : Switch(t, p)
  \/ \E c \in clicks : UpdatePrefs(c) \/ Settled(c)
  \/ \E p \in Pref, on \in BOOLEAN : OtherUpdate(p, on)
  \/ GetPrefs \/ ShowPrefs \/ GetPrefsFails

\* The runs that have not asked yet and whose preference is on.
Unasked(on) == {j \in Job : job[j] \in {"create", "lookup"} /\ Mailable(j, on)}

\* What a step of the settings panel does to the toggles and the query.
LEMMA PanelTyped ==
  ASSUME NotifyInv, PanelMoves
  PROVE  /\ UNCHANGED <<worker, read>>
         /\ pref' \subseteq Pref /\ panel' \subseteq Pref
         /\ prefQuery' \in {"idle", "asked"} \X {{}} \cup {"answered"} \X SUBSET Pref
         /\ clicks' \subseteq Click /\ \A x, y \in clicks' : x.by = y.by => x = y
         /\ misses' \in 0..MaxMisses /\ outdated' \subseteq Pref
         /\ allowed' = allowed \/ allowed' = allowed \cup Unasked(pref')
         /\ pref' # pref => allowed' = allowed \cup Unasked(pref')
<1> USE NotificationsAssumption
<1>1. /\ pref \subseteq Pref /\ panel \subseteq Pref
      /\ prefQuery \in {"idle", "asked"} \X {{}} \cup {"answered"} \X SUBSET Pref
      /\ clicks \subseteq Click /\ \A x, y \in clicks : x.by = y.by => x = y
      /\ misses \in 0..MaxMisses /\ outdated \subseteq Pref
  BY DEF NotifyInv, NotifyTypeOK
<1>2. IdleQuery \in {"idle", "asked"} \X {{}} /\ AskedQuery \in {"idle", "asked"} \X {{}}
  BY DEF IdleQuery, AskedQuery
<1>3. ASSUME NEW t \in Toggle, NEW p \in Pref, Switch(t, p)
      PROVE  /\ panel' \subseteq Pref /\ prefQuery' = IdleQuery
             /\ clicks' \subseteq Click /\ \A x, y \in clicks' : x.by = y.by => x = y
             /\ UNCHANGED <<worker, read, pref, misses, outdated, allowed>>
  <2> DEFINE new == [by |-> t, pref |-> p, on |-> p \notin panel, previous |-> panel, saved |-> FALSE]
  <2>1. (p \notin panel) \in BOOLEAN
    BY Zenon
  <2>2. new \in Click
    BY <1>1, <2>1 DEF Click
  <2>3. new.by = t /\ \A c \in clicks : c.by # t
    BY <1>3 DEF Switch
  <2>4. clicks' = clicks \cup {new}
    BY <1>3 DEF Switch
  <2> HIDE DEF new
  <2>5. clicks' \subseteq Click /\ \A x, y \in clicks' : x.by = y.by => x = y
    BY <1>1, <2>2, <2>3, <2>4
  <2>6. panel' \subseteq Pref /\ prefQuery' = IdleQuery
    BY <1>1, <1>3 DEF Switch
  <2> QED BY <1>3, <2>5, <2>6 DEF Switch
<1>4. ASSUME NEW c \in clicks, UpdatePrefs(c)
      PROVE  /\ pref' \subseteq Pref
             /\ clicks' \subseteq Click /\ \A x, y \in clicks' : x.by = y.by => x = y
             /\ allowed' = allowed \cup Unasked(pref')
             /\ UNCHANGED <<worker, read, panel, prefQuery, misses, outdated>>
  <2> DEFINE new == [c EXCEPT !.saved = TRUE]
  <2>1. new \in Click /\ new.by = c.by
    <3>1. c \in Click
      BY <1>1
    <3> QED BY <3>1 DEF Click
  <2>2. clicks' = (clicks \ {c}) \cup {new}
    BY <1>4 DEF UpdatePrefs
  <2> HIDE DEF new
  <2>3. clicks' \subseteq Click /\ \A x, y \in clicks' : x.by = y.by => x = y
    BY <1>1, <2>1, <2>2
  <2>4. pref' \subseteq Pref
    BY <1>1, <1>4 DEF UpdatePrefs, Write, Click
  <2> QED BY <1>4, <2>3, <2>4 DEF UpdatePrefs, Write, Unasked
<1>5. ASSUME NEW c \in clicks, Settled(c)
      PROVE  /\ panel' \subseteq Pref /\ prefQuery' = AskedQuery
             /\ clicks' \subseteq clicks /\ misses' \in 0..MaxMisses
             /\ UNCHANGED <<worker, read, pref, outdated, allowed>>
  BY <1>1, <1>5 DEF Settled, Miss, Click
<1>6. CASE GetPrefs
  BY <1>1, <1>6 DEF GetPrefs
<1>7. CASE ShowPrefs
  <2>1. prefQuery[2] \subseteq Pref
    BY <1>1, <1>7 DEF ShowPrefs
  <2> QED BY <1>1, <1>2, <1>7, <2>1 DEF ShowPrefs
<1>8. CASE GetPrefsFails
  <2>1. misses' \in 0..MaxMisses
    BY <1>1, <1>8 DEF GetPrefsFails, Miss
  <2> QED BY <1>1, <1>2, <1>8, <2>1 DEF GetPrefsFails
<1>9. CASE \E t \in Toggle, p \in Pref : Switch(t, p)
  BY <1>1, <1>2, <1>3, <1>9
<1>10. CASE \E c \in clicks : UpdatePrefs(c)
  BY <1>1, <1>4, <1>10
<1>11. CASE \E c \in clicks : Settled(c)
  BY <1>1, <1>2, <1>5, <1>11
<1>12. CASE \E p \in Pref, on \in BOOLEAN : OtherUpdate(p, on)
  BY <1>1, <1>12 DEF OtherUpdate, Write, Unasked
<1> QED BY <1>6, <1>7, <1>8, <1>9, <1>10, <1>11, <1>12 DEF PanelMoves

\* The panel shows what was answered last, with the toggles under way on top.
LEMMA PanelStep ==
  ASSUME NotifyInv, PanelMoves
  PROVE  NotifyInv'
<1>1. /\ UNCHANGED <<worker, read>>
      /\ pref' \subseteq Pref /\ panel' \subseteq Pref
      /\ prefQuery' \in {"idle", "asked"} \X {{}} \cup {"answered"} \X SUBSET Pref
      /\ clicks' \subseteq Click /\ \A x, y \in clicks' : x.by = y.by => x = y
      /\ misses' \in 0..MaxMisses /\ outdated' \subseteq Pref
      /\ allowed' = allowed \/ allowed' = allowed \cup Unasked(pref')
      /\ pref' # pref => allowed' = allowed \cup Unasked(pref')
  BY PanelTyped
<1>2. /\ job' = job /\ type' = type /\ attempts' = attempts /\ stalls' = stalls
      /\ inbox' = inbox /\ mails' = mails /\ read' = read
  BY <1>1 DEF worker
<1>3. allowed \subseteq allowed' /\ allowed' \subseteq Job
  BY <1>1 DEF NotifyInv, NotifyTypeOK, Unasked
<1>4. NotifyTypeOK'
  BY <1>1, <1>2, <1>3 DEF NotifyInv, NotifyTypeOK
<1>5. AttemptsLeft' /\ RowsNumbered' /\ MailsPerDeath'
  BY <1>2 DEF NotifyInv, AttemptsLeft, RowsNumbered, MailsPerDeath
<1>6. AllowedKept'
  <2>1. \A j \in Job : Mailable(j, pref)' <=> Mailable(j, pref')
    BY <1>2 DEF Mailable
  <2>2. \A j \in Job : job[j] \in {"create", "lookup"} /\ Mailable(j, pref') => j \in allowed'
    <3>1. CASE pref' = pref
      BY <1>3, <3>1 DEF NotifyInv, AllowedKept
    <3>2. CASE pref' # pref
      BY <1>1, <3>2 DEF Unasked
    <3> QED BY <3>1, <3>2
  <2> QED BY <1>2, <1>3, <2>1, <2>2 DEF NotifyInv, AllowedKept
<1>7. AnswerIsCurrent' /\ PanelInSync'
  <2>1. IdleQuery[1] # "answered" /\ AskedQuery[1] # "answered" /\ AskedQuery # IdleQuery
    BY DEF IdleQuery, AskedQuery
  <2>2. /\ clicks = {} /\ prefQuery[1] = "answered" =>
             \A p \in Pref \ outdated : p \in prefQuery[2] <=> p \in pref
        /\ clicks = {} /\ prefQuery = IdleQuery =>
             \A p \in Pref \ outdated : p \in panel <=> p \in pref
    BY DEF NotifyInv, AnswerIsCurrent, PanelInSync
  <2>3. ASSUME NEW t \in Toggle, NEW p \in Pref, Switch(t, p)
        PROVE  clicks' # {}
    BY <2>3 DEF Switch
  <2>4. ASSUME NEW c \in clicks, UpdatePrefs(c)
        PROVE  clicks' # {}
    BY <2>4 DEF UpdatePrefs
  <2>5. ASSUME NEW c \in clicks, Settled(c)
        PROVE  prefQuery' = AskedQuery
    BY <2>5 DEF Settled
  <2>6. CASE GetPrefs
    <3>1. prefQuery' = <<"answered", pref>> /\ pref' = pref /\ prefQuery' # IdleQuery
      BY <2>6 DEF GetPrefs, IdleQuery
    <3> QED BY <3>1 DEF AnswerIsCurrent, PanelInSync
  <2>7. CASE ShowPrefs
    <3>1. /\ prefQuery[1] = "answered" /\ panel' = prefQuery[2] /\ prefQuery' = IdleQuery
          /\ pref' = pref /\ clicks' = clicks /\ outdated' = outdated
      BY <2>7 DEF ShowPrefs
    <3> QED BY <2>1, <2>2, <3>1 DEF AnswerIsCurrent, PanelInSync
  <2>8. CASE GetPrefsFails
    <3>1. prefQuery' = IdleQuery /\ outdated' = Pref
      BY <2>8 DEF GetPrefsFails
    <3> QED BY <2>1, <3>1 DEF AnswerIsCurrent, PanelInSync
  <2>9. ASSUME NEW q \in Pref, NEW on \in BOOLEAN, OtherUpdate(q, on)
        PROVE  AnswerIsCurrent' /\ PanelInSync'
    <3>1. /\ outdated' = outdated \cup {q}
          /\ panel' = panel /\ prefQuery' = prefQuery /\ clicks' = clicks
          /\ \A p \in Pref \ outdated' : p \in pref' <=> p \in pref
      BY <2>9 DEF OtherUpdate, Write
    <3> QED BY <2>2, <3>1 DEF AnswerIsCurrent, PanelInSync
  <2>10. CASE clicks' # {}
    BY <2>10 DEF AnswerIsCurrent, PanelInSync
  <2>11. CASE prefQuery' = AskedQuery
    BY <2>1, <2>11 DEF AnswerIsCurrent, PanelInSync
  <2> QED BY <2>3, <2>4, <2>5, <2>6, <2>7, <2>8, <2>9, <2>10, <2>11 DEF PanelMoves
<1> QED BY <1>4, <1>5, <1>6, <1>7 DEF NotifyInv

LEMMA NotifyInitHolds == NotifyInit => NotifyInv
<1> SUFFICES ASSUME NotifyInit
             PROVE  NotifyInv
  OBVIOUS
<1>2. NotifyTypeOK
  BY NotificationsAssumption DEF NotifyInit, NotifyTypeOK, IdleQuery, Active, Over
<1>3. AttemptsLeft /\ RowsNumbered /\ MailsPerDeath /\ AllowedKept
  BY NotificationsAssumption
  DEF NotifyInit, AttemptsLeft, RowsNumbered, MailsPerDeath, AllowedKept
<1>4. AnswerIsCurrent /\ PanelInSync
  BY DEF NotifyInit, AnswerIsCurrent, PanelInSync, IdleQuery
<1> QED BY <1>2, <1>3, <1>4 DEF NotifyInv

\* Jobs and the panel do not disturb each other.
LEMMA NotifyStepPreserves == NotifyInv /\ [NotifyNext]_notifyVars => NotifyInv'
<1> SUFFICES ASSUME NotifyInv, [NotifyNext]_notifyVars
             PROVE  NotifyInv'
  OBVIOUS
<1>1. ASSUME NEW j \in Job, Assigned(j) \/ Process(j) \/ AttemptFails(j) \/ Stall(j)
      PROVE  NotifyInv'
  BY <1>1, MoveStep DEF Moves
<1>2. CASE PanelMoves
  BY <1>2, PanelStep
<1>3. ASSUME NEW ids \in SUBSET inbox, MarkRead(ids)
      PROVE  NotifyInv'
  <2>1. /\ read' \subseteq inbox
        /\ job' = job /\ type' = type /\ attempts' = attempts /\ stalls' = stalls
        /\ inbox' = inbox /\ mails' = mails
        /\ pref' = pref /\ panel' = panel /\ prefQuery' = prefQuery /\ clicks' = clicks
        /\ misses' = misses /\ outdated' = outdated /\ allowed' = allowed
    BY <1>3 DEF MarkRead, worker, settings, NotifyInv, NotifyTypeOK
  <2> QED BY <2>1 DEF NotifyInv, NotifyTypeOK, AttemptsLeft, RowsNumbered, MailsPerDeath, AllowedKept,
                      Mailable, AnswerIsCurrent, PanelInSync
<1>4. CASE UNCHANGED notifyVars
  <2>1. UNCHANGED <<job, type, attempts, stalls, inbox, mails, read, pref, panel, prefQuery, clicks,
                    misses, outdated, allowed>>
    BY <1>4 DEF notifyVars, worker, settings
  <2> QED BY <2>1 DEF NotifyInv, NotifyTypeOK, AttemptsLeft, RowsNumbered, MailsPerDeath, AllowedKept,
                      Mailable, AnswerIsCurrent, PanelInSync
<1> QED BY <1>1, <1>2, <1>3, <1>4 DEF NotifyNext, PanelMoves

LEMMA NotifyInvariance == NotifySpec => []NotifyInv
BY NotifyInitHolds, NotifyStepPreserves, PTL DEF NotifySpec

\* The type invariant holds: attempts, deaths, rows and mails stay within their
\* limits for any number of attempts and deaths BullMQ is configured with.
THEOREM NotifyTypeCorrect == NotifySpec => []NotifyTypeOK
<1>1. NotifyInv => NotifyTypeOK
  BY DEF NotifyInv
<1> QED BY <1>1, NotifyInvariance, PTL

\* A completed job has its row, and repeated runs leave no more rows than runs.
THEOREM RowsCounted == NotifySpec => []RowsPerRun
<1>1. NotifyInv => RowsPerRun
  <2> SUFFICES ASSUME NotifyInv, NEW j \in Job
               PROVE  /\ job[j] = "completed" => {r \in inbox : r[1] = j} # {}
                      /\ Cardinality({r \in inbox : r[1] = j}) <= MaxAttempts + stalls[j]
    BY DEF RowsPerRun
  <2> DEFINE written == {r \in inbox : r[1] = j}
             n == MaxAttempts + stalls[j]
             number == [r \in written |-> r[2]]
  <2>1. n \in Nat
    BY NotificationsAssumption DEF NotifyInv, NotifyTypeOK
  <2>2. \A r \in written : r = <<j, r[2]>> /\ r[2] \in 1..n
    BY <2>1 DEF NotifyInv, NotifyTypeOK, RowsNumbered
  <2>3. job[j] = "completed" => written # {}
    BY DEF NotifyInv, RowsNumbered
  <2> HIDE DEF written
  <2> HIDE DEF n
  <2>4. number \in [written -> 1..n] /\ \A r, q \in written : number[r] = number[q] => r = q
    BY <2>2
  <2> HIDE DEF number
  <2>5. number \in Injection(written, 1..n)
    BY <2>4 DEF Injection, IsInjective
  <2>6. IsFiniteSet(1..n) /\ Cardinality(1..n) = n
    BY <2>1, FS_Interval
  <2>7. Cardinality(written) <= n
    BY <2>5, <2>6, FS_Injection
  <2> QED BY <2>3, <2>7 DEF written, n
<1> QED BY <1>1, NotifyInvariance, PTL

\* However often an attempt fails, there is one mail and one more per death of
\* the worker.
THEOREM MailsCounted == NotifySpec => []OneMailUnlessStalled
<1>1. NotifyInv => OneMailUnlessStalled
  BY DEF NotifyInv, MailsPerDeath, OneMailUnlessStalled
<1> QED BY <1>1, NotifyInvariance, PTL

\* A preference that is off from when the worker takes a job until it asks mutes
\* the mail of that run, whatever it was at the assignment and in earlier runs.
THEOREM MutedUsersGetNone == NotifySpec => MutedMeansSilent
<1>1. ASSUME NotifyInv, [NotifyNext]_notifyVars
      PROVE  [\A j \in Job : mails'[j] # mails[j] => j \in allowed]_notifyVars
  <2> SUFFICES ASSUME NEW j \in Job, mails'[j] # mails[j]
               PROVE  j \in allowed
    OBVIOUS
  <2>1. PICK k \in Job : Moves(k)
    <3>1. mails' # mails
      OBVIOUS
    <3>2. ~PanelMoves
      BY <1>1, <3>1, PanelTyped DEF worker
    <3> QED BY <1>1, <3>1, <3>2 DEF NotifyNext, PanelMoves, Moves, MarkRead, notifyVars, worker
  <2>2. k = j
    BY <1>1, <2>1, MoveTyped
  <2>3. job[j] = "mail"
    BY <1>1, <2>1, <2>2, MoveCases
  <2> QED BY <1>1, <2>3 DEF NotifyInv, AllowedKept
<1> QED BY <1>1, NotifyInvariance, PTL DEF NotifySpec, MutedMeansSilent

\* Once the panel's toggles have settled and the fetch they caused is in, it shows
\* the user's row, whatever clicks, answers and failures overlapped, but for the
\* preferences that others, or requests it has given up, wrote after the answer.
THEOREM PanelSettles == NotifySpec => []PanelInSync
<1>1. NotifyInv => PanelInSync
  BY DEF NotifyInv
<1> QED BY <1>1, NotifyInvariance, PTL

----------------------------------------------------------------------------
(* The seed script.                                                        *)

\* Numbers beyond the counter are those of a run of the script that has not
\* set the counter, unless it was set back; an open create has room.
SeedInv ==
  /\ SeedTypeOK
  /\ creating <= MaxNumber
  /\ late \/ \A n \in numbers : n <= counter \/ (begun /\ n <= SeedCount)

LEMMA SeedInitHolds == SeedInit => SeedInv
<1> SUFFICES ASSUME SeedInit
             PROVE  SeedInv
  OBVIOUS
<1>1. begun \in BOOLEAN /\ late \in BOOLEAN
  BY Zenon DEF SeedInit
<1>2. /\ numbers = {} /\ counter = 0 /\ position = 0 /\ creating = 0
  BY DEF SeedInit
<1> QED BY <1>1, <1>2, SeedAssumption DEF SeedInv, SeedTypeOK

\* Runs of the script and creates keep the invariant.
LEMMA SeedStepPreserves == SeedInv /\ [SeedNext]_seedVars => SeedInv'
<1> SUFFICES ASSUME SeedInv, [SeedNext]_seedVars
             PROVE  SeedInv'
  OBVIOUS
<1> USE SeedAssumption DEF SeedInv, SeedTypeOK, Number
<1>1. CASE SeedStart
  BY <1>1 DEF SeedStart
<1>2. CASE SeedUpsert
  BY <1>2 DEF SeedUpsert
<1>3. CASE SeedReset
  <2>1. (late' <=> late \/ counter > SeedCount) /\ (begun' <=> FALSE)
    BY <1>3 DEF SeedReset
  <2>2. late' \in BOOLEAN /\ begun' \in BOOLEAN
    BY <1>3, Zenon DEF SeedReset
  <2>3. /\ counter' = SeedCount /\ position' = 0
        /\ numbers' = numbers /\ creating' = creating /\ creating = 0
    BY <1>3 DEF SeedReset
  <2> QED BY <2>1, <2>2, <2>3
<1>4. CASE SeedFails
  BY <1>4 DEF SeedFails
<1>5. CASE DrawNumber
  BY <1>5 DEF DrawNumber
<1>6. CASE EndCreate
  <2>1. position' = position /\ begun' = begun /\ late' = late /\ creating' = 0
    BY <1>6 DEF EndCreate
  <2>2. CASE numbers' = numbers /\ counter' = counter
    BY <2>1, <2>2
  <2>3. CASE numbers' = numbers \cup {creating} /\ counter' = creating /\ creating # 0
    BY <2>1, <2>3
  <2> QED BY <1>6, <2>2, <2>3 DEF EndCreate
<1>7. CASE RemoveIssue
  BY <1>7 DEF RemoveIssue
<1>8. CASE UNCHANGED seedVars
  BY <1>8 DEF seedVars
<1> QED BY <1>1, <1>2, <1>3, <1>4, <1>5, <1>6, <1>7, <1>8 DEF SeedNext

LEMMA SeedInvariance == SeedSpec => []SeedInv
BY SeedInitHolds, SeedStepPreserves, PTL DEF SeedSpec

\* The type invariant holds: an open create holds the successor of the counter.
THEOREM SeedTypeCorrect == SeedSpec => []SeedTypeOK
<1>1. SeedInv => SeedTypeOK
  BY DEF SeedInv
<1> QED BY <1>1, SeedInvariance, PTL

\* Outside a run of the script that has not ended, and but for one that has set
\* the counter back, the next number is free for any length of the seed list.
THEOREM CreatesSucceed == SeedSpec => []NextNumberIsFree
<1>1. SeedInv => NextNumberIsFree
  BY SeedAssumption DEF SeedInv, SeedTypeOK, Number, NextNumberIsFree
<1> QED BY <1>1, SeedInvariance, PTL
----------------------------------------------------------------------------
(* The components side by side.                                            *)

\* A component that is not the subject stands still, and the loop of rankBetween
\* has then ended.
ServicesInv ==
  /\ NotifyInv /\ BillingInv /\ AttachmentsInv /\ SeedInv
  /\ BoardInv /\ DropsLandWhereReleased
  /\ IF subject = "rank" THEN RankInv ELSE TypeOK

LEMMA ServicesInitHolds == MCInit => ServicesInv
<1> SUFFICES ASSUME MCInit
             PROVE  ServicesInv
  OBVIOUS
<1>1. NotifyInv /\ BillingInv /\ AttachmentsInv /\ SeedInv /\ BoardInv
  BY NotifyInitHolds, BillingInitHolds, AttachmentsInitHolds, SeedInitHolds, BoardInitHolds DEF MCInit
<1>2. DropsLandWhereReleased
  BY DEF MCInit, BoardInit, DropsLandWhereReleased
<1>3. CASE subject = "rank"
  BY <1>1, <1>2, <1>3, RankInitHolds DEF MCInit, ServicesInv
<1>4. CASE subject # "rank"
  <2>1. TypeOK
    BY <1>4, RankAssumption DEF MCInit, TypeOK, Open
  <2> QED BY <1>1, <1>2, <1>4, <2>1 DEF ServicesInv
<1> QED BY <1>3, <1>4

\* One component takes a step of its own, or none does.
LEMMA ServicesStepPreserves ==
  ServicesInv /\ [MCNext]_<<subject, notifyVars, billingVars, attachmentVars, seedVars, boardVars, vars>>
    => ServicesInv'
<1> SUFFICES ASSUME ServicesInv,
                    [MCNext]_<<subject, notifyVars, billingVars, attachmentVars, seedVars, boardVars, vars>>
             PROVE  ServicesInv'
  OBVIOUS
<1>1. /\ [NotifyNext]_notifyVars /\ [BillingNext]_billingVars /\ [AttachmentsNext]_attachmentVars
      /\ [SeedNext]_seedVars /\ [BoardNext]_boardVars
      /\ subject' = subject
      /\ IF subject = "rank" THEN [Next]_vars ELSE UNCHANGED vars
  BY DEF MCNext
<1>2. NotifyInv' /\ BillingInv' /\ AttachmentsInv' /\ SeedInv'
  BY <1>1, NotifyStepPreserves, BillingStepPreserves, AttachmentsStepPreserves, SeedStepPreserves DEF ServicesInv
<1>3. BoardInv' /\ DropsLandWhereReleased'
  BY <1>1, BoardStepPreserves DEF ServicesInv
<1>4. subject = "rank" => RankInv'
  BY <1>1, RankStepPreserves DEF ServicesInv
<1>5. subject # "rank" => TypeOK'
  BY <1>1 DEF ServicesInv, vars, TypeOK
<1> QED BY <1>1, <1>2, <1>3, <1>4, <1>5 DEF ServicesInv

\* The components share no variable, so their type invariants hold side by side.
THEOREM ServicesTypeCorrect == MCSpec => []ServicesTypeOK
<1>1. ServicesInv => ServicesTypeOK
  BY DEF ServicesInv, ServicesTypeOK, NotifyInv, BillingInv, AttachmentsInv, SeedInv, BoardInv, RankInv
<1> QED BY <1>1, ServicesInitHolds, ServicesStepPreserves, PTL DEF MCSpec
=============================================================================
