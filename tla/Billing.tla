------------------------------ MODULE Billing ------------------------------
(***************************************************************************)
(* The subscription of one organisation, here and at Stripe.  Checkouts    *)
(* create the customer at Stripe and remember it in a later call; webhooks *)
(* carry a snapshot of a Stripe subscription and arrive at least once, in  *)
(* any order.  Each webhook overwrites the row of the customer it names.   *)
(***************************************************************************)
EXTENDS Naturals, FiniteSets

CONSTANTS Customer,     \* ids Stripe gives to customers
          Subscription, \* ids Stripe gives to subscriptions
          Plan,         \* PRO, BUSINESS
          Checkout,     \* checkout requests
          Delivery,     \* webhook requests handled at the same time
          Nothing,      \* no customer, no subscription
          MaxEvents     \* bound: events of the Stripe subscriptions

ASSUME BillingAssumption ==
  /\ Nothing \notin Customer \cup Subscription \cup Plan
  /\ "FREE" \notin Plan
  /\ MaxEvents \in Nat

StripeStatus == {"incomplete", "incomplete_expired", "trialing", "active", "past_due",
                 "unpaid", "paused", "canceled"}
Status == {"ACTIVE", "TRIALING", "PAST_DUE", "CANCELED", "INCOMPLETE"}

Row == [customer : Customer \cup {Nothing}, sub : Subscription \cup {Nothing},
        plan : Plan \cup {"FREE"}, status : Status]
StripeSub == [customer : Customer, plan : Plan, status : StripeStatus]
Notice == [n : 1..MaxEvents, id : Subscription, sub : StripeSub]

VARIABLES row,       \* the organisation's subscriptions row
          customers, \* customers Stripe has for the organisation
          sessions,  \* open checkout sessions: customer and plan
          subs,      \* Stripe's subscriptions by id
          events,    \* Stripe's events so far
          due,       \* those it still delivers
          step,      \* where a checkout request stands
          found,     \* the customer it will use
          applying,  \* the event a webhook request has found the row for
          applied,   \* history: number of the newest event written to the row
          careless   \* history: what keeps the row from following Stripe

checkouts == <<customers, sessions, step, found>>
stripe == <<subs, events, due>>
billingVars == <<row, checkouts, stripe, applying, applied, careless>>

\* The type invariant.
BillingTypeOK ==
  /\ row \in Row
  /\ customers \subseteq Customer
  /\ row.customer \in customers \cup {Nothing}
  /\ sessions \subseteq customers \X Plan
  /\ \E known \in SUBSET Subscription : subs \in [known -> StripeSub]
  /\ events \subseteq Notice /\ due \subseteq events
  /\ step \in [Checkout -> {"new", "create", "save", "session", "done"}]
  /\ found \in [Checkout -> customers \cup {Nothing}]
  /\ applying \in [Delivery -> events \cup {Nothing}]
  /\ applied \in 0..MaxEvents
  /\ careless \subseteq {"overlap", "failed", "customer", "second", "order"}

\* An organisation is created on the FREE plan, without a customer.
BillingInit ==
  /\ row = [customer |-> Nothing, sub |-> Nothing, plan |-> "FREE", status |-> "ACTIVE"]
  /\ customers = {} /\ sessions = {}
  /\ subs = <<>> /\ events = {} /\ due = {}
  /\ step = [c \in Checkout |-> "new"]
  /\ found = [c \in Checkout |-> Nothing]
  /\ applying = [d \in Delivery |-> Nothing]
  /\ applied = 0
  /\ careless = {}
----------------------------------------------------------------------------
(* createCheckout.                                                         *)

At(c, from, to) == step[c] = from /\ step' = [step EXCEPT ![c] = to]

\* The organisation is read with its subscription.
ReadOrg(c) ==
  /\ At(c, "new", IF row.customer = Nothing THEN "create" ELSE "session")
  /\ found' = [found EXCEPT ![c] = row.customer]
  /\ careless' = IF \E other \in Checkout : step[other] \in {"create", "save"}
                    THEN careless \cup {"overlap"} ELSE careless
  /\ UNCHANGED <<row, customers, sessions, stripe, applying, applied>>

CreateCustomer(c, id) ==
  /\ At(c, "create", "save")
  /\ id \in Customer \ customers
  /\ customers' = customers \cup {id}
  /\ found' = [found EXCEPT ![c] = id]
  /\ UNCHANGED <<row, sessions, stripe, applying, applied, careless>>
\* Mutant: the new customer is not remembered.
SaveNothing(c) ==
  /\ At(c, "save", "session")
  /\ UNCHANGED <<row, customers, sessions, found, stripe, applying, applied, careless>>

\* The row takes the new customer, whatever it had.
SaveCustomer(c) ==
  /\ At(c, "save", "session")
  /\ row' = [row EXCEPT !.customer = found[c]]
  /\ careless' = IF row.customer = Nothing THEN careless ELSE careless \cup {"customer"}
  /\ UNCHANGED <<customers, sessions, found, stripe, applying, applied>>

CreateSession(c) ==
  /\ At(c, "session", "done")
  /\ \E p \in Plan : sessions' = sessions \cup {<<found[c], p>>}
  /\ UNCHANGED <<row, customers, found, stripe, applying, applied, careless>>

\* Stripe or the database throws; a customer that was created stays there.
CheckoutFails(c) ==
  /\ step[c] \in {"create", "save", "session"}
  /\ step' = [step EXCEPT ![c] = "done"]
  /\ careless' = careless \cup {"failed"}
  /\ UNCHANGED <<row, customers, sessions, found, stripe, applying, applied>>
----------------------------------------------------------------------------
(* Stripe.                                                                 *)

Happens(id, sub) ==
  LET notice == [n |-> Cardinality(events) + 1, id |-> id, sub |-> sub] IN
    /\ Cardinality(events) < MaxEvents
    /\ subs' = [i \in DOMAIN subs \cup {id} |-> IF i = id THEN sub ELSE subs[i]]
    /\ events' = events \cup {notice}
    /\ due' = due \cup {notice}

\* customer.subscription.created: the customer completes a session.
Pay(id, s) ==
  /\ s \in sessions /\ id \notin DOMAIN subs
  /\ \E st \in {"incomplete", "trialing", "active"} :
       Happens(id, [customer |-> s[1], plan |-> s[2], status |-> st])
  /\ sessions' = sessions \ {s}
  /\ careless' = IF subs = <<>> THEN careless ELSE careless \cup {"second"}
  /\ UNCHANGED <<row, customers, step, found, applying, applied>>

\* customer.subscription.updated and deleted.
Progress(id) ==
  /\ id \in DOMAIN subs
  /\ subs[id].status \notin {"canceled", "incomplete_expired"}
  /\ \E st \in StripeStatus \ {subs[id].status}, p \in Plan :
       /\ st \in {"incomplete", "incomplete_expired"} => subs[id].status = "incomplete"
       /\ Happens(id, [subs[id] EXCEPT !.status = st, !.plan = p])
  /\ UNCHANGED <<row, checkouts, applying, applied, careless>>
----------------------------------------------------------------------------
(* handleWebhook.                                                          *)

\* reconcileSubscription up to its await: an event of a customer no row has is
\* acknowledged and never delivered again.
FindRecord(d, e) ==
  /\ e \in due /\ applying[d] = Nothing
  /\ IF e.sub.customer = row.customer
       THEN /\ applying' = [applying EXCEPT ![d] = e]
            /\ UNCHANGED <<due, careless>>
       ELSE /\ due' = due \ {e}
            /\ careless' = careless \cup {"customer"}
            /\ UNCHANGED applying
  /\ UNCHANGED <<row, checkouts, subs, events, applied>>

StatusOf(st) == CASE st = "active" -> "ACTIVE"
                  [] st = "trialing" -> "TRIALING"
                  [] st \in {"past_due", "unpaid"} -> "PAST_DUE"
                  [] st \in {"canceled", "incomplete_expired"} -> "CANCELED"
                  [] OTHER -> "INCOMPLETE"

Reconciled(r, id, sub) ==
  [r EXCEPT !.sub = id, !.status = StatusOf(sub.status),
            !.plan = IF sub.status = "canceled" THEN "FREE" ELSE sub.plan]
\* Mutant: the plan is written by the first event only.
ReconcileKeepsPlan(d) ==
  LET e == applying[d] IN
    /\ e # Nothing
    /\ row' = IF row.sub = Nothing THEN Reconciled(row, e.id, e.sub)
              ELSE [Reconciled(row, e.id, e.sub) EXCEPT !.plan = row.plan]
    /\ due' = due \ {e} \/ due' = due
    /\ applying' = [applying EXCEPT ![d] = Nothing]
    /\ applied' = e.n
    /\ UNCHANGED <<checkouts, subs, events, careless>>

\* The update by id, and the answer that Stripe may or may not receive.
Reconcile(d) ==
  LET e == applying[d] IN
    /\ e # Nothing
    /\ row' = Reconciled(row, e.id, e.sub)
    /\ due' = due \ {e} \/ due' = due
    /\ applying' = [applying EXCEPT ![d] = Nothing]
    /\ IF e.n < applied
         THEN /\ careless' = careless \cup {"order"}
              /\ UNCHANGED applied
         ELSE /\ careless' = careless \ {"order"}
              /\ applied' = e.n
    /\ UNCHANGED <<checkouts, subs, events>>
\* Mutant: the error is logged and the event acknowledged.
FailureAcknowledged(d) ==
  /\ applying[d] # Nothing
  /\ due' = due \ {applying[d]}
  /\ applying' = [applying EXCEPT ![d] = Nothing]
  /\ UNCHANGED <<row, checkouts, subs, events, applied, careless>>

\* The handler throws before its update: Stripe delivers the event again.
WebhookFails(d) ==
  /\ applying[d] # Nothing
  /\ applying' = [applying EXCEPT ![d] = Nothing]
  /\ UNCHANGED <<row, checkouts, stripe, applied, careless>>

BillingNext ==
  \/ \E c \in Checkout : \/ ReadOrg(c) \/ SaveCustomer(c) \/ CreateSession(c)
                         \/ CheckoutFails(c) \/ \E id \in Customer : CreateCustomer(c, id)
  \/ \E id \in Subscription : Progress(id) \/ \E s \in sessions : Pay(id, s)
  \/ \E d \in Delivery : Reconcile(d) \/ WebhookFails(d) \/ \E e \in due : FindRecord(d, e)

BillingSpec == BillingInit /\ [][BillingNext]_billingVars
----------------------------------------------------------------------------
(* Properties.                                                             *)

\* "a signature-verified webhook reconciles the local subscription": once Stripe
\* has nothing left to deliver, the row shows what Stripe has, unless a customer
\* was overwritten, there is a second subscription, or the last event written is
\* older than one written before.
ReconciledWithoutRaces ==
  \A id \in DOMAIN subs :
    due = {} /\ (\A d \in Delivery : applying[d] = Nothing)
      /\ careless \cap {"customer", "second", "order"} = {} =>
        row = Reconciled(row, id, subs[id])

\* No mixture: whatever arrives when, the row shows one event of one subscription
\* as Stripe sent it, and a plan is never shown that nobody has bought.
RowIsOneEvent ==
  \/ row.sub = Nothing /\ row.plan = "FREE"
  \/ \E e \in events : row = Reconciled(row, e.id, e.sub)

\* Checkouts that overlap, or fail before they save, leave a customer behind that
\* the row has forgotten; in turn, they share one, and no event names another.
OneCustomerInTurn ==
  careless \cap {"overlap", "failed"} = {} =>
    Cardinality(customers) <= 1 /\ "customer" \notin careless
=============================================================================
