----------------------------- MODULE MCServices ----------------------------
(* Small instances of the components that share no state: a behaviour      *)
(* moves one of them, its subject, and the others stand still.             *)
EXTENDS Notifications, Billing, Attachments, Seed, BoardDrop, RankLoop, TLC

CONSTANTS issueAssigned, issueStatusChanged, emailOnAssigned, emailOnMentioned,
          customer1, subscription1, key1, key2, key3, issue1, issue2, MaxLen

VARIABLE subject

MCPrefOf == (issueAssigned :> emailOnAssigned) @@ (issueStatusChanged :> Always)
MCIssueOf == (key1 :> issue1) @@ (key2 :> issue1) @@ (key3 :> issue2)
MCRank == UNION {[1..n -> Digit] : n \in 0..MaxLen}

MCInit ==
  /\ subject \in {"notifications", "billing", "attachments", "seed", "drop", "rank"}
  /\ NotifyInit /\ BillingInit /\ AttachmentsInit /\ SeedInit /\ BoardInit
  /\ subject # "notifications" => type = [j \in Job |-> issueAssigned]
  /\ IF subject = "rank" THEN Init
     ELSE a = Open /\ b = Open /\ result = Open /\ upperOpen = TRUE /\ pc = "thrown"

MCNext ==
  /\ UNCHANGED subject
  /\ \/ /\ subject = "notifications" /\ NotifyNext
        /\ UNCHANGED <<billingVars, attachmentVars, seedVars, boardVars, vars>>
     \/ /\ subject = "billing" /\ BillingNext
        /\ UNCHANGED <<notifyVars, attachmentVars, seedVars, boardVars, vars>>
     \/ /\ subject = "attachments" /\ AttachmentsNext
        /\ UNCHANGED <<notifyVars, billingVars, seedVars, boardVars, vars>>
     \/ /\ subject = "seed" /\ SeedNext
        /\ UNCHANGED <<notifyVars, billingVars, attachmentVars, boardVars, vars>>
     \/ /\ subject = "drop" /\ BoardNext
        /\ UNCHANGED <<notifyVars, billingVars, attachmentVars, seedVars, vars>>
     \/ /\ subject = "rank" /\ Next
        /\ UNCHANGED <<notifyVars, billingVars, attachmentVars, seedVars, boardVars>>

MCSpec == /\ MCInit /\ [][MCNext]_<<subject, notifyVars, billingVars, attachmentVars, seedVars, boardVars, vars>>
          /\ NotifyFairness /\ WF_vars(Next)

\* The type invariants of the components, which hold side by side.
ServicesTypeOK ==
  /\ NotifyTypeOK /\ BillingTypeOK /\ AttachmentsTypeOK /\ SeedTypeOK /\ DropTypeOK
  /\ TypeOK

\* The settings panel rests while a job is under way: emailOnAssigned changes then
\* as others write it, which the worker cannot tell from a toggle.  Ids of Stripe
\* are used in a fixed order, and the rarer statuses in two events.
Bounds ==
  /\ (\E j \in Job : job[j] # "new") =>
       /\ clicks = {} /\ misses = 0 /\ panel = Pref /\ prefQuery = IdleQuery
       /\ emailOnMentioned \in pref /\ outdated \subseteq {emailOnAssigned}
       /\ Cardinality(read) <= 1
  /\ customers # {} => customer1 \in customers
  /\ subs # <<>> => subscription1 \in DOMAIN subs
  /\ \/ Cardinality(events) <= 2
     \/ \A e \in events : e.sub.status \in {"incomplete", "incomplete_expired", "active", "canceled"}
=============================================================================
