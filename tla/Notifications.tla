--------------------------- MODULE Notifications ---------------------------
(***************************************************************************)
(* Notifications of one user: issue requests that enqueue a job after      *)
(* their commit, the BullMQ queue, the worker with its three attempts, the *)
(* inbox and its read marks, and the settings panel that mutes the mails.  *)
(* Nothing spans the worker's calls, so an attempt that fails leaves what  *)
(* it has done to the next one.                                            *)
(***************************************************************************)
EXTENDS Naturals, FiniteSets

CONSTANTS Job,         \* assignments that ask for a notification
          Type,        \* notification types
          Pref,        \* emailOnAssigned, emailOnMentioned, ...
          Always,      \* the rule of a type that no preference gates
          PrefOf,      \* EMAIL_RULES[type].pref
          Toggle,      \* clicks in the settings panel under way at the same time
          MaxAttempts, \* enqueue: attempts: 3
          MaxStalls,   \* BullMQ's maxStalledCount
          MaxMisses    \* bound: requests of the panel that fail

ASSUME NotificationsAssumption ==
  /\ Always \notin Pref
  /\ PrefOf \in [Type -> Pref \cup {Always}]
  /\ MaxAttempts \in Nat \ {0} /\ MaxStalls \in Nat /\ MaxMisses \in Nat

VARIABLES job,      \* where the request, and then its job, stands
          type,     \* its notification type
          attempts, \* attempts that have failed
          stalls,   \* times the worker died on it
          inbox,    \* notification rows: the job and its run that wrote it
          read,     \* rows with readAt set
          mails,    \* mails handed to the transport
          pref,     \* the user's preferences that are on
          panel,    \* what the settings panel shows: preferences that are on
          prefQuery, \* the panel's query: "idle", "asked" or the answer's snapshot
          clicks,   \* toggles under way
          misses,   \* number of failed panel requests
          outdated, \* history: preferences that others have written since the server
                    \* last answered the panel; all, when its last fetch failed
          allowed   \* history: jobs whose preference was on at some time of their
                    \* run, from when the worker took them to when it asked

worker == <<job, type, attempts, stalls, inbox, mails>>
settings == <<pref, panel, prefQuery, clicks, misses, outdated>>
notifyVars == <<worker, read, settings, allowed>>

Active == {"create", "lookup", "mail", "return"}
Over == {"unsent", "completed", "failed"}
Click == [by : Toggle, pref : Pref, on : BOOLEAN, previous : SUBSET Pref, saved : BOOLEAN]
Run(j) == attempts[j] + stalls[j] + 1

\* The type invariant.
NotifyTypeOK ==
  /\ job \in [Job -> {"new", "committed", "waiting"} \cup Active \cup Over]
  /\ type \in [Job -> Type]
  /\ attempts \in [Job -> 0..MaxAttempts] /\ stalls \in [Job -> 0..MaxStalls + 1]
  /\ inbox \subseteq Job \X (1..MaxAttempts + MaxStalls)
  /\ read \subseteq inbox
  /\ mails \in [Job -> 0..MaxAttempts + MaxStalls]
  /\ pref \subseteq Pref /\ panel \subseteq Pref
  /\ prefQuery \in {"idle", "asked"} \X {{}} \cup {"answered"} \X SUBSET Pref
  /\ clicks \subseteq Click /\ \A x, y \in clicks : x.by = y.by => x = y
  /\ misses \in 0..MaxMisses /\ outdated \subseteq Pref
  /\ allowed \subseteq Job

IdleQuery == <<"idle", {}>>
AskedQuery == <<"asked", {}>>

\* The panel is open and has loaded the preferences.
NotifyInit ==
  /\ job = [j \in Job |-> "new"]
  /\ type \in [Job -> Type]
  /\ attempts = [j \in Job |-> 0] /\ stalls = [j \in Job |-> 0]
  /\ inbox = {} /\ read = {}
  /\ mails = [j \in Job |-> 0]
  /\ pref = Pref /\ panel = Pref /\ prefQuery = IdleQuery
  /\ clicks = {} /\ misses = 0 /\ outdated = {}
  /\ allowed = {}

Mailable(j, on) == PrefOf[type[j]] \in on \cup {Always}
----------------------------------------------------------------------------
(* The request.                                                            *)

To(j, place) == job' = [job EXCEPT ![j] = place]

\* create or update has committed and found somebody else newly assigned.
Assigned(j) ==
  /\ job[j] = "new"
  /\ To(j, "committed")
  /\ UNCHANGED <<type, attempts, stalls, inbox, mails, read, settings, allowed>>

\* queue.add.  When it fails, so does the request, although it took effect; sent
\* again, it finds the assignee in place already and enqueues nothing.
Enqueue(j) ==
  /\ job[j] = "committed"
  /\ To(j, "waiting") \/ To(j, "unsent")
  /\ UNCHANGED <<type, attempts, stalls, inbox, mails, read, settings, allowed>>
----------------------------------------------------------------------------
(* The worker.                                                             *)

Take(j) ==
  /\ job[j] = "waiting"
  /\ To(j, "create")
  /\ allowed' = IF Mailable(j, pref) THEN allowed \cup {j} ELSE allowed \ {j}
  /\ UNCHANGED <<type, attempts, stalls, inbox, mails, read, settings>>

CreateRow(j) ==
  /\ job[j] = "create"
  /\ inbox' = inbox \cup {<<j, Run(j)>>}
  /\ To(j, IF PrefOf[type[j]] = Always THEN "return" ELSE "lookup")
  /\ UNCHANGED <<type, attempts, stalls, mails, read, settings, allowed>>
\* Mutant: the preference is asked for in the first run only.
LookupOnce(j) ==
  /\ job[j] = "lookup"
  /\ To(j, IF Run(j) > 1 \/ Mailable(j, pref) THEN "mail" ELSE "return")
  /\ UNCHANGED <<type, attempts, stalls, inbox, mails, read, settings, allowed>>

LookupUser(j) ==
  /\ job[j] = "lookup"
  /\ To(j, IF Mailable(j, pref) THEN "mail" ELSE "return")
  /\ UNCHANGED <<type, attempts, stalls, inbox, mails, read, settings, allowed>>
\* Mutant: send throws when the transport has taken the mail and not answered.
SendThrows(j) ==
  /\ job[j] = "mail"
  /\ mails' = [mails EXCEPT ![j] = @ + 1]
  /\ attempts' = [attempts EXCEPT ![j] = @ + 1]
  /\ To(j, IF attempts'[j] < MaxAttempts THEN "waiting" ELSE "failed")
  /\ UNCHANGED <<type, stalls, inbox, read, settings, allowed>>

\* MailService.send never throws: the mail may leave or not.
SendMail(j) ==
  /\ job[j] = "mail"
  /\ mails' = [mails EXCEPT ![j] = @ + 1] \/ mails' = mails
  /\ To(j, "return")
  /\ UNCHANGED <<type, attempts, stalls, inbox, read, settings, allowed>>

Complete(j) ==
  /\ job[j] = "return"
  /\ To(j, "completed")
  /\ UNCHANGED <<type, attempts, stalls, inbox, mails, read, settings, allowed>>
\* Mutant: process logs the error of a call and returns.
FailureSwallowed(j) ==
  /\ job[j] \in {"create", "lookup"}
  /\ To(j, "return")
  /\ UNCHANGED <<type, attempts, stalls, inbox, mails, read, settings, allowed>>


\* Mutant: failed attempts are not counted.
RetriesForever(j) ==
  /\ job[j] \in {"create", "lookup"}
  /\ To(j, "waiting")
  /\ UNCHANGED <<type, attempts, stalls, inbox, mails, read, settings, allowed>>

\* A database call throws; an insert may have been carried out nevertheless.
AttemptFails(j) ==
  /\ job[j] \in {"create", "lookup"}
  /\ inbox' = inbox \/ (job[j] = "create" /\ inbox' = inbox \cup {<<j, Run(j)>>})
  /\ attempts' = [attempts EXCEPT ![j] = @ + 1]
  /\ To(j, IF attempts'[j] < MaxAttempts THEN "waiting" ELSE "failed")
  /\ UNCHANGED <<type, stalls, mails, read, settings, allowed>>

\* The worker's process dies, or the job was carried out and Redis did not hear of
\* it: BullMQ hands a stalled job out again, a limited number of times.
Stall(j) ==
  /\ job[j] \in Active
  /\ stalls' = [stalls EXCEPT ![j] = @ + 1]
  /\ To(j, IF stalls'[j] <= MaxStalls THEN "waiting" ELSE "failed")
  /\ UNCHANGED <<type, attempts, inbox, mails, read, settings, allowed>>
----------------------------------------------------------------------------
(* The user.                                                               *)

MarkRead(ids) ==
  /\ ids \subseteq inbox /\ ids # {}
  /\ read' = read \cup ids
  /\ UNCHANGED <<worker, settings, allowed>>

\* onMutate of a toggle.
Switch(t, p) ==
  /\ \A c \in clicks : c.by # t
  /\ panel' = IF p \in panel THEN panel \ {p} ELSE panel \cup {p}
  /\ prefQuery' = IdleQuery
  /\ clicks' = clicks \cup {[by |-> t, pref |-> p, on |-> p \notin panel,
                             previous |-> panel, saved |-> FALSE]}
  /\ UNCHANGED <<worker, read, pref, misses, outdated, allowed>>

\* updatePrefs: one column is written.
Write(p, on) ==
  /\ pref' = IF on THEN pref \cup {p} ELSE pref \ {p}
  /\ allowed' = allowed \cup {j \in Job : job[j] \in {"create", "lookup"} /\ Mailable(j, pref')}
  /\ UNCHANGED <<worker, read, panel, prefQuery, misses>>

UpdatePrefs(c) ==
  /\ c \in clicks /\ ~c.saved
  /\ Write(c.pref, c.on)
  /\ clicks' = (clicks \ {c}) \cup {[c EXCEPT !.saved = TRUE]}
  /\ UNCHANGED outdated

\* The same for a toggle the panel has given up, whose request the server carries
\* out all the same, or for one of another tab of the user.
OtherUpdate(p, on) ==
  /\ Write(p, on)
  /\ outdated' = outdated \cup {p}
  /\ UNCHANGED clicks

Miss == misses < MaxMisses /\ misses' = misses + 1
\* Mutant: the query is not invalidated.
SettledWithoutAsking(c) ==
  /\ c \in clicks
  /\ \/ c.saved /\ UNCHANGED <<panel, misses>>
     \/ panel' = c.previous /\ Miss
  /\ clicks' = clicks \ {c}
  /\ UNCHANGED <<worker, read, pref, prefQuery, outdated, allowed>>

\* The answer, or none: onError restores what the panel showed before the click,
\* onSettled asks again.  A request that has failed for the panel may still be
\* carried out, by OtherUpdate.
Settled(c) ==
  /\ c \in clicks
  /\ \/ c.saved /\ UNCHANGED <<panel, misses>>
     \/ panel' = c.previous /\ Miss
  /\ clicks' = clicks \ {c}
  /\ prefQuery' = AskedQuery
  /\ UNCHANGED <<worker, read, pref, outdated, allowed>>

GetPrefs ==
  /\ prefQuery = AskedQuery
  /\ prefQuery' = <<"answered", pref>>
  /\ outdated' = {}
  /\ UNCHANGED <<worker, read, pref, panel, clicks, misses, allowed>>

ShowPrefs ==
  /\ prefQuery[1] = "answered"
  /\ panel' = prefQuery[2]
  /\ prefQuery' = IdleQuery
  /\ UNCHANGED <<worker, read, pref, clicks, misses, outdated, allowed>>

GetPrefsFails ==
  /\ prefQuery # IdleQuery
  /\ prefQuery' = IdleQuery
  /\ outdated' = Pref
  /\ Miss
  /\ UNCHANGED <<worker, read, pref, panel, clicks, allowed>>

Process(j) == Enqueue(j) \/ Take(j) \/ CreateRow(j) \/ LookupUser(j) \/ SendMail(j)
                \/ Complete(j)

NotifyNext ==
  \/ \E j \in Job : Assigned(j) \/ Process(j) \/ AttemptFails(j) \/ Stall(j)
  \/ \E ids \in SUBSET inbox : MarkRead(ids)
  \/ \E t \in Toggle, p \in Pref : Switch(t, p)
  \/ \E c \in clicks : UpdatePrefs(c) \/ Settled(c)
  \/ \E p \in Pref, on \in BOOLEAN : OtherUpdate(p, on)
  \/ GetPrefs \/ ShowPrefs \/ GetPrefsFails

\* A request that has committed goes on; the worker takes jobs and works on them.
NotifyFairness == \A j \in Job : WF_notifyVars(Process(j))

NotifySpec == NotifyInit /\ [][NotifyNext]_notifyVars /\ NotifyFairness
----------------------------------------------------------------------------
(* Properties.                                                             *)

\* "always writes the in-app row": a completed job has one.  Repeated attempts
\* each leave theirs, so there may be several, but no more than attempts and deaths.
RowsPerRun ==
  \A j \in Job :
    LET written == {r \in inbox : r[1] = j} IN
      /\ job[j] = "completed" => written # {}
      /\ Cardinality(written) <= MaxAttempts + stalls[j]

\* Failed attempts repeat no mail: send swallows its errors and is the last call
\* of an attempt.  Only a worker that died after sending leads to another one.
OneMailUnlessStalled == \A j \in Job : mails[j] <= 1 + stalls[j]

\* The worker reads the preference anew in every run of a job: one that has been
\* off from the beginning of the run until the worker asked mutes the run's mail,
\* although it was on at the assignment or in an earlier run.
MutedMeansSilent == [][\A j \in Job : mails'[j] # mails[j] => j \in allowed]_notifyVars

\* Toggles that overlap restore each other's values when they fail; once the last
\* one has settled and the fetch it caused is in, the panel shows the user's row,
\* but for what others, or requests the panel has given up, wrote after the answer.
PanelInSync ==
  clicks = {} /\ prefQuery = IdleQuery =>
    \A p \in Pref \ outdated : p \in panel <=> p \in pref

\* Every assignment that was committed is notified or given up.
JobsEnd == \A j \in Job : job[j] = "committed" ~> job[j] \in Over
=============================================================================
