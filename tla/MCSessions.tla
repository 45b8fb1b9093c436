----------------------------- MODULE MCSessions ----------------------------
(* Small instances of RefreshTokens and AuthClient: a behaviour is one of  *)
(* TokenService with callers that know any token ("anybody"), or one of a  *)
(* browser with its tabs ("browser").                                      *)
EXTENDS AuthClient, TLC

CONSTANTS t1, t2, t3, f1, f2, u1, r1

VARIABLE subject

BrowserRests ==
  /\ Init
  /\ cookie = None /\ sub = [x \in Tab |-> None] /\ stale = {} /\ sentOk = {}
  /\ restore = [x \in Tab |-> "done"] /\ call = [x \in Tab |-> [c \in Call |-> "idle"]]
  /\ ex = [x \in Tab |-> NoEx] /\ serving = [r \in Req |-> None]
  /\ troubles = 0 /\ lastUser = None /\ upset = FALSE

MCInit ==
  \/ subject = "anybody" /\ BrowserRests
  \/ subject = "browser" /\ ClientInit

MCNext ==
  /\ UNCHANGED subject
  /\ \/ subject = "anybody" /\ Next /\ UNCHANGED clientVars
     \/ subject = "browser" /\ ClientNext

MCSpec == MCInit /\ [][MCNext]_<<subject, allVars>> /\ Fairness

\* Ids are used in a fixed order: the first token is u1's, in f1, minted by r1.
InOrder ==
  /\ t2 \in rows => t1 \in rows
  /\ t3 \in rows => t2 \in rows
  /\ f2 \in families => f1 \in families
  /\ t1 \in rows => userId[t1] = u1 /\ familyId[t1] = f1 /\ minter[t1] = r1

\* One session expires at most, and with two sessions at work none of TokenService
\* alone; a browser in a behaviour that has gone wrong sees fewer troubles and one
\* login.
Bounds ==
  /\ InOrder
  /\ Cardinality(expired) <= 1 /\ (subject = "anybody" /\ f2 \in families => expired = {})
  /\ subject = "browser" =>
       /\ Cardinality(families) + troubles <= IF upset THEN 2 ELSE 3
       /\ upset => f2 \notin families
=============================================================================
