--------------------------- MODULE CredentialLife --------------------------
(***************************************************************************)
(* What the API promises about a credential it hands out: it comes to life *)
(* once and, once it is dead, no sequence of requests revives it.  A       *)
(* refresh-token family (a login) and an invite link are credentials.      *)
(***************************************************************************)
CONSTANT Credential

VARIABLE state

\* The stages a credential may go through in one step.
Ageing == {<<"none", "none">>, <<"none", "alive">>, <<"alive", "alive">>,
           <<"alive", "dead">>, <<"dead", "dead">>}

Init == state = [c \in Credential |-> "none"]

\* One request may kill a credential and issue its replacement in one write.
Next == \A c \in Credential : <<state[c], state'[c]>> \in Ageing

Spec == Init /\ [][Next]_state
=============================================================================
