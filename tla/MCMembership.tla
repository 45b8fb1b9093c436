---------------------------- MODULE MCMembership ---------------------------
(* Small instances of Membership for TLC.                                  *)
EXTENDS Membership, FiniteSets, TLC

CONSTANTS Bob, bob, amy

\* Two people, or one with two accounts whose addresses are equal up to case.
MCPeople == {bob, amy}
MCLowerPeople == (bob :> bob) @@ (amy :> amy)
MCCases == {Bob, bob}
MCLowerCases == (Bob :> bob) @@ (bob :> bob)
MCEverybody == {Bob, bob, amy}
MCLowerEverybody == MCLowerPeople @@ MCLowerCases

\* Nothing has an address of this name in it.
OutOfPlay(e) ==
  /\ e \notin users
  /\ \A o \in Org : invite[<<o, e>>] = None
  /\ \A r \in Req : req[r].key = None \/ req[r].key[2] # e

OneRoleOnly ==
  /\ \A g \in granted : g[3] = "ADMIN"
  /\ \A r \in Req : req[r].role \in {"ADMIN", "OWNER", None}

\* bob and amy in one organisation with two different grants, or Bob and bob in two
\* with one role and one link in play.
Bounds ==
  \/ /\ OutOfPlay(Bob)
     /\ Cardinality(orgs) <= 1 /\ Cardinality(granted) <= 2
     /\ \A r \in Req : req[r].key = None \/ \A o \in orgs : req[r].key[1] = o
  \/ OutOfPlay(amy) /\ OneRoleOnly /\ Cardinality(issued) <= 1

Symmetric == Permutations(Org) \cup Permutations(InviteToken) \cup Permutations(Req)
=============================================================================
