-------------------------- MODULE MCRefreshTokens --------------------------
(* Small instances of RefreshTokens for TLC.                               *)
EXTENDS RefreshTokens, TLC

\* Tokens, families, users and handlers are interchangeable.
Symmetric == Permutations(Token) \cup Permutations(Family)
               \cup Permutations(User) \cup Permutations(Req)
=============================================================================
