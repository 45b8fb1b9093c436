----------------------------- MODULE MCPresence ----------------------------
(* Small instances of Presence for TLC: s1 and s2 are tabs of one user;    *)
(* u1 sees every project, u2 only p1.                                      *)
EXTENDS Presence

CONSTANTS s1, s2, s3, u1, u2, p1

MCUserOf == [s \in Socket |-> IF s = s3 THEN u2 ELSE u1]
MCMember == ({u1} \X Project) \cup {<<u2, p1>>}
=============================================================================
