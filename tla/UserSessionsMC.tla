--------------------------- MODULE UserSessionsMC ---------------------------
(***************************************************************************)
(* Small instances of UserSessions.                                        *)
(***************************************************************************)
EXTENDS UserSessions, TLC

CONSTANTS t1, t2, t3, k1, r1, r2

Symmetry == Permutations(Token) \cup Permutations(Request)
=============================================================================
