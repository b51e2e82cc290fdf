--------------------------- MODULE VerificationMC ---------------------------
(***************************************************************************)
(* Small instances of Verification.                                        *)
(***************************************************************************)
EXTENDS Verification, TLC

CONSTANTS u1, u2, d1, d2, r1, r2

Symmetry == Permutations(User) \cup Permutations(Doc) \cup Permutations(Request)
=============================================================================
