--------------------------- MODULE AdminAccountsMC ---------------------------
(***************************************************************************)
(* Small instances of AdminAccounts.                                       *)
(***************************************************************************)
EXTENDS AdminAccounts, TLC

CONSTANTS a1, a2, s1, s2, b1, b2, r1, r2

\* Operations that touch the same rows are explored together.
Groups ==
  {{"login", "beginMfa", "confirmMfa", "bootstrap"},
   {"login", "refresh", "logout", "changePassword"},
   {"login", "create", "setStatus", "changePassword"}}

SignInOnly == {{"login"}}

Symmetry == Permutations(Session) \cup Permutations(Batch) \cup Permutations(Request)
=============================================================================
