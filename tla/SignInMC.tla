------------------------------ MODULE SignInMC ------------------------------
(***************************************************************************)
(* A small instance of SignIn.                                             *)
(***************************************************************************)
EXTENDS SignIn, TLC

CONSTANTS u1, u2, p1, p2, m1, s1, i1, r1, r2

\* Operations that touch the same rows are explored together.
Groups ==
  {{"login", "register"},
   {"register", "sendRegister", "registerByCode", "sendPhone", "verifyPhone", "sendLogin",
    "loginByCode"},
   {"register", "loginByIdentity", "registerByIdentity", "sendLetter", "verifyEmail"}}

OneAddress == [s \in Subject |-> m1]

Symmetry == Permutations(User) \cup Permutations(Phone) \cup Permutations(Request)
=============================================================================
