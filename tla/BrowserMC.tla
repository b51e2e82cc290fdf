------------------------------ MODULE BrowserMC ------------------------------
(***************************************************************************)
(* A small instance of Browser.                                            *)
(***************************************************************************)
EXTENDS Browser, TLC

CONSTANTS t1, t2

Symmetry == Permutations(Tab)
=============================================================================
