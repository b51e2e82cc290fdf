--------------------------- MODULE MarketplaceMC ---------------------------
(***************************************************************************)
(* Small instances of Marketplace: one seller per listing.                 *)
(***************************************************************************)
EXTENDS Marketplace, TLC

CONSTANTS j1, j2, l1, l2, s1, r1, r2

OneSeller == [l \in Listing |-> s1]

Symmetry == Permutations(Jeweller) \cup Permutations(Listing) \cup Permutations(Request)
=============================================================================
