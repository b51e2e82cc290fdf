------------------------------- MODULE PagesMC -------------------------------
(***************************************************************************)
(* Small instances of Pages: three rows, two of them of one millisecond.   *)
(***************************************************************************)
EXTENDS Pages

MCStamp == [r \in Row |-> r + 1]

MCSpot ==
  {[far |-> 5, unknown |-> FALSE, city |-> TRUE, state |-> TRUE],
   [far |-> 1, unknown |-> FALSE, city |-> FALSE, state |-> TRUE],
   [far |-> 0, unknown |-> TRUE, city |-> TRUE, state |-> TRUE]}
=============================================================================
