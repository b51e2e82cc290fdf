------------------------------- MODULE Sale -------------------------------
(***************************************************************************)
(* What the marketplace promises about the sale of a listing, whatever     *)
(* requests run at the same time: a listing is published once, is          *)
(* withdrawn or agreed with exactly one of the bids placed on it, is       *)
(* cleared when the commission of that agreement is settled, and only      *)
(* then sold, to that bidder.  A sale is one value: the four tables that   *)
(* store it (gold_listings, private_bids, deals, platform_commissions)     *)
(* never show a mixture of two stages.                                     *)
(***************************************************************************)
CONSTANTS Listing,   \* what is sold
          Bid,       \* the bids that can be placed
          BidsOn  \* the bids that can be placed on a listing

VARIABLE sale        \* the stage of each listing's sale and the bids it went to

Stage == {"draft", "open", "withdrawn", "agreed", "cleared", "sold"}

TypeOK == sale \in [Listing -> [stage : Stage, winners : SUBSET Bid]]

Init == sale = [l \in Listing |-> [stage |-> "draft", winners |-> {}]]

Move(l, from, to, winners) ==
  /\ sale[l].stage = from
  /\ sale' = [sale EXCEPT ![l] = [stage |-> to, winners |-> winners]]

Publish(l)  == Move(l, "draft", "open", {})
Withdraw(l) == Move(l, "open", "withdrawn", {})
Agree(l, b) == b \in BidsOn[l] /\ Move(l, "open", "agreed", {b})
Clear(l)    == Move(l, "agreed", "cleared", sale[l].winners)
Sell(l)     == Move(l, "cleared", "sold", sale[l].winners)

Next == \E l \in Listing : \/ Publish(l) \/ Withdraw(l) \/ Clear(l) \/ Sell(l)
                           \/ \E b \in Bid : Agree(l, b)

Spec == Init /\ [][Next]_sale
=============================================================================
