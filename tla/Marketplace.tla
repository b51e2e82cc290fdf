---------------------------- MODULE Marketplace ----------------------------
(***************************************************************************)
(* Listings, private bids, deals and platform commissions: the request     *)
(* handlers of modules/{listings,bids,deals,commissions,adminCommissions}  *)
(* as PostgreSQL READ COMMITTED transactions that interleave statement by  *)
(* statement.                                                              *)
(*                                                                         *)
(* The table variables hold committed rows.  A request in flight is a      *)
(* record of tx: what it does, to which row, the statement it executes     *)
(* next and the rows it has written, which stay locked until it ends.      *)
(* Nothing is published before COMMIT, and a locked row changes only by    *)
(* the commit of its holder, so the written values are a function of op,   *)
(* arg and rows and need not be stored.  A statement evaluates its WHERE   *)
(* on committed rows when the rows it matches are free, which is the       *)
(* re-check PostgreSQL performs after waiting for a row.                   *)
(***************************************************************************)
EXTENDS Naturals

CONSTANTS
  Jeweller, Seller,     \* registered, verified users (users.role)
  Listing,              \* gold_listings.id
  SellerOf,             \* gold_listings.seller_id
  Attempt,              \* bound: bids of one jeweller on one listing
  Request,              \* bound: requests handled concurrently
  Blockable,            \* bound: users an admin blocks and unblocks
  MaxPayments,          \* the code's limit of 5 payment submissions
  MaxEdits,             \* bound: edits of one listing
  None                  \* "no argument" of an idle request

ASSUME SellerOfType   == SellerOf \in [Listing -> Seller]
ASSUME PaymentsNat    == MaxPayments \in Nat
ASSUME EditsNat       == MaxEdits \in Nat

\* A bid is named by its jeweller, its listing and a number: the code's
\* random id names no more, and jeweller_id and listing_id never change.
Bid == Jeweller \X Listing \X Attempt
JewellerOf(b) == b[1]
ListingOf(b)  == b[2]
User == Jeweller \cup Seller

BidStatus        == {"NONE", "PENDING", "ACCEPTED", "REJECTED"}
ListingStatus    == {"NONE", "ACTIVE", "BID_ACCEPTED", "SOLD", "CANCELLED"}
DealStatus       == {"NONE", "COMMISSION_PENDING", "READY_TO_SETTLE", "COMPLETED"}
\* FAILED and DISPUTED, which the queries also count as unpaid, are never
\* written by the code.
Unpaid           == {"PENDING", "PAYMENT_INITIATED"}
Settled          == {"PAID", "WAIVED"}
CommissionStatus == {"NONE"} \cup Unpaid \cup Settled

VARIABLES
  bid,         \* private_bids.status, "NONE" where no row is
  listing,     \* gold_listings.status
  edits,       \* committed edits of a listing's terms
  deal,        \* deals.status, by accepted_bid_id
  commission,  \* platform_commissions.status, by the deal's accepted bid
  payments,    \* platform_commissions.payment_attempt_count
  lock,        \* users.commission_lock_status of the jewellers
  account,     \* users.account_status
  tx           \* the requests in flight

tables == <<bid, listing, edits, deal, commission, payments, lock, account>>
vars   == <<bid, listing, edits, deal, commission, payments, lock, account, tx>>

Op == {"create", "edit", "cancel", "place", "accept", "reject", "submit",
       "PAID", "WAIVED", "complete"}
Statement == {"updateListing", "cancelListing", "rejectPending", "findListing", "insertBid",
              "findBid", "takeBid", "rejectOthers", "takeListing", "lockJeweller",
              "submitPayment", "settle", "readyDeal", "countUnpaid", "unlockJeweller",
              "findDeal", "completeDeal", "sellListing", "commit"}

BidRow(b)        == <<"bid", b>>
ListingRow(l)    == <<"listing", l>>
DealRow(b)       == <<"deal", b>>
CommissionRow(b) == <<"commission", b>>
UserRow(u)       == <<"user", u>>
Row == ({"bid", "deal", "commission"} \X Bid) \cup ({"listing"} \X Listing)
         \cup ({"user"} \X User)

Idle == [op |-> "idle", arg |-> None, pc |-> "idle", rows |-> {}]

Init ==
  /\ bid = [b \in Bid |-> "NONE"]
  /\ listing = [l \in Listing |-> "NONE"]
  /\ edits = [l \in Listing |-> 0]
  /\ deal = [b \in Bid |-> "NONE"]
  /\ commission = [b \in Bid |-> "NONE"]
  /\ payments = [b \in Bid |-> 0]
  /\ lock = [j \in Jeweller |-> "CLEAR"]
  /\ account = [u \in User |-> "ACTIVE"]
  /\ tx = [r \in Request |-> Idle]

----------------------------------------------------------------------------
(* Transactions.                                                           *)

At(r, op, pc) == tx[r].op = op /\ tx[r].pc = pc

HeldByOthers(r) == UNION {tx[q].rows : q \in Request \ {r}}

\* A request is authenticated: pc is its first statement.  It may hold the row
\* that it inserts under a fresh id.
Begin(r, op, arg, rows, pc) ==
  /\ tx[r] = Idle
  /\ rows \cap HeldByOthers(r) = {}
  /\ tx' = [tx EXCEPT ![r] = [op |-> op, arg |-> arg, pc |-> pc, rows |-> rows]]
  /\ UNCHANGED tables

\* A statement writes the given rows, all free, and pc is the next one.
Claim(r, rows, pc) ==
  /\ rows \cap HeldByOthers(r) = {}
  /\ tx' = [tx EXCEPT ![r] = [op |-> tx[r].op, arg |-> tx[r].arg, pc |-> pc,
                               rows |-> tx[r].rows \cup rows]]
  /\ UNCHANGED tables

\* MUTANT: an error ends the handler and not its transaction (no ROLLBACK).
FailLeak(r) == UNCHANGED vars

\* ROLLBACK: an error is thrown out of the callback, nothing is published.
Fail(r) ==
  /\ tx' = [tx EXCEPT ![r] = Idle]
  /\ UNCHANGED tables

\* COMMIT releases the rows; the caller says what becomes visible.
End(r) == tx' = [tx EXCEPT ![r] = Idle]

PendingOn(l) == {b \in Bid : ListingOf(b) = l /\ bid[b] = "PENDING"}
SameKey(b)   == {c \in Bid : JewellerOf(c) = JewellerOf(b) /\ ListingOf(c) = ListingOf(b)}

RowIf(row, condition) == IF condition THEN {row} ELSE {}

\* The rows the next statement of r writes: those its WHERE matches.
Need(r) ==
  LET a == tx[r].arg
      l == ListingOf(a) IN
  CASE tx[r].pc \in {"updateListing", "cancelListing"} ->
         RowIf(ListingRow(a), listing[a] = "ACTIVE")
    [] tx[r].pc = "rejectPending"  -> {BidRow(b) : b \in PendingOn(a)}
    \* The insert waits for whoever holds a row of its unique-index key.
    [] tx[r].pc = "insertBid"      -> {BidRow(b) : b \in SameKey(a)}
    [] tx[r].pc = "takeBid"        -> RowIf(BidRow(a), bid[a] = "PENDING")
    [] tx[r].pc = "rejectOthers"   -> {BidRow(b) : b \in PendingOn(l) \ {a}}
    [] tx[r].pc = "takeListing"    -> RowIf(ListingRow(l), listing[l] = "ACTIVE")
    [] tx[r].pc = "lockJeweller"   -> {UserRow(JewellerOf(a))}
    [] tx[r].pc = "submitPayment"  ->
         RowIf(CommissionRow(a), commission[a] \in Unpaid /\ payments[a] < MaxPayments)
    [] tx[r].pc = "settle"         -> RowIf(CommissionRow(a), commission[a] \in Unpaid)
    [] tx[r].pc = "readyDeal"      -> RowIf(DealRow(a), deal[a] = "COMMISSION_PENDING")
    [] tx[r].pc = "unlockJeweller" ->
         RowIf(UserRow(JewellerOf(a)), lock[JewellerOf(a)] = "LOCKED")
    [] tx[r].pc = "completeDeal"   -> RowIf(DealRow(a), deal[a] = "READY_TO_SETTLE")
    [] tx[r].pc = "sellListing"    -> RowIf(ListingRow(l), listing[l] = "BID_ACCEPTED")
    [] OTHER -> {}

\* An UPDATE ... RETURNING, and the handler throws when it matched no row.
TakeOrFail(r, op, pc, next) ==
  /\ At(r, op, pc)
  /\ IF Need(r) = {} THEN Fail(r) ELSE Claim(r, Need(r), next)

\* An UPDATE of whatever matches.
TakeAll(r, op, pc, next) == At(r, op, pc) /\ Claim(r, Need(r), next)

----------------------------------------------------------------------------
(* Listings (sellers).  The first action of each handler is the read of    *)
(* the user row by authenticate: nothing looks at that row again.          *)

SellerActive(l)   == account[SellerOf[l]] = "ACTIVE"
JewellerActive(b) == account[JewellerOf(b)] = "ACTIVE"

CreateListing(r, l) ==
  /\ SellerActive(l) /\ listing[l] = "NONE"
  /\ Begin(r, "create", l, {ListingRow(l)}, "commit")

CommitCreate(r) ==
  /\ At(r, "create", "commit")
  /\ listing' = [listing EXCEPT ![tx[r].arg] = "ACTIVE"]
  /\ End(r)
  /\ UNCHANGED <<bid, edits, deal, commission, payments, lock, account>>

UpdateListing(r, l) ==
  /\ SellerActive(l) /\ listing[l] # "NONE"
  /\ Begin(r, "edit", l, {}, "updateListing")

\* MUTANT: the update's WHERE has lost AND status = 'ACTIVE'.
EditTakeAnyListing(r) ==
  /\ At(r, "edit", "updateListing")
  /\ edits[tx[r].arg] < MaxEdits
  /\ Claim(r, {ListingRow(tx[r].arg)}, "commit")

\* (A request past the bound MaxEdits gives up too.)
EditTakeListing(r) ==
  IF At(r, "edit", "updateListing") /\ edits[tx[r].arg] = MaxEdits
  THEN Fail(r)
  ELSE TakeOrFail(r, "edit", "updateListing", "commit")

CommitEdit(r) ==
  /\ At(r, "edit", "commit")
  /\ edits' = [edits EXCEPT ![tx[r].arg] = @ + 1]
  /\ End(r)
  /\ UNCHANGED <<bid, listing, deal, commission, payments, lock, account>>

CancelListing(r, l) ==
  /\ SellerActive(l) /\ listing[l] # "NONE"
  /\ Begin(r, "cancel", l, {}, "cancelListing")

\* MUTANT: the cancellation's WHERE has lost AND status = 'ACTIVE'.
CancelTakeAnyListing(r) ==
  /\ At(r, "cancel", "cancelListing")
  /\ Claim(r, {ListingRow(tx[r].arg)}, "rejectPending")

CancelTakeListing(r) == TakeOrFail(r, "cancel", "cancelListing", "rejectPending")

CancelRejectPending(r) == TakeAll(r, "cancel", "rejectPending", "commit")

CommitCancel(r) ==
  /\ At(r, "cancel", "commit")
  /\ listing' = [listing EXCEPT ![tx[r].arg] = "CANCELLED"]
  /\ bid' = [b \in Bid |-> IF BidRow(b) \in tx[r].rows THEN "REJECTED" ELSE bid[b]]
  /\ End(r)
  /\ UNCHANGED <<edits, deal, commission, payments, lock, account>>

----------------------------------------------------------------------------
(* Bids (jewellers place them, sellers decide).                            *)

\* requireJewellerCanTransact judges the same user row as authenticate.
PlaceBid(r, b) ==
  /\ JewellerActive(b) /\ lock[JewellerOf(b)] = "CLEAR" /\ listing[ListingOf(b)] # "NONE"
  /\ Begin(r, "place", b, {}, "findListing")

PlaceFindListing(r) ==
  LET l == ListingOf(tx[r].arg) IN
  /\ At(r, "place", "findListing")
  /\ IF listing[l] = "ACTIVE" /\ SellerActive(l)
     THEN Claim(r, {}, "insertBid")
     ELSE Fail(r)

\* MUTANT: no partial unique index on (listing_id, jeweller_id).
PlaceInsertBidNoIndex(r) ==
  /\ At(r, "place", "insertBid")
  /\ \E b \in {c \in SameKey(tx[r].arg) : bid[c] = "NONE"} : Claim(r, {BidRow(b)}, "commit")

\* A committed PENDING bid under the key is a unique violation.  (A request
\* that finds every number of the bound Attempt used gives up too.)
PlaceInsertBid(r) ==
  LET a    == tx[r].arg
      free == {b \in SameKey(a) : bid[b] = "NONE"} IN
  /\ At(r, "place", "insertBid")
  /\ Need(r) \cap HeldByOthers(r) = {}
  /\ IF free = {} \/ \E b \in SameKey(a) : bid[b] = "PENDING"
     THEN Fail(r)
     ELSE \E b \in free : Claim(r, {BidRow(b)}, "commit")

CommitPlace(r) ==
  /\ At(r, "place", "commit")
  /\ bid' = [b \in Bid |-> IF BidRow(b) \in tx[r].rows THEN "PENDING" ELSE bid[b]]
  /\ End(r)
  /\ UNCHANGED <<listing, edits, deal, commission, payments, lock, account>>

AcceptBid(r, b) ==
  /\ SellerActive(ListingOf(b)) /\ bid[b] # "NONE"
  /\ Begin(r, "accept", b, {}, "findBid")

AcceptFindBid(r) ==
  LET a == tx[r].arg IN
  /\ At(r, "accept", "findBid")
  /\ IF bid[a] = "PENDING" /\ listing[ListingOf(a)] = "ACTIVE"
     THEN Claim(r, {}, "takeBid")
     ELSE Fail(r)

AcceptTakeBid(r) == TakeOrFail(r, "accept", "takeBid", "rejectOthers")

AcceptRejectOthers(r) == TakeAll(r, "accept", "rejectOthers", "takeListing")

\* MUTANT: the update of the listing has lost AND status = 'ACTIVE'.
AcceptTakeAnyListing(r) ==
  /\ At(r, "accept", "takeListing")
  /\ Claim(r, {ListingRow(ListingOf(tx[r].arg))}, "lockJeweller")

AcceptTakeListing(r) == TakeOrFail(r, "accept", "takeListing", "lockJeweller")

\* The deal and the commission are inserted on the way: rows nobody else sees.
AcceptLockJeweller(r) == TakeAll(r, "accept", "lockJeweller", "commit")

CommitAccept(r) ==
  LET a == tx[r].arg IN
  /\ At(r, "accept", "commit")
  /\ bid' = [b \in Bid |-> IF b = a THEN "ACCEPTED"
                           ELSE IF BidRow(b) \in tx[r].rows THEN "REJECTED" ELSE bid[b]]
  /\ listing' = [listing EXCEPT ![ListingOf(a)] = "BID_ACCEPTED"]
  /\ deal' = [deal EXCEPT ![a] = "COMMISSION_PENDING"]
  /\ commission' = [commission EXCEPT ![a] = "PENDING"]
  /\ lock' = [lock EXCEPT ![JewellerOf(a)] = "LOCKED"]
  /\ End(r)
  /\ UNCHANGED <<edits, payments, account>>

RejectBid(r, b) ==
  /\ SellerActive(ListingOf(b)) /\ bid[b] # "NONE"
  /\ Begin(r, "reject", b, {}, "findBid")

RejectFindBid(r) ==
  /\ At(r, "reject", "findBid")
  /\ IF bid[tx[r].arg] = "PENDING" THEN Claim(r, {}, "takeBid") ELSE Fail(r)

\* MUTANT: the rejection's WHERE has lost AND status = 'PENDING'.
RejectTakeAnyBid(r) ==
  /\ At(r, "reject", "takeBid")
  /\ Claim(r, {BidRow(tx[r].arg)}, "commit")

\* No row: bid is undefined and reading its id throws.
RejectTakeBid(r) == TakeOrFail(r, "reject", "takeBid", "commit")

CommitReject(r) ==
  /\ At(r, "reject", "commit")
  /\ bid' = [bid EXCEPT ![tx[r].arg] = "REJECTED"]
  /\ End(r)
  /\ UNCHANGED <<listing, edits, deal, commission, payments, lock, account>>

----------------------------------------------------------------------------
(* Commissions and deals (jeweller submits, admin settles, seller closes). *)

SubmitPayment(r, b) ==
  /\ JewellerActive(b) /\ commission[b] # "NONE"
  /\ Begin(r, "submit", b, {}, "submitPayment")

\* MUTANT: payment_attempt_count <= 5 instead of < 5.
SubmitTakeCommissionPastLimit(r) ==
  /\ At(r, "submit", "submitPayment")
  /\ IF commission[tx[r].arg] \in Unpaid /\ payments[tx[r].arg] <= MaxPayments
     THEN Claim(r, {CommissionRow(tx[r].arg)}, "commit")
     ELSE Fail(r)

SubmitTakeCommission(r) == TakeOrFail(r, "submit", "submitPayment", "commit")

CommitSubmit(r) ==
  LET a == tx[r].arg IN
  /\ At(r, "submit", "commit")
  /\ commission' = [commission EXCEPT ![a] = "PAYMENT_INITIATED"]
  /\ payments' = [payments EXCEPT ![a] = @ + 1]
  /\ End(r)
  /\ UNCHANGED <<bid, listing, edits, deal, lock, account>>

\* markAdminCommissionPaid and waiveAdminCommission, by the admin's outcome.
SettleCommission(r, b, outcome) ==
  /\ commission[b] # "NONE"
  /\ Begin(r, outcome, b, {}, "settle")

SettleTakeCommission(r) ==
  \E outcome \in Settled : TakeOrFail(r, outcome, "settle", "readyDeal")

SettleReadyDeal(r) ==
  \E outcome \in Settled : TakeAll(r, outcome, "readyDeal", "countUnpaid")

UnpaidOf(j) == {b \in Bid : JewellerOf(b) = j /\ commission[b] \in Unpaid}

\* The count sees this transaction's own update, and of the others what they
\* have committed.
SettleCountUnpaid(r) ==
  LET a == tx[r].arg IN
  /\ \E outcome \in Settled : At(r, outcome, "countUnpaid")
  /\ IF UnpaidOf(JewellerOf(a)) \subseteq {a}
     THEN Claim(r, {}, "unlockJeweller")
     ELSE Claim(r, {}, "commit")

SettleUnlockJeweller(r) ==
  \E outcome \in Settled : TakeAll(r, outcome, "unlockJeweller", "commit")

CommitSettle(r) ==
  LET a == tx[r].arg IN
  /\ tx[r].op \in Settled /\ tx[r].pc = "commit"
  /\ commission' = [commission EXCEPT ![a] = tx[r].op]
  /\ deal' = [deal EXCEPT ![a] = IF DealRow(a) \in tx[r].rows THEN "READY_TO_SETTLE" ELSE @]
  /\ lock' = [lock EXCEPT ![JewellerOf(a)] =
                IF UserRow(JewellerOf(a)) \in tx[r].rows THEN "CLEAR" ELSE @]
  /\ End(r)
  /\ UNCHANGED <<bid, listing, edits, payments, account>>

CompleteDeal(r, b) ==
  /\ SellerActive(ListingOf(b)) /\ deal[b] # "NONE"
  /\ Begin(r, "complete", b, {}, "findDeal")

\* MUTANT: the status is no longer compared, here or in the update's WHERE.
CompleteFindAnyDeal(r) ==
  /\ At(r, "complete", "findDeal")
  /\ Claim(r, {DealRow(tx[r].arg)}, "sellListing")

CompleteFindDeal(r) ==
  /\ At(r, "complete", "findDeal")
  /\ IF deal[tx[r].arg] = "READY_TO_SETTLE" THEN Claim(r, {}, "completeDeal") ELSE Fail(r)

CompleteTakeDeal(r) == TakeOrFail(r, "complete", "completeDeal", "sellListing")

CompleteSellListing(r) == TakeAll(r, "complete", "sellListing", "commit")

CommitComplete(r) ==
  LET a == tx[r].arg
      l == ListingOf(tx[r].arg) IN
  /\ At(r, "complete", "commit")
  /\ deal' = [deal EXCEPT ![a] = "COMPLETED"]
  /\ listing' = [listing EXCEPT ![l] = IF ListingRow(l) \in tx[r].rows THEN "SOLD" ELSE @]
  /\ End(r)
  /\ UNCHANGED <<bid, edits, commission, payments, lock, account>>

----------------------------------------------------------------------------
(* Administration, errors and deadlocks.                                   *)

SetAccount(u, from, to) ==
  /\ u \in Blockable /\ account[u] = from
  /\ \A r \in Request : UserRow(u) \notin tx[r].rows
  /\ account' = [account EXCEPT ![u] = to]
  /\ UNCHANGED <<bid, listing, edits, deal, commission, payments, lock, tx>>

BlockUser(u)   == SetAccount(u, "ACTIVE", "SUSPENDED")
UnblockUser(u) == SetAccount(u, "SUSPENDED", "ACTIVE")

\* A lost connection, a crash, a violated constraint: any open transaction
\* may be rolled back.
Abort(r) == tx[r] # Idle /\ Fail(r)

WaitsFor(r) == {q \in Request \ {r} : Need(r) \cap tx[q].rows # {}}

\* r is on a cycle of the waits-for graph: a smallest set of requests each of
\* which waits for a member.
Deadlocked(r) ==
  LET Stuck(S) == S # {} /\ \A s \in S : WaitsFor(s) \cap S # {} IN
  \E S \in SUBSET Request :
    /\ r \in S /\ Stuck(S)
    /\ \A T \in SUBSET S : Stuck(T) => T = S

DeadlockVictim(r) == Deadlocked(r) /\ Fail(r)

Start(r) ==
  \/ \E l \in Listing : CreateListing(r, l) \/ UpdateListing(r, l) \/ CancelListing(r, l)
  \/ \E b \in Bid : \/ PlaceBid(r, b) \/ AcceptBid(r, b) \/ RejectBid(r, b)
                    \/ SubmitPayment(r, b) \/ CompleteDeal(r, b)
                    \/ \E outcome \in Settled : SettleCommission(r, b, outcome)

\* The statements of a request, and its commit.
Proceed(r) ==
  \/ CommitCreate(r)
  \/ EditTakeListing(r) \/ CommitEdit(r)
  \/ CancelTakeListing(r) \/ CancelRejectPending(r) \/ CommitCancel(r)
  \/ PlaceFindListing(r) \/ PlaceInsertBid(r) \/ CommitPlace(r)
  \/ AcceptFindBid(r) \/ AcceptTakeBid(r) \/ AcceptRejectOthers(r) \/ AcceptTakeListing(r)
  \/ AcceptLockJeweller(r) \/ CommitAccept(r)
  \/ RejectFindBid(r) \/ RejectTakeBid(r) \/ CommitReject(r)
  \/ SubmitTakeCommission(r) \/ CommitSubmit(r)
  \/ SettleTakeCommission(r) \/ SettleReadyDeal(r) \/ SettleCountUnpaid(r)
  \/ SettleUnlockJeweller(r) \/ CommitSettle(r)
  \/ CompleteFindDeal(r) \/ CompleteTakeDeal(r) \/ CompleteSellListing(r) \/ CommitComplete(r)

Next ==
  \/ \E u \in User : BlockUser(u) \/ UnblockUser(u)
  \/ \E r \in Request : Start(r) \/ Proceed(r) \/ Abort(r) \/ DeadlockVictim(r)

Spec == Init /\ [][Next]_vars

\* Every request takes its next step again and again while it can (PostgreSQL
\* queues the waiters of a row in order), and a deadlock is broken.
FairSpec == /\ Spec
            /\ \A r \in Request : SF_vars(Proceed(r))
            /\ WF_vars(\E r \in Request : DeadlockVictim(r))

----------------------------------------------------------------------------
(* Properties.                                                             *)

Transaction == [op : Op, arg : Bid \cup Listing, pc : Statement, rows : SUBSET Row]

\* The rows hold the values of their columns, CHECK constraints included.
TypeOK ==
  /\ bid \in [Bid -> BidStatus]
  /\ listing \in [Listing -> ListingStatus]
  /\ edits \in [Listing -> 0..MaxEdits]
  /\ deal \in [Bid -> DealStatus]
  /\ commission \in [Bid -> CommissionStatus]
  /\ payments \in [Bid -> 0..MaxPayments]
  /\ lock \in [Jeweller -> {"CLEAR", "LOCKED"}]
  /\ account \in [User -> {"ACTIVE", "SUSPENDED"}]
  /\ tx \in [Request -> Transaction \cup {Idle}]

\* However accepts, rejections and cancellations interleave, a listing is sold
\* to at most one bid, and it is off the market exactly when it has one.
OneWinner ==
  /\ \A b, c \in Bid : /\ ListingOf(b) = ListingOf(c)
                       /\ bid[b] = "ACCEPTED" /\ bid[c] = "ACCEPTED"
                       => b = c
  /\ \A l \in Listing : listing[l] \in {"BID_ACCEPTED", "SOLD"} <=>
                         \E b \in Bid : ListingOf(b) = l /\ bid[b] = "ACCEPTED"

\* The four tables of one sale agree at every moment: a bid has a deal exactly
\* when it was accepted, the deal leaves COMMISSION_PENDING exactly when its
\* commission is settled, and the listing is SOLD exactly when it is completed.
DealLedger ==
  \A b \in Bid :
    /\ deal[b] # "NONE" <=> bid[b] = "ACCEPTED"
    /\ commission[b] \in Unpaid <=> deal[b] = "COMMISSION_PENDING"
    /\ commission[b] \in Settled <=> deal[b] \in {"READY_TO_SETTLE", "COMPLETED"}
    /\ deal[b] = "COMPLETED" => listing[ListingOf(b)] = "SOLD"
    /\ deal[b] \in {"COMMISSION_PENDING", "READY_TO_SETTLE"} =>
         listing[ListingOf(b)] = "BID_ACCEPTED"

\* The partial unique index: two requests of one jeweller never leave two
\* pending bids on a listing.
OnePendingBid ==
  \A b, c \in Bid : c \in SameKey(b) /\ bid[b] = "PENDING" /\ bid[c] = "PENDING" => b = c

\* No request, however stale what it read, undoes a decision: decided bids,
\* settled commissions and closed listings keep their status, deals go forward.
DecisionsFinal ==
  [][/\ \A b \in Bid :
          /\ bid[b] \in {"ACCEPTED", "REJECTED"} => bid'[b] = bid[b]
          /\ commission[b] \in Settled => commission'[b] = commission[b]
          /\ deal[b] = "COMPLETED" => deal'[b] = deal[b]
          /\ deal[b] = "READY_TO_SETTLE" => deal'[b] # "COMMISSION_PENDING"
     /\ \A l \in Listing :
          listing[l] \in {"SOLD", "CANCELLED"} => listing'[l] = listing[l]]_vars

\* The terms a bid was accepted on are the terms the deal closes on: an edit is
\* never published once the listing has left ACTIVE.
TermsFrozen ==
  [][\A l \in Listing : edits'[l] # edits[l] => listing[l] = "ACTIVE"]_vars

\* Every request that opened a transaction ends it, although accepts and
\* cancellations lock the same rows in different orders.
RequestsEnd == \A r \in Request : tx[r] # Idle ~> tx[r] = Idle

\* adminCommissions.service.js:17-18 "the jeweller lock clears only after
\* every outstanding commission is resolved", and 27 "Keep the lock if even one
\* unpaid commission remains for this jeweller."
LockCoversDebt == \A j \in Jeweller : UnpaidOf(j) # {} => lock[j] = "LOCKED"

\* PRODUCTION_CHECKLIST.md:68-69 "Mark the platform commission paid or waived
\* as an admin. Confirm the jeweller commission lock clears".
LockReleased ==
  \A j \in Jeweller :
    UnpaidOf(j) = {} /\ (\A r \in Request : tx[r] = Idle) => lock[j] = "CLEAR"

\* bids.service.js:141 "Accepting one bid rejects the other pending bids for
\* the listing".
NoOrphanBid ==
  \A b \in Bid : bid[b] = "PENDING" => listing[ListingOf(b)] \notin {"BID_ACCEPTED", "SOLD"}

----------------------------------------------------------------------------
(* Refinement: the sale each listing's rows stand for.                     *)

Winners(l) == {b \in Bid : ListingOf(b) = l /\ bid[b] = "ACCEPTED"}

StageOf(l) ==
  CASE listing[l] = "NONE"      -> "draft"
    [] listing[l] = "ACTIVE"    -> "open"
    [] listing[l] = "CANCELLED" -> "withdrawn"
    [] listing[l] = "SOLD"      -> "sold"
    [] OTHER -> IF \E b \in Winners(l) : deal[b] = "COMMISSION_PENDING"
                THEN "agreed" ELSE "cleared"

BidsOn == [l \in Listing |-> {b \in Bid : ListingOf(b) = l}]

SaleOf(l) == [stage |-> StageOf(l), winners |-> Winners(l)]

Promise == INSTANCE Sale WITH sale <- [l \in Listing |-> SaleOf(l)]

\* Whatever the interleaving of statements, each commit moves each sale by at
\* most one step of the abstract life cycle, and nothing else moves it.
ImplementsSale == Promise!Spec

----------------------------------------------------------------------------
(* The inductive invariant.                                                *)

\* No row is written by two open transactions.
RowsExclusive ==
  \A q, r \in Request : q # r => tx[q].rows \cap tx[r].rows = {}

\* What an open transaction matched when it locked a row is still there.
Matches(t) ==
  /\ \A b \in Bid :
       /\ BidRow(b) \in t.rows => bid[b] = IF t.op = "place" THEN "NONE" ELSE "PENDING"
       /\ DealRow(b) \in t.rows =>
            deal[b] = IF t.op = "complete" THEN "READY_TO_SETTLE" ELSE "COMMISSION_PENDING"
       /\ CommissionRow(b) \in t.rows =>
            commission[b] \in Unpaid /\ (t.op = "submit" => payments[b] < MaxPayments)
  /\ \A l \in Listing : ListingRow(l) \in t.rows =>
       /\ listing[l] = CASE t.op = "complete" -> "BID_ACCEPTED"
                         [] t.op = "create"   -> "NONE"
                         [] OTHER             -> "ACTIVE"
       /\ t.op = "edit" => edits[l] < MaxEdits

\* The rows a transaction has locked by the time it reaches a statement.
Progress(t) ==
  /\ t.op \in {"create", "edit", "cancel"} => t.arg \in Listing
  /\ t.op \in Op \ {"create", "edit", "cancel"} => t.arg \in Bid
  /\ \/ t.op = "create" /\ t.pc = "commit"
     \/ t.op = "edit" /\ t.pc = "commit"
     \/ t.op = "cancel" /\ t.pc # "cancelListing"
     => ListingRow(t.arg) \in t.rows
  /\ t.op = "place" /\ t.pc # "commit" => t.rows = {}
  /\ \/ t.op = "accept" /\ t.pc \notin {"findBid", "takeBid"}
     \/ t.op = "reject" /\ t.pc = "commit"
     => BidRow(t.arg) \in t.rows
  /\ t.op = "submit" /\ t.pc = "commit" => CommissionRow(t.arg) \in t.rows
  /\ t.op \in Settled /\ t.pc # "settle" => CommissionRow(t.arg) \in t.rows
  /\ \/ t.op \in Settled /\ t.pc \notin {"settle", "readyDeal"}
     \/ t.op = "complete" /\ t.pc \in {"sellListing", "commit"}
     => DealRow(t.arg) \in t.rows
  /\ \/ t.op = "accept" /\ t.pc \in {"lockJeweller", "commit"}
     \/ t.op = "complete" /\ t.pc = "commit"
     => ListingRow(ListingOf(t.arg)) \in t.rows

\* The key of an uncommitted bid is neither taken nor about to be.
KeysFree ==
  \A r \in Request, b \in Bid : tx[r].op = "place" /\ BidRow(b) \in tx[r].rows =>
    \A c \in SameKey(b) :
      /\ bid[c] # "PENDING"
      /\ \A q \in Request : tx[q].op = "place" /\ BidRow(c) \in tx[q].rows => c = b

IInv ==
  /\ TypeOK /\ RowsExclusive /\ KeysFree
  /\ \A r \in Request : Progress(tx[r]) /\ Matches(tx[r])
  /\ OneWinner /\ DealLedger /\ OnePendingBid
=============================================================================
