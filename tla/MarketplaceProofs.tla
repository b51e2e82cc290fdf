------------------------- MODULE MarketplaceProofs -------------------------
(***************************************************************************)
(* Proofs about Marketplace for every number of users, listings, bids and  *)
(* concurrent requests.  The inductive invariant IInv says what the row    *)
(* locks buy: a row an open transaction has written still holds the value  *)
(* its WHERE clause matched, because only its holder can change it.        *)
(***************************************************************************)
EXTENDS Marketplace, TLAPS

\* The rows t would hold are held by no request but r.
FreeFor(r, t) == \A q \in Request \ {r} : t.rows \cap tx[q].rows = {}

\* The bid t would insert has a key nobody uses.
KeyFree(r, t) ==
  t.op = "place" =>
    \A b \in Bid : BidRow(b) \in t.rows =>
      \A c \in SameKey(b) : /\ bid[c] # "PENDING"
                            /\ \A q \in Request \ {r} : BidRow(c) \notin tx[q].rows
                            /\ BidRow(c) \in t.rows => c = b

LEMMA InitInv == Init => IInv
<1> SUFFICES ASSUME Init PROVE IInv
  OBVIOUS
<1>1. TypeOK
  BY PaymentsNat, EditsNat DEF Init, TypeOK, BidStatus, ListingStatus, DealStatus, CommissionStatus
<1>2. RowsExclusive /\ KeysFree
  BY DEF Init, RowsExclusive, KeysFree, Idle
<1>3. \A r \in Request : Progress(tx[r]) /\ Matches(tx[r])
  BY DEF Init, Progress, Matches, Idle, Op, Settled
<1>4. OneWinner /\ DealLedger /\ OnePendingBid
  BY DEF Init, OneWinner, DealLedger, OnePendingBid, Unpaid, Settled,
         ListingOf, Bid, SameKey
<1> QED
  BY <1>1, <1>2, <1>3, <1>4 DEF IInv

LEMMA OpenStep ==
  ASSUME IInv, NEW r \in Request, NEW t \in Transaction \cup {Idle},
         tx' = [tx EXCEPT ![r] = t], UNCHANGED tables,
         FreeFor(r, t), KeyFree(r, t), Progress(t), Matches(t)
  PROVE  IInv'
<1>1. /\ tx \in [Request -> Transaction \cup {Idle}]
      /\ tx' \in [Request -> Transaction \cup {Idle}]
      /\ tx'[r] = t
      /\ \A q \in Request \ {r} : tx'[q] = tx[q]
  BY DEF IInv, TypeOK
<1>2. TypeOK'
  BY <1>1 DEF IInv, TypeOK, tables, Transaction, Row
<1>3. RowsExclusive'
  BY <1>1 DEF IInv, RowsExclusive, FreeFor
<1>4. (\A q \in Request : Progress(tx[q]) /\ Matches(tx[q]))'
  <2> SUFFICES ASSUME NEW q \in Request PROVE (Progress(tx[q]) /\ Matches(tx[q]))'
    OBVIOUS
  <2>1. Progress(tx'[q]) /\ Matches(tx'[q])
    BY <1>1 DEF IInv
  <2> QED
    BY <2>1 DEF tables, Progress, Matches
<1>5. KeysFree'
  BY <1>1 DEF IInv, KeysFree, KeyFree, SameKey, tables
<1>6. (OneWinner /\ DealLedger /\ OnePendingBid)'
  BY DEF IInv, tables, OneWinner, DealLedger, OnePendingBid
<1> QED
  BY <1>2, <1>3, <1>4, <1>5, <1>6 DEF IInv

\* Rolling back releases rows and publishes nothing.
LEMMA FailStep ==
  ASSUME IInv, NEW r \in Request, Fail(r)
  PROVE  IInv'
<1>1. FreeFor(r, Idle) /\ KeyFree(r, Idle) /\ Progress(Idle) /\ Matches(Idle)
  BY DEF FreeFor, KeyFree, Progress, Matches, Idle, Op, Settled
<1> QED
  BY <1>1, OpenStep DEF Fail

\* A first statement that writes rows its WHERE matches.
LEMMA BeginStep ==
  ASSUME IInv, NEW r \in Request, NEW op \in Op, NEW arg \in Bid \cup Listing,
         NEW rows \in SUBSET Row, NEW pc \in Statement,
         Begin(r, op, arg, rows, pc),
         op = "place" => rows = {},
         Progress([op |-> op, arg |-> arg, pc |-> pc, rows |-> rows]),
         Matches([op |-> op, arg |-> arg, pc |-> pc, rows |-> rows])
  PROVE  IInv'
<1> DEFINE t == [op |-> op, arg |-> arg, pc |-> pc, rows |-> rows]
<1>1. t \in Transaction
  BY DEF Transaction
<1>2. FreeFor(r, t)
  BY DEF FreeFor, Begin, HeldByOthers
<1>3. KeyFree(r, t)
  BY DEF KeyFree
<1> QED
  BY <1>1, <1>2, <1>3, OpenStep DEF Begin

\* A later statement that writes further rows.
LEMMA ClaimStep ==
  ASSUME IInv, NEW r \in Request, tx[r] # Idle,
         NEW rows \in SUBSET Row, NEW pc \in Statement, Claim(r, rows, pc),
         tx[r].op = "place" => rows = {},
         Progress([op |-> tx[r].op, arg |-> tx[r].arg, pc |-> pc, rows |-> tx[r].rows \cup rows]),
         Matches([op |-> tx[r].op, arg |-> tx[r].arg, pc |-> pc, rows |-> rows])
  PROVE  IInv'
<1> DEFINE t == [op |-> tx[r].op, arg |-> tx[r].arg, pc |-> pc, rows |-> tx[r].rows \cup rows]
<1>1. tx[r] \in Transaction
  BY DEF IInv, TypeOK
<1>2. t \in Transaction
  BY <1>1 DEF Transaction
<1>3. FreeFor(r, t)
  BY <1>2 DEF FreeFor, Claim, HeldByOthers, IInv, RowsExclusive
<1>4. KeyFree(r, t)
  <2> SUFFICES ASSUME t.op = "place", NEW b \in Bid, BidRow(b) \in t.rows,
                      NEW c \in SameKey(b)
               PROVE  /\ bid[c] # "PENDING"
                      /\ \A q \in Request \ {r} : BidRow(c) \notin tx[q].rows
                      /\ BidRow(c) \in t.rows => c = b
    BY DEF KeyFree
  <2>1. tx[r].op = "place" /\ BidRow(b) \in tx[r].rows /\ t.rows = tx[r].rows
    OBVIOUS
  <2>2. bid[c] # "PENDING" /\ (BidRow(c) \in t.rows => c = b)
    BY <2>1 DEF IInv, KeysFree
  <2>3. ASSUME NEW q \in Request \ {r}, BidRow(c) \in tx[q].rows PROVE FALSE
    <3>1. tx[q].op = "place"
      BY <2>2, <2>3 DEF IInv, Matches, SameKey
    <3>2. c = b
      BY <2>1, <2>3, <3>1 DEF IInv, KeysFree
    <3> QED
      BY <2>1, <2>3, <3>2 DEF IInv, RowsExclusive
  <2> QED
    BY <2>2, <2>3
<1>5. Matches(t)
  BY <1>2 DEF IInv, Matches
<1> QED
  BY <1>2, <1>3, <1>4, <1>5, OpenStep DEF Claim

LEMMA BidParts == \A b \in Bid : JewellerOf(b) \in Jeweller /\ ListingOf(b) \in Listing
BY DEF Bid, JewellerOf, ListingOf

LEMMA RowTypes ==
  /\ \A b \in Bid : {BidRow(b), DealRow(b), CommissionRow(b)} \subseteq Row
  /\ \A l \in Listing : ListingRow(l) \in Row
  /\ \A u \in User : UserRow(u) \in Row
BY DEF Row, BidRow, DealRow, CommissionRow, ListingRow, UserRow

----------------------------------------------------------------------------
(* Requests begin.                                                         *)

LEMMA CreateListingInv ==
  ASSUME IInv, NEW r \in Request, NEW l \in Listing, CreateListing(r, l) PROVE IInv'
<1> DEFINE t == [op |-> "create", arg |-> l, pc |-> "commit", rows |-> {ListingRow(l)}]
<1>1. Progress(t) /\ Matches(t)
  BY DEF CreateListing, Progress, Matches, Op, Settled, ListingRow, BidRow, DealRow, CommissionRow
<1> QED
  BY <1>1, RowTypes, BeginStep DEF CreateListing, Op, Statement

\* Every other request begins with a statement that has not run yet.
LEMMA AuthenticatedInv ==
  ASSUME IInv, NEW r \in Request, NEW op \in Op \ {"create"}, NEW arg \in Bid \cup Listing,
         NEW pc \in Statement \ {"commit"}, Begin(r, op, arg, {}, pc),
         op \in {"edit", "cancel"} => arg \in Listing,
         op \notin {"edit", "cancel"} => arg \in Bid,
         op = "cancel" => pc = "cancelListing",
         op = "accept" => pc = "findBid",
         op \in Settled => pc = "settle",
         op = "complete" => pc = "findDeal"
  PROVE  IInv'
<1> DEFINE t == [op |-> op, arg |-> arg, pc |-> pc, rows |-> {}]
<1>1. Progress(t) /\ Matches(t)
  BY DEF Progress, Matches, Op, Settled
<1> QED
  BY <1>1, BeginStep

LEMMA StartInv == ASSUME IInv, NEW r \in Request, Start(r) PROVE IInv'
<1>1. ASSUME NEW l \in Listing, UpdateListing(r, l) \/ CancelListing(r, l) PROVE IInv'
  BY <1>1, AuthenticatedInv DEF UpdateListing, CancelListing, Op, Statement, Settled
<1>2. ASSUME NEW b \in Bid, PlaceBid(r, b) \/ AcceptBid(r, b) \/ RejectBid(r, b) PROVE IInv'
  BY <1>2, AuthenticatedInv DEF PlaceBid, AcceptBid, RejectBid, Op, Statement, Settled
<1>3. ASSUME NEW b \in Bid, SubmitPayment(r, b) \/ CompleteDeal(r, b) PROVE IInv'
  BY <1>3, AuthenticatedInv DEF SubmitPayment, CompleteDeal, Op, Statement, Settled
<1>4. ASSUME NEW b \in Bid, NEW outcome \in Settled, SettleCommission(r, b, outcome) PROVE IInv'
  BY <1>4, AuthenticatedInv DEF SettleCommission, Op, Statement, Settled
<1> QED
  BY <1>1, <1>2, <1>3, <1>4, CreateListingInv DEF Start

----------------------------------------------------------------------------
(* Requests proceed.                                                       *)

LEMMA NeedOf ==
  ASSUME NEW r \in Request
  PROVE  /\ tx[r].pc \in {"updateListing", "cancelListing"} =>
              Need(r) = RowIf(ListingRow(tx[r].arg), listing[tx[r].arg] = "ACTIVE")
         /\ tx[r].pc = "rejectPending" => Need(r) = {BidRow(b) : b \in PendingOn(tx[r].arg)}
         /\ tx[r].pc = "insertBid" => Need(r) = {BidRow(b) : b \in SameKey(tx[r].arg)}
         /\ tx[r].pc = "takeBid" => Need(r) = RowIf(BidRow(tx[r].arg), bid[tx[r].arg] = "PENDING")
         /\ tx[r].pc = "rejectOthers" =>
              Need(r) = {BidRow(b) : b \in PendingOn(ListingOf(tx[r].arg)) \ {tx[r].arg}}
         /\ tx[r].pc = "takeListing" =>
              Need(r) = RowIf(ListingRow(ListingOf(tx[r].arg)), listing[ListingOf(tx[r].arg)] = "ACTIVE")
         /\ tx[r].pc = "lockJeweller" => Need(r) = {UserRow(JewellerOf(tx[r].arg))}
         /\ tx[r].pc = "submitPayment" =>
              Need(r) = RowIf(CommissionRow(tx[r].arg),
                              commission[tx[r].arg] \in Unpaid /\ payments[tx[r].arg] < MaxPayments)
         /\ tx[r].pc = "settle" =>
              Need(r) = RowIf(CommissionRow(tx[r].arg), commission[tx[r].arg] \in Unpaid)
         /\ tx[r].pc = "readyDeal" =>
              Need(r) = RowIf(DealRow(tx[r].arg), deal[tx[r].arg] = "COMMISSION_PENDING")
         /\ tx[r].pc = "unlockJeweller" =>
              Need(r) = RowIf(UserRow(JewellerOf(tx[r].arg)), lock[JewellerOf(tx[r].arg)] = "LOCKED")
         /\ tx[r].pc = "completeDeal" =>
              Need(r) = RowIf(DealRow(tx[r].arg), deal[tx[r].arg] = "READY_TO_SETTLE")
         /\ tx[r].pc = "sellListing" =>
              Need(r) = RowIf(ListingRow(ListingOf(tx[r].arg)),
                              listing[ListingOf(tx[r].arg)] = "BID_ACCEPTED")
BY DEF Need

LEMMA OpenTyped ==
  ASSUME IInv, NEW r \in Request, tx[r].op \in Op
  PROVE  /\ tx[r] # Idle
         /\ tx[r] \in Transaction
         /\ Progress(tx[r]) /\ Matches(tx[r])
         /\ tx[r].op \in {"create", "edit", "cancel"} => tx[r].arg \in Listing
         /\ tx[r].op \notin {"create", "edit", "cancel"} =>
              tx[r].arg \in Bid /\ ListingOf(tx[r].arg) \in Listing /\ JewellerOf(tx[r].arg) \in Jeweller
BY BidParts DEF IInv, TypeOK, Idle, Op, Progress

\* A statement that only reads.
LEMMA ReadStep ==
  ASSUME IInv, NEW r \in Request, tx[r].op \in Op, NEW pc \in Statement, Claim(r, {}, pc),
         Progress([op |-> tx[r].op, arg |-> tx[r].arg, pc |-> pc, rows |-> tx[r].rows])
  PROVE  IInv'
<1>1. tx[r] # Idle
  BY OpenTyped
<1>2. tx[r].rows \cup {} = tx[r].rows
  OBVIOUS
<1>3. Matches([op |-> tx[r].op, arg |-> tx[r].arg, pc |-> pc, rows |-> {}])
  BY DEF Matches
<1> QED
  BY <1>1, <1>2, <1>3, ClaimStep

\* A statement that writes the rows it matches, if they are what Matches says.
LEMMA TakeAllStep ==
  ASSUME IInv, NEW r \in Request, NEW op \in Op \ {"place"}, NEW pc, NEW next \in Statement,
         TakeAll(r, op, pc, next), Need(r) \subseteq Row,
         Matches([op |-> op, arg |-> tx[r].arg, pc |-> next, rows |-> Need(r)]),
         Progress([op |-> op, arg |-> tx[r].arg, pc |-> next, rows |-> tx[r].rows \cup Need(r)])
  PROVE  IInv'
<1>1. tx[r].op = op /\ tx[r] # Idle
  BY OpenTyped DEF TakeAll, At, Op
<1> QED
  BY <1>1, ClaimStep DEF TakeAll

LEMMA TakeOrFailStep ==
  ASSUME IInv, NEW r \in Request, NEW op \in Op \ {"place"}, NEW pc, NEW next \in Statement,
         TakeOrFail(r, op, pc, next), Need(r) \subseteq Row,
         Matches([op |-> op, arg |-> tx[r].arg, pc |-> next, rows |-> Need(r)]),
         Need(r) # {} =>
           Progress([op |-> op, arg |-> tx[r].arg, pc |-> next, rows |-> tx[r].rows \cup Need(r)])
  PROVE  IInv'
<1>1. CASE Fail(r)
  BY <1>1, FailStep
<1>2. CASE ~Fail(r)
  <2>1. Need(r) # {} /\ TakeAll(r, op, pc, next)
    BY <1>2 DEF TakeOrFail, TakeAll
  <2> QED
    BY <2>1, TakeAllStep
<1> QED
  BY <1>1, <1>2

LEMMA EditTakeListingInv == ASSUME IInv, NEW r \in Request, EditTakeListing(r) PROVE IInv'
<1>1. CASE Fail(r)
  BY <1>1, FailStep
<1>2. CASE ~Fail(r)
  <2>1. /\ TakeOrFail(r, "edit", "updateListing", "commit")
        /\ tx[r].op = "edit" /\ tx[r].pc = "updateListing" /\ edits[tx[r].arg] # MaxEdits
    BY <1>2 DEF EditTakeListing, TakeOrFail, At
  <2>2. tx[r].arg \in Listing /\ edits[tx[r].arg] < MaxEdits
    BY <2>1, OpenTyped, EditsNat DEF Op, IInv, TypeOK
  <2>3. Need(r) = RowIf(ListingRow(tx[r].arg), listing[tx[r].arg] = "ACTIVE")
    BY <2>1, NeedOf
  <2>4. Need(r) \subseteq Row
    BY <2>2, <2>3, RowTypes DEF RowIf
  <2>5. Matches([op |-> "edit", arg |-> tx[r].arg, pc |-> "commit", rows |-> Need(r)])
    BY <2>2, <2>3 DEF RowIf, Matches, BidRow, DealRow, CommissionRow, ListingRow
  <2>6. Need(r) # {} =>
          Progress([op |-> "edit", arg |-> tx[r].arg, pc |-> "commit", rows |-> tx[r].rows \cup Need(r)])
    BY <2>2, <2>3 DEF RowIf, Progress, Op, Settled
  <2> QED
    BY <2>1, <2>4, <2>5, <2>6, TakeOrFailStep DEF Op, Statement
<1> QED
  BY <1>1, <1>2

LEMMA CancelTakeListingInv == ASSUME IInv, NEW r \in Request, CancelTakeListing(r) PROVE IInv'
<1>1. tx[r].op = "cancel" /\ tx[r].pc = "cancelListing" /\ tx[r].arg \in Listing
  BY OpenTyped DEF CancelTakeListing, TakeOrFail, At, Op
<1>2. Need(r) = RowIf(ListingRow(tx[r].arg), listing[tx[r].arg] = "ACTIVE")
  BY <1>1, NeedOf
<1>3. Need(r) \subseteq Row
  BY <1>1, <1>2, RowTypes DEF RowIf
<1>4. Matches([op |-> "cancel", arg |-> tx[r].arg, pc |-> "rejectPending", rows |-> Need(r)])
  BY <1>1, <1>2 DEF RowIf, Matches, BidRow, DealRow, CommissionRow, ListingRow
<1>5. Need(r) # {} => Progress([op |-> "cancel", arg |-> tx[r].arg, pc |-> "rejectPending",
                                rows |-> tx[r].rows \cup Need(r)])
  BY <1>1, <1>2 DEF RowIf, Progress, Op, Settled
<1> QED
  BY <1>1, <1>3, <1>4, <1>5, TakeOrFailStep DEF CancelTakeListing, Op, Statement

LEMMA CancelRejectPendingInv == ASSUME IInv, NEW r \in Request, CancelRejectPending(r) PROVE IInv'
<1>1. /\ tx[r].op = "cancel" /\ tx[r].pc = "rejectPending" /\ tx[r].arg \in Listing
      /\ ListingRow(tx[r].arg) \in tx[r].rows
  BY OpenTyped DEF CancelRejectPending, TakeAll, At, Op, Progress
<1>2. Need(r) = {BidRow(b) : b \in PendingOn(tx[r].arg)}
  BY <1>1, NeedOf
<1>3. Need(r) \subseteq Row
  BY <1>2, RowTypes DEF PendingOn
<1>4. Matches([op |-> "cancel", arg |-> tx[r].arg, pc |-> "commit", rows |-> Need(r)])
  BY <1>2 DEF PendingOn, Matches, BidRow, DealRow, CommissionRow, ListingRow
<1>5. Progress([op |-> "cancel", arg |-> tx[r].arg, pc |-> "commit", rows |-> tx[r].rows \cup Need(r)])
  BY <1>1 DEF Progress, Op, Settled
<1> QED
  BY <1>3, <1>4, <1>5, TakeAllStep DEF CancelRejectPending, Op, Statement

\* The statements that read a listing, a bid or a deal and throw unless its
\* status is right.
LEMMA FindInv ==
  ASSUME IInv, NEW r \in Request,
         PlaceFindListing(r) \/ AcceptFindBid(r) \/ RejectFindBid(r) \/ CompleteFindDeal(r)
  PROVE  IInv'
<1>1. CASE Fail(r)
  BY <1>1, FailStep
<1>2. CASE ~Fail(r)
  <2>1. PICK pc \in Statement :
          /\ Claim(r, {}, pc)
          /\ \/ tx[r].op = "place" /\ tx[r].pc = "findListing" /\ pc = "insertBid"
             \/ tx[r].op = "accept" /\ pc = "takeBid"
             \/ tx[r].op = "reject" /\ pc = "takeBid"
             \/ tx[r].op = "complete" /\ pc = "completeDeal"
    BY <1>2 DEF PlaceFindListing, AcceptFindBid, RejectFindBid, CompleteFindDeal, At, Statement
  <2>2. tx[r].op \in Op /\ Progress(tx[r])
    BY <2>1, OpenTyped DEF Op
  <2>3. Progress([op |-> tx[r].op, arg |-> tx[r].arg, pc |-> pc, rows |-> tx[r].rows])
    BY <2>1, <2>2 DEF Progress, Op, Settled
  <2> QED
    BY <2>1, <2>2, <2>3, ReadStep
<1> QED
  BY <1>1, <1>2

\* The unique index: the key is free of committed and of uncommitted bids.
LEMMA PlaceInsertBidInv ==
  ASSUME IInv, NEW r \in Request, PlaceInsertBid(r) PROVE IInv'
<1>1. CASE Fail(r)
  BY <1>1, FailStep
<1>2. CASE ~Fail(r)
  <2>1. /\ tx[r].op = "place" /\ tx[r].pc = "insertBid"
        /\ tx[r] # Idle /\ tx[r] \in Transaction /\ Progress(tx[r]) /\ tx[r].rows = {}
    BY OpenTyped DEF PlaceInsertBid, At, Op, Progress
  <2>2. PICK b \in SameKey(tx[r].arg) : bid[b] = "NONE" /\ Claim(r, {BidRow(b)}, "commit")
    BY <1>2 DEF PlaceInsertBid
  <2>3. \A c \in SameKey(tx[r].arg) : bid[c] # "PENDING" /\ BidRow(c) \notin HeldByOthers(r)
    BY <1>2, <2>1, NeedOf DEF PlaceInsertBid
  <2> DEFINE t == [op |-> "place", arg |-> tx[r].arg, pc |-> "commit", rows |-> {BidRow(b)}]
  <2>4. b \in Bid /\ SameKey(b) = SameKey(tx[r].arg)
    BY DEF SameKey
  <2>5. t \in Transaction
    BY <2>1, <2>4, RowTypes DEF Transaction, Statement, Op
  <2>6. tx' = [tx EXCEPT ![r] = t] /\ UNCHANGED tables
    BY <2>1, <2>2 DEF Claim
  <2>7. FreeFor(r, t)
    BY <2>2 DEF FreeFor, Claim, HeldByOthers
  <2>8. KeyFree(r, t)
    BY <2>3, <2>4 DEF KeyFree, HeldByOthers, BidRow
  <2>9. Progress(t) /\ Matches(t)
    BY <2>1, <2>2, <2>4 DEF Progress, Matches, Op, Settled, BidRow, DealRow, CommissionRow, ListingRow
  <2> QED
    BY <2>5, <2>6, <2>7, <2>8, <2>9, OpenStep
<1> QED
  BY <1>1, <1>2

\* The statement that locks the one bid to decide, of accept or reject.
LEMMA TakeBidInv ==
  ASSUME IInv, NEW r \in Request, AcceptTakeBid(r) \/ RejectTakeBid(r) PROVE IInv'
<1>1. PICK op \in {"accept", "reject"}, next \in {"rejectOthers", "commit"} :
        /\ TakeOrFail(r, op, "takeBid", next)
        /\ op = "accept" => next = "rejectOthers"
  BY DEF AcceptTakeBid, RejectTakeBid
<1>2. tx[r].op = op /\ tx[r].pc = "takeBid" /\ tx[r].arg \in Bid /\ Progress(tx[r])
  BY <1>1, OpenTyped DEF TakeOrFail, At, Op
<1>3. Need(r) = RowIf(BidRow(tx[r].arg), bid[tx[r].arg] = "PENDING")
  BY <1>2, NeedOf
<1>4. Need(r) \subseteq Row
  BY <1>2, <1>3, RowTypes DEF RowIf
<1>5. Matches([op |-> op, arg |-> tx[r].arg, pc |-> next, rows |-> Need(r)])
  BY <1>2, <1>3 DEF RowIf, Matches, BidRow, DealRow, CommissionRow, ListingRow
<1>6. Need(r) # {} =>
        Progress([op |-> op, arg |-> tx[r].arg, pc |-> next, rows |-> tx[r].rows \cup Need(r)])
  BY <1>1, <1>2, <1>3 DEF RowIf, Progress, Op, Settled
<1> QED
  BY <1>1, <1>2, <1>4, <1>5, <1>6, TakeOrFailStep DEF Op, Statement

LEMMA AcceptRejectOthersInv == ASSUME IInv, NEW r \in Request, AcceptRejectOthers(r) PROVE IInv'
<1>1. /\ tx[r].op = "accept" /\ tx[r].pc = "rejectOthers" /\ tx[r].arg \in Bid
      /\ BidRow(tx[r].arg) \in tx[r].rows
  BY OpenTyped DEF AcceptRejectOthers, TakeAll, At, Op, Progress
<1>2. Need(r) = {BidRow(b) : b \in PendingOn(ListingOf(tx[r].arg)) \ {tx[r].arg}}
  BY <1>1, NeedOf
<1>3. Need(r) \subseteq Row
  BY <1>2, RowTypes DEF PendingOn
<1>4. Matches([op |-> "accept", arg |-> tx[r].arg, pc |-> "takeListing", rows |-> Need(r)])
  BY <1>2 DEF PendingOn, Matches, BidRow, DealRow, CommissionRow, ListingRow
<1>5. Progress([op |-> "accept", arg |-> tx[r].arg, pc |-> "takeListing",
                rows |-> tx[r].rows \cup Need(r)])
  BY <1>1 DEF Progress, Op, Settled
<1> QED
  BY <1>3, <1>4, <1>5, TakeAllStep DEF AcceptRejectOthers, Op, Statement

LEMMA AcceptTakeListingInv == ASSUME IInv, NEW r \in Request, AcceptTakeListing(r) PROVE IInv'
<1> DEFINE l == ListingOf(tx[r].arg)
<1>1. /\ tx[r].op = "accept" /\ tx[r].pc = "takeListing" /\ tx[r].arg \in Bid /\ l \in Listing
      /\ BidRow(tx[r].arg) \in tx[r].rows
  BY OpenTyped DEF AcceptTakeListing, TakeOrFail, At, Op, Progress
<1>2. Need(r) = RowIf(ListingRow(l), listing[l] = "ACTIVE")
  BY <1>1, NeedOf
<1>3. Need(r) \subseteq Row
  BY <1>1, <1>2, RowTypes DEF RowIf
<1>4. Matches([op |-> "accept", arg |-> tx[r].arg, pc |-> "lockJeweller", rows |-> Need(r)])
  BY <1>1, <1>2 DEF RowIf, Matches, BidRow, DealRow, CommissionRow, ListingRow
<1>5. Need(r) # {} => Progress([op |-> "accept", arg |-> tx[r].arg, pc |-> "lockJeweller",
                                rows |-> tx[r].rows \cup Need(r)])
  BY <1>1, <1>2 DEF RowIf, Progress, Op, Settled
<1> QED
  BY <1>1, <1>3, <1>4, <1>5, TakeOrFailStep DEF AcceptTakeListing, Op, Statement

LEMMA AcceptLockJewellerInv == ASSUME IInv, NEW r \in Request, AcceptLockJeweller(r) PROVE IInv'
<1>1. /\ tx[r].op = "accept" /\ tx[r].pc = "lockJeweller" /\ JewellerOf(tx[r].arg) \in Jeweller
      /\ tx[r].arg \in Bid
      /\ BidRow(tx[r].arg) \in tx[r].rows /\ ListingRow(ListingOf(tx[r].arg)) \in tx[r].rows
  BY OpenTyped DEF AcceptLockJeweller, TakeAll, At, Op, Progress
<1>2. Need(r) = {UserRow(JewellerOf(tx[r].arg))}
  BY <1>1, NeedOf
<1>3. Need(r) \subseteq Row
  BY <1>1, <1>2, RowTypes DEF User
<1>4. Matches([op |-> "accept", arg |-> tx[r].arg, pc |-> "commit", rows |-> Need(r)])
  BY <1>2 DEF Matches, UserRow, BidRow, DealRow, CommissionRow, ListingRow
<1>5. Progress([op |-> "accept", arg |-> tx[r].arg, pc |-> "commit", rows |-> tx[r].rows \cup Need(r)])
  BY <1>1 DEF Progress, Op, Settled
<1> QED
  BY <1>3, <1>4, <1>5, TakeAllStep DEF AcceptLockJeweller, Op, Statement

LEMMA SubmitTakeCommissionInv ==
  ASSUME IInv, NEW r \in Request, SubmitTakeCommission(r) PROVE IInv'
<1>1. tx[r].op = "submit" /\ tx[r].pc = "submitPayment" /\ tx[r].arg \in Bid
  BY OpenTyped DEF SubmitTakeCommission, TakeOrFail, At, Op
<1>2. Need(r) = RowIf(CommissionRow(tx[r].arg),
                      commission[tx[r].arg] \in Unpaid /\ payments[tx[r].arg] < MaxPayments)
  BY <1>1, NeedOf
<1>3. Need(r) \subseteq Row
  BY <1>1, <1>2, RowTypes DEF RowIf
<1>4. Matches([op |-> "submit", arg |-> tx[r].arg, pc |-> "commit", rows |-> Need(r)])
  BY <1>1, <1>2 DEF RowIf, Matches, BidRow, DealRow, CommissionRow, ListingRow
<1>5. Need(r) # {} =>
        Progress([op |-> "submit", arg |-> tx[r].arg, pc |-> "commit", rows |-> tx[r].rows \cup Need(r)])
  BY <1>1, <1>2 DEF RowIf, Progress, Op, Settled
<1> QED
  BY <1>1, <1>3, <1>4, <1>5, TakeOrFailStep DEF SubmitTakeCommission, Op, Statement

\* Settling locks the commission, then the deal that waits for it.
LEMMA SettleTakeCommissionInv ==
  ASSUME IInv, NEW r \in Request, SettleTakeCommission(r) PROVE IInv'
<1>1. PICK op \in Settled : TakeOrFail(r, op, "settle", "readyDeal")
  BY DEF SettleTakeCommission
<1>2. tx[r].op = op /\ tx[r].pc = "settle" /\ tx[r].arg \in Bid
  BY <1>1, OpenTyped DEF TakeOrFail, At, Op, Settled
<1>3. Need(r) = RowIf(CommissionRow(tx[r].arg), commission[tx[r].arg] \in Unpaid)
  BY <1>2, NeedOf
<1>4. Need(r) \subseteq Row
  BY <1>2, <1>3, RowTypes DEF RowIf
<1>5. Matches([op |-> op, arg |-> tx[r].arg, pc |-> "readyDeal", rows |-> Need(r)])
  BY <1>2, <1>3 DEF RowIf, Matches, Settled, BidRow, DealRow, CommissionRow, ListingRow
<1>6. Need(r) # {} =>
        Progress([op |-> op, arg |-> tx[r].arg, pc |-> "readyDeal", rows |-> tx[r].rows \cup Need(r)])
  BY <1>2, <1>3 DEF RowIf, Progress, Op, Settled
<1> QED
  BY <1>1, <1>2, <1>4, <1>5, <1>6, TakeOrFailStep DEF Op, Statement, Settled

LEMMA SettleReadyDealInv == ASSUME IInv, NEW r \in Request, SettleReadyDeal(r) PROVE IInv'
<1>1. PICK op \in Settled : TakeAll(r, op, "readyDeal", "countUnpaid")
  BY DEF SettleReadyDeal
<1>2. /\ tx[r].op = op /\ tx[r].pc = "readyDeal" /\ tx[r].arg \in Bid
      /\ CommissionRow(tx[r].arg) \in tx[r].rows /\ commission[tx[r].arg] \in Unpaid
  BY <1>1, OpenTyped DEF TakeAll, At, Op, Settled, Progress, Matches
<1>3. Need(r) = {DealRow(tx[r].arg)} /\ deal[tx[r].arg] = "COMMISSION_PENDING"
  BY <1>2, NeedOf DEF RowIf, IInv, DealLedger
<1>4. Need(r) \subseteq Row
  BY <1>2, <1>3, RowTypes
<1>5. Matches([op |-> op, arg |-> tx[r].arg, pc |-> "countUnpaid", rows |-> Need(r)])
  BY <1>2, <1>3 DEF Matches, Settled, BidRow, DealRow, CommissionRow, ListingRow
<1>6. Progress([op |-> op, arg |-> tx[r].arg, pc |-> "countUnpaid", rows |-> tx[r].rows \cup Need(r)])
  BY <1>2, <1>3 DEF Progress, Op, Settled
<1> QED
  BY <1>1, <1>4, <1>5, <1>6, TakeAllStep DEF Op, Statement, Settled

LEMMA SettleCountUnpaidInv == ASSUME IInv, NEW r \in Request, SettleCountUnpaid(r) PROVE IInv'
<1>1. PICK pc \in {"unlockJeweller", "commit"} : Claim(r, {}, pc)
  BY DEF SettleCountUnpaid
<1>2. tx[r].op \in Op /\ tx[r].op \in Settled /\ tx[r].pc = "countUnpaid" /\ Progress(tx[r])
  BY OpenTyped DEF SettleCountUnpaid, At, Op, Settled
<1>3. Progress([op |-> tx[r].op, arg |-> tx[r].arg, pc |-> pc, rows |-> tx[r].rows])
  BY <1>2 DEF Progress, Op, Settled
<1> QED
  BY <1>1, <1>2, <1>3, ReadStep DEF Statement

LEMMA SettleUnlockJewellerInv ==
  ASSUME IInv, NEW r \in Request, SettleUnlockJeweller(r) PROVE IInv'
<1>1. PICK op \in Settled : TakeAll(r, op, "unlockJeweller", "commit")
  BY DEF SettleUnlockJeweller
<1>2. /\ tx[r].op = op /\ tx[r].pc = "unlockJeweller" /\ Progress(tx[r])
      /\ JewellerOf(tx[r].arg) \in Jeweller
  BY <1>1, OpenTyped DEF TakeAll, At, Op, Settled
<1>3. Need(r) \subseteq {UserRow(JewellerOf(tx[r].arg))}
  BY <1>2, NeedOf DEF RowIf
<1>4. Need(r) \subseteq Row
  BY <1>2, <1>3, RowTypes DEF User
<1>5. Matches([op |-> op, arg |-> tx[r].arg, pc |-> "commit", rows |-> Need(r)])
  BY <1>3 DEF Matches, UserRow, BidRow, DealRow, CommissionRow, ListingRow
<1>6. Progress([op |-> op, arg |-> tx[r].arg, pc |-> "commit", rows |-> tx[r].rows \cup Need(r)])
  BY <1>2 DEF Progress, Op, Settled
<1> QED
  BY <1>1, <1>4, <1>5, <1>6, TakeAllStep DEF Op, Statement, Settled

LEMMA CompleteTakeDealInv == ASSUME IInv, NEW r \in Request, CompleteTakeDeal(r) PROVE IInv'
<1>1. tx[r].op = "complete" /\ tx[r].pc = "completeDeal" /\ tx[r].arg \in Bid
  BY OpenTyped DEF CompleteTakeDeal, TakeOrFail, At, Op
<1>2. Need(r) = RowIf(DealRow(tx[r].arg), deal[tx[r].arg] = "READY_TO_SETTLE")
  BY <1>1, NeedOf
<1>3. Need(r) \subseteq Row
  BY <1>1, <1>2, RowTypes DEF RowIf
<1>4. Matches([op |-> "complete", arg |-> tx[r].arg, pc |-> "sellListing", rows |-> Need(r)])
  BY <1>1, <1>2 DEF RowIf, Matches, BidRow, DealRow, CommissionRow, ListingRow
<1>5. Need(r) # {} => Progress([op |-> "complete", arg |-> tx[r].arg, pc |-> "sellListing",
                                rows |-> tx[r].rows \cup Need(r)])
  BY <1>1, <1>2 DEF RowIf, Progress, Op, Settled
<1> QED
  BY <1>1, <1>3, <1>4, <1>5, TakeOrFailStep DEF CompleteTakeDeal, Op, Statement

\* A deal ready to settle always has its listing in BID_ACCEPTED.
LEMMA CompleteSellListingInv ==
  ASSUME IInv, NEW r \in Request, CompleteSellListing(r) PROVE IInv'
<1> DEFINE l == ListingOf(tx[r].arg)
<1>1. /\ tx[r].op = "complete" /\ tx[r].pc = "sellListing" /\ tx[r].arg \in Bid /\ l \in Listing
      /\ DealRow(tx[r].arg) \in tx[r].rows /\ deal[tx[r].arg] = "READY_TO_SETTLE"
  BY OpenTyped DEF CompleteSellListing, TakeAll, At, Op, Progress, Matches
<1>2. Need(r) = {ListingRow(l)} /\ listing[l] = "BID_ACCEPTED"
  BY <1>1, NeedOf DEF RowIf, IInv, DealLedger
<1>3. Need(r) \subseteq Row
  BY <1>1, <1>2, RowTypes
<1>4. Matches([op |-> "complete", arg |-> tx[r].arg, pc |-> "commit", rows |-> Need(r)])
  BY <1>1, <1>2 DEF Matches, BidRow, DealRow, CommissionRow, ListingRow
<1>5. Progress([op |-> "complete", arg |-> tx[r].arg, pc |-> "commit", rows |-> tx[r].rows \cup Need(r)])
  BY <1>1, <1>2 DEF Progress, Op, Settled
<1> QED
  BY <1>3, <1>4, <1>5, TakeAllStep DEF CompleteSellListing, Op, Statement

----------------------------------------------------------------------------
(* Requests commit.                                                        *)

\* A commit that changes only rows its request holds, or rows nobody could
\* hold because they did not exist, disturbs no other request.
LEMMA CommitFrame ==
  ASSUME IInv, NEW r \in Request, End(r),
         \A b \in Bid : /\ bid'[b] # bid[b] => BidRow(b) \in tx[r].rows
                        /\ deal'[b] # deal[b] => DealRow(b) \in tx[r].rows \/ deal[b] = "NONE"
                        /\ commission'[b] # commission[b] =>
                             CommissionRow(b) \in tx[r].rows \/ commission[b] = "NONE"
                        /\ payments'[b] # payments[b] => CommissionRow(b) \in tx[r].rows,
         \A l \in Listing : /\ listing'[l] # listing[l] => ListingRow(l) \in tx[r].rows
                            /\ edits'[l] # edits[l] => ListingRow(l) \in tx[r].rows
  PROVE  /\ tx' \in [Request -> Transaction \cup {Idle}]
         /\ RowsExclusive'
         /\ (\A q \in Request : Progress(tx[q]) /\ Matches(tx[q]))'
<1>1. /\ tx \in [Request -> Transaction \cup {Idle}]
      /\ tx' \in [Request -> Transaction \cup {Idle}]
      /\ tx'[r] = Idle
      /\ \A q \in Request \ {r} : tx'[q] = tx[q]
  BY DEF IInv, TypeOK, End
<1>2. RowsExclusive'
  BY <1>1 DEF IInv, RowsExclusive, Idle
<1>3. ASSUME NEW q \in Request \ {r} PROVE Progress(tx[q])' /\ Matches(tx[q])'
  <2>1. tx[q].rows \cap tx[r].rows = {}
    BY DEF IInv, RowsExclusive
  <2>2. Progress(tx[q]) /\ Matches(tx[q]) /\ tx'[q] = tx[q]
    BY <1>1 DEF IInv
  <2>3. Matches(tx[q])'
    BY <2>1, <2>2 DEF Matches, Unpaid
  <2>4. Progress(tx[q])'
    BY <2>1, <2>2 DEF Progress, Op, Settled
  <2> QED
    BY <2>3, <2>4
<1>4. (Progress(tx[r]) /\ Matches(tx[r]))'
  BY <1>1 DEF Progress, Matches, Idle, Op, Settled
<1> QED
  BY <1>1, <1>2, <1>3, <1>4

LEMMA KeysFrame ==
  ASSUME IInv, NEW r \in Request, End(r),
         \A b \in Bid : bid'[b] = "PENDING" => bid[b] = "PENDING"
  PROVE  KeysFree'
<1>1. /\ tx'[r] = Idle
      /\ \A q \in Request \ {r} : tx'[q] = tx[q]
  BY DEF IInv, TypeOK, End
<1> QED
  BY <1>1 DEF IInv, KeysFree, SameKey, Idle

\* A new listing has no bids yet, let alone an accepted one.
LEMMA CommitCreateInv == ASSUME IInv, NEW r \in Request, CommitCreate(r) PROVE IInv'
<1>1. PICK l \in Listing : l = tx[r].arg
  BY OpenTyped DEF CommitCreate, At, Op
<1>2. /\ ListingRow(l) \in tx[r].rows /\ listing[l] = "NONE"
      /\ \A k \in Listing : listing'[k] = IF k = l THEN "ACTIVE" ELSE listing[k]
      /\ listing' \in [Listing -> ListingStatus]
  BY <1>1, OpenTyped DEF CommitCreate, At, Op, Progress, Matches, IInv, TypeOK, ListingStatus
<1>3. /\ tx' \in [Request -> Transaction \cup {Idle}]
      /\ RowsExclusive' /\ (\A q \in Request : Progress(tx[q]) /\ Matches(tx[q]))'
  BY <1>2, CommitFrame DEF CommitCreate
<1>4. KeysFree'
  BY KeysFrame DEF CommitCreate
<1>5. TypeOK'
  BY <1>2, <1>3 DEF CommitCreate, IInv, TypeOK, Transaction, Row
<1>6. OneWinner'
  BY <1>2 DEF CommitCreate, IInv, OneWinner
<1>7. DealLedger'
  BY <1>2, BidParts DEF CommitCreate, IInv, DealLedger
<1>8. OnePendingBid'
  BY DEF CommitCreate, IInv, OnePendingBid
<1> QED
  BY <1>3, <1>4, <1>5, <1>6, <1>7, <1>8 DEF IInv

LEMMA CommitEditInv == ASSUME IInv, NEW r \in Request, CommitEdit(r) PROVE IInv'
<1> DEFINE a == tx[r].arg
<1>1. /\ a \in Listing /\ ListingRow(a) \in tx[r].rows /\ edits[a] < MaxEdits
  BY OpenTyped DEF CommitEdit, At, Op, Progress, Matches
<1>2. edits' \in [Listing -> 0..MaxEdits]
  BY <1>1, EditsNat DEF CommitEdit, IInv, TypeOK
<1>3. \A l \in Listing : edits'[l] # edits[l] => ListingRow(l) \in tx[r].rows
  BY <1>1 DEF CommitEdit, IInv, TypeOK
<1>4. /\ tx' \in [Request -> Transaction \cup {Idle}]
      /\ RowsExclusive' /\ (\A q \in Request : Progress(tx[q]) /\ Matches(tx[q]))'
  BY <1>3, CommitFrame DEF CommitEdit
<1>5. KeysFree'
  BY KeysFrame DEF CommitEdit
<1>6. TypeOK'
  BY <1>2, <1>4 DEF CommitEdit, IInv, TypeOK, Transaction, Row
<1>7. (OneWinner /\ DealLedger /\ OnePendingBid)'
  BY DEF CommitEdit, IInv, OneWinner, DealLedger, OnePendingBid
<1> QED
  BY <1>4, <1>5, <1>6, <1>7 DEF IInv

LEMMA CommitCancelInv == ASSUME IInv, NEW r \in Request, CommitCancel(r) PROVE IInv'
<1> DEFINE a == tx[r].arg
<1>1. /\ tx[r].op = "cancel" /\ a \in Listing /\ ListingRow(a) \in tx[r].rows
      /\ listing[a] = "ACTIVE"
      /\ \A b \in Bid : BidRow(b) \in tx[r].rows => bid[b] = "PENDING"
  BY OpenTyped DEF CommitCancel, At, Op, Progress, Matches
<1>2. /\ listing \in [Listing -> ListingStatus] /\ bid \in [Bid -> BidStatus]
      /\ listing' = [listing EXCEPT ![a] = "CANCELLED"]
      /\ \A b \in Bid : bid'[b] = IF BidRow(b) \in tx[r].rows THEN "REJECTED" ELSE bid[b]
  BY DEF CommitCancel, IInv, TypeOK
<1>3. bid' \in [Bid -> BidStatus] /\ listing' \in [Listing -> ListingStatus]
  BY <1>2 DEF CommitCancel, BidStatus, ListingStatus
<1>4. /\ tx' \in [Request -> Transaction \cup {Idle}]
      /\ RowsExclusive' /\ (\A q \in Request : Progress(tx[q]) /\ Matches(tx[q]))'
  BY <1>1, <1>2, CommitFrame DEF CommitCancel
<1>5. KeysFree'
  BY <1>2, KeysFrame DEF CommitCancel
<1>6. TypeOK'
  BY <1>3, <1>4 DEF CommitCancel, IInv, TypeOK, Transaction, Row
<1>7. \A b \in Bid : bid'[b] = "ACCEPTED" <=> bid[b] = "ACCEPTED"
  BY <1>1, <1>2
<1>8. OneWinner'
  BY <1>1, <1>2, <1>7 DEF IInv, OneWinner
<1>9. DealLedger'
  <2>1. \A b \in Bid : listing[ListingOf(b)] \in {"BID_ACCEPTED", "SOLD"} =>
                         listing'[ListingOf(b)] = listing[ListingOf(b)]
    BY <1>1, <1>2, BidParts
  <2> QED
    BY <1>7, <2>1 DEF CommitCancel, IInv, DealLedger
<1>10. OnePendingBid'
  BY <1>2 DEF IInv, OnePendingBid, SameKey
<1> QED
  BY <1>4, <1>5, <1>6, <1>8, <1>9, <1>10 DEF IInv

LEMMA CommitRejectInv == ASSUME IInv, NEW r \in Request, CommitReject(r) PROVE IInv'
<1> DEFINE a == tx[r].arg
<1>1. a \in Bid /\ BidRow(a) \in tx[r].rows /\ bid[a] = "PENDING"
  BY OpenTyped DEF CommitReject, At, Op, Progress, Matches
<1>2. /\ bid \in [Bid -> BidStatus]
      /\ bid' = [bid EXCEPT ![a] = "REJECTED"]
  BY DEF CommitReject, IInv, TypeOK
<1>4. /\ tx' \in [Request -> Transaction \cup {Idle}]
      /\ RowsExclusive' /\ (\A q \in Request : Progress(tx[q]) /\ Matches(tx[q]))'
  BY <1>1, <1>2, CommitFrame DEF CommitReject
<1>5. KeysFree'
  BY <1>2, KeysFrame DEF CommitReject
<1>6. TypeOK'
  BY <1>2, <1>4 DEF CommitReject, IInv, TypeOK, Transaction, Row, BidStatus
<1>7. \A b \in Bid : bid'[b] = "ACCEPTED" <=> bid[b] = "ACCEPTED"
  BY <1>1, <1>2
<1>8. OneWinner' /\ DealLedger'
  BY <1>7 DEF CommitReject, IInv, OneWinner, DealLedger
<1>10. OnePendingBid'
  BY <1>2 DEF IInv, OnePendingBid, SameKey
<1> QED
  BY <1>4, <1>5, <1>6, <1>8, <1>10 DEF IInv

\* The new bid's key was free, and no second request inserts under it.
LEMMA CommitPlaceInv == ASSUME IInv, NEW r \in Request, CommitPlace(r) PROVE IInv'
<1>1. /\ tx[r].op = "place"
      /\ \A b \in Bid : BidRow(b) \in tx[r].rows => bid[b] = "NONE"
  BY OpenTyped DEF CommitPlace, At, Op, Matches
<1>2. /\ bid \in [Bid -> BidStatus] /\ bid' \in [Bid -> BidStatus]
      /\ \A b \in Bid : bid'[b] = IF BidRow(b) \in tx[r].rows THEN "PENDING" ELSE bid[b]
  BY DEF CommitPlace, IInv, TypeOK, BidStatus
<1>3. /\ tx'[r] = Idle
      /\ \A q \in Request \ {r} : tx'[q] = tx[q]
  BY DEF CommitPlace, End, IInv, TypeOK
<1>4. /\ tx' \in [Request -> Transaction \cup {Idle}]
      /\ RowsExclusive' /\ (\A q \in Request : Progress(tx[q]) /\ Matches(tx[q]))'
  BY <1>2, CommitFrame DEF CommitPlace
<1>5. KeysFree'
  <2> SUFFICES ASSUME NEW q \in Request \ {r}, NEW b \in Bid, tx[q].op = "place",
                      BidRow(b) \in tx[q].rows, NEW c \in SameKey(b)
               PROVE  /\ bid'[c] # "PENDING"
                      /\ \A p \in Request \ {r} :
                           tx[p].op = "place" /\ BidRow(c) \in tx[p].rows => c = b
    BY <1>3 DEF KeysFree, SameKey, Idle
  <2>1. BidRow(c) \in tx[r].rows => c = b
    BY <1>1 DEF IInv, KeysFree
  <2>2. BidRow(b) \notin tx[r].rows
    BY DEF IInv, RowsExclusive
  <2> QED
    BY <1>2, <2>1, <2>2 DEF IInv, KeysFree, SameKey
<1>6. TypeOK'
  BY <1>2, <1>4 DEF CommitPlace, IInv, TypeOK, Transaction, Row
<1>7. \A b \in Bid : bid'[b] = "ACCEPTED" <=> bid[b] = "ACCEPTED"
  BY <1>1, <1>2
<1>8. OneWinner' /\ DealLedger'
  BY <1>7 DEF CommitPlace, IInv, OneWinner, DealLedger
<1>9. OnePendingBid'
  <2> SUFFICES ASSUME NEW b \in Bid, NEW c \in SameKey(b), bid'[b] = "PENDING", bid'[c] = "PENDING"
               PROVE  b = c
    BY DEF OnePendingBid, SameKey
  <2>1. b \in SameKey(c) /\ c \in Bid
    BY DEF SameKey
  <2>2. CASE BidRow(b) \in tx[r].rows
    BY <1>1, <1>2, <2>1, <2>2 DEF IInv, KeysFree
  <2>3. CASE BidRow(c) \in tx[r].rows
    BY <1>1, <1>2, <2>1, <2>3 DEF IInv, KeysFree
  <2>4. CASE BidRow(b) \notin tx[r].rows /\ BidRow(c) \notin tx[r].rows
    BY <1>2, <2>1, <2>4 DEF IInv, OnePendingBid
  <2> QED
    BY <2>2, <2>3, <2>4
<1> QED
  BY <1>4, <1>5, <1>6, <1>8, <1>9 DEF IInv

\* An ACTIVE listing has no accepted bid, so the accepted one is the only one,
\* and its deal and commission are new rows.
LEMMA CommitAcceptInv == ASSUME IInv, NEW r \in Request, CommitAccept(r) PROVE IInv'
<1> DEFINE a == tx[r].arg
           l == ListingOf(tx[r].arg)
<1>1. /\ a \in Bid /\ l \in Listing /\ JewellerOf(a) \in Jeweller
      /\ BidRow(a) \in tx[r].rows /\ ListingRow(l) \in tx[r].rows
      /\ bid[a] = "PENDING" /\ listing[l] = "ACTIVE"
      /\ \A b \in Bid : BidRow(b) \in tx[r].rows => bid[b] = "PENDING"
  BY OpenTyped DEF CommitAccept, At, Op, Progress, Matches
<1>2. /\ deal[a] = "NONE" /\ commission[a] = "NONE"
      /\ \A b \in Bid : ListingOf(b) = l => bid[b] # "ACCEPTED" /\ deal[b] = "NONE"
  <2>1. \A b \in Bid : ListingOf(b) = l => bid[b] # "ACCEPTED"
    BY <1>1 DEF IInv, OneWinner
  <2>2. \A b \in Bid : ListingOf(b) = l => deal[b] = "NONE"
    BY <2>1 DEF IInv, DealLedger
  <2> QED
    BY <1>1, <2>1, <2>2 DEF IInv, DealLedger, TypeOK, CommissionStatus
<1>3. /\ \A b \in Bid : bid'[b] = IF b = a THEN "ACCEPTED"
                                  ELSE IF BidRow(b) \in tx[r].rows THEN "REJECTED" ELSE bid[b]
      /\ \A k \in Listing : listing'[k] = IF k = l THEN "BID_ACCEPTED" ELSE listing[k]
      /\ \A b \in Bid : deal'[b] = IF b = a THEN "COMMISSION_PENDING" ELSE deal[b]
      /\ \A b \in Bid : commission'[b] = IF b = a THEN "PENDING" ELSE commission[b]
      /\ \A j \in Jeweller : lock'[j] = IF j = JewellerOf(a) THEN "LOCKED" ELSE lock[j]
  BY DEF CommitAccept, IInv, TypeOK
<1>4. /\ tx' \in [Request -> Transaction \cup {Idle}]
      /\ RowsExclusive' /\ (\A q \in Request : Progress(tx[q]) /\ Matches(tx[q]))'
  BY <1>1, <1>2, <1>3, CommitFrame DEF CommitAccept
<1>5. KeysFree'
  BY <1>3, KeysFrame DEF CommitAccept
<1>6. TypeOK'
  BY <1>4 DEF CommitAccept, IInv, TypeOK, Transaction, Row, BidStatus, ListingStatus, DealStatus,
              CommissionStatus, Unpaid
<1>7. \A b \in Bid \ {a} : bid'[b] = "ACCEPTED" <=> bid[b] = "ACCEPTED"
  BY <1>1, <1>3
<1>8. OneWinner'
  BY <1>1, <1>2, <1>3, <1>7 DEF IInv, OneWinner
<1>9. DealLedger'
  <2> SUFFICES ASSUME NEW b \in Bid
               PROVE  (/\ deal[b] # "NONE" <=> bid[b] = "ACCEPTED"
                       /\ commission[b] \in Unpaid <=> deal[b] = "COMMISSION_PENDING"
                       /\ commission[b] \in Settled <=> deal[b] \in {"READY_TO_SETTLE", "COMPLETED"}
                       /\ deal[b] = "COMPLETED" => listing[ListingOf(b)] = "SOLD"
                       /\ deal[b] \in {"COMMISSION_PENDING", "READY_TO_SETTLE"} =>
                            listing[ListingOf(b)] = "BID_ACCEPTED")'
    BY DEF DealLedger
  <2>1. CASE b = a
    BY <1>1, <1>3, <2>1 DEF Unpaid, Settled
  <2>2. CASE b # a
    <3>1. deal[b] # "NONE" => listing'[ListingOf(b)] = listing[ListingOf(b)]
      BY <1>2, <1>3, BidParts
    <3> QED
      BY <1>3, <1>7, <2>2, <3>1 DEF IInv, DealLedger
  <2> QED
    BY <2>1, <2>2
<1>10. OnePendingBid'
  BY <1>3 DEF IInv, OnePendingBid, SameKey
<1> QED
  BY <1>4, <1>5, <1>6, <1>8, <1>9, <1>10 DEF IInv

\* A submitted payment keeps the commission unpaid.
LEMMA CommitSubmitInv == ASSUME IInv, NEW r \in Request, CommitSubmit(r) PROVE IInv'
<1> DEFINE a == tx[r].arg
<1>1. /\ a \in Bid /\ CommissionRow(a) \in tx[r].rows
      /\ payments[a] < MaxPayments /\ commission[a] \in Unpaid
  BY OpenTyped DEF CommitSubmit, At, Op, Progress, Matches
<1>2. /\ \A b \in Bid : commission'[b] = IF b = a THEN "PAYMENT_INITIATED" ELSE commission[b]
      /\ \A b \in Bid : b # a => payments'[b] = payments[b]
      /\ payments' \in [Bid -> 0..MaxPayments]
      /\ commission' \in [Bid -> CommissionStatus]
  BY <1>1, PaymentsNat DEF CommitSubmit, IInv, TypeOK, CommissionStatus, Unpaid
<1>3. \A b \in Bid : /\ commission'[b] \in Unpaid <=> commission[b] \in Unpaid
                     /\ commission'[b] \in Settled <=> commission[b] \in Settled
  BY <1>1, <1>2 DEF Unpaid, Settled
<1>4. /\ tx' \in [Request -> Transaction \cup {Idle}]
      /\ RowsExclusive' /\ (\A q \in Request : Progress(tx[q]) /\ Matches(tx[q]))'
  BY <1>1, <1>2, CommitFrame DEF CommitSubmit
<1>5. KeysFree'
  BY KeysFrame DEF CommitSubmit
<1>6. TypeOK'
  BY <1>2, <1>4 DEF CommitSubmit, IInv, TypeOK, Transaction, Row
<1>7. OneWinner' /\ OnePendingBid'
  BY DEF CommitSubmit, IInv, OneWinner, OnePendingBid
<1>8. DealLedger'
  BY <1>3 DEF CommitSubmit, IInv, DealLedger
<1> QED
  BY <1>4, <1>5, <1>6, <1>7, <1>8 DEF IInv

\* Settling moves the commission and its deal together.
LEMMA CommitSettleInv == ASSUME IInv, NEW r \in Request, CommitSettle(r) PROVE IInv'
<1> DEFINE a == tx[r].arg
<1>1. /\ tx[r].op \in Settled /\ a \in Bid /\ JewellerOf(a) \in Jeweller
      /\ CommissionRow(a) \in tx[r].rows /\ DealRow(a) \in tx[r].rows
      /\ commission[a] \in Unpaid /\ deal[a] = "COMMISSION_PENDING"
  BY OpenTyped DEF CommitSettle, Op, Settled, Progress, Matches
<1>2. /\ \A b \in Bid : commission'[b] = IF b = a THEN tx[r].op ELSE commission[b]
      /\ \A b \in Bid : deal'[b] = IF b = a THEN "READY_TO_SETTLE" ELSE deal[b]
      /\ \A j \in Jeweller : j # JewellerOf(a) => lock'[j] = lock[j]
      /\ commission' \in [Bid -> CommissionStatus] /\ deal' \in [Bid -> DealStatus]
      /\ lock' \in [Jeweller -> {"CLEAR", "LOCKED"}]
  BY <1>1 DEF CommitSettle, IInv, TypeOK, CommissionStatus, DealStatus
<1>4. /\ tx' \in [Request -> Transaction \cup {Idle}]
      /\ RowsExclusive' /\ (\A q \in Request : Progress(tx[q]) /\ Matches(tx[q]))'
  BY <1>1, <1>2, CommitFrame DEF CommitSettle
<1>5. KeysFree'
  BY KeysFrame DEF CommitSettle
<1>6. TypeOK'
  BY <1>2, <1>4 DEF CommitSettle, IInv, TypeOK, Transaction, Row
<1>7. OneWinner' /\ OnePendingBid'
  BY DEF CommitSettle, IInv, OneWinner, OnePendingBid
<1>8. DealLedger'
  BY <1>1, <1>2 DEF CommitSettle, IInv, DealLedger, Unpaid, Settled
<1> QED
  BY <1>4, <1>5, <1>6, <1>7, <1>8 DEF IInv

\* Any other deal on the listing is the same deal: a listing has one winner.
LEMMA CommitCompleteInv == ASSUME IInv, NEW r \in Request, CommitComplete(r) PROVE IInv'
<1> DEFINE a == tx[r].arg
           l == ListingOf(tx[r].arg)
<1>1. /\ a \in Bid /\ l \in Listing
      /\ DealRow(a) \in tx[r].rows /\ ListingRow(l) \in tx[r].rows
      /\ deal[a] = "READY_TO_SETTLE" /\ listing[l] = "BID_ACCEPTED"
  BY OpenTyped DEF CommitComplete, At, Op, Progress, Matches
<1>2. /\ \A b \in Bid : deal'[b] = IF b = a THEN "COMPLETED" ELSE deal[b]
      /\ \A k \in Listing : listing'[k] = IF k = l THEN "SOLD" ELSE listing[k]
      /\ deal' \in [Bid -> DealStatus] /\ listing' \in [Listing -> ListingStatus]
  BY <1>1 DEF CommitComplete, IInv, TypeOK, DealStatus, ListingStatus
<1>4. /\ tx' \in [Request -> Transaction \cup {Idle}]
      /\ RowsExclusive' /\ (\A q \in Request : Progress(tx[q]) /\ Matches(tx[q]))'
  BY <1>1, <1>2, CommitFrame DEF CommitComplete
<1>5. KeysFree'
  BY KeysFrame DEF CommitComplete
<1>6. TypeOK'
  BY <1>2, <1>4 DEF CommitComplete, IInv, TypeOK, Transaction, Row
<1>7. OneWinner' /\ OnePendingBid'
  BY <1>1, <1>2 DEF CommitComplete, IInv, OneWinner, OnePendingBid
<1>8. DealLedger'
  <2>1. \A b \in Bid : b # a /\ deal[b] # "NONE" => ListingOf(b) # l
    BY <1>1 DEF IInv, OneWinner, DealLedger
  <2>2. \A b \in Bid : b # a /\ deal[b] # "NONE" =>
                         listing'[ListingOf(b)] = listing[ListingOf(b)]
    BY <1>2, <2>1, BidParts
  <2> QED
    BY <1>1, <1>2, <2>2 DEF CommitComplete, IInv, DealLedger
<1> QED
  BY <1>4, <1>5, <1>6, <1>7, <1>8 DEF IInv

----------------------------------------------------------------------------
(* Steps outside the open transactions.                                    *)

LEMMA SetAccountInv ==
  ASSUME IInv, NEW u \in User, BlockUser(u) \/ UnblockUser(u) PROVE IInv'
<1>1. /\ account' \in [User -> {"ACTIVE", "SUSPENDED"}]
      /\ UNCHANGED <<bid, listing, edits, deal, commission, payments, lock, tx>>
  BY DEF BlockUser, UnblockUser, SetAccount, IInv, TypeOK
<1>2. TypeOK'
  BY <1>1 DEF IInv, TypeOK, Transaction, Row
<1>3. (\A q \in Request : Progress(tx[q]) /\ Matches(tx[q]))'
  <2> SUFFICES ASSUME NEW q \in Request PROVE (Progress(tx[q]) /\ Matches(tx[q]))'
    OBVIOUS
  <2>1. Progress(tx[q]) /\ Matches(tx[q])
    BY DEF IInv
  <2> QED
    BY <1>1, <2>1 DEF Progress, Matches
<1>4. (RowsExclusive /\ KeysFree /\ OneWinner /\ DealLedger /\ OnePendingBid)'
  BY <1>1 DEF IInv, RowsExclusive, KeysFree, SameKey, OneWinner, DealLedger, OnePendingBid
<1> QED
  BY <1>2, <1>3, <1>4 DEF IInv

----------------------------------------------------------------------------
(* The invariant and what follows from it.                                 *)

LEMMA NextInv == IInv /\ [Next]_vars => IInv'
<1> SUFFICES ASSUME IInv, [Next]_vars PROVE IInv'
  OBVIOUS
<1>1. CASE UNCHANGED vars
  <2>1. (\A q \in Request : Progress(tx[q]) /\ Matches(tx[q]))'
    BY <1>1 DEF IInv, vars, Progress, Matches
  <2> QED
    BY <1>1, <2>1 DEF vars, IInv, TypeOK, RowsExclusive, KeysFree, SameKey, OneWinner, DealLedger,
                      OnePendingBid, Transaction, Row
<1>3. ASSUME NEW u \in User, BlockUser(u) \/ UnblockUser(u) PROVE IInv'
  BY <1>3, SetAccountInv
<1>4. ASSUME NEW r \in Request, Start(r) PROVE IInv'
  BY <1>4, StartInv
<1>5. ASSUME NEW r \in Request, Proceed(r) PROVE IInv'
  <2>1. CASE CommitEdit(r) \/ CommitCancel(r) \/ CommitPlace(r) \/ CommitAccept(r) \/ CommitReject(r)
    BY <2>1, CommitEditInv, CommitCancelInv, CommitPlaceInv, CommitAcceptInv, CommitRejectInv
  <2>2. CASE CommitCreate(r) \/ CommitSubmit(r) \/ CommitSettle(r) \/ CommitComplete(r)
    BY <2>2, CommitCreateInv, CommitSubmitInv, CommitSettleInv, CommitCompleteInv
  <2>3. CASE \/ EditTakeListing(r) \/ CancelTakeListing(r) \/ CancelRejectPending(r)
             \/ PlaceInsertBid(r)
    BY <2>3, EditTakeListingInv, CancelTakeListingInv, CancelRejectPendingInv, PlaceInsertBidInv
  <2>4. CASE PlaceFindListing(r) \/ AcceptFindBid(r) \/ RejectFindBid(r) \/ CompleteFindDeal(r)
    BY <2>4, FindInv
  <2>5. CASE \/ AcceptTakeBid(r) \/ AcceptRejectOthers(r) \/ AcceptTakeListing(r)
             \/ AcceptLockJeweller(r) \/ RejectTakeBid(r)
    BY <2>5, TakeBidInv, AcceptRejectOthersInv, AcceptTakeListingInv, AcceptLockJewellerInv
  <2>6. CASE \/ SubmitTakeCommission(r) \/ SettleTakeCommission(r) \/ SettleReadyDeal(r)
             \/ SettleCountUnpaid(r) \/ SettleUnlockJeweller(r)
    BY <2>6, SubmitTakeCommissionInv, SettleTakeCommissionInv, SettleReadyDealInv,
       SettleCountUnpaidInv, SettleUnlockJewellerInv
  <2>7. CASE CompleteTakeDeal(r) \/ CompleteSellListing(r)
    BY <2>7, CompleteTakeDealInv, CompleteSellListingInv
  <2> QED
    BY <1>5, <2>1, <2>2, <2>3, <2>4, <2>5, <2>6, <2>7 DEF Proceed
<1>6. ASSUME NEW r \in Request, Abort(r) \/ DeadlockVictim(r) PROVE IInv'
  BY <1>6, FailStep DEF Abort, DeadlockVictim
<1> QED
  BY <1>1, <1>3, <1>4, <1>5, <1>6 DEF Next

\* IInv is an invariant of the marketplace, whatever its constants.
THEOREM Invariance == Spec => []IInv
BY InitInv, NextInv, PTL DEF Spec

\* Rows keep the values of their columns: no status outside its domain, never
\* more payment submissions than the limit.
THEOREM TypeCorrect == Spec => []TypeOK
BY Invariance, PTL DEF IInv

\* A listing goes to at most one bid, and leaves the market exactly then.
THEOREM OneWinnerHolds == Spec => []OneWinner
BY Invariance, PTL DEF IInv

\* Bid, deal, commission and listing of one sale always agree.
THEOREM DealLedgerHolds == Spec => []DealLedger
BY Invariance, PTL DEF IInv

\* One jeweller has at most one pending bid on a listing.
THEOREM OnePendingBidHolds == Spec => []OnePendingBid
BY Invariance, PTL DEF IInv

----------------------------------------------------------------------------
(* What a step may never do.                                               *)

\* Everything but a commit, a new listing and a blocked user leaves the tables
\* alone: the other steps only move requests.
LEMMA TablesMove ==
  ASSUME [Next]_vars
  PROVE  \/ UNCHANGED tables
         \/ \E u \in User : BlockUser(u) \/ UnblockUser(u)
         \/ \E r \in Request : \/ CommitCreate(r) \/ CommitEdit(r) \/ CommitCancel(r)
                               \/ CommitPlace(r) \/ CommitAccept(r) \/ CommitReject(r)
                               \/ CommitSubmit(r) \/ CommitSettle(r) \/ CommitComplete(r)
<1>1. CASE UNCHANGED vars
  BY <1>1 DEF vars, tables
<1>2. ASSUME NEW r \in Request, Start(r) PROVE UNCHANGED tables
  BY <1>2 DEF Start, CreateListing, UpdateListing, CancelListing, PlaceBid, AcceptBid, RejectBid,
              SubmitPayment, CompleteDeal, SettleCommission, Begin
<1>3. ASSUME NEW r \in Request, Abort(r) \/ DeadlockVictim(r) PROVE UNCHANGED tables
  BY <1>3 DEF Abort, DeadlockVictim, Fail
<1>4. ASSUME NEW r \in Request,
             \/ EditTakeListing(r) \/ CancelTakeListing(r) \/ CancelRejectPending(r)
             \/ AcceptTakeBid(r) \/ AcceptRejectOthers(r) \/ AcceptTakeListing(r)
             \/ AcceptLockJeweller(r) \/ RejectTakeBid(r) \/ SubmitTakeCommission(r)
             \/ SettleTakeCommission(r) \/ SettleReadyDeal(r) \/ SettleUnlockJeweller(r)
             \/ CompleteTakeDeal(r) \/ CompleteSellListing(r)
      PROVE  UNCHANGED tables
  BY <1>4 DEF EditTakeListing, CancelTakeListing, CancelRejectPending, AcceptTakeBid,
              AcceptRejectOthers, AcceptTakeListing, AcceptLockJeweller, RejectTakeBid,
              SubmitTakeCommission, SettleTakeCommission, SettleReadyDeal, SettleUnlockJeweller,
              CompleteTakeDeal, CompleteSellListing, TakeOrFail, TakeAll, Claim, Fail
<1>5. ASSUME NEW r \in Request,
             \/ PlaceFindListing(r) \/ PlaceInsertBid(r) \/ AcceptFindBid(r) \/ RejectFindBid(r)
             \/ SettleCountUnpaid(r) \/ CompleteFindDeal(r)
      PROVE  UNCHANGED tables
  BY <1>5 DEF PlaceFindListing, PlaceInsertBid, AcceptFindBid, RejectFindBid, SettleCountUnpaid,
              CompleteFindDeal, Claim, Fail
<1> QED
  BY <1>1, <1>2, <1>3, <1>4, <1>5 DEF Next, Proceed

\* The rows a request is about to publish, as its locks guarantee them.
LEMMA Held ==
  ASSUME IInv, NEW r \in Request, tx[r].op \in Op
  PROVE  /\ \A b \in Bid : /\ BidRow(b) \in tx[r].rows => bid[b] \in {"NONE", "PENDING"}
                           /\ DealRow(b) \in tx[r].rows =>
                                deal[b] = IF tx[r].op = "complete" THEN "READY_TO_SETTLE"
                                                                   ELSE "COMMISSION_PENDING"
                           /\ CommissionRow(b) \in tx[r].rows => commission[b] \in Unpaid
         /\ \A l \in Listing : ListingRow(l) \in tx[r].rows =>
              listing[l] \in {"NONE", "ACTIVE", "BID_ACCEPTED"}
         /\ \A l \in Listing : tx[r].op = "edit" /\ ListingRow(l) \in tx[r].rows =>
              listing[l] = "ACTIVE"
BY OpenTyped DEF Matches

\* A commit changes only what it holds, except for the rows an accept inserts.
LEMMA CommitChanges ==
  ASSUME IInv, NEW r \in Request,
         \/ CommitCreate(r) \/ CommitCancel(r) \/ CommitPlace(r) \/ CommitAccept(r)
         \/ CommitReject(r) \/ CommitSubmit(r) \/ CommitSettle(r) \/ CommitComplete(r)
  PROVE  /\ tx[r].op \in Op
         /\ \A b \in Bid :
              /\ bid'[b] # bid[b] => BidRow(b) \in tx[r].rows
              /\ deal'[b] # deal[b] => DealRow(b) \in tx[r].rows \/ deal[b] = "NONE"
              /\ commission'[b] # commission[b] => CommissionRow(b) \in tx[r].rows
                                                   \/ commission[b] = "NONE"
         /\ \A l \in Listing : listing'[l] # listing[l] => ListingRow(l) \in tx[r].rows
<1>1. tx[r].op \in Op
  BY DEF CommitCreate, CommitCancel, CommitPlace, CommitAccept, CommitReject, CommitSubmit,
         CommitSettle, CommitComplete, At, Op, Settled
<1>2. Progress(tx[r]) /\ Matches(tx[r])
  BY <1>1, OpenTyped
<1>3. CASE CommitAccept(r)
  <2> DEFINE a == tx[r].arg
  <2>1. /\ a \in Bid /\ ListingOf(a) \in Listing
        /\ BidRow(a) \in tx[r].rows /\ ListingRow(ListingOf(a)) \in tx[r].rows
        /\ bid[a] = "PENDING"
    BY <1>1, <1>2, <1>3, BidParts DEF CommitAccept, At, Progress, Matches, Op, Settled
  <2>2. deal[a] = "NONE" /\ commission[a] = "NONE"
    BY <2>1 DEF IInv, DealLedger, TypeOK, CommissionStatus
  <2> QED
    BY <1>1, <1>3, <2>1, <2>2 DEF CommitAccept, IInv, TypeOK
<1>4. CASE CommitCreate(r) \/ CommitCancel(r) \/ CommitPlace(r) \/ CommitReject(r)
  BY <1>1, <1>2, <1>4 DEF CommitCreate, CommitCancel, CommitPlace, CommitReject, At, Progress, Op, IInv, TypeOK
<1>5. CASE CommitSubmit(r) \/ CommitSettle(r) \/ CommitComplete(r)
  BY <1>1, <1>2, <1>5 DEF CommitSubmit, CommitSettle, CommitComplete, At, Progress, Op, Settled, IInv, TypeOK
<1> QED
  BY <1>3, <1>4, <1>5

\* Decided bids, settled commissions, closed listings and completed deals keep
\* their status through every step of every request.
THEOREM DecisionsFinalHolds == Spec => DecisionsFinal
<1> DEFINE Final ==
      /\ \A b \in Bid :
           /\ bid[b] \in {"ACCEPTED", "REJECTED"} => bid'[b] = bid[b]
           /\ commission[b] \in Settled => commission'[b] = commission[b]
           /\ deal[b] = "COMPLETED" => deal'[b] = deal[b]
           /\ deal[b] = "READY_TO_SETTLE" => deal'[b] # "COMMISSION_PENDING"
      /\ \A l \in Listing :
           listing[l] \in {"SOLD", "CANCELLED"} => listing'[l] = listing[l]
<1>1. ASSUME IInv, [Next]_vars PROVE Final
  <2>1. CASE UNCHANGED tables
    BY <2>1 DEF tables
  <2>3. CASE \E u \in User : BlockUser(u) \/ UnblockUser(u)
    BY <2>3 DEF BlockUser, UnblockUser, SetAccount
  <2>4. ASSUME NEW r \in Request,
               \/ CommitCreate(r) \/ CommitCancel(r) \/ CommitPlace(r) \/ CommitAccept(r)
               \/ CommitReject(r) \/ CommitSubmit(r) \/ CommitSettle(r)
        PROVE  Final
    <3>1. tx[r].op # "complete"
      BY <2>4 DEF CommitCreate, CommitCancel, CommitPlace, CommitAccept, CommitReject, CommitSubmit,
                  CommitSettle, At, Settled
    <3> QED
      BY <1>1, <2>4, <3>1, CommitChanges, Held DEF Settled, Unpaid
  <2>5. ASSUME NEW r \in Request, CommitComplete(r) PROVE Final
    <3>1. \A b \in Bid : deal'[b] # "COMMISSION_PENDING" \/ deal'[b] = deal[b]
      BY <1>1, <2>5 DEF CommitComplete, IInv, TypeOK
    <3> QED
      BY <1>1, <2>5, <3>1, CommitChanges, Held DEF Settled, Unpaid
  <2>6. ASSUME NEW r \in Request, CommitEdit(r) PROVE Final
    BY <2>6 DEF CommitEdit
  <2> QED
    BY <1>1, <2>1, <2>3, <2>4, <2>5, <2>6, TablesMove
<1>2. IInv /\ [Next]_vars => [Final]_vars
  BY <1>1
<1> QED
  BY <1>2, Invariance, PTL DEF Spec, DecisionsFinal

\* An edit is only ever published on a listing that is still ACTIVE.
THEOREM TermsFrozenHolds == Spec => TermsFrozen
<1> DEFINE Frozen == \A l \in Listing : edits'[l] # edits[l] => listing[l] = "ACTIVE"
<1>1. ASSUME IInv, [Next]_vars PROVE Frozen
  <2>1. ASSUME NEW r \in Request, CommitEdit(r) PROVE Frozen
    <3>1. tx[r].op = "edit" /\ tx[r].arg \in Listing /\ ListingRow(tx[r].arg) \in tx[r].rows
      BY <1>1, <2>1, OpenTyped DEF CommitEdit, At, Op, Progress
    <3>2. listing[tx[r].arg] = "ACTIVE"
      BY <1>1, <3>1, Held DEF Op
    <3> QED
      BY <1>1, <2>1, <3>2 DEF CommitEdit, IInv, TypeOK
  <2>2. (~ \E r \in Request : CommitEdit(r)) => edits' = edits
    BY <1>1, TablesMove DEF tables, CommitCreate, BlockUser, UnblockUser, SetAccount, CommitCancel,
       CommitPlace, CommitAccept, CommitReject, CommitSubmit, CommitSettle, CommitComplete
  <2> QED
    BY <2>1, <2>2
<1>2. IInv /\ [Next]_vars => [Frozen]_vars
  BY <1>1
<1> QED
  BY <1>2, Invariance, PTL DEF Spec, TermsFrozen

----------------------------------------------------------------------------
(* Refinement: every step is a step of the abstract sale, or a stutter.     *)

\* What a step that leaves a listing's status, winners and deals alone does to
\* its sale: nothing.
LEMMA SaleFrame ==
  ASSUME NEW l \in Listing, listing'[l] = listing[l],
         \A b \in Bid : ListingOf(b) = l =>
           /\ bid'[b] = "ACCEPTED" <=> bid[b] = "ACCEPTED"
           /\ deal'[b] = deal[b]
  PROVE  SaleOf(l)' = SaleOf(l)
<1>1. Winners(l)' = Winners(l)
  BY DEF Winners
<1>2. StageOf(l)' = StageOf(l)
  BY <1>1 DEF StageOf, Winners
<1> QED
  BY <1>1, <1>2 DEF SaleOf

\* The stage of a listing with the accepted bid a, and without one.
LEMMA StageWon ==
  ASSUME IInv, NEW a \in Bid, bid[a] = "ACCEPTED"
  PROVE  /\ Winners(ListingOf(a)) = {a}
         /\ deal[a] = "COMMISSION_PENDING" => StageOf(ListingOf(a)) = "agreed"
         /\ deal[a] = "READY_TO_SETTLE" => StageOf(ListingOf(a)) = "cleared"
         /\ deal[a] = "COMPLETED" => StageOf(ListingOf(a)) = "sold"
<1>1. Winners(ListingOf(a)) = {a}
  BY DEF Winners, IInv, OneWinner
<1> QED
  BY <1>1 DEF StageOf, IInv, DealLedger

LEMMA NoWinner ==
  ASSUME IInv, NEW l \in Listing, listing[l] \notin {"BID_ACCEPTED", "SOLD"}
  PROVE  /\ Winners(l) = {}
         /\ listing[l] = "NONE" => StageOf(l) = "draft"
         /\ listing[l] = "ACTIVE" => StageOf(l) = "open"
         /\ listing[l] = "CANCELLED" => StageOf(l) = "withdrawn"
BY DEF Winners, StageOf, IInv, OneWinner

\* One sale moves, the others stay.
LEMMA SaleMove ==
  ASSUME NEW l \in Listing, NEW from, NEW to, NEW winners,
         SaleOf(l).stage = from,
         SaleOf(l)' = [stage |-> to, winners |-> winners],
         \A k \in Listing \ {l} : SaleOf(k)' = SaleOf(k)
  PROVE  Promise!Move(l, from, to, winners)
BY DEF Promise!Move

LEMMA InitSale == Init => Promise!Init
BY DEF Init, Promise!Init, SaleOf, StageOf, Winners

\* The step of each kind of commit.
LEMMA PublishStep ==
  ASSUME IInv, NEW r \in Request, CommitCreate(r)
  PROVE  \E l \in Listing : Promise!Publish(l)
<1>1. PICK l \in Listing : l = tx[r].arg
  BY OpenTyped DEF CommitCreate, At, Op
<1>2. listing[l] = "NONE" /\ listing'[l] = "ACTIVE"
  BY <1>1, OpenTyped DEF CommitCreate, At, Op, Progress, Matches, IInv, TypeOK
<1>3. SaleOf(l).stage = "draft" /\ Winners(l) = {}
  BY <1>2, NoWinner DEF SaleOf
<1>4. Winners(l)' = Winners(l) /\ StageOf(l)' = "open"
  BY <1>2 DEF CommitCreate, Winners, StageOf
<1>5. SaleOf(l)' = [stage |-> "open", winners |-> {}]
  BY <1>3, <1>4 DEF SaleOf
<1>6. \A k \in Listing \ {l} : SaleOf(k)' = SaleOf(k)
  BY <1>1, SaleFrame DEF CommitCreate, IInv, TypeOK
<1> QED
  BY <1>3, <1>5, <1>6, SaleMove DEF Promise!Publish

LEMMA WithdrawStep ==
  ASSUME IInv, NEW r \in Request, CommitCancel(r)
  PROVE  \E l \in Listing : Promise!Withdraw(l)
<1>a. PICK l \in Listing : l = tx[r].arg
  BY OpenTyped DEF CommitCancel, At, Op, Progress
<1>1. /\ l \in Listing /\ listing[l] = "ACTIVE" /\ listing'[l] = "CANCELLED"
      /\ \A b \in Bid : bid'[b] = "ACCEPTED" <=> bid[b] = "ACCEPTED"
      /\ \A k \in Listing \ {l} : listing'[k] = listing[k]
  BY <1>a, OpenTyped DEF CommitCancel, At, Op, Progress, Matches, IInv, TypeOK
<1>2. SaleOf(l).stage = "open" /\ Winners(l) = {}
  BY <1>1, NoWinner DEF SaleOf
<1>3. Winners(l)' = Winners(l) /\ StageOf(l)' = "withdrawn"
  BY <1>1 DEF Winners, StageOf
<1>4. SaleOf(l)' = [stage |-> "withdrawn", winners |-> {}]
  BY <1>2, <1>3 DEF SaleOf
<1>5. \A k \in Listing \ {l} : SaleOf(k)' = SaleOf(k)
  BY <1>1, SaleFrame DEF CommitCancel
<1> QED
  BY <1>1, <1>2, <1>4, <1>5, SaleMove DEF Promise!Withdraw

LEMMA AgreeStep ==
  ASSUME IInv, NEW r \in Request, CommitAccept(r)
  PROVE  \E l \in Listing : \E b \in Bid : Promise!Agree(l, b)
<1>a. PICK a \in Bid : a = tx[r].arg
  BY OpenTyped DEF CommitAccept, At, Op, Settled
<1>b. PICK l \in Listing : l = ListingOf(a)
  BY BidParts
<1>1. /\ a \in Bid /\ l \in Listing /\ listing[l] = "ACTIVE" /\ bid[a] = "PENDING"
      /\ \A b \in Bid : BidRow(b) \in tx[r].rows => bid[b] = "PENDING"
  BY <1>a, <1>b, OpenTyped DEF CommitAccept, At, Op, Progress, Matches
<1>2. /\ listing'[l] = "BID_ACCEPTED" /\ deal'[a] = "COMMISSION_PENDING"
      /\ bid'[a] = "ACCEPTED"
      /\ \A b \in Bid \ {a} : deal'[b] = deal[b] /\ (bid'[b] = "ACCEPTED" <=> bid[b] = "ACCEPTED")
      /\ \A k \in Listing \ {l} : listing'[k] = listing[k]
  BY <1>a, <1>b, <1>1 DEF CommitAccept, IInv, TypeOK
<1>3. SaleOf(l).stage = "open" /\ Winners(l) = {}
  BY <1>1, NoWinner DEF SaleOf
<1>4. Winners(l)' = {a}
  BY <1>b, <1>1, <1>2, <1>3 DEF Winners
<1>5. StageOf(l)' = "agreed"
  BY <1>2, <1>4 DEF StageOf
<1>6. SaleOf(l)' = [stage |-> "agreed", winners |-> {a}]
  BY <1>4, <1>5 DEF SaleOf
<1>7. \A k \in Listing \ {l} : SaleOf(k)' = SaleOf(k)
  BY <1>b, <1>2, SaleFrame
<1>8. a \in BidsOn[l]
  BY <1>b, <1>1 DEF BidsOn
<1> QED
  BY <1>1, <1>3, <1>6, <1>7, <1>8, SaleMove DEF Promise!Agree

\* Settling and completing move the deal of the listing's one winner.
LEMMA WinnerStep ==
  ASSUME IInv, NEW a \in Bid, deal[a] # "NONE", UNCHANGED bid,
         \A b \in Bid \ {a} : deal'[b] = deal[b],
         \A k \in Listing \ {ListingOf(a)} : listing'[k] = listing[k]
  PROVE  /\ bid[a] = "ACCEPTED"
         /\ Winners(ListingOf(a)) = {a} /\ Winners(ListingOf(a))' = {a}
         /\ \A k \in Listing \ {ListingOf(a)} : SaleOf(k)' = SaleOf(k)
<1>1. bid[a] = "ACCEPTED"
  BY DEF IInv, DealLedger
<1>2. Winners(ListingOf(a)) = {a}
  BY <1>1, StageWon
<1>3. Winners(ListingOf(a))' = Winners(ListingOf(a))
  BY DEF Winners
<1>4. \A k \in Listing \ {ListingOf(a)} : SaleOf(k)' = SaleOf(k)
  BY SaleFrame
<1> QED
  BY <1>1, <1>2, <1>3, <1>4

LEMMA ClearStep ==
  ASSUME IInv, NEW r \in Request, CommitSettle(r)
  PROVE  \E l \in Listing : Promise!Clear(l)
<1>a. PICK a \in Bid : a = tx[r].arg
  BY OpenTyped DEF CommitSettle, Op, Settled
<1>b. PICK l \in Listing : l = ListingOf(a)
  BY BidParts
<1>1. /\ a \in Bid /\ l \in Listing /\ DealRow(a) \in tx[r].rows
      /\ deal[a] = "COMMISSION_PENDING"
  BY <1>a, <1>b, OpenTyped DEF CommitSettle, Op, Settled, Progress, Matches
<1>2. /\ deal'[a] = "READY_TO_SETTLE" /\ listing' = listing /\ bid' = bid
      /\ \A b \in Bid \ {a} : deal'[b] = deal[b]
  BY <1>a, <1>1 DEF CommitSettle, IInv, TypeOK
<1>3. /\ bid[a] = "ACCEPTED" /\ Winners(l) = {a} /\ Winners(l)' = {a}
      /\ \A k \in Listing \ {l} : SaleOf(k)' = SaleOf(k)
  BY <1>b, <1>1, <1>2, WinnerStep
<1>4. SaleOf(l).stage = "agreed" /\ SaleOf(l).winners = {a}
  BY <1>b, <1>1, <1>3, StageWon DEF SaleOf
<1>5. StageOf(l)' = "cleared"
  <2>1. listing[l] = "BID_ACCEPTED"
    BY <1>b, <1>1 DEF IInv, DealLedger
  <2> QED
    BY <1>2, <1>3, <2>1 DEF StageOf
<1>6. SaleOf(l)' = [stage |-> "cleared", winners |-> {a}]
  BY <1>3, <1>5 DEF SaleOf
<1>7. Promise!Move(l, "agreed", "cleared", {a})
  BY <1>1, <1>3, <1>4, <1>6, SaleMove
<1> QED
  BY <1>1, <1>4, <1>7 DEF Promise!Clear

LEMMA SellStep ==
  ASSUME IInv, NEW r \in Request, CommitComplete(r)
  PROVE  \E l \in Listing : Promise!Sell(l)
<1>a. PICK a \in Bid : a = tx[r].arg
  BY OpenTyped DEF CommitComplete, At, Op, Settled
<1>b. PICK l \in Listing : l = ListingOf(a)
  BY BidParts
<1>1. /\ a \in Bid /\ l \in Listing /\ ListingRow(l) \in tx[r].rows
      /\ deal[a] = "READY_TO_SETTLE"
  BY <1>a, <1>b, OpenTyped DEF CommitComplete, At, Op, Progress, Matches
<1>2. /\ listing'[l] = "SOLD" /\ bid' = bid
      /\ \A b \in Bid \ {a} : deal'[b] = deal[b]
      /\ \A k \in Listing \ {l} : listing'[k] = listing[k]
  BY <1>a, <1>b, <1>1 DEF CommitComplete, IInv, TypeOK
<1>3. /\ bid[a] = "ACCEPTED" /\ Winners(l) = {a} /\ Winners(l)' = {a}
      /\ \A k \in Listing \ {l} : SaleOf(k)' = SaleOf(k)
  BY <1>b, <1>1, <1>2, WinnerStep
<1>4. SaleOf(l).stage = "cleared" /\ SaleOf(l).winners = {a}
  BY <1>b, <1>1, <1>3, StageWon DEF SaleOf
<1>5. SaleOf(l)' = [stage |-> "sold", winners |-> {a}]
  BY <1>2, <1>3 DEF SaleOf, StageOf
<1>6. Promise!Move(l, "cleared", "sold", {a})
  BY <1>1, <1>3, <1>4, <1>5, SaleMove
<1> QED
  BY <1>1, <1>4, <1>6 DEF Promise!Sell

LEMMA SaleStep ==
  ASSUME IInv, [Next]_vars
  PROVE  Promise!Next \/ UNCHANGED [l \in Listing |-> SaleOf(l)]
<1>1. ASSUME \/ UNCHANGED tables
             \/ \E u \in User : BlockUser(u) \/ UnblockUser(u)
             \/ \E r \in Request : CommitEdit(r) \/ CommitSubmit(r)
      PROVE  UNCHANGED [l \in Listing |-> SaleOf(l)]
  <2>1. UNCHANGED <<bid, listing, deal>>
    BY <1>1 DEF tables, BlockUser, UnblockUser, SetAccount, CommitEdit, CommitSubmit
  <2>2. \A l \in Listing : SaleOf(l)' = SaleOf(l)
    BY <2>1, SaleFrame
  <2> QED
    BY <2>2
<1>2. ASSUME NEW r \in Request, CommitPlace(r) \/ CommitReject(r)
      PROVE  UNCHANGED [l \in Listing |-> SaleOf(l)]
  <2>1. UNCHANGED <<listing, deal>>
    BY <1>2 DEF CommitPlace, CommitReject
  <2>2. \A b \in Bid : bid'[b] = "ACCEPTED" <=> bid[b] = "ACCEPTED"
    <3>1. \A b \in Bid : bid'[b] = bid[b] \/ (bid[b] # "ACCEPTED" /\ bid'[b] # "ACCEPTED")
      <4>2. \A b \in Bid : bid'[b] # bid[b] => bid[b] # "ACCEPTED"
        BY <1>2, CommitChanges, Held
      <4>3. \A b \in Bid : bid'[b] \in {"PENDING", "REJECTED"} \/ bid'[b] = bid[b]
        BY <1>2 DEF CommitPlace, CommitReject, IInv, TypeOK
      <4> QED
        BY <4>2, <4>3
    <3> QED
      BY <3>1
  <2>3. \A l \in Listing : SaleOf(l)' = SaleOf(l)
    BY <2>1, <2>2, SaleFrame
  <2> QED
    BY <2>3
<1>3. (\E r \in Request : CommitCreate(r)) => Promise!Next
  BY PublishStep DEF Promise!Next
<1>4. (\E r \in Request : CommitCancel(r)) => Promise!Next
  BY WithdrawStep DEF Promise!Next
<1>5. (\E r \in Request : CommitAccept(r)) => Promise!Next
  BY AgreeStep DEF Promise!Next
<1>6. (\E r \in Request : CommitSettle(r)) => Promise!Next
  BY ClearStep DEF Promise!Next
<1>7. (\E r \in Request : CommitComplete(r)) => Promise!Next
  BY SellStep DEF Promise!Next
<1> QED
  BY <1>1, <1>2, <1>3, <1>4, <1>5, <1>6, <1>7, TablesMove

\* The marketplace implements the abstract sale: its rows start as drafts, and
\* each step of the code moves at most one sale by one step of the life cycle.
THEOREM Refinement == Spec => ImplementsSale
<1>1. IInv /\ [Next]_vars => [Promise!Next]_([l \in Listing |-> SaleOf(l)])
  BY SaleStep
<1> QED
  BY <1>1, InitSale, Invariance, PTL DEF Spec, ImplementsSale, Promise!Spec
=============================================================================
