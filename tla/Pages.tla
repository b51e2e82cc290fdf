-------------------------------- MODULE Pages --------------------------------
(***************************************************************************)
(* A page of the React application over the lists and records of the API.  *)
(* An effect loads what the page's filter, or the id in its path, selects; *)
(* its cleanup makes a load that is under way void.  A page may also reload *)
(* by a button or after an action, and ask for more rows: nothing makes    *)
(* those calls void.  Meanwhile others change the rows, tokens are renewed  *)
(* and calls fail.                                                         *)
(***************************************************************************)
EXTENDS Keyset

CONSTANTS Page,         \* names of the pages that may be opened
          Row,          \* rows of the table: natural numbers, newer ones larger
          Stamp,        \* Row -> created_at
          Spot,         \* where a row of a list by nearness may be: places
          PageSize,     \* limit of a list that has more pages
          MaxCalls,     \* bound: calls under way at a time
          MaxIncidents, \* bound: changes by others and of the filter, renewals,
                        \* failures
          None

ASSUME RowAssumption == Row \in SUBSET Nat /\ IsFiniteSet(Row) /\ None \notin Row
ASSUME StampAssumption ==
  /\ Stamp \in [Row -> Nat]
  /\ \A r, q \in Row : r < q => Stamp[r] <= Stamp[q]
ASSUME SpotAssumption == Spot \subseteq Place /\ Spot # {}
ASSUME SizeAssumption == PageSize \in Nat \ {0}
ASSUME BoundAssumption == MaxCalls \in Nat \ {0} /\ MaxIncidents \in Nat

VARIABLES
  kind,      \* the page that is open, by what it does
  db,        \* Row -> its status and place
  account,   \* whether the account may use the marketplace, by the server
  ui,        \* the state of the page's component and of the user it knows
  calls,     \* the calls under way, by slot
  seen,      \* history: rows that have not changed since what is shown was
             \* read, and rows on which an action has succeeded
  incidents  \* steps counted by MaxIncidents

vars == <<kind, db, account, ui, calls, seen, incidents>>

Slot == 1..MaxCalls
Status == {"none", "open", "done"}

-----------------------------------------------------------------------------
(* The pages                                                               *)

\* An effect that loads, and nothing else.
Plain ==
  [path |-> FALSE,      \* the id of the path selects one record
   filters |-> FALSE,   \* a filter selects rows
   refresh |-> FALSE,   \* a button reloads
   more |-> FALSE,      \* a button asks for more rows
   nearness |-> FALSE,  \* the list is by nearness
   acts |-> "none",     \* an action reloads the page or sets its record
   retry |-> FALSE,     \* a failed action reloads too
   hides |-> TRUE,      \* rows are hidden while isLoading
   spins |-> TRUE,      \* every load sets isLoading
   clears |-> FALSE,    \* a failed load empties the list
   signsOut |-> FALSE,  \* a 401 leaves for the sign-in page
   profile |-> "none"]  \* what a load does with the account it asks for first

AdminUsersPage ==
  [Plain EXCEPT !.filters = TRUE, !.refresh = TRUE, !.more = TRUE,
                !.acts = "reload", !.signsOut = TRUE]
AdminSubAdminsPage ==
  [Plain EXCEPT !.acts = "reload", !.signsOut = TRUE]
AuditLogsList ==
  [Plain EXCEPT !.filters = TRUE, !.more = TRUE, !.signsOut = TRUE]
SecurityAlertsList ==
  [Plain EXCEPT !.filters = TRUE, !.refresh = TRUE, !.signsOut = TRUE]
AdminCommissionsPage ==
  [Plain EXCEPT !.filters = TRUE, !.acts = "reload", !.spins = FALSE,
                !.signsOut = TRUE]
AdminKycListPage == [Plain EXCEPT !.filters = TRUE]
AdminBusinessVerificationListPage == [Plain EXCEPT !.filters = TRUE]
\* MUTANT: the record and its buttons stay on show while another is loaded.
AdminKycDetailPageShown ==
  [Plain EXCEPT !.path = TRUE, !.refresh = TRUE, !.acts = "set",
                !.retry = TRUE, !.signsOut = TRUE, !.hides = FALSE]

AdminKycDetailPage ==
  [Plain EXCEPT !.path = TRUE, !.refresh = TRUE, !.acts = "set",
                !.retry = TRUE, !.signsOut = TRUE]
AdminBusinessVerificationDetailPage ==
  [Plain EXCEPT !.path = TRUE, !.refresh = TRUE, !.acts = "set",
                !.retry = TRUE, !.signsOut = TRUE]
AdminDashboardPage == [Plain EXCEPT !.signsOut = TRUE]
DealsPage ==
  [Plain EXCEPT !.filters = TRUE, !.acts = "reload", !.clears = TRUE,
                !.hides = FALSE]
JewellerCommissionsPage ==
  [Plain EXCEPT !.filters = TRUE, !.acts = "reload", !.clears = TRUE]
SellerListingsPage == [Plain EXCEPT !.filters = TRUE]
SellerListingDetailPage ==
  [Plain EXCEPT !.path = TRUE, !.acts = "set"]
SellerDashboardPage == [Plain EXCEPT !.profile = "sets"]
JewellerDashboardPage == [Plain EXCEPT !.profile = "sets"]
JewellerMarketplacePage ==
  [Plain EXCEPT !.nearness = TRUE, !.profile = "compares"]
JewellerBidsPage == [Plain EXCEPT !.clears = TRUE, !.profile = "reruns"]

\* A client of the API that follows the cursors of a list by nearness.
MatchedListings == [Plain EXCEPT !.nearness = TRUE, !.more = TRUE]

KindOf ==
  [AdminUsers |-> AdminUsersPage, SubAdmins |-> AdminSubAdminsPage,
   AuditLogs |-> AuditLogsList, SecurityAlerts |-> SecurityAlertsList,
   AdminCommissions |-> AdminCommissionsPage, KycList |-> AdminKycListPage,
   BusinessList |-> AdminBusinessVerificationListPage,
   KycDetail |-> AdminKycDetailPage,
   BusinessDetail |-> AdminBusinessVerificationDetailPage,
   AdminDashboard |-> AdminDashboardPage, Deals |-> DealsPage,
   Commissions |-> JewellerCommissionsPage, Listings |-> SellerListingsPage,
   ListingDetail |-> SellerListingDetailPage,
   SellerDashboard |-> SellerDashboardPage,
   JewellerDashboard |-> JewellerDashboardPage,
   Marketplace |-> JewellerMarketplacePage, Bids |-> JewellerBidsPage,
   Matched |-> MatchedListings]

ASSUME PageAssumption == Page \subseteq DOMAIN KindOf

\* What may be selected: "All" rows or the open ones; or one record.
Key == IF kind.path THEN {r \in Row : db[r].st # "none"}
       ELSE IF kind.filters THEN {"All", "open"} ELSE {"All"}

-----------------------------------------------------------------------------
(* What the API answers                                                    *)

Matches(k, r) ==
  IF kind.path THEN r = k
  ELSE db[r].st # "none" /\ k \in {"All", db[r].st}

Item(r) ==
  LET p == Position(db[r].place, r)
  IN  [id |-> r, st |-> db[r].st, at |-> Stamp[r],
       rank |-> p.rank, far |-> p.far, unknown |-> p.unknown]

Before(a, b) == IF kind.nearness THEN Nearer(a, b) ELSE Newer(a, b)

Past(a, c) == IF kind.nearness THEN PastPlace(a, c) ELSE PastStamp(a, c)

Selected(k, cur) ==
  {Item(r) : r \in {q \in Row : Matches(k, q) /\ \A c \in cur : Past(Item(q), c)}}

\* A list without more pages is read with a limit that no list reaches.
PageOf(k, cur) ==
  LET S == Selected(k, cur)
      limit == IF kind.more THEN PageSize ELSE Cardinality(Row) + 1
  IN  IF kind.nearness THEN PlacePage(S, limit) ELSE StampPage(S, limit)

-----------------------------------------------------------------------------
(* Calls                                                                   *)

NoCall ==
  [op |-> "idle", stage |-> "rows", at |-> "sent", key |-> None, cur |-> {},
   row |-> None, rows |-> <<>>, next |-> {}, yes |-> FALSE, sure |-> {},
   frees |-> FALSE]

\* The call of an effect, which asks for the account first on some pages.
Load(k) ==
  [NoCall EXCEPT !.op = "load", !.key = k,
     !.stage = IF kind.profile = "none" THEN "rows" ELSE "me"]

Reload(k, frees) == [NoCall EXCEPT !.op = "reload", !.key = k, !.frees = frees]

InFlight(cs) == {s \in Slot : cs[s].op # "idle"}

Room(cs) == InFlight(cs) # Slot

\* Call c begins next to the calls cs.  History: nothing is sure of calls that
\* have met another, but for the loads of effects, which void each other.
With(cs, c) ==
  LET met == {s \in InFlight(cs) : c.op # "load" \/ cs[s].op # "load"}
      free == CHOOSE s \in Slot \ InFlight(cs) :
                \A t \in Slot \ InFlight(cs) : s <= t
  IN  [s \in Slot |->
         IF s = free THEN [c EXCEPT !.sure = IF met = {} THEN Row ELSE {}]
         ELSE IF s \in met THEN [cs[s] EXCEPT !.sure = {}] ELSE cs[s]]

\* MUTANT: an effect has no cleanup.
CleanupNone(cs) == cs

\* The cleanup of an effect: isMounted becomes false, so its call is void.
Cleanup(cs) == [s \in Slot |-> IF cs[s].op = "load" THEN NoCall ELSE cs[s]]

\* The page's effect runs again and selects k; u is the page by then.
Effect(u, k, cs) ==
  /\ Room(Cleanup(cs))
  /\ calls' = With(Cleanup(cs), Load(k))
  /\ ui' = [u EXCEPT !.key = k]

-----------------------------------------------------------------------------
(* The server                                                              *)

\* Row r changes: what was read of it before is out of date.
Changed(r, rec) ==
  /\ db' = [db EXCEPT ![r] = rec]
  /\ seen' = [seen EXCEPT !.sure = @ \ {r}]

Outdated(cs, r) ==
  [s \in Slot |-> IF cs[s].at = "done"
                  THEN [cs[s] EXCEPT !.sure = @ \ {r}] ELSE cs[s]]

AnswerRows(s) ==
  /\ calls[s].op \in {"load", "reload", "more"} /\ calls[s].stage = "rows"
  /\ LET p == PageOf(calls[s].key, calls[s].cur)
     IN  calls' = [calls EXCEPT ![s].at = "done", ![s].rows = p.rows,
                                ![s].next = p.next]
  /\ UNCHANGED <<db, seen>>

\* auth/me
AnswerMe(s) ==
  /\ calls[s].op = "load" /\ calls[s].stage = "me"
  /\ calls' = [calls EXCEPT ![s].at = "done", ![s].yes = account]
  /\ UNCHANGED <<db, seen>>

\* An action on a row that is no longer open is refused.
AnswerAct(s) ==
  LET r == calls[s].row
  IN  /\ calls[s].op = "act"
      /\ \/ /\ db[r].st = "open"
            /\ Changed(r, [db[r] EXCEPT !.st = "done"])
            /\ calls' = [Outdated(calls, r) EXCEPT ![s].at = "done",
                 ![s].rows = <<[Item(r) EXCEPT !.st = "done"]>>]
         \/ /\ db[r].st # "open"
            /\ calls' = [calls EXCEPT ![s].at = "failed"]
            /\ UNCHANGED <<db, seen>>

Answer(s) ==
  /\ calls[s].at = "sent"
  /\ AnswerRows(s) \/ AnswerMe(s) \/ AnswerAct(s)
  /\ UNCHANGED <<kind, account, ui, incidents>>

\* Someone else creates row r, or takes the action on it.
Elsewhere(r) ==
  /\ incidents < MaxIncidents
  /\ \/ db[r].st = "none" /\ Changed(r, [db[r] EXCEPT !.st = "open"])
     \/ db[r].st = "open" /\ Changed(r, [db[r] EXCEPT !.st = "done"])
  /\ calls' = Outdated(calls, r)
  /\ incidents' = incidents + 1
  /\ UNCHANGED <<kind, account, ui>>

\* A row of a list by nearness gets other coordinates or another town.
Move(r, p) ==
  /\ kind.nearness
  /\ incidents < MaxIncidents
  /\ p # db[r].place
  /\ Changed(r, [db[r] EXCEPT !.place = p])
  /\ calls' = Outdated(calls, r)
  /\ incidents' = incidents + 1
  /\ UNCHANGED <<kind, account, ui>>

\* The account's verification is approved.
Approve ==
  /\ ~account
  /\ account' = TRUE
  /\ UNCHANGED <<kind, db, ui, calls, seen, incidents>>

-----------------------------------------------------------------------------
(* What a page does with an answer                                         *)

\* The rows on show are replaced.
Replaced(c) ==
  [ui EXCEPT !.rows = c.rows, !.of = c.key, !.next = c.next]

\* finally: isLoading, of a reload isLoadingMore and busyId too.
Settled(u, c) ==
  [u EXCEPT !.loading = FALSE,
            !.more = IF c.op = "load" THEN @ ELSE FALSE,
            !.busy = IF c.frees THEN None ELSE @]

\* MUTANT: a failed load leaves isLoading.
LoadFailsSpinning(s) ==
  LET c == calls[s]
  IN  /\ ui' = IF kind.clears THEN [ui EXCEPT !.rows = <<>>, !.next = {}] ELSE ui
      /\ seen' = [seen EXCEPT !.sure = {}]
      /\ calls' = [calls EXCEPT ![s] = NoCall]

LoadFails(s) ==
  LET c == calls[s]
  IN  /\ ui' = Settled(IF kind.clears
                       THEN [ui EXCEPT !.rows = <<>>, !.of = c.key] ELSE ui, c)
      /\ seen' = [seen EXCEPT !.sure = {}]
      /\ calls' = [calls EXCEPT ![s] = NoCall]

LoadDone(s) ==
  LET c == calls[s]
  IN  /\ ui' = Settled(Replaced(c), c)
      /\ seen' = [seen EXCEPT !.sure = c.sure]
      /\ calls' = [calls EXCEPT ![s] = NoCall]

\* loadUsers, loadAuditLogs with append.
MoreDone(s) ==
  LET c == calls[s]
  IN  /\ ui' = Settled([ui EXCEPT !.rows = @ \o c.rows, !.next = c.next], c)
      /\ seen' = [seen EXCEPT !.sure = @ \intersect c.sure]
      /\ calls' = [calls EXCEPT ![s] = NoCall]

MoreFails(s) ==
  /\ ui' = Settled(ui, calls[s])
  /\ calls' = [calls EXCEPT ![s] = NoCall]
  /\ UNCHANGED seen

\* The account is known.  A page that is closed to it stays empty; a page
\* whose effect depends on the user it sets runs that effect again.
MeDone(s) ==
  LET c == calls[s]
      known == [ui EXCEPT !.me = c.yes]
      closed == [known EXCEPT !.rows = <<>>, !.of = c.key]
      gated == kind.profile # "sets" /\ ~c.yes
      rerun == \/ kind.profile = "reruns"
               \/ kind.profile = "compares" /\ ui.me # c.yes
  IN  /\ \/ /\ rerun
            /\ Effect([(IF gated THEN closed ELSE known) EXCEPT !.loading = TRUE],
                      ui.key, calls)
         \/ /\ ~rerun /\ gated
            /\ ui' = Settled(closed, c)
            /\ calls' = [calls EXCEPT ![s] = NoCall]
         \/ /\ ~rerun /\ ~gated
            /\ ui' = known
            /\ calls' = [calls EXCEPT ![s].stage = "rows", ![s].at = "sent"]
      /\ seen' = IF gated THEN [seen EXCEPT !.sure = {}] ELSE seen

\* MUTANT: the page does not reload after an action.
FollowedNot(s) ==
  /\ ui' = [ui EXCEPT !.busy = None]
  /\ calls' = [calls EXCEPT ![s] = NoCall]

\* await loadUsers() and its kin, with the filter of the render that acted.
Followed(s) ==
  LET c == calls[s]
  IN  /\ ui' = [ui EXCEPT !.loading = @ \/ kind.spins]
      /\ calls' = [calls EXCEPT ![s] = [Reload(c.key, TRUE) EXCEPT !.sure = IF c.sure = {} THEN {} ELSE Row]]

ActDone(s) ==
  LET c == calls[s]
  IN  \/ /\ kind.acts = "reload"
         /\ Followed(s)
         /\ seen' = [seen EXCEPT !.acted = @ \union {c.row}]
      \/ /\ kind.acts = "set"
         /\ ui' = [Replaced(c) EXCEPT !.busy = None]
         /\ seen' = [seen EXCEPT !.acted = @ \union {c.row}, !.sure = c.sure]
         /\ calls' = [calls EXCEPT ![s] = NoCall]

ActFails(s) ==
  /\ \/ kind.retry /\ Followed(s)
     \/ /\ ~kind.retry
        /\ ui' = [ui EXCEPT !.busy = None]
        /\ calls' = [calls EXCEPT ![s] = NoCall]
  /\ UNCHANGED seen

Deliver(s) ==
  LET c == calls[s]
  IN  /\ \/ c.op \in {"load", "reload"} /\ c.at = "failed" /\ LoadFails(s)
         \/ c.op \in {"load", "reload"} /\ c.at = "done" /\ c.stage = "rows" /\ LoadDone(s)
         \/ c.op = "load" /\ c.at = "done" /\ c.stage = "me" /\ MeDone(s)
         \/ c.op = "more" /\ c.at = "done" /\ MoreDone(s)
         \/ c.op = "more" /\ c.at = "failed" /\ MoreFails(s)
         \/ c.op = "act" /\ c.at = "done" /\ ActDone(s)
         \/ c.op = "act" /\ c.at = "failed" /\ ActFails(s)
      /\ UNCHANGED <<kind, db, account, incidents>>

-----------------------------------------------------------------------------
(* What a user does                                                        *)

\* submitFilters, resetFilters, a status tab, another id in the path.
Select(k) ==
  /\ ui.open /\ k # ui.key
  /\ incidents < MaxIncidents
  /\ Effect([ui EXCEPT !.loading = TRUE], k, calls)
  /\ incidents' = incidents + 1
  /\ UNCHANGED <<kind, db, account, seen>>

\* The timed refresh gives the tab another access token.
Renew ==
  /\ ui.open
  /\ incidents < MaxIncidents
  /\ Effect([ui EXCEPT !.loading = @ \/ kind.spins], ui.key, calls)
  /\ incidents' = incidents + 1
  /\ UNCHANGED <<kind, db, account, seen>>

Refresh ==
  /\ ui.open /\ kind.refresh /\ ~ui.loading
  /\ Room(calls)
  /\ calls' = With(calls, Reload(ui.key, FALSE))
  /\ ui' = [ui EXCEPT !.loading = TRUE]
  /\ UNCHANGED <<kind, db, account, seen, incidents>>

More ==
  /\ ui.open /\ kind.more /\ ~ui.loading /\ ~ui.more /\ ui.next # {}
  /\ Room(calls)
  /\ calls' = With(calls, [NoCall EXCEPT !.op = "more", !.key = ui.key, !.cur = ui.next])
  /\ ui' = [ui EXCEPT !.more = TRUE]
  /\ UNCHANGED <<kind, db, account, seen, incidents>>

\* handleAccountAction, handleStatusUpdate, handleApprove, handleReject,
\* handleMarkPaid, handleWaive, handleComplete, handleSubmitPayment,
\* handleCancelListing, handleUpdateListing: offered for a row that is shown
\* open; on a page of one record they are about the record of the path.
Act(i) ==
  LET r == IF kind.path THEN ui.key ELSE ui.rows[i].id
  IN  /\ ui.open /\ kind.acts # "none"
      /\ kind.hides => ~ui.loading
      /\ ui.rows[i].st = "open"
      /\ IF kind.path THEN ui.busy = None ELSE ui.busy # r
      /\ Room(calls)
      /\ calls' = With(calls, [NoCall EXCEPT !.op = "act", !.stage = "act",
                                 !.key = ui.key, !.row = r])
      /\ ui' = [ui EXCEPT !.busy = r]
      /\ UNCHANGED <<kind, db, account, seen, incidents>>

-----------------------------------------------------------------------------
(* Failures                                                                *)

\* A call is lost on its way, or its answer is.
Fail(s) ==
  /\ calls[s].op # "idle" /\ calls[s].at # "failed"
  /\ incidents < MaxIncidents
  /\ calls' = [calls EXCEPT ![s].at = "failed"]
  /\ incidents' = incidents + 1
  /\ UNCHANGED <<kind, db, account, ui, seen>>

\* 401: the admin's session is cleared and the sign-in page opens.
Expire(s) ==
  /\ calls[s].op # "idle" /\ calls[s].at = "sent"
  /\ kind.signsOut
  /\ ui' = [ui EXCEPT !.open = FALSE]
  /\ calls' = [t \in Slot |-> NoCall]
  /\ UNCHANGED <<kind, db, account, seen, incidents>>

-----------------------------------------------------------------------------
Init ==
  /\ kind \in {KindOf[p] : p \in Page}
  /\ db = [r \in Row |-> [st |-> IF \E q \in Row : q > r THEN "open" ELSE "none",
                          place |-> CHOOSE p \in Spot : TRUE]]
  /\ account \in IF kind.profile = "none" THEN {TRUE} ELSE BOOLEAN
  /\ \E k \in Key, me \in IF kind.profile = "none" THEN {TRUE} ELSE {FALSE, account} :
       /\ ui = [open |-> TRUE, key |-> k, rows |-> <<>>, of |-> k, next |-> {},
                loading |-> TRUE, more |-> FALSE, busy |-> None, me |-> me]
       /\ calls = With([s \in Slot |-> NoCall], Load(k))
  /\ seen = [sure |-> {}, acted |-> {}]
  /\ incidents = 0

Next ==
  \/ \E s \in Slot : Answer(s) \/ Deliver(s) \/ Fail(s) \/ Expire(s)
  \/ \E r \in Row : Elsewhere(r) \/ \E p \in Spot : Move(r, p)
  \/ \E k \in Key : Select(k)
  \/ \E i \in 1..Len(ui.rows) : Act(i)
  \/ Approve \/ Renew \/ Refresh \/ More

\* fetch settles every call, and the page's code then runs.
Fairness == \A s \in Slot : WF_vars(Answer(s)) /\ WF_vars(Deliver(s))

Spec == Init /\ [][Next]_vars

LiveSpec == Spec /\ Fairness

-----------------------------------------------------------------------------
ItemType ==
  [id : Row, st : Status, at : Nat, rank : 1..4, far : Nat, unknown : BOOLEAN]

\* The shape of the page's state, and no row is shown that does not exist.
TypeOK ==
  /\ kind \in {KindOf[p] : p \in Page} /\ account \in BOOLEAN
  /\ db \in [Row -> [st : Status, place : Spot]]
  /\ ui.key \in Key /\ ui.busy \in Row \union {None}
  /\ {ui.open, ui.loading, ui.more, ui.me} \subseteq BOOLEAN
  /\ ui.rows \in Seq(ItemType) /\ ui.next \subseteq Stamped \union Placed
  /\ \A i \in 1..Len(ui.rows) : db[ui.rows[i].id].st # "none"
  /\ \A s \in Slot : calls[s].rows \in Seq(ItemType) /\ calls[s].next \subseteq Stamped \union Placed
  /\ incidents \in 0..MaxIncidents

\* Nothing is under way, and what is shown was read by calls that met no other.
Calm == ui.open /\ InFlight(calls) = {} /\ seen.sure # {}

\* The page shows what its filter or path selects, also after changes of the
\* filter while loads were under way: of a row that has not changed since, the
\* status it has.
Coherent ==
  Calm => /\ ui.of = ui.key
          /\ \A i \in 1..Len(ui.rows) : ui.rows[i].id \in seen.sure =>
               /\ Matches(ui.key, ui.rows[i].id)
               /\ ui.rows[i].st = db[ui.rows[i].id].st

\* The pages of a list join: in order, so no row twice, and no row left out but
\* one that was created in the millisecond of a row on show.
Seamless ==
  Calm =>
    /\ \A i, j \in 1..Len(ui.rows) : i < j => Before(ui.rows[i], ui.rows[j])
    /\ \A r \in seen.sure : Matches(ui.key, r) =>
         \/ \E i \in 1..Len(ui.rows) : ui.rows[i].id = r
         \/ \E c \in ui.next : Past(Item(r), c)
         \/ /\ ~kind.nearness
            /\ \E i \in 1..Len(ui.rows) :
                 Stamp[r] \div Tick = ui.rows[i].at \div Tick

\* What the user has done is seen: no row is shown open on which an action of
\* this page has succeeded.
OwnActionShown ==
  Calm => \A i \in 1..Len(ui.rows) :
            ui.rows[i].id \in seen.acted => ui.rows[i].st # "open"

\* An action is about a row on show, unless a load of the page has failed or
\* has met another call: never about a record that is still to be loaded.
ActsOnShown ==
  [][\A s \in Slot :
       calls'[s].op = "act" /\ calls[s].op # "act" /\ seen.sure # {} =>
         \E i \in 1..Len(ui.rows) : ui.rows[i].id = calls'[s].row]_vars

\* A page says that it is loading only while a call is under way that will say
\* otherwise, whatever was made void or has failed.
Spinning ==
  ui.loading /\ ui.open => \E s \in Slot : calls[s].op \in {"load", "reload"}

\* The page of a jeweller's bids stops loading.
BidsShown == (kind.profile = "reruns") => <>(ui.open => ~ui.loading)
=============================================================================
