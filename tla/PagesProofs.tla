----------------------------- MODULE PagesProofs -----------------------------
(***************************************************************************)
(* Proofs about the lists of Keyset, for any positions, distances and      *)
(* times, and about the pages that show them (Pages), for any rows, places *)
(* and number of calls.                                                    *)
(***************************************************************************)
EXTENDS Pages, TLAPS, FiniteSetTheorems, WellFoundedInduction, NaturalsInduction

-----------------------------------------------------------------------------
(* Orders, cursors and conditions                                          *)

\* A place whose distance is not known has none, as Position makes it.
Known(a) == a.unknown => a.far = 0

LEMMA RankTyped == ASSUME NEW p \in Place PROVE MatchRank(p) \in 1..4
  <1>1. p.unknown \in BOOLEAN /\ p.city \in BOOLEAN /\ p.state \in BOOLEAN
    BY DEF Place
  <1>. QED BY <1>1 DEF MatchRank

\* Every row that the query reads has a place in the order.
LEMMA PositionTyped ==
  ASSUME NEW p \in Place, NEW i \in Int
  PROVE  Position(p, i) \in Placed /\ Known(Position(p, i))
  <1>1. p.far \in Nat /\ p.unknown \in BOOLEAN
    BY DEF Place
  <1>2. (IF p.unknown THEN 0 ELSE p.far) \in Nat
    BY <1>1
  <1>. QED BY <1>1, <1>2, RankTyped DEF Position, Placed, Known

\* The order by nearness is strict, and total on rows with different ids: a
\* page of it is determined, whatever the distances.
THEOREM NearnessOrders ==
  ASSUME NEW a \in Placed, NEW b \in Placed, NEW c \in Placed, Known(a), Known(b), Known(c)
  PROVE  /\ ~Nearer(a, a)
         /\ Nearer(a, b) /\ Nearer(b, c) => Nearer(a, c)
         /\ a.id # b.id => Nearer(a, b) \/ Nearer(b, a)
  <1>1. \A x \in {a, b, c} : /\ x.rank \in Int /\ x.far \in Nat /\ x.id \in Int
                             /\ x.unknown \in BOOLEAN /\ (x.unknown => x.far = 0)
    BY DEF Placed, Known
  <1>2. ~Nearer(a, a)
    BY <1>1 DEF Nearer
  <1>3. Nearer(a, b) /\ Nearer(b, c) => Nearer(a, c)
    BY <1>1 DEF Nearer
  <1>4. a.id # b.id => Nearer(a, b) \/ Nearer(b, a)
    BY <1>1 DEF Nearer
  <1>. QED BY <1>2, <1>3, <1>4

\* The condition with which the next page by nearness begins holds for exactly
\* the rows that follow the last one of the page, NULL distances included: no
\* row is left out and none repeated.
THEOREM PlaceCursorExact ==
  ASSUME NEW a \in Placed, NEW b \in Placed, Known(a), Known(b)
  PROVE  PastPlace(a, PlaceCursor(b)) <=> Nearer(b, a)
  <1>1. \A x \in {a, b} : /\ x.rank \in Int /\ x.far \in Nat /\ x.id \in Int
                          /\ x.unknown \in BOOLEAN /\ (x.unknown => x.far = 0)
    BY DEF Placed, Known
  <1>2. PICK c : c = PlaceCursor(b)
    OBVIOUS
  <1>3. c.rank = b.rank /\ c.far = b.far /\ c.unknown = b.unknown /\ c.id = b.id
    BY <1>2 DEF PlaceCursor
  <1>. QED BY <1>1, <1>2, <1>3 DEF PastPlace, Nearer

LEMMA Truncated ==
  ASSUME NEW t \in Nat
  PROVE  /\ t - (t % Tick) \in Nat /\ t - (t % Tick) <= t
         /\ t - (t % Tick) > t - Tick
         /\ t % Tick = 0 => t - (t % Tick) = t
  <1>1. t % Tick \in 0..(Tick - 1) /\ t % Tick <= t
    BY TickAssumption
  <1>. QED BY <1>1, TickAssumption

\* A page by time repeats no row of those before it, although its cursor has
\* lost the microseconds.
THEOREM StampCursorRepeatsNothing ==
  ASSUME NEW a \in Stamped, NEW b \in Stamped, PastStamp(a, StampCursor(b))
  PROVE  Newer(b, a)
  <1>1. a.at \in Nat /\ b.at \in Nat /\ a.id \in Int /\ b.id \in Int
    BY DEF Stamped
  <1>2. PICK c : c = StampCursor(b)
    OBVIOUS
  <1>3. c.at <= b.at /\ c.at \in Nat /\ c.id = b.id
    BY <1>1, <1>2, Truncated DEF StampCursor
  <1>. QED BY <1>1, <1>2, <1>3 DEF PastStamp, Newer

\* It leaves out a row only if that row was created less than a millisecond
\* before the last one of a page.
THEOREM StampCursorSkipsTicks ==
  ASSUME NEW a \in Stamped, NEW b \in Stamped, Newer(b, a), ~PastStamp(a, StampCursor(b))
  PROVE  b.at - a.at < Tick /\ b.at % Tick # 0
  <1>1. a.at \in Nat /\ b.at \in Nat /\ a.id \in Int /\ b.id \in Int
    BY DEF Stamped
  <1>2. PICK c : c = StampCursor(b)
    OBVIOUS
  <1>3. c.at = b.at - (b.at % Tick) /\ c.id = b.id
    BY <1>2 DEF StampCursor
  <1>4. c.at \in Nat /\ c.at > b.at - Tick /\ (b.at % Tick = 0 => c.at = b.at)
    BY <1>1, <1>3, Truncated
  <1>5. a.at >= c.at /\ ~(a.at = c.at /\ a.id < c.id)
    BY <1>1, <1>2, <1>4 DEF PastStamp
  <1>6. b.at - a.at < Tick
    BY <1>1, <1>4, <1>5, TickAssumption
  <1>7. b.at % Tick # 0
    BY <1>1, <1>3, <1>4, <1>5 DEF Newer
  <1>. QED BY <1>6, <1>7

-----------------------------------------------------------------------------
(* The rows of a page                                                      *)

LEMMA LeastOf ==
  ASSUME NEW T \in SUBSET Nat, T # {}
  PROVE  \E m \in T : \A n \in T : m <= n
  <1>1. PICK R : R = OpToRel(<, Nat)
    OBVIOUS
  <1>2. IsWellFoundedOn(R, Nat)
    BY <1>1, NatLessThanWellFounded
  <1>3. PICK m \in T : \A n \in T : <<n, m>> \notin R
    BY <1>2, WFMin
  <1>4. \A n \in T : ~ (n < m)
    BY <1>1, <1>3 DEF OpToRel
  <1>. QED BY <1>4

LEMMA ImageBound ==
  ASSUME NEW S, IsFiniteSet(S), NEW T, NEW f \in [S -> T], \A t \in T : \E x \in S : f[x] = t
  PROVE  IsFiniteSet(T) /\ Cardinality(T) <= Cardinality(S)
  <1>1. f \in Surjection(S, T)
    BY DEF Surjection
  <1>. QED BY <1>1, FS_Surjection

\* R orders S, strictly and totally.
Orders(R, S) ==
  /\ \A a \in S : <<a, a>> \notin R
  /\ \A a, b, c \in S : <<a, b>> \in R /\ <<b, c>> \in R => <<a, c>> \in R
  /\ \A a, b \in S : a # b => <<a, b>> \in R \/ <<b, a>> \in R

Below(R, S, a) == {b \in S : <<b, a>> \in R}

\* How many come before determines a place in the order.
LEMMA RankBelow ==
  ASSUME NEW S, IsFiniteSet(S), NEW R, Orders(R, S), NEW a \in S
  PROVE  Cardinality(Below(R, S, a)) \in 0..(Cardinality(S) - 1)
  <1>1. Below(R, S, a) \in SUBSET S /\ a \notin Below(R, S, a)
    BY DEF Below, Orders
  <1>2. /\ IsFiniteSet(Below(R, S, a))
        /\ Cardinality(Below(R, S, a)) <= Cardinality(S)
        /\ Cardinality(Below(R, S, a)) # Cardinality(S)
    BY <1>1, FS_Subset
  <1>3. Cardinality(Below(R, S, a)) \in Nat /\ Cardinality(S) \in Nat
    BY <1>2, FS_CardinalityType
  <1>. QED BY <1>2, <1>3

LEMMA RankRises ==
  ASSUME NEW S, IsFiniteSet(S), NEW R, Orders(R, S), NEW a \in S, NEW b \in S, <<a, b>> \in R
  PROVE  Cardinality(Below(R, S, a)) < Cardinality(Below(R, S, b))
  <1>1. Below(R, S, a) \in SUBSET Below(R, S, b)
    BY DEF Below, Orders
  <1>2. a \in Below(R, S, b) /\ a \notin Below(R, S, a)
    BY DEF Below, Orders
  <1>3. IsFiniteSet(Below(R, S, b))
    BY FS_Subset DEF Below
  <1>4. /\ IsFiniteSet(Below(R, S, a))
        /\ Cardinality(Below(R, S, a)) <= Cardinality(Below(R, S, b))
        /\ Cardinality(Below(R, S, a)) # Cardinality(Below(R, S, b))
    BY <1>1, <1>2, <1>3, FS_Subset
  <1>5. Cardinality(Below(R, S, a)) \in Nat /\ Cardinality(Below(R, S, b)) \in Nat
    BY <1>3, <1>4, FS_CardinalityType
  <1>. QED BY <1>4, <1>5

LEMMA RankOrders ==
  ASSUME NEW S, IsFiniteSet(S), NEW R, Orders(R, S), NEW a \in S, NEW b \in S,
         Cardinality(Below(R, S, a)) < Cardinality(Below(R, S, b))
  PROVE  <<a, b>> \in R
  <1>1. Cardinality(Below(R, S, a)) \in Nat /\ Cardinality(Below(R, S, b)) \in Nat
    BY RankBelow, FS_CardinalityType
  <1>2. a # b
    BY <1>1
  <1>3. ~ (<<b, a>> \in R)
    BY <1>1, RankRises
  <1>. QED BY <1>2, <1>3 DEF Orders

\* Every place is taken: as many ranks are given as there are.
LEMMA RankTaken ==
  ASSUME NEW S, IsFiniteSet(S), NEW R, Orders(R, S), NEW n \in 0..(Cardinality(S) - 1)
  PROVE  \E a \in S : Cardinality(Below(R, S, a)) = n
  <1>. DEFINE N == Cardinality(S)
              T == 0..(N - 1)
              f == [a \in S |-> Cardinality(Below(R, S, a))]
  <1>1. N \in Nat
    BY FS_CardinalityType
  <1>2. f \in [S -> T]
    BY RankBelow
  <1>3. \A a, b \in S : f[a] = f[b] => a = b
    <2>1. SUFFICES ASSUME NEW a \in S, NEW b \in S, f[a] = f[b], a # b PROVE FALSE
      OBVIOUS
    <2>2. f[a] \in Nat /\ f[b] \in Nat
      BY <1>1, <1>2
    <2>3. CASE <<a, b>> \in R
      BY <2>1, <2>2, <2>3, RankRises
    <2>4. CASE <<b, a>> \in R
      BY <2>1, <2>2, <2>4, RankRises
    <2>. QED BY <2>1, <2>3, <2>4 DEF Orders
  <1>5. IsFiniteSet(T) /\ Cardinality(T) = N
    BY <1>1, FS_Interval
  <1>. HIDE DEF f, T
  <1>9. DOMAIN f = S
    BY <1>2
  <1>4. f \in Injection(S, T)
    BY <1>2, <1>3, <1>9 DEF Injection, IsInjective
  <1>6. f \in Surjection(S, T)
    BY <1>4, <1>5, FS_Injection
  <1>7. n \in T
    BY DEF T
  <1>8. PICK a \in S : f[a] = n
    BY <1>6, <1>7 DEF Surjection
  <1>. QED BY <1>8 DEF f

\* The first rows of S in the order R, at most limit of them.
Firsts(rows, R, S, limit) ==
  /\ rows \in Seq(S)
  /\ Len(rows) = IF limit < Cardinality(S) THEN limit ELSE Cardinality(S)
  /\ \A i \in 1..Len(rows) : Cardinality(Below(R, S, rows[i])) = i - 1

\* They are in order, and whatever else there is comes after the last of a full page.
LEMMA FirstsAre ==
  ASSUME NEW S, IsFiniteSet(S), NEW R, Orders(R, S), NEW limit \in Nat \ {0}, NEW rows,
         Firsts(rows, R, S, limit)
  PROVE  /\ \A i, j \in 1..Len(rows) : i < j => <<rows[i], rows[j]>> \in R
         /\ \A a \in S : \/ \E i \in 1..Len(rows) : rows[i] = a
                         \/ /\ Len(rows) = limit /\ Cardinality(S) > limit
                            /\ <<rows[limit], a>> \in R
  <1>1. /\ Cardinality(S) \in Nat /\ Len(rows) \in Nat
        /\ \A i \in 1..Len(rows) : rows[i] \in S
    BY FS_CardinalityType DEF Firsts
  <1>2. ASSUME NEW i \in 1..Len(rows), NEW j \in 1..Len(rows), i < j
        PROVE  <<rows[i], rows[j]>> \in R
    <2>1. Cardinality(Below(R, S, rows[i])) < Cardinality(Below(R, S, rows[j]))
      BY <1>1, <1>2 DEF Firsts
    <2>. QED BY <1>1, <2>1, RankOrders
  <1>3. ASSUME NEW a \in S
        PROVE  \/ \E i \in 1..Len(rows) : rows[i] = a
               \/ /\ Len(rows) = limit /\ Cardinality(S) > limit
                  /\ <<rows[limit], a>> \in R
    <2>1. PICK n : n = Cardinality(Below(R, S, a))
      OBVIOUS
    <2>2. n \in 0..(Cardinality(S) - 1)
      BY <2>1, RankBelow
    <2>3. CASE n < Len(rows)
      <3>1. n + 1 \in 1..Len(rows) /\ Cardinality(Below(R, S, rows[n + 1])) = n /\ rows[n + 1] \in S
        BY <1>1, <2>2, <2>3 DEF Firsts
      <3>2. ~ (<<a, rows[n + 1]>> \in R) /\ ~ (<<rows[n + 1], a>> \in R)
        BY <2>1, <2>2, <3>1, RankRises
      <3>3. rows[n + 1] = a
        BY <3>1, <3>2 DEF Orders
      <3>. QED BY <3>1, <3>3
    <2>4. CASE n >= Len(rows)
      <3>1. Len(rows) = limit /\ Cardinality(S) > limit
        BY <1>1, <2>2, <2>4 DEF Firsts
      <3>2. limit \in 1..Len(rows) /\ Cardinality(Below(R, S, rows[limit])) = limit - 1
        BY <1>1, <3>1 DEF Firsts
      <3>3. Cardinality(Below(R, S, rows[limit])) < n
        BY <1>1, <2>2, <2>4, <3>1, <3>2
      <3>4. <<rows[limit], a>> \in R
        BY <1>1, <2>1, <3>2, <3>3, RankOrders
      <3>. QED BY <3>1, <3>4
    <2>. QED BY <1>1, <2>2, <2>3, <2>4
  <1>. QED BY <1>2, <1>3

LEMMA NewerFirsts ==
  ASSUME NEW S, IsFiniteSet(S), NEW R, Orders(R, S),
         \A a, b \in S : <<a, b>> \in R <=> Newer(a, b),
         NEW limit \in Nat
  PROVE  Firsts(FirstRows(S, Newer, limit), R, S, limit)
  <1>. DEFINE n == Cardinality(S)
              m == IF limit < n THEN limit ELSE n
              e(i) == CHOOSE a \in S : Cardinality({b \in S : Newer(b, a)}) = i - 1
  <1>1. n \in Nat /\ m \in Nat
    BY FS_CardinalityType
  <1>2. ASSUME NEW a \in S PROVE Below(R, S, a) = {b \in S : Newer(b, a)}
    BY DEF Below
  <1>3. ASSUME NEW i \in 1..m
        PROVE  e(i) \in S /\ Cardinality(Below(R, S, e(i))) = i - 1
    <2>1. i - 1 \in 0..(Cardinality(S) - 1)
      BY <1>1
    <2>2. \E a \in S : Cardinality(Below(R, S, a)) = i - 1
      BY <2>1, RankTaken
    <2>3. \E a \in S : Cardinality({b \in S : Newer(b, a)}) = i - 1
      BY <1>2, <2>2
    <2>4. e(i) \in S /\ Cardinality({b \in S : Newer(b, e(i))}) = i - 1
      BY <2>3
    <2>. QED BY <1>2, <2>4
  <1>4. FirstRows(S, Newer, limit) = [i \in 1..m |-> e(i)]
    BY DEF FirstRows
  <1>. HIDE DEF e, m
  <1>5. PICK rows : rows = [i \in 1..m |-> e(i)]
    OBVIOUS
  <1>6. rows \in [1..m -> S] /\ \A i \in 1..m : rows[i] = e(i)
    BY <1>3, <1>5
  <1>7. rows \in Seq(S) /\ Len(rows) = m
    BY <1>1, <1>6
  <1>. QED BY <1>3, <1>4, <1>5, <1>6, <1>7 DEF Firsts, m

LEMMA NearerFirsts ==
  ASSUME NEW S, IsFiniteSet(S), NEW R, Orders(R, S),
         \A a, b \in S : <<a, b>> \in R <=> Nearer(a, b),
         NEW limit \in Nat
  PROVE  Firsts(FirstRows(S, Nearer, limit), R, S, limit)
  <1>. DEFINE n == Cardinality(S)
              m == IF limit < n THEN limit ELSE n
              e(i) == CHOOSE a \in S : Cardinality({b \in S : Nearer(b, a)}) = i - 1
  <1>1. n \in Nat /\ m \in Nat
    BY FS_CardinalityType
  <1>2. ASSUME NEW a \in S PROVE Below(R, S, a) = {b \in S : Nearer(b, a)}
    BY DEF Below
  <1>3. ASSUME NEW i \in 1..m
        PROVE  e(i) \in S /\ Cardinality(Below(R, S, e(i))) = i - 1
    <2>1. i - 1 \in 0..(Cardinality(S) - 1)
      BY <1>1
    <2>2. \E a \in S : Cardinality(Below(R, S, a)) = i - 1
      BY <2>1, RankTaken
    <2>3. \E a \in S : Cardinality({b \in S : Nearer(b, a)}) = i - 1
      BY <1>2, <2>2
    <2>4. e(i) \in S /\ Cardinality({b \in S : Nearer(b, e(i))}) = i - 1
      BY <2>3
    <2>. QED BY <1>2, <2>4
  <1>4. FirstRows(S, Nearer, limit) = [i \in 1..m |-> e(i)]
    BY DEF FirstRows
  <1>. HIDE DEF e, m
  <1>5. PICK rows : rows = [i \in 1..m |-> e(i)]
    OBVIOUS
  <1>6. rows \in [1..m -> S] /\ \A i \in 1..m : rows[i] = e(i)
    BY <1>3, <1>5
  <1>7. rows \in Seq(S) /\ Len(rows) = m
    BY <1>1, <1>6
  <1>. QED BY <1>3, <1>4, <1>5, <1>6, <1>7 DEF Firsts, m

-----------------------------------------------------------------------------
(* The kinds of page                                                       *)

KindRecord ==
  [path : BOOLEAN, filters : BOOLEAN, refresh : BOOLEAN, more : BOOLEAN,
   nearness : BOOLEAN, acts : {"none", "reload", "set"}, retry : BOOLEAN,
   hides : BOOLEAN, spins : BOOLEAN, clears : BOOLEAN, signsOut : BOOLEAN,
   profile : {"none", "sets", "compares", "reruns"}]

\* What the invariant needs of a kind of page: only a page of one record sets
\* it from an action's answer; it hides the record while another is loaded, and
\* has no more pages and no order by nearness.
Sound(k) ==
  /\ k \in KindRecord
  /\ k.acts = "set" => k.path
  /\ k.path => k.hides /\ ~k.more /\ ~k.nearness

LEMMA PlainIs == Plain \in KindRecord
  BY DEF Plain, KindRecord

LEMMA KindsAre ==
  DOMAIN KindOf =
    {"AdminUsers", "SubAdmins", "AuditLogs", "SecurityAlerts", "AdminCommissions",
     "KycList", "BusinessList", "KycDetail", "BusinessDetail", "AdminDashboard",
     "Deals", "Commissions", "Listings", "ListingDetail", "SellerDashboard",
     "JewellerDashboard", "Marketplace", "Bids", "Matched"}
  BY DEF KindOf

LEMMA KindsSound == ASSUME NEW p \in Page PROVE Sound(KindOf[p])
  <1>1. Sound(KindOf["AdminUsers"])
    <2>1. KindOf["AdminUsers"] = AdminUsersPage
      BY DEF KindOf
    <2>2. Sound(AdminUsersPage)
      BY PlainIs DEF AdminUsersPage, Sound, KindRecord, Plain
    <2>. QED BY <2>1, <2>2
  <1>2. Sound(KindOf["SubAdmins"])
    <2>1. KindOf["SubAdmins"] = AdminSubAdminsPage
      BY DEF KindOf
    <2>2. Sound(AdminSubAdminsPage)
      BY PlainIs DEF AdminSubAdminsPage, Sound, KindRecord, Plain
    <2>. QED BY <2>1, <2>2
  <1>3. Sound(KindOf["AuditLogs"])
    <2>1. KindOf["AuditLogs"] = AuditLogsList
      BY DEF KindOf
    <2>2. Sound(AuditLogsList)
      BY PlainIs DEF AuditLogsList, Sound, KindRecord, Plain
    <2>. QED BY <2>1, <2>2
  <1>4. Sound(KindOf["SecurityAlerts"])
    <2>1. KindOf["SecurityAlerts"] = SecurityAlertsList
      BY DEF KindOf
    <2>2. Sound(SecurityAlertsList)
      BY PlainIs DEF SecurityAlertsList, Sound, KindRecord, Plain
    <2>. QED BY <2>1, <2>2
  <1>5. Sound(KindOf["AdminCommissions"])
    <2>1. KindOf["AdminCommissions"] = AdminCommissionsPage
      BY DEF KindOf
    <2>2. Sound(AdminCommissionsPage)
      BY PlainIs DEF AdminCommissionsPage, Sound, KindRecord, Plain
    <2>. QED BY <2>1, <2>2
  <1>6. Sound(KindOf["KycList"])
    <2>1. KindOf["KycList"] = AdminKycListPage
      BY DEF KindOf
    <2>2. Sound(AdminKycListPage)
      BY PlainIs DEF AdminKycListPage, Sound, KindRecord, Plain
    <2>. QED BY <2>1, <2>2
  <1>7. Sound(KindOf["BusinessList"])
    <2>1. KindOf["BusinessList"] = AdminBusinessVerificationListPage
      BY DEF KindOf
    <2>2. Sound(AdminBusinessVerificationListPage)
      BY PlainIs DEF AdminBusinessVerificationListPage, Sound, KindRecord, Plain
    <2>. QED BY <2>1, <2>2
  <1>8. Sound(KindOf["KycDetail"])
    <2>1. KindOf["KycDetail"] = AdminKycDetailPage
      BY DEF KindOf
    <2>2. Sound(AdminKycDetailPage)
      BY PlainIs DEF AdminKycDetailPage, Sound, KindRecord, Plain
    <2>. QED BY <2>1, <2>2
  <1>9. Sound(KindOf["BusinessDetail"])
    <2>1. KindOf["BusinessDetail"] = AdminBusinessVerificationDetailPage
      BY DEF KindOf
    <2>2. Sound(AdminBusinessVerificationDetailPage)
      BY PlainIs DEF AdminBusinessVerificationDetailPage, Sound, KindRecord, Plain
    <2>. QED BY <2>1, <2>2
  <1>10. Sound(KindOf["AdminDashboard"])
    <2>1. KindOf["AdminDashboard"] = AdminDashboardPage
      BY DEF KindOf
    <2>2. Sound(AdminDashboardPage)
      BY PlainIs DEF AdminDashboardPage, Sound, KindRecord, Plain
    <2>. QED BY <2>1, <2>2
  <1>11. Sound(KindOf["Deals"])
    <2>1. KindOf["Deals"] = DealsPage
      BY DEF KindOf
    <2>2. Sound(DealsPage)
      BY PlainIs DEF DealsPage, Sound, KindRecord, Plain
    <2>. QED BY <2>1, <2>2
  <1>12. Sound(KindOf["Commissions"])
    <2>1. KindOf["Commissions"] = JewellerCommissionsPage
      BY DEF KindOf
    <2>2. Sound(JewellerCommissionsPage)
      BY PlainIs DEF JewellerCommissionsPage, Sound, KindRecord, Plain
    <2>. QED BY <2>1, <2>2
  <1>13. Sound(KindOf["Listings"])
    <2>1. KindOf["Listings"] = SellerListingsPage
      BY DEF KindOf
    <2>2. Sound(SellerListingsPage)
      BY PlainIs DEF SellerListingsPage, Sound, KindRecord, Plain
    <2>. QED BY <2>1, <2>2
  <1>14. Sound(KindOf["ListingDetail"])
    <2>1. KindOf["ListingDetail"] = SellerListingDetailPage
      BY DEF KindOf
    <2>2. Sound(SellerListingDetailPage)
      BY PlainIs DEF SellerListingDetailPage, Sound, KindRecord, Plain
    <2>. QED BY <2>1, <2>2
  <1>15. Sound(KindOf["SellerDashboard"])
    <2>1. KindOf["SellerDashboard"] = SellerDashboardPage
      BY DEF KindOf
    <2>2. Sound(SellerDashboardPage)
      BY PlainIs DEF SellerDashboardPage, Sound, KindRecord, Plain
    <2>. QED BY <2>1, <2>2
  <1>16. Sound(KindOf["JewellerDashboard"])
    <2>1. KindOf["JewellerDashboard"] = JewellerDashboardPage
      BY DEF KindOf
    <2>2. Sound(JewellerDashboardPage)
      BY PlainIs DEF JewellerDashboardPage, Sound, KindRecord, Plain
    <2>. QED BY <2>1, <2>2
  <1>17. Sound(KindOf["Marketplace"])
    <2>1. KindOf["Marketplace"] = JewellerMarketplacePage
      BY DEF KindOf
    <2>2. Sound(JewellerMarketplacePage)
      BY PlainIs DEF JewellerMarketplacePage, Sound, KindRecord, Plain
    <2>. QED BY <2>1, <2>2
  <1>18. Sound(KindOf["Bids"])
    <2>1. KindOf["Bids"] = JewellerBidsPage
      BY DEF KindOf
    <2>2. Sound(JewellerBidsPage)
      BY PlainIs DEF JewellerBidsPage, Sound, KindRecord, Plain
    <2>. QED BY <2>1, <2>2
  <1>19. Sound(KindOf["Matched"])
    <2>1. KindOf["Matched"] = MatchedListings
      BY DEF KindOf
    <2>2. Sound(MatchedListings)
      BY PlainIs DEF MatchedListings, Sound, KindRecord, Plain
    <2>. QED BY <2>1, <2>2
  <1>. QED BY <1>1, <1>2, <1>3, <1>4, <1>5, <1>6, <1>7, <1>8, <1>9, <1>10,
           <1>11, <1>12, <1>13, <1>14, <1>15, <1>16, <1>17, <1>18, <1>19, KindsAre, PageAssumption

-----------------------------------------------------------------------------
(* The rows that the API answers                                           *)

\* An item as the API has read it.
ItemRead == {i \in ItemType : i.at = Stamp[i.id] /\ Known(i)}

Cursors == Stamped \union Placed

Rows == [Row -> [st : Status, place : Place]]

CursorOf(a) == IF kind.nearness THEN PlaceCursor(a) ELSE StampCursor(a)

LEMMA RowIsNat == ASSUME NEW r \in Row PROVE r \in Nat
  BY RowAssumption

LEMMA ItemFields ==
  ASSUME NEW a \in ItemRead
  PROVE  /\ a.id \in Row /\ a.id \in Int /\ a.st \in Status
         /\ a.at \in Nat /\ a.at = Stamp[a.id]
         /\ a.rank \in 1..4 /\ a.far \in Nat /\ a.unknown \in BOOLEAN
         /\ (a.unknown => a.far = 0)
  <1>1. a \in ItemType /\ a.at = Stamp[a.id] /\ (a.unknown => a.far = 0)
    BY DEF ItemRead, Known
  <1>2. /\ a.id \in Row /\ a.st \in Status /\ a.at \in Nat
        /\ a.rank \in 1..4 /\ a.far \in Nat /\ a.unknown \in BOOLEAN
    BY <1>1 DEF ItemType
  <1>3. a.id \in Int
    BY <1>2, RowIsNat
  <1>. QED BY <1>1, <1>2, <1>3

LEMMA PlaceOfItem ==
  ASSUME NEW a \in ItemRead
  PROVE  PlaceCursor(a) \in Placed /\ Known(PlaceCursor(a))
  <1>1. /\ a.rank \in 1..4 /\ a.far \in Nat /\ a.unknown \in BOOLEAN
        /\ a.id \in Int /\ (a.unknown => a.far = 0)
    BY ItemFields
  <1>. QED BY <1>1 DEF PlaceCursor, Placed, Known

LEMMA StampOfItem ==
  ASSUME NEW a \in ItemRead
  PROVE  StampCursor(a) \in Stamped /\ [at |-> a.at, id |-> a.id] \in Stamped
  <1>1. a.at \in Nat /\ a.id \in Int
    BY ItemFields
  <1>2. a.at - (a.at % Tick) \in Nat
    BY <1>1, Truncated
  <1>. QED BY <1>1, <1>2 DEF StampCursor, Stamped

LEMMA BeforeOrders ==
  ASSUME NEW a \in ItemRead, NEW b \in ItemRead, NEW c \in ItemRead
  PROVE  /\ ~Before(a, a)
         /\ Before(a, b) /\ Before(b, c) => Before(a, c)
         /\ a.id # b.id => Before(a, b) \/ Before(b, a)
  <1>1. CASE kind.nearness
    <2>1. PICK pa, pb, pc : pa = PlaceCursor(a) /\ pb = PlaceCursor(b) /\ pc = PlaceCursor(c)
      OBVIOUS
    <2>2. /\ pa \in Placed /\ pb \in Placed /\ pc \in Placed
          /\ Known(pa) /\ Known(pb) /\ Known(pc)
      BY <2>1, PlaceOfItem
    <2>3. /\ ~Nearer(pa, pa)
          /\ Nearer(pa, pb) /\ Nearer(pb, pc) => Nearer(pa, pc)
          /\ pa.id # pb.id => Nearer(pa, pb) \/ Nearer(pb, pa)
      BY <2>2, NearnessOrders
    <2>4. /\ Nearer(pa, pa) = Nearer(a, a) /\ Nearer(pa, pb) = Nearer(a, b)
          /\ Nearer(pb, pc) = Nearer(b, c) /\ Nearer(pa, pc) = Nearer(a, c)
          /\ Nearer(pb, pa) = Nearer(b, a) /\ pa.id = a.id /\ pb.id = b.id
      BY <2>1 DEF Nearer, PlaceCursor
    <2>. QED BY <1>1, <2>3, <2>4 DEF Before
  <1>2. CASE ~kind.nearness
    <2>1. \A x \in {a, b, c} : x.at \in Nat /\ x.id \in Int
      BY ItemFields
    <2>. QED BY <1>2, <2>1 DEF Before, Newer
  <1>. QED BY <1>1, <1>2

\* What is past the cursor of a row comes after that row.
LEMMA PastIsAfter ==
  ASSUME NEW a \in ItemRead, NEW b \in ItemRead, Past(a, CursorOf(b))
  PROVE  Before(b, a)
  <1>1. CASE kind.nearness
    <2>1. PICK pa, pb : pa = PlaceCursor(a) /\ pb = PlaceCursor(b)
      OBVIOUS
    <2>2. pa \in Placed /\ pb \in Placed /\ Known(pa) /\ Known(pb)
      BY <2>1, PlaceOfItem
    <2>3. PastPlace(pa, PlaceCursor(pb)) <=> Nearer(pb, pa)
      BY <2>2, PlaceCursorExact
    <2>4. PlaceCursor(pb) = PlaceCursor(b) /\ Nearer(pb, pa) = Nearer(b, a)
      BY <2>1 DEF Nearer, PlaceCursor
    <2>5. PastPlace(pa, PlaceCursor(b)) = PastPlace(a, PlaceCursor(b))
      BY <2>1 DEF PastPlace, PlaceCursor
    <2>6. PastPlace(a, PlaceCursor(b))
      BY <1>1 DEF Past, CursorOf
    <2>. QED BY <1>1, <2>3, <2>4, <2>5, <2>6 DEF Before
  <1>2. CASE ~kind.nearness
    <2>1. PICK pa, pb : pa = [at |-> a.at, id |-> a.id] /\ pb = [at |-> b.at, id |-> b.id]
      OBVIOUS
    <2>2. pa \in Stamped /\ pb \in Stamped
      BY <2>1, StampOfItem
    <2>3. StampCursor(pb) = StampCursor(b)
      BY <2>1 DEF StampCursor
    <2>4. PastStamp(a, StampCursor(b))
      BY <1>2 DEF Past, CursorOf
    <2>5. PastStamp(pa, StampCursor(pb))
      BY <2>1, <2>3, <2>4 DEF PastStamp
    <2>6. Newer(pb, pa)
      BY <2>2, <2>5, StampCursorRepeatsNothing
    <2>. QED BY <1>2, <2>1, <2>6 DEF Before, Newer
  <1>. QED BY <1>1, <1>2

LEMMA SameTick ==
  ASSUME NEW a \in Nat, NEW b \in Nat, NEW T \in Nat, T # 0, a <= b, a >= b - (b % T)
  PROVE  a \div T = b \div T
  OBVIOUS

\* What comes after a row is past its cursor, or of its millisecond in a list
\* by time.
LEMMA AfterIsPast ==
  ASSUME NEW a \in ItemRead, NEW b \in ItemRead, Before(b, a)
  PROVE  \/ Past(a, CursorOf(b))
         \/ ~kind.nearness /\ a.at \div Tick = b.at \div Tick
  <1>1. CASE kind.nearness
    <2>1. PICK pa, pb : pa = PlaceCursor(a) /\ pb = PlaceCursor(b)
      OBVIOUS
    <2>2. pa \in Placed /\ pb \in Placed /\ Known(pa) /\ Known(pb)
      BY <2>1, PlaceOfItem
    <2>3. PastPlace(pa, PlaceCursor(pb)) <=> Nearer(pb, pa)
      BY <2>2, PlaceCursorExact
    <2>4. PlaceCursor(pb) = PlaceCursor(b) /\ Nearer(pb, pa) = Nearer(b, a)
      BY <2>1 DEF Nearer, PlaceCursor
    <2>5. PastPlace(pa, PlaceCursor(b)) = PastPlace(a, PlaceCursor(b))
      BY <2>1 DEF PastPlace, PlaceCursor
    <2>6. Nearer(b, a)
      BY <1>1 DEF Before
    <2>. QED BY <1>1, <2>3, <2>4, <2>5, <2>6 DEF Past, CursorOf
  <1>2. CASE ~kind.nearness
    <2>1. a.at \in Nat /\ a.id \in Int /\ b.at \in Nat /\ b.id \in Int
      BY ItemFields
    <2>2. PICK c : c = StampCursor(b)
      OBVIOUS
    <2>3. c.at = b.at - (b.at % Tick) /\ c.id = b.id
      BY <2>2 DEF StampCursor
    <2>4. a.at <= b.at /\ (a.at = b.at => b.id > a.id)
      BY <1>2, <2>1 DEF Before, Newer
    <2>5. CASE a.at < c.at
      BY <1>2, <2>2, <2>5 DEF Past, PastStamp, CursorOf
    <2>6. CASE ~(a.at < c.at)
      <3>1. c.at \in Nat
        BY <2>1, <2>3, Truncated
      <3>2. a.at >= b.at - (b.at % Tick)
        BY <2>1, <2>3, <2>6, <3>1
      <3>3. a.at \div Tick = b.at \div Tick
        BY <2>1, <2>4, <3>2, TickAssumption, SameTick
      <3>. QED BY <1>2, <3>3
    <2>. QED BY <2>5, <2>6
  <1>. QED BY <1>1, <1>2

LEMMA ItemIs ==
  ASSUME db \in Rows, NEW r \in Row
  PROVE  Item(r) \in ItemRead /\ Item(r).id = r /\ Item(r).st = db[r].st
  <1>1. db[r].st \in Status /\ db[r].place \in Place /\ r \in Int
    BY RowAssumption DEF Rows
  <1>2. PICK p : p = Position(db[r].place, r)
    OBVIOUS
  <1>3. p \in Placed /\ Known(p)
    BY <1>1, <1>2, PositionTyped
  <1>4. /\ p.rank \in 1..4 /\ p.far \in Nat /\ p.unknown \in BOOLEAN
        /\ (p.unknown => p.far = 0)
    BY <1>3 DEF Placed, Known
  <1>5. Item(r) = [id |-> r, st |-> db[r].st, at |-> Stamp[r],
                   rank |-> p.rank, far |-> p.far, unknown |-> p.unknown]
    BY <1>2 DEF Item
  <1>6. Stamp[r] \in Nat
    BY StampAssumption
  <1>. QED BY <1>1, <1>4, <1>5, <1>6 DEF ItemRead, ItemType, Known

-----------------------------------------------------------------------------
(* What rows say of the table                                              *)

InOrder(rows) == \A i, j \in 1..Len(rows) : i < j => Before(rows[i], rows[j])

\* The cursor of the rows is that of the last one.
EndsAt(rows, next) ==
  \A c \in next : Len(rows) > 0 /\ c = CursorOf(rows[Len(rows)])

\* Row r is among the rows, after them, or was left out with its millisecond.
Covers(rows, next, r) ==
  \/ \E i \in 1..Len(rows) : rows[i].id = r
  \/ \E c \in next : Past(Item(r), c)
  \/ /\ ~kind.nearness
     /\ \E i \in 1..Len(rows) : Stamp[r] \div Tick = rows[i].at \div Tick

Agrees(k, i) == Matches(k, i.id) /\ i.st = db[i.id].st

PastAll(i, cur) == \A c \in cur : Past(i, c)

\* The rows, up to the cursor next, are those that k selects past cur, as far as
\* the rows of the table have stayed as they are in sure.
Told(k, rows, next, cur, sure) ==
  /\ InOrder(rows) /\ EndsAt(rows, next)
  /\ \A i \in 1..Len(rows) :
       /\ kind.path => rows[i].id = k
       /\ rows[i].id \in sure => Agrees(k, rows[i])
       /\ PastAll(rows[i], cur)
  /\ \A r \in sure : Matches(k, r) /\ PastAll(Item(r), cur) => Covers(rows, next, r)

LEMMA SelectedFinite ==
  ASSUME NEW k, NEW cur, db \in Rows
  PROVE  /\ Selected(k, cur) \in SUBSET ItemRead
         /\ IsFiniteSet(Selected(k, cur))
         /\ Cardinality(Selected(k, cur)) <= Cardinality(Row)
         /\ \A a \in Selected(k, cur) :
              a = Item(a.id) /\ Matches(k, a.id) /\ PastAll(a, cur)
         /\ \A r \in Row : Matches(k, r) /\ PastAll(Item(r), cur) =>
              Item(r) \in Selected(k, cur)
  <1>. DEFINE Q == {q \in Row : Matches(k, q) /\ \A c \in cur : Past(Item(q), c)}
              f == [q \in Q |-> Item(q)]
  <1>1. Q \in SUBSET Row
    OBVIOUS
  <1>2. IsFiniteSet(Q) /\ Cardinality(Q) <= Cardinality(Row)
    BY <1>1, RowAssumption, FS_Subset
  <1>3. f \in [Q -> ItemRead] /\ \A q \in Q : f[q] = Item(q) /\ Item(q).id = q
    BY <1>1, ItemIs
  <1>4. Selected(k, cur) = {f[q] : q \in Q}
    BY DEF Selected
  <1>5. /\ \A a \in Selected(k, cur) : a \in ItemRead /\ a = Item(a.id) /\ a.id \in Q
        /\ \A q \in Q : Item(q) \in Selected(k, cur)
    BY <1>3, <1>4
  <1>6. \A a \in Selected(k, cur) : Matches(k, a.id) /\ PastAll(a, cur)
    BY <1>5 DEF PastAll
  <1>7. \A r \in Row : Matches(k, r) /\ PastAll(Item(r), cur) => r \in Q
    BY DEF PastAll
  <1>. HIDE DEF Q, f
  <1>8. IsFiniteSet(Selected(k, cur)) /\ Cardinality(Selected(k, cur)) <= Cardinality(Q)
    <2>1. f \in [Q -> Selected(k, cur)]
      BY <1>3, <1>5
    <2>2. \A a \in Selected(k, cur) : \E q \in Q : f[q] = a
      BY <1>4
    <2>. QED BY <1>2, <2>1, <2>2, ImageBound
  <1>9. Cardinality(Selected(k, cur)) <= Cardinality(Row) /\ IsFiniteSet(Selected(k, cur))
    <2>1. /\ Cardinality(Q) \in Nat /\ Cardinality(Row) \in Nat
          /\ Cardinality(Selected(k, cur)) \in Nat
      BY <1>2, <1>8, RowAssumption, FS_CardinalityType
    <2>. QED BY <2>1, <1>2, <1>8
  <1>. QED BY <1>5, <1>6, <1>7, <1>9

\* What the API answers, and with which cursor.
LEMMA PageIs ==
  ASSUME NEW k, NEW cur, db \in Rows, Sound(kind)
  PROVE  LET p == PageOf(k, cur)
         IN  /\ p.rows \in Seq(ItemRead) /\ p.next \in SUBSET Cursors
             /\ \A i \in 1..Len(p.rows) : p.rows[i].st = db[p.rows[i].id].st
             /\ Told(k, p.rows, p.next, cur, Row)
  <1>. DEFINE S == Selected(k, cur)
              R == {p \in S \X S : Before(p[1], p[2])}
              limit == IF kind.more THEN PageSize ELSE Cardinality(Row) + 1
              rows == PageOf(k, cur).rows
              next == PageOf(k, cur).next
  <1>1. /\ S \in SUBSET ItemRead /\ IsFiniteSet(S)
        /\ \A a \in S : a = Item(a.id) /\ Matches(k, a.id) /\ PastAll(a, cur)
        /\ \A r \in Row : Matches(k, r) /\ PastAll(Item(r), cur) => Item(r) \in S
    BY SelectedFinite
  <1>2. Cardinality(Row) \in Nat /\ limit \in Nat \ {0}
    <2>1. Cardinality(Row) \in Nat
      BY RowAssumption, FS_CardinalityType
    <2>. QED BY <2>1, SizeAssumption
  <1>3. \A a, b \in S : <<a, b>> \in R <=> Before(a, b)
    OBVIOUS
  <1>4. Orders(R, S)
    <2>1. \A a \in S : <<a, a>> \notin R
      BY <1>1, <1>3, BeforeOrders
    <2>2. \A a, b, c \in S : <<a, b>> \in R /\ <<b, c>> \in R => <<a, c>> \in R
      BY <1>1, <1>3, BeforeOrders
    <2>3. ASSUME NEW a \in S, NEW b \in S, a # b PROVE <<a, b>> \in R \/ <<b, a>> \in R
      <3>1. a.id # b.id
        BY <1>1, <2>3
      <3>. QED BY <1>1, <1>3, <3>1, BeforeOrders
    <2>. QED BY <2>1, <2>2, <2>3 DEF Orders
  <1>. HIDE DEF S, R, limit
  <1>5. /\ Firsts(rows, R, S, limit)
        /\ \A c \in next : Len(rows) > 0 /\ c = CursorOf(rows[Len(rows)])
        /\ Len(rows) = limit /\ Cardinality(S) > limit => CursorOf(rows[limit]) \in next
    <2>1. Cardinality(S) \in Nat
      BY <1>1, FS_CardinalityType
    <2>2. CASE kind.nearness
      <3>1. \A a, b \in S : <<a, b>> \in R <=> Nearer(a, b)
        BY <1>3, <2>2 DEF Before
      <3>2. Firsts(FirstRows(S, Nearer, limit), R, S, limit)
        BY <1>1, <1>2, <1>4, <3>1, NearerFirsts
      <3>3. /\ rows = FirstRows(S, Nearer, limit)
            /\ next = IF Len(rows) = limit THEN {PlaceCursor(rows[limit])} ELSE {}
        BY <2>2 DEF PageOf, PlacePage, S, limit
      <3>. QED BY <1>2, <2>2, <3>2, <3>3 DEF CursorOf
    <2>3. CASE ~kind.nearness
      <3>1. \A a, b \in S : <<a, b>> \in R <=> Newer(a, b)
        BY <1>3, <2>3 DEF Before
      <3>2. Firsts(FirstRows(S, Newer, limit), R, S, limit)
        BY <1>1, <1>2, <1>4, <3>1, NewerFirsts
      <3>3. /\ rows = FirstRows(S, Newer, limit)
            /\ next = IF Cardinality(S) > limit THEN {StampCursor(rows[limit])} ELSE {}
        BY <2>3 DEF PageOf, StampPage, S, limit
      <3>4. Cardinality(S) > limit => Len(rows) = limit
        BY <1>2, <2>1, <3>2, <3>3 DEF Firsts
      <3>. QED BY <1>2, <2>3, <3>2, <3>3, <3>4 DEF CursorOf
    <2>. QED BY <2>2, <2>3
  <1>. HIDE DEF rows, next
  <1>6. rows \in Seq(S) /\ Len(rows) \in Nat /\ \A i \in 1..Len(rows) : rows[i] \in S
    BY <1>5 DEF Firsts
  <1>7. rows \in Seq(ItemRead) /\ \A i \in 1..Len(rows) : rows[i] \in ItemRead
    BY <1>1, <1>6
  <1>8. /\ \A i, j \in 1..Len(rows) : i < j => <<rows[i], rows[j]>> \in R
        /\ \A a \in S : \/ \E i \in 1..Len(rows) : rows[i] = a
                        \/ /\ Len(rows) = limit /\ Cardinality(S) > limit
                           /\ <<rows[limit], a>> \in R
    BY <1>1, <1>2, <1>4, <1>5, FirstsAre
  <1>9. InOrder(rows) /\ EndsAt(rows, next)
    BY <1>3, <1>5, <1>6, <1>8 DEF InOrder, EndsAt
  <1>10. next \in SUBSET Cursors
    <2>1. \A a \in ItemRead : CursorOf(a) \in Cursors
      BY PlaceOfItem, StampOfItem DEF CursorOf, Cursors
    <2>. QED BY <1>5, <1>6, <1>7, <2>1
  <1>11. ASSUME NEW i \in 1..Len(rows)
         PROVE  /\ rows[i].st = db[rows[i].id].st /\ Agrees(k, rows[i])
                /\ PastAll(rows[i], cur) /\ Matches(k, rows[i].id)
    <2>1. PICK a \in S : a = rows[i]
      BY <1>6
    <2>2. a \in ItemRead /\ a.id \in Row /\ a = Item(a.id) /\ Matches(k, a.id) /\ PastAll(a, cur)
      BY <1>1, <2>1, ItemFields
    <2>3. a.st = db[a.id].st
      BY <2>2, ItemIs
    <2>. QED BY <2>1, <2>2, <2>3 DEF Agrees
  <1>12. ASSUME NEW r \in Row, Matches(k, r), PastAll(Item(r), cur)
         PROVE  Covers(rows, next, r)
    <2>1. PICK a : a = Item(r)
      OBVIOUS
    <2>2. a \in S /\ a \in ItemRead /\ a.id = r /\ a.at = Stamp[r]
      BY <1>1, <1>12, <2>1, ItemIs, ItemFields
    <2>3. CASE \E i \in 1..Len(rows) : rows[i] = a
      BY <2>2, <2>3 DEF Covers
    <2>4. CASE /\ Len(rows) = limit /\ Cardinality(S) > limit
               /\ <<rows[limit], a>> \in R
      <3>1. limit \in 1..Len(rows)
        BY <1>2, <2>4
      <3>2. PICK b \in S : b = rows[limit]
        BY <1>6, <3>1
      <3>3. b \in ItemRead /\ Before(b, a) /\ CursorOf(b) \in next
        BY <1>1, <1>3, <1>5, <2>2, <2>4, <3>2
      <3>4. Past(a, CursorOf(b)) \/ (~kind.nearness /\ a.at \div Tick = b.at \div Tick)
        BY <2>2, <3>3, AfterIsPast
      <3>. QED BY <2>1, <2>2, <3>1, <3>2, <3>3, <3>4 DEF Covers
    <2>. QED BY <1>8, <2>2, <2>3, <2>4
  <1>13. Told(k, rows, next, cur, Row)
    <2>1. \A i \in 1..Len(rows) : kind.path => rows[i].id = k
      BY <1>11 DEF Matches
    <2>. QED BY <1>9, <1>11, <1>12, <2>1 DEF Told
  <1>. QED BY <1>7, <1>10, <1>11, <1>13 DEF rows, next

-----------------------------------------------------------------------------
(* The inductive invariant                                                 *)

Keys == Row \union {"All", "open", None}

UiRecord ==
  [open : BOOLEAN, key : Keys, rows : Seq(ItemRead), of : Keys, next : SUBSET Cursors,
   loading : BOOLEAN, more : BOOLEAN, busy : Row \union {None}, me : BOOLEAN]

CallRecord ==
  [op : {"idle", "load", "reload", "more", "act"}, stage : {"rows", "me", "act"},
   at : {"sent", "done", "failed"}, key : Keys, cur : SUBSET Cursors,
   row : Row \union {None}, rows : Seq(ItemRead), next : SUBSET Cursors,
   yes : BOOLEAN, sure : SUBSET Row, frees : BOOLEAN]

SeenRecord == [sure : SUBSET Row, acted : SUBSET Row]

Types ==
  /\ Sound(kind) /\ account \in BOOLEAN /\ db \in Rows
  /\ ui \in UiRecord /\ (kind.path => ui.key \in Row)
  /\ calls \in [Slot -> CallRecord] /\ seen \in SeenRecord

\* Rows on which an action has succeeded are not open again.
ActedDone == \A r \in seen.acted : db[r].st = "done"

\* A call that is sure of what it reads has met no other.
Alone ==
  \A s, t \in Slot : calls[s].sure # {} /\ calls[t].op # "idle" => s = t

\* The answer that call c has got to a read.
ReadOk(c) ==
  /\ Told(c.key, c.rows, c.next, c.cur, c.sure)
  /\ c.sure # {} => \A i \in 1..Len(c.rows) :
       c.rows[i].id \in seen.acted => c.rows[i].st # "open"

\* What an action is about, and its answer.
ActOk(c) ==
  /\ c.row \in Row /\ c.next = {} /\ c.stage = "act"
  /\ kind.path => c.row = c.key
  /\ c.at = "done" =>
       /\ db[c.row].st = "done"
       /\ Len(c.rows) = 1 /\ c.rows[1].id = c.row /\ c.rows[1].st = "done"

Fetched(c) ==
  c.op \in {"load", "reload", "more"} /\ c.stage = "rows" /\ c.at = "done"

CallOk(c) ==
  /\ c.op = "idle" => c = NoCall
  /\ c.sure # {} => /\ c.key = ui.key
                    /\ c.op = "more" => c.cur = ui.next /\ c.cur # {}
  /\ c.op = "load" => c.key = ui.key /\ c.stage # "act"
  /\ c.op \in {"load", "reload"} => c.cur = {}
  /\ c.op \in {"reload", "more"} => c.stage = "rows"
  /\ c.op = "more" => kind.more
  /\ c.op = "act" => ActOk(c)
  /\ Fetched(c) => ReadOk(c)

CallsOk == \A s \in Slot : CallOk(calls[s])

Under(op) == \E s \in Slot : calls[s].op = op

\* What is on show while it is sure: what its key selects; an action's row is
\* open only until a reload that is under way; and another key is on its way.
Shown ==
  /\ Told(ui.of, ui.rows, ui.next, {}, seen.sure)
  /\ \A i \in 1..Len(ui.rows) :
       ui.rows[i].id \in seen.acted /\ ui.rows[i].st = "open" => Under("reload")
  /\ ui.of # ui.key => Under("load") /\ (kind.path => ui.loading)

ShownOk == ui.open /\ seen.sure # {} => Shown

IInv == Types /\ ActedDone /\ Alone /\ CallsOk /\ ShownOk /\ Spinning

-----------------------------------------------------------------------------
(* What stays true of rows and calls                                       *)

LEMMA NoCallTyped == NoCall \in CallRecord /\ NoCall.op = "idle" /\ NoCall.sure = {}
  BY DEF NoCall, CallRecord, Keys

LEMMA ItemStays ==
  ASSUME NEW r, db'[r] = db[r]
  PROVE  Item(r)' = Item(r)
  BY DEF Item

\* Rows still tell of the table what they did, but of the rows that changed.
LEMMA ToldStays ==
  ASSUME NEW k, NEW rows, NEW next, NEW cur, NEW sure, NEW T, T \in SUBSET sure,
         Told(k, rows, next, cur, sure), kind' = kind, \A r \in T : db'[r] = db[r]
  PROVE  Told(k, rows, next, cur, T)'
  <1>1. InOrder(rows)' /\ EndsAt(rows, next)'
    BY DEF Told, InOrder, EndsAt, Before, CursorOf
  <1>2. ASSUME NEW i, NEW c PROVE Past(i, c)' = Past(i, c)
    BY DEF Past
  <1>3. ASSUME NEW r \in T PROVE Matches(k, r)' = Matches(k, r) /\ Item(r)' = Item(r)
    <2>1. db'[r] = db[r]
      OBVIOUS
    <2>2. Matches(k, r)' = Matches(k, r)
      BY <2>1 DEF Matches
    <2>. QED BY <2>1, <2>2, ItemStays
  <1>4. ASSUME NEW i \in 1..Len(rows)
        PROVE  /\ kind'.path => rows[i].id = k
               /\ rows[i].id \in T => Agrees(k, rows[i])'
               /\ PastAll(rows[i], cur)'
    <2>1. (kind'.path => rows[i].id = k) /\ PastAll(rows[i], cur)'
      BY <1>2 DEF Told, PastAll
    <2>2. ASSUME rows[i].id \in T PROVE Agrees(k, rows[i])'
      <3>1. Agrees(k, rows[i])
        BY <2>2 DEF Told
      <3>. QED BY <1>3, <2>2, <3>1 DEF Agrees
    <2>. QED BY <2>1, <2>2
  <1>5. ASSUME NEW r \in T, Matches(k, r)', PastAll(Item(r), cur)'
        PROVE  Covers(rows, next, r)'
    <2>1. Matches(k, r) /\ PastAll(Item(r), cur)
      BY <1>2, <1>3, <1>5 DEF PastAll
    <2>2. Covers(rows, next, r)
      BY <2>1 DEF Told
    <2>. QED BY <1>2, <1>3, <2>2 DEF Covers
  <1>. QED BY <1>1, <1>4, <1>5 DEF Told

\* A call is as it was, but for the rows that it is no longer sure of.
LEMMA CallStays ==
  ASSUME NEW c \in CallRecord, CallOk(c), NEW T, T \in SUBSET c.sure,
         NEW d, d = [c EXCEPT !.sure = T],
         kind' = kind,
         c.at = "done" => \A r \in T : db'[r] = db[r],
         \A r \in Row : db[r].st = "done" => db'[r].st = "done",
         T # {} => ui'.key = ui.key /\ ui'.next = ui.next /\ seen'.acted = seen.acted,
         c.op = "load" => ui'.key = ui.key
  PROVE  d \in CallRecord /\ CallOk(d)'
  <1>1. /\ d \in CallRecord /\ d.op = c.op /\ d.stage = c.stage /\ d.at = c.at
        /\ d.key = c.key /\ d.cur = c.cur /\ d.row = c.row /\ d.rows = c.rows
        /\ d.next = c.next /\ d.sure = T
    BY DEF CallRecord
  <1>2. ASSUME c.op = "idle" PROVE d = NoCall
    <2>1. c = NoCall
      BY <1>2 DEF CallOk
    <2>2. T = {}
      BY <2>1, NoCallTyped
    <2>. QED BY <2>1, <2>2 DEF NoCall
  <1>3. ASSUME c.op = "act" PROVE ActOk(d)'
    <2>1. ActOk(c)
      BY <1>3 DEF CallOk
    <2>. QED BY <1>1, <2>1 DEF ActOk
  <1>4. ASSUME Fetched(d) PROVE ReadOk(d)'
    <2>1. ReadOk(c) /\ c.at = "done"
      BY <1>1, <1>4 DEF Fetched, CallOk
    <2>2. PICK k, rows, next, cur :
            k = c.key /\ rows = c.rows /\ next = c.next /\ cur = c.cur
      OBVIOUS
    <2>3. Told(k, rows, next, cur, c.sure)
      BY <2>1, <2>2 DEF ReadOk
    <2>4. Told(k, rows, next, cur, T)'
      BY <2>1, <2>3, ToldStays
    <2>5. c.sure # {} => \A i \in 1..Len(c.rows) :
            c.rows[i].id \in seen.acted => c.rows[i].st # "open"
      BY <2>1 DEF ReadOk
    <2>6. d.sure # {} => \A i \in 1..Len(d.rows) :
            d.rows[i].id \in seen'.acted => d.rows[i].st # "open"
      BY <1>1, <2>5
    <2>. QED BY <1>1, <2>2, <2>4, <2>6 DEF ReadOk
  <1>5. d.sure # {} => /\ d.key = ui'.key
                       /\ d.op = "more" => d.cur = ui'.next /\ d.cur # {}
    BY <1>1 DEF CallOk
  <1>6. /\ d.op = "load" => d.key = ui'.key /\ d.stage # "act"
        /\ d.op \in {"load", "reload"} => d.cur = {}
        /\ d.op \in {"reload", "more"} => d.stage = "rows"
        /\ d.op = "more" => kind'.more
    BY <1>1 DEF CallOk
  <1>7. Fetched(d)' <=> Fetched(d)
    BY DEF Fetched
  <1>. QED BY <1>1, <1>2, <1>3, <1>4, <1>5, <1>6, <1>7 DEF CallOk

\* What is shown is still told of, but of the rows that changed.
LEMMA ShownStays ==
  ASSUME Shown, seen'.sure \in SUBSET seen.sure, kind' = kind,
         \A r \in seen'.sure : db'[r] = db[r],
         ui'.rows = ui.rows, ui'.of = ui.of, ui'.next = ui.next, ui'.key = ui.key,
         kind.path /\ ui.loading => ui'.loading, seen'.acted = seen.acted,
         Under("load") => Under("load")', Under("reload") => Under("reload")'
  PROVE  Shown'
  <1>1. PICK k, rows, next, sure :
          k = ui.of /\ rows = ui.rows /\ next = ui.next /\ sure = seen'.sure
    OBVIOUS
  <1>2. Told(k, rows, next, {}, seen.sure)
    BY <1>1 DEF Shown
  <1>3. Told(k, rows, next, {}, sure)'
    BY <1>1, <1>2, ToldStays
  <1>4. Told(ui.of, ui.rows, ui.next, {}, seen.sure)'
    BY <1>1, <1>3
  <1>5. \A i \in 1..Len(ui'.rows) :
          ui'.rows[i].id \in seen'.acted /\ ui'.rows[i].st = "open" => Under("reload")'
    BY DEF Shown
  <1>6. ui'.of # ui'.key => Under("load")' /\ (kind'.path => ui'.loading)
    BY DEF Shown
  <1>. QED BY <1>4, <1>5, <1>6 DEF Shown

-----------------------------------------------------------------------------
(* A call begins                                                           *)

LEMMA FreeSlot ==
  ASSUME NEW cs, Room(cs)
  PROVE  LET free == CHOOSE s \in Slot \ InFlight(cs) :
                       \A t \in Slot \ InFlight(cs) : s <= t
         IN  free \in Slot /\ cs[free].op = "idle"
  <1>1. Slot \ InFlight(cs) \in SUBSET Nat /\ Slot \ InFlight(cs) # {}
    BY BoundAssumption DEF Slot, InFlight, Room
  <1>2. \E s \in Slot \ InFlight(cs) : \A t \in Slot \ InFlight(cs) : s <= t
    BY <1>1, LeastOf
  <1>. QED BY <1>2 DEF InFlight

\* The calls next to which a call begins are what they were, and sure of
\* nothing that it could have changed.
LEMMA WithIs ==
  ASSUME NEW cs \in [Slot -> CallRecord], NEW c \in CallRecord, Room(cs)
  PROVE  \E f \in Slot, X \in {Row, {}} :
           /\ cs[f].op = "idle"
           /\ With(cs, c)[f] = [c EXCEPT !.sure = X]
           /\ X # {} => \A t \in Slot \ {f} : cs[t].op = "idle" \/ (cs[t].op = "load" /\ c.op = "load")
           /\ \A t \in Slot \ {f} :
                With(cs, c)[t] =
                  IF cs[t].op # "idle" /\ (c.op # "load" \/ cs[t].op # "load")
                  THEN [cs[t] EXCEPT !.sure = {}] ELSE cs[t]
           /\ With(cs, c) \in [Slot -> CallRecord]
  <1>. DEFINE met == {s \in InFlight(cs) : c.op # "load" \/ cs[s].op # "load"}
              free == CHOOSE s \in Slot \ InFlight(cs) :
                        \A t \in Slot \ InFlight(cs) : s <= t
              X == IF met = {} THEN Row ELSE {}
  <1>1. free \in Slot /\ cs[free].op = "idle"
    BY FreeSlot
  <1>2. With(cs, c) = [s \in Slot |->
          IF s = free THEN [c EXCEPT !.sure = X]
          ELSE IF s \in met THEN [cs[s] EXCEPT !.sure = {}] ELSE cs[s]]
    BY DEF With
  <1>3. \A t \in Slot : t \in met <=> cs[t].op # "idle" /\ (c.op # "load" \/ cs[t].op # "load")
    BY DEF InFlight
  <1>4. X \in {Row, {}} /\ (X # {} => met = {})
    OBVIOUS
  <1>. HIDE DEF met, free, X
  <1>5. [c EXCEPT !.sure = X] \in CallRecord /\ \A s \in Slot : [cs[s] EXCEPT !.sure = {}] \in CallRecord
    BY <1>4 DEF CallRecord
  <1>6. With(cs, c) \in [Slot -> CallRecord]
    BY <1>2, <1>5
  <1>7. With(cs, c)[free] = [c EXCEPT !.sure = X]
    BY <1>1, <1>2
  <1>8. \A t \in Slot \ {free} :
          With(cs, c)[t] =
            IF cs[t].op # "idle" /\ (c.op # "load" \/ cs[t].op # "load")
            THEN [cs[t] EXCEPT !.sure = {}] ELSE cs[t]
    BY <1>2, <1>3
  <1>9. X # {} => \A t \in Slot \ {free} :
          cs[t].op = "idle" \/ (cs[t].op = "load" /\ c.op = "load")
    <2>1. SUFFICES ASSUME X # {}, NEW t \in Slot \ {free}
                   PROVE  cs[t].op = "idle" \/ (cs[t].op = "load" /\ c.op = "load")
      OBVIOUS
    <2>2. t \notin met
      BY <1>4, <2>1
    <2>3. ~(cs[t].op # "idle" /\ (c.op # "load" \/ cs[t].op # "load"))
      BY <1>3, <2>2
    <2>. QED BY <2>3
  <1>. QED BY <1>1, <1>4, <1>6, <1>7, <1>8, <1>9

LEMMA CleanupIs ==
  ASSUME calls \in [Slot -> CallRecord]
  PROVE  /\ Cleanup(calls) \in [Slot -> CallRecord]
         /\ \A t \in Slot : Cleanup(calls)[t] =
              IF calls[t].op = "load" THEN NoCall ELSE calls[t]
  BY NoCallTyped DEF Cleanup

\* Call c begins: by an effect, whose cleanup has made void the loads under way,
\* or next to all the calls under way.
Begins(c) ==
  \/ c.op = "load" /\ Room(Cleanup(calls)) /\ calls' = With(Cleanup(calls), c)
  \/ /\ c.op \in {"reload", "more", "act"} /\ Room(calls) /\ calls' = With(calls, c)
     /\ ui'.key = ui.key

LEMMA CallBegins ==
  ASSUME Types, Alone, CallsOk, NEW c \in CallRecord, Begins(c),
         kind' = kind, db' = db, ui' \in UiRecord, c.at = "sent",
         c.key = ui'.key, c.op = "load" => c.stage # "act",
         c.op \in {"load", "reload"} => c.cur = {},
         c.op \in {"reload", "more"} => c.stage = "rows",
         c.op = "more" => kind.more /\ c.cur = ui'.next /\ c.cur # {},
         c.op = "act" => ActOk(c)
  PROVE  /\ calls' \in [Slot -> CallRecord] /\ Alone' /\ CallsOk'
         /\ Under(c.op)' /\ (Under("reload") => Under("reload")')
         /\ c.op # "load" => (Under("load") => Under("load")')
         /\ \A t \in Slot : calls'[t].op = "act" => calls[t].op = "act" \/ (c.op = "act" /\ calls'[t].row = c.row)
  <1>0. calls \in [Slot -> CallRecord]
    BY DEF Types
  <1>1. PICK cs : cs = IF c.op = "load" THEN Cleanup(calls) ELSE calls
    OBVIOUS
  <1>2. /\ cs \in [Slot -> CallRecord] /\ Room(cs) /\ calls' = With(cs, c)
        /\ \A t \in Slot : cs[t] = IF c.op = "load" /\ calls[t].op = "load"
                                   THEN NoCall ELSE calls[t]
    BY <1>0, <1>1, CleanupIs DEF Begins
  <1>30. PICK f \in Slot, X \in {Row, {}} :
           /\ cs[f].op = "idle"
           /\ With(cs, c)[f] = [c EXCEPT !.sure = X]
           /\ X # {} => \A t \in Slot \ {f} : cs[t].op = "idle" \/ (cs[t].op = "load" /\ c.op = "load")
           /\ \A t \in Slot \ {f} :
                With(cs, c)[t] =
                  IF cs[t].op # "idle" /\ (c.op # "load" \/ cs[t].op # "load")
                  THEN [cs[t] EXCEPT !.sure = {}] ELSE cs[t]
           /\ With(cs, c) \in [Slot -> CallRecord]
    BY <1>2, WithIs
  <1>3. /\ cs[f].op = "idle"
        /\ calls'[f] = [c EXCEPT !.sure = X]
        /\ X # {} => \A t \in Slot \ {f} :
                       cs[t].op = "idle" \/ (cs[t].op = "load" /\ c.op = "load")
        /\ \A t \in Slot \ {f} :
             calls'[t] =
               IF cs[t].op # "idle" /\ (c.op # "load" \/ cs[t].op # "load")
               THEN [cs[t] EXCEPT !.sure = {}] ELSE cs[t]
        /\ calls' \in [Slot -> CallRecord]
    BY <1>2, <1>30
  <1>4. \A t \in Slot : c.op = "load" => cs[t].op # "load"
    BY <1>2, NoCallTyped
  <1>5. \A t \in Slot : cs[t].op = "idle" => cs[t] = NoCall
    BY <1>2 DEF CallsOk, CallOk
  <1>6. PICK d : d = [c EXCEPT !.sure = X]
    OBVIOUS
  <1>7. /\ d \in CallRecord /\ d.op = c.op /\ d.stage = c.stage /\ d.at = c.at
        /\ d.key = c.key /\ d.cur = c.cur /\ d.row = c.row /\ d.next = c.next /\ d.sure = X
    <2>1. X \in SUBSET Row
      OBVIOUS
    <2>. QED BY <1>6, <2>1 DEF CallRecord
  <1>8. CallOk(d)'
    <2>1. c.op = "act" => ActOk(d)'
      BY <1>7 DEF ActOk
    <2>2. ~ Fetched(d)' /\ d.op # "idle"
      BY <1>7 DEF Fetched, Begins
    <2>. QED BY <1>7, <2>1, <2>2 DEF CallOk
  <1>9. ASSUME NEW t \in Slot \ {f}
        PROVE  /\ CallOk(calls[t])' /\ calls'[t].sure = {}
               /\ calls'[t] = NoCall \/ (calls'[t].op = calls[t].op /\ calls'[t].row = calls[t].row)
               /\ (c.op = "load" /\ calls[t].op = "load") \/ calls'[t].op = calls[t].op
               /\ (X # {} => calls'[t].op = "idle")
    <2>1. CASE cs[t].op = "idle"
      <3>1. calls'[t] = NoCall
        BY <1>3, <1>5, <2>1
      <3>2. CallOk(NoCall)'
        BY NoCallTyped DEF CallOk, Fetched
      <3>3. (c.op = "load" /\ calls[t].op = "load") \/ calls'[t].op = calls[t].op
        BY <1>2, <2>1, <3>1, NoCallTyped
      <3>. QED BY <3>1, <3>2, <3>3, NoCallTyped
    <2>2. CASE cs[t].op # "idle"
      <3>1. cs[t] = calls[t] /\ calls'[t] = [calls[t] EXCEPT !.sure = {}]
        BY <1>2, <1>3, <1>4, <2>2, NoCallTyped
      <3>2. PICK e, d2 : e = calls[t] /\ d2 = calls'[t]
        OBVIOUS
      <3>3. e \in CallRecord /\ CallOk(e) /\ d2 = [e EXCEPT !.sure = {}]
        BY <1>0, <3>1, <3>2 DEF CallsOk
      <3>4. e.op = "load" => ui'.key = ui.key
        BY <1>2, <1>4, <2>2, <3>1, <3>2 DEF Begins
      <3>5. CallOk(d2)'
        BY <3>3, <3>4, CallStays
      <3>6. d2.sure = {} /\ d2.op = e.op /\ d2.row = e.row
        BY <3>3 DEF CallRecord
      <3>7. X = {}
        BY <1>3, <1>4, <2>2
      <3>. QED BY <3>2, <3>5, <3>6, <3>7
    <2>. QED BY <2>1, <2>2
  <1>10. CallsOk'
    <2>1. ASSUME NEW t \in Slot PROVE CallOk(calls[t])'
      BY <1>3, <1>6, <1>8, <1>9
    <2>. QED BY <2>1 DEF CallsOk
  <1>11. Alone'
    <2>1. ASSUME NEW s \in Slot, NEW t \in Slot, calls'[s].sure # {}, calls'[t].op # "idle"
          PROVE  s = t
      <3>1. s = f
        BY <1>9, <2>1
      <3>2. X # {}
        BY <1>3, <1>6, <1>7, <2>1, <3>1
      <3>. QED BY <1>9, <2>1, <3>1, <3>2
    <2>. QED BY <2>1 DEF Alone
  <1>12. Under(c.op)'
    BY <1>3, <1>6, <1>7 DEF Under
  <1>13. \A t \in Slot : calls[t].op \notin {"idle", "load"} => t # f /\ calls'[t].op = calls[t].op
    BY <1>2, <1>3, <1>9
  <1>14. c.op # "load" => \A t \in Slot : calls[t].op = "load" => calls'[t].op = "load"
    BY <1>2, <1>3, <1>9
  <1>15. /\ Under("reload") => Under("reload")'
         /\ c.op # "load" => (Under("load") => Under("load")')
    BY <1>13, <1>14 DEF Under
  <1>16. ASSUME NEW t \in Slot, calls'[t].op = "act"
         PROVE  calls[t].op = "act" \/ (c.op = "act" /\ calls'[t].row = c.row)
    <2>1. CASE t = f
      BY <1>3, <1>6, <1>7, <1>16, <2>1
    <2>2. CASE t # f
      <3>1. calls'[t] # NoCall
        BY <1>16, NoCallTyped
      <3>2. calls'[t].op = calls[t].op
        BY <1>9, <2>2, <3>1
      <3>. QED BY <1>16, <3>2
    <2>. QED BY <2>1, <2>2
  <1>. QED BY <1>3, <1>10, <1>11, <1>12, <1>15, <1>16

-----------------------------------------------------------------------------
(* One call goes on, or is over                                            *)

\* Only Act begins an action.
NoNewAct == \A t \in Slot : calls'[t].op = "act" => calls[t].op = "act"

\* The call at s becomes d.  The other calls are sure of nothing, so whatever
\* else the step does to the page, they are as good as before.
LEMMA CallGoesOn ==
  ASSUME Types, Alone, CallsOk, kind' = kind, db' = db, ui'.key = ui.key,
         NEW s \in Slot, calls[s].op # "idle",
         NEW d \in CallRecord, CallOk(d)', calls' = [calls EXCEPT ![s] = d],
         d.sure # {} => calls[s].sure # {}
  PROVE  /\ calls' \in [Slot -> CallRecord] /\ Alone' /\ CallsOk'
         /\ calls'[s] = d /\ \A t \in Slot \ {s} : calls'[t] = calls[t]
  <1>1. calls \in [Slot -> CallRecord]
    BY DEF Types
  <1>2. /\ calls' \in [Slot -> CallRecord]
        /\ calls'[s] = d /\ \A t \in Slot \ {s} : calls'[t] = calls[t]
    BY <1>1
  <1>3. \A t \in Slot \ {s} : calls[t].sure = {}
    BY DEF Alone
  <1>4. ASSUME NEW t \in Slot PROVE CallOk(calls[t])'
    <2>1. CASE t = s
      BY <1>2, <2>1
    <2>2. CASE t # s
      <3>1. PICK e, e2 : e = calls[t] /\ e2 = calls'[t]
        OBVIOUS
      <3>2. e \in CallRecord /\ CallOk(e) /\ e2 = e /\ e.sure = {}
        BY <1>1, <1>2, <1>3, <2>2, <3>1 DEF CallsOk
      <3>3. e2 = [e EXCEPT !.sure = {}]
        BY <3>2 DEF CallRecord
      <3>4. CallOk(e2)'
        BY <3>2, <3>3, CallStays
      <3>. QED BY <3>1, <3>4
    <2>. QED BY <2>1, <2>2
  <1>5. CallsOk'
    BY <1>4 DEF CallsOk
  <1>6. Alone'
    <2>1. ASSUME NEW a \in Slot, NEW b \in Slot, calls'[a].sure # {}, calls'[b].op # "idle"
          PROVE  a = b
      <3>1. a = s
        BY <1>2, <1>3, <2>1
      <3>2. calls[s].sure # {}
        BY <1>2, <2>1, <3>1
      <3>3. CASE b # s
        BY <1>2, <2>1, <3>2, <3>3 DEF Alone
      <3>. QED BY <3>1, <3>3
    <2>. QED BY <2>1 DEF Alone
  <1>. QED BY <1>2, <1>5, <1>6

\* The call at s is over.
LEMMA CallOver ==
  ASSUME Types, Alone, CallsOk, kind' = kind, db' = db, ui'.key = ui.key,
         NEW s \in Slot, calls[s].op # "idle", calls' = [calls EXCEPT ![s] = NoCall]
  PROVE  /\ calls' \in [Slot -> CallRecord] /\ Alone' /\ CallsOk'
         /\ calls'[s] = NoCall /\ \A t \in Slot \ {s} : calls'[t] = calls[t]
         /\ NoNewAct
  <1>1. NoCall \in CallRecord /\ CallOk(NoCall)' /\ NoCall.sure = {} /\ NoCall.op = "idle"
    BY NoCallTyped DEF CallOk, Fetched
  <1>2. PICK d : d = NoCall
    OBVIOUS
  <1>3. /\ calls' \in [Slot -> CallRecord] /\ Alone' /\ CallsOk'
        /\ calls'[s] = d /\ \A t \in Slot \ {s} : calls'[t] = calls[t]
    BY <1>1, <1>2, CallGoesOn
  <1>4. NoNewAct
    BY <1>1, <1>2, <1>3 DEF NoNewAct
  <1>. QED BY <1>2, <1>3, <1>4

\* A call under way is sent on, answered without rows, or lost.
LEMMA CallMoves ==
  ASSUME Types, Alone, CallsOk, kind' = kind, db' = db, ui'.key = ui.key,
         seen'.acted = seen.acted, ui'.next = ui.next,
         NEW s \in Slot, calls[s].op # "idle",
         NEW d \in CallRecord, calls' = [calls EXCEPT ![s] = d],
         d.op = calls[s].op, d.key = calls[s].key, d.cur = calls[s].cur,
         d.row = calls[s].row, d.next = calls[s].next, d.sure = calls[s].sure,
         d.stage = calls[s].stage \/ (d.op = "load" /\ d.stage = "rows"),
         d.at \in {"sent", "failed"} \/ d.stage = "me"
  PROVE  /\ calls' \in [Slot -> CallRecord] /\ Alone' /\ CallsOk'
         /\ \A t \in Slot : calls'[t].op = calls[t].op
         /\ NoNewAct
  <1>1. PICK e : e = calls[s]
    OBVIOUS
  <1>2. CallOk(e)
    BY <1>1 DEF CallsOk
  <1>3. CallOk(d)'
    <2>1. d.op = "act" => ActOk(d)'
      <3>1. d.op = "act" => ActOk(e) /\ d.stage = "act" /\ d.at # "done"
        BY <1>1, <1>2 DEF CallOk, ActOk
      <3>. QED BY <1>1, <3>1 DEF ActOk
    <2>2. ~ Fetched(d)'
      BY DEF Fetched
    <2>3. d.op # "idle"
      OBVIOUS
    <2>. QED BY <1>1, <1>2, <2>1, <2>2, <2>3 DEF CallOk
  <1>4. /\ calls' \in [Slot -> CallRecord] /\ Alone' /\ CallsOk'
        /\ calls'[s] = d /\ \A t \in Slot \ {s} : calls'[t] = calls[t]
    BY <1>3, CallGoesOn
  <1>5. \A t \in Slot : calls'[t].op = calls[t].op
    BY <1>4
  <1>. QED BY <1>4, <1>5 DEF NoNewAct

LEMMA ShownOkStays ==
  ASSUME ShownOk, ui'.open => ui.open, seen'.sure \in SUBSET seen.sure, kind' = kind,
         \A r \in seen'.sure : db'[r] = db[r],
         ui'.rows = ui.rows, ui'.of = ui.of, ui'.next = ui.next, ui'.key = ui.key,
         kind.path /\ ui.loading => ui'.loading, seen'.acted = seen.acted,
         Under("load") => Under("load")', Under("reload") => Under("reload")'
  PROVE  ShownOk'
  <1>1. SUFFICES ASSUME ui'.open /\ seen'.sure # {} PROVE Shown'
    BY DEF ShownOk
  <1>2. Shown
    BY <1>1 DEF ShownOk
  <1>. QED BY <1>2, ShownStays

LEMMA SettledIs ==
  ASSUME NEW u \in UiRecord, NEW c \in CallRecord
  PROVE  /\ Settled(u, c) \in UiRecord /\ Settled(u, c).loading = FALSE
         /\ Settled(u, c).open = u.open /\ Settled(u, c).key = u.key
         /\ Settled(u, c).rows = u.rows /\ Settled(u, c).of = u.of
         /\ Settled(u, c).next = u.next
  BY DEF Settled, UiRecord, CallRecord

LEMMA ReplacedIs ==
  ASSUME ui \in UiRecord, NEW c \in CallRecord
  PROVE  /\ Replaced(c) \in UiRecord /\ Replaced(c).loading = ui.loading
         /\ Replaced(c).open = ui.open /\ Replaced(c).key = ui.key
         /\ Replaced(c).rows = c.rows /\ Replaced(c).of = c.key
         /\ Replaced(c).next = c.next
  BY DEF Replaced, UiRecord, CallRecord

LEMMA SpinningStays ==
  ASSUME Spinning, ui'.loading => ui.loading, ui'.open => ui.open,
         Under("load") => Under("load")', Under("reload") => Under("reload")'
  PROVE  Spinning'
  BY DEF Spinning, Under

-----------------------------------------------------------------------------
(* The server answers                                                      *)

LEMMA AnswerRowsInv ==
  ASSUME IInv, NEW s \in Slot, AnswerRows(s), UNCHANGED <<kind, account, ui>>
  PROVE  IInv' /\ NoNewAct
  <1>1. PICK c : c = calls[s]
    OBVIOUS
  <1>2. /\ c \in CallRecord /\ CallOk(c) /\ c.op \in {"load", "reload", "more"}
        /\ c.stage = "rows" /\ db \in Rows /\ Sound(kind)
    BY <1>1 DEF IInv, Types, CallsOk, AnswerRows
  <1>3. PICK p : p = PageOf(c.key, c.cur)
    OBVIOUS
  <1>4. /\ p.rows \in Seq(ItemRead) /\ p.next \in SUBSET Cursors
        /\ \A i \in 1..Len(p.rows) : p.rows[i].st = db[p.rows[i].id].st
        /\ Told(c.key, p.rows, p.next, c.cur, Row)
    BY <1>2, <1>3, PageIs
  <1>5. PICK d : d = [c EXCEPT !.at = "done", !.rows = p.rows, !.next = p.next]
    OBVIOUS
  <1>6. /\ d \in CallRecord /\ d.op = c.op /\ d.stage = c.stage /\ d.at = "done"
        /\ d.key = c.key /\ d.cur = c.cur /\ d.row = c.row /\ d.rows = p.rows
        /\ d.next = p.next /\ d.sure = c.sure /\ d.sure \in SUBSET Row
    BY <1>2, <1>4, <1>5 DEF CallRecord
  <1>7. calls' = [calls EXCEPT ![s] = d] /\ db' = db /\ seen' = seen
    BY <1>1, <1>3, <1>5 DEF AnswerRows
  <1>8. CallOk(d)'
    <2>1. Told(c.key, p.rows, p.next, c.cur, c.sure)'
      <3>1. PICK k, rows, next, cur, sure :
              k = c.key /\ rows = p.rows /\ next = p.next /\ cur = c.cur /\ sure = c.sure
        OBVIOUS
      <3>2. Told(k, rows, next, cur, Row)
        BY <1>4, <3>1
      <3>3. Told(k, rows, next, cur, sure)'
        BY <1>6, <1>7, <3>1, <3>2, ToldStays
      <3>. QED BY <3>1, <3>3
    <2>2. \A i \in 1..Len(p.rows) : p.rows[i].id \in seen'.acted => p.rows[i].st # "open"
      BY <1>4, <1>7 DEF IInv, ActedDone
    <2>3. ReadOk(d)'
      BY <1>6, <2>1, <2>2 DEF ReadOk
    <2>4. d.op # "idle" /\ d.op # "act" /\ ui'.key = ui.key /\ ui'.next = ui.next /\ kind' = kind
      BY <1>2, <1>6
    <2>. QED BY <1>2, <1>6, <2>3, <2>4 DEF CallOk
  <1>9. /\ calls' \in [Slot -> CallRecord] /\ Alone' /\ CallsOk'
        /\ calls'[s] = d /\ \A t \in Slot \ {s} : calls'[t] = calls[t]
    <2>1. calls[s].op # "idle" /\ ui'.key = ui.key
      BY <1>1, <1>2
    <2>. QED BY <1>1, <1>6, <1>7, <1>8, <2>1, CallGoesOn DEF IInv
  <1>10. \A t \in Slot : calls'[t].op = calls[t].op
    BY <1>1, <1>6, <1>9
  <1>11. /\ Under("load") => Under("load")'
         /\ Under("reload") => Under("reload")'
         /\ NoNewAct
    BY <1>10 DEF Under, NoNewAct
  <1>12. ShownOk'
    BY <1>7, <1>11, ShownOkStays DEF IInv
  <1>13. Spinning'
    BY <1>11, SpinningStays DEF IInv
  <1>14. Types' /\ ActedDone'
    BY <1>7, <1>9 DEF IInv, Types, ActedDone
  <1>. QED BY <1>9, <1>11, <1>12, <1>13, <1>14 DEF IInv

\* A step that leaves what is shown and moves one call.
LEMMA MoveInv ==
  ASSUME IInv, UNCHANGED <<kind, db, account, seen>>, ui' = ui,
         NEW s \in Slot, calls[s].op # "idle",
         NEW d \in CallRecord, calls' = [calls EXCEPT ![s] = d],
         d.op = calls[s].op, d.key = calls[s].key, d.cur = calls[s].cur,
         d.row = calls[s].row, d.next = calls[s].next, d.sure = calls[s].sure,
         d.stage = calls[s].stage \/ (d.op = "load" /\ d.stage = "rows"),
         d.at \in {"sent", "failed"} \/ d.stage = "me"
  PROVE  IInv' /\ NoNewAct
  <1>1. /\ calls' \in [Slot -> CallRecord] /\ Alone' /\ CallsOk'
        /\ \A t \in Slot : calls'[t].op = calls[t].op
        /\ NoNewAct
    BY CallMoves DEF IInv
  <1>2. /\ Under("load") => Under("load")'
        /\ Under("reload") => Under("reload")'
    BY <1>1 DEF Under
  <1>3. ShownOk'
    BY <1>2, ShownOkStays DEF IInv
  <1>4. Spinning'
    BY <1>2, SpinningStays DEF IInv
  <1>5. Types' /\ ActedDone'
    BY <1>1 DEF IInv, Types, ActedDone
  <1>. QED BY <1>1, <1>3, <1>4, <1>5 DEF IInv

LEMMA AnswerMeInv ==
  ASSUME IInv, NEW s \in Slot, AnswerMe(s), UNCHANGED <<kind, account, ui>>
  PROVE  IInv' /\ NoNewAct
  <1>1. PICK c, d : c = calls[s] /\ d = [c EXCEPT !.at = "done", !.yes = account]
    OBVIOUS
  <1>2. c \in CallRecord /\ c.op = "load" /\ c.stage = "me" /\ account \in BOOLEAN
    BY <1>1 DEF IInv, Types, AnswerMe
  <1>3. /\ d \in CallRecord /\ d.op = c.op /\ d.key = c.key /\ d.cur = c.cur
        /\ d.row = c.row /\ d.next = c.next /\ d.sure = c.sure /\ d.stage = c.stage
    BY <1>1, <1>2 DEF CallRecord
  <1>4. calls' = [calls EXCEPT ![s] = d] /\ UNCHANGED <<kind, db, account, seen>> /\ ui' = ui
    BY <1>1 DEF AnswerMe
  <1>. QED BY <1>1, <1>2, <1>3, <1>4, MoveInv

Lost(s) == calls' = [calls EXCEPT ![s].at = "failed"]

LEMMA FailsInv ==
  ASSUME IInv, NEW s \in Slot, calls[s].op # "idle", Lost(s),
         UNCHANGED <<kind, db, account, seen>>, ui' = ui
  PROVE  IInv' /\ NoNewAct
  <1>1. PICK c, d : c = calls[s] /\ d = [c EXCEPT !.at = "failed"]
    OBVIOUS
  <1>2. c \in CallRecord
    BY <1>1 DEF IInv, Types
  <1>3. /\ d \in CallRecord /\ d.op = c.op /\ d.key = c.key /\ d.cur = c.cur
        /\ d.row = c.row /\ d.next = c.next /\ d.sure = c.sure /\ d.stage = c.stage
        /\ d.at = "failed"
    BY <1>1, <1>2 DEF CallRecord
  <1>4. calls' = [calls EXCEPT ![s] = d]
    BY <1>1 DEF Lost
  <1>. QED BY <1>1, <1>3, <1>4, MoveInv

-----------------------------------------------------------------------------
(* A row changes                                                           *)

\* The rows of the table and what was read of them, when row r becomes rec.
LEMMA RowChanges ==
  ASSUME IInv, NEW r \in Row, NEW rec \in [st : Status, place : Place], Changed(r, rec),
         db[r].st = "done" => rec.st = "done", kind' = kind, ui' = ui
  PROVE  /\ db' \in Rows /\ db'[r] = rec /\ seen' \in SeenRecord /\ ActedDone'
         /\ \A q \in Row \ {r} : db'[q] = db[q]
         /\ \A q \in Row : db[q].st = "done" => db'[q].st = "done"
         /\ seen'.sure = seen.sure \ {r} /\ seen'.acted = seen.acted
         /\ \A t \in Slot : /\ Outdated(calls, r)[t] \in CallRecord
                            /\ Outdated(calls, r)[t].op = calls[t].op
                            /\ Outdated(calls, r)[t].sure \in SUBSET calls[t].sure
                            /\ calls[t].at # "done" => Outdated(calls, r)[t] = calls[t]
         /\ \A t \in Slot : \E d \in CallRecord : d = Outdated(calls, r)[t] /\ CallOk(d)'
  <1>0. /\ calls \in [Slot -> CallRecord] /\ db \in Rows /\ seen \in SeenRecord
        /\ CallsOk /\ ActedDone
    BY DEF IInv, Types
  <1>1. /\ db' \in Rows /\ db'[r] = rec
        /\ \A q \in Row \ {r} : db'[q] = db[q]
    BY <1>0 DEF Changed, Rows
  <1>2. \A q \in Row : db[q].st = "done" => db'[q].st = "done"
    BY <1>1
  <1>3. /\ seen' \in SeenRecord
        /\ seen'.sure = seen.sure \ {r} /\ seen'.acted = seen.acted
    BY <1>0 DEF Changed, SeenRecord
  <1>4. ActedDone'
    <2>1. seen.acted \in SUBSET Row
      BY <1>0 DEF SeenRecord
    <2>. QED BY <1>0, <1>2, <1>3, <2>1 DEF ActedDone
  <1>5. ASSUME NEW t \in Slot
        PROVE  \E d \in CallRecord :
                 /\ d = Outdated(calls, r)[t] /\ CallOk(d)'
                 /\ d.op = calls[t].op /\ d.sure \in SUBSET calls[t].sure
                 /\ calls[t].at # "done" => d = calls[t]
    <2>1. PICK c, d : c = calls[t] /\ d = Outdated(calls, r)[t]
      OBVIOUS
    <2>2. PICK T : T = IF c.at = "done" THEN c.sure \ {r} ELSE c.sure
      OBVIOUS
    <2>3. c \in CallRecord /\ CallOk(c)
      BY <1>0, <2>1 DEF CallsOk
    <2>4. d = IF c.at = "done" THEN [c EXCEPT !.sure = T] ELSE c
      BY <2>1, <2>2 DEF Outdated
    <2>5. d = [c EXCEPT !.sure = T]
      <3>1. c.at # "done" => c = [c EXCEPT !.sure = T]
        BY <2>2, <2>3 DEF CallRecord
      <3>. QED BY <2>4, <3>1
    <2>6. T \in SUBSET c.sure /\ c.sure \in SUBSET Row
      BY <2>2, <2>3 DEF CallRecord
    <2>7. c.at = "done" => \A q \in T : db'[q] = db[q]
      BY <1>1, <2>2, <2>6
    <2>8. d \in CallRecord /\ CallOk(d)'
      BY <1>2, <1>3, <2>3, <2>5, <2>6, <2>7, CallStays
    <2>9. d.op = c.op /\ d.sure = T
      BY <2>3, <2>5 DEF CallRecord
    <2>. QED BY <2>1, <2>4, <2>6, <2>8, <2>9
  <1>. QED BY <1>1, <1>2, <1>3, <1>4, <1>5

\* Someone else changes a row.
LEMMA OthersInv ==
  ASSUME IInv, NEW r \in Row, NEW rec \in [st : Status, place : Place], Changed(r, rec),
         db[r].st = "done" => rec.st = "done", calls' = Outdated(calls, r),
         UNCHANGED <<kind, account, ui>>
  PROVE  IInv' /\ NoNewAct
  <1>1. /\ db' \in Rows /\ seen' \in SeenRecord /\ ActedDone'
        /\ \A q \in Row \ {r} : db'[q] = db[q]
        /\ seen'.sure = seen.sure \ {r} /\ seen'.acted = seen.acted
        /\ \A t \in Slot : /\ calls'[t] \in CallRecord
                           /\ calls'[t].op = calls[t].op
                           /\ calls'[t].sure \in SUBSET calls[t].sure
        /\ \A t \in Slot : \E d \in CallRecord : d = calls'[t] /\ CallOk(d)'
    BY RowChanges
  <1>2. calls' \in [Slot -> CallRecord]
    BY <1>1 DEF Outdated
  <1>3. CallsOk'
    BY <1>1 DEF CallsOk
  <1>4. Alone'
    <2>1. \A t \in Slot : calls'[t].sure # {} => calls[t].sure # {}
      BY <1>1
    <2>2. \A t \in Slot : calls'[t].op = calls[t].op
      BY <1>1
    <2>. QED BY <2>1, <2>2 DEF IInv, Alone
  <1>5. /\ Under("load") => Under("load")'
        /\ Under("reload") => Under("reload")'
        /\ NoNewAct
    BY <1>1 DEF Under, NoNewAct
  <1>6. ShownOk'
    <2>1. seen'.sure \in SUBSET Row /\ seen'.sure \in SUBSET seen.sure
      BY <1>1 DEF IInv, Types, SeenRecord
    <2>2. \A q \in seen'.sure : db'[q] = db[q]
      BY <1>1, <2>1
    <2>. QED BY <1>1, <1>5, <2>1, <2>2, ShownOkStays DEF IInv
  <1>7. Spinning'
    BY <1>5, SpinningStays DEF IInv
  <1>8. Types'
    BY <1>1, <1>2 DEF IInv, Types
  <1>. QED BY <1>1, <1>3, <1>4, <1>5, <1>6, <1>7, <1>8 DEF IInv

LEMMA ElsewhereInv ==
  ASSUME IInv, NEW r \in Row, Elsewhere(r)
  PROVE  IInv' /\ NoNewAct
  <1>1. db[r] \in [st : Status, place : Place]
    BY DEF IInv, Types, Rows
  <1>2. PICK rec : /\ rec \in {[db[r] EXCEPT !.st = "open"], [db[r] EXCEPT !.st = "done"]}
                   /\ Changed(r, rec) /\ (db[r].st = "done" => rec.st = "done")
    BY DEF Elsewhere
  <1>3. rec \in [st : Status, place : Place]
    BY <1>1, <1>2 DEF Status
  <1>4. calls' = Outdated(calls, r) /\ UNCHANGED <<kind, account, ui>>
    BY DEF Elsewhere
  <1>. QED BY <1>2, <1>3, <1>4, OthersInv

LEMMA MoveRowInv ==
  ASSUME IInv, NEW r \in Row, NEW p \in Spot, Move(r, p)
  PROVE  IInv' /\ NoNewAct
  <1>1. db[r] \in [st : Status, place : Place] /\ p \in Place
    BY SpotAssumption DEF IInv, Types, Rows
  <1>2. PICK rec : rec = [db[r] EXCEPT !.place = p]
    OBVIOUS
  <1>3. rec \in [st : Status, place : Place] /\ rec.st = db[r].st
    BY <1>1, <1>2
  <1>4. /\ Changed(r, rec) /\ calls' = Outdated(calls, r)
        /\ UNCHANGED <<kind, account, ui>>
    BY <1>2 DEF Move
  <1>. QED BY <1>3, <1>4, OthersInv

\* The page's own action, or its refusal.
LEMMA AnswerActInv ==
  ASSUME IInv, NEW s \in Slot, calls[s].at = "sent", AnswerAct(s), UNCHANGED <<kind, account, ui>>
  PROVE  IInv' /\ NoNewAct
  <1>1. PICK c, r : c = calls[s] /\ r = c.row
    OBVIOUS
  <1>2. /\ c \in CallRecord /\ CallOk(c) /\ c.op = "act" /\ c.at = "sent"
        /\ calls \in [Slot -> CallRecord] /\ db \in Rows
    BY <1>1 DEF IInv, Types, CallsOk, AnswerAct
  <1>3. ActOk(c) /\ r \in Row
    BY <1>1, <1>2 DEF CallOk, ActOk
  <1>4. CASE db[r].st # "open"
    <2>1. Lost(s) /\ UNCHANGED <<db, seen>>
      BY <1>1, <1>4 DEF AnswerAct, Lost
    <2>. QED BY <1>1, <1>2, <2>1, FailsInv
  <1>5. CASE db[r].st = "open"
    <2>1. PICK rec, item : /\ rec = [db[r] EXCEPT !.st = "done"]
                           /\ item = [Item(r) EXCEPT !.st = "done"]
      OBVIOUS
    <2>2. rec \in [st : Status, place : Place] /\ rec.st = "done"
      BY <1>2, <1>3, <2>1 DEF Rows, Status
    <2>3. item \in ItemRead /\ item.id = r /\ item.st = "done"
      <3>1. Item(r) \in ItemRead /\ Item(r).id = r
        BY <1>2, <1>3, ItemIs
      <3>. QED BY <2>1, <3>1 DEF ItemRead, ItemType, Status, Known
    <2>4. /\ Changed(r, rec)
          /\ calls' = [Outdated(calls, r) EXCEPT ![s].at = "done", ![s].rows = <<item>>]
      BY <1>1, <1>5, <2>1 DEF AnswerAct
    <2>5. /\ db' \in Rows /\ db'[r] = rec /\ seen' \in SeenRecord /\ ActedDone'
          /\ \A q \in Row \ {r} : db'[q] = db[q]
          /\ seen'.sure = seen.sure \ {r} /\ seen'.acted = seen.acted
          /\ \A t \in Slot : /\ Outdated(calls, r)[t] \in CallRecord
                             /\ Outdated(calls, r)[t].op = calls[t].op
                             /\ Outdated(calls, r)[t].sure \in SUBSET calls[t].sure
                             /\ calls[t].at # "done" => Outdated(calls, r)[t] = calls[t]
          /\ \A t \in Slot : \E d \in CallRecord : d = Outdated(calls, r)[t] /\ CallOk(d)'
      BY <1>3, <2>2, <2>4, <1>5, RowChanges
    <2>6. PICK d : d = [c EXCEPT !.at = "done", !.rows = <<item>>]
      OBVIOUS
    <2>7. /\ d \in CallRecord /\ d.op = "act" /\ d.stage = c.stage /\ d.at = "done"
          /\ d.key = c.key /\ d.cur = c.cur /\ d.row = r /\ d.rows = <<item>>
          /\ d.next = c.next /\ d.sure = c.sure
      <3>1. <<item>> \in Seq(ItemRead)
        BY <2>3
      <3>. QED BY <1>1, <1>2, <2>6, <3>1 DEF CallRecord
    <2>8. Outdated(calls, r)[s] = c /\ Outdated(calls, r) = [t \in Slot |-> Outdated(calls, r)[t]]
      BY <1>1, <1>2, <2>5 DEF Outdated
    <2>9. calls'[s] = d /\ \A t \in Slot \ {s} : calls'[t] = Outdated(calls, r)[t]
      BY <2>4, <2>6, <2>8
    <2>10. calls' \in [Slot -> CallRecord]
      BY <2>4, <2>5, <2>7, <2>8, <2>9
    <2>11. CallOk(d)'
      <3>1. ActOk(d)'
        <4>1. Len(d.rows) = 1 /\ d.rows[1] = item
          BY <2>7
        <4>. QED BY <1>1, <1>3, <2>2, <2>3, <2>5, <2>7, <4>1 DEF ActOk
      <3>. QED BY <1>2, <2>7, <3>1 DEF CallOk, Fetched
    <2>12. CallsOk'
      <3>1. ASSUME NEW t \in Slot PROVE CallOk(calls[t])'
        <4>1. CASE t = s
          BY <2>9, <2>11, <4>1
        <4>2. CASE t # s
          <5>1. PICK e \in CallRecord : e = Outdated(calls, r)[t] /\ CallOk(e)'
            BY <2>5
          <5>. QED BY <2>9, <4>2, <5>1
        <4>. QED BY <4>1, <4>2
      <3>. QED BY <3>1 DEF CallsOk
    <2>13. \A t \in Slot : calls'[t].op = calls[t].op /\ calls'[t].sure \in SUBSET calls[t].sure
      BY <1>1, <1>2, <2>5, <2>7, <2>9
    <2>14. Alone'
      BY <2>13 DEF IInv, Alone
    <2>15. /\ Under("load") => Under("load")'
           /\ Under("reload") => Under("reload")'
           /\ NoNewAct
      BY <2>13 DEF Under, NoNewAct
    <2>16. ShownOk'
      <3>1. seen'.sure \in SUBSET Row /\ seen'.sure \in SUBSET seen.sure
        BY <2>5 DEF IInv, Types, SeenRecord
      <3>2. \A q \in seen'.sure : db'[q] = db[q]
        BY <2>5, <3>1
      <3>. QED BY <2>5, <2>15, <3>1, <3>2, ShownOkStays DEF IInv
    <2>17. Spinning'
      BY <2>15, SpinningStays DEF IInv
    <2>18. Types'
      BY <2>5, <2>10 DEF IInv, Types
    <2>. QED BY <2>5, <2>12, <2>14, <2>15, <2>16, <2>17, <2>18 DEF IInv
  <1>. QED BY <1>4, <1>5

LEMMA ApproveInv ==
  ASSUME IInv, Approve
  PROVE  IInv' /\ NoNewAct
  <1>1. /\ account' \in BOOLEAN /\ kind' = kind /\ db' = db /\ ui' = ui
        /\ calls' = calls /\ seen' = seen
    BY DEF Approve
  <1>2. ASSUME NEW t \in Slot PROVE CallOk(calls[t])'
    <2>1. PICK c : c = calls[t]
      OBVIOUS
    <2>2. c \in CallRecord /\ CallOk(c) /\ c = [c EXCEPT !.sure = c.sure]
      BY <2>1 DEF IInv, Types, CallsOk, CallRecord
    <2>3. CallOk(c)'
      BY <1>1, <2>2, CallStays
    <2>. QED BY <1>1, <2>1, <2>3
  <1>3. Types' /\ ActedDone' /\ Alone' /\ CallsOk' /\ Spinning' /\ NoNewAct
    BY <1>1, <1>2 DEF IInv, Types, ActedDone, Alone, CallsOk, Spinning, NoNewAct
  <1>4. ShownOk'
    <2>1. /\ Under("load") => Under("load")'
          /\ Under("reload") => Under("reload")'
      BY <1>1 DEF Under
    <2>. QED BY <1>1, <2>1, ShownOkStays DEF IInv
  <1>. QED BY <1>3, <1>4 DEF IInv

-----------------------------------------------------------------------------
(* The page gets an answer                                                 *)

Frame == kind' = kind /\ db' = db /\ account' = account

LEMMA CallIs ==
  ASSUME IInv, NEW s \in Slot
  PROVE  /\ calls[s] \in CallRecord /\ CallOk(calls[s]) /\ calls[s].key \in Keys
         /\ calls[s].rows \in Seq(ItemRead) /\ calls[s].sure \in SUBSET Row
         /\ calls[s].yes \in BOOLEAN
  BY DEF IInv, Types, CallsOk, CallRecord

LEMMA LoadFailsInv ==
  ASSUME IInv, NEW s \in Slot, calls[s].op \in {"load", "reload"}, LoadFails(s), Frame
  PROVE  IInv' /\ NoNewAct
  <1>1. PICK c : c = calls[s]
    OBVIOUS
  <1>2. c \in CallRecord /\ c.key \in Keys /\ ui \in UiRecord /\ seen \in SeenRecord
    BY <1>1, CallIs DEF IInv, Types
  <1>3. PICK u : u = IF kind.clears THEN [ui EXCEPT !.rows = <<>>, !.of = c.key] ELSE ui
    OBVIOUS
  <1>4. u \in UiRecord /\ u.key = ui.key
    <2>1. <<>> \in Seq(ItemRead)
      OBVIOUS
    <2>2. CASE kind.clears
      BY <1>2, <1>3, <2>1, <2>2 DEF UiRecord
    <2>3. CASE ~kind.clears
      BY <1>2, <1>3, <2>3
    <2>. QED BY <2>2, <2>3
  <1>5. /\ ui' = Settled(u, c) /\ seen' = [seen EXCEPT !.sure = {}]
        /\ calls' = [calls EXCEPT ![s] = NoCall]
    BY <1>1, <1>3 DEF LoadFails
  <1>6. ui' \in UiRecord /\ ui'.loading = FALSE /\ ui'.key = ui.key
    BY <1>2, <1>4, <1>5, SettledIs
  <1>7. seen' \in SeenRecord /\ seen'.sure = {} /\ seen'.acted = seen.acted
    BY <1>2, <1>5 DEF SeenRecord
  <1>8. calls' \in [Slot -> CallRecord] /\ Alone' /\ CallsOk' /\ NoNewAct
    <2>1. calls[s].op # "idle"
      OBVIOUS
    <2>. QED BY <1>5, <1>6, <2>1, CallOver DEF IInv, Frame
  <1>9. ShownOk' /\ Spinning'
    BY <1>6, <1>7 DEF ShownOk, Spinning
  <1>10. Types' /\ ActedDone'
    BY <1>6, <1>7, <1>8 DEF IInv, Types, ActedDone, Frame
  <1>. QED BY <1>8, <1>9, <1>10 DEF IInv

LEMMA LoadDoneInv ==
  ASSUME IInv, NEW s \in Slot, calls[s].op \in {"load", "reload"}, calls[s].at = "done",
         calls[s].stage = "rows", LoadDone(s), Frame
  PROVE  IInv' /\ NoNewAct
  <1>1. PICK c : c = calls[s]
    OBVIOUS
  <1>2. /\ c \in CallRecord /\ CallOk(c) /\ ui \in UiRecord /\ seen \in SeenRecord
        /\ c.sure \in SUBSET Row
    BY <1>1, CallIs DEF IInv, Types
  <1>3. PICK u : u = Replaced(c)
    OBVIOUS
  <1>4. /\ u \in UiRecord /\ u.key = ui.key
        /\ u.rows = c.rows /\ u.of = c.key /\ u.next = c.next
    BY <1>2, <1>3, ReplacedIs
  <1>5. /\ ui' = Settled(u, c) /\ seen' = [seen EXCEPT !.sure = c.sure]
        /\ calls' = [calls EXCEPT ![s] = NoCall]
    BY <1>1, <1>3 DEF LoadDone
  <1>6. /\ ui' \in UiRecord /\ ui'.loading = FALSE /\ ui'.key = ui.key
        /\ ui'.rows = c.rows /\ ui'.of = c.key /\ ui'.next = c.next
    BY <1>2, <1>4, <1>5, SettledIs
  <1>7. seen' \in SeenRecord /\ seen'.sure = c.sure /\ seen'.acted = seen.acted
    BY <1>2, <1>5 DEF SeenRecord
  <1>8. calls' \in [Slot -> CallRecord] /\ Alone' /\ CallsOk' /\ NoNewAct
    <2>1. calls[s].op # "idle"
      OBVIOUS
    <2>. QED BY <1>5, <1>6, <2>1, CallOver DEF IInv, Frame
  <1>9. Spinning'
    BY <1>6 DEF Spinning
  <1>10. ShownOk'
    <2>1. SUFFICES ASSUME c.sure # {} PROVE Shown'
      BY <1>7 DEF ShownOk
    <2>2. ReadOk(c) /\ c.key = ui.key /\ c.cur = {}
      BY <1>1, <1>2, <2>1 DEF CallOk, Fetched
    <2>3. PICK k, rows, next, sure :
            k = c.key /\ rows = c.rows /\ next = c.next /\ sure = c.sure
      OBVIOUS
    <2>4. Told(k, rows, next, {}, sure)
      BY <2>2, <2>3 DEF ReadOk
    <2>5. \A r \in sure : db'[r] = db[r]
      BY DEF Frame
    <2>6. Told(k, rows, next, {}, sure)'
      BY <2>4, <2>5, ToldStays DEF Frame
    <2>7. Told(ui.of, ui.rows, ui.next, {}, seen.sure)'
      BY <1>6, <1>7, <2>3, <2>6
    <2>8. \A i \in 1..Len(ui'.rows) :
            ui'.rows[i].id \in seen'.acted => ui'.rows[i].st # "open"
      BY <1>6, <1>7, <2>1, <2>2 DEF ReadOk
    <2>9. ui'.of = ui'.key
      BY <1>6, <2>2
    <2>. QED BY <2>7, <2>8, <2>9 DEF Shown
  <1>11. Types' /\ ActedDone'
    BY <1>6, <1>7, <1>8 DEF IInv, Types, ActedDone, Frame
  <1>. QED BY <1>8, <1>9, <1>10, <1>11 DEF IInv

\* The next page joins the rows on show.
LEMMA ToldJoins ==
  ASSUME NEW k, NEW rows \in Seq(ItemRead), NEW next, NEW more \in Seq(ItemRead), NEW last,
         NEW s1 \in SUBSET Row, NEW s2, next # {}, ~kind.path,
         Told(k, rows, next, {}, s1), Told(k, more, last, next, s2)
  PROVE  Told(k, rows \o more, last, {}, s1 \intersect s2)
  <1>1. PICK all : all = rows \o more
    OBVIOUS
  <1>2. /\ all \in Seq(ItemRead) /\ Len(all) = Len(rows) + Len(more)
        /\ Len(rows) \in Nat /\ Len(more) \in Nat
        /\ \A i \in 1..Len(all) : all[i] = IF i <= Len(rows) THEN rows[i] ELSE more[i - Len(rows)]
    BY <1>1
  <1>3. /\ \A i \in 1..Len(all) : i <= Len(rows) => i \in 1..Len(rows) /\ all[i] = rows[i]
        /\ \A i \in 1..Len(all) : i > Len(rows) =>
             i - Len(rows) \in 1..Len(more) /\ all[i] = more[i - Len(rows)]
        /\ \A i \in 1..Len(rows) : i \in 1..Len(all) /\ all[i] = rows[i]
        /\ \A i \in 1..Len(more) : i + Len(rows) \in 1..Len(all) /\ all[i + Len(rows)] = more[i]
        /\ \A i \in 1..Len(all) : all[i] \in ItemRead
    <2>1. \A i \in 1..Len(all) : i <= Len(rows) => i \in 1..Len(rows) /\ all[i] = rows[i]
      BY <1>2
    <2>2. \A i \in 1..Len(all) : i > Len(rows) =>
             i - Len(rows) \in 1..Len(more) /\ all[i] = more[i - Len(rows)]
      BY <1>2
    <2>3. \A i \in 1..Len(rows) : i \in 1..Len(all) /\ all[i] = rows[i]
      BY <1>2
    <2>4. ASSUME NEW i \in 1..Len(more)
          PROVE  i + Len(rows) \in 1..Len(all) /\ all[i + Len(rows)] = more[i]
      <3>1. PICK j : j = i + Len(rows)
        OBVIOUS
      <3>2. j \in 1..Len(all) /\ ~(j <= Len(rows)) /\ j - Len(rows) = i
        BY <1>2, <3>1
      <3>. QED BY <1>2, <3>1, <3>2
    <2>5. \A i \in 1..Len(all) : all[i] \in ItemRead
      BY <1>2
    <2>. QED BY <2>1, <2>2, <2>3, <2>4, <2>5
  <1>4. PICK n : n = Len(rows)
    OBVIOUS
  <1>5. n \in 1..Len(rows) /\ \A c \in next : c = CursorOf(rows[n])
    BY <1>2, <1>4 DEF Told, EndsAt
  <1>6. rows[n] \in ItemRead
    BY <1>5
  <1>7. ASSUME NEW i \in 1..Len(rows), NEW j \in 1..Len(more)
        PROVE  Before(rows[i], more[j])
    <2>1. PICK c : c \in next
      OBVIOUS
    <2>2. Past(more[j], CursorOf(rows[n]))
      BY <1>5, <2>1 DEF Told, PastAll
    <2>3. rows[i] \in ItemRead /\ more[j] \in ItemRead
      OBVIOUS
    <2>4. Before(rows[n], more[j])
      BY <1>6, <2>2, <2>3, PastIsAfter
    <2>5. CASE i = n
      BY <2>4, <2>5
    <2>6. CASE i # n
      <3>1. i < n
        BY <1>2, <1>4, <2>6
      <3>2. Before(rows[i], rows[n])
        BY <1>5, <3>1 DEF Told, InOrder
      <3>. QED BY <1>6, <2>3, <2>4, <3>2, BeforeOrders
    <2>. QED BY <2>5, <2>6
  <1>8. InOrder(all)
    <2>1. SUFFICES ASSUME NEW i \in 1..Len(all), NEW j \in 1..Len(all), i < j
                   PROVE  Before(all[i], all[j])
      BY DEF InOrder
    <2>2. CASE j <= Len(rows)
      <3>1. i <= Len(rows) /\ i \in 1..Len(rows) /\ j \in 1..Len(rows)
        BY <1>2, <2>1, <2>2
      <3>. QED BY <1>3, <2>1, <3>1 DEF Told, InOrder
    <2>3. CASE j > Len(rows) /\ i <= Len(rows)
      BY <1>3, <1>7, <2>3
    <2>4. CASE i > Len(rows)
      <3>1. /\ i - Len(rows) \in 1..Len(more) /\ j - Len(rows) \in 1..Len(more)
            /\ i - Len(rows) < j - Len(rows)
        BY <1>2, <2>1, <2>4
      <3>2. all[i] = more[i - Len(rows)] /\ all[j] = more[j - Len(rows)]
        BY <1>2, <2>1, <2>4
      <3>3. Before(more[i - Len(rows)], more[j - Len(rows)])
        BY <3>1 DEF Told, InOrder
      <3>. QED BY <3>2, <3>3
    <2>. QED BY <1>2, <2>2, <2>3, <2>4
  <1>9. EndsAt(all, last)
    <2>1. SUFFICES ASSUME NEW c \in last
                   PROVE  Len(all) > 0 /\ c = CursorOf(all[Len(all)])
      BY DEF EndsAt
    <2>2. Len(more) > 0 /\ c = CursorOf(more[Len(more)])
      BY DEF Told, EndsAt
    <2>3. Len(all) > 0 /\ all[Len(all)] = more[Len(more)]
      BY <1>2, <2>2
    <2>. QED BY <2>2, <2>3
  <1>10. ASSUME NEW i \in 1..Len(all)
         PROVE  /\ kind.path => all[i].id = k
                /\ all[i].id \in s1 \intersect s2 => Agrees(k, all[i])
                /\ PastAll(all[i], {})
    <2>1. CASE i <= Len(rows)
      BY <1>3, <2>1 DEF Told, PastAll
    <2>2. CASE i > Len(rows)
      <3>1. PICK j \in 1..Len(more) : all[i] = more[j]
        BY <1>3, <2>2
      <3>2. more[j].id \in s2 => Agrees(k, more[j])
        BY DEF Told
      <3>. QED BY <3>1, <3>2 DEF PastAll
    <2>. QED BY <1>2, <2>1, <2>2
  <1>11. ASSUME NEW r \in s1 \intersect s2, Matches(k, r)
         PROVE  Covers(all, last, r)
    <2>1. PastAll(Item(r), {})
      BY DEF PastAll
    <2>2. Covers(rows, next, r)
      BY <1>11, <2>1 DEF Told
    <2>3. CASE \E i \in 1..Len(rows) : rows[i].id = r
      BY <1>3, <2>3 DEF Covers
    <2>4. CASE \E c \in next : Past(Item(r), c)
      <3>1. PastAll(Item(r), next)
        BY <1>5, <2>4 DEF PastAll
      <3>2. Covers(more, last, r)
        BY <1>11, <3>1 DEF Told
      <3>3. \A i \in 1..Len(more) : \E j \in 1..Len(all) : all[j] = more[i]
        BY <1>3
      <3>. QED BY <3>2, <3>3 DEF Covers
    <2>5. CASE /\ ~kind.nearness
               /\ \E i \in 1..Len(rows) : Stamp[r] \div Tick = rows[i].at \div Tick
      BY <1>3, <2>5 DEF Covers
    <2>. QED BY <2>2, <2>3, <2>4, <2>5 DEF Covers
  <1>. QED BY <1>1, <1>8, <1>9, <1>10, <1>11 DEF Told

LEMMA MoreDoneInv ==
  ASSUME IInv, NEW s \in Slot, calls[s].op = "more", calls[s].at = "done", MoreDone(s), Frame
  PROVE  IInv' /\ NoNewAct
  <1>1. PICK c : c = calls[s]
    OBVIOUS
  <1>2. /\ c \in CallRecord /\ CallOk(c) /\ ui \in UiRecord /\ seen \in SeenRecord
        /\ c.sure \in SUBSET Row /\ c.rows \in Seq(ItemRead) /\ c.op = "more" /\ c.at = "done"
    BY <1>1, CallIs DEF IInv, Types
  <1>3. PICK u : u = [ui EXCEPT !.rows = @ \o c.rows, !.next = c.next]
    OBVIOUS
  <1>4. /\ u \in UiRecord /\ u.key = ui.key /\ u.of = ui.of
        /\ u.rows = ui.rows \o c.rows /\ u.next = c.next
    <2>1. ui.rows \in Seq(ItemRead) /\ c.next \in SUBSET Cursors
      BY <1>2 DEF UiRecord, CallRecord
    <2>2. ui.rows \o c.rows \in Seq(ItemRead)
      BY <1>2, <2>1
    <2>. QED BY <1>2, <1>3, <2>1, <2>2 DEF UiRecord
  <1>5. /\ ui' = Settled(u, c) /\ seen' = [seen EXCEPT !.sure = @ \intersect c.sure]
        /\ calls' = [calls EXCEPT ![s] = NoCall]
    BY <1>1, <1>3 DEF MoreDone
  <1>6. /\ ui' \in UiRecord /\ ui'.loading = FALSE /\ ui'.key = ui.key /\ ui'.open = u.open
        /\ ui'.rows = ui.rows \o c.rows /\ ui'.of = ui.of /\ ui'.next = c.next
    BY <1>2, <1>4, <1>5, SettledIs
  <1>7. /\ seen' \in SeenRecord /\ seen'.sure = seen.sure \intersect c.sure
        /\ seen'.acted = seen.acted
    BY <1>2, <1>5 DEF SeenRecord
  <1>8. calls' \in [Slot -> CallRecord] /\ Alone' /\ CallsOk' /\ NoNewAct
    <2>1. calls[s].op # "idle"
      OBVIOUS
    <2>. QED BY <1>5, <1>6, <2>1, CallOver DEF IInv, Frame
  <1>9. Spinning'
    BY <1>6 DEF Spinning
  <1>10. ShownOk'
    <2>1. SUFFICES ASSUME ui'.open, seen.sure \intersect c.sure # {} PROVE Shown'
      BY <1>7 DEF ShownOk
    <2>2. c.sure # {} /\ seen.sure # {} /\ ui.open
      BY <1>2, <1>3, <1>6, <2>1 DEF UiRecord
    <2>3. Shown
      BY <2>2 DEF IInv, ShownOk
    <2>4. \A t \in Slot : calls[t].op \notin {"load", "reload"}
      BY <1>1, <1>2, <2>2 DEF IInv, Alone
    <2>5. /\ ui.of = ui.key
          /\ \A i \in 1..Len(ui.rows) :
               ui.rows[i].id \in seen.acted => ui.rows[i].st # "open"
      BY <2>3, <2>4 DEF Shown, Under
    <2>6. /\ ReadOk(c) /\ c.key = ui.key /\ c.cur = ui.next /\ c.cur # {}
          /\ kind.more /\ ~kind.path
      <3>1. c.stage = "rows" /\ kind.more
        BY <1>2 DEF CallOk
      <3>2. ~kind.path
        BY <3>1 DEF IInv, Types, Sound
      <3>. QED BY <1>2, <2>2, <3>1, <3>2 DEF CallOk, Fetched
    <2>7. PICK k, rows, next, more, last, s1, s2, all :
            /\ k = ui.key /\ rows = ui.rows /\ next = ui.next /\ s1 = seen.sure
            /\ more = c.rows /\ last = c.next /\ s2 = c.sure /\ all = rows \o more
      OBVIOUS
    <2>8. Told(k, rows, next, {}, s1) /\ Told(k, more, last, next, s2)
      BY <2>3, <2>5, <2>6, <2>7 DEF Shown, ReadOk
    <2>9. rows \in Seq(ItemRead) /\ more \in Seq(ItemRead) /\ s1 \in SUBSET Row /\ next # {}
      BY <1>2, <2>6, <2>7 DEF UiRecord, SeenRecord
    <2>10. Told(k, all, last, {}, s1 \intersect s2)
      BY <2>6, <2>7, <2>8, <2>9, ToldJoins
    <2>11. PICK both : both = s1 \intersect s2
      OBVIOUS
    <2>12. Told(k, all, last, {}, both)'
      BY <2>10, <2>11, ToldStays DEF Frame
    <2>13. Told(ui.of, ui.rows, ui.next, {}, seen.sure)'
      BY <1>6, <1>7, <2>5, <2>7, <2>11, <2>12
    <2>14. \A i \in 1..Len(c.rows) : c.rows[i].id \in seen.acted => c.rows[i].st # "open"
      BY <2>2, <2>6 DEF ReadOk
    <2>15. ASSUME NEW i \in 1..Len(all), all[i].id \in seen.acted
           PROVE  all[i].st # "open"
      <3>1. /\ Len(all) = Len(rows) + Len(more) /\ Len(rows) \in Nat /\ Len(more) \in Nat
            /\ all[i] = IF i <= Len(rows) THEN rows[i] ELSE more[i - Len(rows)]
        BY <2>7, <2>9
      <3>2. CASE i <= Len(rows)
        BY <2>5, <2>7, <2>15, <3>1, <3>2
      <3>3. CASE ~(i <= Len(rows))
        <4>1. i - Len(rows) \in 1..Len(more)
          BY <3>1, <3>3
        <4>. QED BY <2>7, <2>14, <2>15, <3>1, <3>3, <4>1
      <3>. QED BY <3>2, <3>3
    <2>16. \A i \in 1..Len(ui'.rows) :
             ui'.rows[i].id \in seen'.acted => ui'.rows[i].st # "open"
      BY <1>6, <1>7, <2>7, <2>15
    <2>. QED BY <1>6, <2>5, <2>13, <2>16 DEF Shown
  <1>11. Types' /\ ActedDone'
    BY <1>6, <1>7, <1>8 DEF IInv, Types, ActedDone, Frame
  <1>. QED BY <1>8, <1>9, <1>10, <1>11 DEF IInv

LEMMA MoreFailsInv ==
  ASSUME IInv, NEW s \in Slot, calls[s].op = "more", MoreFails(s), Frame
  PROVE  IInv' /\ NoNewAct
  <1>1. PICK c : c = calls[s]
    OBVIOUS
  <1>2. c \in CallRecord /\ CallOk(c) /\ ui \in UiRecord /\ c.op = "more" /\ ~kind.path
    <2>1. c \in CallRecord /\ CallOk(c) /\ ui \in UiRecord /\ c.op = "more"
      BY <1>1, CallIs DEF IInv, Types
    <2>2. kind.more
      BY <2>1 DEF CallOk
    <2>. QED BY <2>1, <2>2 DEF IInv, Types, Sound
  <1>3. ui' = Settled(ui, c) /\ seen' = seen /\ calls' = [calls EXCEPT ![s] = NoCall]
    BY <1>1 DEF MoreFails
  <1>4. /\ ui' \in UiRecord /\ ui'.loading = FALSE /\ ui'.key = ui.key /\ ui'.open = ui.open
        /\ ui'.rows = ui.rows /\ ui'.of = ui.of /\ ui'.next = ui.next
    BY <1>2, <1>3, SettledIs
  <1>5. /\ calls' \in [Slot -> CallRecord] /\ Alone' /\ CallsOk' /\ NoNewAct
        /\ \A t \in Slot \ {s} : calls'[t] = calls[t]
    <2>1. calls[s].op # "idle"
      OBVIOUS
    <2>. QED BY <1>3, <1>4, <2>1, CallOver DEF IInv, Frame
  <1>6. /\ Under("load") => Under("load")'
        /\ Under("reload") => Under("reload")'
    BY <1>1, <1>2, <1>5 DEF Under
  <1>7. ShownOk'
    BY <1>2, <1>3, <1>4, <1>6, ShownOkStays DEF IInv, Frame
  <1>8. Spinning'
    BY <1>4 DEF Spinning
  <1>9. Types' /\ ActedDone'
    BY <1>3, <1>4, <1>5 DEF IInv, Types, ActedDone, Frame
  <1>. QED BY <1>5, <1>7, <1>8, <1>9 DEF IInv

\* An effect runs again and selects k, with the page u.
LEMMA EffectRuns ==
  ASSUME IInv, NEW u \in UiRecord, NEW k \in Keys, Effect(u, k, calls), kind' = kind, db' = db
  PROVE  /\ calls' \in [Slot -> CallRecord] /\ Alone' /\ CallsOk' /\ NoNewAct
         /\ Under("load")' /\ (Under("reload") => Under("reload")')
         /\ ui' \in UiRecord /\ ui'.key = k /\ ui'.open = u.open /\ ui'.rows = u.rows
         /\ ui'.of = u.of /\ ui'.next = u.next /\ ui'.loading = u.loading
  <1>1. /\ ui' \in UiRecord /\ ui'.key = k /\ ui'.open = u.open /\ ui'.rows = u.rows
        /\ ui'.of = u.of /\ ui'.next = u.next /\ ui'.loading = u.loading
    BY DEF Effect, UiRecord
  <1>2. PICK c : c = Load(k)
    OBVIOUS
  <1>3. /\ c \in CallRecord /\ c.op = "load" /\ c.key = k /\ c.at = "sent"
        /\ c.stage \in {"rows", "me"} /\ c.cur = {}
    BY <1>2, NoCallTyped DEF Load, NoCall, CallRecord
  <1>4. Begins(c)
    BY <1>2, <1>3 DEF Begins, Effect
  <1>5. /\ calls' \in [Slot -> CallRecord] /\ Alone' /\ CallsOk'
        /\ Under(c.op)' /\ (Under("reload") => Under("reload")')
        /\ \A t \in Slot : calls'[t].op = "act" => calls[t].op = "act" \/ (c.op = "act" /\ calls'[t].row = c.row)
    BY <1>1, <1>3, <1>4, CallBegins DEF IInv
  <1>6. Under("load")'
    BY <1>3, <1>5
  <1>7. NoNewAct
    BY <1>3, <1>5 DEF NoNewAct
  <1>. QED BY <1>1, <1>5, <1>6, <1>7

\* What an effect leaves on show is what was on show.
LEMMA EffectShows ==
  ASSUME IInv, NEW u \in UiRecord, NEW k \in Keys, Effect(u, k, calls), Frame,
         u.open = ui.open, seen' = seen, kind.path => k \in Row,
         u.rows = ui.rows, u.of = ui.of, u.next = ui.next,
         kind.path /\ (ui.key = k => ui.loading) => u.loading
  PROVE  IInv' /\ NoNewAct
  <1>1. /\ calls' \in [Slot -> CallRecord] /\ Alone' /\ CallsOk' /\ NoNewAct
        /\ Under("load")' /\ (Under("reload") => Under("reload")')
        /\ ui' \in UiRecord /\ ui'.key = k /\ ui'.open = u.open /\ ui'.rows = u.rows
        /\ ui'.of = u.of /\ ui'.next = u.next /\ ui'.loading = u.loading
    BY EffectRuns DEF Frame
  <1>2. ShownOk'
    <2>1. SUFFICES ASSUME ui'.open, seen'.sure # {} PROVE Shown'
      BY DEF ShownOk
    <2>2. Shown
      BY <1>1, <2>1 DEF IInv, ShownOk
    <2>3. PICK of, rows, next, sure :
            of = ui.of /\ rows = ui.rows /\ next = ui.next /\ sure = seen.sure
      OBVIOUS
    <2>4. Told(of, rows, next, {}, sure)
      BY <2>2, <2>3 DEF Shown
    <2>5. Told(of, rows, next, {}, sure)'
      BY <2>4, ToldStays DEF Frame
    <2>6. Told(ui.of, ui.rows, ui.next, {}, seen.sure)'
      BY <1>1, <2>3, <2>5
    <2>7. \A i \in 1..Len(ui'.rows) :
            ui'.rows[i].id \in seen'.acted /\ ui'.rows[i].st = "open" => Under("reload")'
      BY <1>1, <2>2 DEF Shown
    <2>8. ui'.of # ui'.key => Under("load")' /\ (kind'.path => ui'.loading)
      BY <1>1, <2>2 DEF Shown, Frame
    <2>. QED BY <2>6, <2>7, <2>8 DEF Shown
  <1>3. Spinning'
    <2>1. PICK t \in Slot : calls'[t].op = "load"
      BY <1>1 DEF Under
    <2>. QED BY <2>1 DEF Spinning
  <1>4. Types' /\ ActedDone'
    BY <1>1 DEF IInv, Types, ActedDone, Frame
  <1>. QED BY <1>1, <1>2, <1>3, <1>4 DEF IInv

LEMMA MeDoneInv ==
  ASSUME IInv, NEW s \in Slot, calls[s].op = "load", calls[s].at = "done",
         calls[s].stage = "me", MeDone(s), Frame
  PROVE  IInv' /\ NoNewAct
  <1>1. PICK c : c = calls[s]
    OBVIOUS
  <1>2. /\ c \in CallRecord /\ CallOk(c) /\ c.key \in Keys /\ c.yes \in BOOLEAN
        /\ ui \in UiRecord /\ seen \in SeenRecord /\ c.op = "load" /\ c.stage = "me"
        /\ (kind.path => ui.key \in Row) /\ ui.key \in Keys
    BY <1>1, CallIs DEF IInv, Types, UiRecord
  <1>3. PICK known, closed :
          /\ known = [ui EXCEPT !.me = c.yes]
          /\ closed = [known EXCEPT !.rows = <<>>, !.of = c.key]
    OBVIOUS
  <1>4. /\ known \in UiRecord /\ known.open = ui.open /\ known.key = ui.key
        /\ known.rows = ui.rows /\ known.of = ui.of /\ known.next = ui.next
        /\ known.loading = ui.loading
    BY <1>2, <1>3 DEF UiRecord
  <1>5. closed \in UiRecord /\ closed.open = ui.open /\ closed.key = ui.key
    <2>1. <<>> \in Seq(ItemRead)
      OBVIOUS
    <2>. QED BY <1>2, <1>3, <1>4, <2>1 DEF UiRecord
  <1>6. PICK gated \in BOOLEAN : gated <=> kind.profile # "sets" /\ ~c.yes
    OBVIOUS
  <1>7. PICK u : u = [(IF gated THEN closed ELSE known) EXCEPT !.loading = TRUE]
    OBVIOUS
  <1>8. /\ u \in UiRecord /\ u.open = ui.open /\ u.loading = TRUE
        /\ ~gated => u.rows = ui.rows /\ u.of = ui.of /\ u.next = ui.next
    <2>1. CASE gated
      BY <1>5, <1>7, <2>1 DEF UiRecord
    <2>2. CASE ~gated
      BY <1>4, <1>7, <2>2 DEF UiRecord
    <2>. QED BY <2>1, <2>2
  <1>9. /\ \/ Effect(u, ui.key, calls)
           \/ gated /\ ui' = Settled(closed, c) /\ calls' = [calls EXCEPT ![s] = NoCall]
           \/ /\ ~gated /\ ui' = known
              /\ calls' = [calls EXCEPT ![s].stage = "rows", ![s].at = "sent"]
        /\ seen' = IF gated THEN [seen EXCEPT !.sure = {}] ELSE seen
    BY <1>1, <1>3, <1>6, <1>7 DEF MeDone
  <1>10. CASE ~gated /\ Effect(u, ui.key, calls)
    BY <1>2, <1>8, <1>9, <1>10, EffectShows
  <1>11. CASE gated
    <2>1. seen' \in SeenRecord /\ seen'.sure = {} /\ seen'.acted = seen.acted
      BY <1>2, <1>9, <1>11 DEF SeenRecord
    <2>2. ShownOk'
      BY <2>1 DEF ShownOk
    <2>3. CASE Effect(u, ui.key, calls)
      <3>1. /\ calls' \in [Slot -> CallRecord] /\ Alone' /\ CallsOk' /\ NoNewAct
            /\ Under("load")' /\ ui' \in UiRecord /\ ui'.key = ui.key
        BY <1>2, <1>8, <2>3, EffectRuns DEF Frame
      <3>2. Spinning'
        BY <3>1 DEF Spinning, Under
      <3>3. Types' /\ ActedDone'
        BY <2>1, <3>1 DEF IInv, Types, ActedDone, Frame
      <3>. QED BY <2>2, <3>1, <3>2, <3>3 DEF IInv
    <2>4. CASE ui' = Settled(closed, c) /\ calls' = [calls EXCEPT ![s] = NoCall]
      <3>1. ui' \in UiRecord /\ ui'.key = ui.key /\ ui'.loading = FALSE
        BY <1>2, <1>5, <2>4, SettledIs
      <3>2. calls' \in [Slot -> CallRecord] /\ Alone' /\ CallsOk' /\ NoNewAct
        <4>1. calls[s].op # "idle"
          OBVIOUS
        <4>. QED BY <2>4, <3>1, <4>1, CallOver DEF IInv, Frame
      <3>3. Spinning'
        BY <3>1 DEF Spinning
      <3>4. Types' /\ ActedDone'
        BY <2>1, <3>1, <3>2 DEF IInv, Types, ActedDone, Frame
      <3>. QED BY <2>2, <3>2, <3>3, <3>4 DEF IInv
    <2>. QED BY <1>9, <1>11, <2>3, <2>4
  <1>12. CASE /\ ~gated /\ ui' = known
              /\ calls' = [calls EXCEPT ![s].stage = "rows", ![s].at = "sent"]
    <2>1. PICK d : d = [c EXCEPT !.stage = "rows", !.at = "sent"]
      OBVIOUS
    <2>2. /\ d \in CallRecord /\ d.op = "load" /\ d.key = c.key /\ d.cur = c.cur
          /\ d.row = c.row /\ d.next = c.next /\ d.sure = c.sure
          /\ d.stage = "rows" /\ d.at = "sent"
      BY <1>2, <2>1 DEF CallRecord
    <2>3. calls' = [calls EXCEPT ![s] = d]
      BY <1>1, <1>12, <2>1
    <2>4. seen' = seen
      BY <1>9, <1>12
    <2>5. /\ ui' \in UiRecord /\ ui'.open = ui.open /\ ui'.key = ui.key
          /\ ui'.rows = ui.rows /\ ui'.of = ui.of /\ ui'.next = ui.next
          /\ ui'.loading = ui.loading
      BY <1>4, <1>12
    <2>6. /\ calls' \in [Slot -> CallRecord] /\ Alone' /\ CallsOk'
          /\ \A t \in Slot : calls'[t].op = calls[t].op
          /\ NoNewAct
      <3>1. /\ calls[s].op # "idle" /\ kind' = kind /\ db' = db /\ ui'.key = ui.key
            /\ seen'.acted = seen.acted /\ ui'.next = ui.next
            /\ Types /\ Alone /\ CallsOk
        BY <2>4, <2>5 DEF Frame, IInv
      <3>2. /\ d.op = calls[s].op /\ d.key = calls[s].key /\ d.cur = calls[s].cur
            /\ d.row = calls[s].row /\ d.next = calls[s].next /\ d.sure = calls[s].sure
        BY <1>1, <2>2
      <3>. QED BY <2>2, <2>3, <3>1, <3>2, CallMoves
    <2>7. /\ Under("load") => Under("load")'
          /\ Under("reload") => Under("reload")'
      BY <2>6 DEF Under
    <2>8. ShownOk'
      BY <2>4, <2>5, <2>7, ShownOkStays DEF IInv, Frame
    <2>9. Spinning'
      BY <2>5, <2>7, SpinningStays DEF IInv
    <2>10. Types' /\ ActedDone'
      BY <2>4, <2>5, <2>6 DEF IInv, Types, ActedDone, Frame
    <2>. QED BY <2>6, <2>8, <2>9, <2>10 DEF IInv
  <1>. QED BY <1>9, <1>10, <1>11, <1>12

\* The page reloads after its action: the call at s is a reload now.
LEMMA FollowedIs ==
  ASSUME IInv, NEW s \in Slot, calls[s].op = "act", Followed(s), Frame
  PROVE  /\ calls' \in [Slot -> CallRecord] /\ Alone' /\ CallsOk' /\ NoNewAct
         /\ Under("reload")' /\ (Under("load") => Under("load")')
         /\ ui' \in UiRecord /\ ui'.key = ui.key /\ ui'.open = ui.open /\ ui'.rows = ui.rows
         /\ ui'.of = ui.of /\ ui'.next = ui.next /\ (ui.loading => ui'.loading)
  <1>1. PICK c : c = calls[s]
    OBVIOUS
  <1>2. c \in CallRecord /\ CallOk(c) /\ c.key \in Keys /\ ui \in UiRecord /\ c.op = "act"
    BY <1>1, CallIs DEF IInv, Types
  <1>3. /\ ui' \in UiRecord /\ ui'.key = ui.key /\ ui'.open = ui.open /\ ui'.rows = ui.rows
        /\ ui'.of = ui.of /\ ui'.next = ui.next /\ (ui.loading => ui'.loading)
    <2>1. kind.spins \in BOOLEAN /\ ui.loading \in BOOLEAN
      BY <1>2 DEF IInv, Types, Sound, KindRecord, UiRecord
    <2>2. PICK b \in BOOLEAN : b <=> ui.loading \/ kind.spins
      OBVIOUS
    <2>3. ui' = [ui EXCEPT !.loading = b]
      BY <2>1, <2>2 DEF Followed
    <2>4. /\ ui' \in UiRecord /\ ui'.key = ui.key /\ ui'.open = ui.open /\ ui'.rows = ui.rows
          /\ ui'.of = ui.of /\ ui'.next = ui.next /\ ui'.loading = b
      BY <1>2, <2>2, <2>3 DEF UiRecord
    <2>. QED BY <2>2, <2>4
  <1>4. PICK d : d = [Reload(c.key, TRUE) EXCEPT !.sure = IF c.sure = {} THEN {} ELSE Row]
    OBVIOUS
  <1>5. /\ d \in CallRecord /\ d.op = "reload" /\ d.key = c.key /\ d.at = "sent"
        /\ d.stage = "rows" /\ d.cur = {} /\ (d.sure # {} => c.sure # {})
    BY <1>2, <1>4, NoCallTyped DEF Reload, NoCall, CallRecord
  <1>6. calls' = [calls EXCEPT ![s] = d]
    BY <1>1, <1>4 DEF Followed
  <1>7. CallOk(d)'
    <2>1. d.sure # {} => d.key = ui'.key
      BY <1>2, <1>3, <1>5 DEF CallOk
    <2>. QED BY <1>5, <2>1 DEF CallOk, Fetched
  <1>8. /\ calls' \in [Slot -> CallRecord] /\ Alone' /\ CallsOk'
        /\ calls'[s] = d /\ \A t \in Slot \ {s} : calls'[t] = calls[t]
    <2>1. calls[s].op # "idle" /\ (d.sure # {} => calls[s].sure # {})
      BY <1>1, <1>5
    <2>. QED BY <1>3, <1>5, <1>6, <1>7, <2>1, CallGoesOn DEF IInv, Frame
  <1>9. /\ NoNewAct /\ Under("reload")'
        /\ (Under("load") => Under("load")')
    <2>1. \A t \in Slot : calls'[t].op = "act" => calls[t].op = "act"
      BY <1>5, <1>8
    <2>2. calls'[s].op = "reload"
      BY <1>5, <1>8
    <2>3. \A t \in Slot : calls[t].op = "load" => calls'[t].op = "load"
      BY <1>8
    <2>. QED BY <2>1, <2>2, <2>3 DEF NoNewAct, Under
  <1>. QED BY <1>3, <1>8, <1>9

LEMMA ActDoneInv ==
  ASSUME IInv, NEW s \in Slot, calls[s].op = "act", calls[s].at = "done", ActDone(s), Frame
  PROVE  IInv' /\ NoNewAct
  <1>1. PICK c : c = calls[s]
    OBVIOUS
  <1>2. /\ c \in CallRecord /\ CallOk(c) /\ c.op = "act" /\ c.at = "done"
        /\ ui \in UiRecord /\ seen \in SeenRecord /\ c.sure \in SUBSET Row
    BY <1>1, CallIs DEF IInv, Types
  <1>3. ActOk(c) /\ db[c.row].st = "done" /\ c.row \in Row
    BY <1>2 DEF CallOk, ActOk
  <1>4. CASE kind.acts = "reload"
    <2>1. Followed(s) /\ seen' = [seen EXCEPT !.acted = @ \union {c.row}]
      BY <1>1, <1>4 DEF ActDone
    <2>2. /\ seen' \in SeenRecord /\ seen'.sure = seen.sure
          /\ seen'.acted = seen.acted \union {c.row}
      BY <1>2, <1>3, <2>1 DEF SeenRecord
    <2>3. /\ calls' \in [Slot -> CallRecord] /\ Alone' /\ CallsOk' /\ NoNewAct
          /\ Under("reload")' /\ (Under("load") => Under("load")')
          /\ ui' \in UiRecord /\ ui'.key = ui.key /\ ui'.open = ui.open /\ ui'.rows = ui.rows
          /\ ui'.of = ui.of /\ ui'.next = ui.next /\ (ui.loading => ui'.loading)
      BY <2>1, FollowedIs
    <2>4. ShownOk'
      <3>1. SUFFICES ASSUME ui'.open, seen'.sure # {} PROVE Shown'
        BY DEF ShownOk
      <3>2. Shown
        BY <2>2, <2>3, <3>1 DEF IInv, ShownOk
      <3>3. PICK of, rows, next, sure :
              of = ui.of /\ rows = ui.rows /\ next = ui.next /\ sure = seen.sure
        OBVIOUS
      <3>4. Told(of, rows, next, {}, sure)
        BY <3>2, <3>3 DEF Shown
      <3>5. Told(of, rows, next, {}, sure)'
        BY <3>4, ToldStays DEF Frame
      <3>6. Told(ui.of, ui.rows, ui.next, {}, seen.sure)'
        BY <2>2, <2>3, <3>3, <3>5
      <3>7. ui'.of # ui'.key => Under("load")' /\ (kind'.path => ui'.loading)
        BY <2>3, <3>2 DEF Shown, Frame
      <3>. QED BY <2>3, <3>6, <3>7 DEF Shown
    <2>5. Spinning'
      BY <2>3 DEF Spinning, Under
    <2>6. ActedDone'
      BY <1>3, <2>2 DEF IInv, ActedDone, Frame
    <2>7. Types'
      BY <2>2, <2>3 DEF IInv, Types, Frame
    <2>. QED BY <2>3, <2>4, <2>5, <2>6, <2>7 DEF IInv
  <1>5. CASE kind.acts = "set" /\ kind.acts # "reload"
    <2>1. PICK u : u = Replaced(c)
      OBVIOUS
    <2>2. /\ u \in UiRecord /\ u.loading = ui.loading /\ u.open = ui.open /\ u.key = ui.key
          /\ u.rows = c.rows /\ u.of = c.key /\ u.next = c.next
      BY <1>2, <2>1, ReplacedIs
    <2>3. /\ ui' = [u EXCEPT !.busy = None]
          /\ seen' = [seen EXCEPT !.acted = @ \union {c.row}, !.sure = c.sure]
          /\ calls' = [calls EXCEPT ![s] = NoCall]
      BY <1>1, <1>5, <2>1 DEF ActDone
    <2>4. /\ ui' \in UiRecord /\ ui'.loading = ui.loading /\ ui'.open = ui.open
          /\ ui'.key = ui.key /\ ui'.rows = c.rows /\ ui'.of = c.key /\ ui'.next = c.next
      BY <2>2, <2>3 DEF UiRecord
    <2>5. /\ seen' \in SeenRecord /\ seen'.sure = c.sure
          /\ seen'.acted = seen.acted \union {c.row}
      BY <1>2, <1>3, <2>3 DEF SeenRecord
    <2>6. /\ calls' \in [Slot -> CallRecord] /\ Alone' /\ CallsOk' /\ NoNewAct
          /\ calls'[s] = NoCall /\ \A t \in Slot \ {s} : calls'[t] = calls[t]
      <3>1. calls[s].op # "idle"
        OBVIOUS
      <3>. QED BY <2>3, <2>4, <3>1, CallOver DEF IInv, Frame
    <2>7. kind.path /\ ~kind.more /\ ~kind.nearness
      BY <1>5 DEF IInv, Types, Sound
    <2>8. /\ c.row = c.key /\ Len(c.rows) = 1 /\ c.rows[1].id = c.row
          /\ c.rows[1].st = "done" /\ c.next = {}
      BY <1>2, <1>3, <2>7 DEF ActOk
    <2>9. ShownOk'
      <3>1. SUFFICES ASSUME c.sure # {} PROVE Shown'
        BY <2>5 DEF ShownOk
      <3>2. c.key = ui.key
        BY <1>2, <3>1 DEF CallOk
      <3>3. PICK k, rows, next, sure :
              k = c.key /\ rows = c.rows /\ next = c.next /\ sure = c.sure
        OBVIOUS
      <3>4. \A i \in 1..Len(rows) : i = 1
        <4>1. Len(rows) = 1
          BY <2>8, <3>3
        <4>2. \A i \in 1..1 : i = 1
          OBVIOUS
        <4>. QED BY <4>1, <4>2
      <3>5. Told(k, rows, next, {}, sure)
        <4>1. InOrder(rows) /\ EndsAt(rows, next)
          BY <2>8, <3>3, <3>4 DEF InOrder, EndsAt
        <4>2. Agrees(k, rows[1])
          BY <1>3, <2>7, <2>8, <3>3 DEF Agrees, Matches
        <4>3. \A i \in 1..Len(rows) :
                /\ kind.path => rows[i].id = k
                /\ rows[i].id \in sure => Agrees(k, rows[i])
                /\ PastAll(rows[i], {})
          BY <2>8, <3>3, <3>4, <4>2 DEF PastAll
        <4>4. ASSUME NEW r \in sure, Matches(k, r) PROVE Covers(rows, next, r)
          <5>1. r = k
            BY <2>7, <4>4 DEF Matches
          <5>2. 1 \in 1..Len(rows) /\ rows[1].id = r
            BY <2>8, <3>3, <5>1
          <5>. QED BY <5>2 DEF Covers
        <4>. QED BY <4>1, <4>3, <4>4 DEF Told
      <3>6. Told(k, rows, next, {}, sure)'
        BY <3>5, ToldStays DEF Frame
      <3>7. Told(ui.of, ui.rows, ui.next, {}, seen.sure)'
        BY <2>4, <2>5, <3>3, <3>6
      <3>8. \A i \in 1..Len(ui'.rows) : ui'.rows[i].st # "open"
        BY <2>4, <2>8, <3>3, <3>4
      <3>9. ui'.of = ui'.key
        BY <2>4, <3>2
      <3>. QED BY <3>7, <3>8, <3>9 DEF Shown
    <2>10. /\ Under("load") => Under("load")'
           /\ Under("reload") => Under("reload")'
      BY <1>1, <1>2, <2>6 DEF Under
    <2>11. Spinning'
      BY <2>4, <2>10, SpinningStays DEF IInv
    <2>12. ActedDone'
      BY <1>3, <2>5 DEF IInv, ActedDone, Frame
    <2>13. Types'
      BY <2>4, <2>5, <2>6 DEF IInv, Types, Frame
    <2>. QED BY <2>6, <2>9, <2>11, <2>12, <2>13 DEF IInv
  <1>. QED BY <1>4, <1>5 DEF ActDone

LEMMA ActFailsInv ==
  ASSUME IInv, NEW s \in Slot, calls[s].op = "act", ActFails(s), Frame
  PROVE  IInv' /\ NoNewAct
  <1>1. seen' = seen
    BY DEF ActFails
  <1>2. CASE Followed(s)
    <2>1. /\ calls' \in [Slot -> CallRecord] /\ Alone' /\ CallsOk' /\ NoNewAct
          /\ Under("reload")' /\ (Under("load") => Under("load")')
          /\ ui' \in UiRecord /\ ui'.key = ui.key /\ ui'.open = ui.open /\ ui'.rows = ui.rows
          /\ ui'.of = ui.of /\ ui'.next = ui.next /\ (ui.loading => ui'.loading)
      BY <1>2, FollowedIs
    <2>2. ShownOk'
      BY <1>1, <2>1, ShownOkStays DEF IInv, Frame
    <2>3. Spinning'
      BY <2>1 DEF Spinning, Under
    <2>4. Types' /\ ActedDone'
      BY <1>1, <2>1 DEF IInv, Types, ActedDone, Frame
    <2>. QED BY <2>1, <2>2, <2>3, <2>4 DEF IInv
  <1>3. CASE ~Followed(s)
    <2>1. ui' = [ui EXCEPT !.busy = None] /\ calls' = [calls EXCEPT ![s] = NoCall]
      BY <1>3 DEF ActFails
    <2>2. /\ ui' \in UiRecord /\ ui'.loading = ui.loading /\ ui'.open = ui.open
          /\ ui'.key = ui.key /\ ui'.rows = ui.rows /\ ui'.of = ui.of /\ ui'.next = ui.next
      BY <2>1 DEF IInv, Types, UiRecord
    <2>3. /\ calls' \in [Slot -> CallRecord] /\ Alone' /\ CallsOk' /\ NoNewAct
          /\ \A t \in Slot \ {s} : calls'[t] = calls[t]
      <3>1. calls[s].op # "idle"
        OBVIOUS
      <3>. QED BY <2>1, <2>2, <3>1, CallOver DEF IInv, Frame
    <2>4. /\ Under("load") => Under("load")'
          /\ Under("reload") => Under("reload")'
      BY <2>3 DEF Under
    <2>5. ShownOk'
      BY <1>1, <2>2, <2>4, ShownOkStays DEF IInv, Frame
    <2>6. Spinning'
      BY <2>2, <2>4, SpinningStays DEF IInv
    <2>7. Types' /\ ActedDone'
      BY <1>1, <2>2, <2>3 DEF IInv, Types, ActedDone, Frame
    <2>. QED BY <2>3, <2>5, <2>6, <2>7 DEF IInv
  <1>. QED BY <1>2, <1>3

LEMMA DeliverInv ==
  ASSUME IInv, NEW s \in Slot, Deliver(s)
  PROVE  IInv' /\ NoNewAct
  <1>1. Frame
    BY DEF Deliver, Frame
  <1>2. CASE calls[s].op \in {"load", "reload"} /\ LoadFails(s)
    BY <1>1, <1>2, LoadFailsInv
  <1>3. CASE /\ calls[s].op \in {"load", "reload"} /\ calls[s].at = "done"
             /\ calls[s].stage = "rows" /\ LoadDone(s)
    BY <1>1, <1>3, LoadDoneInv
  <1>4. CASE /\ calls[s].op = "load" /\ calls[s].at = "done"
             /\ calls[s].stage = "me" /\ MeDone(s)
    BY <1>1, <1>4, MeDoneInv
  <1>5. CASE calls[s].op = "more" /\ calls[s].at = "done" /\ MoreDone(s)
    BY <1>1, <1>5, MoreDoneInv
  <1>6. CASE calls[s].op = "more" /\ MoreFails(s)
    BY <1>1, <1>6, MoreFailsInv
  <1>7. CASE calls[s].op = "act" /\ calls[s].at = "done" /\ ActDone(s)
    BY <1>1, <1>7, ActDoneInv
  <1>8. CASE calls[s].op = "act" /\ ActFails(s)
    BY <1>1, <1>8, ActFailsInv
  <1>. QED BY <1>2, <1>3, <1>4, <1>5, <1>6, <1>7, <1>8 DEF Deliver

-----------------------------------------------------------------------------
(* What a user does, and failures                                          *)

LEMMA SelectInv ==
  ASSUME IInv, NEW k \in Key, Select(k)
  PROVE  IInv' /\ NoNewAct
  <1>1. ui \in UiRecord /\ k \in Keys /\ (kind.path => k \in Row)
    BY DEF IInv, Types, Key, Keys
  <1>2. PICK u : u = [ui EXCEPT !.loading = TRUE]
    OBVIOUS
  <1>3. /\ u \in UiRecord /\ u.open = ui.open /\ u.rows = ui.rows /\ u.of = ui.of
        /\ u.next = ui.next /\ u.loading = TRUE
    BY <1>1, <1>2 DEF UiRecord
  <1>4. Effect(u, k, calls) /\ Frame /\ seen' = seen
    BY <1>2 DEF Select, Frame
  <1>. QED BY <1>1, <1>3, <1>4, EffectShows

LEMMA RenewInv ==
  ASSUME IInv, Renew
  PROVE  IInv' /\ NoNewAct
  <1>1. /\ ui \in UiRecord /\ ui.key \in Keys /\ (kind.path => ui.key \in Row)
        /\ kind.spins \in BOOLEAN /\ ui.loading \in BOOLEAN
    BY DEF IInv, Types, UiRecord, Sound, KindRecord
  <1>2. PICK b \in BOOLEAN : b <=> ui.loading \/ kind.spins
    OBVIOUS
  <1>3. PICK u : u = [ui EXCEPT !.loading = b]
    OBVIOUS
  <1>4. /\ u \in UiRecord /\ u.open = ui.open /\ u.rows = ui.rows /\ u.of = ui.of
        /\ u.next = ui.next /\ u.loading = b
    BY <1>1, <1>3 DEF UiRecord
  <1>5. Effect(u, ui.key, calls) /\ Frame /\ seen' = seen
    <2>1. u = [ui EXCEPT !.loading = ui.loading \/ kind.spins]
      BY <1>1, <1>2, <1>3
    <2>. QED BY <2>1 DEF Renew, Frame
  <1>6. PICK k : k = ui.key
    OBVIOUS
  <1>7. kind.path /\ (ui.key = k => ui.loading) => u.loading
    BY <1>2, <1>4, <1>6
  <1>. QED BY <1>1, <1>4, <1>5, <1>6, <1>7, EffectShows

\* A call that leaves what is shown as it is begins next to those under way.
LEMMA NextToInv ==
  ASSUME IInv, NEW c \in CallRecord, c.op \in {"reload", "more", "act"}, Room(calls),
         calls' = With(calls, c), Frame, seen' = seen,
         ui' \in UiRecord, ui'.key = ui.key, ui'.open = ui.open, ui'.rows = ui.rows,
         ui'.of = ui.of, ui'.next = ui.next, ui.loading => ui'.loading,
         ui'.loading => ui.loading \/ c.op = "reload",
         c.at = "sent", c.key = ui.key, c.op = "reload" => c.cur = {},
         c.op \in {"reload", "more"} => c.stage = "rows",
         c.op = "more" => kind.more /\ c.cur = ui.next /\ c.cur # {},
         c.op = "act" => ActOk(c)
  PROVE  /\ IInv'
         /\ \A t \in Slot : calls'[t].op = "act" =>
              calls[t].op = "act" \/ (c.op = "act" /\ calls'[t].row = c.row)
  <1>1. Begins(c) /\ kind' = kind /\ db' = db
    BY DEF Begins, Frame
  <1>2. /\ calls' \in [Slot -> CallRecord] /\ Alone' /\ CallsOk'
        /\ Under(c.op)' /\ (Under("reload") => Under("reload")')
        /\ c.op # "load" => (Under("load") => Under("load")')
        /\ \A t \in Slot : calls'[t].op = "act" => calls[t].op = "act" \/ (c.op = "act" /\ calls'[t].row = c.row)
    <2>1. /\ Types /\ Alone /\ CallsOk /\ c.key = ui'.key
          /\ c.op = "load" => c.stage # "act"
          /\ c.op \in {"load", "reload"} => c.cur = {}
          /\ c.op = "more" => kind.more /\ c.cur = ui'.next /\ c.cur # {}
      BY DEF IInv
    <2>. QED BY <1>1, <2>1, CallBegins
  <1>3. /\ Under("load") => Under("load")'
        /\ Under("reload") => Under("reload")'
    BY <1>2
  <1>4. ShownOk'
    BY <1>3, ShownOkStays DEF IInv, Frame
  <1>5. Spinning'
    <2>1. CASE c.op = "reload"
      BY <1>2, <2>1 DEF Spinning, Under
    <2>2. CASE c.op # "reload"
      BY <1>3, <2>2, SpinningStays DEF IInv
    <2>. QED BY <2>1, <2>2
  <1>6. Types' /\ ActedDone'
    BY <1>2 DEF IInv, Types, ActedDone, Frame
  <1>. QED BY <1>2, <1>4, <1>5, <1>6 DEF IInv

LEMMA RefreshInv ==
  ASSUME IInv, Refresh
  PROVE  IInv' /\ NoNewAct
  <1>1. ui \in UiRecord /\ ui.key \in Keys
    BY DEF IInv, Types, UiRecord
  <1>2. PICK c : c = Reload(ui.key, FALSE)
    OBVIOUS
  <1>3. /\ c \in CallRecord /\ c.op = "reload" /\ c.key = ui.key /\ c.at = "sent"
        /\ c.stage = "rows" /\ c.cur = {}
    BY <1>1, <1>2, NoCallTyped DEF Reload, NoCall, CallRecord
  <1>4. /\ ui' \in UiRecord /\ ui'.key = ui.key /\ ui'.open = ui.open /\ ui'.rows = ui.rows
        /\ ui'.of = ui.of /\ ui'.next = ui.next /\ ui'.loading = TRUE
    BY <1>1 DEF Refresh, UiRecord
  <1>5. Room(calls) /\ calls' = With(calls, c) /\ Frame /\ seen' = seen
    BY <1>2 DEF Refresh, Frame
  <1>6. /\ IInv'
        /\ \A t \in Slot : calls'[t].op = "act" =>
             calls[t].op = "act" \/ (c.op = "act" /\ calls'[t].row = c.row)
    BY <1>3, <1>4, <1>5, NextToInv
  <1>. QED BY <1>3, <1>6 DEF NoNewAct

LEMMA MoreInv ==
  ASSUME IInv, More
  PROVE  IInv' /\ NoNewAct
  <1>1. /\ ui \in UiRecord /\ ui.key \in Keys /\ ui.next \in SUBSET Cursors
        /\ ui.next # {} /\ kind.more
    BY DEF IInv, Types, UiRecord, More
  <1>2. PICK c : c = [NoCall EXCEPT !.op = "more", !.key = ui.key, !.cur = ui.next]
    OBVIOUS
  <1>3. /\ c \in CallRecord /\ c.op = "more" /\ c.key = ui.key /\ c.at = "sent"
        /\ c.stage = "rows" /\ c.cur = ui.next
    BY <1>1, <1>2, NoCallTyped DEF NoCall, CallRecord
  <1>4. /\ ui' \in UiRecord /\ ui'.key = ui.key /\ ui'.open = ui.open /\ ui'.rows = ui.rows
        /\ ui'.of = ui.of /\ ui'.next = ui.next /\ ui'.loading = ui.loading
    BY <1>1 DEF More, UiRecord
  <1>5. Room(calls) /\ calls' = With(calls, c) /\ Frame /\ seen' = seen
    BY <1>2 DEF More, Frame
  <1>6. /\ IInv'
        /\ \A t \in Slot : calls'[t].op = "act" =>
             calls[t].op = "act" \/ (c.op = "act" /\ calls'[t].row = c.row)
    BY <1>1, <1>3, <1>4, <1>5, NextToInv
  <1>. QED BY <1>3, <1>6 DEF NoNewAct

\* A record is acted on only while it is the one on show.
LEMMA ActInv ==
  ASSUME IInv, NEW i \in 1..Len(ui.rows), Act(i)
  PROVE  /\ IInv'
         /\ \A t \in Slot :
              calls'[t].op = "act" /\ calls[t].op # "act" /\ seen.sure # {} =>
                \E j \in 1..Len(ui.rows) : ui.rows[j].id = calls'[t].row
  <1>1. /\ ui \in UiRecord /\ ui.key \in Keys /\ ui.rows \in Seq(ItemRead)
        /\ (kind.path => ui.key \in Row)
    BY DEF IInv, Types, UiRecord
  <1>2. PICK r : r = IF kind.path THEN ui.key ELSE ui.rows[i].id
    OBVIOUS
  <1>3. r \in Row
    <2>1. ui.rows[i] \in ItemRead
      BY <1>1
    <2>. QED BY <1>1, <1>2, <2>1, ItemFields
  <1>4. PICK c : c = [NoCall EXCEPT !.op = "act", !.stage = "act", !.key = ui.key, !.row = r]
    OBVIOUS
  <1>5. /\ c \in CallRecord /\ c.op = "act" /\ c.key = ui.key /\ c.at = "sent"
        /\ c.stage = "act" /\ c.row = r /\ c.next = {}
    BY <1>1, <1>3, <1>4, NoCallTyped DEF NoCall, CallRecord
  <1>6. ActOk(c)
    BY <1>2, <1>3, <1>5 DEF ActOk
  <1>7. /\ ui' \in UiRecord /\ ui'.key = ui.key /\ ui'.open = ui.open /\ ui'.rows = ui.rows
        /\ ui'.of = ui.of /\ ui'.next = ui.next /\ ui'.loading = ui.loading
    <2>1. ui' = [ui EXCEPT !.busy = r]
      BY <1>2 DEF Act
    <2>. QED BY <1>1, <1>3, <2>1 DEF UiRecord
  <1>8. Room(calls) /\ calls' = With(calls, c) /\ Frame /\ seen' = seen
    BY <1>2, <1>4 DEF Act, Frame
  <1>9. /\ IInv'
        /\ \A t \in Slot : calls'[t].op = "act" =>
             calls[t].op = "act" \/ (c.op = "act" /\ calls'[t].row = c.row)
    BY <1>5, <1>6, <1>7, <1>8, NextToInv
  <1>10. ASSUME seen.sure # {} PROVE ui.rows[i].id = r
    <2>1. CASE ~kind.path
      BY <1>2, <2>1
    <2>2. CASE kind.path
      <3>1. kind.hides
        BY <2>2 DEF IInv, Types, Sound
      <3>2. ui.open /\ ~ui.loading
        BY <3>1 DEF Act
      <3>3. Shown
        BY <1>10, <3>2 DEF IInv, ShownOk
      <3>4. ui.of = ui.key /\ ui.rows[i].id = ui.of
        BY <2>2, <3>2, <3>3 DEF Shown, Told
      <3>. QED BY <1>2, <2>2, <3>4
    <2>. QED BY <2>1, <2>2
  <1>. QED BY <1>5, <1>9, <1>10

LEMMA ExpireInv ==
  ASSUME IInv, NEW s \in Slot, Expire(s)
  PROVE  IInv' /\ NoNewAct
  <1>1. /\ ui' = [ui EXCEPT !.open = FALSE] /\ calls' = [t \in Slot |-> NoCall]
        /\ seen' = seen /\ Frame
    BY DEF Expire, Frame
  <1>2. ui' \in UiRecord /\ ui'.open = FALSE /\ ui'.key = ui.key
    BY <1>1 DEF IInv, Types, UiRecord
  <1>3. CallOk(NoCall)' /\ \A t \in Slot : calls'[t] = NoCall
    BY <1>1, NoCallTyped DEF CallOk, Fetched
  <1>4. CallsOk' /\ Alone' /\ NoNewAct
    BY <1>3, NoCallTyped DEF CallsOk, Alone, NoNewAct
  <1>5. Types' /\ ActedDone'
    BY <1>1, <1>2, NoCallTyped DEF IInv, Types, ActedDone, Frame
  <1>6. ShownOk' /\ Spinning'
    BY <1>2 DEF ShownOk, Spinning
  <1>. QED BY <1>4, <1>5, <1>6 DEF IInv

-----------------------------------------------------------------------------
(* The steps together                                                      *)

LEMMA InitInv == Init => IInv
  <1>. SUFFICES ASSUME Init PROVE IInv
    OBVIOUS
  <1>2. Sound(kind)
    BY KindsSound DEF Init
  <1>3. db \in Rows
    <2>1. PICK p \in Spot : p = CHOOSE q \in Spot : TRUE
      BY SpotAssumption
    <2>2. db = [r \in Row |-> [st |-> IF \E q \in Row : q > r THEN "open" ELSE "none",
                               place |-> p]]
      BY <2>1 DEF Init
    <2>3. p \in Place
      BY SpotAssumption
    <2>. QED BY <2>2, <2>3 DEF Rows, Status
  <1>4. account \in BOOLEAN
    BY DEF Init
  <1>5. PICK k \in Key, me \in {TRUE, FALSE, account} :
          /\ ui = [open |-> TRUE, key |-> k, rows |-> <<>>, of |-> k, next |-> {},
                   loading |-> TRUE, more |-> FALSE, busy |-> None, me |-> me]
          /\ calls = With([s \in Slot |-> NoCall], Load(k))
    BY DEF Init
  <1>6. k \in Keys /\ (kind.path => k \in Row)
    BY DEF Key, Keys
  <1>7. ui \in UiRecord /\ ui.key = k /\ ui.of = k /\ ui.rows = <<>> /\ ui.next = {}
    <2>1. <<>> \in Seq(ItemRead)
      OBVIOUS
    <2>2. me \in BOOLEAN
      BY <1>4, Zenon
    <2>. QED BY <1>5, <1>6, <2>1, <2>2 DEF UiRecord
  <1>8. seen = [sure |-> {}, acted |-> {}]
    BY DEF Init
  <1>9. seen \in SeenRecord /\ seen.sure = {} /\ seen.acted = {}
    BY <1>8 DEF SeenRecord
  <1>10. PICK cs, c : cs = [s \in Slot |-> NoCall] /\ c = Load(k)
    OBVIOUS
  <1>11. /\ c \in CallRecord /\ c.op = "load" /\ c.key = k /\ c.at = "sent"
         /\ c.stage \in {"rows", "me"} /\ c.cur = {}
    BY <1>6, <1>10, NoCallTyped DEF Load, NoCall, CallRecord
  <1>12. cs \in [Slot -> CallRecord] /\ \A s \in Slot : cs[s] = NoCall
    BY <1>10, NoCallTyped
  <1>13. Room(cs)
    <2>1. InFlight(cs) = {}
      BY <1>12, NoCallTyped DEF InFlight
    <2>2. 1 \in Slot
      BY BoundAssumption DEF Slot
    <2>. QED BY <2>1, <2>2 DEF Room
  <1>14. PICK f \in Slot, X \in {Row, {}} :
           /\ cs[f].op = "idle"
           /\ With(cs, c)[f] = [c EXCEPT !.sure = X]
           /\ X # {} => \A t \in Slot \ {f} : cs[t].op = "idle" \/ (cs[t].op = "load" /\ c.op = "load")
           /\ \A t \in Slot \ {f} :
                With(cs, c)[t] =
                  IF cs[t].op # "idle" /\ (c.op # "load" \/ cs[t].op # "load")
                  THEN [cs[t] EXCEPT !.sure = {}] ELSE cs[t]
           /\ With(cs, c) \in [Slot -> CallRecord]
    BY <1>11, <1>12, <1>13, WithIs
  <1>15. /\ calls[f] = [c EXCEPT !.sure = X]
         /\ \A t \in Slot \ {f} : calls[t] = NoCall
         /\ calls \in [Slot -> CallRecord]
    BY <1>5, <1>10, <1>12, <1>14, NoCallTyped
  <1>16. /\ calls[f].op = "load" /\ calls[f].key = k /\ calls[f].at = "sent"
         /\ calls[f].stage \in {"rows", "me"} /\ calls[f].cur = {}
    BY <1>11, <1>15 DEF CallRecord
  <1>17. CallsOk
    <2>1. CallOk(NoCall)
      BY NoCallTyped DEF CallOk, Fetched
    <2>2. CallOk(calls[f])
      BY <1>7, <1>16 DEF CallOk, Fetched
    <2>. QED BY <1>15, <2>1, <2>2 DEF CallsOk
  <1>18. Alone
    BY <1>15, NoCallTyped DEF Alone
  <1>19. Types
    BY <1>2, <1>3, <1>4, <1>6, <1>7, <1>9, <1>15 DEF Types
  <1>20. ActedDone /\ ShownOk
    BY <1>9 DEF ActedDone, ShownOk
  <1>21. Spinning
    BY <1>16 DEF Spinning
  <1>. QED BY <1>17, <1>18, <1>19, <1>20, <1>21 DEF IInv

LEMMA StutterInv == ASSUME IInv, UNCHANGED vars PROVE IInv'
  <1>1. kind' = kind /\ db' = db /\ account' = account /\ ui' = ui /\ calls' = calls /\ seen' = seen
    BY DEF vars
  <1>2. ASSUME NEW t \in Slot PROVE CallOk(calls[t])'
    <2>1. PICK c : c = calls[t]
      OBVIOUS
    <2>2. c \in CallRecord /\ CallOk(c) /\ c = [c EXCEPT !.sure = c.sure]
      BY <2>1 DEF IInv, Types, CallsOk, CallRecord
    <2>3. CallOk(c)'
      BY <1>1, <2>2, CallStays
    <2>. QED BY <1>1, <2>1, <2>3
  <1>3. Types' /\ ActedDone' /\ Alone' /\ CallsOk' /\ Spinning'
    BY <1>1, <1>2 DEF IInv, Types, ActedDone, Alone, CallsOk, Spinning
  <1>4. ShownOk'
    <2>1. /\ Under("load") => Under("load")'
          /\ Under("reload") => Under("reload")'
      BY <1>1 DEF Under
    <2>. QED BY <1>1, <2>1, ShownOkStays DEF IInv
  <1>. QED BY <1>3, <1>4 DEF IInv

\* What a step may do with actions.
ActsOnShownStep ==
  \A s \in Slot :
    calls'[s].op = "act" /\ calls[s].op # "act" /\ seen.sure # {} =>
      \E i \in 1..Len(ui.rows) : ui.rows[i].id = calls'[s].row

LEMMA NextInv ==
  ASSUME IInv, [Next]_vars
  PROVE  IInv' /\ ActsOnShownStep
  <1>0. NoNewAct => ActsOnShownStep
    BY DEF NoNewAct, ActsOnShownStep
  <1>1. ASSUME NEW s \in Slot, Answer(s) PROVE IInv' /\ NoNewAct
    <2>1. UNCHANGED <<kind, account, ui>> /\ calls[s].at = "sent"
      BY <1>1 DEF Answer
    <2>. QED BY <1>1, <2>1, AnswerRowsInv, AnswerMeInv, AnswerActInv DEF Answer
  <1>2. ASSUME NEW s \in Slot, Deliver(s) PROVE IInv' /\ NoNewAct
    BY <1>2, DeliverInv
  <1>3. ASSUME NEW s \in Slot, Fail(s) PROVE IInv' /\ NoNewAct
    BY <1>3, FailsInv DEF Fail, Lost
  <1>4. ASSUME NEW s \in Slot, Expire(s) PROVE IInv' /\ NoNewAct
    BY <1>4, ExpireInv
  <1>5. ASSUME NEW r \in Row, Elsewhere(r) PROVE IInv' /\ NoNewAct
    BY <1>5, ElsewhereInv
  <1>6. ASSUME NEW r \in Row, NEW p \in Spot, Move(r, p) PROVE IInv' /\ NoNewAct
    BY <1>6, MoveRowInv
  <1>7. ASSUME NEW k \in Key, Select(k) PROVE IInv' /\ NoNewAct
    BY <1>7, SelectInv
  <1>8. ASSUME NEW i \in 1..Len(ui.rows), Act(i) PROVE IInv' /\ ActsOnShownStep
    BY <1>8, ActInv DEF ActsOnShownStep
  <1>9. CASE Approve \/ Renew \/ Refresh \/ More
    BY <1>0, <1>9, ApproveInv, RenewInv, RefreshInv, MoreInv
  <1>10. CASE UNCHANGED vars
    <2>1. ActsOnShownStep
      BY <1>10 DEF vars, ActsOnShownStep
    <2>. QED BY <1>10, <2>1, StutterInv
  <1>. QED BY <1>0, <1>1, <1>2, <1>3, <1>4, <1>5, <1>6, <1>7, <1>8, <1>9, <1>10 DEF Next

LEMMA Invariant == Spec => []IInv
  <1>1. IInv /\ [Next]_vars => IInv'
    BY NextInv
  <1>. QED BY <1>1, InitInv, PTL DEF Spec

-----------------------------------------------------------------------------
(* What holds of every page                                                *)

\* A page that says that it is loading has a call under way that will end it,
\* whatever the cleanups of its effect have made void, whatever has failed.
THEOREM NoPageSpins == Spec => []Spinning
  <1>1. IInv => Spinning
    BY DEF IInv
  <1>. QED BY <1>1, Invariant, PTL

\* Once nothing is under way, what is shown is what was read for the filter or
\* path that is selected.
LEMMA CalmShows ==
  ASSUME IInv, Calm
  PROVE  /\ ui.of = ui.key /\ ui.rows \in Seq(ItemRead) /\ seen.sure \in SUBSET Row
         /\ Told(ui.key, ui.rows, ui.next, {}, seen.sure)
         /\ \A i \in 1..Len(ui.rows) : ui.rows[i].id \in seen.acted => ui.rows[i].st # "open"
  <1>1. Shown
    BY DEF IInv, ShownOk, Calm
  <1>2. ~Under("load") /\ ~Under("reload")
    BY DEF Calm, InFlight, Under
  <1>3. ui.rows \in Seq(ItemRead) /\ seen.sure \in SUBSET Row
    BY DEF IInv, Types, UiRecord, SeenRecord
  <1>. QED BY <1>1, <1>2, <1>3 DEF Shown

\* The page shows what its filter or path selects, whatever changes of it, of
\* the token and of the rows, failures and retries have come between: a late
\* answer to an old question never stays on show.
THEOREM PagesAreCoherent == Spec => []Coherent
  <1>1. ASSUME IInv PROVE Coherent
    BY <1>1, CalmShows DEF Coherent, Told, Agrees
  <1>. QED BY <1>1, Invariant, PTL

\* The pages of a list join: in order and with nothing left out but rows of one
\* millisecond.
THEOREM PagesJoin == Spec => []Seamless
  <1>1. ASSUME IInv PROVE Seamless
    <2>1. SUFFICES ASSUME Calm PROVE Seamless
      BY DEF Seamless
    <2>2. Told(ui.key, ui.rows, ui.next, {}, seen.sure)
      BY <1>1, <2>1, CalmShows
    <2>3. \A i, j \in 1..Len(ui.rows) : i < j => Before(ui.rows[i], ui.rows[j])
      BY <2>2 DEF Told, InOrder
    <2>4. ASSUME NEW r \in seen.sure, Matches(ui.key, r) PROVE Covers(ui.rows, ui.next, r)
      <3>1. PastAll(Item(r), {})
        BY DEF PastAll
      <3>. QED BY <2>2, <2>4, <3>1 DEF Told
    <2>. QED BY <2>3, <2>4 DEF Seamless, Covers
  <1>. QED BY <1>1, Invariant, PTL

\* The user sees what they have done: no row on which an action of the page has
\* succeeded is shown open.
THEOREM ActionsAreShown == Spec => []OwnActionShown
  <1>1. ASSUME IInv PROVE OwnActionShown
    BY <1>1, CalmShows DEF OwnActionShown
  <1>. QED BY <1>1, Invariant, PTL

\* An action is about a row on show, never about a record that is still to be
\* loaded.
THEOREM ActionsAreOnShown == Spec => ActsOnShown
  <1>1. ASSUME IInv, [Next]_vars
        PROVE  [\A s \in Slot :
                  calls'[s].op = "act" /\ calls[s].op # "act" /\ seen.sure # {} =>
                    \E i \in 1..Len(ui.rows) : ui.rows[i].id = calls'[s].row]_vars
    BY <1>1, NextInv DEF ActsOnShownStep
  <1>. QED BY <1>1, Invariant, PTL DEF Spec, ActsOnShown

-----------------------------------------------------------------------------
(* The rows that are read and shown exist                                  *)

Real(rows) == \A i \in 1..Len(rows) : db[rows[i].id].st # "none"

\* What is open and selected is there, and so are the rows on show and on their way.
RealInv ==
  /\ kind \in {KindOf[p] : p \in Page}
  /\ db \in [Row -> [st : Status, place : Spot]]
  /\ ui.key \in Key /\ Real(ui.rows)
  /\ \A s \in Slot : /\ Real(calls[s].rows)
                     /\ calls[s].op # "idle" => calls[s].key \in Key
  /\ incidents \in 0..MaxIncidents

\* No row leaves the table.
Grows == kind' = kind /\ \A r \in Row : db[r].st # "none" => db'[r].st # "none"

\* A call asks for what it asked for, or for what is selected.
Asks(c, d) == d.op # "idle" => d.key = ui'.key \/ (c.op # "idle" /\ d.key = c.key)

CallsAsk == \A t \in Slot : Asks(calls[t], calls'[t])

\* A call has the rows it had, or none yet.
CallsKeep == \A t \in Slot : calls'[t].rows \in {calls[t].rows, <<>>}

\* The page shows what it showed, what a call has brought, or both, or nothing.
ShowsRead ==
  \/ ui'.rows \in {ui.rows, <<>>}
  \/ \E s \in Slot : ui'.rows \in {calls[s].rows, ui.rows \o calls[s].rows}

LEMMA RealStays ==
  ASSUME NEW rows \in Seq(ItemRead), Real(rows), Grows
  PROVE  Real(rows)'
  <1>1. \A i \in 1..Len(rows) : rows[i].id \in Row
    <2>1. \A i \in 1..Len(rows) : rows[i] \in ItemRead
      OBVIOUS
    <2>. QED BY <2>1, ItemFields
  <1>. QED BY <1>1 DEF Real, Grows

LEMMA RealJoin ==
  ASSUME NEW a \in Seq(ItemRead), NEW b \in Seq(ItemRead), Real(a), Real(b)
  PROVE  a \o b \in Seq(ItemRead) /\ Real(a \o b)
  <1>1. a \o b \in Seq(ItemRead) /\ Len(a \o b) = Len(a) + Len(b)
    OBVIOUS
  <1>2. ASSUME NEW i \in 1..Len(a \o b) PROVE db[(a \o b)[i].id].st # "none"
    <2>1. Len(a) \in Nat /\ Len(b) \in Nat /\ i \in 1..(Len(a) + Len(b))
      BY <1>1
    <2>2. CASE i <= Len(a)
      <3>1. (a \o b)[i] = a[i] /\ i \in 1..Len(a)
        BY <2>1, <2>2
      <3>. QED BY <3>1 DEF Real
    <2>3. CASE i > Len(a)
      <3>1. (a \o b)[i] = b[i - Len(a)] /\ i - Len(a) \in 1..Len(b)
        BY <2>1, <2>3
      <3>. QED BY <3>1 DEF Real
    <2>. QED BY <2>1, <2>2, <2>3
  <1>. QED BY <1>1, <1>2 DEF Real

LEMMA KeyStays == ASSUME NEW k \in Key, Grows PROVE k \in Key'
  BY DEF Key, Grows

LEMMA RealCall ==
  ASSUME RealInv, NEW s \in Slot
  PROVE  Real(calls[s].rows) /\ (calls[s].op # "idle" => calls[s].key \in Key)
  BY Zenon DEF RealInv

\* What holds of the rows after a step that reads none.
LEMMA NothingRead ==
  ASSUME IInv, RealInv, Grows, CallsKeep, ShowsRead
  PROVE  Real(ui.rows)' /\ \A t \in Slot : Real(calls[t].rows)'
  <1>1. Real(<<>>)' /\ <<>> \in Seq(ItemRead)
    BY DEF Real
  <1>2. ui.rows \in Seq(ItemRead) /\ Real(ui.rows)
    BY DEF IInv, Types, UiRecord, RealInv
  <1>3. \A t \in Slot : calls[t].rows \in Seq(ItemRead) /\ Real(calls[t].rows)
    BY CallIs, RealCall
  <1>4. ASSUME NEW t \in Slot PROVE Real(calls[t].rows)'
    <2>1. PICK rows : rows = calls[t].rows
      OBVIOUS
    <2>2. Real(rows)'
      BY <1>3, <2>1, RealStays
    <2>. QED BY <1>1, <2>1, <2>2 DEF CallsKeep
  <1>5. Real(ui.rows)'
    <2>1. PICK rows : rows = ui.rows
      OBVIOUS
    <2>2. Real(rows)'
      BY <1>2, <2>1, RealStays
    <2>3. ASSUME NEW s \in Slot, ui'.rows \in {calls[s].rows, ui.rows \o calls[s].rows}
          PROVE  Real(ui.rows)'
      <3>1. PICK b, both : b = calls[s].rows /\ both = rows \o b
        OBVIOUS
      <3>2. b \in Seq(ItemRead) /\ Real(b) /\ both \in Seq(ItemRead) /\ Real(both)
        BY <1>2, <1>3, <2>1, <3>1, RealJoin
      <3>3. Real(b)' /\ Real(both)'
        BY <3>2, RealStays
      <3>. QED BY <2>1, <2>3, <3>1, <3>3
    <2>. QED BY <1>1, <2>1, <2>2, <2>3 DEF ShowsRead
  <1>. QED BY <1>4, <1>5

LEMMA WithKeeps ==
  ASSUME NEW cs \in [Slot -> CallRecord], NEW c \in CallRecord, c.rows = <<>>, Room(cs)
  PROVE  \A t \in Slot :
           /\ With(cs, c)[t].rows \in {cs[t].rows, <<>>}
           /\ \/ With(cs, c)[t].key = c.key
              \/ With(cs, c)[t].op = cs[t].op /\ With(cs, c)[t].key = cs[t].key
  <1>1. PICK f \in Slot, X \in {Row, {}} :
           /\ cs[f].op = "idle"
           /\ With(cs, c)[f] = [c EXCEPT !.sure = X]
           /\ X # {} => \A t \in Slot \ {f} : cs[t].op = "idle" \/ (cs[t].op = "load" /\ c.op = "load")
           /\ \A t \in Slot \ {f} :
                With(cs, c)[t] =
                  IF cs[t].op # "idle" /\ (c.op # "load" \/ cs[t].op # "load")
                  THEN [cs[t] EXCEPT !.sure = {}] ELSE cs[t]
           /\ With(cs, c) \in [Slot -> CallRecord]
    BY WithIs
  <1>2. [c EXCEPT !.sure = X].rows = <<>> /\ [c EXCEPT !.sure = X].key = c.key
    BY DEF CallRecord
  <1>3. \A t \in Slot : /\ [cs[t] EXCEPT !.sure = {}].rows = cs[t].rows
                        /\ [cs[t] EXCEPT !.sure = {}].key = cs[t].key
                        /\ [cs[t] EXCEPT !.sure = {}].op = cs[t].op
    BY DEF CallRecord
  <1>. QED BY <1>1, <1>2, <1>3

LEMMA LoadTyped ==
  ASSUME NEW k \in Keys
  PROVE  Load(k) \in CallRecord /\ Load(k).rows = <<>> /\ Load(k).key = k
  <1>1. PICK stage \in {"rows", "me"} : stage = IF kind.profile = "none" THEN "rows" ELSE "me"
    OBVIOUS
  <1>2. Load(k) = [NoCall EXCEPT !.op = "load", !.key = k, !.stage = stage]
    BY <1>1 DEF Load
  <1>. QED BY <1>1, <1>2, NoCallTyped DEF NoCall, CallRecord

LEMMA EffectKeeps ==
  ASSUME IInv, NEW u \in UiRecord, NEW k \in Keys, Effect(u, k, calls)
  PROVE  CallsKeep /\ CallsAsk /\ ui'.key = k /\ ui'.rows = u.rows
  <1>1. PICK cs, c : cs = Cleanup(calls) /\ c = Load(k)
    OBVIOUS
  <1>2. /\ cs \in [Slot -> CallRecord] /\ c \in CallRecord /\ c.rows = <<>> /\ c.key = k
        /\ \A t \in Slot : /\ cs[t].rows \in {calls[t].rows, <<>>}
                           /\ cs[t].op # "idle" => cs[t] = calls[t]
    <2>1. /\ cs \in [Slot -> CallRecord]
          /\ \A t \in Slot : cs[t] = IF calls[t].op = "load" THEN NoCall ELSE calls[t]
      BY <1>1, CleanupIs DEF IInv, Types
    <2>2. NoCall.rows = <<>> /\ NoCall.op = "idle"
      BY DEF NoCall
    <2>. QED BY <1>1, <2>1, <2>2, LoadTyped
  <1>3. calls' = With(cs, c) /\ Room(cs)
    BY <1>1 DEF Effect
  <1>4. \A t \in Slot :
          /\ With(cs, c)[t].rows \in {cs[t].rows, <<>>}
          /\ \/ With(cs, c)[t].key = c.key
             \/ With(cs, c)[t].op = cs[t].op /\ With(cs, c)[t].key = cs[t].key
    BY <1>2, <1>3, WithKeeps
  <1>5. ui'.key = k /\ ui'.rows = u.rows
    BY DEF Effect, UiRecord
  <1>6. CallsKeep
    BY <1>2, <1>3, <1>4 DEF CallsKeep
  <1>7. CallsAsk
    BY <1>2, <1>3, <1>4, <1>5 DEF CallsAsk, Asks
  <1>. QED BY <1>5, <1>6, <1>7

\* A call is over, or moves on with the rows it has.
LEMMA OneKeeps ==
  ASSUME IInv, NEW s \in Slot, NEW d \in CallRecord, d.rows \in {calls[s].rows, <<>>},
         calls' = [calls EXCEPT ![s] = d],
         d.op # "idle" => calls[s].op # "idle" /\ d.key = calls[s].key
  PROVE  CallsKeep /\ CallsAsk
  <1>1. /\ calls'[s] = d /\ \A t \in Slot \ {s} : calls'[t] = calls[t]
    BY DEF IInv, Types
  <1>. QED BY <1>1 DEF CallsKeep, CallsAsk, Asks

LEMMA RowGrows ==
  ASSUME RealInv, NEW r \in Row, NEW rec \in [st : Status, place : Spot], Changed(r, rec),
         rec.st = "none" => db[r].st = "none", kind' = kind
  PROVE  Grows /\ db' \in [Row -> [st : Status, place : Spot]] /\ db'[r] = rec
  <1>1. db \in [Row -> [st : Status, place : Spot]] /\ db' = [db EXCEPT ![r] = rec]
    BY DEF RealInv, Changed
  <1>. QED BY <1>1 DEF Grows

LEMMA TableStep ==
  ASSUME IInv, RealInv, [Next]_vars
  PROVE  Grows /\ db' \in [Row -> [st : Status, place : Spot]]
  <1>1. \A r \in Row : db[r] \in [st : Status, place : Spot]
    BY DEF RealInv
  <1>2. ASSUME NEW r \in Row, NEW st \in {"open", "done"}, Changed(r, [db[r] EXCEPT !.st = st]),
               kind' = kind
        PROVE  Grows /\ db' \in [Row -> [st : Status, place : Spot]]
    <2>1. PICK rec : rec = [db[r] EXCEPT !.st = st]
      OBVIOUS
    <2>2. rec \in [st : Status, place : Spot] /\ rec.st # "none"
      BY <1>1, <2>1 DEF Status
    <2>. QED BY <1>2, <2>1, <2>2, RowGrows
  <1>3. ASSUME NEW s \in Slot, Answer(s)
        PROVE  Grows /\ db' \in [Row -> [st : Status, place : Spot]]
    <2>1. CASE db' = db
      BY <1>3, <2>1 DEF Answer, Grows, RealInv
    <2>2. CASE db' # db
      <3>1. /\ calls[s].op = "act" /\ kind' = kind
            /\ Changed(calls[s].row, [db[calls[s].row] EXCEPT !.st = "done"])
        BY <1>3, <2>2 DEF Answer, AnswerRows, AnswerMe, AnswerAct
      <3>2. calls[s].row \in Row
        BY <3>1, CallIs DEF CallOk, ActOk
      <3>. QED BY <1>2, <3>1, <3>2
    <2>. QED BY <2>1, <2>2
  <1>4. ASSUME NEW r \in Row, Elsewhere(r)
        PROVE  Grows /\ db' \in [Row -> [st : Status, place : Spot]]
    BY <1>2, <1>4 DEF Elsewhere
  <1>5. ASSUME NEW r \in Row, NEW p \in Spot, Move(r, p)
        PROVE  Grows /\ db' \in [Row -> [st : Status, place : Spot]]
    <2>1. PICK rec : rec = [db[r] EXCEPT !.place = p]
      OBVIOUS
    <2>2. rec \in [st : Status, place : Spot] /\ rec.st = db[r].st
      BY <1>1, <2>1
    <2>3. Changed(r, rec) /\ kind' = kind
      BY <1>5, <2>1 DEF Move
    <2>. QED BY <2>2, <2>3, RowGrows
  <1>6. CASE UNCHANGED <<kind, db>>
    BY <1>6 DEF Grows, RealInv
  <1>7. \/ \E s \in Slot : Answer(s)
        \/ \E r \in Row : Elsewhere(r)
        \/ \E r \in Row, p \in Spot : Move(r, p)
        \/ UNCHANGED <<kind, db>>
    <2>1. ASSUME NEW s \in Slot, Deliver(s) \/ Fail(s) \/ Expire(s) PROVE UNCHANGED <<kind, db>>
      BY <2>1 DEF Deliver, Fail, Expire
    <2>2. ASSUME NEW k, Select(k) PROVE UNCHANGED <<kind, db>>
      BY <2>2 DEF Select
    <2>3. ASSUME NEW i, Act(i) PROVE UNCHANGED <<kind, db>>
      BY <2>3 DEF Act
    <2>4. CASE Approve \/ Renew \/ Refresh \/ More
      BY <2>4 DEF Approve, Renew, Refresh, More
    <2>5. CASE UNCHANGED vars
      BY <2>5 DEF vars
    <2>. QED BY <2>1, <2>2, <2>3, <2>4, <2>5 DEF Next
  <1>. QED BY <1>3, <1>4, <1>5, <1>6, <1>7

LEMMA OutdatedIs ==
  ASSUME calls \in [Slot -> CallRecord], NEW r
  PROVE  /\ Outdated(calls, r) \in [Slot -> CallRecord]
         /\ \A t \in Slot : /\ Outdated(calls, r)[t].op = calls[t].op
                            /\ Outdated(calls, r)[t].key = calls[t].key
                            /\ Outdated(calls, r)[t].rows = calls[t].rows
  <1>1. ASSUME NEW t \in Slot
        PROVE  \E d \in CallRecord : /\ d = Outdated(calls, r)[t] /\ d.op = calls[t].op
                                    /\ d.key = calls[t].key /\ d.rows = calls[t].rows
    <2>1. PICK c, T : c = calls[t] /\ T = c.sure \ {r}
      OBVIOUS
    <2>2. c \in CallRecord /\ T \in SUBSET Row
      BY <2>1 DEF CallRecord
    <2>3. Outdated(calls, r)[t] = IF c.at = "done" THEN [c EXCEPT !.sure = T] ELSE c
      BY <2>1 DEF Outdated
    <2>4. PICK e : e = [c EXCEPT !.sure = T]
      OBVIOUS
    <2>5. e \in CallRecord /\ e.op = c.op /\ e.key = c.key /\ e.rows = c.rows
      BY <2>2, <2>4 DEF CallRecord
    <2>. QED BY <2>1, <2>2, <2>3, <2>4, <2>5
  <1>. QED BY <1>1 DEF Outdated

\* An answer brings rows of the table.
LEMMA AnswerReads ==
  ASSUME IInv, RealInv, Grows, NEW s \in Slot, Answer(s)
  PROVE  Real(ui.rows)' /\ \A t \in Slot : Real(calls[t].rows)'
  <1>1. ui' = ui /\ ShowsRead
    BY DEF Answer, ShowsRead
  <1>2. calls \in [Slot -> CallRecord]
    BY DEF IInv, Types
  <1>3. ASSUME CallsKeep PROVE Real(ui.rows)' /\ \A t \in Slot : Real(calls[t].rows)'
    BY <1>1, <1>3, NothingRead
  <1>4. ASSUME \A t \in Slot \ {s} : calls'[t].rows = calls[t].rows, Real(calls[s].rows)'
        PROVE  Real(ui.rows)' /\ \A t \in Slot : Real(calls[t].rows)'
    <2>1. ui.rows \in Seq(ItemRead) /\ Real(ui.rows)
      BY DEF IInv, Types, UiRecord, RealInv
    <2>2. PICK shown : shown = ui.rows
      OBVIOUS
    <2>3. Real(shown)'
      BY <2>1, <2>2, RealStays
    <2>4. ASSUME NEW t \in Slot \ {s} PROVE Real(calls[t].rows)'
      <3>1. PICK rows : rows = calls[t].rows
        OBVIOUS
      <3>2. rows \in Seq(ItemRead) /\ Real(rows)
        BY <3>1, CallIs, RealCall
      <3>3. Real(rows)'
        BY <3>2, RealStays
      <3>. QED BY <1>4, <3>1, <3>3
    <2>. QED BY <1>1, <1>4, <2>2, <2>3, <2>4
  <1>5. CASE AnswerRows(s)
    <2>1. PICK p : p = PageOf(calls[s].key, calls[s].cur)
      OBVIOUS
    <2>2. PICK k, cur : k = calls[s].key /\ cur = calls[s].cur
      OBVIOUS
    <2>3. /\ p.rows \in Seq(ItemRead) /\ Told(k, p.rows, p.next, cur, Row)
          /\ kind' = kind /\ db' = db
      BY <1>5, <2>1, <2>2, PageIs DEF IInv, Types, AnswerRows, Answer
    <2>4. ASSUME NEW i \in 1..Len(p.rows) PROVE db[p.rows[i].id].st # "none"
      <3>1. p.rows[i].id \in Row
        BY <2>3, ItemFields
      <3>2. Matches(k, p.rows[i].id)
        BY <2>3, <3>1 DEF Told, Agrees
      <3>3. CASE ~kind.path
        BY <3>2, <3>3 DEF Matches
      <3>4. CASE kind.path
        <4>1. p.rows[i].id = k
          BY <3>2, <3>4 DEF Matches
        <4>2. k \in Key
          BY <1>5, <2>2, RealCall DEF AnswerRows
        <4>. QED BY <3>4, <4>1, <4>2 DEF Key
      <3>. QED BY <3>3, <3>4
    <2>5. \A t \in Slot \ {s} : calls'[t] = calls[t]
      BY <1>2, <1>5 DEF AnswerRows
    <2>6. calls'[s].rows = p.rows
      BY <1>2, <1>5, <2>1 DEF AnswerRows, CallRecord
    <2>7. Real(calls[s].rows)'
      BY <2>3, <2>4, <2>6 DEF Real
    <2>. QED BY <1>4, <2>5, <2>7
  <1>6. CASE AnswerMe(s)
    <2>1. PICK d : d = [calls[s] EXCEPT !.at = "done", !.yes = account]
      OBVIOUS
    <2>2. d \in CallRecord /\ d.rows = calls[s].rows /\ d.key = calls[s].key /\ d.op = calls[s].op
      BY <1>2, <1>6, <2>1 DEF CallRecord, IInv, Types, AnswerMe
    <2>3. calls' = [calls EXCEPT ![s] = d]
      BY <1>6, <2>1 DEF AnswerMe
    <2>4. CallsKeep
      <3>1. (d.op # "idle" => calls[s].op # "idle" /\ d.key = calls[s].key) /\ d.rows \in {calls[s].rows, <<>>}
        BY <2>2
      <3>. QED BY <2>2, <2>3, <3>1, OneKeeps
    <2>. QED BY <1>3, <2>4
  <1>7. CASE AnswerAct(s)
    <2>1. PICK r : r = calls[s].row
      OBVIOUS
    <2>2. r \in Row
      BY <1>7, <2>1, CallIs DEF AnswerAct, CallOk, ActOk
    <2>3. CASE db[r].st # "open"
      <3>1. PICK d : d = [calls[s] EXCEPT !.at = "failed"]
        OBVIOUS
      <3>2. d \in CallRecord /\ d.rows = calls[s].rows /\ d.key = calls[s].key /\ d.op = calls[s].op
        BY <1>2, <3>1 DEF CallRecord
      <3>3. calls' = [calls EXCEPT ![s] = d]
        BY <1>7, <2>1, <2>3, <3>1 DEF AnswerAct
      <3>4. CallsKeep
        <4>1. (d.op # "idle" => calls[s].op # "idle" /\ d.key = calls[s].key) /\ d.rows \in {calls[s].rows, <<>>}
          BY <3>2
        <4>. QED BY <3>2, <3>3, <4>1, OneKeeps
      <3>. QED BY <1>3, <3>4
    <2>4. CASE db[r].st = "open"
      <3>1. PICK a : a = [Item(r) EXCEPT !.st = "done"]
        OBVIOUS
      <3>2. calls' = [Outdated(calls, r) EXCEPT ![s].at = "done", ![s].rows = <<a>>]
        BY <1>7, <2>1, <2>4, <3>1 DEF AnswerAct
      <3>3. /\ Outdated(calls, r) \in [Slot -> CallRecord]
            /\ \A t \in Slot : Outdated(calls, r)[t].rows = calls[t].rows
        BY <1>2, OutdatedIs
      <3>6. \A t \in Slot \ {s} : calls'[t].rows = calls[t].rows
        BY <3>2, <3>3
      <3>7. calls'[s].rows = <<a>>
        BY <3>2, <3>3 DEF CallRecord
      <3>8. a.id = r
        BY <2>2, <3>1, ItemIs DEF IInv, Types, Item
      <3>9. db'[r].st # "none"
        BY <2>2, <2>4 DEF Grows
      <3>10. Real(<<a>>)'
        <4>1. \A i \in 1..Len(<<a>>) : <<a>>[i] = a
          OBVIOUS
        <4>. QED BY <3>8, <3>9, <4>1 DEF Real
      <3>. QED BY <1>4, <3>6, <3>7, <3>10
    <2>. QED BY <2>3, <2>4
  <1>. QED BY <1>5, <1>6, <1>7 DEF Answer

LEMMA AnswerAsks == ASSUME IInv, NEW s \in Slot, Answer(s) PROVE CallsAsk /\ ui'.key = ui.key
  <1>1. ui' = ui /\ calls \in [Slot -> CallRecord]
    BY DEF Answer, IInv, Types
  <1>2. \A t \in Slot : \E d : d = calls'[t] /\ d.op = calls[t].op /\ d.key = calls[t].key
    <2>1. CASE AnswerRows(s) \/ AnswerMe(s)
      BY <1>1, <2>1 DEF AnswerRows, AnswerMe, CallRecord
    <2>2. CASE AnswerAct(s)
      <3>1. PICK r : r = calls[s].row
        OBVIOUS
      <3>3. Outdated(calls, r) \in [Slot -> CallRecord]
        BY <1>1, OutdatedIs
      <3>4. \A t \in Slot : /\ Outdated(calls, r)[t].op = calls[t].op
                            /\ Outdated(calls, r)[t].key = calls[t].key
        BY <1>1, OutdatedIs
      <3>5. CASE calls' = [calls EXCEPT ![s].at = "failed"]
        BY <1>1, <3>5 DEF CallRecord
      <3>6. ASSUME NEW a, calls' = [Outdated(calls, r) EXCEPT ![s].at = "done", ![s].rows = <<a>>]
            PROVE  \A t \in Slot : \E d : d = calls'[t] /\ d.op = calls[t].op /\ d.key = calls[t].key
        BY <3>3, <3>4, <3>6 DEF CallRecord
      <3>. QED BY <2>2, <3>1, <3>5, <3>6 DEF AnswerAct
    <2>. QED BY <2>1, <2>2 DEF Answer
  <1>. QED BY <1>1, <1>2 DEF CallsAsk, Asks

\* What the page does with an answer reads nothing.
LEMMA DeliverKeeps ==
  ASSUME IInv, NEW s \in Slot, Deliver(s)
  PROVE  CallsKeep /\ CallsAsk /\ ShowsRead /\ ui'.key = ui.key
  <1>1. PICK c : c = calls[s]
    OBVIOUS
  <1>2. /\ c \in CallRecord /\ CallOk(c) /\ c.key \in Keys /\ c.rows \in Seq(ItemRead)
        /\ c.yes \in BOOLEAN /\ ui \in UiRecord /\ ui.key \in Keys
    BY <1>1, CallIs DEF IInv, Types, UiRecord
  <1>3. NoCall.rows = <<>> /\ NoCall.op = "idle" /\ NoCall \in CallRecord
    BY NoCallTyped DEF NoCall
  <1>4. ASSUME calls' = [calls EXCEPT ![s] = NoCall] PROVE CallsKeep /\ CallsAsk
    <2>1. NoCall.op = "idle" /\ NoCall \in CallRecord /\ NoCall.rows \in {calls[s].rows, <<>>}
      BY <1>3
    <2>. QED BY <1>4, <2>1, OneKeeps
  <1>5. CASE LoadFails(s)
    <2>1. PICK u : u = IF kind.clears THEN [ui EXCEPT !.rows = <<>>, !.of = c.key] ELSE ui
      OBVIOUS
    <2>2. u \in UiRecord /\ u.key = ui.key /\ u.rows \in {ui.rows, <<>>}
      <3>1. <<>> \in Seq(ItemRead)
        OBVIOUS
      <3>2. CASE kind.clears
        BY <1>2, <2>1, <3>1, <3>2 DEF UiRecord
      <3>3. CASE ~kind.clears
        BY <1>2, <2>1, <3>3
      <3>. QED BY <3>2, <3>3
    <2>3. ui' = Settled(u, c) /\ calls' = [calls EXCEPT ![s] = NoCall]
      BY <1>1, <1>5, <2>1 DEF LoadFails
    <2>4. ui'.key = u.key /\ ui'.rows = u.rows
      BY <1>2, <2>2, <2>3, SettledIs
    <2>. QED BY <1>4, <2>2, <2>3, <2>4 DEF ShowsRead
  <1>6. CASE LoadDone(s)
    <2>1. PICK u : u = Replaced(c)
      OBVIOUS
    <2>2. u \in UiRecord /\ u.key = ui.key /\ u.rows = c.rows
      BY <1>2, <2>1, ReplacedIs
    <2>3. ui' = Settled(u, c) /\ calls' = [calls EXCEPT ![s] = NoCall]
      BY <1>1, <1>6, <2>1 DEF LoadDone
    <2>4. ui'.key = u.key /\ ui'.rows = u.rows
      BY <1>2, <2>2, <2>3, SettledIs
    <2>. QED BY <1>1, <1>4, <2>2, <2>3, <2>4 DEF ShowsRead
  <1>7. CASE MoreDone(s)
    <2>1. PICK rows : rows = ui.rows \o c.rows
      OBVIOUS
    <2>2. rows \in Seq(ItemRead) /\ c.next \in SUBSET Cursors
      BY <1>2, <2>1 DEF UiRecord, CallRecord
    <2>3. PICK u : u = [ui EXCEPT !.rows = rows, !.next = c.next]
      OBVIOUS
    <2>4. u \in UiRecord /\ u.key = ui.key /\ u.rows = rows
      BY <1>2, <2>2, <2>3 DEF UiRecord
    <2>5. ui' = Settled(u, c) /\ calls' = [calls EXCEPT ![s] = NoCall]
      BY <1>1, <1>7, <2>1, <2>3 DEF MoreDone
    <2>6. ui'.key = u.key /\ ui'.rows = u.rows
      BY <1>2, <2>4, <2>5, SettledIs
    <2>. QED BY <1>1, <1>4, <2>1, <2>4, <2>5, <2>6 DEF ShowsRead
  <1>8. CASE MoreFails(s)
    <2>1. ui' = Settled(ui, c) /\ calls' = [calls EXCEPT ![s] = NoCall]
      BY <1>1, <1>8 DEF MoreFails
    <2>2. ui'.key = ui.key /\ ui'.rows = ui.rows
      BY <1>2, <2>1, SettledIs
    <2>. QED BY <1>4, <2>1, <2>2 DEF ShowsRead
  <1>9. CASE calls[s].op = "load" /\ MeDone(s)
    <2>0. PICK known : known = [ui EXCEPT !.me = c.yes]
      OBVIOUS
    <2>1. PICK closed : closed = [known EXCEPT !.rows = <<>>, !.of = c.key]
      OBVIOUS
    <2>2. known \in UiRecord /\ known.key = ui.key /\ known.rows = ui.rows
      BY <1>2, <2>0 DEF UiRecord
    <2>3. closed \in UiRecord /\ closed.key = ui.key /\ closed.rows = <<>>
      <3>1. <<>> \in Seq(ItemRead)
        OBVIOUS
      <3>. QED BY <1>2, <2>1, <2>2, <3>1 DEF UiRecord
    <2>4. PICK gated \in BOOLEAN : gated <=> kind.profile # "sets" /\ ~c.yes
      OBVIOUS
    <2>5. PICK v : v = IF gated THEN closed ELSE known
      OBVIOUS
    <2>6. v \in UiRecord /\ v.key = ui.key /\ v.rows \in {ui.rows, <<>>}
      BY <2>2, <2>3, <2>5
    <2>7. PICK u : u = [v EXCEPT !.loading = TRUE]
      OBVIOUS
    <2>8. u \in UiRecord /\ u.rows \in {ui.rows, <<>>}
      BY <2>6, <2>7 DEF UiRecord
    <2>9. \/ Effect(u, ui.key, calls)
          \/ ui' = Settled(closed, c) /\ calls' = [calls EXCEPT ![s] = NoCall]
          \/ ui' = known /\ calls' = [calls EXCEPT ![s].stage = "rows", ![s].at = "sent"]
      BY <1>1, <1>9, <2>0, <2>1, <2>4, <2>5, <2>7 DEF MeDone
    <2>10. CASE Effect(u, ui.key, calls)
      <3>1. PICK k \in Keys : k = ui.key
        BY <1>2
      <3>2. Effect(u, k, calls)
        BY <2>10, <3>1
      <3>3. CallsKeep /\ CallsAsk /\ ui'.key = k /\ ui'.rows = u.rows
        BY <2>8, <3>2, EffectKeeps
      <3>. QED BY <2>8, <3>1, <3>3 DEF ShowsRead
    <2>11. CASE ui' = Settled(closed, c) /\ calls' = [calls EXCEPT ![s] = NoCall]
      <3>1. ui'.key = closed.key /\ ui'.rows = closed.rows
        BY <1>2, <2>3, <2>11, SettledIs
      <3>. QED BY <1>4, <2>3, <2>11, <3>1 DEF ShowsRead
    <2>12. CASE ui' = known /\ calls' = [calls EXCEPT ![s].stage = "rows", ![s].at = "sent"]
      <3>1. PICK d : d = [c EXCEPT !.stage = "rows", !.at = "sent"]
        OBVIOUS
      <3>2. d \in CallRecord /\ d.rows = c.rows /\ d.key = c.key /\ d.op = c.op
        BY <1>2, <3>1 DEF CallRecord
      <3>3. calls' = [calls EXCEPT ![s] = d]
        BY <1>1, <2>12, <3>1
      <3>4. CallsKeep /\ CallsAsk
        <4>1. (d.op # "idle" => calls[s].op # "idle" /\ d.key = calls[s].key) /\ d.rows \in {calls[s].rows, <<>>}
          BY <1>1, <3>2
        <4>. QED BY <3>2, <3>3, <4>1, OneKeeps
      <3>. QED BY <2>2, <2>12, <3>4 DEF ShowsRead
    <2>. QED BY <2>9, <2>10, <2>11, <2>12
  <1>10. ASSUME calls[s].op = "act", Followed(s)
         PROVE  CallsKeep /\ CallsAsk /\ ShowsRead /\ ui'.key = ui.key
    <2>1. PICK d : d = [Reload(c.key, TRUE) EXCEPT !.sure = IF c.sure = {} THEN {} ELSE Row]
      OBVIOUS
    <2>2. d \in CallRecord /\ d.rows = <<>> /\ d.key = c.key
      <3>1. PICK k \in Keys : k = c.key
        BY <1>2
      <3>2. PICK sure \in SUBSET Row : sure = IF c.sure = {} THEN {} ELSE Row
        OBVIOUS
      <3>3. d = [Reload(k, TRUE) EXCEPT !.sure = sure]
        BY <2>1, <3>1, <3>2
      <3>4. PICK e : e = Reload(k, TRUE)
        OBVIOUS
      <3>5. e \in CallRecord /\ e.rows = <<>> /\ e.key = k
        BY <3>1, <3>4, NoCallTyped DEF Reload, NoCall, CallRecord
      <3>. QED BY <3>1, <3>2, <3>3, <3>4, <3>5 DEF CallRecord
    <2>3. calls' = [calls EXCEPT ![s] = d]
      BY <1>1, <1>10, <2>1 DEF Followed
    <2>4. CallsKeep /\ CallsAsk
      <3>1. (d.op # "idle" => calls[s].op # "idle" /\ d.key = calls[s].key) /\ d.rows \in {calls[s].rows, <<>>}
        BY <1>1, <1>10, <2>2
      <3>. QED BY <2>2, <2>3, <3>1, OneKeeps
    <2>5. Frame
      BY DEF Deliver, Frame
    <2>6. ui'.key = ui.key /\ ui'.rows = ui.rows
      BY <1>10, <2>5, FollowedIs
    <2>. QED BY <2>4, <2>6 DEF ShowsRead
  <1>11. CASE calls[s].op = "act" /\ ActDone(s)
    <2>1. CASE Followed(s)
      BY <1>10, <1>11, <2>1
    <2>2. CASE ~Followed(s)
      <3>1. PICK u : u = Replaced(c)
        OBVIOUS
      <3>2. u \in UiRecord /\ u.key = ui.key /\ u.rows = c.rows
        BY <1>2, <3>1, ReplacedIs
      <3>3. ui' = [u EXCEPT !.busy = None] /\ calls' = [calls EXCEPT ![s] = NoCall]
        BY <1>1, <1>11, <2>2, <3>1 DEF ActDone
      <3>4. ui'.key = u.key /\ ui'.rows = u.rows
        BY <3>2, <3>3 DEF UiRecord
      <3>. QED BY <1>1, <1>4, <3>2, <3>3, <3>4 DEF ShowsRead
    <2>. QED BY <2>1, <2>2
  <1>12. CASE calls[s].op = "act" /\ ActFails(s)
    <2>1. CASE Followed(s)
      BY <1>10, <1>12, <2>1
    <2>2. CASE ~Followed(s)
      <3>1. ui' = [ui EXCEPT !.busy = None] /\ calls' = [calls EXCEPT ![s] = NoCall]
        BY <1>12, <2>2 DEF ActFails
      <3>2. ui'.key = ui.key /\ ui'.rows = ui.rows
        BY <1>2, <3>1 DEF UiRecord
      <3>. QED BY <1>4, <3>1, <3>2 DEF ShowsRead
    <2>. QED BY <2>1, <2>2
  <1>. QED BY <1>5, <1>6, <1>7, <1>8, <1>9, <1>11, <1>12 DEF Deliver

\* Neither does what the user does.
LEMMA BeginsKeeps ==
  ASSUME IInv, NEW c \in CallRecord, c.rows = <<>>, c.key = ui.key, Room(calls),
         calls' = With(calls, c), ui'.key = ui.key, ui'.rows = ui.rows
  PROVE  CallsKeep /\ CallsAsk /\ ShowsRead
  <1>1. calls \in [Slot -> CallRecord]
    BY DEF IInv, Types
  <1>2. \A t \in Slot :
          /\ With(calls, c)[t].rows \in {calls[t].rows, <<>>}
          /\ \/ With(calls, c)[t].key = c.key
             \/ With(calls, c)[t].op = calls[t].op /\ With(calls, c)[t].key = calls[t].key
    BY <1>1, WithKeeps
  <1>. QED BY <1>2 DEF CallsKeep, CallsAsk, Asks, ShowsRead

LEMMA RefreshKeeps ==
  ASSUME IInv, Refresh
  PROVE  CallsKeep /\ CallsAsk /\ ShowsRead /\ ui'.key = ui.key
  <1>1. ui \in UiRecord /\ ui.key \in Keys
    BY DEF IInv, Types, UiRecord
  <1>2. PICK c : c = Reload(ui.key, FALSE)
    OBVIOUS
  <1>3. c \in CallRecord /\ c.rows = <<>> /\ c.key = ui.key
    BY <1>1, <1>2, NoCallTyped DEF Reload, NoCall, CallRecord
  <1>4. Room(calls) /\ calls' = With(calls, c) /\ ui'.key = ui.key /\ ui'.rows = ui.rows
    BY <1>1, <1>2 DEF Refresh, UiRecord
  <1>. QED BY <1>3, <1>4, BeginsKeeps

LEMMA MoreKeeps ==
  ASSUME IInv, More
  PROVE  CallsKeep /\ CallsAsk /\ ShowsRead /\ ui'.key = ui.key
  <1>1. ui \in UiRecord /\ ui.key \in Keys /\ ui.next \in SUBSET Cursors
    BY DEF IInv, Types, UiRecord
  <1>2. PICK c : c = [NoCall EXCEPT !.op = "more", !.key = ui.key, !.cur = ui.next]
    OBVIOUS
  <1>3. c \in CallRecord /\ c.rows = <<>> /\ c.key = ui.key
    BY <1>1, <1>2, NoCallTyped DEF NoCall, CallRecord
  <1>4. Room(calls) /\ calls' = With(calls, c) /\ ui'.key = ui.key /\ ui'.rows = ui.rows
    BY <1>1, <1>2 DEF More, UiRecord
  <1>. QED BY <1>3, <1>4, BeginsKeeps

LEMMA ActKeeps ==
  ASSUME IInv, NEW i \in 1..Len(ui.rows), Act(i)
  PROVE  CallsKeep /\ CallsAsk /\ ShowsRead /\ ui'.key = ui.key
  <1>1. /\ ui \in UiRecord /\ ui.key \in Keys /\ ui.rows \in Seq(ItemRead)
        /\ (kind.path => ui.key \in Row)
    BY DEF IInv, Types, UiRecord
  <1>2. PICK r : r = IF kind.path THEN ui.key ELSE ui.rows[i].id
    OBVIOUS
  <1>3. r \in Row
    <2>1. ui.rows[i] \in ItemRead
      BY <1>1
    <2>. QED BY <1>1, <1>2, <2>1, ItemFields
  <1>4. PICK c : c = [NoCall EXCEPT !.op = "act", !.stage = "act", !.key = ui.key, !.row = r]
    OBVIOUS
  <1>5. c \in CallRecord /\ c.rows = <<>> /\ c.key = ui.key
    BY <1>1, <1>3, <1>4, NoCallTyped DEF NoCall, CallRecord
  <1>6. Room(calls) /\ calls' = With(calls, c)
    BY <1>2, <1>4 DEF Act
  <1>7. ui'.key = ui.key /\ ui'.rows = ui.rows
    <2>1. ui' = [ui EXCEPT !.busy = r]
      BY <1>2 DEF Act
    <2>. QED BY <1>1, <2>1 DEF UiRecord
  <1>. QED BY <1>5, <1>6, <1>7, BeginsKeeps

\* What is selected, and what calls ask for, stays in the table.
LEMMA KeysStay ==
  ASSUME RealInv, Grows, CallsAsk, NEW k \in Key', ui'.key = k
  PROVE  \A t \in Slot : calls'[t].op # "idle" => calls'[t].key \in Key'
  <1>1. SUFFICES ASSUME NEW t \in Slot, calls'[t].op # "idle" PROVE calls'[t].key \in Key'
    OBVIOUS
  <1>2. CASE calls'[t].key = ui'.key
    BY <1>2
  <1>3. CASE calls[t].op # "idle" /\ calls'[t].key = calls[t].key
    <2>1. PICK j : j = calls[t].key
      OBVIOUS
    <2>2. j \in Key'
      BY <1>3, <2>1, RealCall, KeyStays
    <2>. QED BY <1>3, <2>1, <2>2
  <1>. QED BY <1>1, <1>2, <1>3 DEF CallsAsk, Asks

LEMMA StepReads ==
  ASSUME IInv, RealInv, Grows, [Next]_vars
  PROVE  /\ Real(ui.rows)' /\ \A t \in Slot : Real(calls[t].rows)'
         /\ CallsAsk /\ ui'.key \in Key'
  <1>1. ASSUME ui'.key = ui.key PROVE ui'.key \in Key'
    <2>1. PICK k : k = ui.key
      OBVIOUS
    <2>2. k \in Key
      BY <2>1, Zenon DEF RealInv
    <2>3. k \in Key'
      BY <2>2, KeyStays
    <2>. QED BY <1>1, <2>1, <2>3
  <1>2. ASSUME CallsKeep, CallsAsk, ShowsRead, ui'.key = ui.key
        PROVE  /\ Real(ui.rows)' /\ \A t \in Slot : Real(calls[t].rows)'
               /\ CallsAsk /\ ui'.key \in Key'
    BY <1>1, <1>2, NothingRead
  <1>3. CASE \E s \in Slot : Answer(s)
    BY <1>1, <1>3, AnswerReads, AnswerAsks
  <1>4. CASE \E s \in Slot : Deliver(s)
    BY <1>2, <1>4, DeliverKeeps
  <1>5. calls \in [Slot -> CallRecord] /\ ui \in UiRecord
    BY DEF IInv, Types
  <1>6. ASSUME NEW s \in Slot, Fail(s) PROVE CallsKeep /\ CallsAsk /\ ShowsRead /\ ui'.key = ui.key
    <2>1. PICK d : d = [calls[s] EXCEPT !.at = "failed"]
      OBVIOUS
    <2>2. d \in CallRecord /\ d.rows = calls[s].rows /\ d.key = calls[s].key /\ d.op = calls[s].op
      BY <1>5, <2>1 DEF CallRecord
    <2>3. calls' = [calls EXCEPT ![s] = d] /\ ui' = ui
      BY <1>6, <2>1 DEF Fail
    <2>4. /\ d.rows \in {calls[s].rows, <<>>}
          /\ d.op # "idle" => calls[s].op # "idle" /\ d.key = calls[s].key
      BY <2>2
    <2>5. CallsKeep /\ CallsAsk
      BY <2>2, <2>3, <2>4, OneKeeps
    <2>. QED BY <2>3, <2>5 DEF ShowsRead
  <1>7. ASSUME NEW s \in Slot, Expire(s) PROVE CallsKeep /\ CallsAsk /\ ShowsRead /\ ui'.key = ui.key
    <2>1. \A t \in Slot : calls'[t].rows = <<>> /\ calls'[t].op = "idle"
      BY <1>7 DEF Expire, NoCall
    <2>2. ui'.rows = ui.rows /\ ui'.key = ui.key
      BY <1>5, <1>7 DEF Expire, UiRecord
    <2>. QED BY <2>1, <2>2 DEF CallsKeep, CallsAsk, Asks, ShowsRead
  <1>8. ASSUME NEW r, calls' = Outdated(calls, r), ui' = ui
        PROVE  CallsKeep /\ CallsAsk /\ ShowsRead /\ ui'.key = ui.key
    <2>1. \A t \in Slot : /\ calls'[t].op = calls[t].op /\ calls'[t].key = calls[t].key
                         /\ calls'[t].rows = calls[t].rows
      BY <1>5, <1>8, OutdatedIs
    <2>. QED BY <1>8, <2>1 DEF CallsKeep, CallsAsk, Asks, ShowsRead
  <1>9. CASE (\E r \in Row : Elsewhere(r)) \/ \E r \in Row, p \in Spot : Move(r, p)
    BY <1>2, <1>8, <1>9 DEF Elsewhere, Move
  <1>10. ASSUME NEW k \in Key, Select(k)
         PROVE  /\ Real(ui.rows)' /\ \A t \in Slot : Real(calls[t].rows)'
                /\ CallsAsk /\ ui'.key \in Key'
    <2>1. PICK u : u = [ui EXCEPT !.loading = TRUE]
      OBVIOUS
    <2>2. u \in UiRecord /\ u.rows = ui.rows /\ k \in Keys
      BY <1>5, <2>1 DEF UiRecord, Key, Keys
    <2>3. Effect(u, k, calls)
      BY <1>10, <2>1 DEF Select
    <2>4. CallsKeep /\ CallsAsk /\ ui'.key = k /\ ui'.rows = u.rows
      BY <2>2, <2>3, EffectKeeps
    <2>5. ShowsRead
      BY <2>2, <2>4 DEF ShowsRead
    <2>6. k \in Key'
      BY KeyStays
    <2>. QED BY <2>4, <2>5, <2>6, NothingRead
  <1>11. CASE Renew
    <2>1. PICK k \in Keys : k = ui.key
      BY <1>5 DEF UiRecord
    <2>2. kind.spins \in BOOLEAN /\ ui.loading \in BOOLEAN
      BY <1>5 DEF IInv, Types, UiRecord, Sound, KindRecord
    <2>3. PICK b \in BOOLEAN : b <=> ui.loading \/ kind.spins
      OBVIOUS
    <2>4. PICK u : u = [ui EXCEPT !.loading = b]
      OBVIOUS
    <2>5. u \in UiRecord /\ u.rows = ui.rows
      BY <1>5, <2>4 DEF UiRecord
    <2>6. u = [ui EXCEPT !.loading = ui.loading \/ kind.spins]
      BY <1>5, <2>2, <2>3, <2>4
    <2>7. Effect(u, k, calls)
      BY <1>11, <2>1, <2>6 DEF Renew
    <2>8. CallsKeep /\ CallsAsk /\ ui'.key = k /\ ui'.rows = u.rows
      BY <2>5, <2>7, EffectKeeps
    <2>9. ShowsRead
      BY <2>5, <2>8 DEF ShowsRead
    <2>. QED BY <1>2, <2>1, <2>8, <2>9
  <1>12. CASE Refresh \/ More \/ \E i \in 1..Len(ui.rows) : Act(i)
    BY <1>2, <1>12, RefreshKeeps, MoreKeeps, ActKeeps
  <1>13. CASE Approve \/ UNCHANGED vars
    <2>1. ui' = ui /\ calls' = calls
      BY <1>13 DEF Approve, vars
    <2>2. CallsKeep /\ CallsAsk /\ ShowsRead /\ ui'.key = ui.key
      BY <2>1 DEF CallsKeep, CallsAsk, Asks, ShowsRead
    <2>. QED BY <1>2, <2>2
  <1>. QED BY <1>2, <1>3, <1>4, <1>6, <1>7, <1>9, <1>10, <1>11, <1>12, <1>13 DEF Next

LEMMA IncidentsCounted ==
  ASSUME RealInv, [Next]_vars
  PROVE  incidents' \in 0..MaxIncidents
  <1>1. incidents \in 0..MaxIncidents /\ MaxIncidents \in Nat
    BY BoundAssumption, Zenon DEF RealInv
  <1>2. \/ incidents' = incidents
        \/ incidents < MaxIncidents /\ incidents' = incidents + 1
    <2>1. ASSUME NEW s \in Slot, Answer(s) \/ Deliver(s) \/ Expire(s) PROVE incidents' = incidents
      BY <2>1 DEF Answer, Deliver, Expire
    <2>2. ASSUME NEW i, Act(i) PROVE incidents' = incidents
      BY <2>2 DEF Act
    <2>3. CASE Approve \/ Refresh \/ More \/ UNCHANGED vars
      BY <2>3 DEF Approve, Refresh, More, vars
    <2>4. ASSUME NEW s \in Slot, Fail(s) PROVE incidents < MaxIncidents /\ incidents' = incidents + 1
      BY <2>4 DEF Fail
    <2>5. ASSUME NEW r, Elsewhere(r) PROVE incidents < MaxIncidents /\ incidents' = incidents + 1
      BY <2>5 DEF Elsewhere
    <2>6. ASSUME NEW r, NEW p, Move(r, p) PROVE incidents < MaxIncidents /\ incidents' = incidents + 1
      BY <2>6 DEF Move
    <2>7. ASSUME NEW k, Select(k) PROVE incidents < MaxIncidents /\ incidents' = incidents + 1
      BY <2>7 DEF Select
    <2>8. CASE Renew
      BY <2>8 DEF Renew
    <2>. QED BY <2>1, <2>2, <2>3, <2>4, <2>5, <2>6, <2>7, <2>8 DEF Next
  <1>. QED BY <1>1, <1>2

LEMMA InitReal == Init => RealInv
  <1>. SUFFICES ASSUME Init PROVE RealInv
    OBVIOUS
  <1>1. kind \in {KindOf[p] : p \in Page} /\ incidents = 0
    BY DEF Init
  <1>2. db \in [Row -> [st : Status, place : Spot]]
    <2>1. PICK p \in Spot : p = CHOOSE q \in Spot : TRUE
      BY SpotAssumption
    <2>2. db = [r \in Row |-> [st |-> IF \E q \in Row : q > r THEN "open" ELSE "none",
                               place |-> p]]
      BY <2>1 DEF Init
    <2>. QED BY <2>2 DEF Status
  <1>3. PICK k \in Key, me \in {TRUE, FALSE, account} :
          /\ ui = [open |-> TRUE, key |-> k, rows |-> <<>>, of |-> k, next |-> {},
                   loading |-> TRUE, more |-> FALSE, busy |-> None, me |-> me]
          /\ calls = With([s \in Slot |-> NoCall], Load(k))
    BY DEF Init
  <1>4. ui.key \in Key /\ ui.rows = <<>>
    BY <1>3
  <1>5. PICK cs, c : cs = [s \in Slot |-> NoCall] /\ c = Load(k)
    OBVIOUS
  <1>6. c \in CallRecord /\ c.rows = <<>> /\ c.key = k
    <2>1. k \in Keys
      BY DEF Key, Keys
    <2>. QED BY <1>5, <2>1, LoadTyped
  <1>7. /\ cs \in [Slot -> CallRecord] /\ Room(cs)
        /\ \A s \in Slot : cs[s].rows = <<>> /\ cs[s].op = "idle"
    <2>1. NoCall.rows = <<>>
      BY DEF NoCall
    <2>2. cs \in [Slot -> CallRecord] /\ \A s \in Slot : cs[s].rows = <<>> /\ cs[s].op = "idle"
      BY <1>5, <2>1, NoCallTyped
    <2>3. InFlight(cs) = {}
      BY <2>2 DEF InFlight
    <2>4. 1 \in Slot
      BY BoundAssumption DEF Slot
    <2>. QED BY <2>2, <2>3, <2>4 DEF Room
  <1>8. \A t \in Slot :
          /\ With(cs, c)[t].rows \in {cs[t].rows, <<>>}
          /\ \/ With(cs, c)[t].key = c.key
             \/ With(cs, c)[t].op = cs[t].op /\ With(cs, c)[t].key = cs[t].key
    BY <1>6, <1>7, WithKeeps
  <1>9. \A t \in Slot : calls[t].rows = <<>> /\ (calls[t].op # "idle" => calls[t].key = k)
    BY <1>3, <1>5, <1>6, <1>7, <1>8
  <1>10. Real(ui.rows) /\ \A t \in Slot : Real(calls[t].rows)
    BY <1>4, <1>9 DEF Real
  <1>11. 0 \in 0..MaxIncidents
    BY BoundAssumption
  <1>. QED BY <1>1, <1>2, <1>4, <1>9, <1>10, <1>11, Zenon DEF RealInv

LEMMA NextReal ==
  ASSUME IInv, RealInv, [Next]_vars
  PROVE  RealInv'
  <1>1. Grows /\ db' \in [Row -> [st : Status, place : Spot]]
    BY TableStep
  <1>2. kind' \in {KindOf[p] : p \in Page}
    BY <1>1, Zenon DEF Grows, RealInv
  <1>3. /\ Real(ui.rows)' /\ \A t \in Slot : Real(calls[t].rows)'
        /\ CallsAsk /\ ui'.key \in Key'
    BY <1>1, StepReads
  <1>4. \A t \in Slot : calls'[t].op # "idle" => calls'[t].key \in Key'
    BY <1>1, <1>3, KeysStay
  <1>5. incidents' \in 0..MaxIncidents
    BY IncidentsCounted
  <1>. QED BY <1>1, <1>2, <1>3, <1>4, <1>5, Zenon DEF RealInv

LEMMA ItemsTyped == ASSUME NEW rows \in Seq(ItemRead) PROVE rows \in Seq(ItemType)
  <1>1. ItemRead \subseteq ItemType
    BY DEF ItemRead
  <1>. QED BY <1>1

\* Every state is typed: what is open and selected is there, and no row is shown or on its
\* way to the page that the table does not have.
THEOREM TypeCorrect == Spec => []TypeOK
  <1>1. RealInv /\ IInv /\ [Next]_vars => RealInv'
    BY NextReal
  <1>2. ASSUME IInv, RealInv PROVE TypeOK
    <2>1. /\ ui \in UiRecord /\ ui.rows \in Seq(ItemRead) /\ ui.next \in SUBSET Cursors
          /\ ui.busy \in Row \union {None} /\ account \in BOOLEAN
      BY <1>2 DEF IInv, Types, UiRecord
    <2>2. ui.open \in BOOLEAN /\ ui.loading \in BOOLEAN /\ ui.more \in BOOLEAN /\ ui.me \in BOOLEAN
      BY <2>1 DEF UiRecord
    <2>3. {ui.open, ui.loading, ui.more, ui.me} \subseteq BOOLEAN
      BY <2>2, Zenon
    <2>4. ui.rows \in Seq(ItemType)
      BY <2>1, ItemsTyped
    <2>5. \A i \in 1..Len(ui.rows) : db[ui.rows[i].id].st # "none"
      <3>1. Real(ui.rows)
        BY <1>2, Zenon DEF RealInv
      <3>. QED BY <3>1 DEF Real
    <2>6. ASSUME NEW s \in Slot
          PROVE  calls[s].rows \in Seq(ItemType) /\ calls[s].next \subseteq Stamped \union Placed
      <3>1. calls[s].rows \in Seq(ItemRead) /\ calls[s].next \in SUBSET Cursors
        BY <1>2 DEF IInv, Types, CallRecord
      <3>. QED BY <3>1, ItemsTyped DEF Cursors
    <2>7. ui.next \subseteq Stamped \union Placed
      BY <2>1 DEF Cursors
    <2>8. /\ kind \in {KindOf[p] : p \in Page} /\ ui.key \in Key
          /\ db \in [Row -> [st : Status, place : Spot]] /\ incidents \in 0..MaxIncidents
      BY <1>2, Zenon DEF RealInv
    <2>. QED BY <2>1, <2>3, <2>4, <2>5, <2>6, <2>7, <2>8, Zenon DEF TypeOK
  <1>. QED BY <1>1, <1>2, InitReal, Invariant, PTL DEF Spec
=============================================================================
