------------------------------- MODULE Keyset -------------------------------
(***************************************************************************)
(* The lists that the API serves page by page: a row's position, the order *)
(* of the list, the cursor made of a page's last row and the condition by  *)
(* which the next page begins.  Two families of lists exist: by the time a *)
(* row was created (users and audit events for admins), and by nearness    *)
(* (listings for a jeweller, jewellers for a seller).                      *)
(***************************************************************************)
EXTENDS Integers, Sequences, FiniteSets

CONSTANTS Tick,     \* microseconds, a timestamp's unit, in a millisecond, a Date's
          Radius    \* radiusKm

ASSUME TickAssumption == Tick \in Nat \ {0}
ASSUME RadiusAssumption == Radius \in Nat

Stamped == [at : Nat, id : Int]
Place == [far : Nat, unknown : BOOLEAN, city : BOOLEAN, state : BOOLEAN]
Placed == [rank : 1..4, far : Nat, unknown : BOOLEAN, id : Int]

-----------------------------------------------------------------------------
(* By time: ORDER BY created_at DESC, id DESC                              *)

Newer(a, b) == a.at > b.at \/ (a.at = b.at /\ a.id > b.id)

\* The row's created_at is read as a Date, which has no microseconds.
StampCursor(a) == [at |-> a.at - (a.at % Tick), id |-> a.id]

\* (created_at, id) < cursor
PastStamp(a, c) == a.at < c.at \/ (a.at = c.at /\ a.id < c.id)

-----------------------------------------------------------------------------
(* By nearness: ORDER BY match_rank, distance NULLS LAST, id               *)

\* match_rank; the distance is unknown when a coordinate is.
MatchRank(p) ==
  CASE ~p.unknown /\ p.far <= Radius -> 1
    [] p.city /\ p.state -> 2
    [] p.state -> 3
    [] OTHER -> 4

Position(p, i) ==
  [rank |-> MatchRank(p), far |-> IF p.unknown THEN 0 ELSE p.far,
   unknown |-> p.unknown, id |-> i]

Nearer(a, b) ==
  \/ a.rank < b.rank
  \/ /\ a.rank = b.rank
     /\ \/ ~a.unknown /\ b.unknown
        \/ ~a.unknown /\ ~b.unknown /\ a.far < b.far
        \/ a.unknown = b.unknown /\ a.far = b.far /\ a.id < b.id

\* MUTANT: rows at an unknown distance are not past a known one.
PastPlaceKnown(a, c) ==
  \/ a.rank > c.rank
  \/ /\ a.rank = c.rank
     /\ \/ ~c.unknown /\ ~a.unknown
           /\ (a.far > c.far \/ (a.far = c.far /\ a.id > c.id))
        \/ c.unknown /\ a.unknown /\ a.id > c.id

\* The WHERE clause on cursor c: a comparison with a NULL distance is not true.
PastPlace(a, c) ==
  \/ a.rank > c.rank
  \/ /\ a.rank = c.rank
     /\ \/ /\ ~c.unknown
           /\ \/ ~a.unknown /\ a.far > c.far
              \/ ~a.unknown /\ a.far = c.far /\ a.id > c.id
              \/ a.unknown
        \/ c.unknown /\ a.unknown /\ a.id > c.id

\* buildCursor
PlaceCursor(a) ==
  [rank |-> a.rank, far |-> a.far, unknown |-> a.unknown, id |-> a.id]

-----------------------------------------------------------------------------
(* Pages                                                                   *)

\* The first rows of S, at most limit of them, in order.
FirstRows(S, Before(_, _), limit) ==
  LET n == Cardinality(S)
  IN  [i \in 1..(IF limit < n THEN limit ELSE n) |->
         CHOOSE a \in S : Cardinality({b \in S : Before(b, a)}) = i - 1]

\* One row more than the page is read to know whether there is another page.
StampPage(S, limit) ==
  LET rows == FirstRows(S, Newer, limit)
  IN  [rows |-> rows,
       next |-> IF Cardinality(S) > limit THEN {StampCursor(rows[limit])} ELSE {}]

\* A full page has a cursor, whether or not a row follows.
PlacePage(S, limit) ==
  LET rows == FirstRows(S, Nearer, limit)
  IN  [rows |-> rows,
       next |-> IF Len(rows) = limit THEN {PlaceCursor(rows[limit])} ELSE {}]
=============================================================================
