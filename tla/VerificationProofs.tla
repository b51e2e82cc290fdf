------------------------- MODULE VerificationProofs -------------------------
(***************************************************************************)
(* Proofs about Verification, for any users, documents and requests.       *)
(***************************************************************************)
EXTENDS Verification, TLAPS

----------------------------------------------------------------------------
(* Rows of different kinds are different, and so are those of one kind.    *)

LEMMA RowsDiffer ==
  /\ \A s, t : SubmissionRow(s) = SubmissionRow(t) => s = t
  /\ \A u, v, k, l : PendingKey(u, k) = PendingKey(v, l) => u = v /\ k = l
  /\ \A k, l, d, e : ApprovedKey(k, d) = ApprovedKey(l, e) => k = l /\ d = e
  /\ \A t, u, k : SubmissionRow(t) # PendingKey(u, k)
  /\ \A t, d, k : SubmissionRow(t) # ApprovedKey(k, d)
  /\ \A t, u : SubmissionRow(t) # UserRow(u)
  /\ \A u, k, l, d : PendingKey(u, k) # ApprovedKey(l, d)
  /\ \A u, v, k : PendingKey(u, k) # UserRow(v)
  /\ \A u, k, d : ApprovedKey(k, d) # UserRow(u)
  BY DEF SubmissionRow, PendingKey, ApprovedKey, UserRow

LEMMA InitInv == Init => IInv
  BY NoneIsNoTime DEF Init, IInv, ReadsHold, TypeOK, SubmitState, ReviewState, RowsMean, ApprovedIdentityUnique,
       PendingAgrees, GateSound, Idle, Recorded, Of, PendingOf, Approved, UserStatus, Reviews,
       Kind, Transaction

\* A step that leaves the tables alone and changes one request keeps the
\* invariant if what it says of that request is true afterwards.
LEMMA OneRequest ==
  ASSUME IInv, NEW r \in Request, UNCHANGED tables,
         tx' \in [Request -> Transaction \cup {Idle}],
         \A q \in Request \ {r} : tx'[q] = tx[q],
         \A q \in Request \ {r} : tx'[r].rows \cap tx[q].rows = {},
         SubmitState(r)', ReviewState(r)', RowsMean(r)'
  PROVE  IInv'
  <1>1. submission' = submission /\ status' = status
    BY DEF tables
  <1>2. TypeOK'
    BY <1>1 DEF IInv, ReadsHold, TypeOK
  <1>3. ASSUME NEW q \in Request PROVE (SubmitState(q) /\ ReviewState(q) /\ RowsMean(q))'
    <2>1. CASE q = r
      BY <2>1
    <2>2. CASE q # r
      <3>1. tx'[q] = tx[q]
        BY <2>2
      <3>2. SubmitState(q) /\ ReviewState(q) /\ RowsMean(q)
        BY DEF IInv, ReadsHold
      <3>3. ReviewState(q)' /\ RowsMean(q)'
        BY <1>1, <3>1, <3>2 DEF ReviewState, RowsMean, Recorded, PendingOf, Of
      <3>4. SubmitState(q)'
        BY <1>1, <2>2, <3>1, <3>2 DEF SubmitState, Approved, Of, Recorded
      <3>. QED BY <3>3, <3>4
    <2>. QED BY <2>1, <2>2
  <1>4. (ApprovedIdentityUnique /\ PendingAgrees /\ GateSound)'
    BY <1>1 DEF IInv, ReadsHold, ApprovedIdentityUnique, PendingAgrees, GateSound, Approved, PendingOf, Of, Recorded
  <1>. QED BY <1>2, <1>3, <1>4 DEF IInv, ReadsHold

LEMMA FailInv == ASSUME IInv, NEW r \in Request, Fail(r) PROVE IInv'
  <1>1. tx' = [tx EXCEPT ![r] = Idle] /\ UNCHANGED tables
    BY DEF Fail, End
  <1>2. tx'[r] = Idle /\ \A q \in Request \ {r} : tx'[q] = tx[q]
    BY <1>1 DEF IInv, ReadsHold, TypeOK
  <1>3. tx' \in [Request -> Transaction \cup {Idle}]
    BY <1>1 DEF IInv, ReadsHold, TypeOK
  <1>4. SubmitState(r)' /\ ReviewState(r)' /\ RowsMean(r)'
    BY <1>2 DEF SubmitState, ReviewState, RowsMean, Idle, Reviews
  <1>. QED BY <1>1, <1>2, <1>3, <1>4, OneRequest DEF Idle

LEMMA OpenTyped ==
  ASSUME IInv, NEW r \in Request, tx[r].op # "idle"
  PROVE  tx[r] \in Transaction
  BY DEF IInv, ReadsHold, TypeOK, Idle

\* The steps that only move pc, or take rows, of an open request.
LEMMA MoveInv ==
  ASSUME IInv, NEW r \in Request, tx[r].op # "idle", UNCHANGED tables,
         NEW pc \in {"findLatest", "findPending", "insert", "identity", "updateUser", "commit"},
         NEW rows \in SUBSET Row,
         \A q \in Request \ {r} : rows \cap tx[q].rows = {},
         tx' = [tx EXCEPT ![r].rows = tx[r].rows \cup rows, ![r].pc = pc],
         SubmitState(r)', ReviewState(r)', RowsMean(r)'
  PROVE  IInv'
  <1>1. tx[r] \in Transaction
    BY OpenTyped
  <1>2. tx \in [Request -> Transaction \cup {Idle}]
    BY DEF IInv, ReadsHold, TypeOK
  <1>3. tx' = [tx EXCEPT ![r] = [tx[r] EXCEPT !.rows = tx[r].rows \cup rows, !.pc = pc]]
    OBVIOUS
  <1>4. [tx[r] EXCEPT !.rows = tx[r].rows \cup rows, !.pc = pc] \in Transaction
    BY <1>1 DEF Transaction
  <1>5. tx' \in [Request -> Transaction \cup {Idle}] /\ \A q \in Request \ {r} : tx'[q] = tx[q]
    BY <1>2, <1>3, <1>4
  <1>6. tx'[r].rows = tx[r].rows \cup rows
    BY <1>1, <1>2, <1>3 DEF Transaction
  <1>7. \A q \in Request \ {r} : tx'[r].rows \cap tx[q].rows = {}
    BY <1>6 DEF IInv, ReadsHold, TypeOK
  <1>. QED BY <1>5, <1>7, OneRequest

LEMMA GotoInv ==
  ASSUME IInv, NEW r \in Request, tx[r].op # "idle",
         NEW pc \in {"findLatest", "findPending", "insert", "identity", "updateUser", "commit"},
         Goto(r, pc), SubmitState(r)', ReviewState(r)'
  PROVE  IInv'
  <1>1. tx[r] \in Transaction /\ tx \in [Request -> Transaction \cup {Idle}]
    BY OpenTyped DEF IInv, ReadsHold, TypeOK
  <1>2. /\ tx' = [tx EXCEPT ![r] = [tx[r] EXCEPT !.pc = pc]]
        /\ submission' = submission /\ status' = status
    BY DEF Goto, tables
  <1>3. [tx[r] EXCEPT !.pc = pc] \in Transaction
    BY <1>1 DEF Transaction
  <1>4. /\ tx' \in [Request -> Transaction \cup {Idle}]
        /\ \A q \in Request \ {r} : tx'[q] = tx[q]
        /\ tx'[r].rows = tx[r].rows
    BY <1>1, <1>2, <1>3 DEF Transaction
  <1>5. RowsMean(r)'
    BY <1>2, <1>4 DEF IInv, ReadsHold, RowsMean, Recorded, PendingOf, Of
  <1>6. \A q \in Request \ {r} : tx'[r].rows \cap tx[q].rows = {}
    BY <1>4 DEF IInv, ReadsHold, TypeOK
  <1>. QED BY <1>2, <1>4, <1>5, <1>6, OneRequest DEF tables

LEMMA TakeInv ==
  ASSUME IInv, NEW r \in Request, tx[r].op # "idle",
         NEW pc \in {"identity", "updateUser", "commit"}, NEW row \in Row, Free(r, row),
         Take(r, row, pc), SubmitState(r)', ReviewState(r)', RowsMean(r)'
  PROVE  IInv'
  <1>. DEFINE rows == {row}
  <1>1. tx' = [tx EXCEPT ![r].rows = tx[r].rows \cup rows, ![r].pc = pc] /\ UNCHANGED tables
    BY DEF Take
  <1>2. \A q \in Request \ {r} : rows \cap tx[q].rows = {}
    BY DEF Free
  <1>3. rows \in SUBSET Row
    OBVIOUS
  <1>4. pc \in {"findLatest", "findPending", "insert", "identity", "updateUser", "commit"}
    OBVIOUS
  <1>. HIDE DEF rows
  <1>. QED BY <1>1, <1>2, <1>3, <1>4, MoveInv

\* What holds of a request that moved pc and took rows.
LEMMA Moved ==
  ASSUME IInv, NEW r \in Request, tx[r].op # "idle", NEW rows \in SUBSET Row,
         NEW pc \in {"findLatest", "findPending", "insert", "identity", "updateUser", "commit"},
         tx' = [tx EXCEPT ![r].rows = tx[r].rows \cup rows, ![r].pc = pc]
  PROVE  /\ tx'[r].op = tx[r].op /\ tx'[r].pc = pc /\ tx'[r].time = tx[r].time
         /\ tx'[r].form = tx[r].form /\ tx'[r].rows = tx[r].rows \cup rows
         /\ \A q \in Request \ {r} : tx'[q] = tx[q]
  <1>1. tx[r] \in Transaction /\ tx \in [Request -> Transaction \cup {Idle}]
    BY OpenTyped DEF IInv, ReadsHold, TypeOK
  <1>2. tx' = [tx EXCEPT ![r] = [tx[r] EXCEPT !.rows = tx[r].rows \cup rows, !.pc = pc]]
    OBVIOUS
  <1>. QED BY <1>1, <1>2 DEF Transaction

\* Rows newly taken mean what they should.
LEMMA RowsMoves ==
  ASSUME IInv, NEW r \in Request, tx[r].op # "idle", NEW rows \in SUBSET Row,
         NEW pc \in {"findLatest", "findPending", "insert", "identity", "updateUser", "commit"},
         UNCHANGED tables,
         tx' = [tx EXCEPT ![r].rows = tx[r].rows \cup rows, ![r].pc = pc],
         \A t \in Time : SubmissionRow(t) \in rows =>
           t \in Recorded /\ submission[t].status = "PENDING",
         \A u \in User, k \in Kind : PendingKey(u, k) \in rows => PendingOf(u, k) = {},
         \A k \in Kind, d \in Doc : ApprovedKey(k, d) \in rows =>
           \A t \in Recorded : submission[t].status = "APPROVED" /\ submission[t].kind = k
                               => d \notin submission[t].docs
  PROVE  RowsMean(r)'
  <1>1. tx'[r].rows = tx[r].rows \cup rows
    BY Moved
  <1>2. submission' = submission
    BY DEF tables
  <1>3. RowsMean(r)
    BY DEF IInv, ReadsHold
  <1>4. Recorded' = Recorded /\ \A u, k : PendingOf(u, k)' = PendingOf(u, k)
    BY <1>2 DEF Recorded, PendingOf, Of
  <1>5. \A t \in Time : (SubmissionRow(t) \in tx[r].rows)' =>
          (t \in Recorded /\ submission[t].status = "PENDING")'
    BY <1>1, <1>2, <1>3, <1>4 DEF RowsMean, SubmissionRow
  <1>6. \A u \in User, k \in Kind : (PendingKey(u, k) \in tx[r].rows)' => PendingOf(u, k)' = {}
    BY <1>1, <1>3, <1>4 DEF RowsMean, PendingKey
  <1>7. \A k \in Kind, d \in Doc : (ApprovedKey(k, d) \in tx[r].rows)' =>
          (\A t \in Recorded : submission[t].status = "APPROVED" /\ submission[t].kind = k
                               => d \notin submission[t].docs)'
    BY <1>1, <1>2, <1>3, <1>4 DEF RowsMean, ApprovedKey
  <1>. QED BY <1>4, <1>5, <1>6, <1>7 DEF RowsMean

----------------------------------------------------------------------------
(* Submissions.                                                            *)

LEMMA SubmitInv ==
  ASSUME IInv, NEW r \in Request, NEW u \in User, NEW k \in Kind, NEW docs \in SUBSET Doc,
         Submit(r, u, k, docs)
  PROVE  IInv'
  <1>. DEFINE form == [user |-> u, kind |-> k, docs |-> docs, status |-> "PENDING"]
              x == [op |-> "submit", pc |-> "begin", time |-> None, form |-> form, rows |-> {}]
  <1>1. tx' = [tx EXCEPT ![r] = x] /\ submission' = submission /\ status' = status
    BY DEF Submit, Begin, tables
  <1>2. form \in Submission
    BY DEF Submission
  <1>3. x \in Transaction
    BY <1>2 DEF Transaction
  <1>4. tx \in [Request -> Transaction \cup {Idle}]
    BY DEF IInv, ReadsHold, TypeOK
  <1>. HIDE DEF x
  <1>5. /\ tx' \in [Request -> Transaction \cup {Idle}]
        /\ \A q \in Request \ {r} : tx'[q] = tx[q]
        /\ tx'[r] = x
    BY <1>1, <1>3, <1>4
  <1>. USE DEF x
  <1>6. k = "business" => Approved(u, "kyc")
    BY DEF Submit, IInv, ReadsHold, GateSound, Kind
  <1>7. SubmitState(r)'
    BY <1>1, <1>5, <1>6, NoneIsNoTime DEF SubmitState, Approved, Of, Recorded, Time
  <1>8. ReviewState(r)' /\ RowsMean(r)'
    BY <1>5 DEF ReviewState, Reviews, RowsMean
  <1>. QED BY <1>1, <1>5, <1>7, <1>8, OneRequest DEF tables

LEMMA SubmitBeginInv == ASSUME IInv, NEW r \in Request, SubmitBegin(r) PROVE IInv'
  <1>1. CASE Later = {} /\ Fail(r)
    BY <1>1, FailInv
  <1>2. ASSUME NEW now \in Later,
               tx' = [tx EXCEPT ![r].time = now, ![r].pc = "findLatest"] /\ UNCHANGED tables
        PROVE  IInv'
    <2>1. tx[r] \in Transaction /\ tx \in [Request -> Transaction \cup {Idle}]
      BY OpenTyped DEF SubmitBegin, At, IInv, ReadsHold, TypeOK
    <2>2. /\ tx' = [tx EXCEPT ![r] = [tx[r] EXCEPT !.time = now, !.pc = "findLatest"]]
          /\ submission' = submission /\ status' = status
      BY <1>2 DEF tables
    <2>3. now \in Time /\ \A s \in Recorded \cup Began : s < now
      BY DEF Later
    <2>4. [tx[r] EXCEPT !.time = now, !.pc = "findLatest"] \in Transaction
      BY <2>1, <2>3 DEF Transaction
    <2>5. /\ tx' \in [Request -> Transaction \cup {Idle}]
          /\ \A q \in Request \ {r} : tx'[q] = tx[q]
          /\ tx'[r] = [tx[r] EXCEPT !.time = now, !.pc = "findLatest"]
      BY <2>1, <2>2, <2>4
    <2>6. now \notin Recorded /\ \A q \in Request : tx[q].time # now
      BY <2>3 DEF Began, Time, Recorded
    <2>7. SubmitState(r)
      BY DEF IInv, ReadsHold
    <2>8. tx[r].op = "submit"
      BY DEF SubmitBegin, At
    <2>9. /\ tx'[r].op = "submit" /\ tx'[r].pc = "findLatest" /\ tx'[r].time = now
          /\ tx'[r].form = tx[r].form /\ tx'[r].rows = tx[r].rows
      BY <2>1, <2>5, <2>8 DEF Transaction
    <2>10. SubmitState(r)'
      BY <2>2, <2>3, <2>5, <2>6, <2>7, <2>8, <2>9 DEF SubmitState, Approved, Of, Recorded
    <2>11. ReviewState(r)' /\ RowsMean(r)'
      BY <2>2, <2>9 DEF IInv, ReadsHold, ReviewState, Reviews, RowsMean, Recorded, PendingOf, Of
    <2>12. \A q \in Request \ {r} : tx'[r].rows \cap tx[q].rows = {}
      BY <2>9 DEF IInv, ReadsHold, TypeOK
    <2>. QED BY <2>2, <2>5, <2>10, <2>11, <2>12, OneRequest DEF tables
  <1>. QED BY <1>1, <1>2 DEF SubmitBegin

\* A submission whose pc moves on, all else being equal, keeps its promises.
LEMMA SubmitMoves ==
  ASSUME IInv, NEW r \in Request, tx[r].op = "submit", tx[r].pc # "begin",
         NEW rows \in SUBSET Row,
         NEW pc \in {"findPending", "insert", "updateUser", "commit"},
         UNCHANGED tables,
         tx' = [tx EXCEPT ![r].rows = tx[r].rows \cup rows, ![r].pc = pc],
         pc \in {"updateUser", "commit"} =>
           PendingKey(tx[r].form.user, tx[r].form.kind) \in tx[r].rows \cup rows
  PROVE  SubmitState(r)' /\ ReviewState(r)'
  <1>1. submission' = submission
    BY DEF tables
  <1>2. /\ tx'[r].op = "submit" /\ tx'[r].pc = pc /\ tx'[r].time = tx[r].time
        /\ tx'[r].form = tx[r].form /\ tx'[r].rows = tx[r].rows \cup rows
        /\ \A q \in Request \ {r} : tx'[q] = tx[q]
    BY Moved
  <1>3. SubmitState(r)
    BY DEF IInv, ReadsHold
  <1>. QED BY <1>1, <1>2, <1>3 DEF SubmitState, ReviewState, Reviews, Approved, Of, Recorded

\* So does a review, which keeps its submission and its documents' keys.
LEMMA ReviewMoves ==
  ASSUME IInv, NEW r \in Request, tx[r].op \in Reviews,
         NEW rows \in SUBSET Row, NEW pc \in {"identity", "updateUser", "commit"},
         UNCHANGED tables,
         tx' = [tx EXCEPT ![r].rows = tx[r].rows \cup rows, ![r].pc = pc],
         SubmissionRow(tx[r].time) \in tx[r].rows \cup rows,
         tx[r].op = "approve" /\ pc \in {"updateUser", "commit"} =>
           \A d \in tx[r].form.docs : ApprovedKey(tx[r].form.kind, d) \in tx[r].rows \cup rows
  PROVE  SubmitState(r)' /\ ReviewState(r)'
  <1>1. submission' = submission
    BY DEF tables
  <1>2. /\ tx'[r].op = tx[r].op /\ tx'[r].pc = pc /\ tx'[r].time = tx[r].time
        /\ tx'[r].form = tx[r].form /\ tx'[r].rows = tx[r].rows \cup rows
    BY Moved DEF Reviews
  <1>3. ReviewState(r)
    BY DEF IInv, ReadsHold
  <1>. QED BY <1>1, <1>2, <1>3 DEF SubmitState, ReviewState, Reviews, Recorded

LEMMA SubmitFindInv ==
  ASSUME IInv, NEW r \in Request, SubmitFindLatest(r) \/ SubmitFindPending(r)
  PROVE  IInv'
  <1>1. tx[r].op = "submit" /\ tx[r].pc # "begin"
    BY DEF SubmitFindLatest, SubmitFindPending, At
  <1>2. ASSUME NEW pc \in {"findPending", "insert"}, Goto(r, pc) PROVE IInv'
    <2>1. tx[r] \in Transaction /\ tx \in [Request -> Transaction \cup {Idle}]
      BY <1>1, OpenTyped DEF IInv, ReadsHold, TypeOK
    <2>. DEFINE rows == {}
    <2>2. tx' = [tx EXCEPT ![r].rows = tx[r].rows \cup rows, ![r].pc = pc] /\ UNCHANGED tables
      <3>1. tx' = [tx EXCEPT ![r].pc = pc] /\ UNCHANGED tables
        BY <1>2 DEF Goto
      <3>2. tx[r].rows \cup rows = tx[r].rows
        OBVIOUS
      <3>3. [tx EXCEPT ![r].rows = tx[r].rows, ![r].pc = pc] = [tx EXCEPT ![r].pc = pc]
        BY <2>1 DEF Transaction
      <3>. QED BY <3>1, <3>2, <3>3
    <2>3. rows \in SUBSET Row /\ pc \in {"findPending", "insert", "updateUser", "commit"}
          /\ ~(pc \in {"updateUser", "commit"})
      OBVIOUS
    <2>. HIDE DEF rows
    <2>4. SubmitState(r)' /\ ReviewState(r)'
      BY <1>1, <2>2, <2>3, SubmitMoves
    <2>. QED BY <1>1, <1>2, <2>4, GotoInv
  <1>. QED BY <1>2, FailInv DEF SubmitFindLatest, SubmitFindPending

LEMMA SubmitInsertInv == ASSUME IInv, NEW r \in Request, SubmitInsert(r) PROVE IInv'
  <1>. DEFINE u == tx[r].form.user
              k == tx[r].form.kind
              row == PendingKey(u, k)
              rows == {row}
  <1>1. tx[r].op = "submit" /\ tx[r].pc # "begin"
    BY DEF SubmitInsert, At
  <1>2. u \in User /\ k \in Kind
    BY <1>1, OpenTyped DEF Transaction, Submission
  <1>3. row \in Row /\ rows \in SUBSET Row
    BY <1>2 DEF Row
  <1>4. CASE PendingOf(u, k) = {} /\ Take(r, row, "updateUser")
    <2>1. Free(r, row)
      BY DEF SubmitInsert, At, Granted, Needs
    <2>2. tx' = [tx EXCEPT ![r].rows = tx[r].rows \cup rows, ![r].pc = "updateUser"]
          /\ UNCHANGED tables
      BY <1>4 DEF Take
    <2>3. PendingKey(u, k) \in tx[r].rows \cup rows
      OBVIOUS
    <2>4. /\ \A t \in Time : SubmissionRow(t) \notin rows
          /\ \A v \in User, l \in Kind : PendingKey(v, l) \in rows => PendingOf(v, l) = {}
          /\ \A l \in Kind, d \in Doc : ApprovedKey(l, d) \notin rows
      <3>. HIDE DEF u, k
      <3>. QED BY <1>4, RowsDiffer
    <2>. HIDE DEF rows, row
    <2>5. SubmitState(r)' /\ ReviewState(r)'
      BY <1>1, <1>3, <2>2, <2>3, SubmitMoves
    <2>6. RowsMean(r)'
      BY <1>1, <1>3, <2>2, <2>4, RowsMoves
    <2>. QED BY <1>1, <1>3, <1>4, <2>1, <2>5, <2>6, TakeInv
  <1>. QED BY <1>4, FailInv DEF SubmitInsert

----------------------------------------------------------------------------
(* Reviews.                                                                *)

LEMMA ReviewInv == ASSUME IInv, NEW r \in Request, NEW t \in Time, Review(r, t) PROVE IInv'
  <1>1. t \in Recorded /\ submission[t] \in Submission
    BY DEF Review, Recorded, IInv, ReadsHold, TypeOK
  <1>2. PICK op \in Reviews : Begin(r, op, "take", t, submission[t])
    BY DEF Review, Reviews
  <1>. DEFINE x == [op |-> op, pc |-> "take", time |-> t, form |-> submission[t], rows |-> {}]
  <1>3. tx' = [tx EXCEPT ![r] = x] /\ submission' = submission /\ status' = status
    BY <1>2 DEF Begin, tables
  <1>4. x \in Transaction
    BY <1>1, <1>2 DEF Transaction, Reviews
  <1>5. tx \in [Request -> Transaction \cup {Idle}]
    BY DEF IInv, ReadsHold, TypeOK
  <1>. HIDE DEF x
  <1>6. /\ tx' \in [Request -> Transaction \cup {Idle}]
        /\ \A q \in Request \ {r} : tx'[q] = tx[q]
        /\ tx'[r] = x
    BY <1>3, <1>4, <1>5
  <1>7. SubmitState(r)' /\ ReviewState(r)' /\ RowsMean(r)'
    BY <1>1, <1>2, <1>3, <1>6 DEF x, SubmitState, ReviewState, RowsMean, Reviews, Recorded
  <1>8. \A q \in Request \ {r} : tx'[r].rows \cap tx[q].rows = {}
    BY <1>6 DEF x
  <1>. QED BY <1>3, <1>6, <1>7, <1>8, OneRequest DEF tables

LEMMA ReviewTakeInv == ASSUME IInv, NEW r \in Request, ReviewTake(r) PROVE IInv'
  <1>. DEFINE t == tx[r].time
              row == SubmissionRow(t)
              rows == {row}
              pc == IF tx[r].op = "approve" THEN "identity" ELSE "updateUser"
  <1>1. tx[r].op \in Reviews /\ tx[r].op # "idle"
    BY DEF ReviewTake, Reviews
  <1>2. t \in Recorded /\ t \in Time
    BY <1>1 DEF IInv, ReadsHold, ReviewState, Recorded
  <1>3. row \in Row /\ rows \in SUBSET Row
    BY <1>2 DEF Row
  <1>4. /\ pc \in {"identity", "updateUser", "commit"}
        /\ pc \in {"findLatest", "findPending", "insert", "identity", "updateUser", "commit"}
        /\ ~(tx[r].op = "approve" /\ pc \in {"updateUser", "commit"})
    OBVIOUS
  <1>5. CASE submission[t].status = "PENDING" /\ Take(r, row, pc)
    <2>1. Free(r, row)
      BY DEF ReviewTake, Granted, Needs
    <2>2. tx' = [tx EXCEPT ![r].rows = tx[r].rows \cup rows, ![r].pc = pc] /\ UNCHANGED tables
      BY <1>5 DEF Take
    <2>3. SubmissionRow(tx[r].time) \in tx[r].rows \cup rows
      OBVIOUS
    <2>4. /\ \A s \in Time : SubmissionRow(s) \in rows =>
                s \in Recorded /\ submission[s].status = "PENDING"
          /\ \A v \in User, l \in Kind : PendingKey(v, l) \notin rows
          /\ \A l \in Kind, d \in Doc : ApprovedKey(l, d) \notin rows
      <3>. HIDE DEF t
      <3>. QED BY <1>2, <1>5, RowsDiffer
    <2>. HIDE DEF rows, row, pc
    <2>5. SubmitState(r)' /\ ReviewState(r)'
      BY <1>1, <1>3, <1>4, <2>2, <2>3, ReviewMoves
    <2>6. RowsMean(r)'
      BY <1>1, <1>3, <1>4, <2>2, <2>4, RowsMoves
    <2>. QED BY <1>1, <1>3, <1>4, <1>5, <2>1, <2>5, <2>6, TakeInv
  <1>. QED BY <1>5, FailInv DEF ReviewTake

LEMMA ApproveIdentityInv == ASSUME IInv, NEW r \in Request, ApproveIdentity(r) PROVE IInv'
  <1>. DEFINE form == tx[r].form
              keys == {ApprovedKey(form.kind, d) : d \in form.docs}
  <1>1. tx[r].op = "approve" /\ tx[r].op \in Reviews /\ tx[r].op # "idle" /\ tx[r].pc = "identity"
    BY DEF ApproveIdentity, At, Reviews
  <1>2. form.kind \in Kind /\ form.docs \in SUBSET Doc
    BY <1>1, OpenTyped DEF Transaction, Submission
  <1>3. keys \in SUBSET Row
    BY <1>2 DEF Row
  <1>5. Needs(r) = keys
    BY <1>1 DEF Needs
  <1>4. CASE /\ Twins(form) = {}
             /\ tx' = [tx EXCEPT ![r].rows = tx[r].rows \cup keys, ![r].pc = "updateUser"]
             /\ UNCHANGED tables
    <2>1. \A q \in Request \ {r} : keys \cap tx[q].rows = {}
      BY <1>5 DEF ApproveIdentity, Granted, Free
    <2>2. SubmissionRow(tx[r].time) \in tx[r].rows
      BY <1>1 DEF IInv, ReadsHold, ReviewState
    <2>3. \A d \in form.docs : ApprovedKey(form.kind, d) \in keys
      OBVIOUS
    <2>4. /\ \A s \in Time : SubmissionRow(s) \notin keys
          /\ \A v \in User, l \in Kind : PendingKey(v, l) \notin keys
          /\ \A l \in Kind, d \in Doc : ApprovedKey(l, d) \in keys =>
               l = form.kind /\ d \in form.docs
      <3>. HIDE DEF form
      <3>. QED BY RowsDiffer
    <2>5. \A l \in Kind, d \in Doc : ApprovedKey(l, d) \in keys =>
            \A s \in Recorded : submission[s].status = "APPROVED" /\ submission[s].kind = l
                                => d \notin submission[s].docs
      BY <1>4, <2>4 DEF Twins
    <2>. HIDE DEF keys
    <2>6. SubmitState(r)' /\ ReviewState(r)'
      BY <1>1, <1>3, <1>4, <2>2, <2>3, ReviewMoves
    <2>7. RowsMean(r)'
      BY <1>1, <1>3, <1>4, <2>4, <2>5, RowsMoves
    <2>. QED BY <1>1, <1>3, <1>4, <2>1, <2>6, <2>7, MoveInv
  <1>. QED BY <1>4, <1>5, FailInv DEF ApproveIdentity

LEMMA UpdateUserInv == ASSUME IInv, NEW r \in Request, UpdateUser(r) PROVE IInv'
  <1>. DEFINE row == UserRow(tx[r].form.user)
              rows == {row}
  <1>1. tx[r].pc = "updateUser" /\ tx[r].op # "idle" /\ tx[r] \in Transaction
    <2>1. tx[r].pc = "updateUser" /\ tx[r] # Idle
      BY DEF UpdateUser, Idle
    <2>2. tx[r] \in Transaction
      BY <2>1 DEF IInv, ReadsHold, TypeOK
    <2>. QED BY <2>1, <2>2 DEF Transaction
  <1>2. row \in Row /\ rows \in SUBSET Row
    BY <1>1 DEF Transaction, Submission, Row
  <1>3. /\ Free(r, row)
        /\ Take(r, row, "commit")
        /\ tx' = [tx EXCEPT ![r].rows = tx[r].rows \cup rows, ![r].pc = "commit"]
        /\ UNCHANGED tables
    BY DEF UpdateUser, Granted, Needs, Take
  <1>4. /\ \A s \in Time : SubmissionRow(s) \notin rows
        /\ \A v \in User, l \in Kind : PendingKey(v, l) \notin rows
        /\ \A l \in Kind, d \in Doc : ApprovedKey(l, d) \notin rows
    BY RowsDiffer
  <1>. HIDE DEF rows, row
  <1>5. RowsMean(r)'
    BY <1>1, <1>2, <1>3, <1>4, RowsMoves
  <1>6. CASE tx[r].op = "submit"
    <2>1. PendingKey(tx[r].form.user, tx[r].form.kind) \in tx[r].rows
      BY <1>1, <1>6 DEF IInv, ReadsHold, SubmitState
    <2>2. SubmitState(r)' /\ ReviewState(r)'
      BY <1>1, <1>2, <1>3, <1>6, <2>1, SubmitMoves
    <2>. QED BY <1>1, <1>2, <1>3, <1>5, <2>2, TakeInv
  <1>7. CASE tx[r].op \in Reviews
    <2>1. /\ SubmissionRow(tx[r].time) \in tx[r].rows
          /\ tx[r].op = "approve" =>
               \A d \in tx[r].form.docs : ApprovedKey(tx[r].form.kind, d) \in tx[r].rows
      BY <1>1, <1>7 DEF IInv, ReadsHold, ReviewState
    <2>2. SubmitState(r)' /\ ReviewState(r)'
      BY <1>1, <1>2, <1>3, <1>7, <2>1, ReviewMoves
    <2>. QED BY <1>1, <1>2, <1>3, <1>5, <2>2, TakeInv
  <1>. QED BY <1>1, <1>6, <1>7 DEF Transaction, Reviews

----------------------------------------------------------------------------
(* The commits, which write the tables.                                    *)

\* What a submission about to commit knows.
LEMMA SubmitReady ==
  ASSUME IInv, NEW r \in Request, CommitSubmit(r)
  PROVE  /\ tx[r].op = "submit" /\ tx[r].form \in Submission /\ tx[r].form.status = "PENDING"
         /\ tx[r].time \in Time \ Recorded
         /\ PendingOf(tx[r].form.user, tx[r].form.kind) = {}
         /\ \A q \in Request \ {r} :
              /\ PendingKey(tx[r].form.user, tx[r].form.kind) \notin tx[q].rows
              /\ tx[q].op = "submit" => tx[q].time # tx[r].time
         /\ tx[r].form.kind = "business" => Approved(tx[r].form.user, "kyc")
  <1>1. tx[r].op = "submit" /\ tx[r].pc = "commit"
    BY DEF CommitSubmit, At
  <1>2. tx[r] \in Transaction /\ tx[r].form \in Submission
    BY <1>1, OpenTyped DEF Transaction
  <1>3. SubmitState(r) /\ RowsMean(r)
    BY DEF IInv, ReadsHold
  <1>4. tx[r].form.user \in User /\ tx[r].form.kind \in Kind
    BY <1>2 DEF Submission
  <1>5. PendingKey(tx[r].form.user, tx[r].form.kind) \in tx[r].rows
    BY <1>1, <1>3 DEF SubmitState
  <1>6. PendingOf(tx[r].form.user, tx[r].form.kind) = {}
    BY <1>3, <1>4, <1>5 DEF RowsMean
  <1>7. \A q \in Request \ {r} : tx[q].rows \cap tx[r].rows = {}
    BY DEF IInv, ReadsHold, TypeOK
  <1>8. tx[r].time \in Time \ Recorded
    BY <1>1, <1>3 DEF SubmitState, Recorded
  <1>9. \A q \in Request \ {r} : tx[q].op = "submit" => tx[q].time # tx[r].time
    BY <1>1, <1>3, <1>8 DEF SubmitState
  <1>. QED BY <1>1, <1>2, <1>3, <1>5, <1>6, <1>7, <1>8, <1>9 DEF SubmitState

\* A table step that ends request r keeps the invariant if the others stay true.
LEMMA EndInv ==
  ASSUME IInv, NEW r \in Request, End(r),
         submission' \in [Time -> Submission \cup {None}],
         status' \in [User -> [Kind -> UserStatus]],
         \A q \in Request \ {r} :
           tx'[q] = tx[q] => SubmitState(q)' /\ ReviewState(q)' /\ RowsMean(q)',
         (ApprovedIdentityUnique /\ PendingAgrees /\ GateSound)'
  PROVE  IInv'
  <1>1. tx' = [tx EXCEPT ![r] = Idle] /\ tx \in [Request -> Transaction \cup {Idle}]
    BY DEF End, IInv, ReadsHold, TypeOK
  <1>2. tx'[r] = Idle /\ \A q \in Request \ {r} : tx'[q] = tx[q]
    BY <1>1
  <1>3. tx' \in [Request -> Transaction \cup {Idle}]
    BY <1>1
  <1>4. Idle.rows = {}
    BY DEF Idle
  <1>5. \A p, q \in Request : p # q => tx'[p].rows \cap tx'[q].rows = {}
    BY <1>2, <1>4 DEF IInv, ReadsHold, TypeOK
  <1>6. TypeOK'
    BY <1>3, <1>5 DEF TypeOK
  <1>7. SubmitState(r)' /\ ReviewState(r)' /\ RowsMean(r)'
    BY <1>2 DEF SubmitState, ReviewState, RowsMean, Idle, Reviews
  <1>8. ASSUME NEW q \in Request PROVE (SubmitState(q) /\ ReviewState(q) /\ RowsMean(q))'
    <2>1. CASE q = r
      BY <1>7, <2>1
    <2>2. CASE q # r
      BY <1>2, <2>2
    <2>. QED BY <2>1, <2>2
  <1>. QED BY <1>6, <1>8 DEF IInv, ReadsHold

LEMMA CommitSubmitInv == ASSUME IInv, NEW r \in Request, CommitSubmit(r) PROVE IInv'
  <1>0. PICK t \in Time, f \in Submission : t = tx[r].time /\ f = tx[r].form
    BY SubmitReady
  <1>a. PICK u \in User, k \in Kind : u = f.user /\ k = f.kind
    BY DEF Submission
  <1>1. /\ f.status = "PENDING" /\ t \notin Recorded
        /\ PendingOf(u, k) = {}
        /\ k = "business" => Approved(u, "kyc")
    BY <1>0, <1>a, SubmitReady
  <1>2. \A q \in Request \ {r} : /\ PendingKey(u, k) \notin tx[q].rows
                                 /\ tx[q].op = "submit" => tx[q].time # t
    BY <1>0, <1>a, SubmitReady
  <1>3. /\ submission' = [submission EXCEPT ![t] = f]
        /\ status' = [status EXCEPT ![u][k] = "PENDING"]
        /\ End(r)
    BY <1>0, <1>a DEF CommitSubmit
  <1>4. f # None
    BY NoneIsNoSubmission DEF Submission
  <1>5. /\ submission \in [Time -> Submission \cup {None}]
        /\ status \in [User -> [Kind -> UserStatus]]
        /\ ApprovedIdentityUnique /\ PendingAgrees /\ GateSound
        /\ \A q \in Request : SubmitState(q) /\ ReviewState(q) /\ RowsMean(q)
    BY DEF IInv, ReadsHold, TypeOK
  <1>6. /\ submission' \in [Time -> Submission \cup {None}]
        /\ submission'[t] = f
        /\ \A s \in Time \ {t} : submission'[s] = submission[s]
        /\ Recorded' = Recorded \cup {t}
    BY <1>1, <1>3, <1>4, <1>5 DEF Recorded
  <1>7. /\ status' \in [User -> [Kind -> UserStatus]]
        /\ status'[u][k] = "PENDING"
        /\ \A v \in User, l \in Kind : v # u \/ l # k => status'[v][l] = status[v][l]
    BY <1>3, <1>4, <1>5 DEF UserStatus
  <1>8. \A s \in Recorded : s \in Time /\ s # t /\ submission'[s] = submission[s]
    BY <1>1, <1>6 DEF Recorded
  <1>9. /\ \A v, l : Of(v, l) \subseteq Of(v, l)'
        /\ \A v, l : Of(v, l)' \subseteq Of(v, l) \cup {t}
        /\ \A v, l : t \in Of(v, l)' <=> v = u /\ l = k
    BY <1>a, <1>6, <1>8 DEF Of
  <1>10. /\ \A v, l : v # u \/ l # k => PendingOf(v, l)' = PendingOf(v, l)
         /\ PendingOf(u, k)' = {t}
    <2>1. ASSUME NEW v, NEW l, v # u \/ l # k PROVE PendingOf(v, l)' = PendingOf(v, l)
      BY <1>a, <1>6, <1>8, <2>1 DEF PendingOf, Of
    <2>2. \A s \in Recorded : submission[s].user = u /\ submission[s].kind = k
                             => submission[s].status # "PENDING"
      BY <1>1 DEF PendingOf, Of
    <2>3. PendingOf(u, k)' = {t}
      BY <1>a, <1>1, <1>6, <1>8, <2>2 DEF PendingOf, Of
    <2>. QED BY <2>1, <2>3
  <1>11. \A v, l : Approved(v, l) => Approved(v, l)'
    BY <1>8, <1>9 DEF Approved, Of
  <1>12. ASSUME NEW q \in Request \ {r}, tx'[q] = tx[q]
         PROVE  SubmitState(q)' /\ ReviewState(q)' /\ RowsMean(q)'
    <2>1. SubmitState(q)'
      <3>1. tx[q].op = "submit" /\ tx[q].time \in Time /\ submission[tx[q].time] = None
              => submission'[tx[q].time] = None
        BY <1>2, <1>6, <1>12
      <3>2. \A p \in Request \ {q} : tx'[p] = tx[p] \/ tx'[p] = Idle
        BY <1>3 DEF End, IInv, ReadsHold, TypeOK
      <3>3. Idle.op # "submit"
        BY DEF Idle
      <3>. QED BY <1>5, <1>11, <1>12, <3>1, <3>2, <3>3 DEF SubmitState
    <2>2. ReviewState(q)'
      BY <1>5, <1>6, <1>8, <1>12 DEF ReviewState
    <2>3. RowsMean(q)'
      <3>1. \A s \in Time : SubmissionRow(s) \in tx[q].rows =>
              s \in Recorded' /\ submission'[s].status = "PENDING"
        BY <1>5, <1>6, <1>8 DEF RowsMean
      <3>2. ASSUME NEW v \in User, NEW l \in Kind, PendingKey(v, l) \in tx[q].rows
            PROVE  PendingOf(v, l)' = {}
        <4>1. v # u \/ l # k
          BY <1>2, <3>2
        <4>2. PendingOf(v, l) = {}
          BY <1>5, <3>2 DEF RowsMean
        <4>. QED BY <1>10, <4>1, <4>2
      <3>3. \A l \in Kind, d \in Doc : ApprovedKey(l, d) \in tx[q].rows =>
              \A s \in Recorded' : submission'[s].status = "APPROVED" /\ submission'[s].kind = l
                                   => d \notin submission'[s].docs
        BY <1>1, <1>5, <1>6, <1>8 DEF RowsMean
      <3>. QED BY <1>12, <3>1, <3>2, <3>3 DEF RowsMean, SubmissionRow, PendingKey, ApprovedKey
    <2>. QED BY <2>1, <2>2, <2>3
  <1>13. ApprovedIdentityUnique'
    BY <1>1, <1>5, <1>6, <1>8 DEF ApprovedIdentityUnique
  <1>14. PendingAgrees'
    <2>1. ASSUME NEW v \in User, NEW l \in Kind
          PROVE  /\ status'[v][l] = "PENDING" <=> PendingOf(v, l)' # {}
                 /\ \A s, x \in PendingOf(v, l)' : s = x
      <3>1. CASE v = u /\ l = k
        BY <1>7, <1>10, <3>1
      <3>2. CASE v # u \/ l # k
        BY <1>5, <1>7, <1>10, <3>2 DEF PendingAgrees
      <3>. QED BY <3>1, <3>2
    <2>. QED BY <2>1 DEF PendingAgrees
  <1>15. GateSound'
    <2>1. \A v \in User, l \in Kind : status'[v][l] = "APPROVED" => Approved(v, l)'
      BY <1>5, <1>7, <1>11 DEF GateSound
    <2>2. \A v \in User : Of(v, "business")' # {} => Of(v, "business") # {} \/ (v = u /\ k = "business")
      BY <1>9
    <2>3. \A v \in User : Of(v, "business")' # {} => Approved(v, "kyc")'
      BY <1>1, <1>5, <1>11, <2>2 DEF GateSound
    <2>. QED BY <2>1, <2>3 DEF GateSound
  <1>. QED BY <1>3, <1>6, <1>7, <1>12, <1>13, <1>14, <1>15, EndInv

\* What a review about to commit knows.
LEMMA ReviewReady ==
  ASSUME IInv, NEW r \in Request, CommitReview(r)
  PROVE  /\ tx[r].op \in Reviews /\ tx[r].time \in Recorded
         /\ submission[tx[r].time] \in Submission
         /\ submission[tx[r].time].status = "PENDING"
         /\ tx[r].form.user = submission[tx[r].time].user
         /\ tx[r].form.kind = submission[tx[r].time].kind
         /\ \A q \in Request \ {r} : SubmissionRow(tx[r].time) \notin tx[q].rows
         /\ tx[r].op = "approve" =>
              \A d \in submission[tx[r].time].docs :
                /\ \A q \in Request \ {r} :
                     ApprovedKey(submission[tx[r].time].kind, d) \notin tx[q].rows
                /\ \A s \in Recorded :
                     /\ submission[s].status = "APPROVED"
                     /\ submission[s].kind = submission[tx[r].time].kind
                     => d \notin submission[s].docs
  <1>1. tx[r].op \in Reviews /\ tx[r].pc = "commit"
    BY DEF CommitReview, Reviews
  <1>2. ReviewState(r) /\ RowsMean(r)
    BY DEF IInv, ReadsHold
  <1>3. tx[r].time \in Recorded /\ SubmissionRow(tx[r].time) \in tx[r].rows
    BY <1>1, <1>2 DEF ReviewState
  <1>4. tx[r].time \in Time /\ submission[tx[r].time] \in Submission
    BY <1>3 DEF Recorded, IInv, ReadsHold, TypeOK
  <1>5. submission[tx[r].time].status = "PENDING"
    BY <1>2, <1>3, <1>4 DEF RowsMean
  <1>6. /\ tx[r].form.user = submission[tx[r].time].user
        /\ tx[r].form.kind = submission[tx[r].time].kind
        /\ tx[r].form.docs = submission[tx[r].time].docs
    BY <1>1, <1>2 DEF ReviewState
  <1>7. \A q \in Request \ {r} : tx[q].rows \cap tx[r].rows = {}
    BY DEF IInv, ReadsHold, TypeOK
  <1>8. ASSUME tx[r].op = "approve", NEW d \in submission[tx[r].time].docs
        PROVE  /\ \A q \in Request \ {r} :
                    ApprovedKey(submission[tx[r].time].kind, d) \notin tx[q].rows
               /\ \A s \in Recorded :
                    /\ submission[s].status = "APPROVED"
                    /\ submission[s].kind = submission[tx[r].time].kind
                    => d \notin submission[s].docs
    <2>1. ApprovedKey(submission[tx[r].time].kind, d) \in tx[r].rows
      BY <1>1, <1>2, <1>6, <1>8 DEF ReviewState
    <2>2. submission[tx[r].time].kind \in Kind /\ d \in Doc
      BY <1>4 DEF Submission
    <2>. QED BY <1>2, <1>7, <2>1, <2>2 DEF RowsMean
  <1>. QED BY <1>1, <1>3, <1>4, <1>5, <1>6, <1>7, <1>8

LEMMA CommitReviewInv == ASSUME IInv, NEW r \in Request, CommitReview(r) PROVE IInv'
  <1>0. PICK t \in Recorded, g \in Submission, u \in User, k \in Kind :
          t = tx[r].time /\ g = submission[t] /\ u = g.user /\ k = g.kind
    BY ReviewReady DEF Submission
  <1>a. PICK verdict \in {"APPROVED", "REJECTED"} : verdict = Verdict(tx[r].op)
    BY DEF Verdict
  <1>1. /\ g.status = "PENDING" /\ t \in Time
        /\ \A q \in Request \ {r} : SubmissionRow(t) \notin tx[q].rows
    BY <1>0, ReviewReady DEF Recorded
  <1>2. /\ submission' = [submission EXCEPT ![t].status = verdict]
        /\ status' = [status EXCEPT ![u][k] = verdict]
        /\ End(r)
    BY <1>0, <1>a, ReviewReady DEF CommitReview
  <1>3. verdict = "APPROVED" => \A d \in g.docs :
          /\ \A q \in Request \ {r} : ApprovedKey(k, d) \notin tx[q].rows
          /\ \A s \in Recorded : submission[s].status = "APPROVED" /\ submission[s].kind = k
                               => d \notin submission[s].docs
    BY <1>0, <1>a, ReviewReady DEF Verdict, Reviews
  <1>4. /\ submission \in [Time -> Submission \cup {None}]
        /\ status \in [User -> [Kind -> UserStatus]]
        /\ ApprovedIdentityUnique /\ PendingAgrees /\ GateSound
        /\ \A q \in Request : SubmitState(q) /\ ReviewState(q) /\ RowsMean(q)
    BY DEF IInv, ReadsHold, TypeOK
  <1>5. PICK h \in Submission : h = [g EXCEPT !.status = verdict]
    BY DEF Submission
  <1>6. /\ h.user = u /\ h.kind = k /\ h.docs = g.docs /\ h.status = verdict
        /\ h # None
    BY <1>0, <1>5, NoneIsNoSubmission DEF Submission
  <1>7. /\ submission' = [submission EXCEPT ![t] = h]
        /\ submission' \in [Time -> Submission \cup {None}]
        /\ submission'[t] = h
        /\ \A s \in Time \ {t} : submission'[s] = submission[s]
    BY <1>0, <1>1, <1>2, <1>4, <1>5
  <1>8. Recorded' = Recorded /\ Recorded \subseteq Time
    BY <1>0, <1>6, <1>7 DEF Recorded
  <1>9. /\ status' \in [User -> [Kind -> UserStatus]]
        /\ status'[u][k] = verdict
        /\ \A v \in User, l \in Kind : v # u \/ l # k => status'[v][l] = status[v][l]
    BY <1>2, <1>4 DEF UserStatus
  <1>10. /\ \A v, l : Of(v, l)' = Of(v, l)
         /\ t \in Of(u, k)
    BY <1>0, <1>6, <1>7, <1>8 DEF Of
  <1>11. /\ \A v, l : v # u \/ l # k => PendingOf(v, l)' = PendingOf(v, l)
         /\ PendingOf(u, k)' = {}
    <2>1. ASSUME NEW v, NEW l, v # u \/ l # k PROVE PendingOf(v, l)' = PendingOf(v, l)
      BY <1>0, <1>6, <1>7, <1>8, <2>1 DEF PendingOf, Of
    <2>2. PendingOf(u, k) \subseteq {t}
      BY <1>0, <1>1, <1>4 DEF PendingAgrees, PendingOf, Of
    <2>3. PendingOf(u, k)' = {}
      BY <1>6, <1>7, <1>8, <2>2 DEF PendingOf, Of
    <2>. QED BY <2>1, <2>3
  <1>12. \A v, l : Approved(v, l) => Approved(v, l)'
    BY <1>0, <1>1, <1>7, <1>8, <1>10 DEF Approved, Of
  <1>13. ASSUME NEW q \in Request \ {r}, tx'[q] = tx[q]
         PROVE  SubmitState(q)' /\ ReviewState(q)' /\ RowsMean(q)'
    <2>1. SubmitState(q)'
      <3>1. \A s \in Time : submission[s] = None => submission'[s] = None
        BY <1>0, <1>7 DEF Recorded
      <3>2. \A p \in Request \ {q} : tx'[p] = tx[p] \/ tx'[p] = Idle
        BY <1>2 DEF End, IInv, ReadsHold, TypeOK
      <3>3. Idle.op # "submit"
        BY DEF Idle
      <3>. QED BY <1>4, <1>12, <1>13, <3>1, <3>2, <3>3 DEF SubmitState
    <2>2. ReviewState(q)'
      BY <1>0, <1>4, <1>6, <1>7, <1>8, <1>13 DEF ReviewState
    <2>3. RowsMean(q)'
      <3>1. \A s \in Time : SubmissionRow(s) \in tx[q].rows =>
              s \in Recorded' /\ submission'[s].status = "PENDING"
        BY <1>1, <1>4, <1>7, <1>8 DEF RowsMean
      <3>2. ASSUME NEW v \in User, NEW l \in Kind, PendingKey(v, l) \in tx[q].rows
            PROVE  PendingOf(v, l)' = {}
        <4>1. PendingOf(v, l) = {}
          BY <1>4, <3>2 DEF RowsMean
        <4>. QED BY <1>11, <4>1
      <3>3. ASSUME NEW l \in Kind, NEW d \in Doc, ApprovedKey(l, d) \in tx[q].rows,
                   NEW s \in Recorded, submission'[s].status = "APPROVED", submission'[s].kind = l
            PROVE  d \notin submission'[s].docs
        <4>1. CASE s = t
          BY <1>3, <1>6, <1>7, <3>3, <4>1
        <4>2. CASE s # t
          BY <1>4, <1>7, <1>8, <3>3, <4>2 DEF RowsMean
        <4>. QED BY <4>1, <4>2
      <3>. QED BY <1>8, <1>13, <3>1, <3>2, <3>3 DEF RowsMean, SubmissionRow, PendingKey, ApprovedKey
    <2>. QED BY <2>1, <2>2, <2>3
  <1>14. ApprovedIdentityUnique'
    <2>1. ASSUME NEW s \in Recorded, NEW x \in Recorded, s # x, x # t,
                 submission'[s].status = "APPROVED", submission'[x].status = "APPROVED",
                 submission'[s].kind = submission'[x].kind
          PROVE  submission'[s].docs \cap submission'[x].docs = {}
      <3>1. CASE s = t
        BY <1>3, <1>6, <1>7, <1>8, <2>1, <3>1
      <3>2. CASE s # t
        BY <1>4, <1>7, <1>8, <2>1, <3>2 DEF ApprovedIdentityUnique
      <3>. QED BY <3>1, <3>2
    <2>. QED BY <1>8, <2>1 DEF ApprovedIdentityUnique
  <1>15. PendingAgrees'
    <2>1. ASSUME NEW v \in User, NEW l \in Kind
          PROVE  /\ status'[v][l] = "PENDING" <=> PendingOf(v, l)' # {}
                 /\ \A s, x \in PendingOf(v, l)' : s = x
      <3>1. CASE v = u /\ l = k
        BY <1>9, <1>11, <3>1
      <3>2. CASE v # u \/ l # k
        BY <1>4, <1>9, <1>11, <3>2 DEF PendingAgrees
      <3>. QED BY <3>1, <3>2
    <2>. QED BY <2>1 DEF PendingAgrees
  <1>16. GateSound'
    <2>1. ASSUME NEW v \in User, NEW l \in Kind, status'[v][l] = "APPROVED"
          PROVE  Approved(v, l)'
      <3>1. CASE v = u /\ l = k
        BY <1>0, <1>6, <1>7, <1>8, <1>9, <2>1, <3>1 DEF Approved, Of
      <3>2. CASE v # u \/ l # k
        BY <1>4, <1>9, <1>12, <2>1, <3>2 DEF GateSound
      <3>. QED BY <3>1, <3>2
    <2>2. \A v \in User : Of(v, "business")' # {} => Approved(v, "kyc")'
      BY <1>4, <1>10, <1>12 DEF GateSound
    <2>. QED BY <2>1, <2>2 DEF GateSound
  <1>. QED BY <1>2, <1>7, <1>9, <1>13, <1>14, <1>15, <1>16, EndInv

----------------------------------------------------------------------------
(* The theorems.                                                           *)

LEMMA NextInv == IInv /\ [Next]_vars => IInv'
  <1>. SUFFICES ASSUME IInv, [Next]_vars PROVE IInv'
    OBVIOUS
  <1>1. ASSUME NEW r \in Request, Start(r) PROVE IInv'
    BY <1>1, SubmitInv, ReviewInv DEF Start
  <1>2. ASSUME NEW r \in Request, Proceed(r) PROVE IInv'
    BY <1>2, SubmitBeginInv, SubmitFindInv, SubmitInsertInv, CommitSubmitInv, ReviewTakeInv,
       ApproveIdentityInv, CommitReviewInv, UpdateUserInv DEF Proceed
  <1>3. ASSUME NEW r \in Request, Abort(r) PROVE IInv'
    BY <1>3, FailInv DEF Abort
  <1>4. CASE UNCHANGED vars
    BY <1>4 DEF vars, IInv, ReadsHold, TypeOK, SubmitState, ReviewState, RowsMean, ApprovedIdentityUnique,
       PendingAgrees, GateSound, Approved, PendingOf, Of, Recorded
  <1>. QED BY <1>1, <1>2, <1>3, <1>4 DEF Next

\* Only the commits write submissions: one adds, the other judges a pending one.
LEMMA StepReviewsFinal ==
  ASSUME IInv, [Next]_vars
  PROVE  \A t \in Recorded : /\ submission'[t].status # submission[t].status
                               => submission[t].status = "PENDING"
                             /\ submission'[t].docs = submission[t].docs
  <1>1. CASE submission' = submission
    BY <1>1
  <1>2. ASSUME NEW r \in Request, CommitSubmit(r)
        PROVE  \A t \in Recorded : submission'[t] = submission[t]
    <2>1. /\ tx[r].time \in Time \ Recorded
          /\ submission' = [submission EXCEPT ![tx[r].time] = tx[r].form]
      BY <1>2, SubmitReady DEF CommitSubmit
    <2>. QED BY <2>1 DEF IInv, ReadsHold, TypeOK, Recorded
  <1>3. ASSUME NEW r \in Request, CommitReview(r), NEW t \in Recorded
        PROVE  /\ submission'[t].status # submission[t].status => submission[t].status = "PENDING"
               /\ submission'[t].docs = submission[t].docs
    <2>1. /\ tx[r].time \in Recorded
          /\ submission[tx[r].time] \in Submission
          /\ submission[tx[r].time].status = "PENDING"
          /\ submission' = [submission EXCEPT ![tx[r].time].status = Verdict(tx[r].op)]
      BY <1>3, ReviewReady DEF CommitReview
    <2>2. CASE t = tx[r].time
      BY <2>1, <2>2 DEF IInv, ReadsHold, TypeOK, Recorded, Submission
    <2>3. CASE t # tx[r].time
      BY <2>1, <2>3 DEF IInv, ReadsHold, TypeOK, Recorded
    <2>. QED BY <2>2, <2>3
  <1>4. ASSUME NEW r \in Request, Next, submission' # submission
        PROVE  \E q \in Request : CommitSubmit(q) \/ CommitReview(q)
    BY <1>4 DEF Next, Start, Proceed, Abort, Submit, Review, Begin, SubmitBegin, SubmitFindLatest,
      SubmitFindPending, SubmitInsert, ReviewTake, ApproveIdentity, UpdateUser, Goto, Take, Fail, tables
  <1>5. CASE Next /\ submission' # submission
    <2>1. PICK r \in Request : CommitSubmit(r) \/ CommitReview(r)
      BY <1>4, <1>5 DEF Next
    <2>. QED BY <1>2, <1>3, <2>1
  <1>. QED BY <1>1, <1>5 DEF vars

\* What the requests in flight know of the tables stays true whatever the
\* others commit: the rows and keys each holds are what makes it so.
THEOREM Invariance == Spec => []IInv
  <1>. QED BY InitInv, NextInv, PTL DEF Spec

\* The columns keep to their values and no row or key is held twice.
THEOREM TypeCorrect == Spec => []TypeOK
  <1>1. IInv => TypeOK
    BY DEF IInv, ReadsHold
  <1>. QED BY <1>1, Invariance, PTL

\* No identity document is approved twice, however many approvals run at once.
THEOREM ApprovedIdentityUniqueHolds == Spec => []ApprovedIdentityUnique
  <1>1. IInv => ApprovedIdentityUnique
    BY DEF IInv, ReadsHold
  <1>. QED BY <1>1, Invariance, PTL

\* users.kyc_status and users.business_verification_status are PENDING exactly
\* while a submission awaits review, and never two do.
THEOREM PendingAgreesHolds == Spec => []PendingAgrees
  <1>1. IInv => PendingAgrees
    BY DEF IInv, ReadsHold
  <1>. QED BY <1>1, Invariance, PTL

\* Who passes a marketplace guard has an approved submission on record.
THEOREM GateSoundHolds == Spec => []GateSound
  <1>1. IInv => GateSound
    BY DEF IInv, ReadsHold
  <1>. QED BY <1>1, Invariance, PTL

\* A verdict is final, and what was reviewed stays what it was.
THEOREM ReviewsFinalHolds == Spec => ReviewsFinal
  <1>1. IInv /\ [Next]_vars =>
          [\A t \in Recorded : /\ submission'[t].status # submission[t].status
                                  => submission[t].status = "PENDING"
                               /\ submission'[t].docs = submission[t].docs]_vars
    BY StepReviewsFinal
  <1>. QED BY <1>1, Invariance, PTL DEF Spec, ReviewsFinal

----------------------------------------------------------------------------
(* Nobody is stuck: every request takes its rows in one order.             *)

\* How far a request has come that holds a row of each kind.
Stage(r) ==
  /\ \A u \in User : UserRow(u) \in tx[r].rows => tx[r].pc = "commit"
  /\ \A u \in User, k \in Kind : PendingKey(u, k) \in tx[r].rows =>
       tx[r].pc \in {"updateUser", "commit"}
  /\ \A k \in Kind, d \in Doc : ApprovedKey(k, d) \in tx[r].rows =>
       tx[r].pc \in {"updateUser", "commit"}
  /\ \A t \in Time : SubmissionRow(t) \in tx[r].rows =>
       tx[r].pc \in {"identity", "updateUser", "commit"}

Stages == \A r \in Request : Stage(r)

\* A step of one request says nothing of the others' stages.
LEMMA OneStage ==
  ASSUME Stages, NEW r \in Request, \A q \in Request \ {r} : tx'[q] = tx[q], Stage(r)'
  PROVE  Stages'
  <1>1. ASSUME NEW q \in Request PROVE Stage(q)'
    <2>1. CASE q = r
      BY <2>1
    <2>2. CASE q # r
      <3>1. tx'[q] = tx[q] /\ Stage(q)
        BY <2>2 DEF Stages
      <3>. QED BY <3>1 DEF Stage, UserRow, PendingKey, ApprovedKey, SubmissionRow
    <2>. QED BY <2>1, <2>2
  <1>. QED BY <1>1 DEF Stages

\* A request that begins or ends holds nothing.
LEMMA BareStage ==
  ASSUME IInv, Stages, NEW r \in Request, NEW x, x.rows = {}, tx' = [tx EXCEPT ![r] = x]
  PROVE  Stages'
  <1>1. tx'[r] = x /\ \A q \in Request \ {r} : tx'[q] = tx[q]
    BY DEF IInv, TypeOK
  <1>2. Stage(r)'
    BY <1>1 DEF Stage
  <1>. QED BY <1>1, <1>2, OneStage

LEMMA FailStage == ASSUME IInv, Stages, NEW r \in Request, End(r) PROVE Stages'
  <1>1. tx' = [tx EXCEPT ![r] = Idle] /\ Idle.rows = {}
    BY DEF End, Idle
  <1>. QED BY <1>1, BareStage

LEMMA StartStage == ASSUME IInv, Stages, NEW r \in Request, Start(r) PROVE Stages'
  <1>1. ASSUME NEW op, NEW pc, NEW time, NEW form, Begin(r, op, pc, time, form) PROVE Stages'
    <2>. DEFINE x == [op |-> op, pc |-> pc, time |-> time, form |-> form, rows |-> {}]
    <2>1. x.rows = {} /\ tx' = [tx EXCEPT ![r] = x]
      BY <1>1 DEF Begin
    <2>. HIDE DEF x
    <2>. QED BY <2>1, BareStage
  <1>. QED BY <1>1 DEF Start, Submit, Review

\* A statement that takes rows takes them in the order of the stages.
LEMMA TakenStage ==
  ASSUME IInv, Stages, NEW r \in Request, tx[r].op # "idle", NEW rows \in SUBSET Row,
         NEW pc \in {"findLatest", "findPending", "insert", "identity", "updateUser", "commit"},
         tx' = [tx EXCEPT ![r].rows = tx[r].rows \cup rows, ![r].pc = pc],
         tx[r].pc \in {"insert", "take"} => pc \in {"identity", "updateUser"},
         tx[r].pc = "identity" => pc = "updateUser",
         tx[r].pc = "updateUser" => pc = "commit",
         tx[r].pc # "commit",
         \A u \in User : UserRow(u) \in rows => pc = "commit",
         \A u \in User, k \in Kind : PendingKey(u, k) \in rows => pc = "updateUser",
         \A k \in Kind, d \in Doc : ApprovedKey(k, d) \in rows => pc = "updateUser",
         \A t \in Time : SubmissionRow(t) \in rows => pc \in {"identity", "updateUser"}
  PROVE  Stages'
  <1>1. /\ tx'[r].pc = pc /\ tx'[r].rows = tx[r].rows \cup rows
        /\ \A q \in Request \ {r} : tx'[q] = tx[q]
    BY Moved
  <1>2. Stage(r)
    BY DEF Stages
  <1>3. Stage(r)'
    <2>1. \A u \in User : UserRow(u) \in tx'[r].rows => tx'[r].pc = "commit"
      BY <1>1, <1>2 DEF Stage
    <2>2. \A u \in User, k \in Kind : PendingKey(u, k) \in tx'[r].rows =>
            tx'[r].pc \in {"updateUser", "commit"}
      BY <1>1, <1>2 DEF Stage
    <2>3. \A k \in Kind, d \in Doc : ApprovedKey(k, d) \in tx'[r].rows =>
            tx'[r].pc \in {"updateUser", "commit"}
      BY <1>1, <1>2 DEF Stage
    <2>4. \A t \in Time : SubmissionRow(t) \in tx'[r].rows =>
            tx'[r].pc \in {"identity", "updateUser", "commit"}
      BY <1>1, <1>2 DEF Stage
    <2>. QED BY <2>1, <2>2, <2>3, <2>4 DEF Stage, UserRow, PendingKey, ApprovedKey, SubmissionRow
  <1>. QED BY <1>1, <1>3, OneStage

\* A lookup that finds nothing moves on before any row is taken.
LEMMA FoundStage ==
  ASSUME IInv, Stages, NEW r \in Request,
         SubmitBegin(r) \/ SubmitFindLatest(r) \/ SubmitFindPending(r)
  PROVE  Stages'
  <1>1. CASE Fail(r)
    BY <1>1, FailStage DEF Fail
  <1>2. CASE ~Fail(r)
    <2>1. tx \in [Request -> Transaction \cup {Idle}] /\ tx[r].op = "submit"
      BY DEF SubmitBegin, SubmitFindLatest, SubmitFindPending, At, IInv, TypeOK
    <2>2. tx[r] \in Transaction
      BY <2>1, OpenTyped
    <2>3. PICK time, pc : tx' = [tx EXCEPT ![r] = [tx[r] EXCEPT !.time = time, !.pc = pc]]
      <3>1. CASE SubmitBegin(r)
        <4>1. PICK now : tx' = [tx EXCEPT ![r].time = now, ![r].pc = "findLatest"]
          BY <1>2, <3>1 DEF SubmitBegin
        <4>. QED BY <4>1
      <3>2. ASSUME NEW pc, Goto(r, pc)
            PROVE  tx' = [tx EXCEPT ![r] = [tx[r] EXCEPT !.time = tx[r].time, !.pc = pc]]
        BY <2>1, <2>2, <3>2 DEF Goto, Transaction
      <3>3. CASE SubmitFindLatest(r)
        BY <1>2, <3>2, <3>3 DEF SubmitFindLatest
      <3>4. CASE SubmitFindPending(r)
        BY <1>2, <3>2, <3>4 DEF SubmitFindPending
      <3>. QED BY <3>1, <3>3, <3>4
    <2>4. tx'[r].rows = tx[r].rows /\ \A q \in Request \ {r} : tx'[q] = tx[q]
      BY <2>1, <2>2, <2>3 DEF Transaction
    <2>5. tx[r].pc \in {"begin", "findLatest", "findPending"} /\ Stage(r)
      BY DEF SubmitBegin, SubmitFindLatest, SubmitFindPending, At, Stages
    <2>6. Stage(r)'
      BY <2>4, <2>5 DEF Stage, UserRow, PendingKey, ApprovedKey, SubmissionRow
    <2>. QED BY <2>4, <2>6, OneStage
  <1>. QED BY <1>1, <1>2

LEMMA RowsStage ==
  ASSUME IInv, Stages, NEW r \in Request,
         SubmitInsert(r) \/ ReviewTake(r) \/ ApproveIdentity(r) \/ UpdateUser(r), ~Fail(r)
  PROVE  Stages'
  <1>1. tx[r].op # "idle" /\ tx[r] \in Transaction
    <2>1. tx[r] # Idle
      BY DEF SubmitInsert, ReviewTake, ApproveIdentity, UpdateUser, At, Idle
    <2>2. tx[r] \in Transaction
      BY <2>1 DEF IInv, TypeOK
    <2>. QED BY <2>2 DEF Transaction
  <1>. DEFINE form == tx[r].form
              key == {PendingKey(form.user, form.kind)}
              row == {SubmissionRow(tx[r].time)}
              keys == {ApprovedKey(form.kind, d) : d \in form.docs}
              user == {UserRow(form.user)}
              pc == IF tx[r].op = "approve" THEN "identity" ELSE "updateUser"
  <1>2. form.user \in User /\ form.kind \in Kind /\ form.docs \in SUBSET Doc
    BY <1>1 DEF Transaction, Submission
  <1>3. CASE SubmitInsert(r)
    <2>1. tx' = [tx EXCEPT ![r].rows = tx[r].rows \cup key, ![r].pc = "updateUser"]
      BY <1>3 DEF SubmitInsert, Take
    <2>2. /\ key \in SUBSET Row
          /\ \A u \in User : UserRow(u) \notin key
          /\ \A k \in Kind, d \in Doc : ApprovedKey(k, d) \notin key
          /\ \A t \in Time : SubmissionRow(t) \notin key
      <3>1. key \in SUBSET Row
        BY <1>2 DEF Row
      <3>. HIDE DEF form
      <3>. QED BY <3>1, RowsDiffer
    <2>3. tx[r].pc = "insert"
      BY <1>3 DEF SubmitInsert, At
    <2>. HIDE DEF key
    <2>. QED BY <1>1, <2>1, <2>2, <2>3, TakenStage
  <1>4. CASE ReviewTake(r)
    <2>1. tx' = [tx EXCEPT ![r].rows = tx[r].rows \cup row, ![r].pc = pc]
      BY <1>4 DEF ReviewTake, Take
    <2>2. tx[r].pc = "take" /\ tx[r].time \in Time
      BY <1>4 DEF ReviewTake, IInv, ReadsHold, ReviewState, Reviews, Recorded
    <2>3. /\ row \in SUBSET Row
          /\ \A u \in User : UserRow(u) \notin row
          /\ \A k \in Kind, d \in Doc : ApprovedKey(k, d) \notin row
          /\ \A u \in User, k \in Kind : PendingKey(u, k) \notin row
      <3>1. row \in SUBSET Row
        BY <2>2 DEF Row
      <3>. QED BY <3>1, RowsDiffer
    <2>4. pc \in {"identity", "updateUser"}
      OBVIOUS
    <2>. HIDE DEF row, pc
    <2>. QED BY <1>1, <2>1, <2>2, <2>3, <2>4, TakenStage
  <1>5. CASE ApproveIdentity(r)
    <2>1. tx[r].pc = "identity"
      BY <1>5 DEF ApproveIdentity, At
    <2>2. tx' = [tx EXCEPT ![r].rows = tx[r].rows \cup keys, ![r].pc = "updateUser"]
      BY <1>5, <2>1 DEF ApproveIdentity, Needs
    <2>3. /\ keys \in SUBSET Row
          /\ \A u \in User : UserRow(u) \notin keys
          /\ \A u \in User, k \in Kind : PendingKey(u, k) \notin keys
          /\ \A t \in Time : SubmissionRow(t) \notin keys
      <3>1. keys \in SUBSET Row
        BY <1>2 DEF Row
      <3>. HIDE DEF form
      <3>. QED BY <3>1, RowsDiffer
    <2>. HIDE DEF keys
    <2>. QED BY <1>1, <2>1, <2>2, <2>3, TakenStage
  <1>6. CASE UpdateUser(r)
    <2>1. tx[r].pc = "updateUser"
      BY <1>6 DEF UpdateUser
    <2>2. tx' = [tx EXCEPT ![r].rows = tx[r].rows \cup user, ![r].pc = "commit"]
      BY <1>6 DEF UpdateUser, Take
    <2>3. /\ user \in SUBSET Row
          /\ \A u \in User, k \in Kind : PendingKey(u, k) \notin user
          /\ \A k \in Kind, d \in Doc : ApprovedKey(k, d) \notin user
          /\ \A t \in Time : SubmissionRow(t) \notin user
      <3>1. user \in SUBSET Row
        BY <1>2 DEF Row
      <3>. HIDE DEF form
      <3>. QED BY <3>1, RowsDiffer
    <2>. HIDE DEF user
    <2>. QED BY <1>1, <2>1, <2>2, <2>3, TakenStage
  <1>. QED BY <1>3, <1>4, <1>5, <1>6

LEMMA StageStep == IInv /\ Stages /\ [Next]_vars => Stages'
  <1>. SUFFICES ASSUME IInv, Stages, [Next]_vars PROVE Stages'
    OBVIOUS
  <1>1. ASSUME NEW r \in Request, Fail(r) \/ CommitSubmit(r) \/ CommitReview(r) PROVE Stages'
    BY <1>1, FailStage DEF Fail, CommitSubmit, CommitReview
  <1>2. ASSUME NEW r \in Request, Proceed(r) PROVE Stages'
    BY <1>1, <1>2, FoundStage, RowsStage DEF Proceed
  <1>3. CASE UNCHANGED vars
    BY <1>3 DEF vars, Stages, Stage, UserRow, PendingKey, ApprovedKey, SubmissionRow
  <1>. QED BY <1>1, <1>2, <1>3, StartStage DEF Next, Abort

LEMMA StagesInvariant == Spec => []Stages
  <1>1. Init => Stages
    BY DEF Init, Stages, Stage, Idle
  <1>. QED BY <1>1, StageStep, Invariance, PTL DEF Spec

\* Of any requests in flight, the one that has come furthest waits for none of
\* the others.
LEMMA FurthestGoesOn == IInv /\ Stages => NobodyStuck
  <1>. SUFFICES ASSUME IInv, Stages, NEW waiting \in (SUBSET InFlight) \ {{}}
                PROVE  \E r \in waiting : \A q \in waiting : ~WaitsFor(r, q)
    BY DEF NobodyStuck
  <1>1. ASSUME NEW r \in waiting
        PROVE  /\ r \in Request /\ tx[r] \in Transaction
               /\ tx[r].form.user \in User /\ tx[r].form.kind \in Kind
               /\ tx[r].form.docs \in SUBSET Doc /\ Stage(r)
    <2>1. r \in Request /\ tx[r] \in Transaction
      BY DEF InFlight, IInv, TypeOK
    <2>. QED BY <2>1 DEF Transaction, Submission, Stages
  <1>2. CASE \E r \in waiting : Needs(r) = {}
    BY <1>2 DEF WaitsFor
  <1>3. CASE \A r \in waiting : Needs(r) # {}
    <2>1. \A r \in waiting : tx[r].pc \in {"insert", "take", "identity", "updateUser"}
      BY <1>3 DEF Needs
    <2>2. ASSUME NEW r \in waiting, tx[r].pc = "updateUser", NEW q \in waiting
          PROVE  ~WaitsFor(r, q)
      <3>1. Needs(r) = {UserRow(tx[r].form.user)}
        BY <2>2 DEF Needs
      <3>2. UserRow(tx[r].form.user) \notin tx[q].rows
        BY <1>1, <2>1 DEF Stage
      <3>. QED BY <3>1, <3>2 DEF WaitsFor
    <2>3. ASSUME \A r \in waiting : tx[r].pc # "updateUser",
                 NEW r \in waiting, tx[r].pc = "identity", NEW q \in waiting
          PROVE  ~WaitsFor(r, q)
      <3>1. Needs(r) = {ApprovedKey(tx[r].form.kind, d) : d \in tx[r].form.docs}
        BY <2>3 DEF Needs
      <3>2. \A k \in Kind, d \in Doc : ApprovedKey(k, d) \notin tx[q].rows
        BY <1>1, <2>1, <2>3 DEF Stage
      <3>. QED BY <1>1, <3>1, <3>2 DEF WaitsFor
    <2>4. ASSUME \A r \in waiting : tx[r].pc \in {"insert", "take"},
                 NEW r \in waiting, NEW q \in waiting
          PROVE  ~WaitsFor(r, q)
      <3>1. /\ \A u \in User, k \in Kind : PendingKey(u, k) \notin tx[q].rows
            /\ \A t \in Time : SubmissionRow(t) \notin tx[q].rows
        BY <1>1, <2>4 DEF Stage
      <3>2. CASE tx[r].pc = "insert"
        <4>1. Needs(r) = {PendingKey(tx[r].form.user, tx[r].form.kind)} \cup
                {SubmissionRow(t) : t \in PendingOf(tx[r].form.user, tx[r].form.kind)}
          BY <3>2 DEF Needs
        <4>2. PendingOf(tx[r].form.user, tx[r].form.kind) \subseteq Time
          BY DEF PendingOf, Of, Recorded
        <4>. QED BY <1>1, <3>1, <4>1, <4>2 DEF WaitsFor
      <3>3. CASE tx[r].pc = "take"
        <4>1. Needs(r) = {SubmissionRow(tx[r].time)}
          BY <3>3 DEF Needs
        <4>2. tx[r].time \in Time
          BY <1>1, <3>3 DEF Transaction, IInv, ReadsHold, SubmitState, ReviewState, Reviews, Recorded
        <4>. QED BY <3>1, <4>1, <4>2 DEF WaitsFor
      <3>. QED BY <2>4, <3>2, <3>3
    <2>5. PICK r \in waiting : TRUE
      OBVIOUS
    <2>6. CASE \E p \in waiting : tx[p].pc = "updateUser"
      BY <2>2, <2>6
    <2>7. CASE /\ \A p \in waiting : tx[p].pc # "updateUser"
               /\ \E p \in waiting : tx[p].pc = "identity"
      BY <2>3, <2>7
    <2>8. CASE \A p \in waiting : tx[p].pc \in {"insert", "take"}
      BY <2>4, <2>5, <2>8
    <2>. QED BY <2>1, <2>6, <2>7, <2>8
  <1>. QED BY <1>2, <1>3

\* Submissions and reviews wait for rows and index keys of each other, but of
\* any that are in flight one waits for none of them, so no lock is for ever.
THEOREM NobodyGetsStuck == Spec => []NobodyStuck
  <1>. QED BY FurthestGoesOn, Invariance, StagesInvariant, PTL
=============================================================================
