---------------------------- MODULE Verification ----------------------------
(***************************************************************************)
(* Identity (KYC) and business verification: a user submits documents, an  *)
(* admin approves or rejects them, and users.kyc_status and                *)
(* users.business_verification_status, which every guard of the            *)
(* marketplace reads, follow (modules/kyc, modules/jewellerVerification).  *)
(* Both have the same shape and differ in their tables, in what a          *)
(* submission needs and in the document that must not be approved twice.   *)
(*                                                                         *)
(* Each SQL statement is a step.  The table variables hold committed rows; *)
(* tx[r] is the transaction of a request in flight, and its rows are the   *)
(* rows and unique-index keys that it has written and holds until it ends. *)
(* A submission is known by its created_at, which is the time its          *)
(* transaction began, not the time its row became visible.                 *)
(***************************************************************************)
EXTENDS Naturals, FiniteSets

CONSTANTS
  User,     \* a seller submits "kyc" only, a jeweller both
  Doc,      \* identity numbers that two submissions may share: Aadhaar and PAN,
            \* GST and shop licence
  Request,  \* bound: requests handled concurrently
  MaxTime,  \* bound: submissions on record or under way
  None

ASSUME MaxTimeNat == MaxTime \in Nat
ASSUME NoneIsNoTime == None \notin 1..MaxTime

VARIABLES
  submission,  \* kyc_submissions and jeweller_business_verifications, by created_at
  status,      \* the two status columns of users
  tx           \* the requests in flight

tables == <<submission, status>>
vars   == <<submission, status, tx>>

Time == 1..MaxTime
Kind == {"kyc", "business"}
Submission == [user : User, kind : Kind, docs : SUBSET Doc,
               status : {"PENDING", "APPROVED", "REJECTED"}]
ASSUME NoneIsNoSubmission == None \notin Submission

UserStatus == {"NOT_SUBMITTED", "PENDING", "APPROVED", "REJECTED"}

SubmissionRow(t)  == <<"submission", t>>
PendingKey(u, k)  == <<"pending", u, k>>    \* unique_pending_..._per_user
ApprovedKey(k, d) == <<"approved", k, d>>   \* unique_approved_..._hash
UserRow(u)        == <<"user", u>>

Idle == [op |-> "idle", pc |-> "idle", time |-> None, form |-> None, rows |-> {}]

Init ==
  /\ submission = [t \in Time |-> None]
  /\ status = [u \in User |-> [k \in Kind |-> "NOT_SUBMITTED"]]
  /\ tx = [r \in Request |-> Idle]

----------------------------------------------------------------------------
(* Transactions.                                                           *)

Recorded == {t \in Time : submission[t] # None}

Of(u, k) == {t \in Recorded : submission[t].user = u /\ submission[t].kind = k}
PendingOf(u, k) == {t \in Of(u, k) : submission[t].status = "PENDING"}

\* ORDER BY created_at DESC LIMIT 1.
IsLatest(t, u, k) == t \in Of(u, k) /\ \A s \in Of(u, k) : s <= t

Began == {tx[r].time : r \in Request} \cap Time

At(r, op, pc) == tx[r].op = op /\ tx[r].pc = pc

\* No other transaction holds the row or key.
Free(r, row) == \A q \in Request \ {r} : row \notin tx[q].rows

\* The rows and keys that the next statement of r writes.  The unique index makes
\* an INSERT wait for another one, and for a review of the submission that it
\* collides with.  A verdict enters the documents into the unique indexes of
\* approved ones, which wait for other approvals of them.  (One index after the
\* other, in an order that all approvals share.)
Needs(r) ==
  LET form == tx[r].form IN
  CASE tx[r].pc = "insert"     -> {PendingKey(form.user, form.kind)} \cup
                                    {SubmissionRow(t) : t \in PendingOf(form.user, form.kind)}
    [] tx[r].pc = "take"       -> {SubmissionRow(tx[r].time)}
    [] tx[r].pc = "identity"   -> {ApprovedKey(form.kind, d) : d \in form.docs}
    [] tx[r].pc = "updateUser" -> {UserRow(form.user)}
    [] OTHER                   -> {}

Granted(r) == \A row \in Needs(r) : Free(r, row)

Begin(r, op, pc, time, form) ==
  /\ tx[r] = Idle
  /\ tx' = [tx EXCEPT ![r] = [op |-> op, pc |-> pc, time |-> time, form |-> form, rows |-> {}]]
  /\ UNCHANGED tables

Goto(r, pc) == tx' = [tx EXCEPT ![r].pc = pc] /\ UNCHANGED tables

Take(r, row, pc) ==
  /\ tx' = [tx EXCEPT ![r].rows = tx[r].rows \cup {row}, ![r].pc = pc]
  /\ UNCHANGED tables

End(r)  == tx' = [tx EXCEPT ![r] = Idle]
Fail(r) == End(r) /\ UNCHANGED tables

----------------------------------------------------------------------------
(* submitKycForRole, submitJewellerBusinessVerification.                   *)

\* authenticate has read the user: a business needs its owner's KYC.
Submit(r, u, k, docs) ==
  /\ k = "business" => status[u]["kyc"] = "APPROVED"
  /\ Begin(r, "submit", "begin", None, [user |-> u, kind |-> k, docs |-> docs, status |-> "PENDING"])

Later == {t \in Time : \A s \in Recorded \cup Began : s < t}

\* BEGIN: now() is fixed, later than that of every transaction begun before.
\* (Past the bound MaxTime the request gives up.)
SubmitBegin(r) ==
  /\ At(r, "submit", "begin")
  /\ \/ Later = {} /\ Fail(r)
     \/ \E now \in Later :
          /\ \A t \in Later : now <= t
          /\ tx' = [tx EXCEPT ![r].time = now, ![r].pc = "findLatest"]
          /\ UNCHANGED tables

SubmitFindLatest(r) ==
  /\ At(r, "submit", "findLatest")
  /\ IF \E t \in Time : /\ IsLatest(t, tx[r].form.user, tx[r].form.kind)
                        /\ submission[t].status \in {"PENDING", "APPROVED"}
     THEN Fail(r)
     ELSE Goto(r, "findPending")

SubmitFindPending(r) ==
  /\ At(r, "submit", "findPending")
  /\ IF PendingOf(tx[r].form.user, tx[r].form.kind) # {} THEN Fail(r) ELSE Goto(r, "insert")

\* MUTANT: only the lookups keep a second pending submission out.
SubmitInsertNoIndex(r) == At(r, "submit", "insert") /\ Goto(r, "updateUser")

\* MUTANT: the user's column is written before the submission.
SubmitInsertUserFirst(r) ==
  LET u == tx[r].form.user
      k == tx[r].form.kind IN
  /\ At(r, "submit", "insert")
  /\ IF UserRow(u) \notin tx[r].rows
     THEN Free(r, UserRow(u)) /\ Take(r, UserRow(u), "insert")
     ELSE /\ Free(r, PendingKey(u, k))
          /\ \A t \in PendingOf(u, k) : Free(r, SubmissionRow(t))
          /\ IF PendingOf(u, k) # {} THEN Fail(r) ELSE Take(r, PendingKey(u, k), "updateUser")

\* After the wait the index refuses it if the other one still is pending.
SubmitInsert(r) ==
  LET u == tx[r].form.user
      k == tx[r].form.kind IN
  /\ At(r, "submit", "insert") /\ Granted(r)
  /\ IF PendingOf(u, k) # {} THEN Fail(r) ELSE Take(r, PendingKey(u, k), "updateUser")

CommitSubmit(r) ==
  /\ At(r, "submit", "commit")
  /\ submission' = [submission EXCEPT ![tx[r].time] = tx[r].form]
  /\ status' = [status EXCEPT ![tx[r].form.user][tx[r].form.kind] = "PENDING"]
  /\ End(r)

----------------------------------------------------------------------------
(* approveKycForRole, rejectKycForRole and their business twins.           *)

Review(r, t) ==
  /\ t \in Recorded
  /\ \E op \in {"approve", "reject"} : Begin(r, op, "take", t, submission[t])

\* MUTANT: the UPDATE does not ask for status = 'PENDING'.
ReviewTakeAny(r) ==
  /\ tx[r].op \in {"approve", "reject"} /\ tx[r].pc = "take"
  /\ Free(r, SubmissionRow(tx[r].time))
  /\ Take(r, SubmissionRow(tx[r].time), IF tx[r].op = "approve" THEN "identity" ELSE "updateUser")

\* UPDATE ... WHERE id = $1 AND status = 'PENDING', asked again after a wait.
ReviewTake(r) ==
  /\ tx[r].op \in {"approve", "reject"} /\ tx[r].pc = "take" /\ Granted(r)
  /\ IF submission[tx[r].time].status # "PENDING"
     THEN Fail(r)
     ELSE Take(r, SubmissionRow(tx[r].time),
               IF tx[r].op = "approve" THEN "identity" ELSE "updateUser")

Twins(form) == {t \in Recorded : /\ submission[t].status = "APPROVED"
                                 /\ submission[t].kind = form.kind
                                 /\ submission[t].docs \cap form.docs # {}}

\* MUTANT: a SELECT for an approved twin instead of the unique indexes.
ApproveLookUpIdentity(r) ==
  /\ At(r, "approve", "identity")
  /\ IF Twins(tx[r].form) # {} THEN Fail(r) ELSE Goto(r, "updateUser")

\* The same UPDATE, once it has its keys.
ApproveIdentity(r) ==
  /\ At(r, "approve", "identity") /\ Granted(r)
  /\ IF Twins(tx[r].form) # {}
     THEN Fail(r)
     ELSE /\ tx' = [tx EXCEPT ![r].rows = tx[r].rows \cup Needs(r), ![r].pc = "updateUser"]
          /\ UNCHANGED tables

Verdict(op) == IF op = "approve" THEN "APPROVED" ELSE "REJECTED"

CommitReview(r) ==
  /\ tx[r].op \in {"approve", "reject"} /\ tx[r].pc = "commit"
  /\ submission' = [submission EXCEPT ![tx[r].time].status = Verdict(tx[r].op)]
  /\ status' = [status EXCEPT ![tx[r].form.user][tx[r].form.kind] = Verdict(tx[r].op)]
  /\ End(r)

----------------------------------------------------------------------------

\* updateUserKycStatus, updateUserBusinessVerificationStatus.
UpdateUser(r) ==
  /\ tx[r].pc = "updateUser" /\ Granted(r)
  /\ Take(r, UserRow(tx[r].form.user), "commit")

\* A lost connection, a crash, another error.
Abort(r) == tx[r] # Idle /\ Fail(r)

Start(r) ==
  \/ \E u \in User, k \in Kind, docs \in SUBSET Doc : Submit(r, u, k, docs)
  \/ \E t \in Time : Review(r, t)

Proceed(r) ==
  \/ SubmitBegin(r) \/ SubmitFindLatest(r) \/ SubmitFindPending(r) \/ SubmitInsert(r)
  \/ CommitSubmit(r)
  \/ ReviewTake(r) \/ ApproveIdentity(r) \/ CommitReview(r)
  \/ UpdateUser(r)

Next == \E r \in Request : Start(r) \/ Proceed(r) \/ Abort(r)

Spec == Init /\ [][Next]_vars

----------------------------------------------------------------------------
(* Properties.                                                             *)

Row == {SubmissionRow(t) : t \in Time} \cup {PendingKey(u, k) : u \in User, k \in Kind}
         \cup {ApprovedKey(k, d) : k \in Kind, d \in Doc} \cup {UserRow(u) : u \in User}

Transaction ==
  [op : {"submit", "approve", "reject"},
   pc : {"begin", "findLatest", "findPending", "insert", "take", "identity", "updateUser", "commit"},
   time : Time \cup {None}, form : Submission, rows : SUBSET Row]

\* The columns hold their values, and no two requests hold the same row or key.
TypeOK ==
  /\ submission \in [Time -> Submission \cup {None}]
  /\ status \in [User -> [Kind -> UserStatus]]
  /\ tx \in [Request -> Transaction \cup {Idle}]
  /\ \A q, r \in Request : q # r => tx[q].rows \cap tx[r].rows = {}

\* PRODUCTION_CHECKLIST.md: "approved Aadhaar/PAN/GST/license identities cannot
\* be approved twice", whatever approvals run at the same time.
ApprovedIdentityUnique ==
  \A s, t \in Recorded :
    /\ submission[s].status = "APPROVED" /\ submission[t].status = "APPROVED"
    /\ submission[s].kind = submission[t].kind
    /\ submission[s].docs \cap submission[t].docs # {}
    => s = t

\* The user's column says PENDING exactly while one submission awaits review,
\* and never two do.
PendingAgrees ==
  \A u \in User, k \in Kind :
    /\ status[u][k] = "PENDING" <=> PendingOf(u, k) # {}
    /\ \A s, t \in PendingOf(u, k) : s = t

\* README: "Sellers cannot list without approved KYC" and "Jewellers cannot bid
\* without approved KYC and business verification".  The guards read the
\* columns: who passes one has an approved submission on record, and whoever
\* has submitted a business has an approved identity.
Approved(u, k) == \E t \in Of(u, k) : submission[t].status = "APPROVED"
GateSound ==
  \A u \in User :
    /\ \A k \in Kind : status[u][k] = "APPROVED" => Approved(u, k)
    /\ Of(u, "business") # {} => Approved(u, "kyc")

\* Submissions and reviews never wait for each other in a circle: of any that are
\* in flight, one waits for none of them.
InFlight == {r \in Request : tx[r] # Idle}
WaitsFor(r, q) == q # r /\ Needs(r) \cap tx[q].rows # {}
NobodyStuck ==
  \A waiting \in (SUBSET InFlight) \ {{}} :
    \E r \in waiting : \A q \in waiting : ~WaitsFor(r, q)

\* A submission is reviewed once: no step changes a verdict, or what was reviewed.
ReviewsFinal ==
  [][\A t \in Recorded : /\ submission'[t].status # submission[t].status
                           => submission[t].status = "PENDING"
                         /\ submission'[t].docs = submission[t].docs]_vars

\* kyc.service.js:38 tells the user "Your identity verification was rejected.
\* Review the reason and submit KYC again.": a new submission is not refused on
\* the ground that the latest one is approved.
RejectedMayResubmit ==
  \A u \in User, k \in Kind, t \in Time :
    status[u][k] = "REJECTED" /\ IsLatest(t, u, k) => submission[t].status # "APPROVED"

----------------------------------------------------------------------------
(* The inductive invariant: what the requests in flight know.              *)

Reviews == {"approve", "reject"}

\* A submission in flight has a time of its own, which nobody else records.
SubmitState(r) == tx[r].op = "submit" =>
  /\ tx[r].pc \in {"begin", "findLatest", "findPending", "insert", "updateUser", "commit"}
  /\ tx[r].form.status = "PENDING"
  /\ tx[r].form.kind = "business" => Approved(tx[r].form.user, "kyc")
  /\ tx[r].pc # "begin" => tx[r].time \in Time /\ submission[tx[r].time] = None
  /\ tx[r].pc \in {"updateUser", "commit"} =>
       PendingKey(tx[r].form.user, tx[r].form.kind) \in tx[r].rows
  /\ \A q \in Request \ {r} :
       tx[q].op = "submit" /\ tx[r].time \in Time => tx[q].time # tx[r].time

\* A review is of a recorded submission, and what it read of it stays true.
ReviewState(r) == tx[r].op \in Reviews =>
  /\ tx[r].pc \in {"take", "identity", "updateUser", "commit"}
  /\ tx[r].time \in Recorded
  /\ tx[r].form.user = submission[tx[r].time].user
  /\ tx[r].form.kind = submission[tx[r].time].kind
  /\ tx[r].form.docs = submission[tx[r].time].docs
  /\ tx[r].pc # "take" => SubmissionRow(tx[r].time) \in tx[r].rows
  /\ tx[r].op = "approve" /\ tx[r].pc \in {"updateUser", "commit"} =>
       \A d \in tx[r].form.docs : ApprovedKey(tx[r].form.kind, d) \in tx[r].rows

\* A locked submission is pending; a key that is held is nobody else's.
RowsMean(r) ==
  /\ \A t \in Time : SubmissionRow(t) \in tx[r].rows =>
       t \in Recorded /\ submission[t].status = "PENDING"
  /\ \A u \in User, k \in Kind : PendingKey(u, k) \in tx[r].rows => PendingOf(u, k) = {}
  /\ \A k \in Kind, d \in Doc : ApprovedKey(k, d) \in tx[r].rows =>
       \A t \in Recorded : submission[t].status = "APPROVED" /\ submission[t].kind = k
                           => d \notin submission[t].docs

\* What a request in flight read, and means by the rows it holds, is true of the
\* tables whatever has been committed since.
ReadsHold == \A r \in Request : SubmitState(r) /\ ReviewState(r) /\ RowsMean(r)

IInv == TypeOK /\ ReadsHold /\ ApprovedIdentityUnique /\ PendingAgrees /\ GateSound
=============================================================================
