---------------------------- MODULE UserSessions ----------------------------
(***************************************************************************)
(* The refresh-token sessions of one user account: sign-in, rotation,      *)
(* reuse detection, logout, password reset and change, and suspension by   *)
(* an admin (modules/auth and modules/admin of the backend), as PostgreSQL *)
(* transactions that interleave statement by statement and share one       *)
(* connection pool.                                                        *)
(*                                                                         *)
(* The table variables hold committed rows; tx[r] is the transaction of a  *)
(* request in flight, with the rows it has written, which stay locked.     *)
(* An UPDATE over all sessions of the user takes two steps, because it     *)
(* waits: it finds its rows in a snapshot, then writes those of them that  *)
(* still match.  A session inserted in between is not found.  Some         *)
(* handlers run such a statement on the pool, outside their transaction,   *)
(* so that it survives their ROLLBACK: it needs a second connection.       *)
(***************************************************************************)
EXTENDS Naturals, FiniteSets

CONSTANTS
  Token,        \* refresh_tokens rows, one per JWT issued
  ResetToken,   \* password_reset_tokens rows
  Request,      \* bound: requests handled concurrently
  PoolSize,     \* connections of the pg Pool
  MaxPassword,  \* bound: changes of the password
  None

ASSUME PoolSizeNat    == PoolSize \in Nat
ASSUME MaxPasswordNat == MaxPassword \in Nat
ASSUME NoneIsNoToken  == None \notin Token \cup ResetToken
ASSUME RequestFinite  == IsFiniteSet(Request)

VARIABLES
  session,   \* a token's row: revoked_at and expires_at against the clock
  parent,    \* history: the token a rotation exchanged for this one
  signedBy,  \* history: the password the session's owner has last shown
  password,  \* users.password_hash: how many changes it has seen
  account,   \* users.account_status
  reset,     \* password_reset_tokens: consumed_at and expires_at
  tx         \* the requests in flight

tables == <<session, parent, signedBy, password, account, reset>>
vars   == <<session, parent, signedBy, password, account, reset, tx>>

\* "grace": revoked at most REFRESH_REUSE_GRACE_MS ago; "revoked": longer ago.
Live   == {"active", "expired"}
Status == {"none", "grace", "revoked"} \cup Live

Op == {"login", "refresh", "logoutAll", "reset", "change", "block"}
Statement == {"recordFailure", "findUser", "revokeOne", "rotate", "updateUser", "consume",
              "snapshot", "snapshotOnPool", "revokeAll", "revokeAllOnPool", "commit"}

SessionRow(t) == <<"session", t>>
ResetRow(k)   == <<"reset", k>>
UserRow       == <<"user">>

\* arg: the token presented.  shown: the password given at sign-in.  found: the snapshot of
\* the statement that waits.  began (history): the live sessions at the start.
Idle == [op |-> "idle", arg |-> None, pc |-> "idle", shown |-> 0,
         rows |-> {}, found |-> {}, began |-> {}]

Init ==
  /\ session = [t \in Token |-> "none"]
  /\ parent = [t \in Token |-> None]
  /\ signedBy = [t \in Token |-> 0]
  /\ password = 0
  /\ account = "ACTIVE"
  /\ reset = [k \in ResetToken |-> "none"]
  /\ tx = [r \in Request |-> Idle]

----------------------------------------------------------------------------
(* Transactions and connections.                                           *)

LiveSessions == {t \in Token : session[t] \in Live}

At(r, op, pc) == tx[r].op = op /\ tx[r].pc = pc

\* A transaction holds a connection, and a second one for a statement that it
\* runs on the pool.
Connections == Cardinality({r \in Request : tx[r] # Idle})
             + Cardinality({r \in Request : tx[r].pc = "revokeAllOnPool"})

Spare == Connections < PoolSize

Begin(r, op, arg, pc) ==
  /\ tx[r] = Idle /\ Spare
  /\ tx' = [tx EXCEPT ![r] = [op |-> op, arg |-> arg, pc |-> pc,
                               shown |-> IF op = "login" THEN password ELSE 0,
                               rows |-> {}, found |-> {}, began |-> LiveSessions]]
  /\ UNCHANGED tables

\* A statement that is a transaction of its own waits for all others.
FreeOnPool(row) == \A q \in Request : row \notin tx[q].rows

\* The statements that a request runs on the pool, and the rows that its next
\* statement writes.
OnPool == {"recordFailure", "revokeOne", "snapshotOnPool", "revokeAllOnPool"}
Needs(r) ==
  CASE tx[r].pc \in {"revokeOne", "rotate"}          -> {SessionRow(tx[r].arg)}
    [] tx[r].pc \in {"revokeAll", "revokeAllOnPool"} -> {SessionRow(t) : t \in tx[r].found}
    [] tx[r].pc = "updateUser"                       -> {UserRow}
    [] tx[r].pc = "consume"                          -> {ResetRow(tx[r].arg)}
    [] OTHER                                         -> {}

\* A transaction does not wait for itself, but its statement on the pool does.
InTheWay(q, r) == (q # r \/ tx[r].pc \in OnPool) /\ Needs(r) \cap tx[q].rows # {}
Granted(r) == \A q \in Request : ~InTheWay(q, r)

\* The next statement, and the row that the last one has written.
Goto(r, pc)  == tx' = [tx EXCEPT ![r].pc = pc] /\ UNCHANGED tables
Lock(r, row, pc) ==
  /\ tx' = [tx EXCEPT ![r].pc = pc, ![r].rows = tx[r].rows \cup {row}]
  /\ UNCHANGED tables

End(r)  == tx' = [tx EXCEPT ![r] = Idle]
Fail(r) == End(r) /\ UNCHANGED tables

\* MUTANT: SET revoked_at = now().
RevokedAnew(s) == IF s = "none" THEN s ELSE "grace"

\* SET revoked_at = COALESCE(revoked_at, now()).
Revoked(s) == IF s \in Live THEN "grace" ELSE s

\* The sessions as the commit of r leaves them.
Publish(r) == [t \in Token |-> IF SessionRow(t) \in tx[r].rows
                               THEN Revoked(session[t]) ELSE session[t]]

----------------------------------------------------------------------------
(* Revoking all sessions: snapshot, then wait and write.                   *)

Snapshot(r) ==
  /\ tx[r].pc = "snapshot"
  /\ LET kept == IF tx[r].op = "change" THEN {tx[r].arg} ELSE {} IN
     tx' = [tx EXCEPT ![r].found = LiveSessions \ kept, ![r].pc = "revokeAll"]
  /\ UNCHANGED tables

SnapshotOnPool(r) ==
  /\ tx[r].pc = "snapshotOnPool" /\ Spare
  /\ tx' = [tx EXCEPT ![r].found = LiveSessions, ![r].pc = "revokeAllOnPool"]
  /\ UNCHANGED tables

RevokeAll(r) ==
  /\ tx[r].pc = "revokeAll" /\ Granted(r)
  /\ tx' = [tx EXCEPT ![r].pc = "commit", ![r].found = {},
                      ![r].rows = tx[r].rows \cup
                        {SessionRow(t) : t \in tx[r].found \cap LiveSessions}]
  /\ UNCHANGED tables

\* MUTANT: the statement runs in the transaction, which the error rolls back.
RevokeAllRolledBack(r) == tx[r].pc = "revokeAllOnPool" /\ Fail(r)

\* Committed at once; the handler then throws.
RevokeAllOnPool(r) ==
  /\ tx[r].pc = "revokeAllOnPool" /\ Granted(r)
  /\ session' = [t \in Token |-> IF t \in tx[r].found THEN Revoked(session[t]) ELSE session[t]]
  /\ End(r)
  /\ UNCHANGED <<parent, signedBy, password, account, reset>>

----------------------------------------------------------------------------
(* Sign-in.                                                                *)

\* The user types the current password or another one.
Login(r) ==
  \/ account = "ACTIVE" /\ Begin(r, "login", None, "commit")
  \/ Begin(r, "login", None, "recordFailure")

\* The failure is recorded on the pool, and the handler throws.
LoginRecordFailure(r) == At(r, "login", "recordFailure") /\ Spare /\ Fail(r)

\* (A request that finds every token of the bound issued gives up.)
Exhausted(r) == (\A t \in Token : session[t] # "none") /\ Fail(r)

CommitLogin(r) ==
  /\ At(r, "login", "commit")
  /\ \/ Exhausted(r)
     \/ /\ \E t \in Token :
             /\ session[t] = "none"
             /\ session' = [session EXCEPT ![t] = "active"]
             /\ signedBy' = [signedBy EXCEPT ![t] = tx[r].shown]
        /\ End(r)
        /\ UNCHANGED <<parent, password, account, reset>>

----------------------------------------------------------------------------
(* Rotation.                                                               *)

\* refreshUserSession reads the row of the presented token.  (One in its grace
\* period is refused, and nothing changes.)
Refresh(r, t) ==
  \/ session[t] = "active"  /\ Begin(r, "refresh", t, "findUser")
  \/ session[t] = "expired" /\ Begin(r, "refresh", t, "revokeOne")
  \/ session[t] = "revoked" /\ Begin(r, "refresh", t, "snapshotOnPool")

\* MUTANT: the reads lock the token's row (FOR UPDATE), which the statement on
\* the pool then waits for.
RefreshFindUserForUpdate(r) ==
  /\ At(r, "refresh", "findUser")
  /\ \A q \in Request \ {r} : SessionRow(tx[r].arg) \notin tx[q].rows
  /\ Lock(r, SessionRow(tx[r].arg), IF account = "ACTIVE" THEN "rotate" ELSE "snapshotOnPool")

RefreshFindUser(r) ==
  /\ At(r, "refresh", "findUser")
  /\ Goto(r, IF account = "ACTIVE" THEN "rotate" ELSE "snapshotOnPool")

\* On the pool, then the handler throws.
RefreshRevokeExpired(r) ==
  /\ At(r, "refresh", "revokeOne") /\ Spare /\ Granted(r)
  /\ session' = [session EXCEPT ![tx[r].arg] = Revoked(@)]
  /\ End(r)
  /\ UNCHANGED <<parent, signedBy, password, account, reset>>

\* MUTANT: FOR UPDATE SKIP LOCKED, and the result is not looked at.
RefreshRotateSkipLocked(r) ==
  /\ At(r, "refresh", "rotate")
  /\ \/ Granted(r) /\ Lock(r, SessionRow(tx[r].arg), "commit")
     \/ ~Granted(r) /\ Goto(r, "commit")

RefreshRotate(r) ==
  /\ At(r, "refresh", "rotate") /\ Granted(r)
  /\ Lock(r, SessionRow(tx[r].arg), "commit")

CommitRefresh(r) ==
  /\ At(r, "refresh", "commit")
  /\ \/ Exhausted(r)
     \/ /\ \E t \in Token :
             /\ session[t] = "none"
             /\ session' = [Publish(r) EXCEPT ![t] = "active"]
             /\ parent' = [parent EXCEPT ![t] = tx[r].arg]
             /\ signedBy' = [signedBy EXCEPT ![t] = signedBy[tx[r].arg]]
        /\ End(r)
        /\ UNCHANGED <<password, account, reset>>

\* A single UPDATE.
Logout(t) ==
  /\ session[t] # "none" /\ Spare /\ FreeOnPool(SessionRow(t))
  /\ session' = [session EXCEPT ![t] = Revoked(@)]
  /\ UNCHANGED <<parent, signedBy, password, account, reset, tx>>

LogoutAll(r) == account = "ACTIVE" /\ Begin(r, "logoutAll", None, "snapshot")

CommitLogoutAll(r) ==
  /\ At(r, "logoutAll", "commit")
  /\ session' = Publish(r)
  /\ End(r)
  /\ UNCHANGED <<parent, signedBy, password, account, reset>>

----------------------------------------------------------------------------
(* The password.                                                           *)

RequestPasswordReset(k) ==
  /\ reset[k] = "none" /\ account = "ACTIVE"
  /\ reset' = [reset EXCEPT ![k] = "valid"]
  /\ UNCHANGED <<session, parent, signedBy, password, account, tx>>

ResetPassword(r, k) == reset[k] = "valid" /\ Begin(r, "reset", k, "findUser")

ResetFindUser(r) ==
  /\ At(r, "reset", "findUser")
  /\ IF account = "ACTIVE" THEN Goto(r, "updateUser") ELSE Fail(r)

\* t is the session of the browser, kept, or None when it has none that is live.  The
\* user knows the current password; a wrong one changes nothing.
ChangePassword(r, t) == account = "ACTIVE" /\ Begin(r, "change", t, "updateUser")

\* (The bound MaxPassword makes a request give up.)
UpdateUser(r) ==
  /\ tx[r].pc = "updateUser"
  /\ IF tx[r].op \in {"reset", "change"} /\ password = MaxPassword
     THEN Fail(r)
     ELSE Granted(r) /\ Lock(r, UserRow, IF tx[r].op = "reset" THEN "consume" ELSE "snapshot")

ResetConsume(r) ==
  /\ At(r, "reset", "consume") /\ Granted(r)
  /\ Lock(r, ResetRow(tx[r].arg), "snapshot")

CommitReset(r) ==
  /\ At(r, "reset", "commit")
  /\ password' = password + 1
  /\ reset' = [reset EXCEPT ![tx[r].arg] = "consumed"]
  /\ session' = Publish(r)
  /\ End(r)
  /\ UNCHANGED <<parent, signedBy, account>>

CommitChange(r) ==
  /\ At(r, "change", "commit")
  /\ password' = password + 1
  /\ session' = Publish(r)
  /\ signedBy' = [t \in Token |-> IF t = tx[r].arg THEN password + 1 ELSE signedBy[t]]
  /\ End(r)
  /\ UNCHANGED <<parent, account, reset>>

----------------------------------------------------------------------------
(* Administration, time and failures.                                      *)

BlockUser(r) == account = "ACTIVE" /\ Begin(r, "block", None, "updateUser")

CommitBlock(r) ==
  /\ At(r, "block", "commit")
  /\ account' = "SUSPENDED"
  /\ session' = Publish(r)
  /\ End(r)
  /\ UNCHANGED <<parent, signedBy, password, reset>>

UnblockUser ==
  /\ account = "SUSPENDED"
  /\ FreeOnPool(UserRow)
  /\ account' = "ACTIVE"
  /\ UNCHANGED <<session, parent, signedBy, password, reset, tx>>

Expire(t) ==
  /\ session[t] = "active"
  /\ session' = [session EXCEPT ![t] = "expired"]
  /\ UNCHANGED <<parent, signedBy, password, account, reset, tx>>

GraceEnds(t) ==
  /\ session[t] = "grace"
  /\ session' = [session EXCEPT ![t] = "revoked"]
  /\ UNCHANGED <<parent, signedBy, password, account, reset, tx>>

\* A lost connection, a crash, a violated constraint.
Abort(r) == tx[r] # Idle /\ Fail(r)

Start(r) ==
  \/ Login(r) \/ LogoutAll(r) \/ BlockUser(r)
  \/ \E t \in Token : Refresh(r, t)
  \/ \E k \in ResetToken : ResetPassword(r, k)
  \/ \E t \in LiveSessions \cup {None} : ChangePassword(r, t)

Proceed(r) ==
  \/ LoginRecordFailure(r) \/ CommitLogin(r)
  \/ RefreshFindUser(r) \/ RefreshRevokeExpired(r) \/ RefreshRotate(r) \/ CommitRefresh(r)
  \/ Snapshot(r) \/ SnapshotOnPool(r) \/ RevokeAll(r) \/ RevokeAllOnPool(r) \/ CommitLogoutAll(r)
  \/ UpdateUser(r) \/ ResetFindUser(r) \/ ResetConsume(r) \/ CommitReset(r) \/ CommitChange(r)
  \/ CommitBlock(r)

Next ==
  \/ \E r \in Request : Start(r) \/ Proceed(r) \/ Abort(r)
  \/ \E t \in Token : Logout(t) \/ Expire(t) \/ GraceEnds(t)
  \/ \E k \in ResetToken : RequestPasswordReset(k)
  \/ UnblockUser

Spec == Init /\ [][Next]_vars

----------------------------------------------------------------------------
(* Properties.                                                             *)

Transaction == [op : Op, arg : Token \cup ResetToken \cup {None}, pc : Statement,
                shown : 0..MaxPassword,
                rows : SUBSET ({SessionRow(t) : t \in Token} \cup {ResetRow(k) : k \in ResetToken}
                                 \cup {UserRow}),
                found : SUBSET Token, began : SUBSET Token]

\* The columns hold their values, and the pool never lends a connection twice.
TypeOK ==
  /\ session \in [Token -> Status]
  /\ parent \in [Token -> Token \cup {None}]
  /\ signedBy \in [Token -> 0..MaxPassword]
  /\ password \in 0..MaxPassword
  /\ account \in {"ACTIVE", "SUSPENDED"}
  /\ reset \in [ResetToken -> {"none", "valid", "consumed"}]
  /\ tx \in [Request -> Transaction \cup {Idle}]
  /\ Connections <= PoolSize

\* Rotation: whatever ran at the same time, once the successor of a refresh
\* token exists the token itself is dead.
RotatedIsDead == \A t \in Token : parent[t] # None => session[parent[t]] \in {"grace", "revoked"}

\* The steps by which a request tells its caller that the sessions are over.
EndsSessions(r) ==
  \/ CommitLogoutAll(r) \/ CommitReset(r) \/ CommitChange(r) \/ CommitBlock(r)
  \/ RevokeAllOnPool(r)

\* Logout everywhere, a new password, a suspension, a reused token: no session
\* that was live when the request began outlives it, but for the one kept by a
\* change of password, although rotations lock and replace them meanwhile.
RevocationIsTotal ==
  [][\A r \in Request : EndsSessions(r) =>
       \A t \in tx[r].began : session'[t] \notin Live \/ (tx[r].op = "change" /\ t = tx[r].arg)]_vars

\* A revoked token never lives again, and its grace period is given once: a
\* rotation, a logout or a revocation of all sessions that read the token as live,
\* and writes after another has revoked it and the grace has passed, must not give
\* a thief's use of it a second grace, in which it is refused and nothing more.
GraceOnce ==
  [][\A t \in Token : /\ session[t] = "revoked" => session'[t] = "revoked"
                      /\ session[t] = "grace" => session'[t] \in {"grace", "revoked"}]_vars

\* Requests that wait for a row, for a second connection or for the statement
\* that they run on the pool never wait in a circle: of any that are in flight, one
\* waits for none of them.  And while the pool can lend a connection to each
\* request and one more, a second one that is not to be had is in use.
InFlight == {r \in Request : tx[r] # Idle}
WaitsFor(r, q) ==
  \/ InTheWay(q, r)
  \/ tx[r].pc \in OnPool \ {"revokeAllOnPool"} /\ ~Spare /\ tx[q].pc = "revokeAllOnPool"
NobodyStuck ==
  /\ \A waiting \in (SUBSET InFlight) \ {{}} :
       \E r \in waiting : \A q \in waiting : ~WaitsFor(r, q)
  /\ Cardinality(Request) < PoolSize /\ ~Spare =>
       \E q \in Request : tx[q].pc = "revokeAllOnPool"

\* auth.service.test.js:146 "resets a valid token and revokes active refresh
\* tokens": who knows the new password, and nobody else, is signed in.
ResetEndsSessions ==
  (\A r \in Request : tx[r] = Idle) =>
    \A t \in Token : session[t] = "active" => signedBy[t] = password
=============================================================================
