---------------------------- MODULE AdminAccounts ----------------------------
(***************************************************************************)
(* The accounts of administrators (modules/admin): sign-in with password   *)
(* and second factor, rotation and reuse of refresh tokens, sign-out, MFA  *)
(* enrolment, change of the password, creation and suspension of           *)
(* sub-admins, and the script that bootstraps MFA.                         *)
(*                                                                         *)
(* Each SQL statement that reads or locks a row is a step.  The table      *)
(* variables hold committed rows; tx[r].rows are the rows that r has       *)
(* written and holds, tx[r].new what it wrote to its admin.  A comparison  *)
(* of a password or a code may go either way.  Roles are left out: only a  *)
(* super admin has the permission to create and suspend, and no role that  *)
(* an API call assigns carries it.  Audit rows are left out too.           *)
(***************************************************************************)
EXTENDS Naturals, FiniteSets

CONSTANTS
  Admin,        \* e-mail addresses of administrators
  Seeded,       \* the super admin that seedAdminFoundation creates
  Session,      \* bound: refresh tokens
  Batch,        \* bound: sets of recovery codes, each seen as one code
  MaxKey,       \* bound: TOTP secrets generated
  MaxAttempts,  \* adminLoginMaxAttempts
  MfaRequired,  \* adminMfaRequired
  Request,      \* bound: requests handled concurrently
  Offers,       \* bound: the operations that one behaviour may combine
  None

ASSUME OneSeeded == Seeded \in Admin
ASSUME LimitsNat == MaxKey \in Nat \ {0} /\ MaxAttempts \in Nat \ {0}
ASSUME MfaPolicy == MfaRequired \in BOOLEAN
ASSUME NoneIsNothing ==
  /\ None \notin Admin \cup Session \cup Batch
  /\ None \notin [owner : Admin, used : BOOLEAN]
  /\ None \notin [owner : Admin, state : {"active", "revoked", "expired"}]

VARIABLES
  admin,    \* admin_users
  batch,    \* admin_mfa_recovery_codes: owner, and whether consumed
  session,  \* admin_sessions: owner and state
  access,   \* admins with an access token that has not expired
  keys,     \* TOTP secrets generated so far
  proven,   \* history: secrets handed out complete, or confirmed by a code
  entered,  \* history: sign-ins by each recovery code
  wrong,    \* history: failed factors of each admin since its last sign-in
  offer,    \* bound: the member of Offers that this behaviour draws on
  tx        \* the requests in flight

tables  == <<admin, batch, session, access>>
history == <<proven, entered, wrong>>
vars    == <<admin, batch, session, access, keys, proven, entered, wrong, offer, tx>>

Key == 1..MaxKey

NoAdmin == [status |-> "none", failed |-> 0, locked |-> FALSE, secret |-> None, mfa |-> FALSE]
Idle    == [op |-> "idle", pc |-> "idle", who |-> None, token |-> None, batch |-> None,
            key |-> None, status |-> None, seen |-> NoAdmin, new |-> NoAdmin,
            targets |-> {}, rows |-> {}]

Init ==
  /\ \E mfa \in BOOLEAN :
       /\ MfaRequired => mfa
       /\ keys = IF mfa THEN 1 ELSE 0
       /\ proven = 1..keys
       /\ admin = [a \in Admin |->
            IF a = Seeded
            THEN [NoAdmin EXCEPT !.status = "ACTIVE", !.mfa = mfa, !.secret = IF mfa THEN 1 ELSE None]
            ELSE NoAdmin]
  /\ batch = [b \in Batch |-> None]
  /\ session = [s \in Session |-> None]
  /\ access = {}
  /\ entered = [b \in Batch |-> 0]
  /\ wrong = [a \in Admin |-> 0]
  /\ offer \in Offers
  /\ tx = [r \in Request |-> Idle]

----------------------------------------------------------------------------
(* Transactions.                                                           *)

AdminRow(a)   == <<"admin", a>>
BatchRow(b)   == <<"batch", b>>
SessionRow(s) == <<"session", s>>

At(r, pc)     == tx[r].pc = pc
Free(r, rows) == \A q \in Request \ {r} : tx[q].rows \cap rows = {}
Goto(r, pc)   == tx' = [tx EXCEPT ![r].pc = pc]
End(r)        == tx' = [tx EXCEPT ![r] = Idle]

\* A statement of r that writes rows, once no other request holds them.
Write(r, rows, pc) ==
  /\ Free(r, rows)
  /\ tx' = [tx EXCEPT ![r].rows = @ \cup rows, ![r].pc = pc]

\* A statement of r that makes row of its admin.
Update(r, row, pc) ==
  /\ Free(r, {AdminRow(tx[r].who)})
  /\ tx' = [tx EXCEPT ![r].rows = @ \cup {AdminRow(tx[r].who)}, ![r].new = row, ![r].pc = pc]

Begin(r, request) ==
  /\ tx[r] = Idle /\ request.op \in offer
  /\ tx' = [tx EXCEPT ![r] = request]
  /\ UNCHANGED <<tables, keys, history, offer>>

\* requireAdminAuth reads the row of the bearer.
Bearer(a) == a \in access /\ admin[a].status = "ACTIVE"

ActiveSessions(a) == {s \in Session : session[s] # None /\ session[s].owner = a
                                      /\ session[s].state = "active"}
OpenCodes(a)      == {b \in Batch : batch[b] # None /\ batch[b].owner = a /\ ~batch[b].used}

----------------------------------------------------------------------------
(* Sign-in (loginAdmin).                                                   *)

LoginAdmin(r) ==
  \E a \in Admin : Begin(r, [Idle EXCEPT !.op = "login", !.pc = "find", !.who = a])

IsLockActive(row) == row.status = "LOCKED" /\ row.locked

\* What may follow on the row that was read, the lock, the password and a TOTP code
\* having been checked.  No committed row has a locked_until, so unlockExpiredAdminLock
\* finds nothing.
Outcomes(row) ==
  IF row.status \in {"none", "SUSPENDED"} \/ IsLockActive(row) THEN {"refuse"}
  ELSE {"failed"} \cup (IF row.mfa THEN {"refuse", "code", "success"}
                        ELSE IF MfaRequired THEN {"refuse"} ELSE {"success"})

FindAdmin(r) ==
  /\ At(r, "find")
  /\ \E pc \in Outcomes(admin[tx[r].who]) :
       IF pc = "refuse" THEN End(r)
       ELSE \E b \in IF pc = "code" THEN Batch ELSE {None} :
              tx' = [tx EXCEPT ![r].pc = pc, ![r].batch = b]
  /\ UNCHANGED <<tables, keys, history, offer>>

\* MUTANT: the code is compared when it is read and consumed without a condition.
ConsumeUnconditionally(r) ==
  LET b == tx[r].batch IN
  /\ At(r, "code")
  /\ IF batch[b] # None /\ batch[b].owner = tx[r].who
     THEN Write(r, {BatchRow(b)}, "success") ELSE Goto(r, "failed")
  /\ UNCHANGED <<tables, keys, history, offer>>

\* consumeAdminRecoveryCode.
ConsumeRecoveryCode(r) ==
  LET b == tx[r].batch IN
  /\ At(r, "code")
  /\ Free(r, {BatchRow(b)})
  /\ IF b \in OpenCodes(tx[r].who) THEN Write(r, {BatchRow(b)}, "success") ELSE Goto(r, "failed")
  /\ UNCHANGED <<tables, keys, history, offer>>

\* updateAdminFailedLogin.  The error that follows rolls it back.
RecordFailedLogin(r) ==
  LET row  == admin[tx[r].who]
      full == row.failed + 1 >= MaxAttempts IN
  /\ At(r, "failed")
  /\ Update(r, [row EXCEPT !.failed = @ + 1, !.locked = full \/ @,
                           !.status = IF full THEN "LOCKED" ELSE @], "throw")
  /\ UNCHANGED <<tables, keys, history, offer>>

Unlocked(row) == IF row.status = "LOCKED" THEN "ACTIVE" ELSE row.status

\* MUTANT: the status that the sign-in was judged by is written back.
LoginSuccessAsRead(r) ==
  /\ At(r, "success")
  /\ Update(r, [admin[tx[r].who] EXCEPT !.failed = 0, !.locked = FALSE, !.status = "ACTIVE"],
            "commit")
  /\ UNCHANGED <<tables, keys, history, offer>>

\* updateAdminLoginSuccess.
LoginSuccess(r) ==
  LET row == admin[tx[r].who] IN
  /\ At(r, "success")
  /\ Update(r, [row EXCEPT !.failed = 0, !.locked = FALSE, !.status = Unlocked(row)], "commit")
  /\ UNCHANGED <<tables, keys, history, offer>>

----------------------------------------------------------------------------
(* Sessions (refreshAdminSession, logoutAdmin).                            *)

RefreshAdminSession(r) ==
  \E s \in Session :
    /\ session[s] # None
    /\ Begin(r, [Idle EXCEPT !.op = "refresh", !.pc = "token", !.token = s,
                             !.who = session[s].owner])

\* A revoked token is refused, within the grace period or after it.
FindSession(r) ==
  /\ At(r, "token")
  /\ CASE session[tx[r].token].state = "active"  -> Goto(r, "owner")
       [] session[tx[r].token].state = "revoked" -> End(r) \/ Goto(r, "reuse")
       [] OTHER                                  -> End(r)
  /\ UNCHANGED <<tables, keys, history, offer>>

FindOwner(r) ==
  /\ At(r, "owner")
  /\ IF admin[tx[r].who].status = "ACTIVE" THEN Goto(r, "rotate") ELSE End(r)
  /\ UNCHANGED <<tables, keys, history, offer>>

\* revokeAdminSessionByTokenHash.
RevokeSession(r) ==
  /\ At(r, "rotate")
  /\ Write(r, {SessionRow(tx[r].token)}, "commit")
  /\ UNCHANGED <<tables, keys, history, offer>>

LogoutAdmin(r) ==
  \E s \in Session :
    /\ session[s] # None
    /\ Begin(r, [Idle EXCEPT !.op = "logout", !.pc = "rotate", !.token = s,
                             !.who = session[s].owner])

\* revokeAllActiveAdminSessions: the sessions that its snapshot shows active ...
SnapshotSessions(r) ==
  /\ tx[r].pc \in {"reuse", "revokeAll"}
  /\ tx' = [tx EXCEPT ![r].pc = IF @ = "reuse" THEN "revokeReused" ELSE "revokeSessions",
                      ![r].targets = {SessionRow(s) : s \in ActiveSessions(tx[r].who)}]
  /\ UNCHANGED <<tables, keys, history, offer>>

\* ... are revoked when nobody else holds them.  After a reuse, the error that follows
\* rolls that back.
RevokeSessions(r) ==
  /\ tx[r].pc \in {"revokeReused", "revokeSessions"}
  /\ Write(r, tx[r].targets, IF tx[r].pc = "revokeReused" THEN "throw" ELSE "commit")
  /\ UNCHANGED <<tables, keys, history, offer>>

Expire(s) ==
  /\ session[s] # None /\ session[s].state = "active"
  /\ session' = [session EXCEPT ![s].state = "expired"]
  /\ UNCHANGED <<admin, batch, access, keys, history, offer, tx>>

AccessEnds(a) ==
  /\ access' = access \ {a} /\ a \in access
  /\ UNCHANGED <<admin, batch, session, keys, history, offer, tx>>

----------------------------------------------------------------------------
(* A bearer's own account.                                                 *)

BeginMfaSetup(r) ==
  \E a \in Admin :
    Bearer(a) /\ Begin(r, [Idle EXCEPT !.op = "beginMfa", !.pc = "read", !.who = a])
ConfirmMfaSetup(r) ==
  \E a \in Admin, k \in 1..keys :
    Bearer(a) /\ Begin(r, [Idle EXCEPT !.op = "confirmMfa", !.pc = "read", !.who = a, !.key = k])
ChangePassword(r) ==
  \E a \in Admin :
    Bearer(a) /\ Begin(r, [Idle EXCEPT !.op = "changePassword", !.pc = "read", !.who = a])

\* scripts/bootstrapAdminMfa.js.
BootstrapMfa(r) ==
  \E a \in Admin : Begin(r, [Idle EXCEPT !.op = "bootstrap", !.pc = "read", !.who = a])

\* findAdminById, and the check of the password; a confirmation instead checks a code
\* of the secret that it read.
ReadOwn(r) ==
  LET a == tx[r].who IN
  /\ At(r, "read")
  /\ IF admin[a].status # "ACTIVE" THEN End(r) /\ UNCHANGED proven
     ELSE IF tx[r].op = "confirmMfa"
     THEN IF admin[a].secret = tx[r].key
          THEN /\ tx' = [tx EXCEPT ![r].pc = "write", ![r].seen = admin[a]]
               /\ proven' = proven \cup {tx[r].key}
          ELSE End(r) /\ UNCHANGED proven
     ELSE (End(r) \/ Goto(r, "write")) /\ UNCHANGED proven
  /\ UNCHANGED <<tables, keys, entered, wrong, offer>>

\* updateAdminMfaSecret of beginAdminMfaSetup, and the UPDATE of the script.
SetSecret(r) ==
  LET boot == tx[r].op = "bootstrap" IN
  /\ At(r, "write") /\ tx[r].op \in {"beginMfa", "bootstrap"}
  /\ keys < MaxKey
  /\ keys' = keys + 1
  /\ proven' = IF boot THEN proven \cup {keys'} ELSE proven
  /\ Update(r, [admin[tx[r].who] EXCEPT !.secret = keys', !.mfa = boot],
            IF boot THEN "replace" ELSE "commit")
  /\ UNCHANGED <<tables, entered, wrong, offer>>

\* MUTANT: the confirmation enables whatever secret the row has.
EnableOnly(r) ==
  /\ At(r, "write") /\ tx[r].op = "confirmMfa"
  /\ Update(r, [admin[tx[r].who] EXCEPT !.mfa = TRUE], "replace")
  /\ UNCHANGED <<tables, keys, history, offer>>

\* updateAdminMfaSecret of confirmAdminMfaSetup writes back the secret that was read.
EnableMfa(r) ==
  /\ At(r, "write") /\ tx[r].op = "confirmMfa"
  /\ Update(r, [admin[tx[r].who] EXCEPT !.secret = tx[r].seen.secret, !.mfa = TRUE], "replace")
  /\ UNCHANGED <<tables, keys, history, offer>>

\* replaceAdminRecoveryCodes: the codes that its snapshot shows unused ...
SnapshotCodes(r) ==
  /\ At(r, "replace")
  /\ tx' = [tx EXCEPT ![r].pc = "replaceCodes",
                      ![r].targets = {BatchRow(b) : b \in OpenCodes(tx[r].who)}]
  /\ UNCHANGED <<tables, keys, history, offer>>

\* ... are consumed, and new ones inserted.
ReplaceCodes(r) ==
  /\ At(r, "replaceCodes")
  /\ Write(r, tx[r].targets, "commit")
  /\ UNCHANGED <<tables, keys, history, offer>>

\* updateAdminPassword.
UpdatePassword(r) ==
  LET row == admin[tx[r].who] IN
  /\ At(r, "write") /\ tx[r].op = "changePassword"
  /\ Update(r, [row EXCEPT !.failed = 0, !.locked = FALSE, !.status = Unlocked(row)], "revokeAll")
  /\ UNCHANGED <<tables, keys, history, offer>>

----------------------------------------------------------------------------
(* Sub-admins.                                                             *)

\* findAdminByEmail finds nobody.
CreateSubAdmin(r) ==
  \E a \in Admin :
    /\ Bearer(Seeded) /\ admin[a].status = "none"
    /\ Begin(r, [Idle EXCEPT !.op = "create", !.pc = "insert", !.who = a])

\* createAdminUser: the e-mail address is unique.
InsertAdmin(r) ==
  /\ At(r, "insert")
  /\ Free(r, {AdminRow(tx[r].who)})
  /\ MfaRequired => keys < MaxKey
  /\ IF admin[tx[r].who].status # "none"
     THEN End(r) /\ UNCHANGED <<keys, proven>>
     ELSE /\ keys' = IF MfaRequired THEN keys + 1 ELSE keys
          /\ proven' = proven \cup {k \in Key : MfaRequired /\ k = keys'}
          /\ Update(r, [NoAdmin EXCEPT !.status = "ACTIVE", !.mfa = MfaRequired,
                                       !.secret = IF MfaRequired THEN keys' ELSE None], "commit")
  /\ UNCHANGED <<tables, entered, wrong, offer>>

\* Nobody suspends himself, and the only super admin is the one who may suspend.
UpdateSubAdminStatus(r) ==
  \E a \in Admin \ {Seeded}, status \in {"ACTIVE", "SUSPENDED", "LOCKED"} :
    /\ Bearer(Seeded) /\ admin[a].status # "none"
    /\ Begin(r, [Idle EXCEPT !.op = "setStatus", !.pc = "status", !.who = a, !.status = status])

\* updateAdminStatus.
SetStatus(r) ==
  /\ At(r, "status")
  /\ Update(r, [admin[tx[r].who] EXCEPT !.status = tx[r].status,
                                        !.locked = @ /\ tx[r].status = "LOCKED"], "commit")
  /\ UNCHANGED <<tables, keys, history, offer>>

----------------------------------------------------------------------------
(* COMMIT publishes; an error, or a throw, leaves what was committed.      *)

Issues(t) == t.op \in {"confirmMfa", "bootstrap"} \cup (IF MfaRequired THEN {"create"} ELSE {})
Opens(t)  == t.op \in {"login", "refresh"}

Commit(r) ==
  LET t == tx[r] IN
  /\ At(r, "commit")
  /\ admin' = IF AdminRow(t.who) \in t.rows THEN [admin EXCEPT ![t.who] = t.new] ELSE admin
  /\ \E new \in IF Issues(t) THEN {b \in Batch : batch[b] = None} ELSE {None} :
       batch' = [b \in Batch |->
         IF b = new THEN [owner |-> t.who, used |-> FALSE]
         ELSE IF BatchRow(b) \in t.rows THEN [batch[b] EXCEPT !.used = TRUE] ELSE batch[b]]
  /\ \E new \in IF Opens(t) THEN {s \in Session : session[s] = None} ELSE {None} :
       session' = [s \in Session |->
         IF s = new THEN [owner |-> t.who, state |-> "active"]
         ELSE IF SessionRow(s) \in t.rows THEN [session[s] EXCEPT !.state = "revoked"]
         ELSE session[s]]
  /\ access' = IF Opens(t) THEN access \cup {t.who} ELSE access
  /\ entered' = IF t.op = "login" /\ t.batch # None THEN [entered EXCEPT ![t.batch] = @ + 1]
                ELSE entered
  /\ wrong' = IF t.op = "login" THEN [wrong EXCEPT ![t.who] = 0] ELSE wrong
  /\ End(r)
  /\ UNCHANGED <<keys, proven, offer>>

\* The handler throws after it has recorded a refusal, and withTransaction rolls back.
Throw(r) ==
  /\ At(r, "throw")
  /\ wrong' = IF tx[r].op = "login"
              THEN [wrong EXCEPT ![tx[r].who] = IF @ < MaxAttempts THEN @ + 1 ELSE @] ELSE wrong
  /\ End(r)
  /\ UNCHANGED <<tables, keys, proven, entered, offer>>

Abort(r) ==
  /\ tx[r] # Idle /\ ~At(r, "throw")
  /\ End(r)
  /\ UNCHANGED <<tables, keys, history, offer>>

----------------------------------------------------------------------------

Start(r)      == LoginAdmin(r) \/ RefreshAdminSession(r) \/ LogoutAdmin(r) \/ BeginMfaSetup(r)
                 \/ ConfirmMfaSetup(r) \/ ChangePassword(r) \/ BootstrapMfa(r)
                 \/ CreateSubAdmin(r) \/ UpdateSubAdminStatus(r)
LoginStep(r)  == FindAdmin(r) \/ ConsumeRecoveryCode(r) \/ RecordFailedLogin(r) \/ LoginSuccess(r)
TokenStep(r)  == FindSession(r) \/ FindOwner(r) \/ RevokeSession(r) \/ SnapshotSessions(r)
                 \/ RevokeSessions(r)
OwnStep(r)    == ReadOwn(r) \/ SetSecret(r) \/ EnableMfa(r) \/ SnapshotCodes(r) \/ ReplaceCodes(r)
                 \/ UpdatePassword(r)
StaffStep(r)  == InsertAdmin(r) \/ SetStatus(r)

Next ==
  \/ \E r \in Request :
       \/ Start(r) \/ LoginStep(r) \/ TokenStep(r) \/ OwnStep(r) \/ StaffStep(r)
       \/ Commit(r) \/ Throw(r) \/ Abort(r)
  \/ \E s \in Session : Expire(s)
  \/ \E a \in Admin : AccessEnds(a)

Spec == Init /\ [][Next]_vars

----------------------------------------------------------------------------
(* Properties.                                                             *)

Row == [status : {"none", "ACTIVE", "SUSPENDED", "LOCKED"}, failed : Nat, locked : BOOLEAN,
        secret : Key \cup {None}, mfa : BOOLEAN]

\* The tables hold their columns' values, no row is held twice, and whoever has a
\* session, a code or a bearer token exists.
TypeOK ==
  /\ admin \in [Admin -> Row]
  /\ batch \in [Batch -> [owner : Admin, used : BOOLEAN] \cup {None}]
  /\ session \in [Session -> [owner : Admin, state : {"active", "revoked", "expired"}] \cup {None}]
  /\ access \subseteq {a \in Admin : admin[a].status # "none"}
  /\ \A b \in Batch : batch[b] # None => admin[batch[b].owner].status # "none"
  /\ \A s \in Session : session[s] # None => admin[session[s].owner].status # "none"
  /\ \A r, q \in Request : r # q => tx[r].rows \cap tx[q].rows = {}

\* admin.service.test.js:185, "accepts a recovery code exactly once": however sign-ins
\* and new enrolments overlap.
CodesOnce == \A b \in Batch : entered[b] <= 1

\* admin.service.js:650, "MFA confirmation enables the encrypted secret only after code
\* verification": the secret that guards an account is one that its owner has, even when
\* another enrolment or the script replaced it between the two statements.
MfaProven == \A a \in Admin : admin[a].mfa => admin[a].secret \in proven

\* An enrolment retires the codes of the one before it: of two confirmations at the same
\* time, only the codes of one remain.
OneCodeSet == \A a \in Admin : Cardinality(OpenCodes(a)) <= 1

\* No sign-in, change of password or enrolment that overlaps a suspension undoes it.
SuspensionHolds ==
  [][\A a \in Admin : admin[a].status = "SUSPENDED" /\ admin'[a].status # "SUSPENDED" =>
       \E r \in Request : tx[r].op = "setStatus" /\ tx[r].who = a /\ At(r, "commit")]_vars

\* Stated by admin.service.js:371, "Wrong password can advance failed-attempt lockout
\* state", and admin.service.test.js:133, "rejects invalid TOTP and records a failed
\* admin login": as many failed factors in a row as the limit leave the account locked.
\* The code does not keep it.
FailuresLock == \A a \in Admin : wrong[a] >= MaxAttempts => admin[a].status # "ACTIVE"
=============================================================================
