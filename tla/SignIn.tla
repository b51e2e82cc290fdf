------------------------------- MODULE SignIn -------------------------------
(***************************************************************************)
(* How accounts of the marketplace come to be and are signed in to         *)
(* (modules/auth): registration by e-mail and password, by a code sent to  *)
(* a phone, and by a social identity; sign-in by each of them; proof of a  *)
(* phone or an e-mail address of an account; the counters that lock an     *)
(* address or an IP after failed passwords, and the attempts of a code.    *)
(*                                                                         *)
(* Each SQL statement is a step.  The table variables hold committed rows; *)
(* tx[r] is a request in flight, and its rows are the rows and unique-     *)
(* index keys that it has written and holds until it ends.  Statements run *)
(* on the pool, outside the transaction, are committed at once.  Sessions  *)
(* that a sign-in issues are UserSessions.                                 *)
(***************************************************************************)
EXTENDS Naturals, FiniteSets

CONSTANTS
  User,         \* ids of accounts
  Phone, Mail,  \* contact data, normalised
  Subject,      \* identities at Google or Facebook
  MailOf,       \* [Subject -> Mail]: the verified address of an identity
  Ip,
  Request,      \* bound: requests handled concurrently
  MaxCode,      \* bound: codes on record
  MaxAttempts,  \* wrong answers to a code (5)
  MaxFailures,  \* wrong passwords before a lock (AUTH_LOGIN_MAX_FAILED_ATTEMPTS)
  MaxLapses,    \* bound: locks that lapse
  Offers,       \* bound: the operations that one behaviour may combine
  None

ASSUME LimitsNat == MaxCode \in Nat /\ MaxAttempts \in Nat /\ MaxFailures \in Nat \ {0}
ASSUME MaxLapsesNat == MaxLapses \in Nat
ASSUME IdentitiesHaveMail == MailOf \in [Subject -> Mail]
ASSUME RequestsFinite == IsFiniteSet(Request) /\ Request # {}
ASSUME ScopesApart == Mail \cap Ip = {}  \* each counter is of an address or of an IP (scope)

VARIABLES
  account,  \* users: the columns that identify an account
  code,     \* otp_codes, in order of created_at
  link,     \* user_oauth_accounts: user of each identity, or None
  letter,   \* email_verification_tokens of each account: one open, one used
  counter,  \* auth_login_attempts of each address and IP
  guesses,  \* history: failures of each since its last success or lapse
  lapses,   \* bound: locks that have lapsed
  offer,    \* bound: the member of Offers that this behaviour draws on
  tx        \* the requests in flight

identities == <<account, code, link, letter>>
lockout    == <<counter, guesses, lapses>>
vars       == <<account, code, link, letter, counter, guesses, lapses, offer, tx>>

Code  == 1..MaxCode
Ident == Mail \cup Ip

CodeAge    == {"fresh", "active", "expired"}
CodeRecord == [phone : Phone, purpose : {"LOGIN", "REGISTER", "PHONE_VERIFY"}, age : CodeAge,
               attempts : Nat, usedBy : User \cup {None}]

ASSUME NoneIsNothing == None \notin User \cup Phone \cup Mail \cup Code \cup CodeRecord

NoAccount == [by |-> "none", mail |-> None, phone |-> None,
              phoneProven |-> FALSE, mailProven |-> FALSE]
Untried   == [count |-> 0, locked |-> FALSE]
Idle      == [op |-> "idle", pc |-> "idle", user |-> None, mail |-> None, phone |-> None,
              subject |-> None, ident |-> None, code |-> None, seen |-> 0, rows |-> {}]

Init ==
  /\ account = [u \in User |-> NoAccount]
  /\ code = [c \in Code |-> None]
  /\ link = [s \in Subject |-> None]
  /\ letter = [u \in User |-> {}]
  /\ counter = [i \in Ident |-> Untried]
  /\ guesses = [i \in Ident |-> 0]
  /\ lapses = 0
  /\ offer \in Offers
  /\ tx = [r \in Request |-> Idle]

----------------------------------------------------------------------------
(* Transactions.                                                           *)

UserRow(u)    == <<"user", u>>
PhoneKey(p)   == <<"phone", p>>    \* users.phone UNIQUE
MailKey(m)    == <<"mail", m>>     \* users.email UNIQUE
LinkKey(s)    == <<"link", s>>     \* UNIQUE (provider, provider_subject)
CodeRow(c)    == <<"code", c>>
CounterRow(i) == <<"counter", i>>  \* UNIQUE (scope, identity_hash)

At(r, pc) == tx[r].pc = pc

\* No other request holds any of the rows or keys.
Free(r, rows) == \A q \in Request \ {r} : tx[q].rows \cap rows = {}

Goto(r, pc) == tx' = [tx EXCEPT ![r].pc = pc]
Hold(r, rows, pc) == tx' = [tx EXCEPT ![r].rows = @ \cup rows, ![r].pc = pc]
End(r) == tx' = [tx EXCEPT ![r] = Idle]

\* A handler begins: it validates its input and runs to its first statement.
Begin(r, op, pc, user, mail, phone, subject, ident) ==
  /\ tx[r] = Idle /\ op \in offer
  /\ tx' = [tx EXCEPT ![r] = [Idle EXCEPT !.op = op, !.pc = pc, !.user = user, !.mail = mail,
                              !.phone = phone, !.subject = subject, !.ident = ident]]
  /\ UNCHANGED <<identities, lockout, offer>>

Accounts      == {u \in User : account[u].by # "none"}
OwnersOf(p)   == {u \in Accounts : account[u].phone = p}
HoldersOf(m)  == {u \in Accounts : account[u].mail = m}

\* What the handler of r puts into a new account.
NewAccount(r) ==
  [by |-> CASE tx[r].op = "register"       -> "EMAIL"
            [] tx[r].op = "registerByCode" -> "PHONE"
            [] OTHER                       -> "OAUTH",
   mail |-> tx[r].mail, phone |-> tx[r].phone,
   phoneProven |-> tx[r].op = "registerByCode",
   mailProven |-> tx[r].op = "registerByIdentity"]

KeysOf(a) == {MailKey(m) : m \in {a.mail} \ {None}} \cup {PhoneKey(p) : p \in {a.phone} \ {None}}

\* An id that no row and no open transaction has.
Fresh(u) == u \notin Accounts /\ \A q \in Request : UserRow(u) \notin tx[q].rows

----------------------------------------------------------------------------
(* Codes (createAndSendOtp, verifyOtp).                                    *)

\* findLatestActiveOtp.
Active(p, purpose) ==
  {c \in Code : code[c] # None /\ code[c].phone = p /\ code[c].purpose = purpose
                /\ code[c].usedBy = None /\ code[c].age # "expired"}
Latest(p, purpose) ==
  IF Active(p, purpose) = {} THEN None
  ELSE CHOOSE c \in Active(p, purpose) : \A d \in Active(p, purpose) : d <= c

Purpose(op) ==
  CASE op \in {"sendLogin", "loginByCode"}       -> "LOGIN"
    [] op \in {"sendRegister", "registerByCode"} -> "REGISTER"
    [] op \in {"sendPhone", "verifyPhone"}       -> "PHONE_VERIFY"

SendLoginOtp(r, p)          == Begin(r, "sendLogin", "owner", None, None, p, None, None)
SendRegisterOtp(r, p)       == Begin(r, "sendRegister", "owner", None, None, p, None, None)
SendPhoneVerification(r, p) ==
  \E u \in Accounts : Begin(r, "sendPhone", "owner", u, None, p, None, None)
VerifyLoginOtp(r, p)        == Begin(r, "loginByCode", "owner", None, None, p, None, None)
VerifyRegisterOtp(r, p)     == Begin(r, "registerByCode", "owner", None, None, p, None, None)
VerifyPhone(r, p)           ==
  \E u \in Accounts : Begin(r, "verifyPhone", "owner", u, None, p, None, None)

\* findUserByPhone: a sign-in needs the account, a registration needs that there is
\* none, a proof of the phone that no other account has it.
FindOwner(r) ==
  LET owners == OwnersOf(tx[r].phone)
      next   == IF tx[r].op \in {"sendLogin", "sendRegister", "sendPhone"}
                THEN "cooldown" ELSE "find" IN
  /\ At(r, "owner")
  /\ CASE tx[r].op \in {"sendLogin", "loginByCode"} ->
            IF owners = {} THEN End(r)
            ELSE tx' = [tx EXCEPT ![r].pc = next, ![r].user = CHOOSE u \in owners : TRUE]
       [] tx[r].op \in {"sendRegister", "registerByCode"} ->
            IF owners = {} THEN Goto(r, next) ELSE End(r)
       [] OTHER ->
            IF owners \subseteq {tx[r].user} THEN Goto(r, next) ELSE End(r)
  /\ UNCHANGED <<identities, lockout, offer>>

\* OTP_COOLDOWN, judged by the latest active code.
CheckCooldown(r) ==
  LET latest == Latest(tx[r].phone, Purpose(tx[r].op)) IN
  /\ At(r, "cooldown")
  /\ IF latest # None /\ code[latest].age = "fresh" THEN End(r) ELSE Goto(r, "deliver")
  /\ UNCHANGED <<identities, lockout, offer>>

\* sendOtp succeeds, and createOtp stores the hash.
CreateOtp(r) ==
  /\ At(r, "deliver")
  /\ \E c \in Code :
       /\ code[c] = None /\ \A d \in Code : d < c => code[d] # None
       /\ code' = [code EXCEPT ![c] = [phone |-> tx[r].phone, purpose |-> Purpose(tx[r].op),
                                       age |-> "fresh", attempts |-> 0, usedBy |-> None]]
  /\ End(r)
  /\ UNCHANGED <<account, link, letter, lockout, offer>>

\* verifyOtp up to the comparison, which may go either way.
FindOtp(r) ==
  LET latest == Latest(tx[r].phone, Purpose(tx[r].op)) IN
  /\ At(r, "find")
  /\ IF latest = None THEN End(r)
     ELSE IF code[latest].attempts >= MaxAttempts THEN End(r)
     ELSE \E pc \in {"count", "consume"} :
            tx' = [tx EXCEPT ![r].pc = pc, ![r].code = latest]
  /\ UNCHANGED <<identities, lockout, offer>>

\* A wrong answer.  A registration and a proof of a phone count it inside the
\* transaction that their error then rolls back.
IncrementAttempts(r) ==
  /\ At(r, "count")
  /\ Free(r, {CodeRow(tx[r].code)})
  /\ code' = IF tx[r].op = "loginByCode"
             THEN [code EXCEPT ![tx[r].code].attempts = @ + 1] ELSE code
  /\ End(r)
  /\ UNCHANGED <<account, link, letter, lockout, offer>>

\* MUTANT: the code is consumed on the pool, whatever becomes of the transaction.
ConsumeOnPool(r) ==
  /\ At(r, "consume")
  /\ Free(r, {CodeRow(tx[r].code)})
  /\ code' = [code EXCEPT ![tx[r].code].usedBy = IF tx[r].user = None
                            THEN CHOOSE u \in User : Fresh(u) ELSE tx[r].user]
  /\ IF tx[r].op = "loginByCode" THEN End(r)
     ELSE Goto(r, IF tx[r].op = "registerByCode" THEN "create" ELSE "phone")
  /\ UNCHANGED <<account, link, letter, lockout, offer>>

\* A right answer.  A sign-in consumes the code at once and is then answered; the
\* others hold its row.  Nothing asks whether the code was consumed meanwhile.
ConsumeOtp(r) ==
  /\ At(r, "consume")
  /\ Free(r, {CodeRow(tx[r].code)})
  /\ IF tx[r].op = "loginByCode"
     THEN code' = [code EXCEPT ![tx[r].code].usedBy = tx[r].user] /\ End(r)
     ELSE /\ UNCHANGED code
          /\ Hold(r, {CodeRow(tx[r].code)},
                  IF tx[r].op = "registerByCode" THEN "create" ELSE "phone")
  /\ UNCHANGED <<account, link, letter, lockout, offer>>

\* MUTANT: the phone is set without its unique index.
SetPhoneUnchecked(r) ==
  LET rows == {UserRow(tx[r].user)} IN
  /\ At(r, "phone")
  /\ Free(r, rows)
  /\ Hold(r, rows, "commit")
  /\ UNCHANGED <<identities, lockout, offer>>

\* updateUserPhoneVerified.
SetPhone(r) ==
  LET rows == {UserRow(tx[r].user), PhoneKey(tx[r].phone)} IN
  /\ At(r, "phone")
  /\ Free(r, rows)
  /\ IF OwnersOf(tx[r].phone) \subseteq {tx[r].user} THEN Hold(r, rows, "commit") ELSE End(r)
  /\ UNCHANGED <<identities, lockout, offer>>

Older(a) == IF a = "fresh" THEN "active" ELSE "expired"

\* Time passes: a code outlives the cooldown, then expires, the oldest first.
Age(c) ==
  /\ code[c] # None /\ code[c].age # "expired"
  /\ \A d \in 1..(c - 1) : code[d].age # code[c].age /\ code[d].age # "fresh"
  /\ code' = [code EXCEPT ![c].age = Older(@)]
  /\ UNCHANGED <<account, link, letter, lockout, offer, tx>>

----------------------------------------------------------------------------
(* Registration, and social identities.                                    *)

Register(r) ==
  \E m \in Mail, p \in Phone : Begin(r, "register", "unique", None, m, p, None, None)
LoginWithIdentity(r) ==
  \E s \in Subject : Begin(r, "loginByIdentity", "linked", None, MailOf[s], None, s, None)
RegisterWithIdentity(r) ==
  \E s \in Subject : Begin(r, "registerByIdentity", "linked", None, MailOf[s], None, s, None)

\* ensureUniqueIdentity.
EnsureUnique(r) ==
  /\ At(r, "unique")
  /\ IF HoldersOf(tx[r].mail) \cup OwnersOf(tx[r].phone) = {} THEN Goto(r, "create") ELSE End(r)
  /\ UNCHANGED <<identities, lockout, offer>>

\* findOAuthAccount.  A known identity is signed in, or refused for its role.
FindLink(r) ==
  /\ At(r, "linked")
  /\ IF link[tx[r].subject] # None THEN End(r) ELSE Goto(r, "holder")
  /\ UNCHANGED <<identities, lockout, offer>>

\* findUserByEmail: a sign-in links the account it finds, a registration needs that
\* there is none.
FindHolder(r) ==
  LET holders == HoldersOf(tx[r].mail) IN
  /\ At(r, "holder")
  /\ CASE tx[r].op = "loginByIdentity" /\ holders # {} ->
            tx' = [tx EXCEPT ![r].pc = "link", ![r].user = CHOOSE u \in holders : TRUE]
       [] tx[r].op = "registerByIdentity" /\ holders = {} -> Goto(r, "create")
       [] OTHER -> End(r)
  /\ UNCHANGED <<identities, lockout, offer>>

\* createUser: waits for an insert of the same e-mail or phone, and fails when one
\* of them is taken.
CreateUser(r) ==
  LET keys == KeysOf(NewAccount(r)) IN
  /\ At(r, "create")
  /\ Free(r, keys)
  /\ IF \E u \in Accounts : KeysOf(account[u]) \cap keys # {} THEN End(r)
     ELSE \E u \in User :
            /\ Fresh(u)
            /\ tx' = [tx EXCEPT ![r].user = u, ![r].rows = @ \cup keys \cup {UserRow(u)},
                  ![r].pc = IF tx[r].op = "registerByIdentity" THEN "link" ELSE "commit"]
  /\ UNCHANGED <<identities, lockout, offer>>

\* linkOAuthAccount: ON CONFLICT DO NOTHING, and then a look at whose it is.
LinkIdentity(r) ==
  LET s == tx[r].subject IN
  /\ At(r, "link")
  /\ Free(r, {LinkKey(s)})
  /\ CASE link[s] = None       -> Hold(r, {LinkKey(s)}, "commit")
       [] link[s] = tx[r].user -> Goto(r, "commit")
       [] OTHER                -> End(r)
  /\ UNCHANGED <<identities, lockout, offer>>

----------------------------------------------------------------------------
(* Proof of an e-mail address.                                             *)

SendEmailVerification(r) ==
  \E u \in Accounts :
    /\ account[u].mail # None /\ ~account[u].mailProven
    /\ Begin(r, "sendLetter", "letter", u, None, None, None, None)

CreateLetter(r) ==
  /\ At(r, "letter")
  /\ letter' = [letter EXCEPT ![tx[r].user] = @ \cup {"open"}]
  /\ End(r)
  /\ UNCHANGED <<account, code, link, lockout, offer>>

\* findEmailVerificationTokenByHash finds it unused and not expired.
VerifyEmail(r) ==
  \E u \in User :
    /\ "open" \in letter[u]
    /\ Begin(r, "verifyEmail", "mailProven", u, None, None, None, None)

MarkEmailVerified(r) ==
  /\ At(r, "mailProven")
  /\ Free(r, {UserRow(tx[r].user)})
  /\ Hold(r, {UserRow(tx[r].user)}, "commit")
  /\ UNCHANGED <<identities, lockout, offer>>

----------------------------------------------------------------------------
(* Passwords (loginWithEmail).                                             *)

LoginWithEmail(r) ==
  \E m \in Mail, i \in Ip : Begin(r, "login", "allowed", None, m, None, None, i)

\* assertLoginAllowed.
AssertLoginAllowed(r) ==
  /\ At(r, "allowed")
  /\ IF counter[tx[r].mail].locked \/ counter[tx[r].ident].locked THEN End(r)
     ELSE Goto(r, "compare")
  /\ UNCHANGED <<identities, lockout, offer>>

\* findUserByEmail and bcrypt.compare, which may go either way.
ComparePassword(r) ==
  /\ At(r, "compare")
  /\ \/ Goto(r, "readMail")
     \/ HoldersOf(tx[r].mail) # {} /\ Goto(r, "clearMail")
  /\ UNCHANGED <<identities, lockout, offer>>

\* Both loops take the address first, then the IP.
Turn(r) == IF tx[r].pc \in {"readMail", "recordMail", "clearMail"} THEN tx[r].mail ELSE tx[r].ident

\* recordFailedPasswordLogin reads the counter ...
ReadAttempt(r) ==
  /\ tx[r].pc \in {"readMail", "readIp"}
  /\ tx' = [tx EXCEPT ![r].seen = counter[Turn(r)].count,
                      ![r].pc = IF @ = "readMail" THEN "recordMail" ELSE "recordIp"]
  /\ UNCHANGED <<identities, lockout, offer>>

\* MUTANT: the lock is set by the failure that reaches the limit, and by no later one.
LocksOnce(seen) == seen + 1 = MaxFailures

\* ... and locks by what it read.
Locks(seen) == seen + 1 >= MaxFailures

\* failed_count = auth_login_attempts.failed_count + 1.
NextCount(i, seen) == counter[i].count + 1

\* recordLoginFailure, on the pool: the count is raised in place, the lock is set,
\* or taken away, by what was read.
RecordFailure(r) ==
  LET i == Turn(r) IN
  /\ tx[r].pc \in {"recordMail", "recordIp"}
  /\ Free(r, {CounterRow(i)})
  /\ counter' = [counter EXCEPT ![i] = [count |-> NextCount(i, tx[r].seen),
                                        locked |-> Locks(tx[r].seen)]]
  /\ guesses' = [guesses EXCEPT ![i] = @ + 1]
  /\ IF tx[r].pc = "recordMail" THEN Goto(r, "readIp") ELSE End(r)
  /\ UNCHANGED <<identities, lapses, offer>>

\* clearLoginAttempt: DELETE, which holds a row only if there is one.
ClearFailures(r) ==
  LET i == Turn(r)
      row == IF counter[i].count = 0 THEN {} ELSE {CounterRow(i)} IN
  /\ tx[r].pc \in {"clearMail", "clearIp"}
  /\ Free(r, row)
  /\ Hold(r, row, IF tx[r].pc = "clearMail" THEN "clearIp" ELSE "commit")
  /\ UNCHANGED <<identities, lockout, offer>>

\* locked_until passes.
Lapse(i) ==
  /\ counter[i].locked /\ lapses < MaxLapses
  /\ counter' = [counter EXCEPT ![i].locked = FALSE]
  /\ guesses' = [guesses EXCEPT ![i] = 0]
  /\ lapses' = lapses + 1
  /\ UNCHANGED <<identities, offer, tx>>

----------------------------------------------------------------------------
(* COMMIT publishes what the rows of r say; a ROLLBACK, or an error between *)
(* two statements, leaves what was committed before.                        *)

Commit(r) ==
  LET t == tx[r] IN
  /\ At(r, "commit")
  /\ account' =
       CASE t.op \in {"register", "registerByCode", "registerByIdentity"} ->
              [account EXCEPT ![t.user] = NewAccount(r)]
         [] t.op = "verifyPhone" ->
              [account EXCEPT ![t.user].phone = t.phone, ![t.user].phoneProven = TRUE]
         [] t.op = "verifyEmail" -> [account EXCEPT ![t.user].mailProven = TRUE]
         [] OTHER -> account
  /\ code' = [c \in Code |-> IF CodeRow(c) \in t.rows THEN [code[c] EXCEPT !.usedBy = t.user]
                             ELSE code[c]]
  /\ link' = [s \in Subject |-> IF LinkKey(s) \in t.rows THEN t.user ELSE link[s]]
  /\ letter' = IF t.op = "verifyEmail" THEN [letter EXCEPT ![t.user] = {"used"}] ELSE letter
  /\ counter' = [i \in Ident |-> IF CounterRow(i) \in t.rows THEN Untried ELSE counter[i]]
  /\ guesses' = [i \in Ident |-> IF CounterRow(i) \in t.rows THEN 0 ELSE guesses[i]]
  /\ End(r)
  /\ UNCHANGED <<lapses, offer>>

Abort(r) ==
  /\ tx[r] # Idle
  /\ End(r)
  /\ UNCHANGED <<identities, lockout, offer>>

----------------------------------------------------------------------------

Send(r, p)   == SendLoginOtp(r, p) \/ SendRegisterOtp(r, p) \/ SendPhoneVerification(r, p)
Verify(r, p) == VerifyLoginOtp(r, p) \/ VerifyRegisterOtp(r, p) \/ VerifyPhone(r, p)
CodeStep(r)  == FindOwner(r) \/ CheckCooldown(r) \/ CreateOtp(r) \/ FindOtp(r)
                \/ IncrementAttempts(r) \/ ConsumeOtp(r) \/ SetPhone(r)
EnrolStep(r) == EnsureUnique(r) \/ FindLink(r) \/ FindHolder(r) \/ CreateUser(r) \/ LinkIdentity(r)
MailStep(r)  == CreateLetter(r) \/ MarkEmailVerified(r)
LoginStep(r) == AssertLoginAllowed(r) \/ ComparePassword(r) \/ ReadAttempt(r) \/ RecordFailure(r)
                \/ ClearFailures(r)

Next ==
  \/ \E r \in Request, p \in Phone : Send(r, p) \/ Verify(r, p)
  \/ \E r \in Request :
       \/ Register(r) \/ LoginWithIdentity(r) \/ RegisterWithIdentity(r)
       \/ SendEmailVerification(r) \/ VerifyEmail(r) \/ LoginWithEmail(r)
       \/ CodeStep(r) \/ EnrolStep(r) \/ MailStep(r) \/ LoginStep(r)
       \/ Commit(r) \/ Abort(r)
  \/ \E c \in Code : Age(c)
  \/ \E i \in Ident : Lapse(i)

Spec == Init /\ [][Next]_vars

----------------------------------------------------------------------------
(* Properties.                                                             *)

Account == [by : {"none", "EMAIL", "PHONE", "OAUTH"}, mail : Mail \cup {None},
            phone : Phone \cup {None}, phoneProven : BOOLEAN, mailProven : BOOLEAN]

\* The tables hold their columns' values, no row or key is held twice, and no failure
\* is missing from a count.
TypeOK ==
  /\ account \in [User -> Account]
  /\ code \in [Code -> CodeRecord \cup {None}]
  /\ link \in [Subject -> User \cup {None}]
  /\ letter \in [User -> SUBSET {"open", "used"}]
  /\ counter \in [Ident -> [count : Nat, locked : BOOLEAN]]
  /\ guesses \in [Ident -> Nat] /\ lapses \in 0..MaxLapses
  /\ \A i \in Ident : guesses[i] <= counter[i].count
  /\ \A r, q \in Request : r # q => tx[r].rows \cap tx[q].rows = {}

\* auth.service.js:910, "Verify OTP and create the phone account in one transaction",
\* and :1161, "no orphan OAuth link or duplicate user can be left behind": what an
\* account claims is backed by what proved it, and nothing was used up for an account
\* that does not exist.
AccountsBacked ==
  /\ \A u \in User : account[u].phoneProven =>
       \E c \in Code : /\ code[c] # None /\ code[c].usedBy = u
                       /\ code[c].phone = account[u].phone /\ code[c].purpose # "LOGIN"
  /\ \A c \in Code : code[c] # None /\ code[c].usedBy # None => code[c].usedBy \in Accounts
  /\ \A u \in User : account[u].by = "OAUTH" => \E s \in Subject : link[s] = u
  /\ \A s \in Subject : link[s] # None => link[s] \in HoldersOf(MailOf[s])
  /\ \A u \in User : account[u].mailProven => account[u].by = "OAUTH" \/ "used" \in letter[u]

\* A phone and an e-mail address belong to one account, whichever registrations,
\* links and changes of phone ran at the same time.
OneOwner ==
  \A u, v \in Accounts : u # v => KeysOf(account[u]) \cap KeysOf(account[v]) = {}

\* Each request that read the counter before the last failures may take the lock away
\* once, and those that come in until the next failure sets it again count too.
MaxGuesses ==
  LET k == Cardinality(Request) IN (MaxFailures - 1) + (k - 1) + (k * (k + 1)) \div 2

\* However failures interleave, an address or an IP gets a bounded number of them
\* between two lapses of its lock, and a sign-in code a bounded number of answers.
GuessesBounded ==
  /\ \A i \in Ident : guesses[i] <= MaxGuesses
  /\ \A c \in Code : code[c] # None /\ code[c].purpose = "LOGIN" =>
       code[c].attempts <= MaxAttempts + Cardinality(Request) - 1
=============================================================================
