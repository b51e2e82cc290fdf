----------------------------- MODULE SignInProofs -----------------------------
(***************************************************************************)
(* Proofs about SignIn, for any accounts, contact data, codes and requests.*)
(***************************************************************************)
EXTENDS SignIn, FiniteSetTheorems, WellFoundedInduction, TLAPS

-----------------------------------------------------------------------------
(* The invariant                                                           *)

Sending    == {"sendLogin", "sendRegister", "sendPhone"}
Answering  == {"loginByCode", "registerByCode", "verifyPhone"}
ByIdentity == {"loginByIdentity", "registerByIdentity"}
Making     == {"register", "registerByCode", "registerByIdentity"}
OpName     == Sending \cup Answering \cup ByIdentity \cup Making
                \cup {"idle", "login", "sendLetter", "verifyEmail"}

Passwords == {"allowed", "compare", "readMail", "recordMail", "clearMail",
              "readIp", "recordIp", "clearIp"}
PcName    == {"idle", "owner", "cooldown", "deliver", "find", "count", "consume", "create", "phone",
              "unique", "linked", "holder", "link", "letter", "mailProven", "commit"} \cup Passwords

RowName == {"user", "phone", "mail", "link", "code", "counter"}
             \X (User \cup Phone \cup Subject \cup Code \cup Ident \cup {None})

TxRecord ==
  [op : OpName, pc : PcName, user : User \cup {None}, mail : Mail \cup {None},
   phone : Phone \cup {None}, subject : Subject \cup {None}, ident : Ip \cup {None},
   code : Code \cup {None}, seen : Nat, rows : SUBSET RowName]
Counters == [Ident -> [count : Nat, locked : BOOLEAN]]

Types ==
  /\ account \in [User -> Account]
  /\ code \in [Code -> CodeRecord \cup {None}]
  /\ link \in [Subject -> User \cup {None}]
  /\ letter \in [User -> SUBSET {"open", "used"}]
  /\ counter \in Counters
  /\ tx \in [Request -> TxRecord]

\* Which handler a request is in, and what of its input the statements rely on.
Route(t, pc) ==
  /\ pc = "owner" => t.op \in Sending \cup Answering
  /\ pc \in {"cooldown", "deliver"} => t.op \in Sending
  /\ pc \in {"find", "count", "consume"} => t.op \in Answering
  /\ pc = "unique" => t.op = "register"
  /\ pc \in {"linked", "holder", "link"} => t.op \in ByIdentity
  /\ pc = "create" => t.op \in Making
  /\ pc = "phone" => t.op = "verifyPhone"
  /\ pc = "letter" => t.op = "sendLetter"
  /\ pc = "mailProven" => t.op = "verifyEmail"
  /\ pc \in Passwords => t.op = "login"
  /\ pc = "commit" => t.op \in Making \cup {"loginByIdentity", "verifyPhone", "verifyEmail", "login"}
  /\ t.op \in Sending \cup Answering => t.phone \in Phone
  /\ t.op \in ByIdentity => t.subject \in Subject /\ t.mail = MailOf[t.subject]
  /\ t.op = "login" => t.mail \in Mail /\ t.ident \in Ip

\* The account that a request works for exists, from where it was found or named.
Serves(t, pc) ==
  /\ t.op \in {"sendPhone", "verifyPhone", "sendLetter"} => t.user \in Accounts
  /\ t.op = "verifyEmail" => t.user \in User
  /\ t.op \in Making /\ pc \notin {"link", "commit"} => t.user = None
  /\ t.op = "loginByCode" /\ pc \in {"find", "count", "consume"} => t.user \in Accounts
  /\ t.op = "loginByIdentity" /\ pc \in {"link", "commit"} => t.user \in HoldersOf(t.mail)

\* The code that an answer is compared with is for its phone and its purpose, and
\* who goes on with it holds it.
Uses(t, pc, rows) ==
  /\ pc \in {"count", "consume"}
       \/ (t.op \in {"registerByCode", "verifyPhone"} /\ pc \in {"create", "phone", "commit"})
     => /\ t.code \in Code /\ code[t.code] # None
        /\ code[t.code].phone = t.phone /\ code[t.code].purpose = Purpose(t.op)
  /\ t.op \in {"registerByCode", "verifyPhone"} /\ pc \in {"create", "phone", "commit"}
     => CodeRow(t.code) \in rows
  /\ \A c \in Code : CodeRow(c) \in rows =>
       c = t.code /\ t.op \in {"registerByCode", "verifyPhone"} /\ pc \in {"create", "phone", "commit"}

Draft(t) ==
  [by |-> CASE t.op = "register"       -> "EMAIL"
            [] t.op = "registerByCode" -> "PHONE"
            [] OTHER                   -> "OAUTH",
   mail |-> t.mail, phone |-> t.phone,
   phoneProven |-> t.op = "registerByCode",
   mailProven |-> t.op = "registerByIdentity"]

\* A request that has inserted an account holds its id and its keys, one that has set
\* a phone its key; and the keys that a request holds are its account's, if anybody's.
Claims(t, pc, rows) ==
  /\ pc \notin {"create", "phone", "link", "clearIp", "commit"} => rows = {}
  /\ t.op \in Making /\ pc \in {"link", "commit"} =>
       /\ t.user \in User \ Accounts /\ UserRow(t.user) \in rows
       /\ KeysOf(Draft(t)) \subseteq rows
  /\ t.op = "verifyPhone" /\ pc = "commit" => PhoneKey(t.phone) \in rows
  /\ \A u \in Accounts : KeysOf(account[u]) \cap rows # {} => u = t.user

\* An identity that a request has linked was nobody's.
Links(t, pc, rows) ==
  /\ t.op = "registerByIdentity" /\ pc = "commit" => LinkKey(t.subject) \in rows
  /\ \A s \in Subject : LinkKey(s) \in rows =>
       s = t.subject /\ t.op \in ByIdentity /\ pc = "commit" /\ link[s] = None

Knows(t, pc, rows) ==
  Route(t, pc) /\ Serves(t, pc) /\ Uses(t, pc, rows) /\ Claims(t, pc, rows) /\ Links(t, pc, rows)
RequestInv(t) == Knows(t, t.pc, t.rows)

RowsApart == \A q, r \in Request : q # r => tx[q].rows \cap tx[r].rows = {}

IInv ==
  /\ Types /\ RowsApart /\ OneOwner /\ AccountsBacked
  /\ \A r \in Request : RequestInv(tx[r])

-----------------------------------------------------------------------------
(* What CHOOSE finds                                                       *)

LEMMA LeastIs ==
  ASSUME NEW T \in SUBSET Nat, T # {}
  PROVE  \E m \in T : \A n \in T : m <= n
  <1>1. PICK R : R = OpToRel(<, Nat)
    OBVIOUS
  <1>2. IsWellFoundedOn(R, Nat)
    BY <1>1, NatLessThanWellFounded
  <1>3. PICK m \in T : \A n \in T : <<n, m>> \notin R
    BY <1>2, WFMin
  <1>4. \A n \in T : ~ (n < m)
    BY <1>1, <1>3 DEF OpToRel
  <1>. QED BY <1>4

LEMMA GreatestIs ==
  ASSUME NEW N \in Nat, NEW T \in SUBSET (1..N), T # {}
  PROVE  \E m \in T : \A n \in T : n <= m
  <1>1. PICK U : U = {N - n : n \in T}
    OBVIOUS
  <1>2. U \in SUBSET Nat /\ U # {}
    <2>1. \A n \in T : N - n \in Nat
      OBVIOUS
    <2>. QED BY <1>1, <2>1
  <1>3. PICK k \in U : \A n \in U : k <= n
    BY <1>2, LeastIs
  <1>4. PICK m \in T : k = N - m
    BY <1>1
  <1>5. ASSUME NEW n \in T PROVE n <= m
    <2>1. k <= N - n
      BY <1>1, <1>3
    <2>. QED BY <1>4, <2>1
  <1>. QED BY <1>5

\* findLatestActiveOtp returns a code of that phone and purpose, or nothing.
LEMMA LatestIs ==
  ASSUME NEW p, NEW purpose, Latest(p, purpose) # None
  PROVE  Latest(p, purpose) \in Active(p, purpose)
  <1>1. Active(p, purpose) \in SUBSET (1..MaxCode) /\ MaxCode \in Nat
    BY LimitsNat DEF Active, Code
  <1>2. Active(p, purpose) # {}
    BY DEF Latest
  <1>3. \E c \in Active(p, purpose) : \A d \in Active(p, purpose) : d <= c
    BY <1>1, <1>2, GreatestIs
  <1>. QED BY <1>2, <1>3 DEF Latest

LEMMA SomeIs ==
  ASSUME NEW S, S # {}
  PROVE  (CHOOSE x \in S : TRUE) \in S
  OBVIOUS

-----------------------------------------------------------------------------
(* Steps that only change what one request is about                        *)

LEMMA IdleIs ==
  /\ Idle \in TxRecord /\ Idle.op = "idle" /\ Idle.pc = "idle" /\ Idle.rows = {}
  BY DEF Idle, TxRecord, OpName, PcName

LEMMA IdleInv == RequestInv(Idle) /\ RequestInv(Idle)'
  <1>1. PICK t : t = Idle
    OBVIOUS
  <1>2. t.op = "idle" /\ t.pc = "idle" /\ t.rows = {}
    BY <1>1, IdleIs
  <1>3. RequestInv(t) /\ RequestInv(t)'
    BY <1>2 DEF RequestInv, Knows, Route, Serves, Uses, Claims, Links, Passwords, Sending,
                Answering, ByIdentity, Making
  <1>. QED BY <1>1, <1>3

LEMMA SameKnows ==
  ASSUME UNCHANGED identities, NEW t, RequestInv(t)
  PROVE  RequestInv(t)'
  BY DEF identities, RequestInv, Knows, Route, Serves, Uses, Claims, Links, Accounts, HoldersOf,
         KeysOf, Draft, Purpose

LEMMA MoveInv ==
  ASSUME IInv, NEW r \in Request, NEW t \in TxRecord, tx' = [tx EXCEPT ![r] = t],
         UNCHANGED identities, counter' \in Counters, RequestInv(t),
         \A q \in Request \ {r} : tx[q].rows \cap t.rows = {}
  PROVE  IInv'
  <1>1. tx' \in [Request -> TxRecord] /\ tx'[r] = t /\ \A q \in Request \ {r} : tx'[q] = tx[q]
    BY DEF IInv, Types
  <1>2. Types'
    BY <1>1 DEF IInv, Types, identities
  <1>3. RowsApart'
    BY <1>1 DEF IInv, RowsApart
  <1>4. OneOwner' /\ AccountsBacked'
    BY DEF IInv, OneOwner, AccountsBacked, Accounts, KeysOf, HoldersOf, identities
  <1>5. ASSUME NEW q \in Request PROVE RequestInv(tx[q])'
    <2>1. PICK u : u = tx'[q]
      OBVIOUS
    <2>2. RequestInv(u)
      BY <1>1, <2>1 DEF IInv
    <2>3. RequestInv(u)'
      BY <2>2, SameKnows
    <2>. QED BY <2>1, <2>3 DEF RequestInv, Knows, Route, Serves, Uses, Claims, Links, Draft
  <1>. QED BY <1>2, <1>3, <1>4, <1>5 DEF IInv

LEMMA EndInv ==
  ASSUME IInv, NEW r \in Request, End(r), UNCHANGED identities, counter' \in Counters
  PROVE  IInv'
  BY MoveInv, IdleIs, IdleInv DEF End

\* What a request knows lies in these fields.
LEMMA KnowsAlike ==
  ASSUME NEW t \in TxRecord, NEW u \in TxRecord, NEW pc, NEW rows, Knows(u, pc, rows),
         t.op = u.op, t.user = u.user, t.mail = u.mail, t.phone = u.phone,
         t.subject = u.subject, t.ident = u.ident, t.code = u.code
  PROVE  Knows(t, pc, rows)
  BY DEF Knows, Route, Serves, Uses, Claims, Links, Draft

LEMMA GotoInv ==
  ASSUME IInv, NEW r \in Request, NEW pc \in PcName, Goto(r, pc),
         UNCHANGED identities, counter' \in Counters, Knows(tx[r], pc, tx[r].rows)
  PROVE  IInv'
  <1>1. tx[r] \in TxRecord
    BY DEF IInv, Types
  <1>2. PICK t : t = [tx[r] EXCEPT !.pc = pc]
    OBVIOUS
  <1>3. t \in TxRecord /\ tx' = [tx EXCEPT ![r] = t]
    BY <1>1, <1>2 DEF TxRecord, Goto
  <1>4. /\ t.op = tx[r].op /\ t.user = tx[r].user /\ t.mail = tx[r].mail /\ t.phone = tx[r].phone
        /\ t.subject = tx[r].subject /\ t.ident = tx[r].ident /\ t.code = tx[r].code
        /\ t.pc = pc /\ t.rows = tx[r].rows
    BY <1>1, <1>2 DEF TxRecord
  <1>5. RequestInv(t)
    BY <1>1, <1>3, <1>4, KnowsAlike DEF RequestInv
  <1>6. \A q \in Request \ {r} : tx[q].rows \cap t.rows = {}
    BY <1>4 DEF IInv, RowsApart
  <1>. QED BY <1>3, <1>5, <1>6, MoveInv

LEMMA HoldInv ==
  ASSUME IInv, NEW r \in Request, NEW pc \in PcName, NEW rows \in SUBSET RowName,
         Free(r, rows), Hold(r, rows, pc),
         UNCHANGED <<identities, counter>>, Knows(tx[r], pc, tx[r].rows \cup rows)
  PROVE  IInv'
  <1>1. tx[r] \in TxRecord
    BY DEF IInv, Types
  <1>2. PICK t : t = [tx[r] EXCEPT !.rows = tx[r].rows \cup rows, !.pc = pc]
    OBVIOUS
  <1>3. t \in TxRecord /\ tx' = [tx EXCEPT ![r] = t]
    <2>1. t \in TxRecord
      BY <1>1, <1>2 DEF TxRecord
    <2>2. tx' = [tx EXCEPT ![r] = t]
      BY <1>2 DEF Hold
    <2>. QED BY <2>1, <2>2
  <1>4. /\ t.op = tx[r].op /\ t.user = tx[r].user /\ t.mail = tx[r].mail /\ t.phone = tx[r].phone
        /\ t.subject = tx[r].subject /\ t.ident = tx[r].ident /\ t.code = tx[r].code
        /\ t.pc = pc /\ t.rows = tx[r].rows \cup rows
    BY <1>1, <1>2 DEF TxRecord
  <1>5. RequestInv(t)
    BY <1>1, <1>3, <1>4, KnowsAlike DEF RequestInv
  <1>6. \A q \in Request \ {r} : tx[q].rows \cap t.rows = {}
    BY <1>4 DEF IInv, RowsApart, Free
  <1>7. counter' \in Counters
    BY DEF IInv, Types
  <1>. QED BY <1>3, <1>5, <1>6, <1>7, MoveInv

LEMMA BeginInv ==
  ASSUME IInv, NEW r \in Request, NEW op \in OpName,
         NEW pc \in {"owner", "unique", "linked", "letter", "mailProven", "allowed"},
         NEW user \in User \cup {None}, NEW mail \in Mail \cup {None},
         NEW phone \in Phone \cup {None}, NEW subject \in Subject \cup {None},
         NEW ident \in Ip \cup {None},
         Begin(r, op, pc, user, mail, phone, subject, ident),
         op \in Sending \cup Answering => pc = "owner" /\ phone \in Phone,
         op \in ByIdentity => pc = "linked" /\ subject \in Subject /\ mail = MailOf[subject],
         op = "login" => pc = "allowed" /\ mail \in Mail /\ ident \in Ip,
         pc = "owner" => op \in Sending \cup Answering,
         pc = "unique" => op = "register",
         pc = "linked" => op \in ByIdentity,
         pc = "letter" => op = "sendLetter",
         pc = "mailProven" => op = "verifyEmail",
         pc = "allowed" => op = "login",
         op \in {"sendPhone", "verifyPhone", "sendLetter"} => user \in Accounts,
         op = "verifyEmail" => user \in User,
         op \in Making => user = None
  PROVE  IInv'
  <1>1. PICK t : t = [Idle EXCEPT !.op = op, !.pc = pc, !.user = user, !.mail = mail,
                                  !.phone = phone, !.subject = subject, !.ident = ident]
    OBVIOUS
  <1>2. tx' = [tx EXCEPT ![r] = t] /\ UNCHANGED <<identities, counter>>
    BY <1>1 DEF Begin, lockout
  <1>3. pc \in PcName
    BY DEF PcName, Passwords
  <1>4. t \in TxRecord
    BY <1>1, <1>3, IdleIs DEF TxRecord
  <1>5. /\ t.op = op /\ t.pc = pc /\ t.user = user /\ t.mail = mail /\ t.phone = phone
        /\ t.subject = subject /\ t.ident = ident /\ t.rows = {}
    BY <1>1, IdleIs DEF TxRecord
  <1>6. Route(t, t.pc) /\ Serves(t, t.pc)
    BY <1>5 DEF Route, Serves, Passwords, Sending, Answering, ByIdentity, Making
  <1>7. Uses(t, t.pc, t.rows) /\ Claims(t, t.pc, t.rows) /\ Links(t, t.pc, t.rows)
    BY <1>5 DEF Uses, Claims, Links
  <1>8. counter' \in Counters
    BY <1>2 DEF IInv, Types
  <1>9. RequestInv(t)
    BY <1>6, <1>7 DEF RequestInv, Knows
  <1>10. \A q \in Request \ {r} : tx[q].rows \cap t.rows = {}
    BY <1>5
  <1>11. UNCHANGED identities
    BY <1>2
  <1>. QED BY <1>2, <1>4, <1>8, <1>9, <1>10, <1>11, MoveInv

LEMMA StartInv ==
  ASSUME IInv, NEW r \in Request,
         \/ \E p \in Phone : Send(r, p) \/ Verify(r, p)
         \/ Register(r) \/ LoginWithIdentity(r) \/ RegisterWithIdentity(r)
         \/ SendEmailVerification(r) \/ VerifyEmail(r) \/ LoginWithEmail(r)
  PROVE  IInv'
  <1>1. Accounts \subseteq User /\ \A s \in Subject : MailOf[s] \in Mail
    BY IdentitiesHaveMail DEF Accounts
  <1>2. ASSUME NEW p \in Phone, Send(r, p) \/ Verify(r, p) PROVE IInv'
    <2>1. ASSUME NEW op \in Sending \cup Answering, NEW user \in Accounts \cup {None},
                 op \in {"sendPhone", "verifyPhone"} => user \in Accounts,
                 op = "registerByCode" => user = None,
                 Begin(r, op, "owner", user, None, p, None, None)
          PROVE  IInv'
      BY <1>1, <2>1, BeginInv DEF OpName, Sending, Answering, ByIdentity, Making
    <2>. QED BY <1>2, <2>1 DEF Send, Verify, SendLoginOtp, SendRegisterOtp, SendPhoneVerification,
                VerifyLoginOtp, VerifyRegisterOtp, VerifyPhone, Sending, Answering
  <1>3. CASE Register(r)
    BY <1>3, BeginInv DEF Register, OpName, Sending, Answering, ByIdentity, Making
  <1>4. CASE LoginWithIdentity(r) \/ RegisterWithIdentity(r)
    <2>1. ASSUME NEW op \in ByIdentity, NEW s \in Subject,
                 Begin(r, op, "linked", None, MailOf[s], None, s, None)
          PROVE  IInv'
      BY <1>1, <2>1, BeginInv DEF OpName, Sending, Answering, ByIdentity, Making
    <2>. QED BY <1>4, <2>1 DEF LoginWithIdentity, RegisterWithIdentity, ByIdentity
  <1>5. CASE SendEmailVerification(r)
    BY <1>1, <1>5, BeginInv DEF SendEmailVerification, OpName, Sending, Answering, ByIdentity, Making
  <1>6. CASE VerifyEmail(r)
    BY <1>6, BeginInv DEF VerifyEmail, OpName, Sending, Answering, ByIdentity, Making
  <1>7. CASE LoginWithEmail(r)
    <2>1. PICK m \in Mail, i \in Ip : Begin(r, "login", "allowed", None, m, None, None, i)
      BY <1>7 DEF LoginWithEmail
    <2>2. "login" \in OpName
      BY DEF OpName
    <2>. QED BY <2>1, <2>2, BeginInv DEF Sending, Answering, ByIdentity, Making
  <1>. QED BY <1>2, <1>3, <1>4, <1>5, <1>6, <1>7

-----------------------------------------------------------------------------
(* Statements that read                                                    *)

LEMMA RequestIs ==
  ASSUME IInv, NEW r \in Request
  PROVE  tx[r] \in TxRecord /\ Knows(tx[r], tx[r].pc, tx[r].rows)
  BY DEF IInv, Types, RequestInv

LEMMA ReadInv ==
  ASSUME IInv, NEW r \in Request,
         \/ CheckCooldown(r) \/ EnsureUnique(r) \/ FindLink(r)
         \/ AssertLoginAllowed(r) \/ ComparePassword(r)
  PROVE  IInv'
  <1>1. UNCHANGED identities /\ counter' \in Counters
    BY DEF CheckCooldown, EnsureUnique, FindLink, AssertLoginAllowed, ComparePassword, lockout,
           IInv, Types
  <1>2. Knows(tx[r], tx[r].pc, tx[r].rows)
    BY RequestIs
  <1>3. ASSUME NEW pc \in PcName, Goto(r, pc),
               \/ tx[r].pc = "cooldown" /\ pc = "deliver"
               \/ tx[r].pc = "unique" /\ pc = "create"
               \/ tx[r].pc = "linked" /\ pc = "holder"
               \/ tx[r].pc = "allowed" /\ pc = "compare"
               \/ tx[r].pc = "compare" /\ pc \in {"readMail", "clearMail"}
        PROVE  IInv'
    <2>1. Knows(tx[r], pc, tx[r].rows)
      BY <1>2, <1>3 DEF Knows, Route, Serves, Uses, Claims, Links, Passwords, Sending, Answering,
                        ByIdentity, Making
    <2>. QED BY <1>1, <1>3, <2>1, GotoInv
  <1>4. CASE End(r)
    BY <1>1, <1>4, EndInv
  <1>5. CASE CheckCooldown(r)
    BY <1>3, <1>4, <1>5 DEF CheckCooldown, At, PcName
  <1>6. CASE EnsureUnique(r)
    BY <1>3, <1>4, <1>6 DEF EnsureUnique, At, PcName
  <1>7. CASE FindLink(r)
    BY <1>3, <1>4, <1>7 DEF FindLink, At, PcName
  <1>8. CASE AssertLoginAllowed(r)
    BY <1>3, <1>4, <1>8 DEF AssertLoginAllowed, At, PcName, Passwords
  <1>9. CASE ComparePassword(r)
    BY <1>3, <1>9 DEF ComparePassword, At, PcName, Passwords
  <1>. QED BY <1>5, <1>6, <1>7, <1>8, <1>9

\* A statement that finds the account of the request.
LEMMA FoundInv ==
  ASSUME IInv, NEW r \in Request, NEW pc \in {"cooldown", "find", "link"}, NEW user \in Accounts,
         tx' = [tx EXCEPT ![r].pc = pc, ![r].user = user],
         UNCHANGED identities, counter' \in Counters,
         \/ /\ tx[r].pc = "owner" /\ tx[r].op \in {"sendLogin", "loginByCode"}
            /\ pc = IF tx[r].op = "sendLogin" THEN "cooldown" ELSE "find"
         \/ /\ tx[r].pc = "holder" /\ tx[r].op = "loginByIdentity" /\ pc = "link"
            /\ user \in HoldersOf(tx[r].mail)
  PROVE  IInv'
  <1>1. tx[r] \in TxRecord /\ Knows(tx[r], tx[r].pc, tx[r].rows)
    BY RequestIs
  <1>2. PICK t : t = [tx[r] EXCEPT !.pc = pc, !.user = user]
    OBVIOUS
  <1>3. pc \in PcName /\ user \in User
    BY DEF PcName, Accounts
  <1>4. t \in TxRecord
    BY <1>1, <1>2, <1>3 DEF TxRecord
  <1>5. tx' = [tx EXCEPT ![r] = t]
    BY <1>2
  <1>6. /\ t.op = tx[r].op /\ t.user = user /\ t.mail = tx[r].mail /\ t.phone = tx[r].phone
        /\ t.subject = tx[r].subject /\ t.ident = tx[r].ident /\ t.code = tx[r].code
        /\ t.pc = pc /\ t.rows = tx[r].rows
    BY <1>1, <1>2 DEF TxRecord
  <1>7. t.rows = {}
    BY <1>1, <1>6 DEF Knows, Claims
  <1>8. Route(t, pc) /\ Serves(t, pc)
    BY <1>1, <1>6 DEF Knows, Route, Serves, Passwords, Sending, Answering, ByIdentity, Making
  <1>9. Uses(t, pc, t.rows) /\ Claims(t, pc, t.rows) /\ Links(t, pc, t.rows)
    BY <1>6, <1>7 DEF Uses, Claims, Links, Making
  <1>10. RequestInv(t)
    BY <1>6, <1>8, <1>9 DEF RequestInv, Knows
  <1>11. \A q \in Request \ {r} : tx[q].rows \cap t.rows = {}
    BY <1>7
  <1>. QED BY <1>4, <1>5, <1>10, <1>11, MoveInv

LEMMA FindOwnerInv ==
  ASSUME IInv, NEW r \in Request, FindOwner(r)
  PROVE  IInv'
  <1>1. UNCHANGED identities /\ counter' \in Counters /\ tx[r].pc = "owner"
    BY DEF FindOwner, lockout, IInv, Types, At
  <1>2. Knows(tx[r], tx[r].pc, tx[r].rows)
    BY RequestIs
  <1>3. tx[r].op \in Sending \cup Answering
    BY <1>1, <1>2 DEF Knows, Route
  <1>4. PICK next \in {"cooldown", "find"} :
          next = IF tx[r].op \in {"sendLogin", "sendRegister", "sendPhone"}
                 THEN "cooldown" ELSE "find"
    OBVIOUS
  <1>5. CASE End(r)
    BY <1>1, <1>5, EndInv
  <1>6. CASE Goto(r, next) /\ tx[r].op \notin {"sendLogin", "loginByCode"}
    <2>1. Knows(tx[r], next, tx[r].rows)
      BY <1>1, <1>2, <1>3, <1>4, <1>6 DEF Knows, Route, Serves, Uses, Claims, Links, Passwords,
         Sending, Answering, ByIdentity, Making
    <2>2. next \in PcName
      BY DEF PcName
    <2>. QED BY <1>1, <1>6, <2>1, <2>2, GotoInv
  <1>7. CASE tx[r].op \in {"sendLogin", "loginByCode"} /\ OwnersOf(tx[r].phone) # {}
    <2>1. PICK user : user = CHOOSE u \in OwnersOf(tx[r].phone) : TRUE
      OBVIOUS
    <2>2. user \in OwnersOf(tx[r].phone)
      BY <1>7, <2>1, SomeIs
    <2>3. user \in Accounts
      BY <2>2 DEF OwnersOf
    <2>4. tx' = [tx EXCEPT ![r].pc = next, ![r].user = user]
      BY <1>4, <1>7, <2>1 DEF FindOwner
    <2>. QED BY <1>1, <1>4, <1>7, <2>3, <2>4, FoundInv
  <1>8. CASE tx[r].op \in {"sendLogin", "loginByCode"} /\ OwnersOf(tx[r].phone) = {}
    BY <1>5, <1>8 DEF FindOwner
  <1>9. CASE tx[r].op \notin {"sendLogin", "loginByCode"}
    BY <1>4, <1>5, <1>6, <1>9 DEF FindOwner
  <1>. QED BY <1>7, <1>8, <1>9

LEMMA FindHolderInv ==
  ASSUME IInv, NEW r \in Request, FindHolder(r)
  PROVE  IInv'
  <1>1. UNCHANGED identities /\ counter' \in Counters /\ tx[r].pc = "holder"
    BY DEF FindHolder, lockout, IInv, Types, At
  <1>2. Knows(tx[r], tx[r].pc, tx[r].rows)
    BY RequestIs
  <1>3. CASE End(r)
    BY <1>1, <1>3, EndInv
  <1>4. CASE tx[r].op = "loginByIdentity" /\ HoldersOf(tx[r].mail) # {}
    <2>1. PICK user : user = CHOOSE u \in HoldersOf(tx[r].mail) : TRUE
      OBVIOUS
    <2>2. user \in HoldersOf(tx[r].mail)
      BY <1>4, <2>1, SomeIs
    <2>3. user \in Accounts
      BY <2>2 DEF HoldersOf
    <2>4. tx' = [tx EXCEPT ![r].pc = "link", ![r].user = user]
      BY <1>4, <2>1 DEF FindHolder
    <2>. QED BY <1>1, <1>4, <2>2, <2>3, <2>4, FoundInv
  <1>5. CASE tx[r].op = "registerByIdentity" /\ Goto(r, "create")
    <2>1. Knows(tx[r], "create", tx[r].rows)
      BY <1>1, <1>2, <1>5 DEF Knows, Route, Serves, Uses, Claims, Links, Passwords,
         Sending, Answering, ByIdentity, Making
    <2>2. "create" \in PcName
      BY DEF PcName
    <2>. QED BY <1>1, <1>5, <2>1, <2>2, GotoInv
  <1>. QED BY <1>3, <1>4, <1>5 DEF FindHolder

LEMMA FindOtpInv ==
  ASSUME IInv, NEW r \in Request, FindOtp(r)
  PROVE  IInv'
  <1>1. UNCHANGED identities /\ counter' \in Counters /\ tx[r].pc = "find"
    BY DEF FindOtp, lockout, IInv, Types, At
  <1>2. tx[r] \in TxRecord /\ Knows(tx[r], tx[r].pc, tx[r].rows)
    BY RequestIs
  <1>3. PICK latest : latest = Latest(tx[r].phone, Purpose(tx[r].op))
    OBVIOUS
  <1>4. CASE End(r)
    BY <1>1, <1>4, EndInv
  <1>5. ASSUME NEW pc \in {"count", "consume"}, latest # None,
               tx' = [tx EXCEPT ![r].pc = pc, ![r].code = latest]
        PROVE  IInv'
    <2>1. /\ latest \in Code /\ code[latest] # None /\ code[latest].phone = tx[r].phone
          /\ code[latest].purpose = Purpose(tx[r].op)
      BY <1>3, <1>5, LatestIs DEF Active
    <2>2. PICK t : t = [tx[r] EXCEPT !.pc = pc, !.code = latest]
      OBVIOUS
    <2>3. pc \in PcName
      BY DEF PcName
    <2>4. t \in TxRecord
      BY <1>2, <2>1, <2>2, <2>3 DEF TxRecord
    <2>5. tx' = [tx EXCEPT ![r] = t]
      BY <1>5, <2>2
    <2>6. /\ t.op = tx[r].op /\ t.user = tx[r].user /\ t.mail = tx[r].mail
          /\ t.phone = tx[r].phone /\ t.subject = tx[r].subject /\ t.ident = tx[r].ident
          /\ t.code = latest /\ t.pc = pc /\ t.rows = tx[r].rows
      BY <1>2, <2>2 DEF TxRecord
    <2>7. t.rows = {}
      BY <1>1, <1>2, <2>6 DEF Knows, Claims
    <2>8. Route(t, pc) /\ Serves(t, pc)
      BY <1>1, <1>2, <2>6 DEF Knows, Route, Serves, Passwords, Sending, Answering, ByIdentity,
                              Making
    <2>9. Uses(t, pc, t.rows) /\ Claims(t, pc, t.rows) /\ Links(t, pc, t.rows)
      BY <2>1, <2>6, <2>7 DEF Uses, Claims, Links
    <2>. QED BY <1>1, <2>4, <2>5, <2>6, <2>7, <2>8, <2>9, MoveInv DEF RequestInv, Knows
  <1>. QED BY <1>3, <1>4, <1>5 DEF FindOtp

-----------------------------------------------------------------------------
(* Statements that write                                                   *)

\* The names of rows and keys do not collide.
LEMMA NamesApart ==
  ASSUME NEW x, NEW y
  PROVE  /\ UserRow(x) # PhoneKey(y) /\ UserRow(x) # MailKey(y) /\ PhoneKey(x) # MailKey(y)
         /\ CodeRow(x) \notin {UserRow(y), PhoneKey(y), MailKey(y), LinkKey(y), CounterRow(y)}
         /\ LinkKey(x) \notin {UserRow(y), PhoneKey(y), MailKey(y), CodeRow(y), CounterRow(y)}
         /\ CounterRow(x) \notin {UserRow(y), PhoneKey(y), MailKey(y)}
         /\ UserRow(x) = UserRow(y) => x = y
         /\ PhoneKey(x) = PhoneKey(y) => x = y
         /\ MailKey(x) = MailKey(y) => x = y
         /\ CodeRow(x) = CodeRow(y) => x = y
         /\ LinkKey(x) = LinkKey(y) => x = y
         /\ CounterRow(x) = CounterRow(y) => x = y
  BY DEF UserRow, PhoneKey, MailKey, CodeRow, LinkKey, CounterRow

LEMMA KeysAre ==
  ASSUME NEW a, NEW k \in KeysOf(a)
  PROVE  (a.mail # None /\ k = MailKey(a.mail)) \/ (a.phone # None /\ k = PhoneKey(a.phone))
  BY DEF KeysOf

\* Rows that are neither codes nor links, and keys of nobody else.
LEMMA HoldKnows ==
  ASSUME NEW t \in TxRecord, NEW pc, NEW old, NEW rows, Knows(t, t.pc, old),
         t.pc # "commit", t.op \notin {"registerByCode", "loginByIdentity", "registerByIdentity"},
         t.pc \in {"create", "phone"} => pc \in {"create", "phone", "commit"},
         pc \notin {"count", "consume"},
         t.op = "verifyPhone" => t.pc = "phone",
         \A c \in Code : CodeRow(c) \notin rows,
         \A s \in Subject : LinkKey(s) \notin rows,
         \A u \in Accounts : KeysOf(account[u]) \cap rows # {} => u = t.user,
         Route(t, pc), Serves(t, pc),
         t.op \notin Making,
         t.op = "verifyPhone" /\ pc = "commit" => PhoneKey(t.phone) \in rows,
         pc \in {"create", "phone", "link", "clearIp", "commit"}
  PROVE  Knows(t, pc, old \cup rows)
  <1>1. Uses(t, pc, old \cup rows)
    BY DEF Knows, Uses
  <1>2. Claims(t, pc, old \cup rows)
    BY DEF Knows, Claims
  <1>3. Links(t, pc, old \cup rows)
    BY DEF Knows, Links, ByIdentity
  <1>. QED BY <1>1, <1>2, <1>3 DEF Knows

LEMMA SetPhoneInv ==
  ASSUME IInv, NEW r \in Request, SetPhone(r)
  PROVE  IInv'
  <1>1. UNCHANGED <<identities, counter>> /\ tx[r].pc = "phone"
    BY DEF SetPhone, lockout, At
  <1>2. tx[r] \in TxRecord /\ Knows(tx[r], tx[r].pc, tx[r].rows)
    BY RequestIs
  <1>3. tx[r].op = "verifyPhone" /\ tx[r].user \in Accounts /\ tx[r].phone \in Phone
    BY <1>1, <1>2 DEF Knows, Route, Serves, Answering
  <1>4. PICK rows : rows = {UserRow(tx[r].user), PhoneKey(tx[r].phone)}
    OBVIOUS
  <1>5. rows \in SUBSET RowName
    BY <1>3, <1>4 DEF RowName, UserRow, PhoneKey, Accounts
  <1>6. CASE End(r)
    <2>1. counter' \in Counters
      BY <1>1 DEF IInv, Types
    <2>. QED BY <1>1, <1>6, <2>1, EndInv
  <1>7. CASE /\ OwnersOf(tx[r].phone) \subseteq {tx[r].user} /\ Free(r, rows)
             /\ Hold(r, rows, "commit")
    <2>1. \A c : CodeRow(c) \notin rows /\ LinkKey(c) \notin rows
      BY <1>4, NamesApart
    <2>2. ASSUME NEW u \in Accounts, NEW k \in KeysOf(account[u]) \cap rows
          PROVE  u = tx[r].user
      <3>1. k = PhoneKey(tx[r].phone) /\ account[u].phone = tx[r].phone
        BY <1>4, <2>2, KeysAre, NamesApart
      <3>. QED BY <1>7, <3>1 DEF OwnersOf
    <2>3. Route(tx[r], "commit") /\ Serves(tx[r], "commit")
      BY <1>2, <1>3 DEF Knows, Route, Serves, Passwords, Sending, Answering, ByIdentity, Making
    <2>4. Knows(tx[r], "commit", tx[r].rows \cup rows)
      BY <1>1, <1>2, <1>3, <1>4, <2>1, <2>2, <2>3, HoldKnows DEF Making
    <2>5. "commit" \in PcName
      BY DEF PcName
    <2>. QED BY <1>1, <1>5, <1>7, <2>4, <2>5, HoldInv
  <1>. QED BY <1>4, <1>6, <1>7 DEF SetPhone

LEMMA MailProvenInv ==
  ASSUME IInv, NEW r \in Request, MarkEmailVerified(r)
  PROVE  IInv'
  <1>1. UNCHANGED <<identities, counter>> /\ tx[r].pc = "mailProven"
    BY DEF MarkEmailVerified, lockout, At
  <1>2. tx[r] \in TxRecord /\ Knows(tx[r], tx[r].pc, tx[r].rows)
    BY RequestIs
  <1>3. tx[r].op = "verifyEmail" /\ tx[r].user \in User
    BY <1>1, <1>2 DEF Knows, Route, Serves
  <1>4. PICK rows : rows = {UserRow(tx[r].user)}
    OBVIOUS
  <1>5. rows \in SUBSET RowName
    BY <1>3, <1>4 DEF RowName, UserRow
  <1>6. Free(r, rows) /\ Hold(r, rows, "commit")
    BY <1>4 DEF MarkEmailVerified
  <1>7. \A c : CodeRow(c) \notin rows /\ LinkKey(c) \notin rows
    BY <1>4, NamesApart
  <1>8. \A u \in Accounts : KeysOf(account[u]) \cap rows = {}
    BY <1>4, KeysAre, NamesApart
  <1>9. Route(tx[r], "commit") /\ Serves(tx[r], "commit")
    BY <1>2, <1>3 DEF Knows, Route, Serves, Passwords, Sending, Answering, ByIdentity, Making
  <1>10. Knows(tx[r], "commit", tx[r].rows \cup rows)
    BY <1>1, <1>2, <1>3, <1>7, <1>8, <1>9, HoldKnows DEF Making
  <1>11. "commit" \in PcName
    BY DEF PcName
  <1>. QED BY <1>1, <1>5, <1>6, <1>10, <1>11, HoldInv

LEMMA TurnIs ==
  ASSUME IInv, NEW r \in Request, tx[r].pc \in Passwords
  PROVE  Turn(r) \in Ident /\ tx[r].op = "login"
  <1>1. Knows(tx[r], tx[r].pc, tx[r].rows)
    BY RequestIs
  <1>. QED BY <1>1 DEF Knows, Route, Turn, Ident

LEMMA ClearInv ==
  ASSUME IInv, NEW r \in Request, ClearFailures(r)
  PROVE  IInv'
  <1>1. UNCHANGED <<identities, counter>> /\ tx[r].pc \in {"clearMail", "clearIp"}
    BY DEF ClearFailures, lockout
  <1>2. tx[r] \in TxRecord /\ Knows(tx[r], tx[r].pc, tx[r].rows)
    BY RequestIs
  <1>3. tx[r].op = "login" /\ Turn(r) \in Ident
    BY <1>1, TurnIs DEF Passwords
  <1>4. PICK rows : rows = IF counter[Turn(r)].count = 0 THEN {} ELSE {CounterRow(Turn(r))}
    OBVIOUS
  <1>5. PICK pc \in {"clearIp", "commit"} :
          pc = IF tx[r].pc = "clearMail" THEN "clearIp" ELSE "commit"
    OBVIOUS
  <1>6. rows \in SUBSET RowName /\ pc \in PcName
    BY <1>3, <1>4 DEF RowName, CounterRow, PcName, Passwords
  <1>7. Free(r, rows) /\ Hold(r, rows, pc)
    BY <1>4, <1>5 DEF ClearFailures
  <1>8. \A c : CodeRow(c) \notin rows /\ LinkKey(c) \notin rows
    BY <1>4, NamesApart
  <1>9. \A u \in Accounts : KeysOf(account[u]) \cap rows = {}
    BY <1>4, KeysAre, NamesApart
  <1>10. Route(tx[r], pc) /\ Serves(tx[r], pc)
    BY <1>2, <1>3 DEF Knows, Route, Serves, Passwords, Sending, Answering, ByIdentity, Making
  <1>11. Knows(tx[r], pc, tx[r].rows \cup rows)
    BY <1>1, <1>2, <1>3, <1>8, <1>9, <1>10, HoldKnows DEF Making
  <1>. QED BY <1>1, <1>6, <1>7, <1>11, HoldInv

\* recordFailedPasswordLogin, between its read and its end.
LEMMA AttemptInv ==
  ASSUME IInv, NEW r \in Request, ReadAttempt(r)
  PROVE  IInv'
  <1>1. UNCHANGED <<identities, counter>> /\ tx[r].pc \in {"readMail", "readIp"}
    BY DEF ReadAttempt, lockout
  <1>2. tx[r] \in TxRecord /\ Knows(tx[r], tx[r].pc, tx[r].rows)
    BY RequestIs
  <1>3. tx[r].op = "login" /\ Turn(r) \in Ident
    BY <1>1, TurnIs DEF Passwords
  <1>4. PICK seen : seen = counter[Turn(r)].count
    OBVIOUS
  <1>5. counter \in Counters /\ seen \in Nat
    BY <1>3, <1>4 DEF IInv, Types, Counters
  <1>6. PICK pc \in {"recordMail", "recordIp"} :
          pc = IF tx[r].pc = "readMail" THEN "recordMail" ELSE "recordIp"
    OBVIOUS
  <1>7. PICK t : t = [tx[r] EXCEPT !.seen = seen, !.pc = pc]
    OBVIOUS
  <1>8. pc \in PcName
    BY DEF PcName, Passwords
  <1>9. t \in TxRecord
    BY <1>2, <1>5, <1>7, <1>8 DEF TxRecord
  <1>10. tx' = [tx EXCEPT ![r] = t]
    BY <1>4, <1>6, <1>7 DEF ReadAttempt
  <1>11. /\ t.op = tx[r].op /\ t.user = tx[r].user /\ t.mail = tx[r].mail /\ t.phone = tx[r].phone
         /\ t.subject = tx[r].subject /\ t.ident = tx[r].ident /\ t.code = tx[r].code
         /\ t.pc = pc /\ t.rows = tx[r].rows
    BY <1>2, <1>7 DEF TxRecord
  <1>12. t.rows = {}
    BY <1>1, <1>2, <1>11 DEF Knows, Claims
  <1>13. Route(t, pc) /\ Serves(t, pc)
    BY <1>2, <1>3, <1>11 DEF Knows, Route, Serves, Passwords, Sending, Answering, ByIdentity, Making
  <1>14. Uses(t, pc, t.rows) /\ Claims(t, pc, t.rows) /\ Links(t, pc, t.rows)
    BY <1>3, <1>11, <1>12 DEF Uses, Claims, Links, Making
  <1>15. RequestInv(t)
    BY <1>11, <1>13, <1>14 DEF RequestInv, Knows
  <1>16. \A q \in Request \ {r} : tx[q].rows \cap t.rows = {}
    BY <1>12
  <1>. QED BY <1>1, <1>5, <1>9, <1>10, <1>15, <1>16, MoveInv

LEMMA CountInv ==
  ASSUME IInv, NEW r \in Request, RecordFailure(r)
  PROVE  IInv'
  <1>1. UNCHANGED identities /\ tx[r].pc \in {"recordMail", "recordIp"}
    BY DEF RecordFailure
  <1>2. tx[r] \in TxRecord /\ Knows(tx[r], tx[r].pc, tx[r].rows)
    BY RequestIs
  <1>3. tx[r].op = "login" /\ Turn(r) \in Ident
    BY <1>1, TurnIs DEF Passwords
  <1>4. PICK row : row = [count |-> NextCount(Turn(r), tx[r].seen), locked |-> Locks(tx[r].seen)]
    OBVIOUS
  <1>5. counter \in Counters
    BY DEF IInv, Types
  <1>6. NextCount(Turn(r), tx[r].seen) \in Nat /\ Locks(tx[r].seen) \in BOOLEAN
    BY <1>3, <1>5 DEF Counters, NextCount, Locks
  <1>7. row \in [count : Nat, locked : BOOLEAN]
    BY <1>4, <1>6
  <1>8. counter' \in Counters
    <2>1. counter' = [counter EXCEPT ![Turn(r)] = row]
      BY <1>4 DEF RecordFailure
    <2>. QED BY <1>5, <1>7, <2>1 DEF Counters
  <1>9. CASE End(r)
    BY <1>1, <1>8, <1>9, EndInv
  <1>10. CASE tx[r].pc = "recordMail" /\ Goto(r, "readIp")
    <2>1. "readIp" \in PcName
      BY DEF PcName, Passwords
    <2>2. Knows(tx[r], "readIp", tx[r].rows)
      BY <1>2, <1>3, <1>10 DEF Knows, Route, Serves, Uses, Claims, Links, Passwords, Sending,
                              Answering, ByIdentity, Making
    <2>. QED BY <1>1, <1>8, <1>10, <2>1, <2>2, GotoInv
  <1>. QED BY <1>9, <1>10 DEF RecordFailure

LEMMA SameInv ==
  ASSUME IInv, UNCHANGED <<identities, tx>>, counter' \in Counters
  PROVE  IInv'
  <1>1. Types' /\ RowsApart'
    BY DEF IInv, Types, RowsApart, identities
  <1>2. OneOwner' /\ AccountsBacked'
    BY DEF IInv, OneOwner, AccountsBacked, Accounts, KeysOf, HoldersOf, identities
  <1>3. ASSUME NEW q \in Request PROVE RequestInv(tx[q])'
    <2>1. PICK u : u = tx[q]
      OBVIOUS
    <2>2. RequestInv(u)'
      BY <2>1, SameKnows DEF IInv
    <2>. QED BY <2>1, <2>2 DEF RequestInv, Knows, Route, Serves, Uses, Claims, Links, Draft
  <1>. QED BY <1>1, <1>2, <1>3 DEF IInv

LEMMA LapseInv ==
  ASSUME IInv, NEW i \in Ident, Lapse(i)
  PROVE  IInv'
  <1>1. counter' = [counter EXCEPT ![i].locked = FALSE] /\ counter \in Counters
    BY DEF Lapse, IInv, Types
  <1>2. counter' \in Counters
    BY <1>1 DEF Counters
  <1>. QED BY <1>2, SameInv DEF Lapse

\* createUser, which takes an id and the keys.
LEMMA CreateInv ==
  ASSUME IInv, NEW r \in Request, CreateUser(r)
  PROVE  IInv'
  <1>1. UNCHANGED <<identities, counter>> /\ tx[r].pc = "create" /\ counter' \in Counters
    BY DEF CreateUser, lockout, At, IInv, Types
  <1>2. tx[r] \in TxRecord /\ Knows(tx[r], tx[r].pc, tx[r].rows)
    BY RequestIs
  <1>3. tx[r].op \in Making
    BY <1>1, <1>2 DEF Knows, Route
  <1>4. CASE End(r)
    BY <1>1, <1>4, EndInv
  <1>5. CASE ~End(r)
    <2>1. PICK keys : keys = KeysOf(NewAccount(r))
      OBVIOUS
    <2>2. keys = KeysOf(Draft(tx[r])) /\ Free(r, keys)
      BY <2>1 DEF CreateUser, NewAccount, Draft
    <2>3. PICK pc \in {"link", "commit"} :
            pc = IF tx[r].op = "registerByIdentity" THEN "link" ELSE "commit"
      OBVIOUS
    <2>4. PICK u \in User :
            /\ Fresh(u)
            /\ tx' = [tx EXCEPT ![r].user = u, ![r].rows = @ \cup keys \cup {UserRow(u)},
                                ![r].pc = pc]
      BY <1>5, <2>1, <2>3 DEF CreateUser
    <2>5. \A v \in Accounts : KeysOf(account[v]) \cap keys = {}
      BY <1>5, <2>1 DEF CreateUser
    <2>6. PICK t : t = [tx[r] EXCEPT !.user = u, !.rows = tx[r].rows \cup keys \cup {UserRow(u)},
                                     !.pc = pc]
      OBVIOUS
    <2>7. keys \in SUBSET RowName /\ UserRow(u) \in RowName /\ pc \in PcName
      <3>1. tx[r].mail \in Mail \cup {None} /\ tx[r].phone \in Phone \cup {None}
        BY <1>2 DEF TxRecord
      <3>2. keys \in SUBSET RowName
        BY <2>2, <3>1 DEF KeysOf, Draft, MailKey, PhoneKey, RowName, Ident
      <3>3. UserRow(u) \in RowName
        BY DEF UserRow, RowName
      <3>. QED BY <3>2, <3>3 DEF PcName
    <2>8. t \in TxRecord
      BY <1>2, <2>6, <2>7 DEF TxRecord
    <2>9. tx' = [tx EXCEPT ![r] = t]
      BY <2>4, <2>6
    <2>10. /\ t.op = tx[r].op /\ t.user = u /\ t.mail = tx[r].mail /\ t.phone = tx[r].phone
           /\ t.subject = tx[r].subject /\ t.ident = tx[r].ident /\ t.code = tx[r].code
           /\ t.pc = pc /\ t.rows = tx[r].rows \cup keys \cup {UserRow(u)}
      BY <1>2, <2>6 DEF TxRecord
    <2>11. Draft(t) = Draft(tx[r])
      BY <2>10 DEF Draft
    <2>12. \A c : CodeRow(c) \notin keys \cup {UserRow(u)} /\ LinkKey(c) \notin keys \cup {UserRow(u)}
      BY <2>2, KeysAre, NamesApart
    <2>13. Route(t, pc)
      BY <1>2, <1>3, <2>3, <2>10 DEF Knows, Route, Passwords, Sending, Answering, ByIdentity, Making
    <2>14. Serves(t, pc)
      BY <1>3, <2>10 DEF Serves, Making
    <2>15. Uses(t, pc, t.rows)
      BY <1>1, <1>2, <2>3, <2>10, <2>12 DEF Knows, Uses
    <2>16. Links(t, pc, t.rows)
      BY <1>1, <1>2, <2>3, <2>10, <2>12 DEF Knows, Links
    <2>17. Claims(t, pc, t.rows)
      <3>1. tx[r].user = None /\ None \notin Accounts
        BY <1>1, <1>2, <1>3, NoneIsNothing DEF Knows, Serves, Accounts
      <3>2. \A v \in Accounts : KeysOf(account[v]) \cap tx[r].rows = {}
        BY <1>2, <3>1 DEF Knows, Claims
      <3>3. \A v \in Accounts : UserRow(u) \notin KeysOf(account[v])
        BY KeysAre, NamesApart
      <3>4. \A v \in Accounts : KeysOf(account[v]) \cap t.rows = {}
        BY <2>5, <2>10, <3>2, <3>3
      <3>5. t.user \in User \ Accounts /\ UserRow(t.user) \in t.rows /\ KeysOf(Draft(t)) \subseteq t.rows
        BY <2>2, <2>4, <2>10, <2>11 DEF Fresh
      <3>. QED BY <1>3, <2>10, <3>4, <3>5 DEF Claims, Making
    <2>18. RequestInv(t)
      BY <2>10, <2>13, <2>14, <2>15, <2>16, <2>17 DEF RequestInv, Knows
    <2>19. \A q \in Request \ {r} : tx[q].rows \cap t.rows = {}
      BY <2>2, <2>4, <2>10 DEF IInv, RowsApart, Free, Fresh
    <2>. QED BY <1>1, <2>8, <2>9, <2>18, <2>19, MoveInv
  <1>. QED BY <1>4, <1>5

LEMMA LinkInv ==
  ASSUME IInv, NEW r \in Request, LinkIdentity(r)
  PROVE  IInv'
  <1>1. UNCHANGED <<identities, counter>> /\ tx[r].pc = "link" /\ counter' \in Counters
    BY DEF LinkIdentity, lockout, At, IInv, Types
  <1>2. tx[r] \in TxRecord /\ Knows(tx[r], tx[r].pc, tx[r].rows)
    BY RequestIs
  <1>3. /\ tx[r].op \in ByIdentity /\ tx[r].subject \in Subject
        /\ "commit" \in PcName
    BY <1>1, <1>2 DEF Knows, Route, PcName
  <1>4. PICK s \in Subject : s = tx[r].subject
    BY <1>3
  <1>5. CASE End(r)
    BY <1>1, <1>5, EndInv
  <1>6. Route(tx[r], "commit") /\ Serves(tx[r], "commit")
    BY <1>1, <1>2, <1>3 DEF Knows, Route, Serves, Passwords, Sending, Answering, ByIdentity, Making
  <1>7. CASE link[s] = None /\ Hold(r, {LinkKey(s)}, "commit") /\ Free(r, {LinkKey(s)})
    <2>1. {LinkKey(s)} \in SUBSET RowName
      BY DEF LinkKey, RowName
    <2>2. Uses(tx[r], "commit", tx[r].rows \cup {LinkKey(s)})
      BY <1>1, <1>2, <1>3, NamesApart DEF Knows, Uses, ByIdentity
    <2>3. Links(tx[r], "commit", tx[r].rows \cup {LinkKey(s)})
      BY <1>1, <1>2, <1>3, <1>4, <1>7, NamesApart DEF Knows, Links, ByIdentity
    <2>4. \A u \in Accounts : LinkKey(s) \notin KeysOf(account[u])
      BY KeysAre, NamesApart
    <2>5. Claims(tx[r], "commit", tx[r].rows \cup {LinkKey(s)})
      BY <1>1, <1>2, <1>3, <2>4 DEF Knows, Claims, ByIdentity
    <2>6. Knows(tx[r], "commit", tx[r].rows \cup {LinkKey(s)})
      BY <1>6, <2>2, <2>3, <2>5 DEF Knows
    <2>. QED BY <1>1, <1>3, <1>7, <2>1, <2>6, HoldInv
  <1>8. CASE link[s] = tx[r].user /\ link[s] # None /\ Goto(r, "commit")
    <2>1. link[s] \in Accounts
      BY <1>8 DEF IInv, AccountsBacked, HoldersOf
    <2>2. tx[r].op = "loginByIdentity"
      BY <1>1, <1>2, <1>3, <1>8, <2>1 DEF Knows, Claims, ByIdentity, Making
    <2>3. Uses(tx[r], "commit", tx[r].rows) /\ Links(tx[r], "commit", tx[r].rows)
          /\ Claims(tx[r], "commit", tx[r].rows)
      BY <1>1, <1>2, <2>2 DEF Knows, Uses, Links, Claims, Making
    <2>4. Knows(tx[r], "commit", tx[r].rows)
      BY <1>6, <2>3 DEF Knows
    <2>. QED BY <1>1, <1>3, <1>8, <2>4, GotoInv
  <1>9. tx[r].user # None
    BY <1>1, <1>2, <1>3, NoneIsNothing
       DEF Knows, Serves, Claims, HoldersOf, Accounts, ByIdentity, Making
  <1>10. CASE link[s] = None
    BY <1>4, <1>7, <1>9, <1>10 DEF LinkIdentity
  <1>11. CASE link[s] # None
    BY <1>4, <1>5, <1>8, <1>9, <1>11 DEF LinkIdentity
  <1>. QED BY <1>10, <1>11

-----------------------------------------------------------------------------
(* Codes and letters                                                       *)

\* What a request knows outlives a step of another, or of its own statement.
LEMMA Persists ==
  ASSUME NEW t, RequestInv(t),
         \A u \in Accounts : u \in Accounts' /\ account'[u].mail = account[u].mail,
         \A c \in Code : code[c] # None =>
           /\ code'[c] # None /\ code'[c].phone = code[c].phone
           /\ code'[c].purpose = code[c].purpose,
         \A s \in Subject : LinkKey(s) \in t.rows => link'[s] = link[s],
         \A u \in User : UserRow(u) \in t.rows /\ u \notin Accounts => u \notin Accounts',
         \A u \in Accounts' : KeysOf(account'[u]) \cap t.rows # {} =>
           u \in Accounts /\ KeysOf(account[u]) \cap t.rows # {}
  PROVE  RequestInv(t)'
  <1>1. Knows(t, t.pc, t.rows)
    BY DEF RequestInv
  <1>2. Route(t, t.pc)'
    BY <1>1 DEF Knows, Route
  <1>3. Serves(t, t.pc)'
    BY <1>1 DEF Knows, Serves, HoldersOf
  <1>4. Uses(t, t.pc, t.rows)'
    BY <1>1 DEF Knows, Uses
  <1>5. Claims(t, t.pc, t.rows)'
    BY <1>1 DEF Knows, Claims
  <1>6. Links(t, t.pc, t.rows)'
    BY <1>1 DEF Knows, Links
  <1>. QED BY <1>2, <1>3, <1>4, <1>5, <1>6 DEF RequestInv, Knows

\* A statement that is committed at once changes codes and letters only.
LEMMA CodesInv ==
  ASSUME IInv, UNCHANGED <<account, link, counter>>, tx' = tx \/ \E r \in Request : End(r),
         code' \in [Code -> CodeRecord \cup {None}],
         \A c \in Code : code[c] # None =>
           /\ code'[c] # None /\ code'[c].phone = code[c].phone
           /\ code'[c].purpose = code[c].purpose
           /\ \/ code'[c].usedBy = code[c].usedBy
              \/ code[c].purpose = "LOGIN" /\ code'[c].usedBy \in Accounts,
         \A c \in Code : code[c] = None /\ code'[c] # None => code'[c].usedBy = None,
         letter' \in [User -> SUBSET {"open", "used"}],
         \A u \in User : "used" \in letter[u] => "used" \in letter'[u]
  PROVE  IInv'
  <1>1. /\ tx' \in [Request -> TxRecord]
        /\ \A q \in Request : tx'[q] = tx[q] \/ tx'[q] = Idle
    BY IdleIs DEF IInv, Types, End
  <1>2. Types'
    BY <1>1 DEF IInv, Types
  <1>3. RowsApart'
    BY <1>1, IdleIs DEF IInv, RowsApart
  <1>4. OneOwner' /\ Accounts' = Accounts
    BY DEF IInv, OneOwner, Accounts, KeysOf
  <1>5. AccountsBacked'
    <2>1. \A u \in User : account[u].phoneProven =>
            \E c \in Code : /\ code'[c] # None /\ code'[c].usedBy = u
                            /\ code'[c].phone = account[u].phone /\ code'[c].purpose # "LOGIN"
      BY DEF IInv, AccountsBacked
    <2>2. \A c \in Code : code'[c] # None /\ code'[c].usedBy # None => code'[c].usedBy \in Accounts
      BY DEF IInv, AccountsBacked
    <2>3. \A u \in User : account[u].mailProven => account[u].by = "OAUTH" \/ "used" \in letter'[u]
      BY DEF IInv, AccountsBacked
    <2>4. /\ \A u \in User : account[u].by = "OAUTH" => \E s \in Subject : link[s] = u
          /\ \A s \in Subject : link[s] # None => link[s] \in HoldersOf(MailOf[s])
      BY DEF IInv, AccountsBacked
    <2>. QED BY <1>4, <2>1, <2>2, <2>3, <2>4 DEF AccountsBacked, HoldersOf
  <1>6. ASSUME NEW q \in Request PROVE RequestInv(tx[q])'
    <2>1. PICK t : t = tx'[q]
      OBVIOUS
    <2>2. RequestInv(t)
      BY <1>1, <2>1, IdleInv DEF IInv
    <2>3. RequestInv(t)'
      <3>1. KeysOf(account'[q]) = KeysOf(account[q])
        OBVIOUS
      <3>. QED BY <1>4, <2>2, Persists
    <2>. QED BY <2>1, <2>3 DEF RequestInv, Knows, Route, Serves, Uses, Claims, Links, Draft
  <1>. QED BY <1>2, <1>3, <1>4, <1>5, <1>6 DEF IInv

\* One code gets a new row, of the same phone and purpose if it had one.
LEMMA OneCodeInv ==
  ASSUME IInv, UNCHANGED <<account, link, letter, counter>>,
         tx' = tx \/ \E r \in Request : End(r),
         NEW c \in Code, NEW row \in CodeRecord, code' = [code EXCEPT ![c] = row],
         IF code[c] = None THEN row.usedBy = None
         ELSE /\ row.phone = code[c].phone /\ row.purpose = code[c].purpose
              /\ \/ row.usedBy = code[c].usedBy
                 \/ code[c].purpose = "LOGIN" /\ row.usedBy \in Accounts
  PROVE  IInv'
  <1>1. /\ code \in [Code -> CodeRecord \cup {None}] /\ row # None
        /\ letter' \in [User -> SUBSET {"open", "used"}]
    BY NoneIsNothing DEF IInv, Types
  <1>2. /\ code' \in [Code -> CodeRecord \cup {None}] /\ code'[c] = row
        /\ \A d \in Code \ {c} : code'[d] = code[d]
    BY <1>1
  <1>. QED BY <1>1, <1>2, CodesInv

LEMMA CreateOtpInv ==
  ASSUME IInv, NEW r \in Request, CreateOtp(r)
  PROVE  IInv'
  <1>1. tx[r] \in TxRecord /\ Knows(tx[r], tx[r].pc, tx[r].rows) /\ tx[r].pc = "deliver"
    BY RequestIs DEF CreateOtp, At
  <1>2. tx[r].op \in Sending /\ tx[r].phone \in Phone
    BY <1>1 DEF Knows, Route
  <1>3. PICK row : row = [phone |-> tx[r].phone, purpose |-> Purpose(tx[r].op),
                          age |-> "fresh", attempts |-> 0, usedBy |-> None]
    OBVIOUS
  <1>4. Purpose(tx[r].op) \in {"LOGIN", "REGISTER", "PHONE_VERIFY"}
    BY <1>2 DEF Sending, Purpose
  <1>5. row \in CodeRecord /\ row.usedBy = None
    BY <1>2, <1>3, <1>4 DEF CodeRecord, CodeAge
  <1>6. PICK c \in Code : code[c] = None /\ code' = [code EXCEPT ![c] = row]
    BY <1>3 DEF CreateOtp
  <1>. QED BY <1>5, <1>6, OneCodeInv DEF CreateOtp, lockout

LEMMA CountAnswerInv ==
  ASSUME IInv, NEW r \in Request, IncrementAttempts(r)
  PROVE  IInv'
  <1>1. tx[r] \in TxRecord /\ Knows(tx[r], tx[r].pc, tx[r].rows) /\ tx[r].pc = "count"
    BY RequestIs DEF IncrementAttempts, At
  <1>2. PICK c : c = tx[r].code
    OBVIOUS
  <1>3. c \in Code /\ code[c] \in CodeRecord
    BY <1>1, <1>2 DEF Knows, Uses, IInv, Types
  <1>4. CASE tx[r].op = "loginByCode"
    <2>1. PICK row : row = [code[c] EXCEPT !.attempts = code[c].attempts + 1]
      OBVIOUS
    <2>2. /\ row \in CodeRecord /\ row.phone = code[c].phone /\ row.purpose = code[c].purpose
          /\ row.usedBy = code[c].usedBy
      BY <1>3, <2>1 DEF CodeRecord
    <2>3. code' = [code EXCEPT ![c] = row]
      BY <1>2, <1>4, <2>1 DEF IncrementAttempts
    <2>4. code[c] # None
      BY <1>3, NoneIsNothing
    <2>. QED BY <1>3, <2>2, <2>3, <2>4, OneCodeInv DEF IncrementAttempts, lockout
  <1>5. CASE tx[r].op # "loginByCode"
    <2>1. counter' \in Counters
      BY DEF IncrementAttempts, lockout, IInv, Types
    <2>. QED BY <1>5, <2>1, EndInv DEF IncrementAttempts, identities, lockout
  <1>. QED BY <1>4, <1>5

\* A sign-in consumes its code at once; the others hold it.
LEMMA ConsumeInv ==
  ASSUME IInv, NEW r \in Request, ConsumeOtp(r)
  PROVE  IInv'
  <1>1. tx[r] \in TxRecord /\ Knows(tx[r], tx[r].pc, tx[r].rows) /\ tx[r].pc = "consume"
    BY RequestIs DEF ConsumeOtp, At
  <1>2. PICK c : c = tx[r].code
    OBVIOUS
  <1>3. /\ c \in Code /\ code[c] \in CodeRecord /\ tx[r].op \in Answering
        /\ code[c].phone = tx[r].phone /\ code[c].purpose = Purpose(tx[r].op)
    BY <1>1, <1>2 DEF Knows, Route, Uses, IInv, Types
  <1>4. CASE tx[r].op = "loginByCode"
    <2>1. tx[r].user \in Accounts /\ tx[r].user \in User
      BY <1>1, <1>4 DEF Knows, Serves, Accounts
    <2>2. PICK row : row = [code[c] EXCEPT !.usedBy = tx[r].user]
      OBVIOUS
    <2>3. /\ row \in CodeRecord /\ row.phone = code[c].phone /\ row.purpose = code[c].purpose
          /\ row.usedBy \in Accounts
      BY <1>3, <2>1, <2>2 DEF CodeRecord
    <2>4. code' = [code EXCEPT ![c] = row] /\ End(r)
      BY <1>2, <1>4, <2>2 DEF ConsumeOtp
    <2>5. code[c] # None /\ code[c].purpose = "LOGIN"
      BY <1>3, <1>4, NoneIsNothing DEF Purpose
    <2>. QED BY <1>3, <2>3, <2>4, <2>5, OneCodeInv DEF ConsumeOtp, lockout
  <1>5. CASE tx[r].op # "loginByCode"
    <2>1. PICK pc \in {"create", "phone"} :
            pc = IF tx[r].op = "registerByCode" THEN "create" ELSE "phone"
      OBVIOUS
    <2>2. /\ Hold(r, {CodeRow(c)}, pc) /\ Free(r, {CodeRow(c)})
          /\ UNCHANGED <<identities, counter>>
      BY <1>2, <1>5, <2>1 DEF ConsumeOtp, identities, lockout
    <2>3. {CodeRow(c)} \in SUBSET RowName /\ pc \in PcName
      BY <1>3 DEF CodeRow, RowName, PcName
    <2>4. tx[r].op \in {"registerByCode", "verifyPhone"} /\ tx[r].rows = {}
      BY <1>1, <1>3, <1>5 DEF Answering, Knows, Claims
    <2>5. Route(tx[r], pc) /\ Serves(tx[r], pc)
      BY <1>1, <2>1, <2>4 DEF Knows, Route, Serves, Passwords, Sending, Answering, ByIdentity, Making
    <2>6. Uses(tx[r], pc, {CodeRow(c)})
      BY <1>2, <1>3, <2>1, <2>4, NamesApart, NoneIsNothing DEF Uses
    <2>7. \A u \in Accounts : CodeRow(c) \notin KeysOf(account[u])
      BY KeysAre, NamesApart
    <2>8. Claims(tx[r], pc, {CodeRow(c)}) /\ Links(tx[r], pc, {CodeRow(c)})
      BY <2>1, <2>4, <2>7, NamesApart DEF Claims, Links
    <2>9. Knows(tx[r], pc, tx[r].rows \cup {CodeRow(c)})
      BY <2>4, <2>5, <2>6, <2>8 DEF Knows
    <2>. QED BY <2>2, <2>3, <2>9, HoldInv
  <1>. QED BY <1>4, <1>5

LEMMA AgeInv ==
  ASSUME IInv, NEW c \in Code, Age(c)
  PROVE  IInv'
  <1>1. code[c] \in CodeRecord /\ code[c] # None
    BY DEF Age, IInv, Types
  <1>2. PICK row : row = [code[c] EXCEPT !.age = Older(code[c].age)]
    OBVIOUS
  <1>3. /\ row \in CodeRecord /\ row.phone = code[c].phone /\ row.purpose = code[c].purpose
        /\ row.usedBy = code[c].usedBy
    BY <1>1, <1>2 DEF CodeRecord, CodeAge, Older
  <1>4. code' = [code EXCEPT ![c] = row]
    BY <1>2 DEF Age
  <1>. QED BY <1>1, <1>3, <1>4, OneCodeInv DEF Age, lockout

LEMMA LetterInv ==
  ASSUME IInv, NEW r \in Request, CreateLetter(r)
  PROVE  IInv'
  <1>1. tx[r] \in TxRecord /\ Knows(tx[r], tx[r].pc, tx[r].rows) /\ tx[r].pc = "letter"
    BY RequestIs DEF CreateLetter, At
  <1>2. PICK u : u = tx[r].user
    OBVIOUS
  <1>3. u \in User
    BY <1>1, <1>2 DEF Knows, Route, Serves, Accounts
  <1>4. letter \in [User -> SUBSET {"open", "used"}] /\ code \in [Code -> CodeRecord \cup {None}]
    BY DEF IInv, Types
  <1>5. letter' = [letter EXCEPT ![u] = letter[u] \cup {"open"}]
    BY <1>2 DEF CreateLetter
  <1>6. /\ letter' \in [User -> SUBSET {"open", "used"}]
        /\ \A v \in User : "used" \in letter[v] => "used" \in letter'[v]
    BY <1>3, <1>4, <1>5
  <1>. QED BY <1>4, <1>6, CodesInv DEF CreateLetter, lockout

-----------------------------------------------------------------------------
(* COMMIT                                                                  *)

\* What a request that may commit knows.
LEMMA CommitKnows ==
  ASSUME IInv, NEW r \in Request, NEW t, t = tx[r], t.pc = "commit"
  PROVE  /\ t \in TxRecord /\ Knows(t, "commit", t.rows)
         /\ t.op \in Making \cup {"verifyPhone", "verifyEmail"} => t.user \in User
         /\ t.op \in Making => t.user \notin Accounts
         /\ t.op \in {"registerByCode", "verifyPhone"} => t.phone \in Phone
  <1>1. t \in TxRecord /\ Knows(t, "commit", t.rows)
    BY RequestIs
  <1>2. t.op \in Making \cup {"verifyPhone", "verifyEmail"} => t.user \in User
    BY <1>1 DEF Knows, Serves, Claims, Accounts
  <1>3. t.op \in Making => t.user \notin Accounts
    BY <1>1 DEF Knows, Claims
  <1>4. t.op \in {"registerByCode", "verifyPhone"} => t.phone \in Phone
    BY <1>1 DEF Knows, Route, Answering
  <1>. QED BY <1>1, <1>2, <1>3, <1>4

\* COMMIT makes, or changes, at most one account.
LEMMA CommitAccounts ==
  ASSUME IInv, NEW r \in Request, Commit(r), NEW t, t = tx[r]
  PROVE  /\ account' \in [User -> Account]
         /\ \A u \in User : u # t.user => account'[u] = account[u]
         /\ t.op \in Making => t.user \in User /\ account'[t.user] = Draft(t)
         /\ t.op = "verifyPhone" =>
              /\ t.user \in User
              /\ account'[t.user] = [account[t.user] EXCEPT !.phone = t.phone, !.phoneProven = TRUE]
         /\ t.op = "verifyEmail" =>
              t.user \in User /\ account'[t.user] = [account[t.user] EXCEPT !.mailProven = TRUE]
         /\ t.op \notin Making \cup {"verifyPhone", "verifyEmail"} => account' = account
  <1>1. account \in [User -> Account] /\ t.pc = "commit"
    BY DEF IInv, Types, Commit, At
  <1>2. t \in TxRecord /\ (t.op \in Making \cup {"verifyPhone", "verifyEmail"} => t.user \in User)
    BY <1>1, CommitKnows
  <1>3. CASE t.op \in Making
    <2>1. NewAccount(r) = Draft(t)
      BY DEF NewAccount, Draft
    <2>2. Draft(t) \in Account
      BY <1>2 DEF Draft, Account, TxRecord
    <2>3. account' = [account EXCEPT ![t.user] = Draft(t)]
      BY <1>3, <2>1 DEF Commit, Making
    <2>. QED BY <1>1, <1>2, <1>3, <2>2, <2>3 DEF Making
  <1>4. CASE t.op = "verifyPhone"
    <2>1. PICK a : a = [account[t.user] EXCEPT !.phone = t.phone, !.phoneProven = TRUE]
      OBVIOUS
    <2>2. a \in Account
      <3>1. t.phone \in Phone \cup {None}
        BY <1>2 DEF TxRecord
      <3>2. account[t.user] \in Account
        BY <1>1, <1>2, <1>4
      <3>. QED BY <2>1, <3>1, <3>2 DEF Account
    <2>3. account' = [account EXCEPT ![t.user] = a]
      BY <1>1, <1>2, <1>4, <2>1 DEF Commit
    <2>. QED BY <1>1, <1>2, <1>4, <2>1, <2>2, <2>3 DEF Making
  <1>5. CASE t.op = "verifyEmail"
    <2>1. PICK a : a = [account[t.user] EXCEPT !.mailProven = TRUE]
      OBVIOUS
    <2>2. a \in Account
      BY <1>1, <1>2, <1>5, <2>1 DEF Account
    <2>3. account' = [account EXCEPT ![t.user] = a]
      BY <1>5, <2>1 DEF Commit
    <2>. QED BY <1>1, <1>2, <1>5, <2>1, <2>2, <2>3 DEF Making
  <1>6. CASE t.op \notin Making \cup {"verifyPhone", "verifyEmail"}
    BY <1>1, <1>6 DEF Commit, Making
  <1>. QED BY <1>3, <1>4, <1>5, <1>6

\* The accounts that were there stay, with their e-mail addresses, and whatever key is
\* new to an account is one that the request held.
LEMMA CommitOwners ==
  ASSUME IInv, NEW r \in Request, Commit(r), NEW t, t = tx[r]
  PROVE  /\ \A u \in Accounts : u \in Accounts' /\ account'[u].mail = account[u].mail
                                /\ account'[u].by = account[u].by
         /\ \A u \in Accounts' \ Accounts :
              /\ t.op \in Making /\ u = t.user /\ UserRow(u) \in t.rows
              /\ KeysOf(account'[u]) \subseteq t.rows
         /\ \A u \in Accounts : u # t.user => account'[u] = account[u]
         /\ \A u \in Accounts : KeysOf(account'[u]) \subseteq KeysOf(account[u]) \cup t.rows
  <1>1. account \in [User -> Account] /\ t.pc = "commit"
    BY DEF IInv, Types, Commit, At
  <1>2. /\ t \in TxRecord /\ Knows(t, "commit", t.rows)
        /\ t.op \in Making => t.user \notin Accounts
    BY <1>1, CommitKnows
  <1>3. ASSUME NEW u \in User, u # t.user \/ t.op \notin Making \cup {"verifyPhone", "verifyEmail"}
        PROVE  account'[u] = account[u] /\ (u \in Accounts' <=> u \in Accounts)
    <2>1. account'[u] = account[u]
      <3>1. CASE u # t.user
        <4>1. \A v \in User : v # t.user => account'[v] = account[v]
          BY CommitAccounts
        <4>. QED BY <3>1, <4>1
      <3>2. CASE t.op \notin Making \cup {"verifyPhone", "verifyEmail"}
        <4>1. account' = account
          BY <3>2, CommitAccounts
        <4>. QED BY <4>1
      <3>. QED BY <1>3, <3>1, <3>2
    <2>. QED BY <2>1 DEF Accounts
  <1>4. CASE t.op \in Making
    <2>1. t.user \in User /\ account'[t.user] = Draft(t)
      BY <1>4, CommitAccounts
    <2>2. UserRow(t.user) \in t.rows /\ KeysOf(account'[t.user]) \subseteq t.rows
      <3>1. UserRow(t.user) \in t.rows /\ KeysOf(Draft(t)) \subseteq t.rows
        BY <1>2, <1>4 DEF Knows, Claims
      <3>. QED BY <2>1, <3>1
    <2>3. \A u \in Accounts' \ Accounts : u = t.user
      BY <1>3 DEF Accounts
    <2>4. \A u \in Accounts : u # t.user /\ account'[u] = account[u] /\ u \in Accounts'
      BY <1>2, <1>3, <1>4 DEF Accounts
    <2>5. \A u \in Accounts : KeysOf(account'[u]) = KeysOf(account[u])
      BY <2>4
    <2>. QED BY <1>4, <2>2, <2>3, <2>4, <2>5
  <1>5. CASE t.op = "verifyPhone"
    <2>1. t.user \in User
          /\ account'[t.user] = [account[t.user] EXCEPT !.phone = t.phone, !.phoneProven = TRUE]
      BY <1>5, CommitAccounts
    <2>2. /\ account'[t.user].by = account[t.user].by /\ account'[t.user].mail = account[t.user].mail
          /\ account'[t.user].phone = t.phone
      BY <1>1, <2>1 DEF Account
    <2>3. Accounts' = Accounts
      BY <1>3, <2>1, <2>2 DEF Accounts
    <2>4. PhoneKey(t.phone) \in t.rows
      BY <1>2, <1>5 DEF Knows, Claims
    <2>5. KeysOf(account'[t.user]) \subseteq KeysOf(account[t.user]) \cup t.rows
      BY <2>2, <2>4 DEF KeysOf
    <2>6. \A u \in Accounts : u # t.user => account'[u] = account[u]
      BY <1>3 DEF Accounts
    <2>7. \A u \in Accounts : KeysOf(account'[u]) \subseteq KeysOf(account[u]) \cup t.rows
      BY <2>5, <2>6
    <2>. QED BY <2>2, <2>3, <2>6, <2>7
  <1>6. CASE t.op = "verifyEmail"
    <2>1. t.user \in User /\ account'[t.user] = [account[t.user] EXCEPT !.mailProven = TRUE]
      BY <1>6, CommitAccounts
    <2>2. /\ account'[t.user].by = account[t.user].by /\ account'[t.user].mail = account[t.user].mail
          /\ account'[t.user].phone = account[t.user].phone
      BY <1>1, <2>1 DEF Account
    <2>3. Accounts' = Accounts
      BY <1>3, <2>1, <2>2 DEF Accounts
    <2>4. KeysOf(account'[t.user]) = KeysOf(account[t.user])
      BY <2>2 DEF KeysOf
    <2>5. \A u \in Accounts : u # t.user => account'[u] = account[u]
      BY <1>3 DEF Accounts
    <2>6. \A u \in Accounts : KeysOf(account'[u]) \subseteq KeysOf(account[u]) \cup t.rows
      BY <2>4, <2>5
    <2>. QED BY <2>2, <2>3, <2>5, <2>6
  <1>7. CASE t.op \notin Making \cup {"verifyPhone", "verifyEmail"}
    <2>1. account' = account
      BY <1>7, CommitAccounts
    <2>2. \A u : KeysOf(account'[u]) = KeysOf(account[u])
      BY <2>1
    <2>. QED BY <2>1, <2>2 DEF Accounts
  <1>. QED BY <1>4, <1>5, <1>6, <1>7

LEMMA CommitOneOwner ==
  ASSUME IInv, NEW r \in Request, Commit(r)
  PROVE  OneOwner'
  <1>1. PICK t : t = tx[r]
    OBVIOUS
  <1>2. \A u \in Accounts : KeysOf(account[u]) \cap t.rows # {} => u = t.user
    BY <1>1, CommitKnows DEF Commit, At, Knows, Claims
  <1>3. SUFFICES ASSUME NEW u \in Accounts', NEW v \in Accounts', u # v, u # t.user
                 PROVE  KeysOf(account'[u]) \cap KeysOf(account'[v]) = {}
    BY DEF OneOwner
  <1>4. u \in Accounts /\ account'[u] = account[u]
    BY <1>1, <1>3, CommitOwners
  <1>5. KeysOf(account'[u]) = KeysOf(account[u]) /\ KeysOf(account[u]) \cap t.rows = {}
    BY <1>2, <1>3, <1>4
  <1>6. CASE v \in Accounts
    <2>1. KeysOf(account[u]) \cap KeysOf(account[v]) = {}
      BY <1>3, <1>4, <1>6 DEF IInv, OneOwner
    <2>2. KeysOf(account'[v]) \subseteq KeysOf(account[v]) \cup t.rows
      BY <1>1, <1>6, CommitOwners
    <2>. QED BY <1>5, <2>1, <2>2
  <1>7. CASE v \notin Accounts
    <2>1. KeysOf(account'[v]) \subseteq t.rows
      BY <1>1, <1>7, CommitOwners
    <2>. QED BY <1>5, <2>1
  <1>. QED BY <1>6, <1>7

\* COMMIT consumes the code that the request holds.
LEMMA CommitCodes ==
  ASSUME IInv, NEW r \in Request, Commit(r), NEW t, t = tx[r]
  PROVE  /\ code' \in [Code -> CodeRecord \cup {None}]
         /\ \A c \in Code : CodeRow(c) \notin t.rows => code'[c] = code[c]
         /\ \A c \in Code : CodeRow(c) \in t.rows =>
              /\ c = t.code /\ t.op \in {"registerByCode", "verifyPhone"}
              /\ t.user \in User \cap Accounts'
              /\ code[c] # None /\ code'[c] # None /\ code'[c].usedBy = t.user
              /\ code'[c].phone = t.phone /\ code[c].phone = t.phone
              /\ code'[c].purpose = code[c].purpose /\ code[c].purpose # "LOGIN"
  <1>1. t.pc = "commit" /\ code \in [Code -> CodeRecord \cup {None}]
    BY DEF IInv, Types, Commit, At
  <1>2. t \in TxRecord /\ Knows(t, "commit", t.rows)
    BY <1>1, CommitKnows
  <1>3. /\ code' \in [Code -> {IF CodeRow(c) \in t.rows THEN [code[c] EXCEPT !.usedBy = t.user]
                               ELSE code[c] : c \in Code}]
        /\ \A c \in Code : code'[c] = IF CodeRow(c) \in t.rows
                                      THEN [code[c] EXCEPT !.usedBy = t.user] ELSE code[c]
    BY DEF Commit
  <1>4. ASSUME NEW c \in Code, CodeRow(c) \in t.rows
        PROVE  /\ c = t.code /\ t.op \in {"registerByCode", "verifyPhone"}
               /\ t.user \in User \cap Accounts'
               /\ code[c] # None /\ code'[c] \in CodeRecord /\ code'[c].usedBy = t.user
               /\ code'[c].phone = t.phone /\ code[c].phone = t.phone
               /\ code'[c].purpose = code[c].purpose /\ code[c].purpose # "LOGIN"
    <2>1. c = t.code /\ t.op \in {"registerByCode", "verifyPhone"}
      BY <1>2, <1>4 DEF Knows, Uses
    <2>2. code[c] # None /\ code[c].phone = t.phone /\ code[c].purpose = Purpose(t.op)
      BY <1>2, <2>1 DEF Knows, Uses
    <2>3. code[c] \in CodeRecord /\ code[c].purpose # "LOGIN"
      BY <1>1, <2>1, <2>2 DEF Purpose
    <2>4. t.user \in User /\ t.user \in Accounts'
      <3>1. CASE t.op = "verifyPhone"
        <4>1. t.user \in Accounts
          BY <1>2, <3>1 DEF Knows, Serves
        <4>. QED BY <4>1, CommitOwners DEF Accounts
      <3>2. CASE t.op = "registerByCode"
        <4>1. t.user \in User /\ account'[t.user] = Draft(t)
          BY <3>2, CommitAccounts DEF Making
        <4>2. account'[t.user].by = "PHONE"
          BY <3>2, <4>1 DEF Draft
        <4>. QED BY <4>1, <4>2 DEF Accounts
      <3>. QED BY <2>1, <3>1, <3>2
    <2>5. PICK row : row = [code[c] EXCEPT !.usedBy = t.user]
      OBVIOUS
    <2>6. /\ row \in CodeRecord /\ row.usedBy = t.user /\ row.phone = code[c].phone
          /\ row.purpose = code[c].purpose
      BY <2>3, <2>4, <2>5 DEF CodeRecord
    <2>7. code'[c] = row
      BY <1>3, <1>4, <2>5
    <2>. QED BY <2>1, <2>2, <2>3, <2>4, <2>6, <2>7
  <1>5. \A c \in Code : CodeRow(c) \notin t.rows => code'[c] = code[c]
    BY <1>3
  <1>6. code' \in [Code -> CodeRecord \cup {None}]
    BY <1>1, <1>3, <1>4, <1>5
  <1>7. \A c \in Code : CodeRow(c) \in t.rows => code'[c] # None
    BY <1>4, NoneIsNothing
  <1>. QED BY <1>4, <1>5, <1>6, <1>7

\* COMMIT records the identity that the request linked.
LEMMA CommitLinks ==
  ASSUME IInv, NEW r \in Request, Commit(r), NEW t, t = tx[r]
  PROVE  /\ link' \in [Subject -> User \cup {None}]
         /\ \A s \in Subject : LinkKey(s) \notin t.rows => link'[s] = link[s]
         /\ \A s \in Subject : LinkKey(s) \in t.rows =>
              /\ link[s] = None /\ link'[s] = t.user
              /\ t.user \in HoldersOf(MailOf[s])'
  <1>1. t.pc = "commit" /\ link \in [Subject -> User \cup {None}]
    BY DEF IInv, Types, Commit, At
  <1>2. t \in TxRecord /\ Knows(t, "commit", t.rows)
    BY <1>1, CommitKnows
  <1>3. /\ link' = [s \in Subject |-> IF LinkKey(s) \in t.rows THEN t.user ELSE link[s]]
        /\ \A s \in Subject : link'[s] = IF LinkKey(s) \in t.rows THEN t.user ELSE link[s]
    BY DEF Commit
  <1>4. ASSUME NEW s \in Subject, LinkKey(s) \in t.rows
        PROVE  link[s] = None /\ t.user \in HoldersOf(MailOf[s])'
    <2>1. s = t.subject /\ t.op \in ByIdentity /\ link[s] = None
      BY <1>2, <1>4 DEF Knows, Links
    <2>2. t.mail = MailOf[s]
      BY <1>2, <2>1 DEF Knows, Route
    <2>3. CASE t.op = "loginByIdentity"
      <3>1. t.user \in Accounts /\ account[t.user].mail = t.mail
        BY <1>2, <2>3 DEF Knows, Serves, HoldersOf
      <3>2. t.user \in Accounts' /\ account'[t.user].mail = t.mail
        BY <3>1, CommitOwners
      <3>. QED BY <2>1, <2>2, <3>2 DEF HoldersOf
    <2>4. CASE t.op = "registerByIdentity"
      <3>1. t.user \in User /\ account'[t.user] = Draft(t)
        BY <2>4, CommitAccounts DEF Making
      <3>2. account'[t.user].by = "OAUTH" /\ account'[t.user].mail = t.mail
        BY <2>4, <3>1 DEF Draft
      <3>. QED BY <2>1, <2>2, <3>1, <3>2 DEF HoldersOf, Accounts
    <2>. QED BY <2>1, <2>3, <2>4 DEF ByIdentity
  <1>5. link' \in [Subject -> User \cup {None}]
    BY <1>1, <1>2, <1>3 DEF TxRecord
  <1>. QED BY <1>3, <1>4, <1>5

\* What COMMIT does to the accounts is backed.
LEMMA CommitBacked ==
  ASSUME IInv, NEW r \in Request, Commit(r)
  PROVE  AccountsBacked'
  <1>1. PICK t : t = tx[r]
    OBVIOUS
  <1>2. t.pc = "commit" /\ account \in [User -> Account]
    BY <1>1 DEF IInv, Types, Commit, At
  <1>3. t \in TxRecord /\ Knows(t, "commit", t.rows)
    BY <1>1, <1>2, CommitKnows
  <1>4. \A u \in Accounts : u \in Accounts' /\ account'[u].by = account[u].by
                            /\ account'[u].mail = account[u].mail
    BY <1>1, CommitOwners
  <1>5. \A s \in Subject : link[s] # None => link'[s] = link[s]
    BY <1>1, CommitLinks
  <1>0. \A u \in User : u # t.user => account'[u] = account[u]
    BY <1>1, CommitAccounts
  <1>6. ASSUME NEW u \in User, account'[u].phoneProven
        PROVE  \E c \in Code : /\ code'[c] # None /\ code'[c].usedBy = u
                               /\ code'[c].phone = account'[u].phone /\ code'[c].purpose # "LOGIN"
    <2>1. CASE u = t.user /\ t.op \in {"registerByCode", "verifyPhone"}
      <3>1. t.code \in Code /\ CodeRow(t.code) \in t.rows
        BY <1>3, <2>1 DEF Knows, Uses
      <3>2. account'[u].phone = t.phone
        <4>1. CASE t.op = "registerByCode"
          <5>1. t.op \in Making
            BY <4>1 DEF Making
          <5>2. account'[t.user] = Draft(t)
            BY <1>1, <5>1, CommitAccounts
          <5>. QED BY <2>1, <5>2 DEF Draft
        <4>2. CASE t.op = "verifyPhone"
          <5>1. account'[u] = [account[u] EXCEPT !.phone = t.phone, !.phoneProven = TRUE]
            BY <1>1, <2>1, <4>2, CommitAccounts
          <5>2. account[u] \in Account
            BY <1>2
          <5>. QED BY <5>1, <5>2 DEF Account
        <4>. QED BY <2>1, <4>1, <4>2
      <3>3. PICK c \in Code : c = t.code
        BY <3>1
      <3>4. /\ code'[c] # None /\ code'[c].usedBy = t.user /\ code'[c].phone = t.phone
            /\ code'[c].purpose = code[c].purpose /\ code[c].purpose # "LOGIN"
        BY <1>1, <3>1, <3>3, CommitCodes
      <3>. QED BY <2>1, <3>2, <3>4
    <2>2. CASE ~(u = t.user /\ t.op \in {"registerByCode", "verifyPhone"})
      <3>1. account[u].phoneProven /\ account'[u].phone = account[u].phone
        <4>1. CASE u # t.user
          <5>1. account'[u] = account[u]
            BY <4>1, <1>0
          <5>. QED BY <1>6, <5>1
        <4>2. CASE u = t.user /\ t.op \in Making
          <5>1. account'[u] = Draft(t)
            BY <1>1, <4>2, CommitAccounts
          <5>2. Draft(t).phoneProven = (t.op = "registerByCode")
            BY DEF Draft
          <5>3. ~Draft(t).phoneProven
            BY <2>2, <4>2, <5>2
          <5>. QED BY <1>6, <5>1, <5>3
        <4>3. CASE u = t.user /\ t.op = "verifyEmail"
          <5>1. account'[u] = [account[u] EXCEPT !.mailProven = TRUE]
            BY <1>1, <4>3, CommitAccounts
          <5>2. account'[u].phoneProven = account[u].phoneProven
                /\ account'[u].phone = account[u].phone
            BY <1>2, <5>1 DEF Account
          <5>. QED BY <1>6, <5>2
        <4>4. CASE t.op \notin Making \cup {"verifyPhone", "verifyEmail"}
          <5>1. account' = account
            BY <1>1, <4>4, CommitAccounts
          <5>. QED BY <1>6, <5>1
        <4>. QED BY <2>2, <4>1, <4>2, <4>3, <4>4
      <3>2. PICK c \in Code : /\ code[c] # None /\ code[c].usedBy = u
                              /\ code[c].phone = account[u].phone /\ code[c].purpose # "LOGIN"
        BY <3>1 DEF IInv, AccountsBacked
      <3>3. u \in Accounts
        BY <3>2, NoneIsNothing DEF IInv, AccountsBacked
      <3>4. CodeRow(c) \notin t.rows
        <4>1. SUFFICES ASSUME CodeRow(c) \in t.rows PROVE FALSE
          OBVIOUS
        <4>2. t.op \in {"registerByCode", "verifyPhone"} /\ code[c].phone = t.phone
          BY <1>1, <4>1, CommitCodes
        <4>3. t.phone # None /\ account[u].phone = t.phone
          BY <1>1, <1>2, <3>2, <4>2, CommitKnows, NoneIsNothing
        <4>4. PhoneKey(t.phone) \in t.rows
          <5>1. CASE t.op = "registerByCode"
            <6>1. KeysOf(Draft(t)) \subseteq t.rows /\ Draft(t).phone = t.phone
              BY <1>3, <5>1 DEF Knows, Claims, Making, Draft
            <6>2. PhoneKey(t.phone) \in KeysOf(Draft(t))
              BY <4>3, <6>1 DEF KeysOf
            <6>. QED BY <6>1, <6>2
          <5>2. CASE t.op = "verifyPhone"
            BY <1>3, <5>2 DEF Knows, Claims
          <5>. QED BY <4>2, <5>1, <5>2
        <4>5. PhoneKey(t.phone) \in KeysOf(account[u])
          BY <4>3 DEF KeysOf
        <4>6. u = t.user
          BY <1>3, <3>3, <4>4, <4>5 DEF Knows, Claims
        <4>. QED BY <2>2, <4>2, <4>6
      <3>5. code'[c] = code[c]
        BY <1>1, <3>4, CommitCodes
      <3>. QED BY <3>1, <3>2, <3>5
    <2>. QED BY <2>1, <2>2
  <1>7. ASSUME NEW c \in Code, code'[c] # None, code'[c].usedBy # None
        PROVE  code'[c].usedBy \in Accounts'
    <2>1. CASE CodeRow(c) \in t.rows
      BY <1>1, <2>1, CommitCodes
    <2>2. CASE CodeRow(c) \notin t.rows
      <3>1. code'[c] = code[c]
        BY <1>1, <2>2, CommitCodes
      <3>2. code[c].usedBy \in Accounts
        BY <1>7, <3>1 DEF IInv, AccountsBacked
      <3>. QED BY <1>4, <3>1, <3>2
    <2>. QED BY <2>1, <2>2
  <1>8. ASSUME NEW u \in User, account'[u].by = "OAUTH"
        PROVE  \E s \in Subject : link'[s] = u
    <2>1. CASE u \in Accounts
      <3>1. PICK s \in Subject : link[s] = u
        BY <1>4, <1>8, <2>1 DEF IInv, AccountsBacked
      <3>2. link[s] # None
        BY <3>1, NoneIsNothing
      <3>. QED BY <1>5, <3>1, <3>2
    <2>2. CASE u \notin Accounts
      <3>1. u \in Accounts'
        BY <1>8 DEF Accounts
      <3>2. t.op \in Making /\ u = t.user
        BY <1>1, <2>2, <3>1, CommitOwners
      <3>3. account'[u] = Draft(t)
        BY <1>1, <3>2, CommitAccounts
      <3>4. t.op = "registerByIdentity"
        BY <1>8, <3>2, <3>3 DEF Draft, Making
      <3>5. t.subject \in Subject /\ LinkKey(t.subject) \in t.rows
        BY <1>3, <3>4 DEF Knows, Route, Links, ByIdentity
      <3>6. link'[t.subject] = u
        BY <1>1, <3>2, <3>5, CommitLinks
      <3>. QED BY <3>5, <3>6
    <2>. QED BY <2>1, <2>2
  <1>9. ASSUME NEW s \in Subject, link'[s] # None
        PROVE  link'[s] \in HoldersOf(MailOf[s])'
    <2>1. CASE LinkKey(s) \in t.rows
      BY <1>1, <2>1, CommitLinks
    <2>2. CASE LinkKey(s) \notin t.rows
      <3>1. link'[s] = link[s]
        BY <1>1, <2>2, CommitLinks
      <3>2. link[s] \in HoldersOf(MailOf[s])
        BY <1>9, <3>1 DEF IInv, AccountsBacked
      <3>. QED BY <1>4, <3>1, <3>2 DEF HoldersOf
    <2>. QED BY <2>1, <2>2
  <1>10. ASSUME NEW u \in User, account'[u].mailProven
         PROVE  account'[u].by = "OAUTH" \/ "used" \in letter'[u]
    <2>1. letter \in [User -> SUBSET {"open", "used"}]
          /\ letter' = IF t.op = "verifyEmail" THEN [letter EXCEPT ![t.user] = {"used"}] ELSE letter
      BY <1>1 DEF IInv, Types, Commit
    <2>2. "used" \in letter[u] => "used" \in letter'[u]
      BY <2>1
    <2>3. account[u].mailProven => account[u].by = "OAUTH" \/ "used" \in letter'[u]
      BY <2>2 DEF IInv, AccountsBacked
    <2>4. CASE u # t.user
      <3>1. account'[u] = account[u]
        BY <1>0, <2>4
      <3>. QED BY <1>10, <2>3, <3>1
    <2>5. CASE u = t.user /\ t.op \in Making
      <3>1. account'[u] = Draft(t)
        BY <1>1, <2>5, CommitAccounts
      <3>2. Draft(t).mailProven = (t.op = "registerByIdentity")
        BY DEF Draft
      <3>3. t.op = "registerByIdentity"
        BY <1>10, <3>1, <3>2
      <3>. QED BY <3>1, <3>3 DEF Draft
    <2>6. CASE u = t.user /\ t.op = "verifyEmail"
      BY <2>1, <2>6
    <2>7. CASE u = t.user /\ t.op = "verifyPhone"
      BY <1>1, <1>2, <1>10, <2>3, <2>7, CommitAccounts DEF Account
    <2>8. CASE t.op \notin Making \cup {"verifyPhone", "verifyEmail"}
      <3>1. account' = account
        BY <1>1, <2>8, CommitAccounts
      <3>. QED BY <1>10, <2>3, <3>1
    <2>. QED BY <2>4, <2>5, <2>6, <2>7, <2>8
  <1>. QED BY <1>6, <1>7, <1>8, <1>9, <1>10 DEF AccountsBacked

LEMMA CommitInv ==
  ASSUME IInv, NEW r \in Request, Commit(r)
  PROVE  IInv'
  <1>1. PICK t : t = tx[r]
    OBVIOUS
  <1>2. Types'
    <2>1. account' \in [User -> Account]
      BY <1>1, CommitAccounts
    <2>2. code' \in [Code -> CodeRecord \cup {None}] /\ link' \in [Subject -> User \cup {None}]
      BY <1>1, CommitCodes, CommitLinks
    <2>3. letter' \in [User -> SUBSET {"open", "used"}]
      <3>1. letter \in [User -> SUBSET {"open", "used"}]
            /\ (letter' = letter \/ letter' = [letter EXCEPT ![t.user] = {"used"}])
        BY <1>1 DEF IInv, Types, Commit
      <3>. QED BY <3>1
    <2>4. counter' \in Counters
      <3>1. counter \in Counters /\ Untried \in [count : Nat, locked : BOOLEAN]
        BY DEF IInv, Types, Untried
      <3>2. counter' = [i \in Ident |-> IF CounterRow(i) \in t.rows THEN Untried ELSE counter[i]]
        BY <1>1 DEF Commit
      <3>. QED BY <3>1, <3>2 DEF Counters
    <2>5. tx' \in [Request -> TxRecord]
      BY IdleIs DEF IInv, Types, Commit, End
    <2>. QED BY <2>1, <2>2, <2>3, <2>4, <2>5 DEF Types
  <1>3. tx'[r] = Idle /\ \A q \in Request \ {r} : tx'[q] = tx[q]
    BY DEF IInv, Types, Commit, End
  <1>4. RowsApart'
    BY <1>3, IdleIs DEF IInv, RowsApart
  <1>5. OneOwner' /\ AccountsBacked'
    BY CommitOneOwner, CommitBacked
  <1>6. ASSUME NEW q \in Request PROVE RequestInv(tx[q])'
    <2>1. PICK u : u = tx'[q]
      OBVIOUS
    <2>2. RequestInv(u)'
      <3>1. CASE q = r
        BY <1>3, <2>1, <3>1, IdleInv
      <3>2. CASE q # r
        <4>1. u = tx[q] /\ RequestInv(u) /\ u.rows \cap t.rows = {}
          BY <1>1, <1>3, <2>1, <3>2 DEF IInv, RowsApart
        <4>2. \A v \in Accounts : v \in Accounts' /\ account'[v].mail = account[v].mail
          BY <1>1, CommitOwners
        <4>3. \A c \in Code : code[c] # None =>
                /\ code'[c] # None /\ code'[c].phone = code[c].phone
                /\ code'[c].purpose = code[c].purpose
          <5>1. ASSUME NEW c \in Code, code[c] # None
                PROVE  /\ code'[c] # None /\ code'[c].phone = code[c].phone
                       /\ code'[c].purpose = code[c].purpose
            <6>1. CASE CodeRow(c) \in t.rows
              BY <1>1, <6>1, CommitCodes
            <6>2. CASE CodeRow(c) \notin t.rows
              <7>1. code'[c] = code[c]
                BY <1>1, <6>2, CommitCodes
              <7>. QED BY <5>1, <7>1
            <6>. QED BY <6>1, <6>2
          <5>. QED BY <5>1
        <4>4. \A s \in Subject : LinkKey(s) \in u.rows => link'[s] = link[s]
          BY <1>1, <4>1, CommitLinks
        <4>5. \A v \in User : UserRow(v) \in u.rows /\ v \notin Accounts => v \notin Accounts'
          BY <1>1, <4>1, CommitOwners
        <4>6. ASSUME NEW v \in Accounts', KeysOf(account'[v]) \cap u.rows # {}
              PROVE  v \in Accounts /\ KeysOf(account[v]) \cap u.rows # {}
          <5>1. v \in Accounts
            BY <1>1, <4>1, <4>6, CommitOwners
          <5>2. KeysOf(account'[v]) \subseteq KeysOf(account[v]) \cup t.rows
            BY <1>1, <5>1, CommitOwners
          <5>. QED BY <4>1, <4>6, <5>1, <5>2
        <4>. QED BY <4>1, <4>2, <4>3, <4>4, <4>5, <4>6, Persists
      <3>. QED BY <3>1, <3>2
    <2>. QED BY <2>1, <2>2 DEF RequestInv, Knows, Route, Serves, Uses, Claims, Links, Draft
  <1>. QED BY <1>2, <1>4, <1>5, <1>6 DEF IInv

-----------------------------------------------------------------------------
(* The invariant, and what follows from it                                 *)

LEMMA InitInv ==
  ASSUME Init
  PROVE  IInv
  <1>1. NoAccount \in Account /\ NoAccount.by = "none" /\ ~NoAccount.phoneProven /\ ~NoAccount.mailProven
    BY DEF NoAccount, Account
  <1>2. \A u \in User : account[u] = NoAccount
    BY DEF Init
  <1>3. Accounts = {}
    BY <1>1, <1>2 DEF Accounts
  <1>4. Types
    <2>1. Untried \in [count : Nat, locked : BOOLEAN]
      BY DEF Untried
    <2>2. counter \in Counters /\ tx \in [Request -> TxRecord]
      BY <2>1, IdleIs DEF Init, Counters
    <2>3. account \in [User -> Account] /\ code \in [Code -> CodeRecord \cup {None}]
          /\ link \in [Subject -> User \cup {None}] /\ letter \in [User -> SUBSET {"open", "used"}]
      BY <1>1 DEF Init
    <2>. QED BY <2>2, <2>3 DEF Types
  <1>5. RowsApart
    BY IdleIs DEF Init, RowsApart
  <1>6. OneOwner
    BY <1>3 DEF OneOwner
  <1>7. AccountsBacked
    <2>1. \A u \in User : ~account[u].phoneProven /\ ~account[u].mailProven /\ account[u].by = "none"
      BY <1>1, <1>2
    <2>2. (\A c \in Code : code[c] = None) /\ (\A s \in Subject : link[s] = None)
      BY DEF Init
    <2>. QED BY <2>1, <2>2 DEF AccountsBacked
  <1>8. \A r \in Request : RequestInv(tx[r])
    BY IdleInv DEF Init
  <1>. QED BY <1>4, <1>5, <1>6, <1>7, <1>8 DEF IInv

LEMMA AbortInv ==
  ASSUME IInv, NEW r \in Request, Abort(r)
  PROVE  IInv'
  <1>1. counter' \in Counters
    BY DEF Abort, lockout, IInv, Types
  <1>. QED BY <1>1, EndInv DEF Abort

LEMMA StepInv ==
  ASSUME IInv, NEW r \in Request,
         CodeStep(r) \/ EnrolStep(r) \/ MailStep(r) \/ LoginStep(r) \/ Commit(r) \/ Abort(r)
  PROVE  IInv'
  <1>1. CASE CodeStep(r)
    BY <1>1, FindOwnerInv, ReadInv, CreateOtpInv, FindOtpInv, CountAnswerInv, ConsumeInv,
       SetPhoneInv DEF CodeStep
  <1>2. CASE EnrolStep(r)
    BY <1>2, ReadInv, FindHolderInv, CreateInv, LinkInv DEF EnrolStep
  <1>3. CASE MailStep(r)
    BY <1>3, LetterInv, MailProvenInv DEF MailStep
  <1>4. CASE LoginStep(r)
    BY <1>4, ReadInv, AttemptInv, CountInv, ClearInv DEF LoginStep
  <1>5. CASE Commit(r) \/ Abort(r)
    BY <1>5, CommitInv, AbortInv
  <1>. QED BY <1>1, <1>2, <1>3, <1>4, <1>5

LEMMA NextInv ==
  ASSUME IInv, [Next]_vars
  PROVE  IInv'
  <1>1. ASSUME NEW r \in Request, NEW p \in Phone, Send(r, p) \/ Verify(r, p)
        PROVE  IInv'
    BY <1>1, StartInv
  <1>2. ASSUME NEW r \in Request,
               \/ Register(r) \/ LoginWithIdentity(r) \/ RegisterWithIdentity(r)
               \/ SendEmailVerification(r) \/ VerifyEmail(r) \/ LoginWithEmail(r)
        PROVE  IInv'
    BY <1>2, StartInv
  <1>3. ASSUME NEW r \in Request,
               \/ CodeStep(r) \/ EnrolStep(r) \/ MailStep(r) \/ LoginStep(r)
               \/ Commit(r) \/ Abort(r)
        PROVE  IInv'
    BY <1>3, StepInv
  <1>4. ASSUME NEW c \in Code, Age(c) PROVE IInv'
    BY <1>4, AgeInv
  <1>5. ASSUME NEW i \in Ident, Lapse(i) PROVE IInv'
    BY <1>5, LapseInv
  <1>6. CASE UNCHANGED vars
    <2>1. UNCHANGED <<identities, tx>> /\ counter' \in Counters
      BY <1>6 DEF vars, identities, IInv, Types
    <2>. QED BY <2>1, SameInv
  <1>. QED BY <1>1, <1>2, <1>3, <1>4, <1>5, <1>6 DEF Next

LEMMA Invariant == Spec => []IInv
  <1>1. Init => IInv
    BY InitInv
  <1>2. IInv /\ [Next]_vars => IInv'
    BY NextInv
  <1>. QED BY <1>1, <1>2, PTL DEF Spec

\* A phone and an e-mail address belong to one account, whichever registrations, links
\* and changes of phone ran at the same time (the unique indexes of users).
THEOREM OwnersAreUnique == Spec => []OneOwner
  <1>1. IInv => OneOwner
    BY DEF IInv
  <1>. QED BY <1>1, Invariant, PTL

\* auth.service.js:910 and :1161: what an account claims is backed by what proved it,
\* and nothing was used up for an account that does not exist.
THEOREM ProofsBackAccounts == Spec => []AccountsBacked
  <1>1. IInv => AccountsBacked
    BY DEF IInv
  <1>. QED BY <1>1, Invariant, PTL

-----------------------------------------------------------------------------
(* How many failures a lock lets through                                   *)

\* A request that will take the lock of i away: it read the counter before the failures
\* that reached the limit.
Behind(t, i) ==
  /\ \/ t.pc = "recordMail" /\ t.mail = i
     \/ t.pc = "recordIp" /\ t.ident = i
  /\ ~Locks(t.seen)

\* A request that was let in, and may yet record a failure of i and lock it.
Owing(t, i) ==
  /\ \/ t.mail = i /\ t.pc \in {"compare", "readMail", "recordMail"}
     \/ t.ident = i /\ t.pc \in {"compare", "readMail", "recordMail", "readIp", "recordIp"}
  /\ ~Behind(t, i)

Out(t, i) == ~Behind(t, i) /\ ~Owing(t, i)

Ahead(f, i) == {r \in Request : ~Behind(f[r], i)}
Spent(f, i) == {r \in Request : Out(f[r], i)}

Twice(n) == n * (n + 1)

\* Near the limit, n failures on record of which g are since the last success or lapse,
\* e requests that will not unlock and d that do nothing more: each failure uses up a
\* request that can unlock, or one that came in while there was no lock.
Within(n, g, locked, e, d) ==
  /\ g <= n
  /\ n + 1 >= MaxFailures =>
       2 * g + 4 <= 2 * MaxFailures + Twice(e) + (IF locked THEN 2 * d ELSE 0)

Tally(i) == Within(counter[i].count, guesses[i], counter[i].locked,
                   Cardinality(Ahead(tx, i)), Cardinality(Spent(tx, i)))

\* The requests that are about to count a wrong answer to c.
Wrong(f, c) == {r \in Request : f[r].pc = "count" /\ f[r].op = "loginByCode" /\ f[r].code = c}

Tried(c) == code[c] # None =>
  code[c].attempts + Cardinality(Wrong(tx, c)) + 1 <= MaxAttempts + Cardinality(Request)

Tallies ==
  /\ guesses \in [Ident -> Nat]
  /\ \A i \in Ident : Tally(i)
  /\ \A c \in Code : Tried(c)

-----------------------------------------------------------------------------
(* Arithmetic                                                              *)

LEMMA TwiceIs ==
  ASSUME NEW n \in Nat
  PROVE  Twice(n) \in Nat /\ (n >= 1 => Twice(n) >= 2) /\ Twice(n + 1) = Twice(n) + 2 * n + 2
  <1>1. Twice(n) = n * n + n /\ Twice(n + 1) = n * n + n + 2 * n + 2
    BY DEF Twice
  <1>2. n * n \in Nat /\ (n >= 1 => n * n >= 1)
    OBVIOUS
  <1>. QED BY <1>1, <1>2

LEMMA TwiceGrows ==
  ASSUME NEW m \in Nat, NEW n \in Nat, m <= n
  PROVE  Twice(m) <= Twice(n)
  <1>1. m * m <= n * n
    <2>1. m * m <= m * n /\ m * n <= n * n
      OBVIOUS
    <2>2. m * m \in Nat /\ m * n \in Nat /\ n * n \in Nat
      OBVIOUS
    <2>. QED BY <2>1, <2>2
  <1>2. Twice(m) = m * m + m /\ Twice(n) = n * n + n
    BY DEF Twice
  <1>3. m * m \in Nat /\ n * n \in Nat
    OBVIOUS
  <1>. QED BY <1>1, <1>2, <1>3

\* Nothing is recorded, and no request that is out comes in while there is a lock.
LEMMA WithinStays ==
  ASSUME NEW n \in Nat, NEW g \in Nat, NEW locked \in BOOLEAN, NEW e \in Nat, NEW d \in Nat,
         NEW e2 \in Nat, NEW d2 \in Nat, Within(n, g, locked, e, d),
         n + 1 < MaxFailures \/ (e2 \in {e, e + 1} /\ (locked => d2 >= d))
  PROVE  Within(n, g, locked, e2, d2)
  <1>1. MaxFailures \in Nat /\ Twice(e) \in Nat /\ Twice(e + 1) = Twice(e) + 2 * e + 2
    BY LimitsNat, TwiceIs
  <1>. QED BY <1>1 DEF Within

\* A failure of a request that was behind takes the lock away.
LEMMA WithinUnlocks ==
  ASSUME NEW n \in Nat, NEW g \in Nat, NEW locked \in BOOLEAN, NEW e \in Nat, NEW d \in Nat,
         Within(n, g, locked, e, d), d <= e
  PROVE  Within(n + 1, g + 1, FALSE, e + 1, d + 1)
  <1>1. MaxFailures \in Nat /\ Twice(e) \in Nat /\ Twice(e + 1) = Twice(e) + 2 * e + 2
    BY LimitsNat, TwiceIs
  <1>. QED BY <1>1 DEF Within

\* A failure of any other request sets it.
LEMMA WithinLocks ==
  ASSUME NEW n \in Nat, NEW g \in Nat, NEW locked \in BOOLEAN, NEW e \in Nat, NEW d \in Nat,
         Within(n, g, locked, e, d)
  PROVE  Within(n + 1, g + 1, TRUE, e, d + 1)
  <1>1. MaxFailures \in Nat /\ Twice(e) \in Nat
    BY LimitsNat, TwiceIs
  <1>. QED BY <1>1 DEF Within

\* After a success or a lapse.
LEMMA WithinAgain ==
  ASSUME NEW n \in Nat, NEW e \in Nat, NEW d \in Nat, MaxFailures = 1 => e >= 1
  PROVE  Within(n, 0, FALSE, e, d)
  <1>1. MaxFailures \in Nat \ {0} /\ Twice(e) \in Nat /\ (e >= 1 => Twice(e) >= 2)
    BY LimitsNat, TwiceIs
  <1>. QED BY <1>1 DEF Within

LEMMA WithinBound ==
  ASSUME NEW n \in Nat, NEW g \in Nat, NEW locked \in BOOLEAN, NEW e \in Nat, NEW d \in Nat,
         Within(n, g, locked, e, d), d <= e, e <= Cardinality(Request)
  PROVE  g <= MaxGuesses
  <1>1. PICK k : k = Cardinality(Request)
    OBVIOUS
  <1>2. k \in Nat /\ k >= 1
    BY <1>1, RequestsFinite, FS_CardinalityType, FS_EmptySet
  <1>3. PICK w : w = k * (k + 1)
    OBVIOUS
  <1>4. w \in Nat /\ w >= 2 /\ Twice(e) <= w /\ Twice(e) \in Nat
    <2>1. w = Twice(k)
      BY <1>3 DEF Twice
    <2>. QED BY <1>1, <1>2, <2>1, TwiceIs, TwiceGrows
  <1>5. MaxGuesses = (MaxFailures - 1) + (k - 1) + (w \div 2)
    BY <1>1, <1>3 DEF MaxGuesses
  <1>6. MaxFailures \in Nat \ {0}
    BY LimitsNat
  <1>7. CASE n + 1 >= MaxFailures
    <2>1. 2 * g + 4 <= 2 * MaxFailures + w + 2 * k
      BY <1>1, <1>2, <1>4, <1>6, <1>7 DEF Within
    <2>2. g - (MaxFailures - 1) - (k - 1) <= w \div 2
      BY <1>2, <1>4, <1>6, <2>1
    <2>. QED BY <1>2, <1>4, <1>5, <1>6, <2>2
  <1>8. CASE n + 1 < MaxFailures
    <2>1. g <= MaxFailures - 1
      BY <1>6, <1>8 DEF Within
    <2>2. w \div 2 \in Nat
      BY <1>4
    <2>. QED BY <1>2, <1>5, <1>6, <2>1, <2>2
  <1>. QED BY <1>6, <1>7, <1>8

-----------------------------------------------------------------------------
(* How a step of one request changes the sets                              *)

LEMMA CountsNat ==
  ASSUME NEW f, NEW i
  PROVE  /\ IsFiniteSet(Ahead(f, i)) /\ IsFiniteSet(Spent(f, i))
         /\ Cardinality(Ahead(f, i)) \in Nat /\ Cardinality(Spent(f, i)) \in Nat
         /\ Cardinality(Spent(f, i)) <= Cardinality(Ahead(f, i))
         /\ Cardinality(Ahead(f, i)) <= Cardinality(Request)
  <1>1. Ahead(f, i) \in SUBSET Request /\ Spent(f, i) \in SUBSET Ahead(f, i)
    BY DEF Ahead, Spent, Out
  <1>2. IsFiniteSet(Ahead(f, i)) /\ Cardinality(Ahead(f, i)) <= Cardinality(Request)
    BY <1>1, RequestsFinite, FS_Subset
  <1>3. IsFiniteSet(Spent(f, i)) /\ Cardinality(Spent(f, i)) <= Cardinality(Ahead(f, i))
    BY <1>1, <1>2, FS_Subset
  <1>. QED BY <1>2, <1>3, FS_CardinalityType

LEMMA AheadMove ==
  ASSUME NEW f \in [Request -> TxRecord], NEW i, NEW r \in Request, NEW t, NEW h,
         h = [f EXCEPT ![r] = t]
  PROVE  Cardinality(Ahead(h, i)) =
           IF r \in Ahead(f, i)
           THEN IF r \in Ahead(h, i) THEN Cardinality(Ahead(f, i)) ELSE Cardinality(Ahead(f, i)) - 1
           ELSE IF r \in Ahead(h, i) THEN Cardinality(Ahead(f, i)) + 1 ELSE Cardinality(Ahead(f, i))
  <1>1. h[r] = t /\ \A q \in Request \ {r} : h[q] = f[q]
    OBVIOUS
  <1>2. r \notin Ahead(h, i) => Ahead(h, i) = Ahead(f, i) \ {r}
    BY <1>1 DEF Ahead
  <1>3. r \in Ahead(h, i) => Ahead(h, i) = Ahead(f, i) \cup {r}
    BY <1>1 DEF Ahead
  <1>4. IsFiniteSet(Ahead(f, i))
    BY CountsNat
  <1>. QED BY <1>2, <1>3, <1>4, FS_AddElement, FS_RemoveElement

LEMMA SpentMove ==
  ASSUME NEW f \in [Request -> TxRecord], NEW i, NEW r \in Request, NEW t, NEW h,
         h = [f EXCEPT ![r] = t]
  PROVE  Cardinality(Spent(h, i)) =
           IF r \in Spent(f, i)
           THEN IF r \in Spent(h, i) THEN Cardinality(Spent(f, i)) ELSE Cardinality(Spent(f, i)) - 1
           ELSE IF r \in Spent(h, i) THEN Cardinality(Spent(f, i)) + 1 ELSE Cardinality(Spent(f, i))
  <1>1. h[r] = t /\ \A q \in Request \ {r} : h[q] = f[q]
    OBVIOUS
  <1>2. r \notin Spent(h, i) => Spent(h, i) = Spent(f, i) \ {r}
    BY <1>1 DEF Spent
  <1>3. r \in Spent(h, i) => Spent(h, i) = Spent(f, i) \cup {r}
    BY <1>1 DEF Spent
  <1>4. IsFiniteSet(Spent(f, i))
    BY CountsNat
  <1>. QED BY <1>2, <1>3, <1>4, FS_AddElement, FS_RemoveElement

LEMMA WrongMove ==
  ASSUME NEW f \in [Request -> TxRecord], NEW c, NEW r \in Request, NEW t, NEW h,
         h = [f EXCEPT ![r] = t]
  PROVE  /\ Cardinality(Wrong(f, c)) \in Nat /\ Cardinality(Wrong(h, c)) \in Nat
         /\ Cardinality(Wrong(h, c)) <= Cardinality(Request)
         /\ r \notin Wrong(h, c) =>
              /\ Cardinality(Wrong(h, c)) <= Cardinality(Wrong(f, c))
              /\ r \in Wrong(f, c) => Cardinality(Wrong(h, c)) + 1 = Cardinality(Wrong(f, c))
              /\ Cardinality(Wrong(h, c)) + 1 <= Cardinality(Request)
  <1>1. h[r] = t /\ \A q \in Request \ {r} : h[q] = f[q]
    OBVIOUS
  <1>2. Wrong(f, c) \in SUBSET Request /\ Wrong(h, c) \in SUBSET Request
    BY DEF Wrong
  <1>3. /\ IsFiniteSet(Wrong(f, c)) /\ IsFiniteSet(Wrong(h, c))
        /\ Cardinality(Wrong(f, c)) \in Nat /\ Cardinality(Wrong(h, c)) \in Nat
        /\ Cardinality(Wrong(h, c)) <= Cardinality(Request)
    BY <1>2, RequestsFinite, FS_Subset, FS_CardinalityType
  <1>4. ASSUME r \notin Wrong(h, c)
        PROVE  /\ Cardinality(Wrong(h, c)) <= Cardinality(Wrong(f, c))
               /\ r \in Wrong(f, c) => Cardinality(Wrong(h, c)) + 1 = Cardinality(Wrong(f, c))
               /\ Cardinality(Wrong(h, c)) + 1 <= Cardinality(Request)
    <2>1. Wrong(h, c) = Wrong(f, c) \ {r}
      BY <1>1, <1>4 DEF Wrong
    <2>2. Wrong(h, c) \in SUBSET (Request \ {r})
      BY <1>2, <1>4
    <2>3. /\ IsFiniteSet(Request \ {r}) /\ Cardinality(Request \ {r}) = Cardinality(Request) - 1
          /\ Cardinality(Request) \in Nat
      BY RequestsFinite, FS_RemoveElement, FS_CardinalityType
    <2>4. Cardinality(Wrong(h, c)) <= Cardinality(Request \ {r})
      BY <2>2, <2>3, FS_Subset
    <2>5. Cardinality(Wrong(h, c)) =
            IF r \in Wrong(f, c) THEN Cardinality(Wrong(f, c)) - 1 ELSE Cardinality(Wrong(f, c))
      BY <1>3, <2>1, FS_RemoveElement
    <2>. QED BY <1>3, <2>3, <2>4, <2>5
  <1>. QED BY <1>3, <1>4

-----------------------------------------------------------------------------
(* Every step keeps the tallies                                            *)

Guessing == {"compare", "readMail", "recordMail", "readIp", "recordIp"}
Attempts(c) == code'[c] # None => code[c] # None /\ code'[c].attempts = code[c].attempts

LEMMA NotGuessing ==
  ASSUME NEW t, t.pc \notin Guessing, NEW i
  PROVE  ~Behind(t, i) /\ ~Owing(t, i) /\ Out(t, i)
  BY DEF Guessing, Behind, Owing, Out

LEMMA CounterIs ==
  ASSUME IInv, Tallies, NEW i \in Ident
  PROVE  /\ counter[i].count \in Nat /\ counter[i].locked \in BOOLEAN /\ guesses[i] \in Nat
         /\ Tally(i)
  BY DEF IInv, Types, Counters, Tallies

\* A step that records no failure of i, and lets in no request that i locks out.
LEMMA TallyMove ==
  ASSUME IInv, Tallies, NEW r \in Request, NEW t, tx' = [tx EXCEPT ![r] = t], NEW i \in Ident,
         counter'[i] = counter[i], guesses'[i] = guesses[i],
         \/ Out(t, i)
         \/ (Behind(tx[r], i) <=> Behind(t, i)) /\ (Owing(tx[r], i) <=> Owing(t, i))
         \/ ~Behind(tx[r], i) /\ ~Behind(t, i) /\ ~counter[i].locked
         \/ counter[i].count + 1 < MaxFailures
  PROVE  Tally(i)'
  <1>1. tx \in [Request -> TxRecord] /\ tx'[r] = t
    BY DEF IInv, Types
  <1>2. PICK e, d : e = Cardinality(Ahead(tx, i)) /\ d = Cardinality(Spent(tx, i))
    OBVIOUS
  <1>3. PICK e2, d2 : e2 = Cardinality(Ahead(tx', i)) /\ d2 = Cardinality(Spent(tx', i))
    OBVIOUS
  <1>4. e \in Nat /\ d \in Nat /\ e2 \in Nat /\ d2 \in Nat
    BY <1>2, <1>3, CountsNat
  <1>5. e2 = IF r \in Ahead(tx, i) THEN IF r \in Ahead(tx', i) THEN e ELSE e - 1
                                   ELSE IF r \in Ahead(tx', i) THEN e + 1 ELSE e
    BY <1>1, <1>2, <1>3, AheadMove
  <1>6. d2 = IF r \in Spent(tx, i) THEN IF r \in Spent(tx', i) THEN d ELSE d - 1
                                   ELSE IF r \in Spent(tx', i) THEN d + 1 ELSE d
    BY <1>1, <1>2, <1>3, SpentMove
  <1>7. counter[i].count + 1 < MaxFailures
          \/ (e2 \in {e, e + 1} /\ (counter[i].locked => d2 >= d))
    <2>1. CASE Out(t, i)
      <3>1. r \in Spent(tx', i)
        BY <1>1, <2>1 DEF Spent
      <3>2. r \in Ahead(tx', i)
        BY <1>1, <2>1 DEF Ahead, Out
      <3>. QED BY <1>4, <1>5, <1>6, <3>1, <3>2
    <2>2. CASE (Behind(tx[r], i) <=> Behind(t, i)) /\ (Owing(tx[r], i) <=> Owing(t, i))
      <3>1. r \in Spent(tx, i) <=> r \in Spent(tx', i)
        BY <1>1, <2>2 DEF Spent, Out
      <3>2. r \in Ahead(tx, i) <=> r \in Ahead(tx', i)
        BY <1>1, <2>2 DEF Ahead
      <3>. QED BY <1>4, <1>5, <1>6, <3>1, <3>2
    <2>3. CASE ~Behind(tx[r], i) /\ ~Behind(t, i) /\ ~counter[i].locked
      <3>1. r \in Ahead(tx, i) /\ r \in Ahead(tx', i)
        BY <1>1, <2>3 DEF Ahead
      <3>. QED BY <1>5, <2>3, <3>1
    <2>. QED BY <2>1, <2>2, <2>3
  <1>8. Within(counter[i].count, guesses[i], counter[i].locked, e, d)
    BY <1>2, CounterIs DEF Tally
  <1>9. Within(counter[i].count, guesses[i], counter[i].locked, e2, d2)
    BY <1>4, <1>7, <1>8, CounterIs, WithinStays
  <1>. QED BY <1>3, <1>9 DEF Tally

\* With a limit of one failure, every failure locks.
LEMMA AheadAll ==
  ASSUME NEW f \in [Request -> TxRecord], NEW i, MaxFailures = 1
  PROVE  Cardinality(Ahead(f, i)) >= 1
  <1>1. \A r \in Request : f[r].seen \in Nat
    BY DEF TxRecord
  <1>2. Ahead(f, i) = Request
    BY <1>1 DEF Ahead, Behind, Locks
  <1>3. Cardinality(Request) \in Nat /\ Cardinality(Request) # 0
    BY RequestsFinite, FS_CardinalityType, FS_EmptySet
  <1>. QED BY <1>2, <1>3

LEMMA TallyAgain ==
  ASSUME IInv', NEW i \in Ident, guesses'[i] = 0, ~counter'[i].locked
  PROVE  Tally(i)'
  <1>1. tx' \in [Request -> TxRecord] /\ counter'[i].count \in Nat
        /\ counter'[i].locked \in BOOLEAN
    BY DEF IInv, Types, Counters
  <1>2. PICK e, d : e = Cardinality(Ahead(tx', i)) /\ d = Cardinality(Spent(tx', i))
    OBVIOUS
  <1>3. e \in Nat /\ d \in Nat
    BY <1>2, CountsNat
  <1>4. MaxFailures = 1 => e >= 1
    BY <1>1, <1>2, AheadAll
  <1>5. Within(counter'[i].count, 0, FALSE, e, d)
    BY <1>1, <1>3, <1>4, WithinAgain
  <1>6. counter'[i].locked = FALSE
    BY <1>1
  <1>. QED BY <1>2, <1>5, <1>6 DEF Tally

LEMMA TriedMove ==
  ASSUME IInv, Tallies, NEW r \in Request, NEW t, tx' = [tx EXCEPT ![r] = t], NEW c \in Code,
         t.pc # "count" \/ t.code # c, Attempts(c)
  PROVE  Tried(c)'
  <1>1. tx \in [Request -> TxRecord]
    BY DEF IInv, Types
  <1>2. PICK w, w2 : w = Cardinality(Wrong(tx, c)) /\ w2 = Cardinality(Wrong(tx', c))
    OBVIOUS
  <1>3. r \notin Wrong(tx', c)
    BY <1>1 DEF Wrong
  <1>4. w \in Nat /\ w2 \in Nat /\ w2 <= w
    BY <1>1, <1>2, <1>3, WrongMove
  <1>5. SUFFICES ASSUME code'[c] # None
                 PROVE  code'[c].attempts + w2 + 1 <= MaxAttempts + Cardinality(Request)
    BY <1>2 DEF Tried
  <1>6. code[c] # None /\ code'[c].attempts = code[c].attempts
    BY <1>5 DEF Attempts
  <1>7. code[c].attempts + w + 1 <= MaxAttempts + Cardinality(Request)
    BY <1>2, <1>6 DEF Tallies, Tried
  <1>8. code[c].attempts \in Nat
    BY <1>6 DEF IInv, Types, CodeRecord
  <1>9. MaxAttempts + Cardinality(Request) \in Nat
    BY LimitsNat, RequestsFinite, FS_CardinalityType
  <1>. QED BY <1>4, <1>6, <1>7, <1>8, <1>9

\* A step after which its request neither guesses nor counts, and that changes a
\* counter only to start it again.
LEMMA QuietTallies ==
  ASSUME IInv, IInv', Tallies, NEW r \in Request, NEW t, tx' = [tx EXCEPT ![r] = t],
         t.pc \notin Guessing \cup {"count"}, guesses' \in [Ident -> Nat],
         \A c \in Code : Attempts(c),
         \A i \in Ident : \/ counter'[i] = counter[i] /\ guesses'[i] = guesses[i]
                          \/ guesses'[i] = 0 /\ ~counter'[i].locked
  PROVE  Tallies'
  <1>1. ASSUME NEW i \in Ident PROVE Tally(i)'
    <2>1. Out(t, i)
      BY NotGuessing
    <2>. QED BY <2>1, TallyMove, TallyAgain
  <1>2. ASSUME NEW c \in Code PROVE Tried(c)'
    BY TriedMove
  <1>. QED BY <1>1, <1>2 DEF Tallies

\* The request of a step goes on to a statement that has nothing to do with guesses.
Quiet(r) == \E t : t.pc \notin Guessing \cup {"count"} /\ tx' = [tx EXCEPT ![r] = t]

LEMMA EndQuiet ==
  ASSUME NEW r, End(r)
  PROVE  Quiet(r)
  BY IdleIs DEF End, Quiet, Guessing

LEMMA GotoQuiet ==
  ASSUME IInv, NEW r \in Request, NEW pc, pc \notin Guessing \cup {"count"},
         Goto(r, pc) \/ \E rows : Hold(r, rows, pc)
  PROVE  Quiet(r)
  <1>1. tx[r] \in TxRecord
    BY DEF IInv, Types
  <1>2. ASSUME Goto(r, pc) PROVE Quiet(r)
    <2>1. PICK t : t = [tx[r] EXCEPT !.pc = pc]
      OBVIOUS
    <2>2. t.pc = pc /\ tx' = [tx EXCEPT ![r] = t]
      BY <1>1, <1>2, <2>1 DEF TxRecord, Goto
    <2>. QED BY <2>2 DEF Quiet
  <1>3. ASSUME NEW rows, Hold(r, rows, pc) PROVE Quiet(r)
    <2>1. PICK t : t = [tx[r] EXCEPT !.rows = tx[r].rows \cup rows, !.pc = pc]
      OBVIOUS
    <2>2. tx' = [tx EXCEPT ![r] = t]
      BY <1>3, <2>1 DEF Hold
    <2>3. t.pc = pc
      BY <1>1, <2>1 DEF TxRecord
    <2>. QED BY <2>2, <2>3 DEF Quiet
  <1>. QED BY <1>2, <1>3

LEMMA BeginQuiet ==
  ASSUME NEW r \in Request, NEW op, NEW pc, NEW user, NEW mail, NEW phone, NEW subject, NEW ident,
         Begin(r, op, pc, user, mail, phone, subject, ident), pc \notin Guessing \cup {"count"}
  PROVE  Quiet(r) /\ UNCHANGED <<code, counter, guesses>>
  <1>1. PICK t : t = [Idle EXCEPT !.op = op, !.pc = pc, !.user = user, !.mail = mail,
                                  !.phone = phone, !.subject = subject, !.ident = ident]
    OBVIOUS
  <1>2. tx' = [tx EXCEPT ![r] = t] /\ UNCHANGED <<code, counter, guesses>>
    BY <1>1 DEF Begin, lockout, identities
  <1>3. t.pc = pc
    BY <1>1 DEF Idle
  <1>. QED BY <1>2, <1>3 DEF Quiet

LEMMA QuietStep ==
  ASSUME IInv, IInv', Tallies, NEW r \in Request, Quiet(r), UNCHANGED <<counter, guesses>>,
         \A c \in Code : Attempts(c)
  PROVE  Tallies'
  <1>1. PICK t : t.pc \notin Guessing \cup {"count"} /\ tx' = [tx EXCEPT ![r] = t]
    BY DEF Quiet
  <1>2. guesses' \in [Ident -> Nat]
    BY DEF Tallies
  <1>. QED BY <1>1, <1>2, QuietTallies

LEMMA StartQuiet ==
  ASSUME NEW r \in Request,
         \/ \E p \in Phone : Send(r, p) \/ Verify(r, p)
         \/ Register(r) \/ LoginWithIdentity(r) \/ RegisterWithIdentity(r)
         \/ SendEmailVerification(r) \/ VerifyEmail(r) \/ LoginWithEmail(r)
  PROVE  Quiet(r) /\ UNCHANGED <<code, counter, guesses>>
  <1>1. ASSUME NEW op, NEW pc \in {"owner", "unique", "linked", "letter", "mailProven", "allowed"},
               NEW user, NEW mail, NEW phone, NEW subject, NEW ident,
               Begin(r, op, pc, user, mail, phone, subject, ident)
        PROVE  Quiet(r) /\ UNCHANGED <<code, counter, guesses>>
    BY <1>1, BeginQuiet DEF Guessing
  <1>2. CASE \E p \in Phone : Send(r, p) \/ Verify(r, p)
    BY <1>1, <1>2 DEF Send, Verify, SendLoginOtp, SendRegisterOtp, SendPhoneVerification,
                VerifyLoginOtp, VerifyRegisterOtp, VerifyPhone
  <1>3. CASE Register(r) \/ LoginWithIdentity(r) \/ RegisterWithIdentity(r)
    BY <1>1, <1>3 DEF Register, LoginWithIdentity, RegisterWithIdentity
  <1>4. CASE SendEmailVerification(r) \/ VerifyEmail(r) \/ LoginWithEmail(r)
    BY <1>1, <1>4 DEF SendEmailVerification, VerifyEmail, LoginWithEmail
  <1>. QED BY <1>2, <1>3, <1>4

\* What a statement about codes, accounts or letters does to the tallies.
LEMMA CodeTallies ==
  ASSUME IInv, IInv', Tallies, NEW r \in Request, CodeStep(r)
  PROVE  Tallies'
  <1>1. tx \in [Request -> TxRecord] /\ code \in [Code -> CodeRecord \cup {None}]
    BY DEF IInv, Types
  <1>2. UNCHANGED <<counter, guesses>>
    BY DEF CodeStep, FindOwner, CheckCooldown, CreateOtp, FindOtp, IncrementAttempts, ConsumeOtp,
           SetPhone, lockout
  <1>3. UNCHANGED code => \A c \in Code : Attempts(c)
    BY DEF Attempts
  <1>4. CASE FindOwner(r)
    <2>1. UNCHANGED code
      BY <1>4 DEF FindOwner, identities
    <2>2. Quiet(r)
      <3>1. ASSUME NEW pc \in {"cooldown", "find"}, NEW u, tx' = [tx EXCEPT ![r].pc = pc, ![r].user = u]
            PROVE  Quiet(r)
        <4>1. PICK t : t = [tx[r] EXCEPT !.pc = pc, !.user = u]
          OBVIOUS
        <4>2. tx' = [tx EXCEPT ![r] = t]
          BY <3>1, <4>1
        <4>3. t.pc = pc
          BY <1>1, <4>1 DEF TxRecord
        <4>. QED BY <4>2, <4>3 DEF Quiet, Guessing
      <3>2. ASSUME NEW pc \in {"cooldown", "find"}, Goto(r, pc) PROVE Quiet(r)
        BY <3>2, GotoQuiet DEF Guessing
      <3>. QED BY <1>4, <3>1, <3>2, EndQuiet DEF FindOwner
    <2>. QED BY <1>2, <1>3, <2>1, <2>2, QuietStep
  <1>5. CASE CheckCooldown(r)
    <2>1. UNCHANGED code /\ (End(r) \/ Goto(r, "deliver"))
      BY <1>5 DEF CheckCooldown, identities
    <2>2. Quiet(r)
      BY <2>1, EndQuiet, GotoQuiet DEF Guessing
    <2>. QED BY <1>2, <1>3, <2>1, <2>2, QuietStep
  <1>6. CASE SetPhone(r)
    <2>1. UNCHANGED code
      BY <1>6 DEF SetPhone, identities
    <2>2. Quiet(r)
      BY <1>6, EndQuiet, GotoQuiet DEF SetPhone, Guessing
    <2>. QED BY <1>2, <1>3, <2>1, <2>2, QuietStep
  <1>7. CASE ConsumeOtp(r)
    <2>1. Quiet(r)
      BY <1>7, EndQuiet, GotoQuiet DEF ConsumeOtp, Guessing
    <2>2. ASSUME NEW c \in Code PROVE Attempts(c)
      <3>1. CASE UNCHANGED code
        BY <1>3, <3>1
      <3>2. CASE code' = [code EXCEPT ![tx[r].code].usedBy = tx[r].user] /\ tx[r].op = "loginByCode"
        <4>1. code[tx[r].code] # None
          <5>1. tx[r].pc = "consume"
            BY <1>7 DEF ConsumeOtp, At
          <5>2. Knows(tx[r], tx[r].pc, tx[r].rows)
            BY RequestIs
          <5>. QED BY <5>1, <5>2 DEF Knows, Uses
        <4>2. CASE c = tx[r].code
          <5>1. code[c] \in CodeRecord /\ code'[c] = [code[c] EXCEPT !.usedBy = tx[r].user]
            BY <1>1, <3>2, <4>1, <4>2
          <5>2. code'[c].attempts = code[c].attempts
            BY <5>1 DEF CodeRecord
          <5>. QED BY <4>1, <4>2, <5>2 DEF Attempts
        <4>3. CASE c # tx[r].code
          <5>1. code'[c] = code[c]
            BY <1>1, <3>2, <4>3
          <5>. QED BY <5>1 DEF Attempts
        <4>. QED BY <4>2, <4>3
      <3>. QED BY <1>7, <3>1, <3>2 DEF ConsumeOtp
    <2>. QED BY <1>2, <2>1, <2>2, QuietStep
  <1>8. ASSUME NEW t, tx' = [tx EXCEPT ![r] = t], t.pc \notin Guessing,
               \A c \in Code : Tried(c)'
        PROVE  Tallies'
    <2>1. ASSUME NEW i \in Ident PROVE Tally(i)'
      <3>1. Out(t, i)
        BY <1>8, NotGuessing
      <3>. QED BY <1>2, <1>8, <3>1, TallyMove
    <2>. QED BY <1>2, <1>8, <2>1 DEF Tallies
  <1>9. MaxAttempts \in Nat /\ Cardinality(Request) \in Nat
    BY LimitsNat, RequestsFinite, FS_CardinalityType
  <1>10. CASE CreateOtp(r)
    <2>1. tx' = [tx EXCEPT ![r] = Idle] /\ Idle.pc = "idle"
      BY <1>10, IdleIs DEF CreateOtp, End
    <2>2. PICK b \in Code : code' = [code EXCEPT ![b] =
                              [phone |-> tx[r].phone, purpose |-> Purpose(tx[r].op),
                               age |-> "fresh", attempts |-> 0, usedBy |-> None]]
      BY <1>10 DEF CreateOtp
    <2>3. ASSUME NEW c \in Code PROVE Tried(c)'
      <3>1. CASE c = b
        <4>1. code'[c].attempts = 0
          BY <1>1, <2>2, <3>1
        <4>2. r \notin Wrong(tx', c)
          BY <1>1, <2>1 DEF Wrong
        <4>3. Cardinality(Wrong(tx', c)) \in Nat
                /\ Cardinality(Wrong(tx', c)) + 1 <= Cardinality(Request)
          BY <1>1, <2>1, <4>2, WrongMove
        <4>. QED BY <1>9, <4>1, <4>3 DEF Tried
      <3>2. CASE c # b
        <4>1. code'[c] = code[c]
          BY <1>1, <2>2, <3>2
        <4>2. Attempts(c)
          BY <4>1 DEF Attempts
        <4>. QED BY <2>1, <4>2, TriedMove
      <3>. QED BY <3>1, <3>2
    <2>. QED BY <1>8, <2>1, <2>3 DEF Guessing
  <1>11. CASE FindOtp(r)
    <2>1. UNCHANGED code
      BY <1>11 DEF FindOtp, identities
    <2>2. PICK latest : latest = Latest(tx[r].phone, Purpose(tx[r].op))
      OBVIOUS
    <2>3. CASE End(r)
      BY <1>2, <1>3, <2>1, <2>3, EndQuiet, QuietStep
    <2>4. CASE ~End(r)
      <3>1. latest # None /\ ~(code[latest].attempts >= MaxAttempts)
        BY <1>11, <2>2, <2>4 DEF FindOtp
      <3>2. PICK pc \in {"count", "consume"} : tx' = [tx EXCEPT ![r].pc = pc, ![r].code = latest]
        BY <1>11, <2>2, <2>4, <3>1 DEF FindOtp
      <3>3. PICK t : t = [tx[r] EXCEPT !.pc = pc, !.code = latest]
        OBVIOUS
      <3>4. tx' = [tx EXCEPT ![r] = t]
        BY <3>2, <3>3
      <3>5. t.pc = pc /\ t.code = latest
        BY <1>1, <3>3 DEF TxRecord
      <3>6. latest \in Code /\ code[latest] \in CodeRecord
        <4>1. latest \in Active(tx[r].phone, Purpose(tx[r].op))
          BY <2>2, <3>1, LatestIs
        <4>. QED BY <1>1, <4>1 DEF Active
      <3>7. ASSUME NEW c \in Code PROVE Tried(c)'
        <4>1. CASE c = latest
          <5>1. Cardinality(Wrong(tx', c)) \in Nat
                  /\ Cardinality(Wrong(tx', c)) <= Cardinality(Request)
            BY <1>1, <3>4, WrongMove
          <5>2. code[c].attempts \in Nat /\ code[c].attempts + 1 <= MaxAttempts
            BY <1>9, <3>1, <3>6, <4>1 DEF CodeRecord
          <5>. QED BY <1>9, <2>1, <5>1, <5>2 DEF Tried
        <4>2. CASE c # latest
          BY <1>3, <2>1, <3>4, <3>5, <4>2, TriedMove
        <4>. QED BY <4>1, <4>2
      <3>. QED BY <1>8, <3>4, <3>5, <3>7 DEF Guessing
    <2>. QED BY <2>3, <2>4
  <1>12. CASE IncrementAttempts(r)
    <2>1. tx' = [tx EXCEPT ![r] = Idle] /\ Idle.pc = "idle"
      BY <1>12, IdleIs DEF IncrementAttempts, End
    <2>2. CASE tx[r].op # "loginByCode"
      <3>1. UNCHANGED code /\ Quiet(r)
        BY <1>12, <2>2, EndQuiet DEF IncrementAttempts
      <3>. QED BY <1>2, <1>3, <3>1, QuietStep
    <2>3. CASE tx[r].op = "loginByCode"
      <3>1. PICK b : b = tx[r].code
        OBVIOUS
      <3>2. tx[r].pc = "count" /\ code' = [code EXCEPT ![b].attempts = @ + 1]
        BY <1>12, <2>3, <3>1 DEF IncrementAttempts, At
      <3>3. b \in Code /\ code[b] # None
        <4>1. Knows(tx[r], tx[r].pc, tx[r].rows)
          BY RequestIs
        <4>. QED BY <3>1, <3>2, <4>1 DEF Knows, Uses
      <3>4. ASSUME NEW c \in Code PROVE Tried(c)'
        <4>1. CASE c = b
          <5>1. code[c] \in CodeRecord /\ code'[c] = [code[c] EXCEPT !.attempts = code[c].attempts + 1]
            BY <1>1, <3>2, <3>3, <4>1
          <5>2. code[c].attempts \in Nat /\ code'[c].attempts = code[c].attempts + 1
            BY <5>1 DEF CodeRecord
          <5>3. r \notin Wrong(tx', c) /\ r \in Wrong(tx, c)
            BY <1>1, <2>1, <2>3, <3>1, <3>2, <4>1 DEF Wrong
          <5>4. Cardinality(Wrong(tx', c)) \in Nat
                  /\ Cardinality(Wrong(tx', c)) + 1 = Cardinality(Wrong(tx, c))
            BY <1>1, <2>1, <5>3, WrongMove
          <5>5. code[c].attempts + Cardinality(Wrong(tx, c)) + 1 <= MaxAttempts + Cardinality(Request)
            BY <3>3, <4>1 DEF Tallies, Tried
          <5>. QED BY <1>9, <5>2, <5>4, <5>5 DEF Tried
        <4>2. CASE c # b
          <5>1. code'[c] = code[c]
            BY <1>1, <3>2, <3>3, <4>2
          <5>2. Attempts(c)
            BY <5>1 DEF Attempts
          <5>. QED BY <2>1, <5>2, TriedMove
        <4>. QED BY <4>1, <4>2
      <3>. QED BY <1>8, <2>1, <3>4 DEF Guessing
    <2>. QED BY <2>2, <2>3
  <1>. QED BY <1>4, <1>5, <1>6, <1>7, <1>10, <1>11, <1>12 DEF CodeStep

LEMMA EnrolQuiet ==
  ASSUME IInv, NEW r \in Request, EnrolStep(r) \/ MailStep(r)
  PROVE  Quiet(r) /\ UNCHANGED <<code, counter, guesses>>
  <1>1. tx \in [Request -> TxRecord]
    BY DEF IInv, Types
  <1>2. UNCHANGED <<code, counter, guesses>>
    BY DEF EnrolStep, MailStep, EnsureUnique, FindLink, FindHolder, CreateUser, LinkIdentity,
           CreateLetter, MarkEmailVerified, identities, lockout
  <1>3. ASSUME NEW pc \in {"create", "holder", "link", "commit"},
               Goto(r, pc) \/ \E rows : Hold(r, rows, pc)
        PROVE  Quiet(r)
    BY <1>3, GotoQuiet DEF Guessing
  <1>5. CASE EnsureUnique(r) \/ FindLink(r)
    BY <1>2, <1>3, <1>5, EndQuiet DEF EnsureUnique, FindLink
  <1>6. CASE FindHolder(r)
    <2>1. ASSUME NEW u, tx' = [tx EXCEPT ![r].pc = "link", ![r].user = u] PROVE Quiet(r)
      <3>1. PICK t : t = [tx[r] EXCEPT !.pc = "link", !.user = u]
        OBVIOUS
      <3>2. tx' = [tx EXCEPT ![r] = t]
        BY <2>1, <3>1
      <3>3. t.pc = "link"
        BY <1>1, <3>1 DEF TxRecord
      <3>. QED BY <3>2, <3>3 DEF Quiet, Guessing
    <2>. QED BY <1>2, <1>3, <1>6, <2>1, EndQuiet DEF FindHolder
  <1>7. CASE CreateUser(r)
    <2>1. ASSUME NEW u, NEW rows, NEW pc \in {"link", "commit"},
                 tx' = [tx EXCEPT ![r].user = u, ![r].rows = rows, ![r].pc = pc]
          PROVE  Quiet(r)
      <3>1. PICK t : t = [tx[r] EXCEPT !.user = u, !.rows = rows, !.pc = pc]
        OBVIOUS
      <3>2. tx' = [tx EXCEPT ![r] = t]
        BY <2>1, <3>1
      <3>3. t.pc = pc
        BY <1>1, <3>1 DEF TxRecord
      <3>. QED BY <3>2, <3>3 DEF Quiet, Guessing
    <2>2. PICK keys : keys = KeysOf(NewAccount(r))
      OBVIOUS
    <2>3. CASE End(r)
      BY <1>2, <2>3, EndQuiet
    <2>4. CASE ~End(r)
      <3>1. PICK u \in User :
              tx' = [tx EXCEPT ![r].user = u, ![r].rows = @ \cup keys \cup {UserRow(u)},
                    ![r].pc = IF tx[r].op = "registerByIdentity" THEN "link" ELSE "commit"]
        BY <1>7, <2>2, <2>4 DEF CreateUser
      <3>2. PICK rows, pc : rows = tx[r].rows \cup keys \cup {UserRow(u)}
              /\ pc = IF tx[r].op = "registerByIdentity" THEN "link" ELSE "commit"
        OBVIOUS
      <3>3. tx' = [tx EXCEPT ![r].user = u, ![r].rows = rows, ![r].pc = pc]
        BY <1>1, <3>1, <3>2
      <3>. QED BY <1>2, <2>1, <3>2, <3>3
    <2>. QED BY <2>3, <2>4
  <1>8. CASE LinkIdentity(r)
    BY <1>2, <1>3, <1>8, EndQuiet DEF LinkIdentity
  <1>9. CASE MailStep(r)
    BY <1>2, <1>3, <1>9, EndQuiet DEF MailStep, CreateLetter, MarkEmailVerified
  <1>. QED BY <1>2, <1>5, <1>6, <1>7, <1>8, <1>9 DEF EnrolStep

\* A login knows its address and its IP, and they are different counters.
LEMMA LoginIs ==
  ASSUME IInv, NEW r \in Request, tx[r].pc \in Passwords
  PROVE  /\ tx[r] \in TxRecord /\ tx[r].mail \in Ident /\ tx[r].ident \in Ident
         /\ tx[r].mail # tx[r].ident
  <1>1. tx[r] \in TxRecord /\ Knows(tx[r], tx[r].pc, tx[r].rows)
    BY RequestIs
  <1>2. tx[r].mail \in Mail /\ tx[r].ident \in Ip
    BY <1>1 DEF Knows, Route
  <1>. QED BY <1>1, <1>2, ScopesApart DEF Ident

\* A login goes on, and no failure is recorded.
LEMMA LoginMoves ==
  ASSUME IInv, Tallies, NEW r \in Request, NEW t, tx' = [tx EXCEPT ![r] = t], t.pc # "count",
         UNCHANGED <<code, counter, guesses>>,
         \A i \in Ident :
           \/ Out(t, i)
           \/ (Behind(tx[r], i) <=> Behind(t, i)) /\ (Owing(tx[r], i) <=> Owing(t, i))
           \/ ~Behind(tx[r], i) /\ ~Behind(t, i) /\ ~counter[i].locked
           \/ counter[i].count + 1 < MaxFailures
  PROVE  Tallies'
  <1>1. \A i \in Ident : Tally(i)'
    BY TallyMove
  <1>2. ASSUME NEW c \in Code PROVE Tried(c)'
    BY TriedMove DEF Attempts
  <1>. QED BY <1>1, <1>2 DEF Tallies

LEMMA AllowedTallies ==
  ASSUME IInv, IInv', Tallies, NEW r \in Request, AssertLoginAllowed(r)
  PROVE  Tallies'
  <1>1. tx[r].pc = "allowed" /\ UNCHANGED <<code, counter, guesses>>
    BY DEF AssertLoginAllowed, At, identities, lockout
  <1>2. CASE End(r)
    BY <1>1, <1>2, EndQuiet, QuietStep DEF Attempts
  <1>3. CASE ~End(r)
    <2>1. tx[r] \in TxRecord /\ ~counter[tx[r].mail].locked /\ ~counter[tx[r].ident].locked
      BY <1>1, <1>3, LoginIs DEF AssertLoginAllowed, Passwords
    <2>2. Goto(r, "compare")
      BY <1>3 DEF AssertLoginAllowed
    <2>3. PICK t : t = [tx[r] EXCEPT !.pc = "compare"]
      OBVIOUS
    <2>4. tx' = [tx EXCEPT ![r] = t]
      BY <2>2, <2>3 DEF Goto
    <2>5. t.pc = "compare" /\ t.mail = tx[r].mail /\ t.ident = tx[r].ident
      BY <2>1, <2>3 DEF TxRecord
    <2>6. ASSUME NEW i \in Ident
          PROVE  Out(t, i) \/ (~Behind(tx[r], i) /\ ~Behind(t, i) /\ ~counter[i].locked)
      BY <1>1, <2>1, <2>5 DEF Out, Behind, Owing
    <2>. QED BY <1>1, <2>4, <2>5, <2>6, LoginMoves
  <1>. QED BY <1>2, <1>3

LEMMA CompareTallies ==
  ASSUME IInv, IInv', Tallies, NEW r \in Request, ComparePassword(r)
  PROVE  Tallies'
  <1>1. tx[r].pc = "compare" /\ UNCHANGED <<code, counter, guesses>>
    BY DEF ComparePassword, At, identities, lockout
  <1>2. tx[r] \in TxRecord
    BY <1>1, LoginIs DEF Passwords
  <1>3. CASE Goto(r, "clearMail")
    BY <1>1, <1>3, GotoQuiet, QuietStep DEF Attempts, Guessing
  <1>4. CASE Goto(r, "readMail")
    <2>1. PICK t : t = [tx[r] EXCEPT !.pc = "readMail"]
      OBVIOUS
    <2>2. tx' = [tx EXCEPT ![r] = t]
      BY <1>4, <2>1 DEF Goto
    <2>3. t.pc = "readMail" /\ t.mail = tx[r].mail /\ t.ident = tx[r].ident
      BY <1>2, <2>1 DEF TxRecord
    <2>4. ASSUME NEW i \in Ident
          PROVE  (Behind(tx[r], i) <=> Behind(t, i)) /\ (Owing(tx[r], i) <=> Owing(t, i))
      BY <1>1, <2>3 DEF Behind, Owing
    <2>. QED BY <1>1, <2>2, <2>3, <2>4, LoginMoves
  <1>. QED BY <1>3, <1>4 DEF ComparePassword

LEMMA ReadTallies ==
  ASSUME IInv, Tallies, NEW r \in Request, ReadAttempt(r)
  PROVE  Tallies'
  <1>1. tx[r].pc \in {"readMail", "readIp"} /\ UNCHANGED <<code, counter, guesses>>
    BY DEF ReadAttempt, identities, lockout
  <1>2. tx[r] \in TxRecord /\ tx[r].mail \in Ident /\ tx[r].ident \in Ident
        /\ tx[r].mail # tx[r].ident
    BY <1>1, LoginIs DEF Passwords
  <1>3. PICK n, pc : n = counter[Turn(r)].count
                     /\ pc = IF tx[r].pc = "readMail" THEN "recordMail" ELSE "recordIp"
    OBVIOUS
  <1>4. PICK t : t = [tx[r] EXCEPT !.seen = n, !.pc = pc]
    OBVIOUS
  <1>5. tx' = [tx EXCEPT ![r] = t]
    BY <1>2, <1>3, <1>4 DEF ReadAttempt
  <1>6. t.pc = pc /\ t.mail = tx[r].mail /\ t.ident = tx[r].ident /\ t.seen = n
    BY <1>2, <1>4 DEF TxRecord
  <1>7. Turn(r) = IF tx[r].pc = "readMail" THEN tx[r].mail ELSE tx[r].ident
    BY <1>1 DEF Turn
  <1>8. ASSUME NEW i \in Ident
        PROVE  \/ (Behind(tx[r], i) <=> Behind(t, i)) /\ (Owing(tx[r], i) <=> Owing(t, i))
               \/ counter[i].count + 1 < MaxFailures
    <2>1. counter[i].count \in Nat /\ MaxFailures \in Nat
      BY CounterIs, LimitsNat
    <2>2. CASE i = Turn(r) /\ ~Locks(n)
      BY <1>3, <2>1, <2>2 DEF Locks
    <2>3. CASE i = Turn(r) /\ Locks(n)
      BY <1>1, <1>2, <1>3, <1>6, <1>7, <2>3 DEF Behind, Owing
    <2>4. CASE i # Turn(r)
      BY <1>1, <1>2, <1>3, <1>6, <1>7, <2>4 DEF Behind, Owing
    <2>. QED BY <2>2, <2>3, <2>4
  <1>. QED BY <1>1, <1>3, <1>5, <1>6, <1>8, LoginMoves

LEMMA RecordTallies ==
  ASSUME IInv, IInv', Tallies, NEW r \in Request, RecordFailure(r)
  PROVE  Tallies'
  <1>1. /\ tx[r].pc \in {"recordMail", "recordIp"} /\ UNCHANGED code
        /\ counter' = [counter EXCEPT ![Turn(r)] = [count |-> counter[Turn(r)].count + 1,
                                                    locked |-> Locks(tx[r].seen)]]
        /\ guesses' = [guesses EXCEPT ![Turn(r)] = @ + 1]
        /\ IF tx[r].pc = "recordMail" THEN Goto(r, "readIp") ELSE End(r)
    BY DEF RecordFailure, NextCount, identities
  <1>2. tx[r] \in TxRecord /\ tx[r].mail \in Ident /\ tx[r].ident \in Ident
        /\ tx[r].mail # tx[r].ident
    BY <1>1, LoginIs DEF Passwords
  <1>3. /\ tx \in [Request -> TxRecord] /\ guesses \in [Ident -> Nat]
        /\ counter \in [Ident -> [count : Nat, locked : BOOLEAN]]
    BY DEF IInv, Types, Tallies, Counters
  <1>4. PICK i : i = Turn(r)
    OBVIOUS
  <1>5. i \in Ident /\ i = IF tx[r].pc = "recordMail" THEN tx[r].mail ELSE tx[r].ident
    BY <1>1, <1>2, <1>4 DEF Turn
  <1>6. PICK t : t = IF tx[r].pc = "recordMail" THEN [tx[r] EXCEPT !.pc = "readIp"] ELSE Idle
    OBVIOUS
  <1>7. tx' = [tx EXCEPT ![r] = t]
    BY <1>1, <1>6 DEF Goto, End
  <1>8. /\ tx[r].pc = "recordMail" => t.pc = "readIp" /\ t.mail = tx[r].mail /\ t.ident = tx[r].ident
        /\ tx[r].pc = "recordIp" => t.pc = "idle"
    BY <1>2, <1>6, IdleIs DEF TxRecord
  <1>9. ASSUME NEW j \in Ident, j # i PROVE Tally(j)'
    <2>1. counter'[j] = counter[j] /\ guesses'[j] = guesses[j]
      BY <1>1, <1>3, <1>4, <1>9
    <2>2. Out(t, j) \/ ((Behind(tx[r], j) <=> Behind(t, j)) /\ (Owing(tx[r], j) <=> Owing(t, j)))
      BY <1>1, <1>5, <1>8, <1>9 DEF Out, Behind, Owing
    <2>. QED BY <1>7, <2>1, <2>2, TallyMove
  <1>10. Tally(i)'
    <2>1. PICK e, d : e = Cardinality(Ahead(tx, i)) /\ d = Cardinality(Spent(tx, i))
      OBVIOUS
    <2>2. PICK e2, d2 : e2 = Cardinality(Ahead(tx', i)) /\ d2 = Cardinality(Spent(tx', i))
      OBVIOUS
    <2>3. e \in Nat /\ d \in Nat /\ d <= e
      BY <2>1, CountsNat
    <2>4. PICK n, g, locked : n = counter[i].count /\ g = guesses[i] /\ locked = counter[i].locked
      OBVIOUS
    <2>5. n \in Nat /\ g \in Nat /\ locked \in BOOLEAN /\ Within(n, g, locked, e, d)
      BY <1>3, <1>5, <2>1, <2>4, CounterIs DEF Tally
    <2>6. counter'[i] = [count |-> n + 1, locked |-> Locks(tx[r].seen)] /\ guesses'[i] = g + 1
      BY <1>1, <1>3, <1>4, <1>5, <2>4
    <2>7. Out(t, i) /\ ~Out(tx[r], i)
      BY <1>1, <1>2, <1>5, <1>8 DEF Out, Behind, Owing
    <2>8. Behind(tx[r], i) <=> ~Locks(tx[r].seen)
      BY <1>1, <1>5 DEF Behind
    <2>9. tx'[r] = t /\ ~Behind(t, i)
      BY <1>3, <1>7, <2>7 DEF Out
    <2>10. d2 = d + 1
      <3>1. d2 = IF r \in Spent(tx, i) THEN IF r \in Spent(tx', i) THEN d ELSE d - 1
                                       ELSE IF r \in Spent(tx', i) THEN d + 1 ELSE d
        BY <1>3, <1>7, <2>1, <2>2, SpentMove
      <3>2. r \notin Spent(tx, i) /\ r \in Spent(tx', i)
        BY <2>7, <2>9 DEF Spent
      <3>. QED BY <3>1, <3>2
    <2>11. e2 = IF r \in Ahead(tx, i) THEN e ELSE e + 1
      <3>1. e2 = IF r \in Ahead(tx, i) THEN IF r \in Ahead(tx', i) THEN e ELSE e - 1
                                       ELSE IF r \in Ahead(tx', i) THEN e + 1 ELSE e
        BY <1>3, <1>7, <2>1, <2>2, AheadMove
      <3>2. r \in Ahead(tx', i)
        BY <2>9 DEF Ahead
      <3>. QED BY <3>1, <3>2
    <2>12. r \in Ahead(tx, i) <=> Locks(tx[r].seen)
      BY <2>8 DEF Ahead
    <2>13. CASE Locks(tx[r].seen)
      <3>1. e2 = e
        BY <2>11, <2>12, <2>13
      <3>2. Within(n + 1, g + 1, TRUE, e2, d2)
        BY <2>3, <2>5, <2>10, <3>1, WithinLocks
      <3>3. counter'[i].count = n + 1 /\ counter'[i].locked = Locks(tx[r].seen)
        BY <2>6
      <3>4. Locks(tx[r].seen) = TRUE
        BY <2>13 DEF Locks
      <3>. QED BY <2>2, <2>6, <3>2, <3>3, <3>4 DEF Tally
    <2>14. CASE ~Locks(tx[r].seen)
      <3>1. e2 = e + 1
        BY <2>11, <2>12, <2>14
      <3>2. Within(n + 1, g + 1, FALSE, e2, d2)
        BY <2>3, <2>5, <2>10, <3>1, WithinUnlocks
      <3>3. counter'[i].count = n + 1 /\ counter'[i].locked = Locks(tx[r].seen)
        BY <2>6
      <3>4. Locks(tx[r].seen) = FALSE
        BY <2>14 DEF Locks
      <3>. QED BY <2>2, <2>6, <3>2, <3>3, <3>4 DEF Tally
    <2>. QED BY <2>13, <2>14
  <1>11. ASSUME NEW c \in Code PROVE Tried(c)'
    BY <1>1, <1>7, <1>8, TriedMove DEF Attempts
  <1>12. guesses' \in [Ident -> Nat]
    <2>1. guesses' = [guesses EXCEPT ![i] = @ + 1]
      BY <1>1, <1>4
    <2>. QED BY <1>3, <1>5, <2>1
  <1>. QED BY <1>9, <1>10, <1>11, <1>12 DEF Tallies

LEMMA CommitTallies ==
  ASSUME IInv, IInv', Tallies, NEW r \in Request, Commit(r)
  PROVE  Tallies'
  <1>1. PICK t : t = tx[r]
    OBVIOUS
  <1>2. /\ counter' = [i \in Ident |-> IF CounterRow(i) \in t.rows THEN Untried ELSE counter[i]]
        /\ guesses' = [i \in Ident |-> IF CounterRow(i) \in t.rows THEN 0 ELSE guesses[i]]
        /\ code' = [c \in Code |-> IF CodeRow(c) \in t.rows THEN [code[c] EXCEPT !.usedBy = t.user]
                                   ELSE code[c]]
        /\ tx' = [tx EXCEPT ![r] = Idle]
    BY <1>1 DEF Commit, End
  <1>3. guesses' \in [Ident -> Nat]
    BY <1>2 DEF Tallies
  <1>4. ASSUME NEW i \in Ident
        PROVE  \/ counter'[i] = counter[i] /\ guesses'[i] = guesses[i]
               \/ guesses'[i] = 0 /\ ~counter'[i].locked
    BY <1>2 DEF Untried
  <1>5. ASSUME NEW c \in Code PROVE Attempts(c)
    <2>1. CASE CodeRow(c) \in t.rows
      <3>1. c = t.code /\ code[t.code] # None
        <4>1. Knows(t, t.pc, t.rows)
          BY <1>1, RequestIs
        <4>2. c = t.code /\ t.op \in {"registerByCode", "verifyPhone"}
              /\ t.pc \in {"create", "phone", "commit"}
          BY <2>1, <4>1 DEF Knows, Uses
        <4>. QED BY <4>1, <4>2 DEF Knows, Uses
      <3>2. code[c] \in CodeRecord
        BY <3>1 DEF IInv, Types
      <3>3. code'[c] = [code[c] EXCEPT !.usedBy = t.user]
        BY <1>2, <2>1
      <3>4. code'[c].attempts = code[c].attempts
        BY <3>2, <3>3 DEF CodeRecord
      <3>. QED BY <3>1, <3>4 DEF Attempts
    <2>2. CASE CodeRow(c) \notin t.rows
      <3>1. code'[c] = code[c]
        BY <1>2, <2>2
      <3>. QED BY <3>1 DEF Attempts
    <2>. QED BY <2>1, <2>2
  <1>6. Idle.pc \notin Guessing \cup {"count"}
    BY IdleIs DEF Guessing
  <1>. QED BY <1>2, <1>3, <1>4, <1>5, <1>6, QuietTallies

LEMMA LoginTallies ==
  ASSUME IInv, IInv', Tallies, NEW r \in Request, LoginStep(r)
  PROVE  Tallies'
  <1>1. CASE ClearFailures(r)
    <2>1. UNCHANGED <<code, counter, guesses>>
      BY <1>1 DEF ClearFailures, identities, lockout
    <2>2. ASSUME NEW pc \in {"clearIp", "commit"}, NEW rows, Hold(r, rows, pc) PROVE Quiet(r)
      BY <2>2, GotoQuiet DEF Guessing
    <2>3. Quiet(r)
      BY <1>1, <2>2 DEF ClearFailures
    <2>. QED BY <2>1, <2>3, QuietStep DEF Attempts
  <1>. QED BY <1>1, AllowedTallies, CompareTallies, ReadTallies, RecordTallies DEF LoginStep

LEMMA AgeTallies ==
  ASSUME IInv, Tallies, NEW b \in Code, Age(b)
  PROVE  Tallies'
  <1>1. UNCHANGED <<tx, counter, guesses>> /\ code[b] # None
        /\ code' = [code EXCEPT ![b].age = Older(@)]
    BY DEF Age, lockout
  <1>2. code \in [Code -> CodeRecord \cup {None}]
    BY DEF IInv, Types
  <1>3. ASSUME NEW c \in Code PROVE Attempts(c)
    <2>1. CASE c = b
      <3>1. PICK a : a = Older(code[b].age)
        OBVIOUS
      <3>2. code[c] \in CodeRecord /\ code'[c] = [code[c] EXCEPT !.age = a]
        BY <1>1, <1>2, <2>1, <3>1
      <3>3. code'[c].attempts = code[c].attempts
        BY <3>2 DEF CodeRecord
      <3>. QED BY <1>1, <2>1, <3>3 DEF Attempts
    <2>2. CASE c # b
      <3>1. code'[c] = code[c]
        BY <1>1, <1>2, <2>2
      <3>. QED BY <3>1 DEF Attempts
    <2>. QED BY <2>1, <2>2
  <1>4. \A c \in Code : Tried(c)'
    BY <1>1, <1>3 DEF Tallies, Tried, Attempts
  <1>5. \A i \in Ident : Tally(i)'
    BY <1>1 DEF Tallies, Tally
  <1>. QED BY <1>1, <1>4, <1>5 DEF Tallies

LEMMA LapseTallies ==
  ASSUME IInv, IInv', Tallies, NEW j \in Ident, Lapse(j)
  PROVE  Tallies'
  <1>1. /\ UNCHANGED <<tx, code>> /\ counter' = [counter EXCEPT ![j].locked = FALSE]
        /\ guesses' = [guesses EXCEPT ![j] = 0]
    BY DEF Lapse, identities
  <1>2. /\ guesses \in [Ident -> Nat]
        /\ counter \in [Ident -> [count : Nat, locked : BOOLEAN]]
    BY DEF IInv, Types, Tallies, Counters
  <1>3. ASSUME NEW i \in Ident PROVE Tally(i)'
    <2>1. CASE i = j
      <3>1. guesses'[i] = 0 /\ counter'[i] = [counter[i] EXCEPT !.locked = FALSE]
        BY <1>1, <1>2, <2>1
      <3>2. ~counter'[i].locked
        BY <1>2, <3>1
      <3>. QED BY <3>1, <3>2, TallyAgain
    <2>2. CASE i # j
      <3>1. counter'[i] = counter[i] /\ guesses'[i] = guesses[i]
        BY <1>1, <1>2, <2>2
      <3>. QED BY <1>1, <3>1 DEF Tallies, Tally
    <2>. QED BY <2>1, <2>2
  <1>4. \A c \in Code : Tried(c)'
    BY <1>1 DEF Tallies, Tried
  <1>5. guesses' \in [Ident -> Nat]
    BY <1>1, <1>2
  <1>. QED BY <1>3, <1>4, <1>5 DEF Tallies

LEMMA InitTallies ==
  ASSUME Init
  PROVE  Tallies
  <1>1. tx \in [Request -> TxRecord]
    BY IdleIs DEF Init
  <1>2. ASSUME NEW i \in Ident PROVE Tally(i)
    <2>1. guesses[i] = 0 /\ counter[i].count = 0 /\ counter[i].locked = FALSE
      BY DEF Init, Untried
    <2>2. PICK e, d : e = Cardinality(Ahead(tx, i)) /\ d = Cardinality(Spent(tx, i))
      OBVIOUS
    <2>3. e \in Nat /\ d \in Nat /\ (MaxFailures = 1 => e >= 1)
      BY <1>1, <2>2, CountsNat, AheadAll
    <2>4. Within(0, 0, FALSE, e, d)
      BY <2>3, WithinAgain
    <2>. QED BY <2>1, <2>2, <2>4 DEF Tally
  <1>3. ASSUME NEW c \in Code PROVE Tried(c)
    BY DEF Init, Tried
  <1>4. guesses \in [Ident -> Nat]
    BY DEF Init
  <1>. QED BY <1>2, <1>3, <1>4 DEF Tallies

LEMMA NextTallies ==
  ASSUME IInv, IInv', Tallies, [Next]_vars
  PROVE  Tallies'
  <1>0. UNCHANGED code => \A c \in Code : Attempts(c)
    BY DEF Attempts
  <1>1. ASSUME NEW r \in Request, Quiet(r), UNCHANGED <<code, counter, guesses>>
        PROVE  Tallies'
    BY <1>0, <1>1, QuietStep
  <1>2. ASSUME NEW r \in Request, NEW p \in Phone, Send(r, p) \/ Verify(r, p)
        PROVE  Tallies'
    BY <1>1, <1>2, StartQuiet
  <1>3. ASSUME NEW r \in Request,
               \/ Register(r) \/ LoginWithIdentity(r) \/ RegisterWithIdentity(r)
               \/ SendEmailVerification(r) \/ VerifyEmail(r) \/ LoginWithEmail(r)
        PROVE  Tallies'
    BY <1>1, <1>3, StartQuiet
  <1>4. ASSUME NEW r \in Request, CodeStep(r) PROVE Tallies'
    BY <1>4, CodeTallies
  <1>5. ASSUME NEW r \in Request, EnrolStep(r) \/ MailStep(r) PROVE Tallies'
    BY <1>1, <1>5, EnrolQuiet
  <1>6. ASSUME NEW r \in Request, LoginStep(r) PROVE Tallies'
    BY <1>6, LoginTallies
  <1>7. ASSUME NEW r \in Request, Commit(r) PROVE Tallies'
    BY <1>7, CommitTallies
  <1>8. ASSUME NEW r \in Request, Abort(r) PROVE Tallies'
    BY <1>1, <1>8, EndQuiet DEF Abort, identities, lockout
  <1>9. ASSUME NEW c \in Code, Age(c) PROVE Tallies'
    BY <1>9, AgeTallies
  <1>10. ASSUME NEW i \in Ident, Lapse(i) PROVE Tallies'
    BY <1>10, LapseTallies
  <1>11. CASE UNCHANGED vars
    BY <1>11 DEF vars, Tallies, Tally, Tried
  <1>. QED BY <1>2, <1>3, <1>4, <1>5, <1>6, <1>7, <1>8, <1>9, <1>10, <1>11 DEF Next

\* auth.service.js: however failures interleave, an address or an IP gets a bounded number
\* of them between two lapses of its lock, and a sign-in code a bounded number of answers,
\* although the lock is set and taken away by a count that was read before.
THEOREM GuessesAreBounded == Spec => []GuessesBounded
  <1>1. Init => Tallies
    BY InitTallies
  <1>2. IInv /\ IInv' /\ Tallies /\ [Next]_vars => Tallies'
    BY NextTallies
  <1>3. IInv /\ Tallies => GuessesBounded
    <2>1. SUFFICES ASSUME IInv, Tallies PROVE GuessesBounded
      OBVIOUS
    <2>2. ASSUME NEW i \in Ident PROVE guesses[i] <= MaxGuesses
      <3>1. PICK e, d : e = Cardinality(Ahead(tx, i)) /\ d = Cardinality(Spent(tx, i))
        OBVIOUS
      <3>2. e \in Nat /\ d \in Nat /\ d <= e /\ e <= Cardinality(Request)
        BY <3>1, CountsNat
      <3>3. /\ counter[i].count \in Nat /\ counter[i].locked \in BOOLEAN /\ guesses[i] \in Nat
            /\ Within(counter[i].count, guesses[i], counter[i].locked, e, d)
        BY <2>1, <3>1, CounterIs DEF Tally
      <3>. QED BY <3>2, <3>3, WithinBound
    <2>3. ASSUME NEW c \in Code, code[c] # None
          PROVE  code[c].attempts <= MaxAttempts + Cardinality(Request) - 1
      <3>1. code[c].attempts \in Nat
        BY <2>1, <2>3 DEF IInv, Types, CodeRecord
      <3>2. Wrong(tx, c) \in SUBSET Request
        BY DEF Wrong
      <3>3. Cardinality(Wrong(tx, c)) \in Nat
        BY <3>2, RequestsFinite, FS_Subset, FS_CardinalityType
      <3>4. code[c].attempts + Cardinality(Wrong(tx, c)) + 1 <= MaxAttempts + Cardinality(Request)
        BY <2>1, <2>3 DEF Tallies, Tried
      <3>5. MaxAttempts \in Nat /\ Cardinality(Request) \in Nat
        BY LimitsNat, RequestsFinite, FS_CardinalityType
      <3>. QED BY <3>1, <3>3, <3>4, <3>5
    <2>. QED BY <2>2, <2>3 DEF GuessesBounded
  <1>. QED BY <1>1, <1>2, <1>3, Invariant, PTL DEF Spec

LEMMA LapsesStep ==
  ASSUME lapses \in 0..MaxLapses, [Next]_vars
  PROVE  lapses' \in 0..MaxLapses
  <1>1. ASSUME NEW i \in Ident, Lapse(i) PROVE lapses' \in 0..MaxLapses
    BY <1>1, MaxLapsesNat DEF Lapse
  <1>2. ASSUME NEW r \in Request, NEW p \in Phone, Send(r, p) \/ Verify(r, p)
        PROVE  UNCHANGED lapses
    BY <1>2 DEF Send, Verify, SendLoginOtp, SendRegisterOtp, SendPhoneVerification,
                VerifyLoginOtp, VerifyRegisterOtp, VerifyPhone, Begin, lockout
  <1>3. ASSUME NEW r \in Request,
               \/ Register(r) \/ LoginWithIdentity(r) \/ RegisterWithIdentity(r)
               \/ SendEmailVerification(r) \/ VerifyEmail(r) \/ LoginWithEmail(r)
        PROVE  UNCHANGED lapses
    BY <1>3 DEF Register, LoginWithIdentity, RegisterWithIdentity, SendEmailVerification,
                VerifyEmail, LoginWithEmail, Begin, lockout
  <1>4. ASSUME NEW r \in Request, CodeStep(r) \/ EnrolStep(r) \/ MailStep(r)
        PROVE  UNCHANGED lapses
    BY <1>4 DEF CodeStep, FindOwner, CheckCooldown, CreateOtp, FindOtp, IncrementAttempts,
                ConsumeOtp, SetPhone, EnrolStep, EnsureUnique, FindLink, FindHolder, CreateUser,
                LinkIdentity, MailStep, CreateLetter, MarkEmailVerified, lockout
  <1>5. ASSUME NEW r \in Request, LoginStep(r) \/ Commit(r) \/ Abort(r)
        PROVE  UNCHANGED lapses
    BY <1>5 DEF LoginStep, AssertLoginAllowed, ComparePassword, ReadAttempt, RecordFailure,
                ClearFailures, Commit, Abort, lockout
  <1>6. ASSUME NEW c \in Code, Age(c) PROVE UNCHANGED lapses
    BY <1>6 DEF Age, lockout
  <1>7. CASE UNCHANGED vars
    BY <1>7 DEF vars
  <1>. QED BY <1>1, <1>2, <1>3, <1>4, <1>5, <1>6, <1>7 DEF Next

\* The tables hold their columns' values, no row or key is held by two requests, and no
\* failure of an address or of an IP is missing from its count.
THEOREM TypeCorrect == Spec => []TypeOK
  <1>1. Init => Tallies /\ lapses \in 0..MaxLapses
    BY InitTallies, MaxLapsesNat DEF Init
  <1>2. IInv /\ IInv' /\ Tallies /\ [Next]_vars => Tallies'
    BY NextTallies
  <1>3. lapses \in 0..MaxLapses /\ [Next]_vars => (lapses \in 0..MaxLapses)'
    BY LapsesStep
  <1>4. IInv /\ Tallies /\ lapses \in 0..MaxLapses => TypeOK
    BY DEF IInv, Types, Counters, RowsApart, Tallies, Tally, Within, TypeOK
  <1>. QED BY <1>1, <1>2, <1>3, <1>4, Invariant, PTL DEF Spec
=============================================================================
