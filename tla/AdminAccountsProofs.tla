-------------------------- MODULE AdminAccountsProofs --------------------------
(***************************************************************************)
(* Proofs about AdminAccounts, for any admins, codes, tokens and requests. *)
(***************************************************************************)
EXTENDS AdminAccounts, FiniteSetTheorems, TLAPS

-----------------------------------------------------------------------------
(* The invariant                                                           *)

OpName == {"idle", "login", "refresh", "logout", "beginMfa", "confirmMfa", "changePassword",
           "bootstrap", "create", "setStatus"}
PcName == {"idle", "find", "code", "failed", "success", "throw", "token", "owner", "rotate",
           "reuse", "revokeReused", "revokeAll", "revokeSessions", "read", "write", "replace",
           "replaceCodes", "insert", "status", "commit"}
RowName == {"admin", "batch", "session"} \X (Admin \cup Session \cup Batch \cup {None})
TxRecord ==
  [op : OpName, pc : PcName, who : Admin \cup {None}, token : Session \cup {None},
   batch : Batch \cup {None}, key : Nat \cup {None},
   status : {"ACTIVE", "SUSPENDED", "LOCKED"} \cup {None},
   seen : Row, new : Row, targets : SUBSET RowName, rows : SUBSET RowName]
SessionRecord == [owner : Admin, state : {"active", "revoked", "expired"}]
BatchRecord   == [owner : Admin, used : BOOLEAN]

Types ==
  /\ admin \in [Admin -> Row]
  /\ batch \in [Batch -> BatchRecord \cup {None}]
  /\ session \in [Session -> SessionRecord \cup {None}]
  /\ entered \in [Batch -> Nat]
  /\ keys \in 0..MaxKey
  /\ tx \in [Request -> TxRecord]

\* A request works for an admin, and the codes and tokens that it names exist.
Works(t) ==
  /\ IF t.pc = "idle" THEN t.rows = {} ELSE t.who \in Admin
  /\ t.token # None => session[t.token] # None
  /\ t.pc \in {"token", "owner", "rotate"} => t.token # None
  /\ t.pc = "status" => t.op = "setStatus" /\ t.status \in {"ACTIVE", "SUSPENDED", "LOCKED"}
  /\ \A x \in t.targets : x[1] # "admin"
  /\ \A b \in Batch : BatchRow(b) \in t.rows \cup t.targets => batch[b] # None
  /\ \A s \in Session : SessionRow(s) \in t.rows \cup t.targets => session[s] # None

\* The row of an admin that a request has written keeps a suspension that is in the
\* table, unless suspensions are the request's business or it will be rolled back, and
\* has a proven secret.
Writes(t) ==
  /\ AdminRow(t.who) \in t.rows =>
       /\ t.new.mfa => t.new.secret \in proven
       /\ admin[t.who].status = "SUSPENDED" /\ t.op # "setStatus" /\ t.pc # "throw"
            => t.new.status = "SUSPENDED"
  /\ t.op = "confirmMfa" /\ t.pc = "write" => t.seen.secret \in proven

\* A sign-in by a recovery code that is about to succeed holds that code, unused.
Enters(t) ==
  t.batch # None =>
    /\ t.pc \in {"code", "failed", "throw", "success", "commit"}
    /\ t.pc \in {"success", "commit"} =>
         /\ BatchRow(t.batch) \in t.rows
         /\ batch[t.batch] # None /\ ~batch[t.batch].used

RequestInv(t) == Works(t) /\ Writes(t) /\ Enters(t)

Counted ==
  \A b \in Batch : \/ entered[b] = 0
                   \/ entered[b] = 1 /\ batch[b] # None /\ batch[b].used

RowsApart == \A q, r \in Request : q # r => tx[q].rows \cap tx[r].rows = {}

IInv ==
  /\ Types /\ Counted /\ RowsApart /\ MfaProven
  /\ \A r \in Request : RequestInv(tx[r])

-----------------------------------------------------------------------------
(* Steps that only change what one request is about                        *)

LEMMA IdleTyped == NoAdmin \in Row /\ Idle \in TxRecord
  <1>1. NoAdmin \in Row
    BY DEF NoAdmin, Row
  <1>. QED BY <1>1 DEF Idle, TxRecord, OpName, PcName

LEMMA MoveInv ==
  ASSUME IInv, NEW r \in Request, NEW t \in TxRecord, tx' = [tx EXCEPT ![r] = t],
         UNCHANGED <<admin, batch, session, entered>>,
         keys' \in 0..MaxKey, proven \subseteq proven',
         \A q \in Request \ {r} : tx[q].rows \cap t.rows = {},
         RequestInv(t)'
  PROVE  IInv'
  <1>1. /\ tx' \in [Request -> TxRecord] /\ tx'[r] = t
        /\ \A q \in Request \ {r} : tx'[q] = tx[q]
    BY DEF IInv, Types
  <1>2. Types'
    BY <1>1 DEF IInv, Types
  <1>3. Counted' /\ MfaProven'
    BY DEF IInv, Counted, MfaProven
  <1>4. RowsApart'
    BY <1>1 DEF IInv, RowsApart
  <1>5. ASSUME NEW q \in Request PROVE RequestInv(tx[q])'
    <2>1. CASE q = r
      BY <1>1, <2>1 DEF RequestInv, Works, Writes, Enters
    <2>2. CASE q # r
      <3>1. RequestInv(tx[q]) /\ tx'[q] = tx[q]
        BY <1>1, <2>2 DEF IInv
      <3>. QED BY <3>1 DEF RequestInv, Works, Writes, Enters
    <2>. QED BY <2>1, <2>2
  <1>. QED BY <1>2, <1>3, <1>4, <1>5 DEF IInv

\* What the statements of a request leave alone.
Agrees(t, u) ==
  /\ t.op = u.op /\ t.who = u.who /\ t.token = u.token /\ t.key = u.key
  /\ t.status = u.status /\ t.batch = u.batch

LEMMA GotoIs ==
  ASSUME Types, NEW r \in Request, NEW pc \in PcName, Goto(r, pc)
  PROVE  \E t \in TxRecord :
           /\ tx' = [tx EXCEPT ![r] = t] /\ Agrees(t, tx[r]) /\ t.pc = pc
           /\ t.seen = tx[r].seen /\ t.new = tx[r].new
           /\ t.targets = tx[r].targets /\ t.rows = tx[r].rows
  <1>1. tx[r] \in TxRecord
    BY DEF Types
  <1>2. PICK t : t = [tx[r] EXCEPT !.pc = pc]
    OBVIOUS
  <1>3. tx' = [tx EXCEPT ![r] = t]
    BY <1>2 DEF Goto
  <1>4. t \in TxRecord
    BY <1>1, <1>2 DEF TxRecord
  <1>5. /\ Agrees(t, tx[r]) /\ t.pc = pc /\ t.seen = tx[r].seen /\ t.new = tx[r].new
        /\ t.targets = tx[r].targets /\ t.rows = tx[r].rows
    BY <1>1, <1>2 DEF TxRecord, Agrees
  <1>. QED BY <1>3, <1>4, <1>5

LEMMA WriteIs ==
  ASSUME Types, NEW r \in Request, NEW pc \in PcName, NEW rows \in SUBSET RowName,
         Write(r, rows, pc)
  PROVE  \E t \in TxRecord :
           /\ tx' = [tx EXCEPT ![r] = t] /\ Agrees(t, tx[r]) /\ t.pc = pc
           /\ t.seen = tx[r].seen /\ t.new = tx[r].new
           /\ t.targets = tx[r].targets /\ t.rows = tx[r].rows \cup rows
  <1>1. tx[r] \in TxRecord
    BY DEF Types
  <1>2. PICK t : t = [tx[r] EXCEPT !.rows = tx[r].rows \cup rows, !.pc = pc]
    OBVIOUS
  <1>3. tx' = [tx EXCEPT ![r] = t]
    BY <1>2 DEF Write
  <1>4. t \in TxRecord
    BY <1>1, <1>2 DEF TxRecord
  <1>5. /\ Agrees(t, tx[r]) /\ t.pc = pc /\ t.seen = tx[r].seen /\ t.new = tx[r].new
        /\ t.targets = tx[r].targets /\ t.rows = tx[r].rows \cup rows
    BY <1>1, <1>2 DEF TxRecord, Agrees
  <1>. QED BY <1>3, <1>4, <1>5

LEMMA UpdateIs ==
  ASSUME Types, NEW r \in Request, NEW pc \in PcName, NEW row \in Row, Update(r, row, pc),
         tx[r].who \in Admin
  PROVE  \E t \in TxRecord :
           /\ tx' = [tx EXCEPT ![r] = t] /\ Agrees(t, tx[r]) /\ t.pc = pc
           /\ t.seen = tx[r].seen /\ t.new = row
           /\ t.targets = tx[r].targets
           /\ t.rows = tx[r].rows \cup {AdminRow(tx[r].who)}
  <1>1. tx[r] \in TxRecord
    BY DEF Types
  <1>2. PICK t : t = [tx[r] EXCEPT !.rows = tx[r].rows \cup {AdminRow(tx[r].who)},
                                   !.new = row, !.pc = pc]
    OBVIOUS
  <1>3. tx' = [tx EXCEPT ![r] = t]
    BY <1>2 DEF Update
  <1>4. AdminRow(tx[r].who) \in RowName
    BY DEF AdminRow, RowName
  <1>5. t \in TxRecord
    BY <1>1, <1>2, <1>4 DEF TxRecord
  <1>6. /\ Agrees(t, tx[r]) /\ t.pc = pc /\ t.seen = tx[r].seen /\ t.new = row
        /\ t.targets = tx[r].targets /\ t.rows = tx[r].rows \cup {AdminRow(tx[r].who)}
    BY <1>1, <1>2 DEF TxRecord, Agrees
  <1>. QED BY <1>3, <1>5, <1>6

-----------------------------------------------------------------------------
(* One kind of step after the other                                        *)

LEMMA EndInv ==
  ASSUME IInv, NEW r \in Request, End(r),
         UNCHANGED <<admin, batch, session, entered, keys>>, proven \subseteq proven'
  PROVE  IInv'
  <1>1. PICK t : t = Idle
    OBVIOUS
  <1>2. t \in TxRecord /\ tx' = [tx EXCEPT ![r] = t]
    BY <1>1, IdleTyped DEF End
  <1>3. /\ t.pc = "idle" /\ t.op = "idle" /\ t.token = None /\ t.batch = None
        /\ t.rows = {} /\ t.targets = {}
    BY <1>1 DEF Idle
  <1>4. RequestInv(t)'
    BY <1>3 DEF RequestInv, Works, Writes, Enters
  <1>5. keys' \in 0..MaxKey
    BY DEF IInv, Types
  <1>. QED BY <1>2, <1>3, <1>4, <1>5, MoveInv

LEMMA BeginInv ==
  ASSUME IInv, NEW r \in Request, NEW t \in TxRecord, Begin(r, t),
         t.rows = {}, t.targets = {}, t.batch = None, t.who \in Admin,
         t.pc \notin {"idle", "write"},
         t.token # None => session[t.token] # None,
         t.pc \in {"token", "owner", "rotate"} => t.token # None,
         t.pc = "status" => t.op = "setStatus" /\ t.status \in {"ACTIVE", "SUSPENDED", "LOCKED"}
  PROVE  IInv'
  <1>1. /\ tx' = [tx EXCEPT ![r] = t]
        /\ UNCHANGED <<admin, batch, session, entered, keys, proven>>
    BY DEF Begin, tables, history
  <1>2. RequestInv(t)'
    BY <1>1 DEF RequestInv, Works, Writes, Enters
  <1>3. keys' \in 0..MaxKey
    BY <1>1 DEF IInv, Types
  <1>. QED BY <1>1, <1>2, <1>3, MoveInv

LEMMA GotoInv ==
  ASSUME IInv, NEW r \in Request, NEW pc \in PcName, Goto(r, pc),
         UNCHANGED <<admin, batch, session, entered, keys, proven>>,
         tx[r].pc \notin {"idle", "throw"}, pc \notin {"idle", "success", "commit", "status"},
         tx[r].batch # None => pc \in {"code", "failed", "throw"},
         pc \in {"token", "owner", "rotate"} => tx[r].token # None,
         pc = "write" => tx[r].op # "confirmMfa"
  PROVE  IInv'
  <1>1. PICK t \in TxRecord :
          /\ tx' = [tx EXCEPT ![r] = t] /\ Agrees(t, tx[r]) /\ t.pc = pc
          /\ t.seen = tx[r].seen /\ t.new = tx[r].new
          /\ t.targets = tx[r].targets /\ t.rows = tx[r].rows
    BY GotoIs DEF IInv
  <1>2. RequestInv(tx[r])
    BY DEF IInv
  <1>3. Works(t)' /\ Writes(t)' /\ Enters(t)'
    BY <1>1, <1>2 DEF RequestInv, Works, Writes, Enters, Agrees
  <1>4. \A q \in Request \ {r} : tx[q].rows \cap t.rows = {}
    BY <1>1 DEF IInv, RowsApart
  <1>5. keys' \in 0..MaxKey
    BY DEF IInv, Types
  <1>. QED BY <1>1, <1>3, <1>4, <1>5, MoveInv DEF RequestInv

\* A statement that writes codes or tokens.
LEMMA WriteInv ==
  ASSUME IInv, NEW r \in Request, NEW pc \in {"success", "commit", "throw"},
         NEW rows \in SUBSET RowName, Write(r, rows, pc),
         UNCHANGED <<admin, batch, session, entered, keys, proven>>,
         tx[r].pc \notin {"idle", "throw"},
         \A x \in rows : x[1] # "admin",
         \A b \in Batch : BatchRow(b) \in rows => batch[b] # None,
         \A s \in Session : SessionRow(s) \in rows => session[s] # None,
         tx[r].batch # None => /\ BatchRow(tx[r].batch) \in rows
                               /\ batch[tx[r].batch] # None /\ ~batch[tx[r].batch].used
  PROVE  IInv'
  <1>1. PICK t \in TxRecord :
          /\ tx' = [tx EXCEPT ![r] = t] /\ Agrees(t, tx[r]) /\ t.pc = pc
          /\ t.seen = tx[r].seen /\ t.new = tx[r].new
          /\ t.targets = tx[r].targets /\ t.rows = tx[r].rows \cup rows
    BY WriteIs DEF IInv, PcName
  <1>2. RequestInv(tx[r])
    BY DEF IInv
  <1>3. Works(t)'
    BY <1>1, <1>2 DEF RequestInv, Works, Agrees
  <1>4. AdminRow(t.who) \notin rows
    BY DEF AdminRow
  <1>5. Writes(t)'
    BY <1>1, <1>2, <1>4 DEF RequestInv, Writes, Agrees
  <1>6. Enters(t)'
    BY <1>1, <1>2 DEF RequestInv, Enters, Agrees
  <1>7. \A q \in Request \ {r} : tx[q].rows \cap t.rows = {}
    BY <1>1 DEF IInv, RowsApart, Write, Free
  <1>8. keys' \in 0..MaxKey
    BY DEF IInv, Types
  <1>. QED BY <1>1, <1>3, <1>5, <1>6, <1>7, <1>8, MoveInv DEF RequestInv

\* A statement that writes the row of the admin.
LEMMA UpdateInv ==
  ASSUME IInv, NEW r \in Request, NEW pc \in {"throw", "commit", "replace", "revokeAll"},
         NEW row \in Row, Update(r, row, pc),
         UNCHANGED <<admin, batch, session, entered>>,
         keys' \in 0..MaxKey, proven \subseteq proven',
         tx[r].pc # "idle",
         row.mfa => row.secret \in proven',
         admin[tx[r].who].status = "SUSPENDED" /\ tx[r].op # "setStatus" /\ pc # "throw"
           => row.status = "SUSPENDED",
         tx[r].batch # None => pc = "throw" \/ (pc = "commit" /\ tx[r].pc = "success")
  PROVE  IInv'
  <1>1. RequestInv(tx[r]) /\ tx[r].who \in Admin
    BY DEF IInv, RequestInv, Works
  <1>2. PICK t \in TxRecord :
          /\ tx' = [tx EXCEPT ![r] = t] /\ Agrees(t, tx[r]) /\ t.pc = pc
          /\ t.seen = tx[r].seen /\ t.new = row
          /\ t.targets = tx[r].targets
          /\ t.rows = tx[r].rows \cup {AdminRow(tx[r].who)}
    BY <1>1, UpdateIs DEF IInv, PcName
  <1>3. /\ \A b \in Batch : BatchRow(b) # AdminRow(tx[r].who)
        /\ \A s \in Session : SessionRow(s) # AdminRow(tx[r].who)
    BY DEF AdminRow, BatchRow, SessionRow
  <1>4. Works(t)'
    BY <1>1, <1>2, <1>3 DEF RequestInv, Works, Agrees
  <1>5. Writes(t)'
    BY <1>1, <1>2 DEF Writes, Agrees
  <1>6. Enters(t)'
    BY <1>1, <1>2 DEF RequestInv, Enters, Agrees
  <1>7. \A q \in Request \ {r} : tx[q].rows \cap t.rows = {}
    BY <1>2 DEF IInv, RowsApart, Update, Free
  <1>. QED BY <1>2, <1>4, <1>5, <1>6, <1>7, MoveInv DEF RequestInv

-----------------------------------------------------------------------------
(* Requests begin                                                          *)

\* What Idle is, field by field.
LEMMA IdleIs ==
  /\ Idle \in TxRecord
  /\ Idle.token = None /\ Idle.batch = None /\ Idle.rows = {} /\ Idle.targets = {}
  BY IdleTyped DEF Idle

LEMMA StartInv ==
  ASSUME IInv, NEW r \in Request, Start(r)
  PROVE  IInv'
  <1>1. ASSUME NEW op \in OpName, NEW pc \in {"find", "read", "insert"}, NEW a \in Admin,
               Begin(r, [Idle EXCEPT !.op = op, !.pc = pc, !.who = a])
        PROVE  IInv'
    <2>1. PICK t : t = [Idle EXCEPT !.op = op, !.pc = pc, !.who = a]
      OBVIOUS
    <2>2. pc \in PcName
      BY DEF PcName
    <2>3. t \in TxRecord
      BY <2>1, <2>2, IdleIs DEF TxRecord
    <2>4. /\ t.pc = pc /\ t.who = a /\ t.token = None
          /\ t.batch = None /\ t.rows = {} /\ t.targets = {}
      BY <2>1, IdleIs DEF TxRecord
    <2>5. Begin(r, t)
      BY <1>1, <2>1
    <2>. QED BY <2>3, <2>4, <2>5, BeginInv
  <1>2. ASSUME NEW op \in OpName, NEW pc \in {"token", "rotate"}, NEW s \in Session,
               session[s] # None,
               Begin(r, [Idle EXCEPT !.op = op, !.pc = pc, !.token = s, !.who = session[s].owner])
        PROVE  IInv'
    <2>1. session[s].owner \in Admin /\ s # None
      BY <1>2, NoneIsNothing DEF IInv, Types, SessionRecord
    <2>2. PICK t : t = [Idle EXCEPT !.op = op, !.pc = pc, !.token = s, !.who = session[s].owner]
      OBVIOUS
    <2>3. pc \in PcName
      BY DEF PcName
    <2>4. t \in TxRecord
      BY <2>1, <2>2, <2>3, IdleIs DEF TxRecord
    <2>5. /\ t.pc = pc /\ t.who \in Admin /\ t.token = s
          /\ t.batch = None /\ t.rows = {} /\ t.targets = {}
      BY <2>1, <2>2, IdleIs DEF TxRecord
    <2>6. Begin(r, t)
      BY <1>2, <2>2
    <2>. QED BY <1>2, <2>1, <2>4, <2>5, <2>6, BeginInv
  <1>3. CASE LoginAdmin(r) \/ BeginMfaSetup(r) \/ ChangePassword(r) \/ BootstrapMfa(r)
             \/ CreateSubAdmin(r)
    BY <1>1, <1>3 DEF LoginAdmin, BeginMfaSetup, ChangePassword, BootstrapMfa, CreateSubAdmin,
                      OpName
  <1>4. CASE RefreshAdminSession(r) \/ LogoutAdmin(r)
    BY <1>2, <1>4 DEF RefreshAdminSession, LogoutAdmin, OpName
  <1>5. CASE ConfirmMfaSetup(r)
    <2>1. PICK a \in Admin, k \in 1..keys :
            Begin(r, [Idle EXCEPT !.op = "confirmMfa", !.pc = "read", !.who = a, !.key = k])
      BY <1>5 DEF ConfirmMfaSetup
    <2>2. k \in Nat /\ "confirmMfa" \in OpName /\ "read" \in PcName
      BY LimitsNat DEF IInv, Types, OpName, PcName
    <2>3. PICK t : t = [Idle EXCEPT !.op = "confirmMfa", !.pc = "read", !.who = a, !.key = k]
      OBVIOUS
    <2>4. t \in TxRecord
      BY <2>2, <2>3, IdleIs DEF TxRecord
    <2>5. /\ t.pc = "read" /\ t.who = a /\ t.token = None
          /\ t.batch = None /\ t.rows = {} /\ t.targets = {}
      BY <2>3, IdleIs DEF TxRecord
    <2>6. Begin(r, t)
      BY <2>1, <2>3
    <2>. QED BY <2>4, <2>5, <2>6, BeginInv
  <1>6. CASE UpdateSubAdminStatus(r)
    <2>1. PICK a \in Admin, status \in {"ACTIVE", "SUSPENDED", "LOCKED"} :
            Begin(r, [Idle EXCEPT !.op = "setStatus", !.pc = "status", !.who = a, !.status = status])
      BY <1>6 DEF UpdateSubAdminStatus
    <2>2. "setStatus" \in OpName /\ "status" \in PcName
      BY DEF OpName, PcName
    <2>3. PICK t : t = [Idle EXCEPT !.op = "setStatus", !.pc = "status", !.who = a,
                                    !.status = status]
      OBVIOUS
    <2>4. t \in TxRecord
      BY <2>2, <2>3, IdleIs DEF TxRecord
    <2>5. /\ t.op = "setStatus" /\ t.pc = "status" /\ t.who = a /\ t.token = None
          /\ t.status = status /\ t.batch = None /\ t.rows = {} /\ t.targets = {}
      BY <2>3, IdleIs DEF TxRecord
    <2>6. Begin(r, t)
      BY <2>1, <2>3
    <2>. QED BY <2>4, <2>5, <2>6, BeginInv
  <1>. QED BY <1>3, <1>4, <1>5, <1>6 DEF Start

-----------------------------------------------------------------------------
(* Statements that judge what they read                                    *)

\* The row that a request works on, and what it means to be at a statement.
LEMMA AtIs ==
  ASSUME IInv, NEW r \in Request, tx[r].pc # "idle"
  PROVE  /\ tx[r].who \in Admin /\ admin[tx[r].who] \in Row
         /\ admin[tx[r].who].mfa => admin[tx[r].who].secret \in proven
         /\ tx[r].pc \notin {"code", "failed", "throw", "success", "commit"} => tx[r].batch = None
         /\ RequestInv(tx[r]) /\ tx[r] \in TxRecord
  <1>1. RequestInv(tx[r]) /\ tx[r] \in TxRecord
    BY DEF IInv, Types
  <1>. QED BY <1>1 DEF IInv, Types, MfaProven, RequestInv, Works, Enters

LEMMA FindAdminInv ==
  ASSUME IInv, NEW r \in Request, FindAdmin(r)
  PROVE  IInv'
  <1>1. /\ tx[r].pc = "find"
        /\ UNCHANGED <<admin, batch, session, entered, keys, proven>>
    BY DEF FindAdmin, At, tables, history
  <1>2. tx[r].batch = None /\ RequestInv(tx[r]) /\ tx[r] \in TxRecord
    BY <1>1, AtIs
  <1>3. CASE End(r)
    BY <1>1, <1>3, EndInv
  <1>4. ASSUME NEW pc \in {"failed", "code", "success"}, NEW b \in Batch \cup {None},
               pc # "code" => b = None,
               tx' = [tx EXCEPT ![r].pc = pc, ![r].batch = b]
        PROVE  IInv'
    <2>1. PICK t : t = [tx[r] EXCEPT !.pc = pc, !.batch = b]
      OBVIOUS
    <2>2. tx' = [tx EXCEPT ![r] = t]
      BY <1>4, <2>1
    <2>3. pc \in PcName
      BY DEF PcName
    <2>4. t \in TxRecord
      BY <1>2, <2>1, <2>3 DEF TxRecord
    <2>5. /\ t.pc = pc /\ t.batch = b /\ t.op = tx[r].op /\ t.who = tx[r].who
          /\ t.token = tx[r].token /\ t.new = tx[r].new
          /\ t.rows = tx[r].rows /\ t.targets = tx[r].targets
      BY <1>2, <2>1 DEF TxRecord
    <2>6. RequestInv(t)'
      BY <1>1, <1>2, <1>4, <2>5 DEF RequestInv, Works, Writes, Enters
    <2>7. \A q \in Request \ {r} : tx[q].rows \cap t.rows = {}
      BY <2>5 DEF IInv, RowsApart
    <2>8. keys' \in 0..MaxKey
      BY <1>1 DEF IInv, Types
    <2>. QED BY <1>1, <2>2, <2>4, <2>6, <2>7, <2>8, MoveInv
  <1>5. PICK pc \in Outcomes(admin[tx[r].who]) :
          IF pc = "refuse" THEN End(r)
          ELSE \E b \in IF pc = "code" THEN Batch ELSE {None} :
                 tx' = [tx EXCEPT ![r].pc = pc, ![r].batch = b]
    BY DEF FindAdmin
  <1>6. pc \in {"refuse", "failed", "code", "success"}
    BY DEF Outcomes
  <1>. QED BY <1>3, <1>4, <1>5, <1>6

LEMMA ConsumeInv ==
  ASSUME IInv, NEW r \in Request, ConsumeRecoveryCode(r)
  PROVE  IInv'
  <1>1. /\ tx[r].pc = "code"
        /\ UNCHANGED <<admin, batch, session, entered, keys, proven>>
    BY DEF ConsumeRecoveryCode, At, tables, history
  <1>2. PICK b : b = tx[r].batch
    OBVIOUS
  <1>3. CASE b \in OpenCodes(tx[r].who)
    <2>1. Write(r, {BatchRow(b)}, "success")
      BY <1>2, <1>3 DEF ConsumeRecoveryCode
    <2>2. b \in Batch /\ batch[b] # None /\ ~batch[b].used
      BY <1>3 DEF OpenCodes
    <2>3. {BatchRow(b)} \in SUBSET RowName
      BY <2>2 DEF BatchRow, RowName
    <2>4. /\ \A x \in {BatchRow(b)} : x[1] # "admin"
          /\ \A c \in Batch : BatchRow(c) \in {BatchRow(b)} => batch[c] # None
          /\ \A s \in Session : SessionRow(s) \notin {BatchRow(b)}
      BY <2>2 DEF BatchRow, SessionRow
    <2>. QED BY <1>1, <1>2, <2>1, <2>2, <2>3, <2>4, WriteInv
  <1>4. CASE b \notin OpenCodes(tx[r].who)
    <2>1. Goto(r, "failed")
      BY <1>2, <1>4 DEF ConsumeRecoveryCode
    <2>2. "failed" \in PcName
      BY DEF PcName
    <2>. QED BY <1>1, <2>1, <2>2, GotoInv
  <1>. QED BY <1>3, <1>4

LEMMA TokenInv ==
  ASSUME IInv, NEW r \in Request, FindSession(r) \/ FindOwner(r)
  PROVE  IInv'
  <1>1. /\ tx[r].pc \in {"token", "owner"}
        /\ UNCHANGED <<admin, batch, session, entered, keys, proven>>
        /\ End(r) \/ \E pc \in {"owner", "rotate", "reuse"} : Goto(r, pc)
    BY DEF FindSession, FindOwner, At, tables, history
  <1>2. tx[r].batch = None /\ RequestInv(tx[r])
    BY <1>1, AtIs
  <1>3. tx[r].token # None
    BY <1>1, <1>2 DEF RequestInv, Works
  <1>4. ASSUME NEW pc \in {"owner", "rotate", "reuse"}, Goto(r, pc) PROVE IInv'
    <2>1. pc \in PcName
      BY DEF PcName
    <2>. QED BY <1>1, <1>2, <1>3, <1>4, <2>1, GotoInv
  <1>. QED BY <1>1, <1>4, EndInv

LEMMA ReadOwnInv ==
  ASSUME IInv, NEW r \in Request, ReadOwn(r)
  PROVE  IInv'
  <1>1. /\ tx[r].pc = "read"
        /\ UNCHANGED <<admin, batch, session, entered, keys>>
    BY DEF ReadOwn, At, tables
  <1>2. /\ tx[r].batch = None /\ RequestInv(tx[r]) /\ tx[r] \in TxRecord
        /\ tx[r].who \in Admin /\ admin[tx[r].who] \in Row
    BY <1>1, AtIs
  <1>3. CASE End(r) /\ UNCHANGED proven
    BY <1>1, <1>3, EndInv
  <1>4. CASE Goto(r, "write") /\ UNCHANGED proven /\ tx[r].op # "confirmMfa"
    <2>1. "write" \in PcName
      BY DEF PcName
    <2>. QED BY <1>1, <1>2, <1>4, <2>1, GotoInv
  <1>5. CASE /\ admin[tx[r].who].secret = tx[r].key
             /\ tx' = [tx EXCEPT ![r].pc = "write", ![r].seen = admin[tx[r].who]]
             /\ proven' = proven \cup {tx[r].key}
    <2>1. PICK t : t = [tx[r] EXCEPT !.pc = "write", !.seen = admin[tx[r].who]]
      OBVIOUS
    <2>2. tx' = [tx EXCEPT ![r] = t]
      BY <1>5, <2>1
    <2>3. t \in TxRecord
      BY <1>2, <2>1 DEF TxRecord, PcName
    <2>4. /\ t.pc = "write" /\ t.batch = None /\ t.op = tx[r].op /\ t.who = tx[r].who
          /\ t.seen = admin[tx[r].who] /\ t.token = tx[r].token /\ t.new = tx[r].new
          /\ t.rows = tx[r].rows /\ t.targets = tx[r].targets
      BY <1>2, <2>1 DEF TxRecord
    <2>5. t.seen.secret \in proven' /\ proven \subseteq proven'
      BY <1>5, <2>4
    <2>6. RequestInv(t)'
      BY <1>1, <1>2, <2>4, <2>5 DEF RequestInv, Works, Writes, Enters
    <2>7. \A q \in Request \ {r} : tx[q].rows \cap t.rows = {}
      BY <2>4 DEF IInv, RowsApart
    <2>8. keys' \in 0..MaxKey
      BY <1>1 DEF IInv, Types
    <2>. QED BY <1>1, <2>2, <2>3, <2>5, <2>6, <2>7, <2>8, MoveInv
  <1>. QED BY <1>3, <1>4, <1>5 DEF ReadOwn

-----------------------------------------------------------------------------
(* Statements that write                                                   *)

LEMMA LoginWriteInv ==
  ASSUME IInv, NEW r \in Request, RecordFailedLogin(r) \/ LoginSuccess(r)
  PROVE  IInv'
  <1>1. /\ tx[r].pc \in {"failed", "success"}
        /\ UNCHANGED <<admin, batch, session, entered, keys, proven>>
    BY DEF RecordFailedLogin, LoginSuccess, At, tables, history
  <1>2. PICK row : row = admin[tx[r].who]
    OBVIOUS
  <1>3. row \in Row /\ (row.mfa => row.secret \in proven)
    BY <1>1, <1>2, AtIs
  <1>4. keys' \in 0..MaxKey
    BY <1>1 DEF IInv, Types
  <1>5. CASE RecordFailedLogin(r)
    <2>1. PICK full \in BOOLEAN : full <=> row.failed + 1 >= MaxAttempts
      OBVIOUS
    <2>2. PICK status : status = IF full THEN "LOCKED" ELSE row.status
      OBVIOUS
    <2>3. PICK new : new = [row EXCEPT !.failed = row.failed + 1, !.locked = full \/ row.locked,
                                       !.status = status]
      OBVIOUS
    <2>4. status \in {"none", "ACTIVE", "SUSPENDED", "LOCKED"} /\ row.failed + 1 \in Nat
      BY <1>3, <2>2 DEF Row
    <2>5. new \in Row /\ new.mfa = row.mfa /\ new.secret = row.secret
      BY <1>3, <2>3, <2>4 DEF Row
    <2>6. Update(r, new, "throw")
      BY <1>2, <1>5, <2>1, <2>2, <2>3 DEF RecordFailedLogin
    <2>. QED BY <1>1, <1>3, <1>4, <2>5, <2>6, UpdateInv
  <1>6. CASE LoginSuccess(r)
    <2>1. PICK new : new = [row EXCEPT !.failed = 0, !.locked = FALSE, !.status = Unlocked(row)]
      OBVIOUS
    <2>2. /\ new \in Row /\ new.mfa = row.mfa /\ new.secret = row.secret
          /\ row.status = "SUSPENDED" => new.status = "SUSPENDED"
      BY <1>3, <2>1 DEF Row, Unlocked
    <2>3. Update(r, new, "commit") /\ tx[r].pc = "success"
      BY <1>2, <1>6, <2>1 DEF LoginSuccess, At
    <2>. QED BY <1>1, <1>2, <1>3, <1>4, <2>2, <2>3, UpdateInv
  <1>. QED BY <1>5, <1>6

LEMMA RevokeInv ==
  ASSUME IInv, NEW r \in Request, RevokeSession(r) \/ RevokeSessions(r) \/ ReplaceCodes(r)
  PROVE  IInv'
  <1>1. /\ tx[r].pc \in {"rotate", "revokeReused", "revokeSessions", "replaceCodes"}
        /\ UNCHANGED <<admin, batch, session, entered, keys, proven>>
    BY DEF RevokeSession, RevokeSessions, ReplaceCodes, At, tables, history
  <1>2. tx[r].batch = None /\ RequestInv(tx[r]) /\ tx[r] \in TxRecord
    BY <1>1, AtIs
  <1>3. CASE RevokeSession(r)
    <2>1. PICK s : s = tx[r].token
      OBVIOUS
    <2>2. Write(r, {SessionRow(s)}, "commit") /\ tx[r].pc = "rotate"
      BY <1>3, <2>1 DEF RevokeSession, At
    <2>3. s \in Session /\ session[s] # None
      BY <1>2, <2>1, <2>2 DEF RequestInv, Works, TxRecord
    <2>4. {SessionRow(s)} \in SUBSET RowName
      BY <2>3 DEF SessionRow, RowName
    <2>5. /\ \A x \in {SessionRow(s)} : x[1] # "admin"
          /\ \A b \in Batch : BatchRow(b) \notin {SessionRow(s)}
          /\ \A q \in Session : SessionRow(q) \in {SessionRow(s)} => session[q] # None
      BY <2>3 DEF BatchRow, SessionRow
    <2>. QED BY <1>1, <1>2, <2>2, <2>4, <2>5, WriteInv
  <1>4. ASSUME NEW pc \in {"commit", "throw"}, Write(r, tx[r].targets, pc) PROVE IInv'
    <2>1. tx[r].targets \in SUBSET RowName
      BY <1>2 DEF TxRecord
    <2>2. /\ \A x \in tx[r].targets : x[1] # "admin"
          /\ \A b \in Batch : BatchRow(b) \in tx[r].targets => batch[b] # None
          /\ \A s \in Session : SessionRow(s) \in tx[r].targets => session[s] # None
      BY <1>2 DEF RequestInv, Works
    <2>. QED BY <1>1, <1>2, <1>4, <2>1, <2>2, WriteInv
  <1>5. CASE RevokeSessions(r) \/ ReplaceCodes(r)
    BY <1>4, <1>5 DEF RevokeSessions, ReplaceCodes
  <1>. QED BY <1>3, <1>5

LEMMA SnapshotInv ==
  ASSUME IInv, NEW r \in Request, SnapshotSessions(r) \/ SnapshotCodes(r)
  PROVE  IInv'
  <1>1. /\ tx[r].pc \in {"reuse", "revokeAll", "replace"}
        /\ UNCHANGED <<admin, batch, session, entered, keys, proven>>
    BY DEF SnapshotSessions, SnapshotCodes, At, tables, history
  <1>2. tx[r].batch = None /\ RequestInv(tx[r]) /\ tx[r] \in TxRecord
    BY <1>1, AtIs
  <1>3. ASSUME NEW pc \in {"revokeReused", "revokeSessions", "replaceCodes"},
               NEW rows \in SUBSET RowName,
               tx' = [tx EXCEPT ![r] = [tx[r] EXCEPT !.pc = pc, !.targets = rows]],
               \A x \in rows : x[1] # "admin",
               \A b \in Batch : BatchRow(b) \in rows => batch[b] # None,
               \A s \in Session : SessionRow(s) \in rows => session[s] # None
        PROVE  IInv'
    <2>1. PICK t : t = [tx[r] EXCEPT !.pc = pc, !.targets = rows]
      OBVIOUS
    <2>2. pc \in PcName
      BY DEF PcName
    <2>3. t \in TxRecord
      BY <1>2, <2>1, <2>2 DEF TxRecord
    <2>4. /\ t.pc = pc /\ t.batch = None /\ t.op = tx[r].op /\ t.who = tx[r].who
          /\ t.token = tx[r].token /\ t.new = tx[r].new
          /\ t.rows = tx[r].rows /\ t.targets = rows
      BY <1>2, <2>1 DEF TxRecord
    <2>5. RequestInv(t)'
      BY <1>1, <1>2, <1>3, <2>4 DEF RequestInv, Works, Writes, Enters
    <2>6. \A q \in Request \ {r} : tx[q].rows \cap t.rows = {}
      BY <2>4 DEF IInv, RowsApart
    <2>7. keys' \in 0..MaxKey
      BY <1>1 DEF IInv, Types
    <2>. QED BY <1>1, <1>3, <2>1, <2>3, <2>5, <2>6, <2>7, MoveInv
  <1>4. CASE SnapshotSessions(r)
    <2>1. PICK rows : rows = {SessionRow(s) : s \in ActiveSessions(tx[r].who)}
      OBVIOUS
    <2>2. /\ rows \in SUBSET RowName
          /\ \A x \in rows : x[1] # "admin"
          /\ \A b \in Batch : BatchRow(b) \notin rows
          /\ \A s \in Session : SessionRow(s) \in rows => session[s] # None
      BY <2>1 DEF ActiveSessions, SessionRow, BatchRow, RowName
    <2>3. PICK pc \in {"revokeReused", "revokeSessions"} :
            pc = IF tx[r].pc = "reuse" THEN "revokeReused" ELSE "revokeSessions"
      OBVIOUS
    <2>4. tx' = [tx EXCEPT ![r] = [tx[r] EXCEPT !.pc = pc, !.targets = rows]]
      BY <1>4, <2>1, <2>3 DEF SnapshotSessions
    <2>. QED BY <1>3, <2>2, <2>4
  <1>5. CASE SnapshotCodes(r)
    <2>1. PICK rows : rows = {BatchRow(b) : b \in OpenCodes(tx[r].who)}
      OBVIOUS
    <2>2. /\ rows \in SUBSET RowName
          /\ \A x \in rows : x[1] # "admin"
          /\ \A b \in Batch : BatchRow(b) \in rows => batch[b] # None
          /\ \A s \in Session : SessionRow(s) \notin rows
      BY <2>1 DEF OpenCodes, SessionRow, BatchRow, RowName
    <2>3. tx' = [tx EXCEPT ![r] = [tx[r] EXCEPT !.pc = "replaceCodes", !.targets = rows]]
      BY <1>5, <2>1 DEF SnapshotCodes
    <2>. QED BY <1>3, <2>2, <2>3
  <1>. QED BY <1>4, <1>5

LEMMA OwnWriteInv ==
  ASSUME IInv, NEW r \in Request, SetSecret(r) \/ EnableMfa(r) \/ UpdatePassword(r)
  PROVE  IInv'
  <1>1. /\ tx[r].pc = "write"
        /\ UNCHANGED <<admin, batch, session, entered>>
    BY DEF SetSecret, EnableMfa, UpdatePassword, At, tables, history
  <1>2. PICK row : row = admin[tx[r].who]
    OBVIOUS
  <1>3. /\ row \in Row /\ (row.mfa => row.secret \in proven)
        /\ tx[r].batch = None /\ RequestInv(tx[r]) /\ tx[r] \in TxRecord
    BY <1>1, <1>2, AtIs
  <1>4. keys \in 0..MaxKey /\ keys \in Nat
    BY LimitsNat DEF IInv, Types
  <1>5. CASE SetSecret(r)
    <2>1. PICK boot \in BOOLEAN : boot <=> tx[r].op = "bootstrap"
      OBVIOUS
    <2>2. /\ keys' = keys + 1 /\ keys < MaxKey
          /\ proven' = IF boot THEN proven \cup {keys'} ELSE proven
      BY <1>5, <2>1 DEF SetSecret
    <2>3. keys' \in 0..MaxKey /\ keys' \in Key /\ proven \subseteq proven'
      BY <1>4, <2>2, LimitsNat DEF Key
    <2>4. PICK new : new = [row EXCEPT !.secret = keys', !.mfa = boot]
      OBVIOUS
    <2>5. /\ new \in Row /\ new.secret = keys' /\ (new.mfa => boot) /\ new.status = row.status
      BY <1>3, <2>3, <2>4 DEF Row
    <2>6. PICK pc \in {"replace", "commit"} : pc = IF boot THEN "replace" ELSE "commit"
      OBVIOUS
    <2>7. Update(r, new, pc)
      BY <1>2, <1>5, <2>1, <2>4, <2>6 DEF SetSecret
    <2>. QED BY <1>1, <1>2, <1>3, <2>2, <2>3, <2>5, <2>7, UpdateInv
  <1>6. CASE EnableMfa(r)
    <2>1. UNCHANGED <<keys, proven>> /\ tx[r].op = "confirmMfa"
      BY <1>6 DEF EnableMfa, history
    <2>2. PICK new : new = [row EXCEPT !.secret = tx[r].seen.secret, !.mfa = TRUE]
      OBVIOUS
    <2>3. tx[r].seen \in Row /\ tx[r].seen.secret \in proven
      BY <1>1, <1>3, <2>1 DEF RequestInv, Writes, TxRecord
    <2>4. new \in Row /\ new.secret \in proven /\ new.status = row.status
      BY <1>3, <2>2, <2>3 DEF Row
    <2>5. Update(r, new, "replace")
      BY <1>2, <1>6, <2>2 DEF EnableMfa
    <2>. QED BY <1>1, <1>2, <1>3, <1>4, <2>1, <2>4, <2>5, UpdateInv
  <1>7. CASE UpdatePassword(r)
    <2>1. UNCHANGED <<keys, proven>>
      BY <1>7 DEF UpdatePassword, history
    <2>2. PICK new : new = [row EXCEPT !.failed = 0, !.locked = FALSE, !.status = Unlocked(row)]
      OBVIOUS
    <2>3. /\ new \in Row /\ new.mfa = row.mfa /\ new.secret = row.secret
          /\ row.status = "SUSPENDED" => new.status = "SUSPENDED"
      BY <1>3, <2>2 DEF Row, Unlocked
    <2>4. Update(r, new, "revokeAll")
      BY <1>2, <1>7, <2>2 DEF UpdatePassword
    <2>. QED BY <1>1, <1>2, <1>3, <1>4, <2>1, <2>3, <2>4, UpdateInv
  <1>. QED BY <1>5, <1>6, <1>7

LEMMA StaffInv ==
  ASSUME IInv, NEW r \in Request, InsertAdmin(r) \/ SetStatus(r)
  PROVE  IInv'
  <1>1. /\ tx[r].pc \in {"insert", "status"}
        /\ UNCHANGED <<admin, batch, session, entered>>
    BY DEF InsertAdmin, SetStatus, At, tables, history
  <1>2. PICK row : row = admin[tx[r].who]
    OBVIOUS
  <1>3. /\ row \in Row /\ (row.mfa => row.secret \in proven)
        /\ tx[r].batch = None /\ RequestInv(tx[r])
    BY <1>1, <1>2, AtIs
  <1>4. keys \in 0..MaxKey /\ keys \in Nat
    BY LimitsNat DEF IInv, Types
  <1>5. CASE InsertAdmin(r)
    <2>1. CASE row.status # "none"
      BY <1>1, <1>2, <1>5, <2>1, EndInv DEF InsertAdmin
    <2>2. CASE row.status = "none"
      <3>1. /\ MfaRequired => keys < MaxKey
            /\ keys' = IF MfaRequired THEN keys + 1 ELSE keys
            /\ proven' = proven \cup {k \in Key : MfaRequired /\ k = keys'}
        BY <1>2, <1>5, <2>2 DEF InsertAdmin
      <3>2. keys' \in 0..MaxKey /\ proven \subseteq proven'
        BY <1>4, <3>1, LimitsNat, MfaPolicy
      <3>3. MfaRequired => keys' \in Key /\ keys' \in proven'
        BY <1>4, <3>1, LimitsNat DEF Key
      <3>4. PICK secret : secret = IF MfaRequired THEN keys' ELSE None
        OBVIOUS
      <3>5. PICK new : new = [NoAdmin EXCEPT !.status = "ACTIVE", !.mfa = MfaRequired,
                                             !.secret = secret]
        OBVIOUS
      <3>6. new \in Row /\ (new.mfa => new.secret \in proven')
        BY <3>3, <3>4, <3>5, IdleTyped, MfaPolicy DEF Row
      <3>7. Update(r, new, "commit")
        BY <1>2, <1>5, <2>2, <3>4, <3>5 DEF InsertAdmin
      <3>. QED BY <1>1, <1>2, <1>3, <2>2, <3>2, <3>6, <3>7, UpdateInv
    <2>. QED BY <2>1, <2>2
  <1>6. CASE SetStatus(r)
    <2>1. UNCHANGED <<keys, proven>> /\ tx[r].pc = "status"
      BY <1>6 DEF SetStatus, At, history
    <2>2. tx[r].op = "setStatus" /\ tx[r].status \in {"ACTIVE", "SUSPENDED", "LOCKED"}
      BY <1>3, <2>1 DEF RequestInv, Works
    <2>3. PICK new : new = [row EXCEPT !.status = tx[r].status,
                                       !.locked = row.locked /\ tx[r].status = "LOCKED"]
      OBVIOUS
    <2>4. new \in Row /\ new.mfa = row.mfa /\ new.secret = row.secret
      BY <1>3, <2>2, <2>3 DEF Row
    <2>5. Update(r, new, "commit")
      BY <1>2, <1>6, <2>3 DEF SetStatus
    <2>. QED BY <1>1, <1>3, <1>4, <2>1, <2>2, <2>4, <2>5, UpdateInv
  <1>. QED BY <1>5, <1>6

-----------------------------------------------------------------------------
(* COMMIT, and what happens without a request                              *)

\* A step that ends request r and writes only rows that it holds keeps what the others
\* know.
LEMMA OthersKeep ==
  ASSUME IInv, NEW r \in Request, NEW q \in Request \ {r},
         tx' = [tx EXCEPT ![r] = Idle], proven' = proven,
         \A a \in Admin : AdminRow(a) \notin tx[r].rows => admin'[a] = admin[a],
         \A b \in Batch : batch[b] # None => batch'[b] # None,
         \A b \in Batch : BatchRow(b) \notin tx[r].rows /\ batch[b] # None => batch'[b] = batch[b],
         \A s \in Session : session[s] # None => session'[s] # None
  PROVE  RequestInv(tx[q])'
  <1>1. tx'[q] = tx[q] /\ RequestInv(tx[q]) /\ tx[q] \in TxRecord
    BY DEF IInv, Types
  <1>2. tx[q].rows \cap tx[r].rows = {}
    BY DEF IInv, RowsApart
  <1>3. Works(tx[q])'
    <2>1. tx[q].token \in Session \cup {None}
      BY <1>1 DEF TxRecord
    <2>. QED BY <1>1, <2>1 DEF RequestInv, Works
  <1>4. Writes(tx[q])'
    <2>1. AdminRow(tx[q].who) \in tx[q].rows =>
            (tx[q].who \in Admin => admin'[tx[q].who] = admin[tx[q].who])
      BY <1>2
    <2>2. tx[q].rows = {} \/ tx[q].who \in Admin
      BY <1>1 DEF RequestInv, Works
    <2>3. AdminRow(tx[q].who) \in tx[q].rows => tx[q].who \in Admin
      BY <2>2
    <2>. QED BY <1>1, <2>1, <2>3 DEF RequestInv, Writes
  <1>5. Enters(tx[q])'
    <2>1. tx[q].batch # None => tx[q].batch \in Batch
      BY <1>1 DEF TxRecord
    <2>. QED BY <1>1, <1>2, <2>1 DEF RequestInv, Enters
  <1>. QED BY <1>3, <1>4, <1>5 DEF RequestInv

LEMMA IdleInv == RequestInv(Idle)'
  <1>1. PICK t : t = Idle
    OBVIOUS
  <1>2. /\ t.pc = "idle" /\ t.op = "idle" /\ t.token = None /\ t.batch = None
        /\ t.rows = {} /\ t.targets = {}
    BY <1>1 DEF Idle
  <1>3. RequestInv(t)'
    BY <1>2 DEF RequestInv, Works, Writes, Enters
  <1>. QED BY <1>1, <1>3

LEMMA CommitIs ==
  ASSUME IInv, NEW r \in Request, Commit(r)
  PROVE  /\ admin' \in [Admin -> Row]
         /\ \A a \in Admin : AdminRow(a) \notin tx[r].rows => admin'[a] = admin[a]
         /\ AdminRow(tx[r].who) \in tx[r].rows => admin'[tx[r].who] = tx[r].new
         /\ \A a \in Admin : a # tx[r].who => admin'[a] = admin[a]
         /\ tx[r].pc = "commit" /\ tx[r] \in TxRecord /\ RequestInv(tx[r]) /\ tx[r].who \in Admin
  <1>1. tx[r].pc = "commit" /\ tx[r] \in TxRecord /\ RequestInv(tx[r]) /\ tx[r].who \in Admin
    BY AtIs DEF Commit, At
  <1>2. admin \in [Admin -> Row] /\ tx[r].new \in Row
    BY <1>1 DEF IInv, Types, TxRecord
  <1>3. admin' = IF AdminRow(tx[r].who) \in tx[r].rows
                 THEN [admin EXCEPT ![tx[r].who] = tx[r].new] ELSE admin
    BY DEF Commit
  <1>. QED BY <1>1, <1>2, <1>3

LEMMA CommitCodes ==
  ASSUME IInv, NEW r \in Request, Commit(r)
  PROVE  /\ batch' \in [Batch -> BatchRecord \cup {None}]
         /\ \A b \in Batch :
              /\ batch[b] # None => batch'[b] # None
              /\ BatchRow(b) \notin tx[r].rows /\ batch[b] # None => batch'[b] = batch[b]
              /\ batch[b] # None /\ (batch[b].used \/ BatchRow(b) \in tx[r].rows)
                   => batch'[b].used
  <1>1. RequestInv(tx[r]) /\ tx[r].who \in Admin
    BY CommitIs
  <1>2. batch \in [Batch -> BatchRecord \cup {None}]
    BY DEF IInv, Types
  <1>3. \A b \in Batch : BatchRow(b) \in tx[r].rows => batch[b] # None
    BY <1>1 DEF RequestInv, Works
  <1>4. PICK new \in {b \in Batch : batch[b] = None} \cup {None} :
          batch' = [b \in Batch |->
            IF b = new THEN [owner |-> tx[r].who, used |-> FALSE]
            ELSE IF BatchRow(b) \in tx[r].rows THEN [batch[b] EXCEPT !.used = TRUE] ELSE batch[b]]
    BY DEF Commit
  <1>5. \A b \in Batch : b = new => batch[b] = None
    BY <1>4, NoneIsNothing
  <1>6. ASSUME NEW b \in Batch
        PROVE  /\ batch'[b] \in BatchRecord \cup {None}
               /\ batch[b] # None => batch'[b] # None
               /\ BatchRow(b) \notin tx[r].rows /\ batch[b] # None => batch'[b] = batch[b]
               /\ batch[b] # None /\ (batch[b].used \/ BatchRow(b) \in tx[r].rows)
                    => batch'[b].used
    <2>1. CASE b = new
      <3>1. batch'[b] = [owner |-> tx[r].who, used |-> FALSE] /\ batch[b] = None
        BY <1>4, <1>5, <2>1
      <3>. QED BY <1>1, <3>1 DEF BatchRecord
    <2>2. CASE b # new /\ BatchRow(b) \in tx[r].rows
      <3>1. batch'[b] = [batch[b] EXCEPT !.used = TRUE] /\ batch[b] \in BatchRecord
        BY <1>2, <1>3, <1>4, <2>2
      <3>2. batch'[b] \in BatchRecord /\ batch'[b].used
        BY <3>1 DEF BatchRecord
      <3>3. batch'[b] # None
        BY <3>2, NoneIsNothing DEF BatchRecord
      <3>. QED BY <2>2, <3>2, <3>3
    <2>3. CASE b # new /\ BatchRow(b) \notin tx[r].rows
      BY <1>2, <1>4, <2>3
    <2>. QED BY <2>1, <2>2, <2>3
  <1>7. batch' \in [Batch -> BatchRecord \cup {None}]
    BY <1>4, <1>6
  <1>. QED BY <1>6, <1>7

LEMMA CommitSessions ==
  ASSUME IInv, NEW r \in Request, Commit(r)
  PROVE  /\ session' \in [Session -> SessionRecord \cup {None}]
         /\ \A s \in Session : session[s] # None => session'[s] # None
  <1>1. RequestInv(tx[r]) /\ tx[r].who \in Admin
    BY CommitIs
  <1>2. session \in [Session -> SessionRecord \cup {None}]
    BY DEF IInv, Types
  <1>3. \A s \in Session : SessionRow(s) \in tx[r].rows => session[s] # None
    BY <1>1 DEF RequestInv, Works
  <1>4. PICK new \in {s \in Session : session[s] = None} \cup {None} :
          session' = [s \in Session |->
            IF s = new THEN [owner |-> tx[r].who, state |-> "active"]
            ELSE IF SessionRow(s) \in tx[r].rows THEN [session[s] EXCEPT !.state = "revoked"]
            ELSE session[s]]
    BY DEF Commit
  <1>5. ASSUME NEW s \in Session
        PROVE  /\ session'[s] \in SessionRecord \cup {None}
               /\ session[s] # None => session'[s] # None
    <2>1. CASE s = new
      <3>1. session'[s] = [owner |-> tx[r].who, state |-> "active"]
        BY <1>4, <2>1
      <3>2. session'[s] \in SessionRecord
        BY <1>1, <3>1 DEF SessionRecord
      <3>. QED BY <3>2, NoneIsNothing DEF SessionRecord
    <2>2. CASE s # new /\ SessionRow(s) \in tx[r].rows
      <3>1. session'[s] = [session[s] EXCEPT !.state = "revoked"] /\ session[s] \in SessionRecord
        BY <1>2, <1>3, <1>4, <2>2
      <3>2. session'[s] \in SessionRecord
        BY <3>1 DEF SessionRecord
      <3>. QED BY <3>2, NoneIsNothing DEF SessionRecord
    <2>3. CASE s # new /\ SessionRow(s) \notin tx[r].rows
      BY <1>2, <1>4, <2>3
    <2>. QED BY <2>1, <2>2, <2>3
  <1>6. session' \in [Session -> SessionRecord \cup {None}]
    BY <1>4, <1>5
  <1>. QED BY <1>5, <1>6

\* A sign-in counts the code that it holds, which was unused, and COMMIT retires it.
LEMMA CommitCounted ==
  ASSUME IInv, NEW r \in Request, Commit(r)
  PROVE  entered' \in [Batch -> Nat] /\ Counted'
  <1>1. tx[r].pc = "commit" /\ tx[r] \in TxRecord /\ RequestInv(tx[r])
    BY CommitIs
  <1>2. entered \in [Batch -> Nat] /\ Counted
    BY DEF IInv, Types
  <1>3. \A b \in Batch : batch[b] # None /\ (batch[b].used \/ BatchRow(b) \in tx[r].rows)
                           => batch'[b] # None /\ batch'[b].used
    BY CommitCodes
  <1>4. CASE tx[r].op = "login" /\ tx[r].batch # None
    <2>1. PICK b \in Batch : b = tx[r].batch
      BY <1>1, <1>4 DEF TxRecord
    <2>2. entered' = [entered EXCEPT ![b] = entered[b] + 1]
      BY <1>4, <2>1 DEF Commit
    <2>3. BatchRow(b) \in tx[r].rows /\ batch[b] # None /\ ~batch[b].used
      BY <1>1, <1>4, <2>1 DEF RequestInv, Enters
    <2>4. entered[b] = 0
      BY <1>2, <2>3 DEF Counted
    <2>5. entered' \in [Batch -> Nat]
      BY <1>2, <2>2
    <2>6. ASSUME NEW c \in Batch
          PROVE  \/ entered'[c] = 0
                 \/ entered'[c] = 1 /\ batch'[c] # None /\ batch'[c].used
      BY <1>2, <1>3, <2>2, <2>3, <2>4 DEF Counted
    <2>. QED BY <2>5, <2>6 DEF Counted
  <1>5. CASE ~(tx[r].op = "login" /\ tx[r].batch # None)
    <2>1. entered' = entered
      BY <1>5 DEF Commit
    <2>. QED BY <1>2, <1>3, <2>1 DEF Counted
  <1>. QED BY <1>4, <1>5

LEMMA CommitInv ==
  ASSUME IInv, NEW r \in Request, Commit(r)
  PROVE  IInv'
  <1>1. tx' = [tx EXCEPT ![r] = Idle] /\ keys' = keys /\ proven' = proven
    BY DEF Commit, End
  <1>2. /\ tx' \in [Request -> TxRecord] /\ tx'[r] = Idle
        /\ \A q \in Request \ {r} : tx'[q] = tx[q]
    BY <1>1, IdleIs DEF IInv, Types
  <1>3. Types'
    <2>1. keys' \in 0..MaxKey
      BY <1>1 DEF IInv, Types
    <2>. QED BY <1>2, <2>1, CommitIs, CommitCodes, CommitSessions, CommitCounted DEF Types
  <1>4. Counted'
    BY CommitCounted
  <1>5. RowsApart'
    BY <1>2, IdleIs DEF IInv, RowsApart
  <1>6. MfaProven'
    <2>1. RequestInv(tx[r]) /\ MfaProven
      BY CommitIs DEF IInv
    <2>2. ASSUME NEW a \in Admin PROVE admin'[a].mfa => admin'[a].secret \in proven
      <3>1. CASE AdminRow(a) \in tx[r].rows /\ a = tx[r].who
        BY <2>1, <3>1, CommitIs DEF RequestInv, Writes
      <3>2. CASE AdminRow(a) \notin tx[r].rows \/ a # tx[r].who
        BY <2>1, <3>2, CommitIs DEF MfaProven
      <3>. QED BY <3>1, <3>2
    <2>. QED BY <1>1, <2>2 DEF MfaProven
  <1>7. ASSUME NEW q \in Request PROVE RequestInv(tx[q])'
    <2>1. CASE q = r
      BY <1>2, <2>1, IdleInv DEF RequestInv, Works, Writes, Enters
    <2>2. CASE q # r
      BY <1>1, <2>2, OthersKeep, CommitIs, CommitCodes, CommitSessions
    <2>. QED BY <2>1, <2>2
  <1>. QED BY <1>3, <1>4, <1>5, <1>6, <1>7 DEF IInv

LEMMA ThrowInv ==
  ASSUME IInv, NEW r \in Request, Throw(r) \/ Abort(r)
  PROVE  IInv'
  <1>1. End(r) /\ UNCHANGED <<admin, batch, session, entered, keys, proven>>
    BY DEF Throw, Abort, tables, history
  <1>. QED BY <1>1, EndInv

\* A token that expires stays a token, and nothing else reads its state.
LEMMA ExpireInv ==
  ASSUME IInv, NEW s \in Session, Expire(s)
  PROVE  IInv'
  <1>1. /\ session' = [session EXCEPT ![s].state = "expired"] /\ session[s] # None
        /\ UNCHANGED <<admin, batch, entered, keys, proven, tx>>
    BY DEF Expire, history
  <1>2. session \in [Session -> SessionRecord \cup {None}]
    BY DEF IInv, Types
  <1>3. session'[s] = [session[s] EXCEPT !.state = "expired"] /\ session[s] \in SessionRecord
    BY <1>1, <1>2
  <1>4. session'[s] \in SessionRecord
    BY <1>3 DEF SessionRecord
  <1>5. session'[s] # None
    BY <1>4, NoneIsNothing DEF SessionRecord
  <1>6. /\ session' \in [Session -> SessionRecord \cup {None}]
        /\ \A q \in Session : session[q] # None => session'[q] # None
    BY <1>1, <1>2, <1>4, <1>5
  <1>7. Types'
    BY <1>1, <1>6 DEF IInv, Types
  <1>8. Counted' /\ RowsApart' /\ MfaProven'
    BY <1>1 DEF IInv, Counted, RowsApart, MfaProven
  <1>9. ASSUME NEW r \in Request PROVE RequestInv(tx[r])'
    <2>1. RequestInv(tx[r]) /\ tx[r] \in TxRecord
      BY DEF IInv, Types
    <2>2. tx[r].token \in Session \cup {None}
      BY <2>1 DEF TxRecord
    <2>. QED BY <1>1, <1>6, <2>1, <2>2 DEF RequestInv, Works, Writes, Enters
  <1>. QED BY <1>7, <1>8, <1>9 DEF IInv

\* The invariant reads none of the access tokens.
LEMMA SameInv ==
  ASSUME IInv, UNCHANGED <<admin, batch, session, entered, keys, proven, tx>>
  PROVE  IInv'
  <1>1. Types' /\ Counted' /\ RowsApart' /\ MfaProven'
    BY DEF IInv, Types, Counted, RowsApart, MfaProven
  <1>2. ASSUME NEW r \in Request PROVE RequestInv(tx[r])'
    <2>1. RequestInv(tx[r])
      BY DEF IInv
    <2>. QED BY <2>1 DEF RequestInv, Works, Writes, Enters
  <1>. QED BY <1>1, <1>2 DEF IInv

LEMMA InitInv == Init => IInv
  <1>. SUFFICES ASSUME Init PROVE IInv
    OBVIOUS
  <1>1. PICK mfa \in BOOLEAN :
          /\ keys = IF mfa THEN 1 ELSE 0
          /\ proven = 1..keys
          /\ admin = [a \in Admin |->
               IF a = Seeded
               THEN [NoAdmin EXCEPT !.status = "ACTIVE", !.mfa = mfa,
                                    !.secret = IF mfa THEN 1 ELSE None]
               ELSE NoAdmin]
    BY DEF Init
  <1>2. keys \in 0..MaxKey
    BY <1>1, LimitsNat
  <1>3. PICK first : first = [NoAdmin EXCEPT !.status = "ACTIVE", !.mfa = mfa,
                                             !.secret = IF mfa THEN 1 ELSE None]
    OBVIOUS
  <1>4. first \in Row /\ (first.mfa => first.secret \in proven) /\ ~NoAdmin.mfa
    <2>1. first = [status |-> "ACTIVE", failed |-> 0, locked |-> FALSE,
                   secret |-> IF mfa THEN 1 ELSE None, mfa |-> mfa]
      BY <1>3 DEF NoAdmin
    <2>2. 1 \in Key
      BY LimitsNat DEF Key
    <2>3. mfa => 1 \in proven
      BY <1>1
    <2>4. first \in Row
      BY <2>1, <2>2 DEF Row
    <2>. QED BY <2>1, <2>3, <2>4 DEF NoAdmin
  <1>5. /\ admin \in [Admin -> Row]
        /\ \A a \in Admin : admin[a] = first \/ admin[a] = NoAdmin
    BY <1>1, <1>3, <1>4, IdleTyped
  <1>6. MfaProven
    BY <1>4, <1>5 DEF MfaProven
  <1>7. /\ tx = [r \in Request |-> Idle] /\ batch = [b \in Batch |-> None]
        /\ session = [s \in Session |-> None] /\ entered = [b \in Batch |-> 0]
    BY DEF Init
  <1>8. Types
    BY <1>2, <1>5, <1>7, IdleTyped DEF Types
  <1>9. Counted /\ RowsApart
    BY <1>7, IdleIs DEF Counted, RowsApart
  <1>10. RequestInv(Idle)
    <2>1. PICK t : t = Idle
      OBVIOUS
    <2>2. /\ t.pc = "idle" /\ t.op = "idle" /\ t.token = None /\ t.batch = None
          /\ t.rows = {} /\ t.targets = {}
      BY <2>1 DEF Idle
    <2>. QED BY <2>1, <2>2 DEF RequestInv, Works, Writes, Enters
  <1>. QED BY <1>6, <1>7, <1>8, <1>9, <1>10 DEF IInv

LEMMA NextInv == IInv /\ [Next]_vars => IInv'
  <1>. SUFFICES ASSUME IInv, [Next]_vars PROVE IInv'
    OBVIOUS
  <1>1. ASSUME NEW r \in Request, Start(r) PROVE IInv'
    BY <1>1, StartInv
  <1>2. ASSUME NEW r \in Request, LoginStep(r) PROVE IInv'
    BY <1>2, FindAdminInv, ConsumeInv, LoginWriteInv DEF LoginStep
  <1>3. ASSUME NEW r \in Request, TokenStep(r) PROVE IInv'
    BY <1>3, TokenInv, RevokeInv, SnapshotInv DEF TokenStep
  <1>4. ASSUME NEW r \in Request, OwnStep(r) PROVE IInv'
    BY <1>4, ReadOwnInv, OwnWriteInv, SnapshotInv, RevokeInv DEF OwnStep
  <1>5. ASSUME NEW r \in Request, StaffStep(r) PROVE IInv'
    BY <1>5, StaffInv DEF StaffStep
  <1>6. ASSUME NEW r \in Request, Commit(r) PROVE IInv'
    BY <1>6, CommitInv
  <1>7. ASSUME NEW r \in Request, Throw(r) \/ Abort(r) PROVE IInv'
    BY <1>7, ThrowInv
  <1>8. ASSUME NEW s \in Session, Expire(s) PROVE IInv'
    BY <1>8, ExpireInv
  <1>9. ASSUME NEW a \in Admin, AccessEnds(a) PROVE IInv'
    BY <1>9, SameInv DEF AccessEnds, history
  <1>10. CASE UNCHANGED vars
    BY <1>10, SameInv DEF vars
  <1>. QED BY <1>1, <1>2, <1>3, <1>4, <1>5, <1>6, <1>7, <1>8, <1>9, <1>10 DEF Next

LEMMA Invariant == Spec => []IInv
  BY InitInv, NextInv, PTL DEF Spec

-----------------------------------------------------------------------------
(* Theorems                                                                *)

\* admin.service.test.js:185, "accepts a recovery code exactly once": each code signs
\* in at most once, however sign-ins and enrolments overlap.
THEOREM RecoveryCodesOnce == Spec => []CodesOnce
  <1>1. IInv => CodesOnce
    BY DEF IInv, Counted, CodesOnce
  <1>. QED BY <1>1, Invariant, PTL

\* The secret that guards an account is one whose owner had it in full or confirmed it
\* (admin.service.js:650).
THEOREM SecretsProven == Spec => []MfaProven
  <1>1. IInv => MfaProven
    BY DEF IInv
  <1>. QED BY <1>1, Invariant, PTL

\* The row of an admin changes at a COMMIT only.
LEMMA OnlyCommit ==
  ASSUME [Next]_vars, admin' # admin
  PROVE  \E r \in Request : Commit(r)
  <1>1. ASSUME NEW r \in Request, Start(r) PROVE admin' = admin
    BY <1>1 DEF Start, Begin, tables, LoginAdmin, RefreshAdminSession, LogoutAdmin,
                BeginMfaSetup, ConfirmMfaSetup, ChangePassword, BootstrapMfa, CreateSubAdmin,
                UpdateSubAdminStatus
  <1>2. ASSUME NEW r \in Request, LoginStep(r) PROVE admin' = admin
    BY <1>2 DEF LoginStep, FindAdmin, ConsumeRecoveryCode, RecordFailedLogin, LoginSuccess, tables
  <1>3. ASSUME NEW r \in Request, TokenStep(r) PROVE admin' = admin
    BY <1>3 DEF TokenStep, FindSession, FindOwner, RevokeSession, SnapshotSessions,
                RevokeSessions, tables
  <1>4. ASSUME NEW r \in Request, OwnStep(r) PROVE admin' = admin
    BY <1>4 DEF OwnStep, ReadOwn, SetSecret, EnableMfa, SnapshotCodes, ReplaceCodes,
                UpdatePassword, tables
  <1>5. ASSUME NEW r \in Request, StaffStep(r) PROVE admin' = admin
    BY <1>5 DEF StaffStep, InsertAdmin, SetStatus, tables
  <1>6. ASSUME NEW r \in Request, Throw(r) \/ Abort(r) PROVE admin' = admin
    BY <1>6 DEF Throw, Abort, tables
  <1>7. ASSUME NEW s \in Session, Expire(s) PROVE admin' = admin
    BY <1>7 DEF Expire
  <1>8. ASSUME NEW a \in Admin, AccessEnds(a) PROVE admin' = admin
    BY <1>8 DEF AccessEnds
  <1>9. CASE UNCHANGED vars
    BY <1>9 DEF vars
  <1>. QED BY <1>1, <1>2, <1>3, <1>4, <1>5, <1>6, <1>7, <1>8, <1>9 DEF Next

\* No sign-in, change of password or enrolment that overlaps a suspension undoes it.
THEOREM SuspensionStands == Spec => SuspensionHolds
  <1>1. ASSUME IInv, [Next]_vars, NEW a \in Admin,
               admin[a].status = "SUSPENDED", admin'[a].status # "SUSPENDED"
        PROVE  \E r \in Request : tx[r].op = "setStatus" /\ tx[r].who = a /\ At(r, "commit")
    <2>1. PICK r \in Request : Commit(r)
      BY <1>1, OnlyCommit
    <2>2. a = tx[r].who /\ AdminRow(a) \in tx[r].rows
      BY <1>1, <2>1, CommitIs
    <2>3. tx[r].pc = "commit" /\ RequestInv(tx[r]) /\ admin'[a] = tx[r].new
      BY <1>1, <2>1, <2>2, CommitIs
    <2>4. tx[r].op = "setStatus"
      BY <1>1, <2>2, <2>3 DEF RequestInv, Writes
    <2>. QED BY <2>2, <2>3, <2>4 DEF At
  <1>2. IInv /\ [Next]_vars =>
          [\A a \in Admin : admin[a].status = "SUSPENDED" /\ admin'[a].status # "SUSPENDED" =>
             \E r \in Request : tx[r].op = "setStatus" /\ tx[r].who = a /\ At(r, "commit")]_vars
    BY <1>1
  <1>. QED BY <1>2, Invariant, PTL DEF Spec, SuspensionHolds

-----------------------------------------------------------------------------
(* Who exists, and enrolments                                              *)

\* Whoever has a session, a code or a bearer token exists.
Known ==
  /\ \A a \in access : a \in Admin /\ admin[a].status # "none"
  /\ \A b \in Batch : batch[b] # None => admin[batch[b].owner].status # "none"
  /\ \A s \in Session : session[s] # None => admin[session[s].owner].status # "none"

Enrolling == {"confirmMfa", "bootstrap"}

\* Which handler a request is in at the statements of an enrolment.
Route(t) ==
  /\ t.op \in Enrolling => t.pc \in {"read", "write", "replace", "replaceCodes", "commit"}
  /\ t.pc \in {"replace", "replaceCodes"} => t.op \in Enrolling
  /\ t.pc \in {"read", "write"} => t.op \in Enrolling \cup {"beginMfa", "changePassword"}
  /\ t.op = "create" => t.pc \in {"insert", "commit"}
  /\ t.pc = "insert" => t.op = "create"

\* A request works for an admin who exists, once it has found him, and writes no other row.
Real(t) ==
  /\ \/ t.pc \in {"idle", "find", "read", "insert"} \/ admin[t.who].status # "none"
     \/ t.op = "create" /\ t.pc = "commit"
  /\ AdminRow(t.who) \in t.rows => t.new.status # "none"

\* An enrolment holds the row of its admin from its UPDATE on, and so all his unused codes
\* are among those that its snapshot has shown, and then among those that it holds.
Renews(t) ==
  /\ t.op \in Enrolling /\ t.pc \notin {"read", "write"} => AdminRow(t.who) \in t.rows
  /\ t.pc = "replaceCodes" => \A b \in OpenCodes(t.who) : BatchRow(b) \in t.targets
  /\ t.op \in Enrolling /\ t.pc = "commit" => \A b \in OpenCodes(t.who) : BatchRow(b) \in t.rows
  /\ t.op = "create" /\ t.pc = "commit" =>
       AdminRow(t.who) \in t.rows /\ admin[t.who].status = "none"

Aware(t) == Route(t) /\ Real(t) /\ Renews(t)

OneEach == \A a \in Admin : \A b, c \in OpenCodes(a) : b = c

EnrolInv == Known /\ OneEach /\ \A r \in Request : Aware(tx[r])

LEMMA MoveEnrol ==
  ASSUME IInv, EnrolInv, NEW r \in Request, NEW t, tx' = [tx EXCEPT ![r] = t],
         UNCHANGED <<admin, batch, session, access>>, Aware(t)
  PROVE  EnrolInv'
  <1>1. tx'[r] = t /\ \A q \in Request \ {r} : tx'[q] = tx[q]
    BY DEF IInv, Types
  <1>2. \A a : OpenCodes(a)' = OpenCodes(a)
    BY DEF OpenCodes
  <1>3. Known' /\ OneEach'
    BY <1>2 DEF EnrolInv, Known, OneEach
  <1>4. ASSUME NEW q \in Request PROVE Aware(tx[q])'
    <2>1. Aware(tx'[q])
      BY <1>1 DEF EnrolInv
    <2>. QED BY <1>2, <2>1 DEF Aware, Route, Real, Renews
  <1>. QED BY <1>3, <1>4 DEF EnrolInv

LEMMA IdleAware == Aware(Idle)
  <1>1. PICK t : t = Idle
    OBVIOUS
  <1>2. t.pc = "idle" /\ t.op = "idle" /\ t.rows = {}
    BY <1>1 DEF Idle
  <1>3. Aware(t)
    BY <1>2 DEF Aware, Route, Real, Renews, Enrolling
  <1>. QED BY <1>1, <1>3

LEMMA EndEnrol ==
  ASSUME IInv, EnrolInv, NEW r \in Request, End(r), UNCHANGED <<admin, batch, session, access>>
  PROVE  EnrolInv'
  BY IdleAware, MoveEnrol DEF End

LEMMA BeginEnrol ==
  ASSUME IInv, EnrolInv, NEW r \in Request, Start(r)
  PROVE  EnrolInv'
  <1>1. UNCHANGED <<admin, batch, session, access>>
    BY DEF Start, LoginAdmin, RefreshAdminSession, LogoutAdmin, BeginMfaSetup, ConfirmMfaSetup,
           ChangePassword, BootstrapMfa, CreateSubAdmin, UpdateSubAdminStatus, Begin, tables
  <1>2. ASSUME NEW t, tx' = [tx EXCEPT ![r] = t], Route(t), t.rows = {},
               t.op = "create" => t.pc # "commit",
               t.pc \in {"find", "read", "insert"}
                 \/ (admin[t.who].status # "none" /\ t.pc \in {"token", "rotate", "status"})
        PROVE  EnrolInv'
    <2>1. Aware(t)
      BY <1>2 DEF Aware, Route, Real, Renews
    <2>. QED BY <1>1, <1>2, <2>1, MoveEnrol
  <1>3. ASSUME NEW t, tx' = [tx EXCEPT ![r] = t], t.rows = {},
               \/ t.op = "login" /\ t.pc = "find"
               \/ t.op \in Enrolling \cup {"beginMfa", "changePassword"} /\ t.pc = "read"
               \/ t.op = "create" /\ t.pc = "insert"
        PROVE  EnrolInv'
    <2>1. Route(t)
      BY <1>3 DEF Route, Enrolling
    <2>. QED BY <1>2, <1>3, <2>1
  <1>4. CASE LoginAdmin(r) \/ BeginMfaSetup(r) \/ ChangePassword(r) \/ BootstrapMfa(r)
             \/ CreateSubAdmin(r)
    <2>1. PICK op, pc, a :
            /\ tx' = [tx EXCEPT ![r] = [Idle EXCEPT !.op = op, !.pc = pc, !.who = a]]
            /\ \/ op = "login" /\ pc = "find"
               \/ op \in Enrolling \cup {"beginMfa", "changePassword"} /\ pc = "read"
               \/ op = "create" /\ pc = "insert"
      BY <1>4 DEF LoginAdmin, BeginMfaSetup, ChangePassword, BootstrapMfa, CreateSubAdmin,
                  Begin, Enrolling
    <2>2. PICK t : t = [Idle EXCEPT !.op = op, !.pc = pc, !.who = a]
      OBVIOUS
    <2>3. t.op = op /\ t.pc = pc /\ t.rows = {}
      BY <2>2 DEF Idle
    <2>. QED BY <1>3, <2>1, <2>2, <2>3
  <1>5. CASE ConfirmMfaSetup(r)
    <2>1. PICK a, k : tx' = [tx EXCEPT ![r] = [Idle EXCEPT !.op = "confirmMfa", !.pc = "read",
                                                           !.who = a, !.key = k]]
      BY <1>5 DEF ConfirmMfaSetup, Begin
    <2>2. PICK t : t = [Idle EXCEPT !.op = "confirmMfa", !.pc = "read", !.who = a, !.key = k]
      OBVIOUS
    <2>3. t.op = "confirmMfa" /\ t.pc = "read" /\ t.rows = {}
      BY <2>2 DEF Idle
    <2>. QED BY <1>3, <2>1, <2>2, <2>3 DEF Enrolling
  <1>6. CASE RefreshAdminSession(r) \/ LogoutAdmin(r)
    <2>1. PICK s \in Session, op \in {"refresh", "logout"}, pc \in {"token", "rotate"} :
            /\ session[s] # None
            /\ tx' = [tx EXCEPT ![r] = [Idle EXCEPT !.op = op, !.pc = pc, !.token = s,
                                                    !.who = session[s].owner]]
      BY <1>6 DEF RefreshAdminSession, LogoutAdmin, Begin
    <2>2. PICK t : t = [Idle EXCEPT !.op = op, !.pc = pc, !.token = s, !.who = session[s].owner]
      OBVIOUS
    <2>3. t.op = op /\ t.pc = pc /\ t.rows = {} /\ t.who = session[s].owner
      BY <2>2 DEF Idle
    <2>4. Route(t)
      BY <2>3 DEF Route, Enrolling
    <2>5. admin[t.who].status # "none"
      BY <2>1, <2>3 DEF EnrolInv, Known
    <2>. QED BY <1>2, <2>1, <2>2, <2>3, <2>4, <2>5
  <1>7. CASE UpdateSubAdminStatus(r)
    <2>1. PICK a \in Admin, status \in {"ACTIVE", "SUSPENDED", "LOCKED"} :
            /\ admin[a].status # "none"
            /\ tx' = [tx EXCEPT ![r] = [Idle EXCEPT !.op = "setStatus", !.pc = "status", !.who = a,
                                                    !.status = status]]
      BY <1>7 DEF UpdateSubAdminStatus, Begin
    <2>2. PICK t : t = [Idle EXCEPT !.op = "setStatus", !.pc = "status", !.who = a,
                                    !.status = status]
      OBVIOUS
    <2>3. t.op = "setStatus" /\ t.pc = "status" /\ t.rows = {} /\ t.who = a
      BY <2>2 DEF Idle
    <2>4. Route(t)
      BY <2>3 DEF Route, Enrolling
    <2>. QED BY <1>2, <2>1, <2>2, <2>3, <2>4
  <1>. QED BY <1>4, <1>5, <1>6, <1>7 DEF Start

\* What a request knows at its statements.
LEMMA AwareAt ==
  ASSUME IInv, EnrolInv, NEW r \in Request, tx[r].pc # "idle"
  PROVE  /\ Aware(tx[r]) /\ tx[r] \in TxRecord /\ tx[r].who \in Admin
         /\ admin[tx[r].who] \in Row
         /\ tx[r].pc \notin {"find", "read", "insert", "commit"} => admin[tx[r].who].status # "none"
  <1>1. Aware(tx[r])
    BY DEF EnrolInv
  <1>. QED BY <1>1, AtIs DEF Aware, Real

\* Statements outside enrolments.
OwnStatement == {"read", "write", "replace", "replaceCodes", "insert"}

LEMMA StepEnrol ==
  ASSUME IInv, EnrolInv, NEW r \in Request, NEW t, tx' = [tx EXCEPT ![r] = t],
         UNCHANGED <<admin, batch, session, access>>,
         t.op = tx[r].op, t.who = tx[r].who,
         tx[r].pc \notin OwnStatement \cup {"idle", "commit"}, t.pc \notin OwnStatement,
         admin[tx[r].who].status # "none",
         AdminRow(t.who) \in t.rows => t.new.status # "none"
  PROVE  EnrolInv'
  <1>1. Aware(tx[r])
    BY AwareAt
  <1>2. t.op \notin Enrolling \cup {"create"}
    BY <1>1 DEF Aware, Route, OwnStatement, Enrolling
  <1>3. Aware(t)
    BY <1>2 DEF Aware, Route, Real, Renews, OwnStatement
  <1>. QED BY <1>3, MoveEnrol

\* What follows on one kind of statement.
LEMMA GotoEnrol ==
  ASSUME IInv, EnrolInv, NEW r \in Request, NEW pc \in PcName \ OwnStatement, Goto(r, pc),
         UNCHANGED <<admin, batch, session, access>>,
         tx[r].pc \notin OwnStatement \cup {"idle", "commit", "find"}
  PROVE  EnrolInv'
  <1>1. PICK t \in TxRecord :
          /\ tx' = [tx EXCEPT ![r] = t] /\ Agrees(t, tx[r]) /\ t.pc = pc
          /\ t.new = tx[r].new /\ t.rows = tx[r].rows
    BY GotoIs DEF IInv
  <1>2. Aware(tx[r]) /\ admin[tx[r].who].status # "none"
    BY AwareAt DEF OwnStatement
  <1>3. AdminRow(t.who) \in t.rows => t.new.status # "none"
    BY <1>1, <1>2 DEF Aware, Real, Agrees
  <1>. QED BY <1>1, <1>2, <1>3, StepEnrol DEF Agrees

LEMMA WriteEnrol ==
  ASSUME IInv, EnrolInv, NEW r \in Request, NEW pc \in PcName \ OwnStatement,
         NEW rows \in SUBSET RowName, Write(r, rows, pc), \A x \in rows : x[1] # "admin",
         UNCHANGED <<admin, batch, session, access>>,
         tx[r].pc \notin OwnStatement \cup {"idle", "commit", "find"}
  PROVE  EnrolInv'
  <1>1. PICK t \in TxRecord :
          /\ tx' = [tx EXCEPT ![r] = t] /\ Agrees(t, tx[r]) /\ t.pc = pc
          /\ t.new = tx[r].new /\ t.rows = tx[r].rows \cup rows
    BY WriteIs DEF IInv
  <1>2. Aware(tx[r]) /\ admin[tx[r].who].status # "none"
    BY AwareAt DEF OwnStatement
  <1>3. AdminRow(t.who) \notin rows
    BY DEF AdminRow
  <1>4. AdminRow(t.who) \in t.rows => t.new.status # "none"
    BY <1>1, <1>2, <1>3 DEF Aware, Real, Agrees
  <1>. QED BY <1>1, <1>2, <1>4, StepEnrol DEF Agrees

LEMMA UpdateEnrol ==
  ASSUME IInv, EnrolInv, NEW r \in Request, NEW pc \in PcName \ OwnStatement,
         NEW row \in Row, Update(r, row, pc), row.status # "none",
         UNCHANGED <<admin, batch, session, access>>,
         tx[r].pc \notin OwnStatement \cup {"idle", "commit", "find"}
  PROVE  EnrolInv'
  <1>1. tx[r].who \in Admin /\ admin[tx[r].who].status # "none"
    BY AwareAt DEF OwnStatement
  <1>2. PICK t \in TxRecord :
          /\ tx' = [tx EXCEPT ![r] = t] /\ Agrees(t, tx[r]) /\ t.pc = pc /\ t.new = row
    BY <1>1, UpdateIs DEF IInv
  <1>. QED BY <1>1, <1>2, StepEnrol DEF Agrees

LEMMA LoginEnrol ==
  ASSUME IInv, EnrolInv, NEW r \in Request, LoginStep(r)
  PROVE  EnrolInv'
  <1>1. UNCHANGED <<admin, batch, session, access>>
    BY DEF LoginStep, FindAdmin, ConsumeRecoveryCode, RecordFailedLogin, LoginSuccess, tables
  <1>2. tx[r].pc \in {"find", "code", "failed", "success"}
    BY DEF LoginStep, FindAdmin, ConsumeRecoveryCode, RecordFailedLogin, LoginSuccess, At
  <1>3. PICK row : row = admin[tx[r].who]
    OBVIOUS
  <1>4. /\ Aware(tx[r]) /\ tx[r] \in TxRecord /\ row \in Row
        /\ tx[r].pc # "find" => row.status # "none"
    BY <1>2, <1>3, AwareAt
  <1>5. CASE FindAdmin(r)
    <2>1. PICK pc \in Outcomes(row) :
            IF pc = "refuse" THEN End(r)
            ELSE \E b \in IF pc = "code" THEN Batch ELSE {None} :
                   tx' = [tx EXCEPT ![r].pc = pc, ![r].batch = b]
      BY <1>3, <1>5 DEF FindAdmin
    <2>2. CASE pc = "refuse"
      BY <1>1, <2>1, <2>2, EndEnrol
    <2>3. CASE pc # "refuse"
      <3>1. pc \in {"failed", "code", "success"} /\ row.status # "none"
        BY <2>1, <2>3 DEF Outcomes
      <3>2. PICK b : tx' = [tx EXCEPT ![r] = [tx[r] EXCEPT !.pc = pc, !.batch = b]]
        BY <2>1, <2>3
      <3>3. PICK t : t = [tx[r] EXCEPT !.pc = pc, !.batch = b]
        OBVIOUS
      <3>4. /\ t.op = tx[r].op /\ t.who = tx[r].who /\ t.pc = pc /\ t.new = tx[r].new
            /\ t.rows = tx[r].rows
        BY <1>4, <3>3 DEF TxRecord
      <3>5. tx[r].pc = "find"
        BY <1>5 DEF FindAdmin, At
      <3>6. AdminRow(t.who) \in t.rows => t.new.status # "none"
        BY <1>4, <3>4 DEF Aware, Real
      <3>. QED BY <1>1, <1>3, <3>1, <3>2, <3>3, <3>4, <3>5, <3>6, StepEnrol DEF OwnStatement
    <2>. QED BY <2>2, <2>3
  <1>6. CASE ConsumeRecoveryCode(r)
    <2>1. PICK b : b = tx[r].batch
      OBVIOUS
    <2>2. tx[r].pc = "code"
      BY <1>6 DEF ConsumeRecoveryCode, At
    <2>3. CASE b \in OpenCodes(tx[r].who)
      <3>1. Write(r, {BatchRow(b)}, "success") /\ b \in Batch
        BY <1>6, <2>1, <2>3 DEF ConsumeRecoveryCode, OpenCodes
      <3>2. {BatchRow(b)} \in SUBSET RowName /\ \A x \in {BatchRow(b)} : x[1] # "admin"
        BY <3>1 DEF BatchRow, RowName
      <3>. QED BY <1>1, <2>2, <3>1, <3>2, WriteEnrol DEF PcName, OwnStatement
    <2>4. CASE b \notin OpenCodes(tx[r].who)
      <3>1. Goto(r, "failed")
        BY <1>6, <2>1, <2>4 DEF ConsumeRecoveryCode
      <3>. QED BY <1>1, <2>2, <3>1, GotoEnrol DEF PcName, OwnStatement
    <2>. QED BY <2>3, <2>4
  <1>7. CASE RecordFailedLogin(r)
    <2>1. tx[r].pc = "failed"
      BY <1>7 DEF RecordFailedLogin, At
    <2>2. PICK full \in BOOLEAN : full <=> row.failed + 1 >= MaxAttempts
      OBVIOUS
    <2>3. PICK status : status = IF full THEN "LOCKED" ELSE row.status
      OBVIOUS
    <2>4. PICK new : new = [row EXCEPT !.failed = row.failed + 1, !.locked = full \/ row.locked,
                                       !.status = status]
      OBVIOUS
    <2>5. status \in {"ACTIVE", "SUSPENDED", "LOCKED"} /\ row.failed + 1 \in Nat
      BY <1>4, <2>1, <2>3 DEF Row
    <2>6. new \in Row /\ new.status # "none"
      BY <1>4, <2>4, <2>5 DEF Row
    <2>7. Update(r, new, "throw")
      BY <1>3, <1>7, <2>2, <2>3, <2>4 DEF RecordFailedLogin
    <2>. QED BY <1>1, <2>1, <2>6, <2>7, UpdateEnrol DEF PcName, OwnStatement
  <1>8. CASE LoginSuccess(r)
    <2>1. tx[r].pc = "success"
      BY <1>8 DEF LoginSuccess, At
    <2>2. PICK new : new = [row EXCEPT !.failed = 0, !.locked = FALSE, !.status = Unlocked(row)]
      OBVIOUS
    <2>3. new \in Row /\ new.status # "none"
      BY <1>4, <2>1, <2>2 DEF Row, Unlocked
    <2>4. Update(r, new, "commit")
      BY <1>3, <1>8, <2>2 DEF LoginSuccess
    <2>. QED BY <1>1, <2>1, <2>3, <2>4, UpdateEnrol DEF PcName, OwnStatement
  <1>. QED BY <1>5, <1>6, <1>7, <1>8 DEF LoginStep

LEMMA TokenEnrol ==
  ASSUME IInv, EnrolInv, NEW r \in Request, TokenStep(r)
  PROVE  EnrolInv'
  <1>1. UNCHANGED <<admin, batch, session, access>>
    BY DEF TokenStep, FindSession, FindOwner, RevokeSession, SnapshotSessions, RevokeSessions,
           tables
  <1>2. tx[r].pc \in {"token", "owner", "rotate", "reuse", "revokeAll", "revokeReused",
                      "revokeSessions"}
    BY DEF TokenStep, FindSession, FindOwner, RevokeSession, SnapshotSessions, RevokeSessions, At
  <1>3. /\ Aware(tx[r]) /\ tx[r] \in TxRecord /\ RequestInv(tx[r])
        /\ admin[tx[r].who].status # "none"
    BY <1>2, AwareAt, AtIs
  <1>4. CASE FindSession(r) \/ FindOwner(r)
    <2>1. End(r) \/ Goto(r, "owner") \/ Goto(r, "reuse") \/ Goto(r, "rotate")
      BY <1>4 DEF FindSession, FindOwner
    <2>. QED BY <1>1, <1>2, <2>1, EndEnrol, GotoEnrol DEF PcName, OwnStatement
  <1>5. CASE RevokeSession(r)
    <2>1. PICK s : s = tx[r].token
      OBVIOUS
    <2>2. Write(r, {SessionRow(s)}, "commit") /\ tx[r].pc = "rotate"
      BY <1>5, <2>1 DEF RevokeSession, At
    <2>3. s \in Session
      BY <1>3, <2>1, <2>2 DEF RequestInv, Works, TxRecord
    <2>4. {SessionRow(s)} \in SUBSET RowName /\ \A x \in {SessionRow(s)} : x[1] # "admin"
      BY <2>3 DEF SessionRow, RowName
    <2>. QED BY <1>1, <2>2, <2>4, WriteEnrol DEF PcName, OwnStatement
  <1>6. CASE SnapshotSessions(r)
    <2>1. PICK pc \in {"revokeReused", "revokeSessions"} :
            pc = IF tx[r].pc = "reuse" THEN "revokeReused" ELSE "revokeSessions"
      OBVIOUS
    <2>2. PICK rows : tx' = [tx EXCEPT ![r] = [tx[r] EXCEPT !.pc = pc, !.targets = rows]]
      BY <1>6, <2>1 DEF SnapshotSessions
    <2>3. PICK t : t = [tx[r] EXCEPT !.pc = pc, !.targets = rows]
      OBVIOUS
    <2>4. /\ t.op = tx[r].op /\ t.who = tx[r].who /\ t.pc = pc /\ t.new = tx[r].new
          /\ t.rows = tx[r].rows
      BY <1>3, <2>3 DEF TxRecord
    <2>5. AdminRow(t.who) \in t.rows => t.new.status # "none"
      BY <1>3, <2>4 DEF Aware, Real
    <2>. QED BY <1>1, <1>2, <1>3, <2>2, <2>3, <2>4, <2>5, StepEnrol DEF OwnStatement
  <1>7. CASE RevokeSessions(r)
    <2>1. Write(r, tx[r].targets, "throw") \/ Write(r, tx[r].targets, "commit")
      BY <1>7 DEF RevokeSessions
    <2>2. tx[r].targets \in SUBSET RowName /\ \A x \in tx[r].targets : x[1] # "admin"
      BY <1>3 DEF TxRecord, RequestInv, Works
    <2>. QED BY <1>1, <1>2, <2>1, <2>2, WriteEnrol DEF PcName, OwnStatement
  <1>. QED BY <1>4, <1>5, <1>6, <1>7 DEF TokenStep

\* The statements of enrolments and of a change of password.
LEMMA OwnEnrol ==
  ASSUME IInv, EnrolInv, NEW r \in Request, OwnStep(r)
  PROVE  EnrolInv'
  <1>1. UNCHANGED <<admin, batch, session, access>>
    BY DEF OwnStep, ReadOwn, SetSecret, EnableMfa, SnapshotCodes, ReplaceCodes, UpdatePassword,
           tables
  <1>2. tx[r].pc \in {"read", "write", "replace", "replaceCodes"}
    BY DEF OwnStep, ReadOwn, SetSecret, EnableMfa, SnapshotCodes, ReplaceCodes, UpdatePassword, At
  <1>3. PICK row : row = admin[tx[r].who]
    OBVIOUS
  <1>4. /\ Aware(tx[r]) /\ tx[r] \in TxRecord /\ tx[r].who \in Admin /\ row \in Row
        /\ tx[r].op \in Enrolling \cup {"beginMfa", "changePassword"}
        /\ tx[r].pc # "read" => row.status # "none"
        /\ RequestInv(tx[r])
    BY <1>2, <1>3, AwareAt, AtIs DEF Aware, Route
  <1>5. ASSUME NEW t, tx' = [tx EXCEPT ![r] = t], t.op = tx[r].op, t.who = tx[r].who,
               Route(t), Renews(t), row.status # "none",
               AdminRow(t.who) \in t.rows => t.new.status # "none"
        PROVE  EnrolInv'
    <2>1. Aware(t)
      BY <1>3, <1>5 DEF Aware, Real
    <2>. QED BY <1>1, <1>5, <2>1, MoveEnrol
  <1>6. CASE ReadOwn(r)
    <2>1. tx[r].pc = "read"
      BY <1>6 DEF ReadOwn, At
    <2>2. CASE End(r)
      BY <1>1, <2>2, EndEnrol
    <2>3. CASE ~End(r)
      <3>1. row.status # "none"
        BY <1>3, <1>6, <2>3 DEF ReadOwn
      <3>2. PICK seen : tx' = [tx EXCEPT ![r] = [tx[r] EXCEPT !.pc = "write", !.seen = seen]]
        <4>1. CASE Goto(r, "write")
          <5>1. [tx[r] EXCEPT !.pc = "write", !.seen = tx[r].seen] = [tx[r] EXCEPT !.pc = "write"]
            BY <1>4 DEF TxRecord
          <5>. QED BY <4>1, <5>1 DEF Goto
        <4>2. CASE ~Goto(r, "write")
          BY <1>6, <2>3, <4>2 DEF ReadOwn
        <4>. QED BY <4>1, <4>2
      <3>3. PICK t : t = [tx[r] EXCEPT !.pc = "write", !.seen = seen]
        OBVIOUS
      <3>4. /\ t.op = tx[r].op /\ t.who = tx[r].who /\ t.pc = "write" /\ t.new = tx[r].new
            /\ t.rows = tx[r].rows
        BY <1>4, <3>3 DEF TxRecord
      <3>5. Route(t) /\ Renews(t) /\ (AdminRow(t.who) \in t.rows => t.new.status # "none")
        BY <1>4, <3>4 DEF Aware, Route, Real, Renews, Enrolling
      <3>. QED BY <1>5, <3>1, <3>2, <3>3, <3>4, <3>5
    <2>. QED BY <2>2, <2>3
  <1>7. ASSUME NEW pc \in {"replace", "commit", "revokeAll"}, NEW new \in Row,
               Update(r, new, pc), new.status # "none", tx[r].pc = "write",
               pc = "replace" <=> tx[r].op \in Enrolling
        PROVE  EnrolInv'
    <2>1. pc \in PcName
      BY DEF PcName
    <2>2. PICK t \in TxRecord :
            /\ tx' = [tx EXCEPT ![r] = t] /\ Agrees(t, tx[r]) /\ t.pc = pc /\ t.new = new
            /\ t.rows = tx[r].rows \cup {AdminRow(tx[r].who)}
      BY <1>4, <1>7, <2>1, UpdateIs DEF IInv
    <2>3. Route(t) /\ Renews(t)
      BY <1>4, <1>7, <2>2 DEF Route, Renews, Agrees, Enrolling
    <2>. QED BY <1>4, <1>5, <1>7, <2>2, <2>3 DEF Agrees
  <1>8. CASE SetSecret(r)
    <2>1. PICK boot \in BOOLEAN : boot <=> tx[r].op = "bootstrap"
      OBVIOUS
    <2>2. tx[r].pc = "write" /\ tx[r].op \in {"beginMfa", "bootstrap"} /\ keys' \in Key
      BY <1>8, LimitsNat DEF SetSecret, At, Key, IInv, Types
    <2>3. PICK new : new = [row EXCEPT !.secret = keys', !.mfa = boot]
      OBVIOUS
    <2>4. PICK pc \in {"replace", "commit"} : pc = IF boot THEN "replace" ELSE "commit"
      OBVIOUS
    <2>5. Update(r, new, pc)
      BY <1>3, <1>8, <2>1, <2>3, <2>4 DEF SetSecret
    <2>6. new \in Row /\ new.status = row.status
      BY <1>4, <2>2, <2>3 DEF Row
    <2>. QED BY <1>4, <1>7, <2>1, <2>2, <2>4, <2>5, <2>6 DEF Enrolling
  <1>9. CASE EnableMfa(r)
    <2>1. tx[r].pc = "write" /\ tx[r].op = "confirmMfa"
      BY <1>9 DEF EnableMfa, At
    <2>2. PICK new : new = [row EXCEPT !.secret = tx[r].seen.secret, !.mfa = TRUE]
      OBVIOUS
    <2>3. tx[r].seen \in Row
      BY <1>4 DEF TxRecord
    <2>4. new \in Row /\ new.status = row.status
      BY <1>4, <2>2, <2>3 DEF Row
    <2>5. Update(r, new, "replace")
      BY <1>3, <1>9, <2>2 DEF EnableMfa
    <2>. QED BY <1>4, <1>7, <2>1, <2>4, <2>5 DEF Enrolling
  <1>10. CASE UpdatePassword(r)
    <2>1. tx[r].pc = "write" /\ tx[r].op = "changePassword"
      BY <1>10 DEF UpdatePassword, At
    <2>2. PICK new : new = [row EXCEPT !.failed = 0, !.locked = FALSE, !.status = Unlocked(row)]
      OBVIOUS
    <2>3. new \in Row /\ new.status # "none"
      BY <1>4, <2>1, <2>2 DEF Row, Unlocked
    <2>4. Update(r, new, "revokeAll")
      BY <1>3, <1>10, <2>2 DEF UpdatePassword
    <2>. QED BY <1>7, <2>1, <2>3, <2>4 DEF Enrolling
  <1>11. CASE SnapshotCodes(r)
    <2>1. PICK rows : rows = {BatchRow(b) : b \in OpenCodes(tx[r].who)}
      OBVIOUS
    <2>2. PICK t : t = [tx[r] EXCEPT !.pc = "replaceCodes", !.targets = rows]
      OBVIOUS
    <2>3. tx[r].pc = "replace" /\ tx' = [tx EXCEPT ![r] = t]
      BY <1>11, <2>1, <2>2 DEF SnapshotCodes, At
    <2>4. /\ t.op = tx[r].op /\ t.who = tx[r].who /\ t.pc = "replaceCodes" /\ t.new = tx[r].new
          /\ t.rows = tx[r].rows /\ t.targets = rows
      BY <1>4, <2>2 DEF TxRecord
    <2>5. tx[r].op \in Enrolling /\ AdminRow(tx[r].who) \in tx[r].rows
      BY <1>4, <2>3 DEF Aware, Route, Renews
    <2>6. Route(t) /\ Renews(t) /\ (AdminRow(t.who) \in t.rows => t.new.status # "none")
      BY <1>4, <2>1, <2>4, <2>5 DEF Aware, Route, Real, Renews, Enrolling
    <2>. QED BY <1>4, <1>5, <2>3, <2>4, <2>6
  <1>12. CASE ReplaceCodes(r)
    <2>1. Write(r, tx[r].targets, "commit") /\ tx[r].pc = "replaceCodes"
      BY <1>12 DEF ReplaceCodes, At
    <2>2. tx[r].targets \in SUBSET RowName /\ "commit" \in PcName
      BY <1>4 DEF TxRecord, PcName
    <2>3. PICK t \in TxRecord :
            /\ tx' = [tx EXCEPT ![r] = t] /\ Agrees(t, tx[r]) /\ t.pc = "commit"
            /\ t.new = tx[r].new /\ t.rows = tx[r].rows \cup tx[r].targets
      BY <2>1, <2>2, WriteIs DEF IInv
    <2>4. tx[r].op \in Enrolling /\ AdminRow(tx[r].who) \in tx[r].rows
      BY <1>4, <2>1 DEF Aware, Route, Renews
    <2>5. Route(t) /\ Renews(t) /\ (AdminRow(t.who) \in t.rows => t.new.status # "none")
      BY <1>4, <2>1, <2>3, <2>4 DEF Aware, Route, Real, Renews, Enrolling, Agrees
    <2>. QED BY <1>4, <1>5, <2>1, <2>3, <2>5 DEF Agrees
  <1>. QED BY <1>6, <1>8, <1>9, <1>10, <1>11, <1>12 DEF OwnStep

LEMMA StaffEnrol ==
  ASSUME IInv, EnrolInv, NEW r \in Request, StaffStep(r)
  PROVE  EnrolInv'
  <1>1. UNCHANGED <<admin, batch, session, access>>
    BY DEF StaffStep, InsertAdmin, SetStatus, tables
  <1>2. tx[r].pc \in {"insert", "status"}
    BY DEF StaffStep, InsertAdmin, SetStatus, At
  <1>3. PICK row : row = admin[tx[r].who]
    OBVIOUS
  <1>4. /\ Aware(tx[r]) /\ tx[r] \in TxRecord /\ tx[r].who \in Admin /\ row \in Row
        /\ tx[r].pc = "status" => row.status # "none"
        /\ RequestInv(tx[r])
    BY <1>2, <1>3, AwareAt, AtIs
  <1>5. CASE InsertAdmin(r)
    <2>1. CASE row.status # "none"
      BY <1>1, <1>3, <1>5, <2>1, EndEnrol DEF InsertAdmin
    <2>2. CASE row.status = "none"
      <3>1. tx[r].pc = "insert" /\ tx[r].op = "create"
        BY <1>4, <1>5 DEF InsertAdmin, At, Aware, Route
      <3>2. keys' \in Nat /\ (MfaRequired => keys' \in Key)
        BY <1>3, <1>5, <2>2, LimitsNat, MfaPolicy DEF InsertAdmin, Key, IInv, Types
      <3>3. PICK secret : secret = IF MfaRequired THEN keys' ELSE None
        OBVIOUS
      <3>4. PICK new : new = [NoAdmin EXCEPT !.status = "ACTIVE", !.mfa = MfaRequired,
                                             !.secret = secret]
        OBVIOUS
      <3>5. new \in Row /\ new.status = "ACTIVE"
        BY <3>2, <3>3, <3>4, IdleTyped, MfaPolicy DEF Row
      <3>6. Update(r, new, "commit") /\ "commit" \in PcName
        BY <1>3, <1>5, <2>2, <3>3, <3>4 DEF InsertAdmin, PcName
      <3>7. PICK t \in TxRecord :
              /\ tx' = [tx EXCEPT ![r] = t] /\ Agrees(t, tx[r]) /\ t.pc = "commit" /\ t.new = new
              /\ t.rows = tx[r].rows \cup {AdminRow(tx[r].who)}
        BY <1>4, <3>5, <3>6, UpdateIs DEF IInv
      <3>8. Aware(t)
        BY <1>3, <2>2, <3>1, <3>5, <3>7 DEF Aware, Route, Real, Renews, Enrolling, Agrees
      <3>. QED BY <1>1, <3>7, <3>8, MoveEnrol
    <2>. QED BY <2>1, <2>2
  <1>6. CASE SetStatus(r)
    <2>1. tx[r].pc = "status" /\ tx[r].status \in {"ACTIVE", "SUSPENDED", "LOCKED"}
      BY <1>4, <1>6 DEF SetStatus, At, RequestInv, Works
    <2>2. PICK new : new = [row EXCEPT !.status = tx[r].status,
                                       !.locked = row.locked /\ tx[r].status = "LOCKED"]
      OBVIOUS
    <2>3. new \in Row /\ new.status # "none"
      BY <1>4, <2>1, <2>2 DEF Row
    <2>4. Update(r, new, "commit")
      BY <1>3, <1>6, <2>2 DEF SetStatus
    <2>. QED BY <1>1, <2>1, <2>3, <2>4, UpdateEnrol DEF PcName, OwnStatement
  <1>. QED BY <1>5, <1>6 DEF StaffStep

\* COMMIT publishes codes for the admin whose row it holds, and uses up all others of his.
LEMMA CommitEnrol ==
  ASSUME IInv, EnrolInv, NEW r \in Request, Commit(r)
  PROVE  EnrolInv'
  <1>1. PICK t : t = tx[r]
    OBVIOUS
  <1>2. /\ Aware(t) /\ t \in TxRecord /\ t.who \in Admin /\ t.pc = "commit" /\ RequestInv(t)
    BY <1>1, CommitIs DEF EnrolInv
  <1>3. /\ tx' = [tx EXCEPT ![r] = Idle]
        /\ access' = IF Opens(t) THEN access \cup {t.who} ELSE access
        /\ \E new \in IF Issues(t) THEN {b \in Batch : batch[b] = None} ELSE {None} :
             batch' = [b \in Batch |->
               IF b = new THEN [owner |-> t.who, used |-> FALSE]
               ELSE IF BatchRow(b) \in t.rows THEN [batch[b] EXCEPT !.used = TRUE] ELSE batch[b]]
    BY <1>1 DEF Commit, End
  <1>4. PICK new : /\ batch' = [b \in Batch |->
                         IF b = new THEN [owner |-> t.who, used |-> FALSE]
                         ELSE IF BatchRow(b) \in t.rows THEN [batch[b] EXCEPT !.used = TRUE]
                         ELSE batch[b]]
                   /\ new \in Batch => Issues(t)
    BY <1>3, NoneIsNothing
  <1>5. PICK fresh : session' = [s \in Session |->
                       IF s = fresh THEN [owner |-> t.who, state |-> "active"]
                       ELSE IF SessionRow(s) \in t.rows THEN [session[s] EXCEPT !.state = "revoked"]
                       ELSE session[s]]
    <2>1. PICK fresh \in {s \in Session : session[s] = None} \cup {None} :
            session' = [s \in Session |->
              IF s = fresh THEN [owner |-> tx[r].who, state |-> "active"]
              ELSE IF SessionRow(s) \in tx[r].rows THEN [session[s] EXCEPT !.state = "revoked"]
              ELSE session[s]]
      BY DEF Commit
    <2>. QED BY <1>1, <2>1
  <1>6. /\ \A b \in Batch : BatchRow(b) \in t.rows => batch[b] # None
        /\ \A s \in Session : SessionRow(s) \in t.rows => session[s] # None
    BY <1>2 DEF RequestInv, Works
  <1>7. /\ batch \in [Batch -> BatchRecord \cup {None}]
        /\ session \in [Session -> SessionRecord \cup {None}]
        /\ admin \in [Admin -> Row]
    BY DEF IInv, Types
  <1>8. /\ \A a \in Admin : admin[a].status # "none" => admin'[a].status # "none"
        /\ admin'[t.who].status # "none"
    BY <1>1, <1>2, CommitIs DEF Aware, Real, Renews
  <1>9. ASSUME NEW b \in Batch
        PROVE  /\ b = new => batch'[b] = [owner |-> t.who, used |-> FALSE]
               /\ b # new => /\ batch'[b] # None => batch[b] # None /\ batch'[b].owner = batch[b].owner
                             /\ batch'[b] # None /\ ~batch'[b].used => ~batch[b].used /\ BatchRow(b) \notin t.rows
    <2>1. CASE b = new
      BY <1>4, <2>1
    <2>2. CASE b # new /\ BatchRow(b) \in t.rows
      <3>1. batch'[b] = [batch[b] EXCEPT !.used = TRUE] /\ batch[b] \in BatchRecord
        BY <1>4, <1>6, <1>7, <2>2
      <3>2. batch'[b].owner = batch[b].owner /\ batch'[b].used /\ batch[b] # None
        BY <3>1, NoneIsNothing DEF BatchRecord
      <3>. QED BY <2>2, <3>2
    <2>3. CASE b # new /\ BatchRow(b) \notin t.rows
      BY <1>4, <2>3
    <2>. QED BY <2>1, <2>2, <2>3
  <1>10. ASSUME NEW s \in Session
         PROVE  /\ s = fresh => session'[s].owner = t.who
                /\ s # fresh /\ session'[s] # None =>
                     session[s] # None /\ session'[s].owner = session[s].owner
    <2>1. CASE s = fresh
      BY <1>5, <2>1
    <2>2. CASE s # fresh /\ SessionRow(s) \in t.rows
      <3>1. session'[s] = [session[s] EXCEPT !.state = "revoked"] /\ session[s] \in SessionRecord
        BY <1>5, <1>6, <1>7, <2>2
      <3>2. session'[s].owner = session[s].owner /\ session[s] # None
        BY <3>1, NoneIsNothing DEF SessionRecord
      <3>. QED BY <2>2, <3>2
    <2>3. CASE s # fresh /\ SessionRow(s) \notin t.rows
      BY <1>5, <2>3
    <2>. QED BY <2>1, <2>2, <2>3
  <1>11. Known'
    <2>1. \A b \in Batch : batch[b] # None => batch[b].owner \in Admin
      BY <1>7 DEF BatchRecord
    <2>2. \A s \in Session : session[s] # None => session[s].owner \in Admin
      BY <1>7 DEF SessionRecord
    <2>3. ASSUME NEW b \in Batch, batch'[b] # None PROVE admin'[batch'[b].owner].status # "none"
      BY <1>8, <1>9, <2>1, <2>3 DEF EnrolInv, Known
    <2>4. ASSUME NEW s \in Session, session'[s] # None PROVE admin'[session'[s].owner].status # "none"
      BY <1>8, <1>10, <2>2, <2>4 DEF EnrolInv, Known
    <2>5. \A a \in access' : a \in Admin /\ admin'[a].status # "none"
      BY <1>2, <1>3, <1>8 DEF EnrolInv, Known
    <2>. QED BY <2>3, <2>4, <2>5 DEF Known
  <1>12. ASSUME NEW a, NEW b \in OpenCodes(a)'
         PROVE  /\ b \in Batch
                /\ b = new => a = t.who /\ Issues(t)
                /\ b # new => b \in OpenCodes(a) /\ BatchRow(b) \notin t.rows
    BY <1>4, <1>9, <1>12 DEF OpenCodes
  <1>13. Issues(t) => AdminRow(t.who) \in t.rows /\ \A b \in OpenCodes(t.who) : BatchRow(b) \in t.rows
    <2>1. CASE t.op \in Enrolling
      BY <1>2, <2>1 DEF Aware, Renews
    <2>2. CASE t.op = "create"
      <3>1. AdminRow(t.who) \in t.rows /\ admin[t.who].status = "none"
        BY <1>2, <2>2 DEF Aware, Renews
      <3>2. OpenCodes(t.who) = {}
        BY <3>1 DEF EnrolInv, Known, OpenCodes
      <3>. QED BY <3>1, <3>2
    <2>. QED BY <2>1, <2>2 DEF Issues, Enrolling
  <1>14. OneEach'
    <2>1. ASSUME NEW a \in Admin, NEW b \in OpenCodes(a)', NEW c \in OpenCodes(a)' PROVE b = c
      BY <1>12, <1>13, <2>1 DEF EnrolInv, OneEach
    <2>. QED BY <2>1 DEF OneEach
  <1>15. ASSUME NEW q \in Request PROVE Aware(tx[q])'
    <2>1. tx'[r] = Idle /\ \A p \in Request \ {r} : tx'[p] = tx[p]
      BY <1>3 DEF IInv, Types
    <2>2. CASE q = r
      <3>1. PICK u : u = Idle
        OBVIOUS
      <3>2. u.pc = "idle" /\ u.op = "idle" /\ u.rows = {}
        BY <3>1 DEF Idle
      <3>3. Aware(u)'
        BY <3>2 DEF Aware, Route, Real, Renews, Enrolling
      <3>. QED BY <2>1, <2>2, <3>1, <3>3 DEF Aware, Route, Real, Renews
    <2>3. CASE q # r
      <3>1. PICK u : u = tx[q]
        OBVIOUS
      <3>2. Aware(u) /\ u \in TxRecord /\ t.rows \cap u.rows = {} /\ tx'[q] = u
        BY <1>1, <2>1, <2>3, <3>1 DEF EnrolInv, IInv, Types, RowsApart
      <3>3. u.pc = "idle" \/ u.who \in Admin
        BY <3>1, AtIs
      <3>4. AdminRow(u.who) \in u.rows => u.who # t.who \/ AdminRow(t.who) \notin t.rows
        BY <3>2
      <3>5. AdminRow(u.who) \in u.rows =>
              \A b \in OpenCodes(u.who)' : b \in OpenCodes(u.who)
        BY <1>12, <1>13, <3>4
      <3>6. u.pc # "idle" /\ AdminRow(u.who) \in u.rows => admin'[u.who] = admin[u.who]
        BY <1>1, <3>3, <3>4, CommitIs
      <3>7. Route(u)' /\ Real(u)'
        BY <1>8, <3>2, <3>3 DEF Aware, Route, Real
      <3>8. Renews(u)'
        BY <3>2, <3>5, <3>6 DEF Aware, Route, Renews
      <3>9. Aware(u)'
        BY <3>7, <3>8 DEF Aware
      <3>. QED BY <3>2, <3>9 DEF Aware, Route, Real, Renews
    <2>. QED BY <2>2, <2>3
  <1>. QED BY <1>11, <1>14, <1>15 DEF EnrolInv

LEMMA SameEnrol ==
  ASSUME IInv, EnrolInv, UNCHANGED <<admin, batch, tx>>, access' \subseteq access,
         \A s \in Session : session'[s] # None =>
           session[s] # None /\ session'[s].owner = session[s].owner
  PROVE  EnrolInv'
  <1>1. \A a : OpenCodes(a)' = OpenCodes(a)
    BY DEF OpenCodes
  <1>2. Known' /\ OneEach'
    BY <1>1 DEF EnrolInv, Known, OneEach
  <1>3. ASSUME NEW q \in Request PROVE Aware(tx[q])'
    <2>1. Aware(tx[q])
      BY DEF EnrolInv
    <2>. QED BY <1>1, <2>1 DEF Aware, Route, Real, Renews
  <1>. QED BY <1>2, <1>3 DEF EnrolInv

LEMMA NextEnrol == IInv /\ EnrolInv /\ [Next]_vars => EnrolInv'
  <1>. SUFFICES ASSUME IInv, EnrolInv, [Next]_vars PROVE EnrolInv'
    OBVIOUS
  <1>1. ASSUME NEW r \in Request,
               Start(r) \/ LoginStep(r) \/ TokenStep(r) \/ OwnStep(r) \/ StaffStep(r) \/ Commit(r)
        PROVE  EnrolInv'
    BY <1>1, BeginEnrol, LoginEnrol, TokenEnrol, OwnEnrol, StaffEnrol, CommitEnrol
  <1>2. ASSUME NEW r \in Request, Throw(r) \/ Abort(r) PROVE EnrolInv'
    BY <1>2, EndEnrol DEF Throw, Abort, tables
  <1>3. ASSUME NEW s \in Session, Expire(s) PROVE EnrolInv'
    <2>1. /\ session' = [session EXCEPT ![s] = [session[s] EXCEPT !.state = "expired"]]
          /\ session[s] # None /\ UNCHANGED <<admin, batch, access, tx>>
      BY <1>3 DEF Expire
    <2>2. session \in [Session -> SessionRecord \cup {None}]
      BY DEF IInv, Types
    <2>3. [session[s] EXCEPT !.state = "expired"].owner = session[s].owner
      BY <2>1, <2>2 DEF SessionRecord
    <2>. QED BY <2>1, <2>2, <2>3, SameEnrol
  <1>4. ASSUME NEW a \in Admin, AccessEnds(a) PROVE EnrolInv'
    BY <1>4, SameEnrol DEF AccessEnds
  <1>5. CASE UNCHANGED vars
    BY <1>5, SameEnrol DEF vars
  <1>. QED BY <1>1, <1>2, <1>3, <1>4, <1>5 DEF Next

LEMMA InitEnrol == Init => EnrolInv
  <1>. SUFFICES ASSUME Init PROVE EnrolInv
    OBVIOUS
  <1>1. /\ tx = [r \in Request |-> Idle] /\ batch = [b \in Batch |-> None]
        /\ session = [s \in Session |-> None] /\ access = {}
    BY DEF Init
  <1>2. \A a : OpenCodes(a) = {}
    BY <1>1 DEF OpenCodes
  <1>. QED BY <1>1, <1>2, IdleAware DEF EnrolInv, Known, OneEach

LEMMA Enrolments == Spec => []EnrolInv
  BY InitEnrol, NextEnrol, Invariant, PTL DEF Spec

\* However enrolments overlap with each other, with the script and with sign-ins, an admin
\* has the unused codes of one of them at most.
THEOREM OneSetOfCodes == Spec => []OneCodeSet
  <1>1. OneEach => OneCodeSet
    <2>1. ASSUME OneEach, NEW a \in Admin PROVE Cardinality(OpenCodes(a)) <= 1
      <3>1. OpenCodes(a) = {} \/ \E b : OpenCodes(a) = {b}
        BY <2>1 DEF OneEach
      <3>2. Cardinality(OpenCodes(a)) \in {0, 1}
        BY <3>1, FS_EmptySet, FS_Singleton
      <3>. QED BY <3>2
    <2>. QED BY <2>1 DEF OneCodeSet
  <1>2. EnrolInv => OneCodeSet
    BY <1>1 DEF EnrolInv
  <1>. QED BY <1>2, Enrolments, PTL

\* Every state is typed: no row is locked by two requests, and who has a session, a code
\* or a bearer token exists.
THEOREM TypeCorrect == Spec => []TypeOK
  <1>1. IInv /\ EnrolInv => TypeOK
    BY DEF IInv, Types, RowsApart, EnrolInv, Known, TypeOK, SessionRecord, BatchRecord
  <1>. QED BY <1>1, Invariant, Enrolments, PTL
=============================================================================
