---------------------------- MODULE SessionProofs ----------------------------
(***************************************************************************)
(* Proofs about sessions, on the server's side (UserSessions: any tokens,  *)
(* requests and pool size) and on the browser's (Browser: any finite set   *)
(* of tabs, any calls and incidents).                                      *)
(***************************************************************************)
EXTENDS UserSessions, Browser, TLAPS, FiniteSetTheorems, WellFoundedInduction, NaturalsInduction

-----------------------------------------------------------------------------
(* The invariant                                                           *)

RowName == ({"session", "reset"} \X (Token \cup ResetToken \cup {None})) \cup {UserRow}
OpName  == Op \cup {"idle"}
PcName  == Statement \cup {"idle"}

TxRecord ==
  [op : OpName, arg : Token \cup ResetToken \cup {None}, pc : PcName, shown : Nat,
   rows : SUBSET RowName, found : SUBSET Token, began : SUBSET Token]

Types ==
  /\ session \in [Token -> Status]
  /\ parent \in [Token -> Token \cup {None}]
  /\ password \in Nat
  /\ account \in {"ACTIVE", "SUSPENDED"}
  /\ tx \in [Request -> TxRecord]

\* Only a rotation that has locked its token, and a sign-in, commit without having
\* been through the statement that revokes all sessions.
Route(t) ==
  /\ t.op = "login" => t.pc \in {"recordFailure", "commit"}
  /\ t.op = "refresh" =>
       t.pc \in {"findUser", "revokeOne", "rotate", "snapshotOnPool", "revokeAllOnPool", "commit"}
  /\ t.pc \in {"updateUser", "consume"} => t.op \in {"reset", "change", "block"}
  /\ t.pc \in {"snapshot", "revokeAll"} => t.op \in {"logoutAll", "reset", "change", "block"}
  /\ t.pc \in {"snapshotOnPool", "revokeAllOnPool"} => t.op = "refresh"

\* A rotation knows its token, and holds it from its UPDATE on.
Rotates(t) ==
  t.op = "refresh" /\ t.pc \in {"findUser", "revokeOne", "rotate", "commit"} =>
    /\ t.arg \in Token /\ session[t.arg] # "none"
    /\ t.pc = "commit" => SessionRow(t.arg) \in t.rows

Kept(t, s)   == t.op = "change" /\ s = t.arg
Ending(t, s) == session[s] \in Live => Kept(t, s)

\* Of the sessions that were live when a request began, those that still are have been
\* found by its statement, and then locked.
Finds(t) ==
  /\ \A s \in t.began : session[s] # "none"
  /\ t.pc \in {"revokeAll", "revokeAllOnPool"} => \A s \in t.began : s \in t.found \/ Ending(t, s)
  /\ t.pc = "commit" /\ t.op \notin {"login", "refresh"} =>
       \A s \in t.began : SessionRow(s) \in t.rows \/ Ending(t, s)

RequestInv(t) == Route(t) /\ Rotates(t) /\ Finds(t)

IInv == Types /\ RotatedIsDead /\ \A r \in Request : RequestInv(tx[r])

-----------------------------------------------------------------------------
(* What steps have in common                                               *)

\* A session is issued once and never comes back to life.
Forward ==
  /\ session' \in [Token -> Status]
  /\ \A s \in Token : session[s] # "none" =>
       session'[s] # "none" /\ (session'[s] \in Live => session[s] \in Live)

LEMMA IdleIs ==
  /\ Idle \in TxRecord /\ Idle.op = "idle" /\ Idle.pc = "idle"
  /\ Idle.began = {} /\ Idle.found = {} /\ Idle.rows = {}
  <1>1. /\ Idle.op = "idle" /\ Idle.pc = "idle"
        /\ Idle.began = {} /\ Idle.found = {} /\ Idle.rows = {}
    BY DEF Idle
  <1>2. Idle \in TxRecord
    BY DEF Idle, TxRecord, OpName, PcName
  <1>. QED BY <1>1, <1>2

\* What a request knows outlives whatever the others do to the sessions.
LEMMA Persists ==
  ASSUME Forward, NEW t \in TxRecord, RequestInv(t)
  PROVE  RequestInv(t)'
  <1>1. t.began \subseteq Token
    BY DEF TxRecord
  <1>2. Rotates(t)'
    BY DEF RequestInv, Rotates, Forward
  <1>3. ASSUME NEW s \in t.began PROVE /\ session'[s] # "none"
                                       /\ Ending(t, s) => Ending(t, s)'
    BY <1>1 DEF RequestInv, Finds, Forward, Ending, Kept
  <1>4. Finds(t)'
    BY <1>3 DEF RequestInv, Finds
  <1>. QED BY <1>2, <1>4 DEF RequestInv, Route

LEMMA IdleInv == RequestInv(Idle) /\ RequestInv(Idle)'
  <1>1. PICK t : t = Idle
    OBVIOUS
  <1>2. /\ t.op = "idle" /\ t.pc = "idle"
        /\ t.began = {} /\ t.found = {} /\ t.rows = {}
    BY <1>1, IdleIs
  <1>3. RequestInv(t) /\ RequestInv(t)'
    BY <1>2 DEF RequestInv, Route, Rotates, Finds
  <1>. QED BY <1>1, <1>3

LEMMA MoveInv ==
  ASSUME IInv, NEW r \in Request, NEW t \in TxRecord, tx' = [tx EXCEPT ![r] = t],
         UNCHANGED <<session, parent, password, account>>, RequestInv(t)
  PROVE  IInv'
  <1>1. tx' \in [Request -> TxRecord] /\ tx'[r] = t /\ \A q \in Request \ {r} : tx'[q] = tx[q]
    BY DEF IInv, Types
  <1>2. Types' /\ RotatedIsDead'
    BY <1>1 DEF IInv, Types, RotatedIsDead
  <1>3. ASSUME NEW q \in Request PROVE RequestInv(tx'[q])
    BY <1>1 DEF IInv
  <1>4. ASSUME NEW q \in Request PROVE RequestInv(tx[q])'
    BY <1>3 DEF RequestInv, Route, Rotates, Finds, Ending, Kept
  <1>. QED BY <1>2, <1>4 DEF IInv

\* A step that changes tables, and ends r if it is a request's.
LEMMA TablesInv ==
  ASSUME IInv, Forward,
         tx' = tx \/ \E r \in Request : End(r),
         parent' \in [Token -> Token \cup {None}], RotatedIsDead',
         password' \in Nat, account' \in {"ACTIVE", "SUSPENDED"}
  PROVE  IInv'
  <1>1. /\ tx' \in [Request -> TxRecord]
        /\ \A q \in Request : tx'[q] = tx[q] \/ tx'[q] = Idle
    BY IdleIs DEF IInv, Types, End
  <1>2. Types'
    BY <1>1 DEF Types, Forward
  <1>3. ASSUME NEW q \in Request PROVE RequestInv(tx[q])'
    <2>1. CASE tx'[q] = Idle
      BY <2>1, IdleInv DEF RequestInv, Route, Rotates, Finds, Ending, Kept
    <2>2. CASE tx'[q] = tx[q]
      <3>1. PICK t : t = tx[q]
        OBVIOUS
      <3>2. t \in TxRecord /\ RequestInv(t)
        BY <3>1 DEF IInv, Types
      <3>3. RequestInv(t)'
        BY <3>2, Persists
      <3>. QED BY <2>2, <3>1, <3>3 DEF RequestInv, Route, Rotates, Finds, Ending, Kept
    <2>. QED BY <1>1, <2>1, <2>2
  <1>. QED BY <1>2, <1>3 DEF IInv

-----------------------------------------------------------------------------
(* Steps that only change what one request is about                        *)

LEMMA FailInv ==
  ASSUME IInv, NEW r \in Request, Fail(r)
  PROVE  IInv'
  BY MoveInv, IdleIs, IdleInv DEF Fail, End, tables

LEMMA BeginInv ==
  ASSUME IInv, NEW r \in Request, NEW op \in Op, NEW arg \in Token \cup ResetToken \cup {None},
         NEW pc \in {"recordFailure", "findUser", "revokeOne", "updateUser", "snapshot",
                     "snapshotOnPool", "commit"},
         Begin(r, op, arg, pc),
         op = "login" => pc \in {"recordFailure", "commit"},
         op = "refresh" => /\ pc \in {"findUser", "revokeOne", "snapshotOnPool"}
                           /\ arg \in Token /\ session[arg] # "none",
         pc = "snapshot" => op = "logoutAll",
         pc = "updateUser" => op \in {"change", "block"},
         pc = "snapshotOnPool" => op = "refresh",
         pc = "commit" => op = "login" /\ account = "ACTIVE"
  PROVE  IInv'
  <1>1. PICK t : t = [op |-> op, arg |-> arg, pc |-> pc,
                      shown |-> IF op = "login" THEN password ELSE 0,
                      rows |-> {}, found |-> {}, began |-> LiveSessions]
    OBVIOUS
  <1>2. tx' = [tx EXCEPT ![r] = t] /\ UNCHANGED <<session, parent, password, account>>
    BY <1>1 DEF Begin, tables
  <1>3. /\ t.op = op /\ t.pc = pc /\ t.arg = arg /\ t.began = LiveSessions
        /\ t.rows = {} /\ t.found = {}
    BY <1>1
  <1>4. pc \in PcName
    BY DEF PcName, Statement
  <1>5. t \in TxRecord
    <2>1. LiveSessions \in SUBSET Token /\ password \in Nat
      BY DEF LiveSessions, IInv, Types
    <2>. QED BY <1>1, <1>4, <2>1 DEF TxRecord, OpName
  <1>6. Route(t) /\ Rotates(t)
    BY <1>3 DEF Route, Rotates
  <1>7. Finds(t)
    BY <1>3 DEF Finds, LiveSessions, Live
  <1>. QED BY <1>2, <1>5, <1>6, <1>7, MoveInv DEF RequestInv

LEMMA StartInv ==
  ASSUME IInv, NEW r \in Request, Start(r)
  PROVE  IInv'
  <1>1. session \in [Token -> Status]
    BY DEF IInv, Types
  <1>2. CASE Login(r)
    BY <1>2, BeginInv DEF Login, Op
  <1>3. CASE LogoutAll(r) \/ BlockUser(r)
    BY <1>3, BeginInv DEF LogoutAll, BlockUser, Op
  <1>4. ASSUME NEW t \in Token, Refresh(r, t) PROVE IInv'
    BY <1>4, BeginInv DEF Refresh, Op
  <1>5. ASSUME NEW k \in ResetToken, ResetPassword(r, k) PROVE IInv'
    BY <1>5, BeginInv DEF ResetPassword, Op
  <1>6. ASSUME NEW t \in LiveSessions \cup {None}, ChangePassword(r, t) PROVE IInv'
    BY <1>6, BeginInv DEF ChangePassword, LiveSessions, Op
  <1>. QED BY <1>2, <1>3, <1>4, <1>5, <1>6 DEF Start

\* What a statement leaves alone.
Agrees(t, u) ==
  /\ t.op = u.op /\ t.arg = u.arg /\ t.found = u.found /\ t.began = u.began

\* Where a request may go from a statement that finds nothing, and what it then knows.
Leads(r, pc) ==
  /\ tx[r].op # "login"
  /\ pc \in {"updateUser", "consume", "snapshot"} => tx[r].op \in {"reset", "change", "block"}
  /\ pc \in {"rotate", "snapshotOnPool"} => tx[r].op = "refresh" /\ tx[r].pc = "findUser"

LEMMA GotoInv ==
  ASSUME IInv, NEW r \in Request,
         NEW pc \in {"updateUser", "rotate", "snapshotOnPool"}, Goto(r, pc), Leads(r, pc)
  PROVE  IInv'
  <1>1. tx[r] \in TxRecord /\ RequestInv(tx[r]) /\ UNCHANGED <<session, parent, password, account>>
    BY DEF IInv, Types, Goto, tables
  <1>2. PICK t : t = [tx[r] EXCEPT !.pc = pc]
    OBVIOUS
  <1>3. tx' = [tx EXCEPT ![r] = t]
    BY <1>2 DEF Goto
  <1>4. pc \in PcName
    BY DEF PcName, Statement
  <1>5. t \in TxRecord
    BY <1>1, <1>2, <1>4 DEF TxRecord
  <1>6. Agrees(t, tx[r]) /\ t.pc = pc /\ t.rows = tx[r].rows
    BY <1>1, <1>2 DEF TxRecord, Agrees
  <1>7. Route(t) /\ Rotates(t) /\ Finds(t)
    BY <1>1, <1>6 DEF RequestInv, Route, Rotates, Finds, Agrees, Leads
  <1>. QED BY <1>1, <1>3, <1>5, <1>7, MoveInv DEF RequestInv

LEMMA LockInv ==
  ASSUME IInv, NEW r \in Request, NEW row \in RowName,
         NEW pc \in {"consume", "snapshot", "commit"}, Lock(r, row, pc), Leads(r, pc),
         pc = "commit" => /\ tx[r].op = "refresh" /\ tx[r].pc = "rotate"
                          /\ row = SessionRow(tx[r].arg)
  PROVE  IInv'
  <1>1. tx[r] \in TxRecord /\ RequestInv(tx[r]) /\ UNCHANGED <<session, parent, password, account>>
    BY DEF IInv, Types, Lock, tables
  <1>2. PICK t : t = [tx[r] EXCEPT !.pc = pc, !.rows = tx[r].rows \cup {row}]
    OBVIOUS
  <1>3. tx' = [tx EXCEPT ![r] = t]
    BY <1>2 DEF Lock
  <1>4. pc \in PcName
    BY DEF PcName, Statement
  <1>5. t \in TxRecord
    BY <1>1, <1>2, <1>4 DEF TxRecord
  <1>6. Agrees(t, tx[r]) /\ t.pc = pc /\ t.rows = tx[r].rows \cup {row}
    BY <1>1, <1>2 DEF TxRecord, Agrees
  <1>7. Route(t) /\ Rotates(t) /\ Finds(t)
    BY <1>1, <1>6 DEF RequestInv, Route, Rotates, Finds, Agrees, Leads
  <1>. QED BY <1>1, <1>3, <1>5, <1>7, MoveInv DEF RequestInv

LEMMA StatementsInv ==
  ASSUME IInv, NEW r \in Request,
         \/ RefreshFindUser(r) \/ RefreshRotate(r)
         \/ UpdateUser(r) \/ ResetFindUser(r) \/ ResetConsume(r)
  PROVE  IInv'
  <1>1. tx[r] \in TxRecord /\ RequestInv(tx[r])
    BY DEF IInv, Types
  <1>2. CASE RefreshFindUser(r)
    <2>1. PICK pc \in {"rotate", "snapshotOnPool"} :
            pc = IF account = "ACTIVE" THEN "rotate" ELSE "snapshotOnPool"
      OBVIOUS
    <2>2. Goto(r, pc) /\ tx[r].op = "refresh" /\ tx[r].pc = "findUser"
      BY <1>2, <2>1 DEF RefreshFindUser, At
    <2>3. Leads(r, pc)
      BY <2>1, <2>2 DEF Leads
    <2>. QED BY <2>2, <2>3, GotoInv
  <1>3. CASE RefreshRotate(r)
    <2>1. /\ tx[r].op = "refresh" /\ tx[r].pc = "rotate"
          /\ Lock(r, SessionRow(tx[r].arg), "commit")
      BY <1>3 DEF RefreshRotate, At
    <2>2. SessionRow(tx[r].arg) \in RowName
      BY <1>1 DEF TxRecord, RowName, SessionRow
    <2>3. Leads(r, "commit")
      BY <2>1 DEF Leads
    <2>. QED BY <2>1, <2>2, <2>3, LockInv
  <1>4. CASE ResetFindUser(r)
    <2>1. tx[r].op = "reset" /\ (Fail(r) \/ Goto(r, "updateUser"))
      BY <1>4 DEF ResetFindUser, At
    <2>2. Leads(r, "updateUser")
      BY <2>1 DEF Leads
    <2>. QED BY <2>1, <2>2, FailInv, GotoInv
  <1>5. CASE ResetConsume(r)
    <2>1. tx[r].op = "reset" /\ Lock(r, ResetRow(tx[r].arg), "snapshot")
      BY <1>5 DEF ResetConsume, At
    <2>2. ResetRow(tx[r].arg) \in RowName
      BY <1>1 DEF TxRecord, RowName, ResetRow
    <2>3. Leads(r, "snapshot")
      BY <2>1 DEF Leads
    <2>. QED BY <2>1, <2>2, <2>3, LockInv
  <1>6. CASE UpdateUser(r)
    <2>1. PICK pc \in {"consume", "snapshot"} :
            pc = IF tx[r].op = "reset" THEN "consume" ELSE "snapshot"
      OBVIOUS
    <2>2. tx[r].pc = "updateUser" /\ (Fail(r) \/ Lock(r, UserRow, pc))
      BY <1>6, <2>1 DEF UpdateUser
    <2>3. tx[r].op \in {"reset", "change", "block"}
      BY <1>1, <2>2 DEF RequestInv, Route
    <2>4. Leads(r, pc) /\ UserRow \in RowName
      BY <2>3 DEF Leads, RowName
    <2>. QED BY <2>2, <2>4, FailInv, LockInv
  <1>. QED BY <1>2, <1>3, <1>4, <1>5, <1>6

-----------------------------------------------------------------------------
(* Revoking all sessions                                                   *)

LEMMA SnapshotInv ==
  ASSUME IInv, NEW r \in Request, Snapshot(r) \/ SnapshotOnPool(r)
  PROVE  IInv'
  <1>1. /\ tx[r] \in TxRecord /\ RequestInv(tx[r])
        /\ UNCHANGED <<session, parent, password, account>>
    BY DEF IInv, Types, Snapshot, SnapshotOnPool, tables
  <1>2. PICK kept \in SUBSET {tx[r].arg} :
          kept = IF Snapshot(r) /\ tx[r].op = "change" THEN {tx[r].arg} ELSE {}
    OBVIOUS
  <1>3. PICK pc \in {"revokeAll", "revokeAllOnPool"} :
          /\ pc = IF Snapshot(r) THEN "revokeAll" ELSE "revokeAllOnPool"
    OBVIOUS
  <1>4. PICK t : t = [tx[r] EXCEPT !.found = LiveSessions \ kept, !.pc = pc]
    OBVIOUS
  <1>5. tx' = [tx EXCEPT ![r] = t]
    <2>1. CASE Snapshot(r)
      BY <1>2, <1>3, <1>4, <2>1 DEF Snapshot
    <2>2. CASE ~Snapshot(r)
      <3>1. SnapshotOnPool(r) /\ kept = {} /\ pc = "revokeAllOnPool"
        BY <1>2, <1>3, <2>2
      <3>2. t = [tx[r] EXCEPT !.found = LiveSessions, !.pc = "revokeAllOnPool"]
        BY <1>4, <3>1
      <3>. QED BY <3>1, <3>2 DEF SnapshotOnPool
    <2>. QED BY <2>1, <2>2
  <1>6. pc \in PcName /\ LiveSessions \in SUBSET Token
    BY DEF PcName, Statement, LiveSessions
  <1>7. t \in TxRecord
    BY <1>1, <1>4, <1>6 DEF TxRecord
  <1>8. /\ t.op = tx[r].op /\ t.arg = tx[r].arg /\ t.began = tx[r].began
        /\ t.found = LiveSessions \ kept /\ t.pc = pc
    BY <1>1, <1>4 DEF TxRecord
  <1>9. Route(t)
    <2>1. CASE Snapshot(r)
      BY <1>1, <1>3, <1>8, <2>1 DEF Snapshot, RequestInv, Route
    <2>2. CASE ~Snapshot(r)
      BY <1>1, <1>3, <1>8, <2>2 DEF SnapshotOnPool, RequestInv, Route
    <2>. QED BY <2>1, <2>2
  <1>10. Rotates(t)
    BY <1>1, <1>8 DEF RequestInv, Rotates
  <1>11. Finds(t)
    <2>1. ASSUME NEW s \in t.began PROVE s \in t.found \/ Ending(t, s)
      <3>1. s \in Token
        BY <1>7 DEF TxRecord
      <3>. QED BY <1>2, <1>8, <3>1 DEF LiveSessions, Ending, Kept
    <2>2. \A s \in t.began : session[s] # "none"
      BY <1>1, <1>8 DEF RequestInv, Finds
    <2>. QED BY <1>8, <2>1, <2>2 DEF Finds
  <1>. QED BY <1>1, <1>5, <1>7, <1>9, <1>10, <1>11, MoveInv DEF RequestInv

LEMMA RevokeAllInv ==
  ASSUME IInv, NEW r \in Request, RevokeAll(r)
  PROVE  IInv'
  <1>1. /\ tx[r] \in TxRecord /\ RequestInv(tx[r]) /\ tx[r].pc = "revokeAll"
        /\ UNCHANGED <<session, parent, password, account>>
    BY DEF IInv, Types, RevokeAll, tables
  <1>2. PICK rows : rows = {SessionRow(t) : t \in tx[r].found \cap LiveSessions}
    OBVIOUS
  <1>3. PICK t : t = [tx[r] EXCEPT !.pc = "commit", !.found = {}, !.rows = tx[r].rows \cup rows]
    OBVIOUS
  <1>4. tx' = [tx EXCEPT ![r] = t]
    BY <1>2, <1>3 DEF RevokeAll
  <1>5. rows \in SUBSET RowName
    BY <1>2 DEF LiveSessions, SessionRow, RowName
  <1>6. "commit" \in PcName
    BY DEF PcName, Statement
  <1>7. t \in TxRecord
    BY <1>1, <1>3, <1>5, <1>6 DEF TxRecord
  <1>8. /\ t.op = tx[r].op /\ t.arg = tx[r].arg /\ t.began = tx[r].began
        /\ t.rows = tx[r].rows \cup rows /\ t.pc = "commit"
    BY <1>1, <1>3 DEF TxRecord
  <1>9. t.op \in {"logoutAll", "reset", "change", "block"}
    BY <1>1, <1>8 DEF RequestInv, Route
  <1>10. Route(t) /\ Rotates(t)
    BY <1>1, <1>8, <1>9 DEF RequestInv, Route, Rotates
  <1>11. Finds(t)
    <2>1. ASSUME NEW s \in t.began PROVE SessionRow(s) \in t.rows \/ Ending(t, s)
      <3>1. s \in Token
        BY <1>7 DEF TxRecord
      <3>2. s \in tx[r].found \/ Ending(tx[r], s)
        BY <1>1, <1>8 DEF RequestInv, Finds
      <3>. QED BY <1>2, <1>8, <3>1, <3>2 DEF LiveSessions, Ending, Kept
    <2>2. \A s \in t.began : session[s] # "none"
      BY <1>1, <1>8 DEF RequestInv, Finds
    <2>. QED BY <1>8, <2>1, <2>2 DEF Finds
  <1>. QED BY <1>1, <1>4, <1>7, <1>10, <1>11, MoveInv DEF RequestInv

-----------------------------------------------------------------------------
(* Steps that change the tables                                            *)

\* A new value of some sessions, each as a revocation, a lapse or the end of a grace
\* period leaves it.
LEMMA RotatedStays ==
  ASSUME RotatedIsDead, Types, Forward, parent' = parent
  PROVE  RotatedIsDead'
  BY NoneIsNoToken DEF RotatedIsDead, Types, Forward, Status, Live

LEMMA RevokedIs ==
  ASSUME NEW s \in Status
  PROVE  /\ Revoked(s) \in Status /\ Revoked(s) \notin Live
         /\ s # "none" => Revoked(s) # "none" /\ Revoked(s) \in {"grace", "revoked"}
  BY DEF Revoked, Status, Live

LEMMA PublishForward ==
  ASSUME IInv, NEW r \in Request
  PROVE  /\ Publish(r) \in [Token -> Status]
         /\ \A s \in Token :
              /\ session[s] # "none" =>
                   Publish(r)[s] # "none" /\ (Publish(r)[s] \in Live => session[s] \in Live)
              /\ SessionRow(s) \in tx[r].rows => Publish(r)[s] = Revoked(session[s])
              /\ session[s] \notin Live => Publish(r)[s] \notin Live
  <1>1. session \in [Token -> Status]
    BY DEF IInv, Types
  <1>2. ASSUME NEW s \in Token
        PROVE  /\ Publish(r)[s] \in {session[s], Revoked(session[s])}
               /\ SessionRow(s) \in tx[r].rows => Publish(r)[s] = Revoked(session[s])
    BY DEF Publish
  <1>3. Publish(r) \in [Token -> Status]
    <2>1. \A s \in Token : Publish(r)[s] \in Status
      BY <1>1, <1>2, RevokedIs
    <2>. QED BY <2>1 DEF Publish
  <1>. QED BY <1>1, <1>2, <1>3, RevokedIs

\* Where no session changes but by revocation, and none is issued.
LEMMA PublishInv ==
  ASSUME IInv, NEW r \in Request, session' = Publish(r), End(r), parent' = parent,
         password' \in Nat, account' \in {"ACTIVE", "SUSPENDED"}
  PROVE  IInv'
  <1>1. Forward
    BY PublishForward DEF Forward
  <1>2. parent' \in [Token -> Token \cup {None}] /\ RotatedIsDead'
    BY <1>1, RotatedStays DEF IInv, Types
  <1>. QED BY <1>1, <1>2, TablesInv

LEMMA CommitsInv ==
  ASSUME IInv, NEW r \in Request,
         CommitLogoutAll(r) \/ CommitReset(r) \/ CommitChange(r) \/ CommitBlock(r)
  PROVE  IInv'
  <1>1. password \in Nat /\ account \in {"ACTIVE", "SUSPENDED"}
    BY DEF IInv, Types
  <1>. QED BY <1>1, PublishInv DEF CommitLogoutAll, CommitReset, CommitChange, CommitBlock

LEMMA CommitLoginInv ==
  ASSUME IInv, NEW r \in Request, CommitLogin(r)
  PROVE  IInv'
  <1>1. CASE Exhausted(r)
    BY <1>1, FailInv DEF Exhausted
  <1>2. ASSUME NEW t \in Token, session[t] = "none", session' = [session EXCEPT ![t] = "active"],
               End(r), UNCHANGED <<parent, password, account>>
        PROVE  IInv'
    <2>1. Forward
      BY <1>2 DEF IInv, Types, Forward, Status, Live
    <2>2. /\ parent' \in [Token -> Token \cup {None}] /\ RotatedIsDead'
          /\ password' \in Nat /\ account' \in {"ACTIVE", "SUSPENDED"}
      BY <1>2, <2>1, RotatedStays DEF IInv, Types
    <2>. QED BY <1>2, <2>1, <2>2, TablesInv
  <1>. QED BY <1>1, <1>2 DEF CommitLogin

\* The exchanged token dies in the step that issues its successor.
LEMMA CommitRefreshInv ==
  ASSUME IInv, NEW r \in Request, CommitRefresh(r)
  PROVE  IInv'
  <1>1. CASE Exhausted(r)
    BY <1>1, FailInv DEF Exhausted
  <1>2. ASSUME NEW t \in Token, session[t] = "none",
               session' = [Publish(r) EXCEPT ![t] = "active"],
               parent' = [parent EXCEPT ![t] = tx[r].arg],
               End(r), UNCHANGED <<password, account>>
        PROVE  IInv'
    <2>1. PICK arg : arg = tx[r].arg
      OBVIOUS
    <2>2. arg \in Token /\ session[arg] # "none" /\ SessionRow(arg) \in tx[r].rows
      BY <2>1 DEF CommitRefresh, At, IInv, RequestInv, Rotates
    <2>3. session \in [Token -> Status] /\ parent \in [Token -> Token \cup {None}]
      BY DEF IInv, Types
    <2>4. /\ session'[t] = "active"
          /\ \A s \in Token \ {t} : session'[s] = Publish(r)[s]
      BY <1>2, PublishForward
    <2>5. Forward
      <3>1. session' \in [Token -> Status]
        BY <1>2, PublishForward DEF Status, Live
      <3>. QED BY <1>2, <2>4, <3>1, PublishForward DEF Forward
    <2>6. session'[arg] \in {"grace", "revoked"}
      BY <1>2, <2>2, <2>3, <2>4, PublishForward, RevokedIs
    <2>7. parent' \in [Token -> Token \cup {None}]
      BY <1>2, <2>1, <2>2, <2>3
    <2>8. ASSUME NEW s \in Token, parent'[s] # None
          PROVE  session'[parent'[s]] \in {"grace", "revoked"}
      <3>1. CASE s = t
        BY <1>2, <2>1, <2>3, <2>6, <3>1
      <3>2. CASE s # t
        <4>1. parent'[s] = parent[s] /\ parent[s] \in Token
          BY <1>2, <2>3, <2>8, <3>2
        <4>2. session[parent[s]] \in {"grace", "revoked"}
          BY <2>8, <4>1 DEF IInv, RotatedIsDead
        <4>. QED BY <2>5, <4>1, <4>2 DEF Forward, Status, Live
      <3>. QED BY <3>1, <3>2
    <2>9. password' \in Nat /\ account' \in {"ACTIVE", "SUSPENDED"}
      BY <1>2 DEF IInv, Types
    <2>. QED BY <1>2, <2>5, <2>7, <2>8, <2>9, TablesInv DEF RotatedIsDead
  <1>. QED BY <1>1, <1>2 DEF CommitRefresh

\* Statements on the pool, sign-outs and the clock.
LEMMA SingleInv ==
  ASSUME IInv, Forward, tx' = tx \/ \E r \in Request : End(r),
         UNCHANGED <<parent, password, account>>
  PROVE  IInv'
  <1>1. /\ parent' \in [Token -> Token \cup {None}] /\ RotatedIsDead'
        /\ password' \in Nat /\ account' \in {"ACTIVE", "SUSPENDED"}
    BY RotatedStays DEF IInv, Types
  <1>. QED BY <1>1, TablesInv

LEMMA OneForward ==
  ASSUME Types, NEW t \in Token, NEW s \in Status, session' = [session EXCEPT ![t] = s],
         session[t] # "none" => s # "none" /\ (s \in Live => session[t] \in Live)
  PROVE  Forward
  BY DEF Types, Forward

LEMMA PoolInv ==
  ASSUME IInv, NEW r \in Request, RevokeAllOnPool(r) \/ RefreshRevokeExpired(r)
  PROVE  IInv'
  <1>1. session \in [Token -> Status]
    BY DEF IInv, Types
  <1>2. CASE RevokeAllOnPool(r)
    <2>1. session' = [t \in Token |-> IF t \in tx[r].found THEN Revoked(session[t]) ELSE session[t]]
      BY <1>2 DEF RevokeAllOnPool
    <2>2. Forward
      BY <1>1, <2>1, RevokedIs DEF Forward
    <2>. QED BY <1>2, <2>2, SingleInv DEF RevokeAllOnPool
  <1>3. CASE RefreshRevokeExpired(r)
    <2>1. PICK t : t = tx[r].arg
      OBVIOUS
    <2>2. t \in Token
      BY <1>3, <2>1 DEF RefreshRevokeExpired, At, IInv, RequestInv, Rotates
    <2>3. session' = [session EXCEPT ![t] = Revoked(session[t])]
      BY <1>1, <1>3, <2>1 DEF RefreshRevokeExpired
    <2>4. Forward
      BY <1>1, <2>2, <2>3, RevokedIs, OneForward DEF IInv
    <2>. QED BY <1>3, <2>4, SingleInv DEF RefreshRevokeExpired
  <1>. QED BY <1>2, <1>3

LEMMA ClockInv ==
  ASSUME IInv, NEW t \in Token, Logout(t) \/ Expire(t) \/ GraceEnds(t)
  PROVE  IInv'
  <1>1. session \in [Token -> Status] /\ UNCHANGED <<parent, password, account, tx>>
    BY DEF IInv, Types, Logout, Expire, GraceEnds
  <1>2. PICK s : s = Revoked(session[t])
    OBVIOUS
  <1>3. CASE Logout(t)
    <2>1. session' = [session EXCEPT ![t] = s]
      BY <1>1, <1>2, <1>3 DEF Logout
    <2>2. Forward
      BY <1>1, <1>2, <2>1, RevokedIs, OneForward DEF IInv
    <2>. QED BY <1>1, <2>2, SingleInv
  <1>4. CASE Expire(t) \/ GraceEnds(t)
    <2>1. Forward
      BY <1>1, <1>4, OneForward DEF IInv, Expire, GraceEnds, Status, Live
    <2>. QED BY <1>1, <2>1, SingleInv
  <1>. QED BY <1>3, <1>4

LEMMA UnblockInv ==
  ASSUME IInv, UnblockUser
  PROVE  IInv'
  BY DEF UnblockUser, IInv, Types, RotatedIsDead, RequestInv, Route, Rotates, Finds, Ending, Kept

LEMMA SameInv ==
  ASSUME IInv, UNCHANGED <<session, parent, password, account, tx>>
  PROVE  IInv'
  BY DEF IInv, Types, RotatedIsDead, RequestInv, Route, Rotates, Finds, Ending, Kept

-----------------------------------------------------------------------------
(* Theorems                                                                *)

LEMMA InitInv == Init => IInv
  <1>. SUFFICES ASSUME Init PROVE IInv
    OBVIOUS
  <1>1. Types
    BY IdleIs DEF Init, Types, Status
  <1>2. RotatedIsDead
    BY DEF Init, RotatedIsDead
  <1>3. \A r \in Request : RequestInv(tx[r])
    BY IdleInv DEF Init
  <1>. QED BY <1>1, <1>2, <1>3 DEF IInv

LEMMA NextInv == IInv /\ [Next]_vars => IInv'
  <1>. SUFFICES ASSUME IInv, [Next]_vars PROVE IInv'
    OBVIOUS
  <1>1. ASSUME NEW r \in Request, Start(r) PROVE IInv'
    BY <1>1, StartInv
  <1>2. ASSUME NEW r \in Request, Proceed(r) PROVE IInv'
    BY <1>2, FailInv, StatementsInv, SnapshotInv, RevokeAllInv, CommitsInv, CommitLoginInv,
       CommitRefreshInv, PoolInv DEF Proceed, LoginRecordFailure
  <1>3. ASSUME NEW r \in Request, Abort(r) PROVE IInv'
    BY <1>3, FailInv DEF Abort
  <1>4. ASSUME NEW t \in Token, Logout(t) \/ Expire(t) \/ GraceEnds(t) PROVE IInv'
    BY <1>4, ClockInv
  <1>5. ASSUME NEW k \in ResetToken, RequestPasswordReset(k) PROVE IInv'
    BY <1>5, SameInv DEF RequestPasswordReset
  <1>6. CASE UnblockUser
    BY <1>6, UnblockInv
  <1>7. CASE UNCHANGED vars
    BY <1>7, SameInv DEF vars
  <1>. QED BY <1>1, <1>2, <1>3, <1>4, <1>5, <1>6, <1>7 DEF Next

LEMMA Invariant == Spec => []IInv
  BY InitInv, NextInv, PTL DEF Spec

\* Whatever runs at the same time, a refresh token that has been exchanged is dead.
THEOREM RotatedTokensDie == Spec => []RotatedIsDead
  <1>1. IInv => RotatedIsDead
    BY DEF IInv
  <1>. QED BY <1>1, Invariant, PTL

\* When a request tells its caller that the sessions are over, every session that was
\* live when it began is, but for the one that a change of password keeps.
THEOREM RevocationsAreTotal == Spec => RevocationIsTotal
  <1>1. ASSUME IInv, NEW r \in Request, EndsSessions(r), NEW s \in tx[r].began
        PROVE  session'[s] \notin Live \/ (tx[r].op = "change" /\ s = tx[r].arg)
    <2>1. tx[r] \in TxRecord /\ RequestInv(tx[r]) /\ session \in [Token -> Status]
      BY <1>1 DEF IInv, Types
    <2>2. s \in Token
      BY <1>1, <2>1 DEF TxRecord
    <2>3. CASE CommitLogoutAll(r) \/ CommitReset(r) \/ CommitChange(r) \/ CommitBlock(r)
      <3>1. /\ tx[r].pc = "commit" /\ tx[r].op \notin {"login", "refresh"}
            /\ session' = Publish(r)
        BY <2>3 DEF CommitLogoutAll, CommitReset, CommitChange, CommitBlock, At
      <3>2. SessionRow(s) \in tx[r].rows \/ Ending(tx[r], s)
        BY <1>1, <2>1, <3>1 DEF RequestInv, Finds
      <3>. QED BY <1>1, <2>1, <2>2, <3>1, <3>2, PublishForward, RevokedIs DEF Ending, Kept
    <2>4. CASE RevokeAllOnPool(r)
      <3>1. /\ tx[r].pc = "revokeAllOnPool"
            /\ session' = [t \in Token |->
                 IF t \in tx[r].found THEN Revoked(session[t]) ELSE session[t]]
        BY <2>4 DEF RevokeAllOnPool
      <3>2. s \in tx[r].found \/ Ending(tx[r], s)
        BY <1>1, <2>1, <3>1 DEF RequestInv, Finds
      <3>. QED BY <2>1, <2>2, <3>1, <3>2, RevokedIs DEF Ending, Kept
    <2>. QED BY <1>1, <2>3, <2>4 DEF EndsSessions
  <1>2. IInv =>
          [\A r \in Request : EndsSessions(r) =>
             \A t \in tx[r].began :
               session'[t] \notin Live \/ (tx[r].op = "change" /\ t = tx[r].arg)]_vars
    BY <1>1
  <1>. QED BY <1>2, Invariant, PTL DEF RevocationIsTotal

\* What a revocation, or nothing, does to a token's row.
Kindly(a, b) == a = b \/ b = Revoked(a) \/ a = "none"

LEMMA KindlyKeeps ==
  ASSUME NEW a, NEW b, Kindly(a, b)
  PROVE  /\ a = "revoked" => b = "revoked"
         /\ a = "grace" => b \in {"grace", "revoked"}
  BY DEF Kindly, Revoked, Live

LEMMA SessionSteps ==
  ASSUME IInv, [Next]_vars, NEW s \in Token
  PROVE  \/ Kindly(session[s], session'[s])
         \/ session[s] = "active"
         \/ session[s] = "grace" /\ session'[s] = "revoked"
  <1>1. session \in [Token -> Status]
    BY DEF IInv, Types
  <1>2. CASE session' = session
    BY <1>2 DEF Kindly
  <1>3. ASSUME NEW r \in Request PROVE Kindly(session[s], Publish(r)[s])
    BY DEF Publish, Kindly
  <1>4. ASSUME NEW r \in Request, session' = Publish(r) PROVE Kindly(session[s], session'[s])
    BY <1>3, <1>4
  <1>5. ASSUME NEW r \in Request, Proceed(r), session' # session
        PROVE  Kindly(session[s], session'[s])
    <2>1. CASE CommitLogoutAll(r) \/ CommitReset(r) \/ CommitChange(r) \/ CommitBlock(r)
      BY <1>4, <2>1 DEF CommitLogoutAll, CommitReset, CommitChange, CommitBlock
    <2>2. CASE CommitLogin(r)
      BY <1>1, <1>5, <2>2 DEF CommitLogin, Exhausted, Fail, tables, Kindly
    <2>3. CASE CommitRefresh(r)
      <3>1. PICK t \in Token : session[t] = "none" /\ session' = [Publish(r) EXCEPT ![t] = "active"]
        BY <1>5, <2>3 DEF CommitRefresh, Exhausted, Fail, tables
      <3>2. CASE s = t
        BY <3>1, <3>2 DEF Kindly
      <3>3. CASE s # t
        <4>1. session'[s] = Publish(r)[s]
          BY <3>1, <3>3, PublishForward
        <4>. QED BY <1>3, <4>1
      <3>. QED BY <3>2, <3>3
    <2>4. CASE RevokeAllOnPool(r)
      BY <2>4 DEF RevokeAllOnPool, Kindly
    <2>5. CASE RefreshRevokeExpired(r)
      BY <1>1, <2>5 DEF RefreshRevokeExpired, Kindly
    <2>6. CASE \/ LoginRecordFailure(r) \/ RefreshFindUser(r) \/ RefreshRotate(r) \/ Snapshot(r)
               \/ SnapshotOnPool(r) \/ RevokeAll(r) \/ UpdateUser(r) \/ ResetFindUser(r)
               \/ ResetConsume(r)
      BY <1>5, <2>6 DEF LoginRecordFailure, RefreshFindUser, RefreshRotate, Snapshot,
           SnapshotOnPool, RevokeAll, UpdateUser, ResetFindUser, ResetConsume, Fail, Goto, Lock,
           tables
    <2>. QED BY <1>5, <2>1, <2>2, <2>3, <2>4, <2>5, <2>6 DEF Proceed
  <1>6. ASSUME NEW r \in Request, Start(r) PROVE session' = session
    BY <1>6 DEF Start, Login, LogoutAll, BlockUser, Refresh, ResetPassword, ChangePassword, Begin,
                tables
  <1>7. ASSUME NEW t \in Token, Logout(t) PROVE Kindly(session[s], session'[s])
    BY <1>1, <1>7 DEF Logout, Kindly
  <1>8. ASSUME NEW t \in Token, Expire(t) \/ GraceEnds(t)
        PROVE  \/ Kindly(session[s], session'[s])
               \/ session[s] = "active"
               \/ session[s] = "grace" /\ session'[s] = "revoked"
    BY <1>1, <1>8 DEF Expire, GraceEnds, Kindly
  <1>9. CASE UnblockUser \/ UNCHANGED vars \/ \E k \in ResetToken : RequestPasswordReset(k)
    BY <1>2, <1>9 DEF UnblockUser, vars, RequestPasswordReset
  <1>10. ASSUME NEW r \in Request, Abort(r) PROVE session' = session
    BY <1>10 DEF Abort, Fail, tables
  <1>. QED BY <1>2, <1>5, <1>6, <1>7, <1>8, <1>9, <1>10 DEF Next

\* A revoked token never lives again, and whoever writes its revocation late, having read
\* it as live, does not give it a second grace period.
THEOREM GraceGivenOnce == Spec => GraceOnce
  <1>1. IInv /\ [Next]_vars =>
          [\A t \in Token : /\ session[t] = "revoked" => session'[t] = "revoked"
                            /\ session[t] = "grace" => session'[t] \in {"grace", "revoked"}]_vars
    BY SessionSteps, KindlyKeeps
  <1>. QED BY <1>1, Invariant, PTL DEF Spec, GraceOnce

-----------------------------------------------------------------------------
(* Nobody is stuck: every request takes its rows in one order              *)

\* How far a request has come that holds a row of each kind.
Argument == Token \cup ResetToken \cup {None}
Ordered(t) ==
  /\ \A a \in Argument : SessionRow(a) \in t.rows => t.pc = "commit"
  /\ \A a \in Argument : ResetRow(a) \in t.rows => t.pc \in {"snapshot", "revokeAll", "commit"}
  /\ UserRow \in t.rows => t.pc \in {"consume", "snapshot", "revokeAll", "commit"}

InOrder == \A r \in Request : Ordered(tx[r])

LEMMA RowKinds ==
  /\ \A a, b : SessionRow(a) # ResetRow(b)
  /\ \A a : SessionRow(a) # UserRow /\ ResetRow(a) # UserRow
  BY DEF SessionRow, ResetRow, UserRow

LEMMA OneOrdered ==
  ASSUME IInv, InOrder, NEW r \in Request, NEW t, tx' = [tx EXCEPT ![r] = t], Ordered(t)
  PROVE  InOrder'
  <1>1. tx'[r] = t /\ \A q \in Request \ {r} : tx'[q] = tx[q]
    BY DEF IInv, Types
  <1>2. ASSUME NEW q \in Request PROVE Ordered(tx'[q])
    BY <1>1 DEF InOrder
  <1>. QED BY <1>2 DEF InOrder, Ordered, SessionRow, ResetRow, UserRow

\* A request that begins or ends holds nothing.
LEMMA BareOrdered ==
  ASSUME IInv, InOrder, NEW r \in Request, NEW t, t.rows = {}, tx' = [tx EXCEPT ![r] = t]
  PROVE  InOrder'
  <1>1. Ordered(t)
    BY DEF Ordered
  <1>. QED BY <1>1, OneOrdered

LEMMA EndOrdered == ASSUME IInv, InOrder, NEW r \in Request, End(r) PROVE InOrder'
  BY IdleIs, BareOrdered DEF End

LEMMA StartOrdered == ASSUME IInv, InOrder, NEW r \in Request, Start(r) PROVE InOrder'
  <1>1. ASSUME NEW op, NEW arg, NEW pc, Begin(r, op, arg, pc) PROVE InOrder'
    <2>1. PICK t : t = [op |-> op, arg |-> arg, pc |-> pc,
                        shown |-> IF op = "login" THEN password ELSE 0,
                        rows |-> {}, found |-> {}, began |-> LiveSessions]
      OBVIOUS
    <2>2. t.rows = {} /\ tx' = [tx EXCEPT ![r] = t]
      BY <1>1, <2>1 DEF Begin
    <2>. QED BY <2>2, BareOrdered
  <1>2. CASE Login(r)
    BY <1>1, <1>2 DEF Login
  <1>3. CASE LogoutAll(r) \/ BlockUser(r)
    BY <1>1, <1>3 DEF LogoutAll, BlockUser
  <1>4. ASSUME NEW t \in Token, Refresh(r, t) PROVE InOrder'
    BY <1>1, <1>4 DEF Refresh
  <1>5. ASSUME NEW k \in ResetToken, ResetPassword(r, k) PROVE InOrder'
    BY <1>1, <1>5 DEF ResetPassword
  <1>6. ASSUME NEW t \in LiveSessions \cup {None}, ChangePassword(r, t) PROVE InOrder'
    BY <1>1, <1>6 DEF ChangePassword
  <1>. QED BY <1>2, <1>3, <1>4, <1>5, <1>6 DEF Start

\* A lookup, or a snapshot, takes no row.
LEMMA LookedOrdered ==
  ASSUME IInv, InOrder, NEW r \in Request,
         \/ RefreshFindUser(r) \/ ResetFindUser(r) \/ Snapshot(r) \/ SnapshotOnPool(r)
  PROVE  InOrder'
  <1>1. tx[r] \in TxRecord /\ Ordered(tx[r])
    BY DEF IInv, Types, InOrder
  <1>2. ASSUME NEW pc, Goto(r, pc), tx[r].pc = "findUser" PROVE InOrder'
    <2>1. PICK t : t = [tx[r] EXCEPT !.pc = pc]
      OBVIOUS
    <2>2. tx' = [tx EXCEPT ![r] = t]
      BY <1>2, <2>1 DEF Goto
    <2>3. t.rows = tx[r].rows
      BY <1>1, <2>1 DEF TxRecord
    <2>4. Ordered(t)
      BY <1>1, <1>2, <2>3 DEF Ordered
    <2>. QED BY <2>2, <2>4, OneOrdered
  <1>3. CASE RefreshFindUser(r)
    BY <1>2, <1>3 DEF RefreshFindUser, At
  <1>4. CASE ResetFindUser(r)
    BY <1>2, <1>4, EndOrdered DEF ResetFindUser, At, Fail
  <1>5. ASSUME NEW found, NEW pc, tx' = [tx EXCEPT ![r].found = found, ![r].pc = pc],
               \/ tx[r].pc = "snapshot" /\ pc = "revokeAll"
               \/ tx[r].pc = "snapshotOnPool"
        PROVE  InOrder'
    <2>1. PICK t : t = [tx[r] EXCEPT !.found = found, !.pc = pc]
      OBVIOUS
    <2>2. tx' = [tx EXCEPT ![r] = t]
      BY <1>5, <2>1
    <2>3. t.rows = tx[r].rows /\ t.pc = pc
      BY <1>1, <2>1 DEF TxRecord
    <2>4. Ordered(t)
      BY <1>1, <1>5, <2>3 DEF Ordered
    <2>. QED BY <2>2, <2>4, OneOrdered
  <1>6. CASE Snapshot(r) \/ SnapshotOnPool(r)
    BY <1>5, <1>6 DEF Snapshot, SnapshotOnPool
  <1>. QED BY <1>3, <1>4, <1>6

\* A statement that takes rows takes them in the order of the kinds.
LEMMA LockedOrdered ==
  ASSUME IInv, InOrder, NEW r \in Request,
         RefreshRotate(r) \/ UpdateUser(r) \/ ResetConsume(r) \/ RevokeAll(r)
  PROVE  InOrder'
  <1>1. tx[r] \in TxRecord /\ Ordered(tx[r])
    BY DEF IInv, Types, InOrder
  <1>2. ASSUME NEW row, NEW pc, Lock(r, row, pc),
               \/ tx[r].pc = "rotate" /\ pc = "commit"
               \/ tx[r].pc = "updateUser" /\ pc \in {"consume", "snapshot"} /\ row = UserRow
               \/ tx[r].pc = "consume" /\ pc = "snapshot" /\ row = ResetRow(tx[r].arg)
        PROVE  InOrder'
    <2>1. PICK t : t = [tx[r] EXCEPT !.pc = pc, !.rows = tx[r].rows \cup {row}]
      OBVIOUS
    <2>2. tx' = [tx EXCEPT ![r] = t]
      BY <1>2, <2>1 DEF Lock
    <2>3. t.rows = tx[r].rows \cup {row} /\ t.pc = pc
      BY <1>1, <2>1 DEF TxRecord
    <2>4. Ordered(t)
      BY <1>1, <1>2, <2>3, RowKinds DEF Ordered
    <2>. QED BY <2>2, <2>4, OneOrdered
  <1>3. CASE RefreshRotate(r)
    BY <1>2, <1>3 DEF RefreshRotate, At
  <1>4. CASE UpdateUser(r)
    <2>1. PICK pc \in {"consume", "snapshot"} :
            pc = IF tx[r].op = "reset" THEN "consume" ELSE "snapshot"
      OBVIOUS
    <2>2. tx[r].pc = "updateUser" /\ (Fail(r) \/ Lock(r, UserRow, pc))
      BY <1>4, <2>1 DEF UpdateUser
    <2>. QED BY <1>2, <2>2, EndOrdered DEF Fail
  <1>5. CASE ResetConsume(r)
    BY <1>2, <1>5 DEF ResetConsume, At
  <1>6. CASE RevokeAll(r)
    <2>1. PICK rows : rows = tx[r].rows \cup {SessionRow(t) : t \in tx[r].found \cap LiveSessions}
      OBVIOUS
    <2>2. PICK t : t = [tx[r] EXCEPT !.pc = "commit", !.found = {}, !.rows = rows]
      OBVIOUS
    <2>3. tx' = [tx EXCEPT ![r] = t]
      BY <1>6, <2>1, <2>2 DEF RevokeAll
    <2>4. t.pc = "commit"
      BY <1>1, <2>2 DEF TxRecord
    <2>5. Ordered(t)
      BY <2>4 DEF Ordered
    <2>. QED BY <2>3, <2>5, OneOrdered
  <1>. QED BY <1>3, <1>4, <1>5, <1>6

LEMMA OrderStep == IInv /\ InOrder /\ [Next]_vars => InOrder'
  <1>. SUFFICES ASSUME IInv, InOrder, [Next]_vars PROVE InOrder'
    OBVIOUS
  <1>1. ASSUME NEW r \in Request, End(r) PROVE InOrder'
    BY <1>1, EndOrdered
  <1>2. ASSUME NEW r \in Request, Proceed(r) PROVE InOrder'
    <2>1. CASE \/ RefreshFindUser(r) \/ ResetFindUser(r) \/ Snapshot(r) \/ SnapshotOnPool(r)
      BY <2>1, LookedOrdered
    <2>2. CASE RefreshRotate(r) \/ UpdateUser(r) \/ ResetConsume(r) \/ RevokeAll(r)
      BY <2>2, LockedOrdered
    <2>3. CASE \/ LoginRecordFailure(r) \/ CommitLogin(r) \/ RefreshRevokeExpired(r)
               \/ CommitRefresh(r) \/ RevokeAllOnPool(r) \/ CommitLogoutAll(r)
               \/ CommitReset(r) \/ CommitChange(r) \/ CommitBlock(r)
      BY <1>1, <2>3 DEF LoginRecordFailure, CommitLogin, RefreshRevokeExpired, CommitRefresh,
           RevokeAllOnPool, CommitLogoutAll, CommitReset, CommitChange, CommitBlock, Exhausted, Fail
    <2>. QED BY <1>2, <2>1, <2>2, <2>3 DEF Proceed
  <1>3. ASSUME NEW r \in Request, Abort(r) PROVE InOrder'
    BY <1>1, <1>3 DEF Abort, Fail
  <1>4. CASE tx' = tx
    BY <1>4 DEF InOrder, Ordered, SessionRow, ResetRow, UserRow
  <1>5. ASSUME NEW t \in Token, Logout(t) \/ Expire(t) \/ GraceEnds(t) PROVE InOrder'
    BY <1>4, <1>5 DEF Logout, Expire, GraceEnds
  <1>6. ASSUME NEW k \in ResetToken, RequestPasswordReset(k) PROVE InOrder'
    BY <1>4, <1>6 DEF RequestPasswordReset
  <1>7. CASE UnblockUser \/ UNCHANGED vars
    BY <1>4, <1>7 DEF UnblockUser, vars
  <1>. QED BY <1>2, <1>3, <1>5, <1>6, <1>7, StartOrdered DEF Next

LEMMA OrderInvariant == Spec => []InOrder
  <1>1. Init => InOrder
    BY IdleIs DEF Init, InOrder, Ordered
  <1>. QED BY <1>1, OrderStep, Invariant, PTL DEF Spec

\* Of any requests in flight, the one that has come furthest waits for none of
\* the others.
LEMMA FurthestGoesOn ==
  ASSUME IInv, InOrder, NEW waiting \in (SUBSET InFlight) \ {{}}
  PROVE  \E r \in waiting : \A q \in waiting : ~WaitsFor(r, q)
  <1>1. ASSUME NEW r \in waiting
        PROVE  /\ r \in Request /\ tx[r].arg \in Argument /\ tx[r].found \subseteq Argument
               /\ Ordered(tx[r])
    BY DEF InFlight, IInv, Types, TxRecord, Argument, InOrder
  <1>2. CASE \E r \in waiting : Needs(r) = {} /\ tx[r].pc \notin OnPool
    BY <1>2 DEF WaitsFor, InTheWay
  <1>3. CASE \A r \in waiting : Needs(r) # {} \/ tx[r].pc \in OnPool
    <2>1. \A r \in waiting :
            tx[r].pc \in {"rotate", "revokeAll", "updateUser", "consume"} \cup OnPool
      BY <1>3 DEF Needs, OnPool
    <2>2. ASSUME NEW q \in waiting, NEW a \in Argument PROVE SessionRow(a) \notin tx[q].rows
      BY <1>1, <2>1 DEF Ordered, OnPool
    <2>3. ASSUME NEW r \in waiting, NEW q \in waiting,
                 Needs(r) \subseteq {SessionRow(a) : a \in Argument}
          PROVE  ~InTheWay(q, r)
      BY <2>2, <2>3 DEF InTheWay
    <2>4. CASE \E r \in waiting : tx[r].pc \in {"rotate", "revokeAll", "revokeAllOnPool"}
      <3>1. PICK r \in waiting : tx[r].pc \in {"rotate", "revokeAll", "revokeAllOnPool"}
        BY <2>4
      <3>2. Needs(r) \subseteq {SessionRow(a) : a \in Argument}
        BY <1>1, <3>1 DEF Needs
      <3>3. tx[r].pc \notin OnPool \ {"revokeAllOnPool"}
        BY <3>1 DEF OnPool
      <3>. QED BY <2>3, <3>2, <3>3 DEF WaitsFor
    <2>5. CASE /\ \A q \in waiting : tx[q].pc \notin {"rotate", "revokeAll", "revokeAllOnPool"}
               /\ \E r \in waiting : tx[r].pc = "consume"
      <3>1. PICK r \in waiting : tx[r].pc = "consume"
        BY <2>5
      <3>2. Needs(r) = {ResetRow(tx[r].arg)} /\ tx[r].pc \notin OnPool
        BY <3>1 DEF Needs, OnPool
      <3>3. ASSUME NEW q \in waiting PROVE ResetRow(tx[r].arg) \notin tx[q].rows
        BY <1>1, <2>1, <2>5 DEF Ordered, OnPool
      <3>. QED BY <3>2, <3>3 DEF WaitsFor, InTheWay
    <2>6. CASE /\ \A q \in waiting :
                    tx[q].pc \notin {"rotate", "revokeAll", "revokeAllOnPool", "consume"}
               /\ \E r \in waiting : tx[r].pc = "updateUser"
      <3>1. PICK r \in waiting : tx[r].pc = "updateUser"
        BY <2>6
      <3>2. Needs(r) = {UserRow} /\ tx[r].pc \notin OnPool
        BY <3>1 DEF Needs, OnPool
      <3>3. ASSUME NEW q \in waiting PROVE UserRow \notin tx[q].rows
        BY <1>1, <2>1, <2>6 DEF Ordered, OnPool
      <3>. QED BY <3>2, <3>3 DEF WaitsFor, InTheWay
    <2>7. CASE \A q \in waiting : tx[q].pc \in OnPool \ {"revokeAllOnPool"}
      <3>1. PICK r \in waiting : TRUE
        OBVIOUS
      <3>2. Needs(r) \subseteq {SessionRow(a) : a \in Argument}
        BY <1>1, <2>7, <3>1 DEF Needs, OnPool
      <3>. QED BY <2>3, <2>7, <3>1, <3>2 DEF WaitsFor
    <2>. QED BY <2>1, <2>4, <2>5, <2>6, <2>7 DEF OnPool
  <1>. QED BY <1>2, <1>3

\* A second connection that is not to be had is in use.
LEMMA SecondInUse ==
  ASSUME Cardinality(Request) < PoolSize, ~Spare
  PROVE  \E q \in Request : tx[q].pc = "revokeAllOnPool"
  <1>. DEFINE open == {r \in Request : tx[r] # Idle}
              nested == {r \in Request : tx[r].pc = "revokeAllOnPool"}
  <1>1. /\ Cardinality(Request) \in Nat
        /\ Cardinality(open) \in Nat /\ Cardinality(open) <= Cardinality(Request)
    BY RequestFinite, FS_Subset, FS_CardinalityType
  <1>2. ~(Cardinality(open) + Cardinality(nested) < PoolSize)
    BY DEF Spare, Connections
  <1>3. nested # {}
    <2>1. SUFFICES ASSUME nested = {} PROVE FALSE
      OBVIOUS
    <2>2. Cardinality(nested) = 0
      BY <2>1, FS_EmptySet
    <2>. HIDE DEF open, nested
    <2>. QED BY <1>1, <1>2, <2>2, PoolSizeNat
  <1>. QED BY <1>3

\* Requests on an account wait for rows, and for connections, of each other, but of
\* any that are in flight one waits for none of them, so none waits for ever.
THEOREM NobodyGetsStuck == Spec => []NobodyStuck
  <1>1. IInv /\ InOrder => NobodyStuck
    BY FurthestGoesOn, SecondInUse DEF NobodyStuck
  <1>. QED BY <1>1, Invariant, OrderInvariant, PTL

-----------------------------------------------------------------------------
(* The pool, and the row of the user                                       *)

\* A reset or a change of password holds the user's row from its UPDATE on, and with it
\* the right to the next password.
Mine(t) ==
  /\ t = Idle \/ t \in Transaction
  /\ t.op = "reset" => t.arg \in ResetToken
  /\ t.op \in {"reset", "change"} /\ t.pc \in {"consume", "snapshot", "revokeAll", "commit"}
       => UserRow \in t.rows
  /\ t.op \in {"reset", "change"} /\ UserRow \in t.rows => password < MaxPassword

OneWriter == \A q, r \in Request : q # r => UserRow \notin tx[q].rows \cap tx[r].rows

OwnInv ==
  /\ signedBy \in [Token -> 0..MaxPassword] /\ password \in 0..MaxPassword
  /\ reset \in [ResetToken -> {"none", "valid", "consumed"}]
  /\ OneWriter
  /\ \A r \in Request : Mine(tx[r])

LEMMA IdleMine == Mine(Idle)
  <1>1. PICK t : t = Idle
    OBVIOUS
  <1>2. t.op = "idle" /\ t.rows = {}
    BY <1>1, IdleIs
  <1>3. Mine(t)
    BY <1>1, <1>2 DEF Mine
  <1>. QED BY <1>1, <1>3

LEMMA StepOwn ==
  ASSUME IInv, OwnInv, NEW r \in Request, NEW t, tx' = [tx EXCEPT ![r] = t],
         UNCHANGED <<signedBy, password, reset>>, Mine(t),
         UserRow \in t.rows =>
           UserRow \in tx[r].rows \/ \A q \in Request \ {r} : UserRow \notin tx[q].rows
  PROVE  OwnInv'
  <1>1. tx'[r] = t /\ \A q \in Request \ {r} : tx'[q] = tx[q]
    BY DEF IInv, Types
  <1>2. OneWriter'
    BY <1>1 DEF OwnInv, OneWriter, UserRow
  <1>3. ASSUME NEW q \in Request PROVE Mine(tx[q])'
    <2>1. Mine(tx'[q])
      BY <1>1 DEF OwnInv
    <2>. QED BY <2>1 DEF Mine, UserRow, Transaction, Idle, SessionRow, ResetRow, Op, Statement
  <1>. QED BY <1>2, <1>3 DEF OwnInv

LEMMA EndOwn ==
  ASSUME IInv, OwnInv, NEW r \in Request, End(r), UNCHANGED <<signedBy, password, reset>>
  PROVE  OwnInv'
  BY IdleIs, IdleMine, StepOwn DEF End

LEMMA StartOwn == ASSUME IInv, OwnInv, NEW r \in Request, Start(r) PROVE OwnInv'
  <1>1. ASSUME NEW op \in Op, NEW arg \in Token \cup ResetToken \cup {None}, NEW pc \in Statement,
               Begin(r, op, arg, pc), op = "reset" => arg \in ResetToken /\ pc = "findUser",
               op = "change" => pc = "updateUser"
        PROVE  OwnInv'
    <2>1. PICK t : t = [op |-> op, arg |-> arg, pc |-> pc,
                        shown |-> IF op = "login" THEN password ELSE 0,
                        rows |-> {}, found |-> {}, began |-> LiveSessions]
      OBVIOUS
    <2>2. tx' = [tx EXCEPT ![r] = t] /\ UNCHANGED <<signedBy, password, reset>>
      BY <1>1, <2>1 DEF Begin, tables
    <2>3. t.op = op /\ t.arg = arg /\ t.pc = pc /\ t.rows = {}
      BY <2>1
    <2>4. 0 \in 0..MaxPassword /\ password \in 0..MaxPassword /\ LiveSessions \in SUBSET Token
      BY MaxPasswordNat DEF OwnInv, LiveSessions
    <2>5. t \in Transaction
      BY <2>1, <2>4 DEF Transaction
    <2>6. Mine(t)
      BY <1>1, <2>3, <2>5 DEF Mine
    <2>. QED BY <2>2, <2>3, <2>6, StepOwn
  <1>2. CASE Login(r)
    BY <1>1, <1>2 DEF Login, Op, Statement
  <1>3. CASE LogoutAll(r) \/ BlockUser(r)
    BY <1>1, <1>3 DEF LogoutAll, BlockUser, Op, Statement
  <1>4. ASSUME NEW t \in Token, Refresh(r, t) PROVE OwnInv'
    BY <1>1, <1>4 DEF Refresh, Op, Statement
  <1>5. ASSUME NEW k \in ResetToken, ResetPassword(r, k) PROVE OwnInv'
    BY <1>1, <1>5 DEF ResetPassword, Op, Statement
  <1>6. ASSUME NEW t \in LiveSessions \cup {None}, ChangePassword(r, t) PROVE OwnInv'
    BY <1>1, <1>6 DEF ChangePassword, LiveSessions, Op, Statement
  <1>. QED BY <1>2, <1>3, <1>4, <1>5, <1>6 DEF Start

\* What a request knows that is at a statement.
LEMMA MineAt ==
  ASSUME IInv, OwnInv, NEW r \in Request, tx[r].pc # "idle"
  PROVE  Mine(tx[r]) /\ tx[r] \in Transaction /\ RequestInv(tx[r])
  BY IdleIs DEF IInv, OwnInv, Mine

RowKind == {SessionRow(t) : t \in Token} \cup {ResetRow(k) : k \in ResetToken} \cup {UserRow}

LEMMA LookedOwn ==
  ASSUME IInv, OwnInv, NEW r \in Request,
         \/ RefreshFindUser(r) \/ ResetFindUser(r) \/ Snapshot(r) \/ SnapshotOnPool(r)
  PROVE  OwnInv'
  <1>1. UNCHANGED <<signedBy, password, reset>>
    BY DEF RefreshFindUser, ResetFindUser, Snapshot, SnapshotOnPool, Goto, Fail, tables
  <1>2. tx[r].pc # "idle"
    BY DEF RefreshFindUser, ResetFindUser, Snapshot, SnapshotOnPool, At
  <1>3. Mine(tx[r]) /\ tx[r] \in Transaction
    BY <1>2, MineAt
  <1>4. ASSUME NEW pc \in Statement, Goto(r, pc),
               tx[r].op \in {"reset", "change"} => pc = "updateUser"
        PROVE  OwnInv'
    <2>1. PICK t : t = [tx[r] EXCEPT !.pc = pc]
      OBVIOUS
    <2>2. tx' = [tx EXCEPT ![r] = t]
      BY <1>4, <2>1 DEF Goto
    <2>3. t.op = tx[r].op /\ t.arg = tx[r].arg /\ t.rows = tx[r].rows /\ t.pc = pc
      BY <1>3, <2>1 DEF Transaction
    <2>4. t \in Transaction
      BY <1>3, <2>1 DEF Transaction
    <2>5. Mine(t)
      BY <1>3, <1>4, <2>3, <2>4 DEF Mine
    <2>. QED BY <1>1, <2>2, <2>3, <2>5, StepOwn
  <1>5. CASE RefreshFindUser(r)
    BY <1>4, <1>5 DEF RefreshFindUser, At, Statement
  <1>6. CASE ResetFindUser(r)
    BY <1>1, <1>4, <1>6, EndOwn DEF ResetFindUser, At, Fail, Statement
  <1>7. ASSUME NEW found \in SUBSET Token, NEW pc \in {"revokeAll", "revokeAllOnPool"},
               tx' = [tx EXCEPT ![r].found = found, ![r].pc = pc],
               pc = "revokeAll" => tx[r].pc = "snapshot"
        PROVE  OwnInv'
    <2>1. PICK t : t = [tx[r] EXCEPT !.found = found, !.pc = pc]
      OBVIOUS
    <2>2. tx' = [tx EXCEPT ![r] = t]
      BY <1>7, <2>1
    <2>3. t.op = tx[r].op /\ t.arg = tx[r].arg /\ t.rows = tx[r].rows /\ t.pc = pc
      BY <1>3, <2>1 DEF Transaction
    <2>4. pc \in Statement
      BY DEF Statement
    <2>5. t \in Transaction
      BY <1>3, <2>1, <2>4 DEF Transaction
    <2>6. Mine(t)
      BY <1>3, <1>7, <2>3, <2>5 DEF Mine
    <2>. QED BY <1>1, <2>2, <2>3, <2>6, StepOwn
  <1>8. CASE Snapshot(r) \/ SnapshotOnPool(r)
    <2>1. LiveSessions \in SUBSET Token /\ \A kept : LiveSessions \ kept \in SUBSET Token
      BY DEF LiveSessions
    <2>. QED BY <1>7, <1>8, <2>1 DEF Snapshot, SnapshotOnPool
  <1>. QED BY <1>5, <1>6, <1>8

LEMMA LockedOwn ==
  ASSUME IInv, OwnInv, NEW r \in Request,
         RefreshRotate(r) \/ UpdateUser(r) \/ ResetConsume(r) \/ RevokeAll(r)
  PROVE  OwnInv'
  <1>1. UNCHANGED <<signedBy, password, reset>>
    BY DEF RefreshRotate, UpdateUser, ResetConsume, RevokeAll, Lock, Fail, tables
  <1>2. tx[r].pc # "idle"
    BY DEF RefreshRotate, UpdateUser, ResetConsume, RevokeAll, At
  <1>3. Mine(tx[r]) /\ tx[r] \in Transaction /\ RequestInv(tx[r])
    BY <1>2, MineAt
  <1>4. ASSUME NEW rows \in SUBSET RowKind, NEW found \in SUBSET Token, NEW pc \in Statement,
               tx' = [tx EXCEPT ![r] = [tx[r] EXCEPT !.pc = pc, !.found = found,
                                                     !.rows = tx[r].rows \cup rows]],
               UserRow \in rows => \A q \in Request \ {r} : UserRow \notin tx[q].rows,
               tx[r].op \in {"reset", "change"} =>
                 /\ UserRow \in tx[r].rows \/ UserRow \in rows
                 /\ UserRow \in rows => password < MaxPassword
        PROVE  OwnInv'
    <2>1. PICK t : t = [tx[r] EXCEPT !.pc = pc, !.found = found, !.rows = tx[r].rows \cup rows]
      OBVIOUS
    <2>2. t.op = tx[r].op /\ t.arg = tx[r].arg /\ t.rows = tx[r].rows \cup rows
      BY <1>3, <2>1 DEF Transaction
    <2>3. tx[r].rows \cup rows \in SUBSET RowKind
      BY <1>3 DEF Transaction, RowKind
    <2>4. t \in Transaction
      BY <1>3, <2>1, <2>3 DEF Transaction, RowKind
    <2>5. Mine(t)
      BY <1>3, <1>4, <2>2, <2>4 DEF Mine
    <2>. QED BY <1>1, <1>4, <2>1, <2>2, <2>5, StepOwn
  <1>5. ASSUME NEW row \in RowKind, NEW pc \in Statement, Lock(r, row, pc),
               row = UserRow => \A q \in Request \ {r} : UserRow \notin tx[q].rows,
               tx[r].op \in {"reset", "change"} =>
                 /\ UserRow \in tx[r].rows \/ UserRow = row
                 /\ UserRow = row => password < MaxPassword
        PROVE  OwnInv'
    <2>1. tx' = [tx EXCEPT ![r] = [tx[r] EXCEPT !.pc = pc, !.found = tx[r].found,
                                                !.rows = tx[r].rows \cup {row}]]
      <3>1. [tx[r] EXCEPT !.pc = pc, !.found = tx[r].found, !.rows = tx[r].rows \cup {row}]
              = [tx[r] EXCEPT !.pc = pc, !.rows = tx[r].rows \cup {row}]
        BY <1>3 DEF Transaction
      <3>. QED BY <1>5, <3>1 DEF Lock
    <2>2. tx[r].found \in SUBSET Token /\ {row} \in SUBSET RowKind
      BY <1>3 DEF Transaction
    <2>. QED BY <1>4, <1>5, <2>1, <2>2
  <1>6. CASE RefreshRotate(r)
    <2>1. tx[r].op = "refresh" /\ tx[r].pc = "rotate" /\ Lock(r, SessionRow(tx[r].arg), "commit")
      BY <1>6 DEF RefreshRotate, At
    <2>2. SessionRow(tx[r].arg) \in RowKind
      BY <1>3, <2>1 DEF RequestInv, Rotates, RowKind
    <2>. QED BY <1>5, <2>1, <2>2, RowKinds DEF Statement
  <1>7. CASE UpdateUser(r)
    <2>1. CASE Fail(r)
      BY <1>1, <2>1, EndOwn DEF Fail
    <2>2. CASE ~Fail(r)
      <3>1. PICK pc \in {"consume", "snapshot"} :
              pc = IF tx[r].op = "reset" THEN "consume" ELSE "snapshot"
        OBVIOUS
      <3>2. /\ ~(tx[r].op \in {"reset", "change"} /\ password = MaxPassword)
            /\ Granted(r) /\ Lock(r, UserRow, pc) /\ tx[r].pc = "updateUser"
        BY <1>7, <2>2, <3>1 DEF UpdateUser
      <3>3. tx[r].op \in {"reset", "change"} => password < MaxPassword
        BY <3>2, MaxPasswordNat DEF OwnInv
      <3>4. \A q \in Request \ {r} : UserRow \notin tx[q].rows
        BY <3>2 DEF Granted, InTheWay, Needs
      <3>. QED BY <1>5, <3>2, <3>3, <3>4 DEF Statement, RowKind
    <2>. QED BY <2>1, <2>2
  <1>8. CASE ResetConsume(r)
    <2>1. tx[r].op = "reset" /\ tx[r].pc = "consume" /\ Lock(r, ResetRow(tx[r].arg), "snapshot")
      BY <1>8 DEF ResetConsume, At
    <2>2. ResetRow(tx[r].arg) \in RowKind /\ UserRow \in tx[r].rows
      BY <1>3, <2>1 DEF Mine, RowKind
    <2>. QED BY <1>5, <2>1, <2>2, RowKinds DEF Statement
  <1>9. CASE RevokeAll(r)
    <2>1. PICK rows : rows = {SessionRow(t) : t \in tx[r].found \cap LiveSessions}
      OBVIOUS
    <2>2. /\ tx[r].pc = "revokeAll"
          /\ tx' = [tx EXCEPT ![r] = [tx[r] EXCEPT !.pc = "commit", !.found = {},
                                                   !.rows = tx[r].rows \cup rows]]
      BY <1>9, <2>1 DEF RevokeAll
    <2>3. rows \in SUBSET RowKind /\ UserRow \notin rows
      BY <2>1, RowKinds DEF LiveSessions, RowKind
    <2>4. tx[r].op \in {"reset", "change"} => UserRow \in tx[r].rows
      BY <1>3, <2>2 DEF Mine
    <2>. QED BY <1>4, <2>2, <2>3, <2>4 DEF Statement
  <1>. QED BY <1>6, <1>7, <1>8, <1>9

\* COMMIT of a new password: nobody else holds the row.
LEMMA PasswordOwn ==
  ASSUME IInv, OwnInv, NEW r \in Request, CommitReset(r) \/ CommitChange(r)
  PROVE  OwnInv'
  <1>1. /\ tx[r].pc = "commit" /\ tx[r].op \in {"reset", "change"}
        /\ password' = password + 1 /\ tx' = [tx EXCEPT ![r] = Idle]
    BY DEF CommitReset, CommitChange, At, End
  <1>2. Mine(tx[r]) /\ tx[r] \in Transaction
    BY <1>1, MineAt
  <1>3. UserRow \in tx[r].rows /\ password < MaxPassword
    BY <1>1, <1>2 DEF Mine
  <1>4. password' \in 0..MaxPassword /\ password + 1 \in 0..MaxPassword
    BY <1>1, <1>3, MaxPasswordNat DEF OwnInv
  <1>5. tx'[r] = Idle /\ \A q \in Request \ {r} : tx'[q] = tx[q] /\ UserRow \notin tx[q].rows
    BY <1>1, <1>3 DEF IInv, Types, OwnInv, OneWriter
  <1>6. OneWriter'
    BY <1>5, IdleIs DEF OwnInv, OneWriter, UserRow
  <1>7. ASSUME NEW q \in Request PROVE Mine(tx[q])'
    <2>1. Mine(tx'[q]) /\ UserRow \notin tx'[q].rows
      BY <1>5, IdleIs, IdleMine DEF OwnInv
    <2>. QED BY <2>1 DEF Mine, UserRow, Transaction, Idle, SessionRow, ResetRow, Op, Statement
  <1>8. signedBy' \in [Token -> 0..MaxPassword]
    <2>1. CASE CommitReset(r)
      BY <2>1 DEF CommitReset, OwnInv
    <2>2. CASE CommitChange(r)
      BY <1>4, <2>2 DEF CommitChange, OwnInv
    <2>. QED BY <2>1, <2>2
  <1>9. reset' \in [ResetToken -> {"none", "valid", "consumed"}]
    BY DEF CommitReset, CommitChange, OwnInv
  <1>. QED BY <1>4, <1>6, <1>7, <1>8, <1>9 DEF OwnInv

\* COMMIT of a session: its owner has shown a password that there has been.
LEMMA IssueOwn ==
  ASSUME IInv, OwnInv, NEW r \in Request, CommitLogin(r) \/ CommitRefresh(r)
  PROVE  OwnInv'
  <1>1. CASE Exhausted(r)
    BY <1>1, EndOwn DEF Exhausted, Fail, tables
  <1>2. CASE ~Exhausted(r)
    <2>1. End(r) /\ UNCHANGED <<password, reset>> /\ tx[r].pc = "commit"
      BY <1>2 DEF CommitLogin, CommitRefresh, At
    <2>2. tx[r] \in Transaction /\ RequestInv(tx[r])
      BY <2>1, MineAt
    <2>3. PICK t \in Token, by \in 0..MaxPassword : signedBy' = [signedBy EXCEPT ![t] = by]
      <3>1. CASE CommitLogin(r)
        BY <1>2, <2>2, <3>1 DEF CommitLogin, Transaction
      <3>2. CASE CommitRefresh(r)
        <4>1. tx[r].arg \in Token
          BY <2>1, <2>2, <3>2 DEF CommitRefresh, At, RequestInv, Rotates
        <4>2. signedBy[tx[r].arg] \in 0..MaxPassword
          BY <4>1 DEF OwnInv
        <4>. QED BY <1>2, <3>2, <4>2 DEF CommitRefresh
      <3>. QED BY <3>1, <3>2
    <2>4. signedBy' \in [Token -> 0..MaxPassword]
      BY <2>3 DEF OwnInv
    <2>5. tx'[r] = Idle /\ \A q \in Request \ {r} : tx'[q] = tx[q]
      BY <2>1 DEF End, IInv, Types
    <2>6. OneWriter'
      BY <2>5, IdleIs DEF OwnInv, OneWriter, UserRow
    <2>7. ASSUME NEW q \in Request PROVE Mine(tx[q])'
      <3>1. Mine(tx'[q])
        BY <2>5, IdleMine DEF OwnInv
      <3>. QED BY <2>1, <3>1 DEF Mine, UserRow, Transaction, Idle, SessionRow, ResetRow, Op, Statement
    <2>. QED BY <2>1, <2>4, <2>6, <2>7 DEF OwnInv
  <1>. QED BY <1>1, <1>2

LEMMA SameOwn ==
  ASSUME OwnInv, UNCHANGED <<signedBy, password, tx>>,
         reset' \in [ResetToken -> {"none", "valid", "consumed"}]
  PROVE  OwnInv'
  BY DEF OwnInv, OneWriter, Mine, UserRow, Transaction, Idle, SessionRow, ResetRow, Op, Statement

LEMMA OwnStep == IInv /\ OwnInv /\ [Next]_vars => OwnInv'
  <1>. SUFFICES ASSUME IInv, OwnInv, [Next]_vars PROVE OwnInv'
    OBVIOUS
  <1>1. ASSUME NEW r \in Request, Proceed(r) PROVE OwnInv'
    <2>1. CASE \/ LoginRecordFailure(r) \/ RefreshRevokeExpired(r) \/ RevokeAllOnPool(r)
               \/ CommitLogoutAll(r) \/ CommitBlock(r)
      BY <2>1, EndOwn DEF LoginRecordFailure, RefreshRevokeExpired, RevokeAllOnPool,
                          CommitLogoutAll, CommitBlock, Fail, tables
    <2>. QED BY <1>1, <2>1, LookedOwn, LockedOwn, PasswordOwn, IssueOwn DEF Proceed
  <1>2. ASSUME NEW r \in Request, Abort(r) PROVE OwnInv'
    BY <1>2, EndOwn DEF Abort, Fail, tables
  <1>3. ASSUME NEW t \in Token, Logout(t) \/ Expire(t) \/ GraceEnds(t) PROVE OwnInv'
    BY <1>3, SameOwn DEF Logout, Expire, GraceEnds, OwnInv
  <1>4. ASSUME NEW k \in ResetToken, RequestPasswordReset(k) PROVE OwnInv'
    BY <1>4, SameOwn DEF RequestPasswordReset, OwnInv
  <1>5. CASE UnblockUser \/ UNCHANGED vars
    BY <1>5, SameOwn DEF UnblockUser, vars, OwnInv
  <1>. QED BY <1>1, <1>2, <1>3, <1>4, <1>5, StartOwn DEF Next

-----------------------------------------------------------------------------
(* Connections                                                             *)

Busy   == {r \in Request : tx[r] # Idle}
Nested == {r \in Request : tx[r].pc = "revokeAllOnPool"}
Lent   == Connections <= PoolSize

LEMMA CountsAre ==
  /\ IsFiniteSet(Busy) /\ IsFiniteSet(Nested)
  /\ Cardinality(Busy) \in Nat /\ Cardinality(Nested) \in Nat
  /\ Connections = Cardinality(Busy) + Cardinality(Nested)
  BY RequestFinite, FS_Subset, FS_CardinalityType DEF Busy, Nested, Connections

\* No step but the start of a request and its statement on the pool takes a connection.
LEMMA NoneTaken ==
  ASSUME Lent, \A r \in Request : tx[r] = Idle => tx'[r] = Idle,
         \A r \in Request : tx'[r].pc = "revokeAllOnPool" => tx[r].pc = "revokeAllOnPool"
  PROVE  Lent'
  <1>1. Busy' \subseteq Busy /\ Nested' \subseteq Nested
    BY DEF Busy, Nested
  <1>2. /\ Cardinality(Busy') \in Nat /\ Cardinality(Busy') <= Cardinality(Busy)
        /\ Cardinality(Nested') \in Nat /\ Cardinality(Nested') <= Cardinality(Nested)
    BY <1>1, CountsAre, FS_Subset, FS_CardinalityType
  <1>3. Connections' = Cardinality(Busy') + Cardinality(Nested')
    BY DEF Connections, Busy, Nested
  <1>. QED BY <1>2, <1>3, CountsAre, PoolSizeNat DEF Lent

LEMMA OneTaken ==
  ASSUME Spare, NEW r \in Request, NEW t, tx' = [tx EXCEPT ![r] = t],
         tx \in [Request -> TxRecord],
         t.pc = "revokeAllOnPool" <=> tx[r] # Idle
  PROVE  Lent'
  <1>1. tx'[r] = t /\ \A q \in Request \ {r} : tx'[q] = tx[q]
    OBVIOUS
  <1>2. /\ Busy' \subseteq Busy \cup {r} /\ Nested' \subseteq Nested \cup {r}
        /\ IF t.pc = "revokeAllOnPool" THEN Busy' \subseteq Busy ELSE Nested' \subseteq Nested
    BY <1>1 DEF Busy, Nested
  <1>3. Connections' = Cardinality(Busy') + Cardinality(Nested')
    BY DEF Connections, Busy, Nested
  <1>4. ASSUME NEW S, NEW T, IsFiniteSet(S), T \subseteq S \cup {r}
        PROVE  /\ Cardinality(T) \in Nat /\ Cardinality(T) <= Cardinality(S) + 1
               /\ T \subseteq S => Cardinality(T) <= Cardinality(S)
    <2>1. IsFiniteSet(S \cup {r}) /\ Cardinality(S \cup {r}) <= Cardinality(S) + 1
      <3>1. Cardinality(S) \in Nat
        BY <1>4, FS_CardinalityType
      <3>2. /\ IsFiniteSet(S \cup {r})
            /\ \/ Cardinality(S \cup {r}) = Cardinality(S)
               \/ Cardinality(S \cup {r}) = Cardinality(S) + 1
        BY <1>4, FS_AddElement
      <3>. QED BY <3>1, <3>2
    <2>2. Cardinality(T) \in Nat /\ Cardinality(T) <= Cardinality(S \cup {r})
      BY <1>4, <2>1, FS_Subset, FS_CardinalityType
    <2>3. Cardinality(S) \in Nat /\ Cardinality(S \cup {r}) \in Nat
      BY <1>4, <2>1, FS_CardinalityType
    <2>4. T \subseteq S => Cardinality(T) <= Cardinality(S)
      BY <1>4, FS_Subset
    <2>. QED BY <2>1, <2>2, <2>3, <2>4
  <1>5. Cardinality(Busy) + Cardinality(Nested) < PoolSize
    BY CountsAre DEF Spare
  <1>6. /\ Cardinality(Busy') \in Nat /\ Cardinality(Busy') <= Cardinality(Busy) + 1
        /\ Cardinality(Nested') \in Nat /\ Cardinality(Nested') <= Cardinality(Nested) + 1
        /\ \/ Cardinality(Busy') <= Cardinality(Busy)
           \/ Cardinality(Nested') <= Cardinality(Nested)
    BY <1>2, <1>4, CountsAre
  <1>. QED BY <1>3, <1>5, <1>6, CountsAre, PoolSizeNat DEF Lent

LEMMA LentStep == IInv /\ OwnInv /\ Lent /\ [Next]_vars => Lent'
  <1>. SUFFICES ASSUME IInv, OwnInv, Lent, [Next]_vars PROVE Lent'
    OBVIOUS
  <1>1. tx \in [Request -> TxRecord]
    BY DEF IInv, Types
  <1>2. ASSUME NEW r \in Request, NEW t, tx' = [tx EXCEPT ![r] = t], tx[r] # Idle,
               t.pc # "revokeAllOnPool"
        PROVE  Lent'
    BY <1>1, <1>2, NoneTaken
  <1>3. ASSUME NEW r \in Request, End(r) PROVE Lent'
    <2>1. CASE tx[r] = Idle
      <3>1. tx' = tx
        BY <1>1, <1>3, <2>1 DEF End
      <3>. QED BY <3>1, NoneTaken
    <2>2. CASE tx[r] # Idle
      BY <1>2, <1>3, <2>2, IdleIs DEF End
    <2>. QED BY <2>1, <2>2
  <1>4. ASSUME NEW r \in Request, NEW op, NEW arg, NEW pc, Begin(r, op, arg, pc),
               pc # "revokeAllOnPool"
        PROVE  Lent'
    <2>1. PICK t : t = [op |-> op, arg |-> arg, pc |-> pc,
                        shown |-> IF op = "login" THEN password ELSE 0,
                        rows |-> {}, found |-> {}, began |-> LiveSessions]
      OBVIOUS
    <2>2. t.pc = pc /\ tx' = [tx EXCEPT ![r] = t] /\ Spare /\ tx[r] = Idle
      BY <1>4, <2>1 DEF Begin
    <2>. QED BY <1>1, <1>4, <2>2, OneTaken
  <1>5. ASSUME NEW r \in Request, Start(r) PROVE Lent'
    BY <1>4, <1>5 DEF Start, Login, LogoutAll, BlockUser, Refresh, ResetPassword, ChangePassword
  <1>6. ASSUME NEW r \in Request,
               \/ RefreshFindUser(r) \/ ResetFindUser(r) \/ Snapshot(r)
               \/ RefreshRotate(r) \/ UpdateUser(r) \/ ResetConsume(r) \/ RevokeAll(r)
        PROVE  Lent'
    <2>1. tx[r].pc # "idle" /\ tx[r] \in TxRecord
      BY <1>1, <1>6 DEF RefreshFindUser, ResetFindUser, Snapshot, RefreshRotate, UpdateUser,
                        ResetConsume, RevokeAll, At
    <2>2. tx[r] # Idle
      BY <2>1, IdleIs
    <2>3. PICK t : tx' = [tx EXCEPT ![r] = t] /\ (t = Idle \/ t.pc # "revokeAllOnPool")
      <3>1. ASSUME NEW pc, NEW rows, NEW found,
                   tx' = [tx EXCEPT ![r].pc = pc, ![r].found = found, ![r].rows = rows]
                     \/ tx' = [tx EXCEPT ![r].found = found, ![r].pc = pc]
                     \/ tx' = [tx EXCEPT ![r].pc = pc, ![r].rows = rows]
                     \/ tx' = [tx EXCEPT ![r].pc = pc],
                   pc # "revokeAllOnPool"
            PROVE  \E t : tx' = [tx EXCEPT ![r] = t] /\ t.pc # "revokeAllOnPool"
        <4>1. /\ [tx[r] EXCEPT !.pc = pc, !.found = found, !.rows = rows].pc = pc
              /\ [tx[r] EXCEPT !.found = found, !.pc = pc].pc = pc
              /\ [tx[r] EXCEPT !.pc = pc, !.rows = rows].pc = pc
              /\ [tx[r] EXCEPT !.pc = pc].pc = pc
          BY <2>1 DEF TxRecord
        <4>. QED BY <3>1, <4>1
      <3>2. CASE Snapshot(r)
        BY <3>1, <3>2 DEF Snapshot
      <3>3. CASE RevokeAll(r)
        BY <3>1, <3>3 DEF RevokeAll
      <3>4. CASE RefreshFindUser(r) \/ ResetFindUser(r)
        BY <3>1, <3>4 DEF RefreshFindUser, ResetFindUser, Goto, Fail, End
      <3>5. CASE RefreshRotate(r) \/ ResetConsume(r)
        BY <3>1, <3>5 DEF RefreshRotate, ResetConsume, Lock
      <3>6. CASE UpdateUser(r)
        <4>1. CASE Fail(r)
          BY <4>1 DEF Fail, End
        <4>2. CASE ~Fail(r)
          <5>1. PICK pc \in {"consume", "snapshot"} :
                  pc = IF tx[r].op = "reset" THEN "consume" ELSE "snapshot"
            OBVIOUS
          <5>2. Lock(r, UserRow, pc)
            BY <3>6, <4>2, <5>1 DEF UpdateUser
          <5>. QED BY <3>1, <5>2 DEF Lock
        <4>. QED BY <4>1, <4>2
      <3>. QED BY <1>6, <3>2, <3>3, <3>4, <3>5, <3>6
    <2>. QED BY <1>2, <2>2, <2>3, IdleIs
  <1>7. ASSUME NEW r \in Request, SnapshotOnPool(r) PROVE Lent'
    <2>1. PICK t : t = [tx[r] EXCEPT !.found = LiveSessions, !.pc = "revokeAllOnPool"]
      OBVIOUS
    <2>2. tx' = [tx EXCEPT ![r] = t] /\ Spare /\ tx[r].pc = "snapshotOnPool"
      BY <1>7, <2>1 DEF SnapshotOnPool
    <2>3. t.pc = "revokeAllOnPool" /\ tx[r] # Idle
      BY <1>1, <2>1, <2>2, IdleIs DEF TxRecord
    <2>. QED BY <1>1, <2>2, <2>3, OneTaken
  <1>8. ASSUME NEW r \in Request, Proceed(r) PROVE Lent'
    <2>1. CASE \/ LoginRecordFailure(r) \/ CommitLogin(r) \/ RefreshRevokeExpired(r)
               \/ CommitRefresh(r) \/ RevokeAllOnPool(r) \/ CommitLogoutAll(r)
               \/ CommitReset(r) \/ CommitChange(r) \/ CommitBlock(r)
      BY <1>3, <2>1 DEF LoginRecordFailure, CommitLogin, RefreshRevokeExpired, CommitRefresh,
           RevokeAllOnPool, CommitLogoutAll, CommitReset, CommitChange, CommitBlock, Exhausted, Fail
    <2>. QED BY <1>6, <1>7, <1>8, <2>1 DEF Proceed
  <1>9. ASSUME NEW r \in Request, Abort(r) PROVE Lent'
    BY <1>3, <1>9 DEF Abort, Fail
  <1>10. CASE tx' = tx
    BY <1>10, NoneTaken
  <1>11. ASSUME NEW t \in Token, Logout(t) \/ Expire(t) \/ GraceEnds(t) PROVE Lent'
    BY <1>10, <1>11 DEF Logout, Expire, GraceEnds
  <1>12. ASSUME NEW k \in ResetToken, RequestPasswordReset(k) PROVE Lent'
    BY <1>10, <1>12 DEF RequestPasswordReset
  <1>13. CASE UnblockUser
    BY <1>10, <1>13 DEF UnblockUser
  <1>14. CASE UNCHANGED vars
    BY <1>10, <1>14 DEF vars
  <1>. QED BY <1>5, <1>8, <1>9, <1>11, <1>12, <1>13, <1>14 DEF Next

\* The columns hold their values, no two requests hold the row of the user, and the pool
\* never lends more connections than it has, the second ones included that a reuse of a
\* token takes while its transaction is open.
THEOREM TypeCorrect == Spec => []TypeOK
  <1>1. Init => OwnInv /\ Lent
    <2>1. SUFFICES ASSUME Init PROVE OwnInv /\ Lent
      OBVIOUS
    <2>2. tx = [r \in Request |-> Idle] /\ password = 0
      BY <2>1 DEF Init
    <2>3. OwnInv
      BY <2>1, IdleIs, IdleMine, MaxPasswordNat DEF Init, OwnInv, OneWriter
    <2>4. Busy = {} /\ Nested = {}
      BY <2>2, IdleIs DEF Busy, Nested
    <2>5. Connections = 0
      BY <2>4, CountsAre, FS_EmptySet
    <2>. QED BY <2>3, <2>5, PoolSizeNat DEF Lent
  <1>2. IInv /\ OwnInv /\ Lent => TypeOK
    BY DEF IInv, Types, OwnInv, Lent, TypeOK, Mine
  <1>. QED BY <1>1, <1>2, Invariant, OwnStep, LentStep, PTL DEF Spec

-----------------------------------------------------------------------------
(* The browser: the invariant                                              *)

Turn == {"none", "current", "outrun"}
TabRecord ==
  [open : BOOLEAN, csrf : BOOLEAN, fetch : BOOLEAN, user : BOOLEAN, token : BOOLEAN,
   loading : BOOLEAN, timer : BOOLEAN, boot : Turn, timed : Turn, touched : BOOLEAN,
   been : BOOLEAN]
CallRecord ==
  [stage : {"idle", "csrf", "sent", "answered"}, cookie : 0..MaxId, csrf : BOOLEAN,
   retried : BOOLEAN, answer : {"none", "csrf", "ok", "refused"}, set : {"keep", "new", "clear"},
   issued : 0..MaxId]

BrowserTypes ==
  /\ jar \in [refresh : 0..MaxId, csrf : Tab \cup {NoTab}]
  /\ live \subseteq Id /\ excused \subseteq Id
  /\ tab \in [Tab -> TabRecord]
  /\ call \in [Tab -> [Endpoint -> CallRecord]]

\* What a tab remembers: the memory of one AuthProvider agrees with itself.
Remembers(m) ==
  /\ m.token => m.user
  /\ m.timer => m.token
  /\ m.loading <=> m.boot = "current"
  /\ m.timed = "current" => m.token
  /\ m.token => m.timer \/ m.timed = "current" \/ m.touched
  /\ m.token => m.been

\* A call sets a cookie only by its answer, and a new one only when it issued it.
CallShape(o, c) ==
  /\ c.stage # "answered" => c.answer = "none" /\ c.set = "keep"
  /\ c.stage \in {"idle", "csrf"} => c.cookie = 0
  /\ o = "logout" => c.issued = 0
  /\ o = "login" => c.cookie = 0 /\ c.stage # "csrf"
  /\ c.set # "new" => c.issued = 0
  /\ c.answer = "csrf" => c.set = "clear"
  /\ c.set = "new" => c.issued # 0

\* The cookie that an answer brings is nobody else's.
BringsNews(t, o) ==
  LET n == call[t][o].issued
  IN  /\ n \in live \cup excused /\ jar.refresh # n
      /\ \A u \in Tab, p \in Endpoint :
           call[u][p].cookie # n /\ (<<u, p>> # <<t, o>> => call[u][p].issued # n)

ClosedInv(t) == ~tab[t].open => tab[t] = Closed /\ call[t] = [o \in Endpoint |-> NoCall]

TabsInv  == \A t \in Tab : Remembers(tab[t])
CallsInv == \A t \in Tab, o \in Endpoint : CallShape(o, call[t][o])
NewsInv  == \A t \in Tab, o \in Endpoint : call[t][o].set = "new" => BringsNews(t, o)
BrowserInv ==
  /\ BrowserTypes /\ CookieLive /\ TabsInv /\ CallsInv /\ NewsInv
  /\ \A t \in Tab : ClosedInv(t)

-----------------------------------------------------------------------------
(* What a tab remembers                                                    *)

LEMMA ClosedIs == Closed \in TabRecord /\ Remembers(Closed)
  BY DEF Closed, TabRecord, Turn, Remembers

LEMMA NoCallIs == NoCall \in CallRecord /\ \A o \in Endpoint : CallShape(o, NoCall)
  <1>1. 0 \in 0..MaxId
    BY IdsEnough
  <1>. QED BY <1>1 DEF NoCall, CallRecord, CallShape

LEMMA SignedOutRemembers ==
  ASSUME NEW m \in TabRecord, m.boot # "current", m.timed # "current"
  PROVE  /\ SignedOut(m) \in TabRecord /\ Remembers(SignedOut(m))
         /\ SignedOut(m).open = m.open /\ ~SignedOut(m).token
  BY DEF SignedOut, TabRecord, Turn, Remembers

LEMMA SignedInRemembers ==
  ASSUME NEW m \in TabRecord, m.boot # "current"
  PROVE  /\ SignedIn(m) \in TabRecord /\ Remembers(SignedIn(m))
         /\ SignedIn(m).open = m.open
  BY DEF SignedIn, TabRecord, Turn, Remembers

LEMMA BumpedIs ==
  ASSUME NEW m \in TabRecord
  PROVE  /\ Bumped(m) \in TabRecord /\ Bumped(m).open = m.open
         /\ Bumped(m).boot # "current" /\ Bumped(m).timed # "current"
         /\ Bumped(m).token = m.token /\ Bumped(m).timer = m.timer /\ Bumped(m).been = m.been
         /\ Bumped(m).user = m.user /\ Bumped(m).touched = m.touched
  BY DEF Bumped, TabRecord, Turn

LEMMA AwaitedIs ==
  ASSUME NEW m \in TabRecord
  PROVE  /\ Awaited(m) \in TabRecord /\ Awaited(m).open = m.open
         /\ Awaited(m).boot = "none" /\ Awaited(m).timed = "none"
         /\ Awaited(m).token = m.token /\ Awaited(m).timer = m.timer /\ Awaited(m).been = m.been
         /\ Awaited(m).user = m.user /\ Awaited(m).touched = m.touched
         /\ Awaited(m).loading = m.loading
  BY DEF Awaited, TabRecord, Turn

\* However the promise of a call settles, the tab's memory stays in agreement.
LEMMA SettledRemembers ==
  ASSUME NEW m \in TabRecord, Remembers(m), NEW o \in Endpoint, NEW ok \in BOOLEAN
  PROVE  /\ Settled(m, o, ok) \in TabRecord /\ Remembers(Settled(m, o, ok))
         /\ Settled(m, o, ok).open = m.open
  <1>1. /\ ClearAuthUser(m) \in TabRecord /\ Remembers(ClearAuthUser(m))
        /\ ClearAuthUser(m).open = m.open /\ ~ClearAuthUser(m).token
    BY BumpedIs, SignedOutRemembers DEF ClearAuthUser
  <1>2. /\ SetAuthSession(m) \in TabRecord /\ Remembers(SetAuthSession(m))
        /\ SetAuthSession(m).open = m.open
    BY BumpedIs, SignedInRemembers DEF SetAuthSession
  <1>3. Awaited(m) \in TabRecord /\ Awaited(m).open = m.open
        /\ (m.boot # "current" /\ m.timed # "current" => Remembers(Awaited(m)))
    BY AwaitedIs DEF Remembers
  <1>4. /\ Refreshed(m) \in TabRecord /\ Remembers(Refreshed(m))
        /\ Refreshed(m).open = m.open
    <2>1. CASE "current" \in {m.boot, m.timed}
      BY <2>1, AwaitedIs, SignedInRemembers DEF Refreshed
    <2>2. CASE "current" \notin {m.boot, m.timed}
      BY <2>2, <1>3 DEF Refreshed
    <2>. QED BY <2>1, <2>2
  <1>5. /\ RefreshFailed(m) \in TabRecord /\ Remembers(RefreshFailed(m))
        /\ RefreshFailed(m).open = m.open
    <2>1. CASE m.timed = "current"
      <3>1. PICK c : c = ClearAuthUser(m)
        OBVIOUS
      <3>2. c \in TabRecord /\ Remembers(c) /\ c.open = m.open /\ ~c.token /\ ~c.loading
        <4>1. ~ClearAuthUser(m).loading
          BY BumpedIs DEF ClearAuthUser, SignedOut, TabRecord
        <4>. QED BY <1>1, <3>1, <4>1
      <3>3. Awaited(c) \in TabRecord /\ Remembers(Awaited(c)) /\ Awaited(c).open = m.open
        BY <3>2, AwaitedIs DEF Remembers
      <3>. QED BY <2>1, <3>1, <3>3 DEF RefreshFailed
    <2>2. CASE m.timed # "current" /\ m.boot = "current"
      BY <2>2, AwaitedIs, SignedOutRemembers DEF RefreshFailed
    <2>3. CASE m.timed # "current" /\ m.boot # "current"
      BY <2>3, <1>3 DEF RefreshFailed
    <2>. QED BY <2>1, <2>2, <2>3
  <1>6. CASE o = "refresh"
    BY <1>4, <1>5, <1>6 DEF Settled
  <1>7. CASE o = "logout"
    BY <1>1, <1>7 DEF Settled
  <1>8. CASE o = "login"
    BY <1>2, <1>8 DEF Settled
  <1>. QED BY <1>6, <1>7, <1>8 DEF Endpoint

LEMMA WithUserRemembers ==
  ASSUME NEW m \in TabRecord, Remembers(m)
  PROVE  /\ WithUser(m) \in TabRecord /\ Remembers(WithUser(m))
         /\ WithUser(m).open = m.open /\ WithUser(m).token = m.token
  <1>1. PICK b \in TabRecord : b = Bumped(m)
    BY BumpedIs
  <1>2. PICK x \in BOOLEAN : x = (b.touched \/ "current" \in {m.boot, m.timed})
    OBVIOUS
  <1>3. WithUser(m) = [b EXCEPT !.user = TRUE, !.loading = FALSE, !.touched = x]
    BY <1>1, <1>2 DEF WithUser
  <1>4. /\ WithUser(m) \in TabRecord
        /\ WithUser(m).open = m.open /\ WithUser(m).token = m.token
    <2>1. [b EXCEPT !.user = TRUE, !.loading = FALSE, !.touched = x] \in TabRecord
      BY DEF TabRecord
    <2>2. b.open = m.open /\ b.token = m.token
      BY <1>1, BumpedIs
    <2>3. WithUser(m).open = b.open /\ WithUser(m).token = b.token
      BY <1>3 DEF TabRecord
    <2>. QED BY <1>3, <2>1, <2>2, <2>3
  <1>5. Remembers(WithUser(m))
    <2>1. /\ b.boot # "current" /\ b.timed # "current" /\ b.token = m.token /\ b.timer = m.timer
          /\ b.been = m.been /\ b.touched = m.touched
      BY <1>1, BumpedIs
    <2>2. m.token => b.timer \/ x
      BY <1>2, <2>1 DEF Remembers
    <2>. QED BY <1>3, <2>1, <2>2 DEF Remembers, TabRecord
  <1>. QED BY <1>4, <1>5

-----------------------------------------------------------------------------
(* Tokens, cookies and calls                                               *)

LEMMA LeastOf ==
  ASSUME NEW T \in SUBSET Nat, T # {}
  PROVE  \E m \in T : \A n \in T : m <= n
  <1>1. PICK R : R = OpToRel(<, Nat)
    OBVIOUS
  <1>2. IsWellFoundedOn(R, Nat)
    BY <1>1, NatLessThanWellFounded
  <1>3. PICK m \in T : \A n \in T : <<n, m>> \notin R
    BY <1>2, WFMin
  <1>4. \A n \in T : ~ (n < m)
    BY <1>1, <1>3 DEF OpToRel
  <1>. QED BY <1>4

LEMMA ImageBound ==
  ASSUME NEW S, IsFiniteSet(S), NEW R, NEW f \in [S -> R]
  PROVE  LET T == {f[x] : x \in S} IN IsFiniteSet(T) /\ Cardinality(T) <= Cardinality(S)
  <1>. DEFINE T == {f[x] : x \in S}
  <1>1. f \in Surjection(S, T)
    BY DEF Surjection
  <1>. QED BY <1>1, FS_Surjection

\* There is always a refresh token that nothing refers to: of the calls of a tab, the
\* sign-in presents no token and the logout is issued none, which leaves four tokens to
\* a tab, and the one in the jar.
LEMMA FreshTokenIs ==
  ASSUME BrowserTypes, CallsInv, Tab # {}
  PROVE  FreshToken \in Id /\ FreshToken \notin HeldTokens
  <1>. DEFINE f1 == [t \in Tab |-> call[t]["refresh"].cookie]
              f2 == [t \in Tab |-> call[t]["logout"].cookie]
              f3 == [t \in Tab |-> call[t]["refresh"].issued]
              f4 == [t \in Tab |-> call[t]["login"].issued]
              K  == Cardinality(Tab)
              T1 == {f1[t] : t \in Tab}
              T2 == {f2[t] : t \in Tab}
              T3 == {f3[t] : t \in Tab}
              T4 == {f4[t] : t \in Tab}
  <1>1. f1 \in [Tab -> Nat] /\ f2 \in [Tab -> Nat] /\ f3 \in [Tab -> Nat] /\ f4 \in [Tab -> Nat]
    <2>1. \A t \in Tab, o \in Endpoint : call[t][o].cookie \in Nat /\ call[t][o].issued \in Nat
      BY IdsEnough DEF BrowserTypes, CallRecord
    <2>. QED BY <2>1 DEF Endpoint
  <1>2. /\ IsFiniteSet(T1) /\ Cardinality(T1) <= K
        /\ IsFiniteSet(T2) /\ Cardinality(T2) <= K
    <2>. HIDE DEF f1, f2
    <2>. QED BY <1>1, ImageBound, TabsFinite
  <1>3. /\ IsFiniteSet(T3) /\ Cardinality(T3) <= K
        /\ IsFiniteSet(T4) /\ Cardinality(T4) <= K
    <2>. HIDE DEF f3, f4
    <2>. QED BY <1>1, ImageBound, TabsFinite
  <1>4. K \in Nat /\ K # 0
    BY TabsFinite, FS_CardinalityType, FS_EmptySet
  <1>5. HeldTokens \subseteq {0} \cup ({jar.refresh} \cup ((T1 \cup T2) \cup (T3 \cup T4)))
    <2>1. \A t \in Tab : call[t]["logout"].issued = 0 /\ call[t]["login"].cookie = 0
      BY DEF CallsInv, CallShape, Endpoint
    <2>2. ASSUME NEW t \in Tab, NEW o \in Endpoint
          PROVE  /\ call[t][o].cookie \in {0} \cup (T1 \cup T2)
                 /\ call[t][o].issued \in {0} \cup (T3 \cup T4)
      <3>1. f1[t] \in T1 /\ f2[t] \in T2 /\ f3[t] \in T3 /\ f4[t] \in T4
        OBVIOUS
      <3>. QED BY <2>1, <3>1 DEF Endpoint
    <2>. HIDE DEF T1, T2, T3, T4
    <2>. QED BY <2>2 DEF HeldTokens
  <1>. HIDE DEF T1, T2, T3, T4, K
  <1>6. IsFiniteSet(T1 \cup T2) /\ Cardinality(T1 \cup T2) <= 2 * K
    <2>1. Cardinality(T1) \in Nat /\ Cardinality(T2) \in Nat /\ Cardinality(T1 \cap T2) \in Nat
      BY <1>2, FS_CardinalityType, FS_Intersection
    <2>2. /\ IsFiniteSet(T1 \cup T2)
          /\ Cardinality(T1 \cup T2) = Cardinality(T1) + Cardinality(T2) - Cardinality(T1 \cap T2)
      BY <1>2, FS_Union
    <2>. QED BY <1>2, <1>4, <2>1, <2>2
  <1>7. IsFiniteSet(T3 \cup T4) /\ Cardinality(T3 \cup T4) <= 2 * K
    <2>1. Cardinality(T3) \in Nat /\ Cardinality(T4) \in Nat /\ Cardinality(T3 \cap T4) \in Nat
      BY <1>3, FS_CardinalityType, FS_Intersection
    <2>2. /\ IsFiniteSet(T3 \cup T4)
          /\ Cardinality(T3 \cup T4) = Cardinality(T3) + Cardinality(T4) - Cardinality(T3 \cap T4)
      BY <1>3, FS_Union
    <2>. QED BY <1>3, <1>4, <2>1, <2>2
  <1>. DEFINE A == T1 \cup T2
              B == T3 \cup T4
              H == {jar.refresh} \cup (A \cup B)
  <1>8. IsFiniteSet(A \cup B) /\ Cardinality(A \cup B) <= 4 * K
    <2>. HIDE DEF A, B
    <2>0. IsFiniteSet(A) /\ IsFiniteSet(B) /\ Cardinality(A) <= 2 * K /\ Cardinality(B) <= 2 * K
      BY <1>6, <1>7 DEF A, B
    <2>1. Cardinality(A) \in Nat /\ Cardinality(B) \in Nat /\ Cardinality(A \cap B) \in Nat
      BY <2>0, FS_CardinalityType, FS_Intersection
    <2>2. /\ IsFiniteSet(A \cup B)
          /\ Cardinality(A \cup B) = Cardinality(A) + Cardinality(B) - Cardinality(A \cap B)
      BY <2>0, FS_Union
    <2>. QED BY <2>0, <1>4, <2>1, <2>2
  <1>9. IsFiniteSet(H) /\ Cardinality(H) <= 1 + 4 * K
    <2>. HIDE DEF A, B
    <2>1. H = (A \cup B) \cup {jar.refresh}
      OBVIOUS
    <2>2. Cardinality(A \cup B) \in Nat
      BY <1>8, FS_CardinalityType
    <2>. HIDE DEF H
    <2>. QED BY <1>4, <1>8, <2>1, <2>2, FS_AddElement
  <1>. HIDE DEF H
  <1>10. Id \ HeldTokens # {}
    <2>1. SUFFICES ASSUME Id \ HeldTokens = {} PROVE FALSE
      OBVIOUS
    <2>2. Id \subseteq H
      <3>1. 0 \notin Id
        BY IdsEnough DEF Id
      <3>. QED BY <1>5, <2>1, <3>1 DEF H
    <2>3. Cardinality(Id) = MaxId
      BY IdsEnough, FS_Interval DEF Id
    <2>4. Cardinality(Id) <= Cardinality(H) /\ Cardinality(H) \in Nat
      BY <1>9, <2>2, FS_Subset, FS_CardinalityType
    <2>. QED BY <1>4, <1>9, <2>3, <2>4, IdsEnough DEF K
  <1>11. Id \ HeldTokens \in SUBSET Nat
    BY IdsEnough DEF Id
  <1>12. \E n \in Id \ HeldTokens : \A m \in Id \ HeldTokens : n <= m
    BY <1>10, <1>11, LeastOf
  <1>13. FreshToken \in Id \ HeldTokens
    BY <1>12 DEF FreshToken
  <1>. QED BY <1>13

LEMMA HoldsAll ==
  /\ jar.refresh \in HeldTokens /\ jar'.refresh \in HeldTokens'
  /\ \A t \in Tab, o \in Endpoint :
       /\ call[t][o].cookie \in HeldTokens /\ call[t][o].issued \in HeldTokens
       /\ call'[t][o].cookie \in HeldTokens' /\ call'[t][o].issued \in HeldTokens'
  <1>2. ASSUME NEW t \in Tab, NEW o \in Endpoint
        PROVE  {call[t][o].cookie, call[t][o].issued} \subseteq HeldTokens
    <2>. DEFINE X == {{call[u][p].cookie, call[u][p].issued} : u \in Tab, p \in Endpoint}
                P == {call[t][o].cookie, call[t][o].issued}
    <2>1. P \in X
      OBVIOUS
    <2>2. UNION X \subseteq HeldTokens
      BY DEF HeldTokens
    <2>. HIDE DEF X, P
    <2>3. P \subseteq HeldTokens
      BY <2>1, <2>2
    <2>. QED BY <2>3 DEF P
  <1>3. ASSUME NEW t \in Tab, NEW o \in Endpoint
        PROVE  {call'[t][o].cookie, call'[t][o].issued} \subseteq HeldTokens'
    <2>. DEFINE X == {{call'[u][p].cookie, call'[u][p].issued} : u \in Tab, p \in Endpoint}
                P == {call'[t][o].cookie, call'[t][o].issued}
    <2>1. P \in X
      OBVIOUS
    <2>2. UNION X \subseteq HeldTokens'
      BY DEF HeldTokens
    <2>. HIDE DEF X, P
    <2>3. P \subseteq HeldTokens'
      BY <2>1, <2>2
    <2>. QED BY <2>3 DEF P
  <1>4. jar.refresh \in HeldTokens /\ jar'.refresh \in HeldTokens'
    BY DEF HeldTokens
  <1>. QED BY <1>2, <1>3, <1>4

LEMMA ForgetIs ==
  ASSUME NEW D \in SUBSET Id, Forget(D), live \subseteq Id, excused \subseteq Id
  PROVE  /\ live' \subseteq Id /\ excused' \subseteq Id
         /\ (live \cup excused \cup D) \cap HeldTokens' \subseteq live' \cup excused'
  BY DEF Forget

LEMMA OneCall ==
  ASSUME BrowserTypes, NEW t \in Tab, NEW o \in Endpoint, NEW c \in CallRecord,
         call' = [call EXCEPT ![t][o] = c]
  PROVE  /\ call' \in [Tab -> [Endpoint -> CallRecord]]
         /\ call'[t][o] = c
         /\ \A u \in Tab, p \in Endpoint : <<u, p>> # <<t, o>> => call'[u][p] = call[u][p]
         /\ \A u \in Tab : u # t => call'[u] = call[u]
  BY DEF BrowserTypes

LEMMA OneTab ==
  ASSUME BrowserTypes, TabsInv, NEW t \in Tab, NEW m \in TabRecord, Remembers(m),
         tab' = [tab EXCEPT ![t] = m]
  PROVE  /\ tab' \in [Tab -> TabRecord] /\ TabsInv'
         /\ tab'[t] = m /\ \A u \in Tab : u # t => tab'[u] = tab[u]
  <1>1. /\ tab' \in [Tab -> TabRecord]
        /\ tab'[t] = m /\ \A u \in Tab : u # t => tab'[u] = tab[u]
    BY DEF BrowserTypes
  <1>2. ASSUME NEW u \in Tab PROVE Remembers(tab'[u])
    BY <1>1 DEF TabsInv
  <1>3. TabsInv'
    BY <1>2 DEF TabsInv, Remembers
  <1>. QED BY <1>1, <1>3

\* No answer under way brings a cookie that is used otherwise, after a step that issues none.
LEMMA NewsKept ==
  ASSUME BrowserTypes, CallsInv, NewsInv, CallsInv',
         \A t \in Tab, o \in Endpoint :
           /\ call'[t][o].set = "new" => call'[t][o] = call[t][o]
           /\ call'[t][o].cookie \in {0, jar.refresh, call[t][o].cookie},
         \/ jar'.refresh \in {0, jar.refresh}
         \/ \E t \in Tab, o \in Endpoint :
              call[t][o].set = "new" /\ jar'.refresh = call[t][o].issued /\ call'[t][o].set # "new",
         \A n \in (live \cup excused) \cap HeldTokens' :
           n \in live' \cup excused' \/ \E u \in Tab, p \in Endpoint : call[u][p].cookie = n
  PROVE  NewsInv'
  <1>1. SUFFICES ASSUME NEW t \in Tab, NEW o \in Endpoint, call'[t][o].set = "new"
                 PROVE  BringsNews(t, o)'
    BY DEF NewsInv
  <1>2. PICK n : n = call[t][o].issued
    OBVIOUS
  <1>3. call'[t][o] = call[t][o] /\ call'[t][o].issued = n /\ call[t][o].set = "new" /\ n # 0
    BY <1>1, <1>2 DEF CallsInv, CallShape
  <1>4. /\ n \in live \cup excused /\ jar.refresh # n
        /\ \A u \in Tab, p \in Endpoint :
             call[u][p].cookie # n /\ (<<u, p>> # <<t, o>> => call[u][p].issued # n)
    BY <1>2, <1>3 DEF NewsInv, BringsNews
  <1>5. n \in HeldTokens'
    BY <1>3, HoldsAll
  <1>6. n \in live' \cup excused'
    BY <1>4, <1>5
  <1>7. jar'.refresh # n
    <2>1. CASE jar'.refresh \in {0, jar.refresh}
      BY <1>3, <1>4, <2>1
    <2>2. ASSUME NEW u \in Tab, NEW p \in Endpoint, call[u][p].set = "new",
                 jar'.refresh = call[u][p].issued, call'[u][p].set # "new"
          PROVE  jar'.refresh # n
      <3>1. <<u, p>> # <<t, o>>
        BY <1>1, <2>2
      <3>. QED BY <1>4, <2>2, <3>1
    <2>. QED BY <2>1, <2>2
  <1>8. ASSUME NEW u \in Tab, NEW p \in Endpoint
        PROVE  call'[u][p].cookie # n /\ (<<u, p>> # <<t, o>> => call'[u][p].issued # n)
    <2>1. call'[u][p].cookie # n
      BY <1>3, <1>4
    <2>2. CASE call'[u][p].set = "new"
      BY <1>4, <2>1, <2>2
    <2>3. CASE call'[u][p].set # "new"
      BY <1>3, <2>1, <2>3 DEF CallsInv, CallShape
    <2>. QED BY <2>2, <2>3
  <1>. QED BY <1>3, <1>6, <1>7, <1>8 DEF BringsNews

\* A token is issued, which nothing referred to.
LEMMA NewsAdded ==
  ASSUME BrowserTypes, CallsInv, NewsInv, NEW t \in Tab, NEW o \in Endpoint,
         NEW c \in CallRecord, call' = [call EXCEPT ![t][o] = c],
         c.cookie = call[t][o].cookie, c.set = "new",
         c.issued \notin HeldTokens, c.issued \in live',
         call[t][o].set # "new", UNCHANGED jar,
         \A n \in live \cup excused :
           n \in live' \cup excused' \/ \E u \in Tab, p \in Endpoint : call[u][p].cookie = n
  PROVE  NewsInv'
  <1>1. /\ call' \in [Tab -> [Endpoint -> CallRecord]]
        /\ call'[t][o] = c
        /\ \A u \in Tab, p \in Endpoint : <<u, p>> # <<t, o>> => call'[u][p] = call[u][p]
        /\ \A u \in Tab : u # t => call'[u] = call[u]
    BY OneCall
  <1>2. \A u \in Tab, p \in Endpoint : call'[u][p].cookie = call[u][p].cookie
    BY <1>1
  <1>3. jar'.refresh = jar.refresh
    OBVIOUS
  <1>4. BringsNews(t, o)'
    <2>1. \A u \in Tab, p \in Endpoint : call'[u][p].cookie # c.issued
      BY <1>2, HoldsAll
    <2>2. \A u \in Tab, p \in Endpoint : <<u, p>> # <<t, o>> => call'[u][p].issued # c.issued
      BY <1>1, HoldsAll
    <2>3. jar'.refresh # c.issued
      BY <1>3, HoldsAll
    <2>. QED BY <1>1, <2>1, <2>2, <2>3 DEF BringsNews
  <1>5. ASSUME NEW u \in Tab, NEW p \in Endpoint, call'[u][p].set = "new", <<u, p>> # <<t, o>>
        PROVE  BringsNews(u, p)'
    <2>1. PICK n : n = call[u][p].issued
      OBVIOUS
    <2>2. call'[u][p] = call[u][p] /\ call[u][p].set = "new"
      BY <1>1, <1>5
    <2>3. /\ n \in live \cup excused /\ jar.refresh # n
          /\ \A v \in Tab, q \in Endpoint :
               call[v][q].cookie # n /\ (<<v, q>> # <<u, p>> => call[v][q].issued # n)
      BY <2>1, <2>2 DEF NewsInv, BringsNews
    <2>4. n \in live' \cup excused'
      BY <2>3
    <2>5. c.issued # n
      BY <2>1, HoldsAll
    <2>6. \A v \in Tab, q \in Endpoint :
            call'[v][q].cookie # n /\ (<<v, q>> # <<u, p>> => call'[v][q].issued # n)
      BY <1>1, <1>2, <2>3, <2>5
    <2>. QED BY <1>3, <2>1, <2>2, <2>3, <2>4, <2>6 DEF BringsNews
  <1>. QED BY <1>4, <1>5 DEF NewsInv

\* Who will replace the cookie.
Replaces(c) == c.stage = "answered" /\ c.set # "keep" /\ c.cookie = jar.refresh

LEMMA CookieKept ==
  ASSUME CookieLive, jar'.refresh = jar.refresh,
         jar.refresh \in live \cup excused => CookieLive',
         \A t \in Tab, o \in Endpoint : Replaces(call[t][o]) =>
           call'[t][o] = call[t][o] \/ jar.refresh \in live' \cup excused' \cup {0}
  PROVE  CookieLive'
  <1>1. CASE jar.refresh \in live \cup excused \cup {0}
    BY <1>1 DEF CookieLive
  <1>2. ASSUME NEW t \in Tab, NEW o \in Endpoint, Replaces(call[t][o])
        PROVE  CookieLive'
    BY <1>2 DEF CookieLive, Replaces
  <1>. QED BY <1>1, <1>2 DEF CookieLive, Replaces

\* A step that neither issues nor ends a token that is held, and leaves the cookie.
LEMMA QuietStep ==
  ASSUME BrowserInv, BrowserTypes', TabsInv', CallsInv',
         \A t \in Tab : ClosedInv(t)',
         jar'.refresh = jar.refresh,
         (live \cup excused) \cap HeldTokens' \subseteq live' \cup excused',
         \A t \in Tab, o \in Endpoint :
           /\ call'[t][o].set = "new" => call'[t][o] = call[t][o]
           /\ call'[t][o].cookie \in {0, jar.refresh, call[t][o].cookie}
           /\ Replaces(call[t][o]) =>
                call'[t][o] = call[t][o] \/ jar.refresh \in live' \cup excused' \cup {0}
  PROVE  BrowserInv'
  <1>1. NewsInv'
    BY NewsKept DEF BrowserInv
  <1>2. jar.refresh \in live \cup excused => CookieLive'
    BY HoldsAll DEF CookieLive
  <1>3. CookieLive'
    BY <1>2, CookieKept DEF BrowserInv
  <1>. QED BY <1>1, <1>3 DEF BrowserInv

-----------------------------------------------------------------------------
(* Calls start                                                             *)

LEMMA StartedIs ==
  ASSUME BrowserTypes, NEW t \in Tab, NEW o \in Endpoint, NEW h \in BOOLEAN, NEW r \in BOOLEAN
  PROVE  LET c == Started(t, o, h, r)
         IN  /\ c \in CallRecord /\ CallShape(o, c) /\ c.set = "keep"
             /\ c.cookie \in {0, jar.refresh} /\ c.stage \in {"csrf", "sent"}
  <1>1. PICK k : k = jar.refresh /\ k \in 0..MaxId
    BY DEF BrowserTypes
  <1>2. PICK b \in BOOLEAN : b = (jar.csrf = t)
    OBVIOUS
  <1>3. 0 \in 0..MaxId
    BY IdsEnough
  <1>4. CASE ~NeedsCsrf(o)
    <2>1. Started(t, o, h, r) = [[NoCall EXCEPT !.retried = r] EXCEPT !.stage = "sent"]
      BY <1>4 DEF Started
    <2>. QED BY <1>3, <2>1 DEF NoCall, CallRecord, CallShape
  <1>5. CASE NeedsCsrf(o) /\ h
    <2>1. Started(t, o, h, r) = [[NoCall EXCEPT !.retried = r]
                                   EXCEPT !.stage = "sent", !.cookie = k, !.csrf = b]
      BY <1>1, <1>2, <1>5 DEF Started, Sent
    <2>2. o # "login"
      BY <1>5 DEF NeedsCsrf
    <2>. QED BY <1>1, <1>3, <2>1, <2>2 DEF NoCall, CallRecord, CallShape
  <1>6. CASE NeedsCsrf(o) /\ ~h
    <2>1. Started(t, o, h, r) = [[NoCall EXCEPT !.retried = r] EXCEPT !.stage = "csrf"]
      BY <1>6 DEF Started
    <2>2. o # "login"
      BY <1>6 DEF NeedsCsrf
    <2>. QED BY <1>3, <2>1, <2>2 DEF NoCall, CallRecord, CallShape
  <1>. QED BY <1>4, <1>5, <1>6

LEMMA FetchingRemembers ==
  ASSUME NEW m \in TabRecord, Remembers(m), NEW c
  PROVE  /\ Fetching(m, c) \in TabRecord /\ Remembers(Fetching(m, c))
         /\ Fetching(m, c).open = m.open
  <1>1. PICK x \in BOOLEAN : x = (m.fetch \/ c.stage = "csrf")
    OBVIOUS
  <1>2. Fetching(m, c) = [m EXCEPT !.fetch = x]
    BY <1>1 DEF Fetching, TabRecord
  <1>. QED BY <1>2 DEF TabRecord, Remembers

LEMMA StartCallInv ==
  ASSUME BrowserInv, NEW t \in Tab, NEW o \in Endpoint, NEW m \in TabRecord, Remembers(m), m.open,
         call[t][o].stage = "idle", StartCall(t, m, o), UNCHANGED <<jar, live, excused>>
  PROVE  BrowserInv'
  <1>1. PICK c : c = Started(t, o, m.csrf, FALSE)
    OBVIOUS
  <1>2. /\ c \in CallRecord /\ CallShape(o, c) /\ c.set = "keep" /\ c.cookie \in {0, jar.refresh}
    <2>1. m.csrf \in BOOLEAN
      BY DEF TabRecord
    <2>. QED BY <1>1, <2>1, StartedIs DEF BrowserInv
  <1>3. tab' = [tab EXCEPT ![t] = Fetching(m, c)] /\ call' = [call EXCEPT ![t][o] = c]
    BY <1>1 DEF StartCall
  <1>4. PICK f \in TabRecord : f = Fetching(m, c) /\ Remembers(f) /\ f.open
    BY FetchingRemembers
  <1>5. /\ tab' \in [Tab -> TabRecord] /\ TabsInv'
        /\ tab'[t] = f /\ \A u \in Tab : u # t => tab'[u] = tab[u]
    BY <1>3, <1>4, OneTab DEF BrowserInv
  <1>6. /\ call' \in [Tab -> [Endpoint -> CallRecord]]
        /\ call'[t][o] = c
        /\ \A u \in Tab, p \in Endpoint : <<u, p>> # <<t, o>> => call'[u][p] = call[u][p]
        /\ \A u \in Tab : u # t => call'[u] = call[u]
    BY <1>2, <1>3, OneCall DEF BrowserInv
  <1>7. BrowserTypes'
    BY <1>5, <1>6 DEF BrowserInv, BrowserTypes
  <1>8. CallsInv'
    BY <1>2, <1>6 DEF BrowserInv, CallsInv, CallShape
  <1>9. \A u \in Tab : ClosedInv(u)'
    BY <1>4, <1>5, <1>6 DEF BrowserInv, ClosedInv
  <1>10. \A u \in Tab, p \in Endpoint :
           /\ call'[u][p].set = "new" => call'[u][p] = call[u][p]
           /\ call'[u][p].cookie \in {0, jar.refresh, call[u][p].cookie}
           /\ Replaces(call[u][p]) => call'[u][p] = call[u][p]
    BY <1>2, <1>6 DEF Replaces
  <1>. QED BY <1>5, <1>7, <1>8, <1>9, <1>10, QuietStep

\* A step of one tab's memory alone.
LEMMA TabStep ==
  ASSUME BrowserInv, NEW t \in Tab, NEW m \in TabRecord, Remembers(m), m.open,
         tab' = [tab EXCEPT ![t] = m], UNCHANGED <<jar, live, excused, call>>
  PROVE  BrowserInv'
  <1>1. /\ tab' \in [Tab -> TabRecord] /\ TabsInv'
        /\ tab'[t] = m /\ \A u \in Tab : u # t => tab'[u] = tab[u]
    BY OneTab DEF BrowserInv
  <1>2. BrowserTypes' /\ CallsInv' /\ CookieLive' /\ NewsInv'
    BY <1>1 DEF BrowserInv, BrowserTypes, CallsInv, CallShape, CookieLive, NewsInv, BringsNews
  <1>3. \A u \in Tab : ClosedInv(u)'
    BY <1>1 DEF BrowserInv, ClosedInv
  <1>. QED BY <1>1, <1>2, <1>3 DEF BrowserInv

\* Whatever a tab that is not open does not have.
LEMMA OpenTab ==
  ASSUME BrowserInv, NEW t \in Tab
  PROVE  /\ ~tab[t].open => \A o \in Endpoint : call[t][o].stage = "idle"
         /\ tab[t].fetch \/ tab[t].timer \/ tab[t].token \/ tab[t].been => tab[t].open
  <1>1. /\ ~Closed.fetch /\ ~Closed.timer /\ ~Closed.token /\ ~Closed.been
        /\ NoCall.stage = "idle"
    BY DEF Closed, NoCall
  <1>. QED BY <1>1 DEF BrowserInv, ClosedInv

LEMMA OpenInv ==
  ASSUME BrowserInv, NEW t \in Tab, Open(t)
  PROVE  BrowserInv'
  <1>1. PICK m : m = [Closed EXCEPT !.open = TRUE, !.loading = TRUE, !.boot = "current"]
    OBVIOUS
  <1>2. m \in TabRecord /\ Remembers(m) /\ m.open
    BY <1>1 DEF Closed, TabRecord, Turn, Remembers
  <1>3. ~tab[t].open /\ StartCall(t, m, "refresh") /\ UNCHANGED <<jar, live, excused>>
    BY <1>1 DEF Open
  <1>4. "refresh" \in Endpoint /\ call[t]["refresh"].stage = "idle"
    BY <1>3, OpenTab DEF Endpoint
  <1>. QED BY <1>2, <1>3, <1>4, StartCallInv

LEMMA TimedRefreshInv ==
  ASSUME BrowserInv, NEW t \in Tab, TimedRefresh(t)
  PROVE  BrowserInv'
  <1>1. PICK k \in TabRecord : k = tab[t] /\ Remembers(k)
    BY DEF BrowserInv, BrowserTypes, TabsInv
  <1>2. k.timer /\ k.open
    BY <1>1, OpenTab DEF TimedRefresh
  <1>3. PICK m : m = [k EXCEPT !.timer = FALSE, !.timed = "current"]
    OBVIOUS
  <1>4. m \in TabRecord /\ Remembers(m) /\ m.open
    BY <1>1, <1>2, <1>3 DEF TabRecord, Turn, Remembers
  <1>5. "refresh" \in Endpoint
    BY DEF Endpoint
  <1>6. CASE call[t]["refresh"].stage = "idle"
    <2>1. StartCall(t, m, "refresh") /\ UNCHANGED <<jar, live, excused>>
      BY <1>1, <1>3, <1>6 DEF TimedRefresh
    <2>. QED BY <1>4, <1>5, <1>6, <2>1, StartCallInv
  <1>7. CASE call[t]["refresh"].stage # "idle"
    <2>1. tab' = [tab EXCEPT ![t] = m] /\ UNCHANGED <<jar, live, excused, call>>
      BY <1>1, <1>3, <1>7 DEF TimedRefresh
    <2>. QED BY <1>4, <2>1, TabStep
  <1>. QED BY <1>6, <1>7

LEMMA SubmitInv ==
  ASSUME BrowserInv, NEW t \in Tab, HandleLogout(t) \/ SubmitLogin(t)
  PROVE  BrowserInv'
  <1>1. tab[t] \in TabRecord /\ Remembers(tab[t])
    BY DEF BrowserInv, BrowserTypes, TabsInv
  <1>2. "logout" \in Endpoint /\ "login" \in Endpoint
    BY DEF Endpoint
  <1>3. CASE HandleLogout(t)
    <2>1. /\ tab[t].open /\ call[t]["logout"].stage = "idle"
          /\ StartCall(t, tab[t], "logout") /\ UNCHANGED <<jar, live, excused>>
      BY <1>3, OpenTab DEF HandleLogout, Authenticated
    <2>. QED BY <1>1, <1>2, <2>1, StartCallInv
  <1>4. CASE SubmitLogin(t)
    <2>1. /\ tab[t].open /\ call[t]["login"].stage = "idle"
          /\ StartCall(t, tab[t], "login") /\ UNCHANGED <<jar, live, excused>>
      BY <1>4 DEF SubmitLogin
    <2>. QED BY <1>1, <1>2, <2>1, StartCallInv
  <1>. QED BY <1>3, <1>4

LEMMA SetAuthUserInv ==
  ASSUME BrowserInv, NEW t \in Tab, SetAuthUser(t)
  PROVE  BrowserInv'
  <1>1. tab[t] \in TabRecord /\ Remembers(tab[t]) /\ tab[t].open
    BY OpenTab DEF BrowserInv, BrowserTypes, TabsInv, SetAuthUser
  <1>2. tab' = [tab EXCEPT ![t] = WithUser(tab[t])] /\ UNCHANGED <<jar, live, excused, call>>
    BY DEF SetAuthUser
  <1>3. PICK m \in TabRecord : m = WithUser(tab[t]) /\ Remembers(m) /\ m.open
    BY <1>1, WithUserRemembers
  <1>. QED BY <1>2, <1>3, TabStep

LEMMA SessionEndedInv ==
  ASSUME BrowserInv, NEW t \in Tab, SessionEnded(t)
  PROVE  BrowserInv'
  <1>1. tab[t] \in TabRecord /\ Remembers(tab[t]) /\ tab[t].open
    BY OpenTab DEF BrowserInv, BrowserTypes, TabsInv, SessionEnded, Authenticated
  <1>2. tab' = [tab EXCEPT ![t] = ClearAuthUser(tab[t])] /\ UNCHANGED <<jar, live, excused, call>>
    BY <1>1 DEF SessionEnded, BrowserInv, BrowserTypes
  <1>3. PICK m \in TabRecord : m = ClearAuthUser(tab[t]) /\ Remembers(m) /\ m.open
    BY <1>1, BumpedIs, SignedOutRemembers DEF ClearAuthUser
  <1>. QED BY <1>2, <1>3, TabStep

-----------------------------------------------------------------------------
(* The server answers                                                      *)

LEMMA AnswerIs ==
  ASSUME BrowserInv, NEW t \in Tab, NEW o \in Endpoint, call[t][o].stage = "sent",
         NEW a \in {"csrf", "ok", "refused"}, NEW s \in {"keep", "new", "clear"},
         NEW n \in 0..MaxId, Answer(t, o, a, s, n),
         s = "new" <=> n # 0, a = "csrf" => s = "clear", o = "logout" => s # "new"
  PROVE  \E c \in CallRecord :
           /\ call' = [call EXCEPT ![t][o] = c] /\ CallShape(o, c)
           /\ c.cookie = call[t][o].cookie /\ c.set = s /\ c.issued = n /\ c.stage = "answered"
           /\ ~Replaces(call[t][o]) /\ call[t][o].set # "new"
  <1>1. PICK d : d = call[t][o] /\ d \in CallRecord /\ CallShape(o, d)
    BY DEF BrowserInv, BrowserTypes, CallsInv
  <1>2. PICK c : c = [d EXCEPT !.stage = "answered", !.answer = a, !.set = s, !.issued = n]
    OBVIOUS
  <1>3. c \in CallRecord /\ c.cookie = d.cookie /\ c.set = s /\ c.issued = n
        /\ c.stage = "answered" /\ c.answer = a
    BY <1>1, <1>2 DEF CallRecord
  <1>4. call' = [call EXCEPT ![t][o] = c]
    BY <1>1, <1>2 DEF Answer, BrowserInv, BrowserTypes
  <1>5. CallShape(o, c)
    BY <1>1, <1>3 DEF CallShape
  <1>. QED BY <1>1, <1>3, <1>4, <1>5 DEF CallShape, Replaces

LEMMA AnsweredCall ==
  ASSUME BrowserInv, NEW t \in Tab, NEW o \in Endpoint, call[t][o].stage = "sent",
         NEW c \in CallRecord, CallShape(o, c), call' = [call EXCEPT ![t][o] = c],
         UNCHANGED <<jar, tab>>, live' \subseteq Id, excused' \subseteq Id
  PROVE  /\ BrowserTypes' /\ TabsInv' /\ CallsInv' /\ \A u \in Tab : ClosedInv(u)'
         /\ call'[t][o] = c
         /\ \A u \in Tab, p \in Endpoint : <<u, p>> # <<t, o>> => call'[u][p] = call[u][p]
  <1>1. /\ call' \in [Tab -> [Endpoint -> CallRecord]]
        /\ call'[t][o] = c
        /\ \A u \in Tab, p \in Endpoint : <<u, p>> # <<t, o>> => call'[u][p] = call[u][p]
        /\ \A u \in Tab : u # t => call'[u] = call[u]
    BY OneCall DEF BrowserInv
  <1>2. BrowserTypes' /\ TabsInv'
    BY <1>1 DEF BrowserInv, BrowserTypes, TabsInv, Remembers
  <1>3. CallsInv'
    BY <1>1 DEF BrowserInv, CallsInv, CallShape
  <1>4. \A u \in Tab : ClosedInv(u)'
    BY <1>1, OpenTab DEF BrowserInv, ClosedInv
  <1>. QED BY <1>1, <1>2, <1>3, <1>4

\* An answer that issues nothing and ends no token but for good.
LEMMA RefusedInv ==
  ASSUME BrowserInv, NEW t \in Tab, NEW o \in Endpoint, call[t][o].stage = "sent",
         NEW a \in {"csrf", "refused"}, NEW s \in {"keep", "clear"}, Answer(t, o, a, s, 0),
         a = "csrf" => s = "clear", UNCHANGED <<jar, tab>>,
         live' \cup excused' = live \cup excused
  PROVE  BrowserInv'
  <1>1. 0 \in 0..MaxId /\ live' \subseteq Id /\ excused' \subseteq Id
    BY IdsEnough DEF BrowserInv, BrowserTypes
  <1>2. PICK c \in CallRecord :
           /\ call' = [call EXCEPT ![t][o] = c] /\ CallShape(o, c)
           /\ c.cookie = call[t][o].cookie /\ c.set = s /\ c.issued = 0 /\ c.stage = "answered"
           /\ ~Replaces(call[t][o]) /\ call[t][o].set # "new"
    BY <1>1, AnswerIs
  <1>3. /\ BrowserTypes' /\ TabsInv' /\ CallsInv' /\ \A u \in Tab : ClosedInv(u)'
        /\ call'[t][o] = c
        /\ \A u \in Tab, p \in Endpoint : <<u, p>> # <<t, o>> => call'[u][p] = call[u][p]
    BY <1>1, <1>2, AnsweredCall
  <1>4. \A u \in Tab, p \in Endpoint :
           /\ call'[u][p].set = "new" => call'[u][p] = call[u][p]
           /\ call'[u][p].cookie \in {0, jar.refresh, call[u][p].cookie}
           /\ Replaces(call[u][p]) => call'[u][p] = call[u][p]
    BY <1>2, <1>3
  <1>. QED BY <1>3, <1>4, QuietStep

\* The token that the answered call presented is revoked, or lives on: if it is the
\* cookie, the answer will replace it.
LEMMA EndedCookie ==
  ASSUME BrowserInv, NEW t \in Tab, NEW o \in Endpoint, NEW c,
         call'[t][o] = c, c.stage = "answered", c.set # "keep", c.cookie = call[t][o].cookie,
         ~Replaces(call[t][o]), jar' = jar,
         \A u \in Tab, p \in Endpoint : <<u, p>> # <<t, o>> => call'[u][p] = call[u][p],
         (live \cup excused) \ {c.cookie} \subseteq live' \cup excused'
  PROVE  CookieLive'
  <1>1. CASE jar.refresh = c.cookie
    BY <1>1 DEF CookieLive
  <1>2. CASE jar.refresh # c.cookie
    <2>1. jar.refresh \in live \cup excused => CookieLive'
      BY <1>2 DEF CookieLive
    <2>2. \A u \in Tab, p \in Endpoint : Replaces(call[u][p]) => call'[u][p] = call[u][p]
      OBVIOUS
    <2>. QED BY <2>1, <2>2, CookieKept DEF BrowserInv
  <1>. QED BY <1>1, <1>2

LEMMA AnswerLogoutInv ==
  ASSUME BrowserInv, NEW t \in Tab, call[t]["logout"].stage = "sent", AnswerLogout(t),
         UNCHANGED <<jar, tab>>
  PROVE  BrowserInv'
  <1>1. PICK k : k = call[t]["logout"].cookie
    OBVIOUS
  <1>2. /\ live' = live \ {k} /\ excused' = excused
        /\ Answer(t, "logout", "ok", "clear", 0)
    BY <1>1 DEF AnswerLogout
  <1>3. /\ "logout" \in Endpoint /\ 0 \in 0..MaxId /\ live' \subseteq Id /\ excused' \subseteq Id
    BY <1>2, IdsEnough DEF Endpoint, BrowserInv, BrowserTypes
  <1>4. PICK c \in CallRecord :
           /\ call' = [call EXCEPT ![t]["logout"] = c] /\ CallShape("logout", c)
           /\ c.cookie = k /\ c.set = "clear" /\ c.issued = 0 /\ c.stage = "answered"
           /\ ~Replaces(call[t]["logout"]) /\ call[t]["logout"].set # "new"
    BY <1>1, <1>2, <1>3, AnswerIs
  <1>5. /\ BrowserTypes' /\ TabsInv' /\ CallsInv' /\ \A u \in Tab : ClosedInv(u)'
        /\ call'[t]["logout"] = c
        /\ \A u \in Tab, p \in Endpoint : <<u, p>> # <<t, "logout">> => call'[u][p] = call[u][p]
    BY <1>3, <1>4, AnsweredCall
  <1>6. CookieLive'
    BY <1>1, <1>2, <1>3, <1>4, <1>5, EndedCookie
  <1>7. NewsInv'
    <2>1. \A u \in Tab, p \in Endpoint :
           /\ call'[u][p].set = "new" => call'[u][p] = call[u][p]
           /\ call'[u][p].cookie \in {0, jar.refresh, call[u][p].cookie}
      BY <1>1, <1>4, <1>5
    <2>2. \A n \in (live \cup excused) \cap HeldTokens' :
            n \in live' \cup excused' \/ \E u \in Tab, p \in Endpoint : call[u][p].cookie = n
      BY <1>1, <1>2, <1>3
    <2>. QED BY <1>5, <2>1, <2>2, NewsKept DEF BrowserInv
  <1>. QED BY <1>5, <1>6, <1>7 DEF BrowserInv

LEMMA RotateInv ==
  ASSUME BrowserInv, NEW t \in Tab, call[t]["refresh"].stage = "sent", Rotate(t),
         UNCHANGED <<jar, tab>>
  PROVE  BrowserInv'
  <1>1. PICK k : k = call[t]["refresh"].cookie
    OBVIOUS
  <1>2. PICK n : n = FreshToken /\ n \in Id /\ n \notin HeldTokens
    BY FreshTokenIs DEF BrowserInv
  <1>3. /\ live' = (live \ {k}) \cup {n} /\ excused' = excused
        /\ Answer(t, "refresh", "ok", "new", n)
    BY <1>1, <1>2 DEF Rotate
  <1>4. /\ "refresh" \in Endpoint /\ n \in 0..MaxId /\ n # 0
        /\ live' \subseteq Id /\ excused' \subseteq Id
    <2>1. n \in 0..MaxId /\ n # 0
      BY <1>2, IdsEnough DEF Id
    <2>2. live \subseteq Id /\ excused \subseteq Id
      BY DEF BrowserInv, BrowserTypes
    <2>. QED BY <1>2, <1>3, <2>1, <2>2 DEF Endpoint
  <1>5. PICK c \in CallRecord :
           /\ call' = [call EXCEPT ![t]["refresh"] = c] /\ CallShape("refresh", c)
           /\ c.cookie = k /\ c.set = "new" /\ c.issued = n /\ c.stage = "answered"
           /\ ~Replaces(call[t]["refresh"]) /\ call[t]["refresh"].set # "new"
    BY <1>1, <1>3, <1>4, AnswerIs
  <1>6. /\ BrowserTypes' /\ TabsInv' /\ CallsInv' /\ \A u \in Tab : ClosedInv(u)'
        /\ call'[t]["refresh"] = c
        /\ \A u \in Tab, p \in Endpoint : <<u, p>> # <<t, "refresh">> => call'[u][p] = call[u][p]
    BY <1>4, <1>5, AnsweredCall
  <1>7. CookieLive'
    BY <1>1, <1>3, <1>4, <1>5, <1>6, EndedCookie
  <1>8. NewsInv'
    <2>1. \A m \in live \cup excused :
            m \in live' \cup excused' \/ \E u \in Tab, p \in Endpoint : call[u][p].cookie = m
      BY <1>1, <1>3, <1>4
    <2>2. n \in live'
      BY <1>3
    <2>3. c.cookie = call[t]["refresh"].cookie /\ c.issued \notin HeldTokens /\ c.issued \in live'
      BY <1>1, <1>2, <1>5, <2>2
    <2>. QED BY <1>4, <1>5, <2>1, <2>3, NewsAdded DEF BrowserInv
  <1>. QED BY <1>6, <1>7, <1>8 DEF BrowserInv

LEMMA AnswerLoginInv ==
  ASSUME BrowserInv, NEW t \in Tab, call[t]["login"].stage = "sent", AnswerLogin(t),
         UNCHANGED <<jar, tab>>
  PROVE  BrowserInv'
  <1>1. "login" \in Endpoint
    BY DEF Endpoint
  <1>2. CASE Answer(t, "login", "refused", "keep", 0) /\ UNCHANGED <<live, excused>>
    BY <1>1, <1>2, RefusedInv
  <1>3. CASE /\ live' = live \cup {FreshToken} /\ UNCHANGED excused
             /\ Answer(t, "login", "ok", "new", FreshToken)
    <2>1. PICK n : n = FreshToken /\ n \in Id /\ n \notin HeldTokens
      BY FreshTokenIs DEF BrowserInv
    <2>2. /\ n \in 0..MaxId /\ n # 0 /\ live' \subseteq Id /\ excused' \subseteq Id /\ n \in live'
      BY <1>3, <2>1, IdsEnough DEF BrowserInv, BrowserTypes, Id
    <2>3. PICK c \in CallRecord :
             /\ call' = [call EXCEPT ![t]["login"] = c] /\ CallShape("login", c)
             /\ c.cookie = call[t]["login"].cookie /\ c.set = "new" /\ c.issued = n
             /\ c.stage = "answered"
             /\ ~Replaces(call[t]["login"]) /\ call[t]["login"].set # "new"
      BY <1>1, <1>3, <2>1, <2>2, AnswerIs
    <2>4. /\ BrowserTypes' /\ TabsInv' /\ CallsInv' /\ \A u \in Tab : ClosedInv(u)'
          /\ call'[t]["login"] = c
          /\ \A u \in Tab, p \in Endpoint : <<u, p>> # <<t, "login">> => call'[u][p] = call[u][p]
      BY <1>1, <2>2, <2>3, AnsweredCall
    <2>5. CookieLive'
      BY <1>1, <1>3, <2>3, <2>4, EndedCookie
    <2>6. NewsInv'
      BY <1>1, <1>3, <2>1, <2>2, <2>3, NewsAdded DEF BrowserInv
    <2>. QED BY <2>4, <2>5, <2>6 DEF BrowserInv
  <1>. QED BY <1>2, <1>3 DEF AnswerLogin

LEMMA ServeInv ==
  ASSUME BrowserInv, NEW t \in Tab, NEW o \in Endpoint, Serve(t, o)
  PROVE  BrowserInv'
  <1>1. call[t][o].stage = "sent" /\ UNCHANGED <<jar, tab>>
    BY DEF Serve
  <1>2. CASE RefuseCsrf(t, o)
    BY <1>1, <1>2, RefusedInv DEF RefuseCsrf
  <1>3. CASE o = "refresh" /\ Rotate(t)
    BY <1>1, <1>3, RotateInv
  <1>4. CASE o = "refresh" /\ RefuseRefresh(t)
    <2>1. live' \cup excused' = live \cup excused /\ Answer(t, o, "refused", "clear", 0)
      BY <1>4 DEF RefuseRefresh
    <2>. QED BY <1>1, <2>1, RefusedInv
  <1>5. CASE o = "logout" /\ AnswerLogout(t)
    BY <1>1, <1>5, AnswerLogoutInv
  <1>6. CASE o = "login" /\ AnswerLogin(t)
    BY <1>1, <1>6, AnswerLoginInv
  <1>. QED BY <1>2, <1>3, <1>4, <1>5, <1>6 DEF Serve

-----------------------------------------------------------------------------
(* Answers arrive, or are lost                                             *)

\* Several calls of one tab change.
LEMMA TabCalls ==
  ASSUME BrowserInv, NEW t \in Tab, NEW g \in [Endpoint -> CallRecord],
         call' = [call EXCEPT ![t] = g]
  PROVE  /\ call' \in [Tab -> [Endpoint -> CallRecord]] /\ call'[t] = g
         /\ \A u \in Tab : u # t => call'[u] = call[u]
  BY DEF BrowserInv, BrowserTypes

LEMMA FetchCsrfInv ==
  ASSUME BrowserInv, NEW t \in Tab, FetchCsrf(t)
  PROVE  BrowserInv'
  <1>1. PICK k \in TabRecord : k = tab[t] /\ Remembers(k) /\ k.open
    BY OpenTab DEF BrowserInv, BrowserTypes, TabsInv, FetchCsrf
  <1>2. PICK m : m = [k EXCEPT !.csrf = TRUE, !.fetch = FALSE]
    OBVIOUS
  <1>3. m \in TabRecord /\ Remembers(m) /\ m.open
    BY <1>1, <1>2 DEF TabRecord, Remembers
  <1>4. tab' = [tab EXCEPT ![t] = m]
    BY <1>1, <1>2 DEF FetchCsrf, BrowserInv, BrowserTypes
  <1>5. /\ tab' \in [Tab -> TabRecord] /\ TabsInv'
        /\ tab'[t] = m /\ \A u \in Tab : u # t => tab'[u] = tab[u]
    BY <1>3, <1>4, OneTab DEF BrowserInv
  <1>6. /\ jar' \in [refresh : 0..MaxId, csrf : Tab \cup {NoTab}] /\ jar'.refresh = jar.refresh
        /\ jar'.refresh \in 0..MaxId
    BY DEF FetchCsrf, BrowserInv, BrowserTypes
  <1>7. PICK b \in BOOLEAN : b = (jar'.csrf = t)
    OBVIOUS
  <1>8. PICK g : g = [o \in Endpoint |-> IF call[t][o].stage = "csrf"
                                         THEN Sent(call[t][o], t, jar') ELSE call[t][o]]
    OBVIOUS
  <1>9. call' = [call EXCEPT ![t] = g] /\ UNCHANGED <<live, excused>>
    BY <1>8 DEF FetchCsrf
  <1>10. ASSUME NEW o \in Endpoint
         PROVE  /\ g[o] \in CallRecord /\ CallShape(o, g[o])
                /\ g[o].set = "new" => g[o] = call[t][o]
                /\ g[o].cookie \in {0, jar.refresh, call[t][o].cookie}
                /\ Replaces(call[t][o]) => g[o] = call[t][o]
    <2>1. PICK d : d = call[t][o] /\ d \in CallRecord /\ CallShape(o, d)
      BY DEF BrowserInv, BrowserTypes, CallsInv
    <2>2. CASE d.stage # "csrf"
      <3>1. g[o] = d
        BY <1>8, <2>1, <2>2
      <3>. QED BY <2>1, <3>1
    <2>3. CASE d.stage = "csrf"
      <3>1. g[o] = [d EXCEPT !.stage = "sent", !.cookie = jar'.refresh, !.csrf = b]
        BY <1>7, <1>8, <2>1, <2>3 DEF Sent
      <3>2. g[o] \in CallRecord
        BY <1>6, <2>1, <3>1 DEF CallRecord
      <3>3. CallShape(o, g[o]) /\ g[o].set = "keep" /\ g[o].cookie = jar.refresh
        BY <1>6, <2>1, <2>3, <3>1 DEF CallShape, CallRecord
      <3>4. ~Replaces(call[t][o])
        BY <2>1, <2>3 DEF Replaces
      <3>. QED BY <3>2, <3>3, <3>4
    <2>. QED BY <2>2, <2>3
  <1>11. g \in [Endpoint -> CallRecord]
    BY <1>8, <1>10
  <1>12. /\ call' \in [Tab -> [Endpoint -> CallRecord]] /\ call'[t] = g
         /\ \A u \in Tab : u # t => call'[u] = call[u]
    BY <1>9, <1>11, TabCalls
  <1>13. BrowserTypes'
    BY <1>5, <1>6, <1>9, <1>12 DEF BrowserInv, BrowserTypes
  <1>14. CallsInv'
    <2>1. ASSUME NEW u \in Tab, NEW o \in Endpoint PROVE CallShape(o, call'[u][o])
      BY <1>10, <1>12 DEF BrowserInv, CallsInv
    <2>. QED BY <2>1 DEF CallsInv, CallShape
  <1>15. \A u \in Tab : ClosedInv(u)'
    BY <1>3, <1>5, <1>12 DEF BrowserInv, ClosedInv
  <1>16. \A u \in Tab, o \in Endpoint :
           /\ call'[u][o].set = "new" => call'[u][o] = call[u][o]
           /\ call'[u][o].cookie \in {0, jar.refresh, call[u][o].cookie}
           /\ Replaces(call[u][o]) => call'[u][o] = call[u][o]
    BY <1>10, <1>12
  <1>. QED BY <1>5, <1>6, <1>9, <1>13, <1>14, <1>15, <1>16, QuietStep

\* The jar after the answer: a cookie that nobody else brings, none, or the one it was.
LEMMA DeliverInv ==
  ASSUME BrowserInv, NEW t \in Tab, NEW o \in Endpoint, Deliver(t, o)
  PROVE  BrowserInv'
  <1>1. PICK c \in CallRecord : c = call[t][o] /\ CallShape(o, c) /\ c.stage = "answered"
    BY DEF BrowserInv, BrowserTypes, CallsInv, Deliver
  <1>2. PICK m \in TabRecord : m = tab[t] /\ Remembers(m) /\ m.open
    BY <1>1, OpenTab DEF BrowserInv, BrowserTypes, TabsInv
  <1>3. PICK retry \in BOOLEAN : retry = (c.answer = "csrf" /\ ~c.retried)
    OBVIOUS
  <1>4. PICK again \in CallRecord :
           /\ again = Started(t, o, FALSE, TRUE) /\ CallShape(o, again) /\ again.set = "keep"
           /\ again.cookie \in {0, jar.refresh}
    BY StartedIs DEF BrowserInv
  <1>5. PICK d : d = IF retry THEN again ELSE NoCall
    OBVIOUS
  <1>6. /\ d \in CallRecord /\ CallShape(o, d) /\ d.set = "keep" /\ d.cookie \in {0, jar.refresh}
    <2>1. NoCall.set = "keep" /\ NoCall.cookie = 0
      BY DEF NoCall
    <2>. QED BY <1>4, <1>5, <2>1, NoCallIs
  <1>7. PICK x : x = IF retry THEN Fetching([m EXCEPT !.csrf = FALSE], again)
                     ELSE Settled(m, o, c.answer = "ok")
    OBVIOUS
  <1>8. x \in TabRecord /\ Remembers(x) /\ x.open
    <2>1. CASE retry
      <3>1. [m EXCEPT !.csrf = FALSE] \in TabRecord /\ [m EXCEPT !.csrf = FALSE].open
        BY <1>2 DEF TabRecord
      <3>2. Remembers([m EXCEPT !.csrf = FALSE])
        BY <1>2 DEF TabRecord, Remembers
      <3>. QED BY <1>7, <2>1, <3>1, <3>2, FetchingRemembers
    <2>2. CASE ~retry
      <3>1. (c.answer = "ok") \in BOOLEAN
        OBVIOUS
      <3>. QED BY <1>2, <1>7, <2>2, <3>1, SettledRemembers
    <2>. QED BY <2>1, <2>2
  <1>9. /\ jar' = [jar EXCEPT !.refresh = StoredCookie(c)]
        /\ call' = [call EXCEPT ![t][o] = d]
        /\ Forget({})
    BY <1>1, <1>3, <1>4, <1>5 DEF Deliver
  <1>10. tab' = [tab EXCEPT ![t] = x]
    BY <1>1, <1>2, <1>3, <1>4, <1>7 DEF Deliver, BrowserInv, BrowserTypes
  <1>11. /\ tab' \in [Tab -> TabRecord] /\ TabsInv'
         /\ tab'[t] = x /\ \A u \in Tab : u # t => tab'[u] = tab[u]
    BY <1>8, <1>10, OneTab DEF BrowserInv
  <1>12. /\ call' \in [Tab -> [Endpoint -> CallRecord]]
         /\ call'[t][o] = d
         /\ \A u \in Tab, p \in Endpoint : <<u, p>> # <<t, o>> => call'[u][p] = call[u][p]
         /\ \A u \in Tab : u # t => call'[u] = call[u]
    BY <1>6, <1>9, OneCall DEF BrowserInv
  <1>13. /\ live' \subseteq Id /\ excused' \subseteq Id
         /\ (live \cup excused) \cap HeldTokens' \subseteq live' \cup excused'
    BY <1>9, ForgetIs DEF BrowserInv, BrowserTypes
  <1>14. /\ StoredCookie(c) \in 0..MaxId
         /\ StoredCookie(c) = IF c.set = "new" THEN c.issued ELSE IF c.set = "clear" THEN 0 ELSE jar.refresh
    BY <1>1, IdsEnough DEF StoredCookie, CallRecord, BrowserInv, BrowserTypes
  <1>15. /\ jar' \in [refresh : 0..MaxId, csrf : Tab \cup {NoTab}]
         /\ jar'.refresh = StoredCookie(c)
    BY <1>9, <1>14 DEF BrowserInv, BrowserTypes
  <1>16. BrowserTypes'
    BY <1>11, <1>12, <1>13, <1>15 DEF BrowserTypes
  <1>17. CallsInv'
    <2>1. ASSUME NEW u \in Tab, NEW p \in Endpoint PROVE CallShape(p, call'[u][p])
      BY <1>6, <1>12 DEF BrowserInv, CallsInv
    <2>. QED BY <2>1 DEF CallsInv, CallShape
  <1>18. \A u \in Tab : ClosedInv(u)'
    BY <1>8, <1>11, <1>12 DEF BrowserInv, ClosedInv
  <1>19. \A u \in Tab, p \in Endpoint :
           /\ call'[u][p].set = "new" => call'[u][p] = call[u][p]
           /\ call'[u][p].cookie \in {0, jar.refresh, call[u][p].cookie}
           /\ <<u, p>> # <<t, o>> => call'[u][p] = call[u][p]
    BY <1>6, <1>12
  <1>20. NewsInv'
    <2>1. \/ jar'.refresh \in {0, jar.refresh}
          \/ \E u \in Tab, p \in Endpoint :
               call[u][p].set = "new" /\ jar'.refresh = call[u][p].issued /\ call'[u][p].set # "new"
      BY <1>1, <1>6, <1>12, <1>14, <1>15
    <2>. QED BY <1>13, <1>17, <1>19, <2>1, NewsKept DEF BrowserInv
  <1>21. CookieLive'
    <2>1. CASE c.set = "new"
      <3>1. jar'.refresh \in live \cup excused
        BY <1>1, <1>14, <1>15, <2>1 DEF BrowserInv, NewsInv, BringsNews
      <3>. QED BY <1>13, <3>1, HoldsAll DEF CookieLive
    <2>2. CASE c.set = "clear"
      BY <1>14, <1>15, <2>2 DEF CookieLive
    <2>3. CASE c.set = "keep"
      <3>1. jar'.refresh = jar.refresh
        BY <1>14, <1>15, <2>3
      <3>2. \A u \in Tab, p \in Endpoint : Replaces(call[u][p]) => call'[u][p] = call[u][p]
        BY <1>1, <1>19, <2>3 DEF Replaces
      <3>3. jar.refresh \in live \cup excused => CookieLive'
        BY <1>13, <3>1, HoldsAll DEF CookieLive
      <3>. QED BY <3>1, <3>2, <3>3, CookieKept DEF BrowserInv
    <2>. QED BY <1>1, <2>1, <2>2, <2>3 DEF CallRecord
  <1>. QED BY <1>11, <1>16, <1>17, <1>18, <1>20, <1>21 DEF BrowserInv

\* The end of a token that the browser is not told of is excused.
LEMMA UnheardIs ==
  ASSUME BrowserInv, NEW t \in Tab, NEW o \in Endpoint
  PROVE  /\ Unheard(call[t][o]) \subseteq Id
         /\ Replaces(call[t][o]) => jar.refresh \in live \cup {0} \cup Unheard(call[t][o])
  <1>1. call[t][o].cookie \in 0..MaxId
    BY DEF BrowserInv, BrowserTypes, CallRecord
  <1>. QED BY <1>1, IdsEnough DEF Unheard, Replaces, Id

LEMMA LoseInv ==
  ASSUME BrowserInv, NEW t \in Tab, NEW o \in Endpoint, Lose(t, o)
  PROVE  BrowserInv'
  <1>1. PICK c : c = call[t][o] /\ c.stage \in {"sent", "answered"}
    BY DEF Lose
  <1>2. PICK x \in TabRecord : x = Settled(tab[t], o, FALSE) /\ Remembers(x) /\ x.open
    <2>1. tab[t] \in TabRecord /\ Remembers(tab[t]) /\ tab[t].open
      BY <1>1, OpenTab DEF BrowserInv, BrowserTypes, TabsInv
    <2>. QED BY <2>1, SettledRemembers
  <1>3. /\ tab' = [tab EXCEPT ![t] = x] /\ call' = [call EXCEPT ![t][o] = NoCall]
        /\ UNCHANGED jar /\ Forget(Unheard(c))
    BY <1>1, <1>2 DEF Lose
  <1>4. /\ tab' \in [Tab -> TabRecord] /\ TabsInv'
        /\ tab'[t] = x /\ \A u \in Tab : u # t => tab'[u] = tab[u]
    BY <1>2, <1>3, OneTab DEF BrowserInv
  <1>5. /\ call' \in [Tab -> [Endpoint -> CallRecord]]
        /\ call'[t][o] = NoCall
        /\ \A u \in Tab, p \in Endpoint : <<u, p>> # <<t, o>> => call'[u][p] = call[u][p]
        /\ \A u \in Tab : u # t => call'[u] = call[u]
    BY <1>3, NoCallIs, OneCall DEF BrowserInv
  <1>6. /\ live' \subseteq Id /\ excused' \subseteq Id
        /\ (live \cup excused \cup Unheard(c)) \cap HeldTokens' \subseteq live' \cup excused'
    BY <1>1, <1>3, UnheardIs, ForgetIs DEF BrowserInv, BrowserTypes
  <1>7. BrowserTypes'
    BY <1>3, <1>4, <1>5, <1>6 DEF BrowserInv, BrowserTypes
  <1>8. CallsInv'
    <2>1. ASSUME NEW u \in Tab, NEW p \in Endpoint PROVE CallShape(p, call'[u][p])
      BY <1>5, NoCallIs DEF BrowserInv, CallsInv
    <2>. QED BY <2>1 DEF CallsInv, CallShape
  <1>9. \A u \in Tab : ClosedInv(u)'
    BY <1>2, <1>4, <1>5 DEF BrowserInv, ClosedInv
  <1>10. \A u \in Tab, p \in Endpoint :
           /\ call'[u][p].set = "new" => call'[u][p] = call[u][p]
           /\ call'[u][p].cookie \in {0, jar.refresh, call[u][p].cookie}
           /\ Replaces(call[u][p]) =>
                call'[u][p] = call[u][p] \/ jar.refresh \in live' \cup excused' \cup {0}
    <2>1. NoCall.set = "keep" /\ NoCall.cookie = 0
      BY DEF NoCall
    <2>2. Replaces(call[t][o]) => jar.refresh \in live' \cup excused' \cup {0}
      BY <1>1, <1>3, <1>6, UnheardIs, HoldsAll
    <2>. QED BY <1>5, <2>1, <2>2
  <1>. QED BY <1>3, <1>4, <1>6, <1>7, <1>8, <1>9, <1>10, QuietStep

LEMMA CloseInv ==
  ASSUME BrowserInv, NEW t \in Tab, Close(t)
  PROVE  BrowserInv'
  <1>1. PICK D : D = UNION {Unheard(call[t][o]) : o \in Endpoint}
    OBVIOUS
  <1>2. PICK g : g = [o \in Endpoint |-> NoCall]
    OBVIOUS
  <1>3. /\ tab' = [tab EXCEPT ![t] = Closed] /\ call' = [call EXCEPT ![t] = g]
        /\ UNCHANGED jar /\ Forget(D)
    BY <1>1, <1>2 DEF Close
  <1>4. /\ tab' \in [Tab -> TabRecord] /\ TabsInv'
        /\ tab'[t] = Closed /\ \A u \in Tab : u # t => tab'[u] = tab[u]
    BY <1>3, ClosedIs, OneTab DEF BrowserInv
  <1>5. g \in [Endpoint -> CallRecord] /\ \A o \in Endpoint : g[o] = NoCall
    BY <1>2, NoCallIs
  <1>6. /\ call' \in [Tab -> [Endpoint -> CallRecord]] /\ call'[t] = g
        /\ \A u \in Tab : u # t => call'[u] = call[u]
    BY <1>3, <1>5, TabCalls
  <1>7. D \subseteq Id /\ \A o \in Endpoint : Unheard(call[t][o]) \subseteq D
    BY <1>1, UnheardIs
  <1>8. /\ live' \subseteq Id /\ excused' \subseteq Id
        /\ (live \cup excused \cup D) \cap HeldTokens' \subseteq live' \cup excused'
    BY <1>3, <1>7, ForgetIs DEF BrowserInv, BrowserTypes
  <1>9. BrowserTypes'
    BY <1>3, <1>4, <1>6, <1>8 DEF BrowserInv, BrowserTypes
  <1>10. CallsInv'
    <2>1. ASSUME NEW u \in Tab, NEW p \in Endpoint PROVE CallShape(p, call'[u][p])
      BY <1>5, <1>6, NoCallIs DEF BrowserInv, CallsInv
    <2>. QED BY <2>1 DEF CallsInv, CallShape
  <1>11. \A u \in Tab : ClosedInv(u)'
    BY <1>2, <1>4, <1>6 DEF BrowserInv, ClosedInv
  <1>12. \A u \in Tab, p \in Endpoint :
           /\ call'[u][p].set = "new" => call'[u][p] = call[u][p]
           /\ call'[u][p].cookie \in {0, jar.refresh, call[u][p].cookie}
           /\ Replaces(call[u][p]) =>
                call'[u][p] = call[u][p] \/ jar.refresh \in live' \cup excused' \cup {0}
    <2>1. NoCall.set = "keep" /\ NoCall.cookie = 0
      BY DEF NoCall
    <2>2. \A o \in Endpoint : Replaces(call[t][o]) => jar.refresh \in live' \cup excused' \cup {0}
      BY <1>3, <1>7, <1>8, UnheardIs, HoldsAll
    <2>. QED BY <1>5, <1>6, <2>1, <2>2
  <1>. QED BY <1>3, <1>4, <1>8, <1>9, <1>10, <1>11, <1>12, QuietStep

LEMMA LoseFetchInv ==
  ASSUME BrowserInv, NEW t \in Tab, LoseFetch(t)
  PROVE  BrowserInv'
  <1>1. PICK k \in TabRecord : k = tab[t] /\ Remembers(k) /\ k.open
    BY OpenTab DEF BrowserInv, BrowserTypes, TabsInv, LoseFetch
  <1>2. PICK waiting : waiting = {o \in Endpoint : call[t][o].stage = "csrf"}
    OBVIOUS
  <1>3. PICK m : m = [k EXCEPT !.fetch = FALSE]
    OBVIOUS
  <1>4. m \in TabRecord /\ Remembers(m) /\ m.open
    BY <1>1, <1>3 DEF TabRecord, Remembers
  <1>5. PICK r : r = IF "refresh" \in waiting THEN Settled(m, "refresh", FALSE) ELSE m
    OBVIOUS
  <1>6. r \in TabRecord /\ Remembers(r) /\ r.open
    BY <1>4, <1>5, SettledRemembers DEF Endpoint
  <1>7. PICK x : x = IF "logout" \in waiting THEN Settled(r, "logout", FALSE) ELSE r
    OBVIOUS
  <1>8. x \in TabRecord /\ Remembers(x) /\ x.open
    BY <1>6, <1>7, SettledRemembers DEF Endpoint
  <1>9. PICK g : g = [o \in Endpoint |-> IF o \in waiting THEN NoCall ELSE call[t][o]]
    OBVIOUS
  <1>10. tab' = [tab EXCEPT ![t] = x] /\ UNCHANGED <<jar, live, excused>>
    BY <1>1, <1>2, <1>3, <1>5, <1>7 DEF LoseFetch
  <1>11. call' = [call EXCEPT ![t] = g]
    BY <1>2, <1>9 DEF LoseFetch
  <1>12. /\ tab' \in [Tab -> TabRecord] /\ TabsInv'
         /\ tab'[t] = x /\ \A u \in Tab : u # t => tab'[u] = tab[u]
    BY <1>8, <1>10, OneTab DEF BrowserInv
  <1>13. g \in [Endpoint -> CallRecord]
    BY <1>9, NoCallIs DEF BrowserInv, BrowserTypes
  <1>14. /\ call' \in [Tab -> [Endpoint -> CallRecord]] /\ call'[t] = g
         /\ \A u \in Tab : u # t => call'[u] = call[u]
    BY <1>11, <1>13, TabCalls
  <1>15. BrowserTypes'
    BY <1>10, <1>12, <1>14 DEF BrowserInv, BrowserTypes
  <1>16. CallsInv'
    <2>1. ASSUME NEW u \in Tab, NEW p \in Endpoint PROVE CallShape(p, call'[u][p])
      BY <1>9, <1>14, NoCallIs DEF BrowserInv, CallsInv
    <2>. QED BY <2>1 DEF CallsInv, CallShape
  <1>17. \A u \in Tab : ClosedInv(u)'
    BY <1>8, <1>12, <1>14 DEF BrowserInv, ClosedInv
  <1>18. \A u \in Tab, p \in Endpoint :
           /\ call'[u][p].set = "new" => call'[u][p] = call[u][p]
           /\ call'[u][p].cookie \in {0, jar.refresh, call[u][p].cookie}
           /\ Replaces(call[u][p]) => call'[u][p] = call[u][p]
    <2>1. NoCall.set = "keep" /\ NoCall.cookie = 0
      BY DEF NoCall
    <2>2. ASSUME NEW p \in Endpoint
          PROVE  /\ g[p].set = "new" => g[p] = call[t][p]
                 /\ g[p].cookie \in {0, jar.refresh, call[t][p].cookie}
                 /\ Replaces(call[t][p]) => g[p] = call[t][p]
      BY <1>2, <1>9, <2>1 DEF Replaces
    <2>. QED BY <1>14, <2>2
  <1>. QED BY <1>10, <1>12, <1>15, <1>16, <1>17, <1>18, QuietStep

LEMMA CookieExpiresInv ==
  ASSUME BrowserInv, CookieExpires
  PROVE  BrowserInv'
  <1>1. UNCHANGED <<tab, call>> /\ Forget({})
    BY DEF CookieExpires
  <1>2. /\ jar' \in [refresh : 0..MaxId, csrf : Tab \cup {NoTab}]
        /\ jar'.refresh \in {0, jar.refresh}
    BY IdsEnough DEF CookieExpires, BrowserInv, BrowserTypes
  <1>3. /\ live' \subseteq Id /\ excused' \subseteq Id
        /\ (live \cup excused) \cap HeldTokens' \subseteq live' \cup excused'
    BY <1>1, ForgetIs DEF BrowserInv, BrowserTypes
  <1>4. BrowserTypes' /\ TabsInv' /\ CallsInv'
    BY <1>1, <1>2, <1>3 DEF BrowserInv, BrowserTypes, TabsInv, Remembers, CallsInv, CallShape
  <1>5. \A t \in Tab : ClosedInv(t)'
    BY <1>1 DEF BrowserInv, ClosedInv
  <1>6. NewsInv'
    BY <1>1, <1>2, <1>3, <1>4, NewsKept DEF BrowserInv
  <1>7. CookieLive'
    <2>1. CASE jar'.refresh = 0
      BY <2>1 DEF CookieLive
    <2>2. CASE jar'.refresh = jar.refresh
      <3>1. jar.refresh \in live \cup excused => CookieLive'
        BY <1>3, <2>2, HoldsAll DEF CookieLive
      <3>. QED BY <1>1, <2>2, <3>1, CookieKept DEF BrowserInv
    <2>. QED BY <1>2, <2>1, <2>2
  <1>. QED BY <1>4, <1>5, <1>6, <1>7 DEF BrowserInv

LEMMA RevokeEverywhereInv ==
  ASSUME BrowserInv, RevokeEverywhere
  PROVE  BrowserInv'
  <1>1. UNCHANGED <<jar, tab, call>> /\ live' = {} /\ excused' = excused \cup live
    BY DEF RevokeEverywhere
  <1>2. BrowserTypes' /\ TabsInv' /\ CallsInv' /\ \A t \in Tab : ClosedInv(t)'
    BY <1>1 DEF BrowserInv, BrowserTypes, TabsInv, Remembers, CallsInv, CallShape, ClosedInv
  <1>. QED BY <1>1, <1>2, QuietStep

-----------------------------------------------------------------------------
(* The theorems about the browser                                          *)

LEMMA BrowserInitInv == BrowserInit => BrowserInv
  <1>1. SUFFICES ASSUME BrowserInit PROVE BrowserInv
    OBVIOUS
  <1>2. MaxId \in Nat /\ 0 \in 0..MaxId
    BY IdsEnough
  <1>3. /\ tab \in [Tab -> TabRecord] /\ call \in [Tab -> [Endpoint -> CallRecord]]
        /\ \A t \in Tab : tab[t] = Closed /\ call[t] = [o \in Endpoint |-> NoCall]
        /\ \A t \in Tab, o \in Endpoint : call[t][o] = NoCall
    BY <1>1, ClosedIs, NoCallIs DEF BrowserInit
  <1>4. TabsInv /\ CallsInv /\ \A t \in Tab : ClosedInv(t)
    BY <1>3, ClosedIs, NoCallIs DEF TabsInv, CallsInv, ClosedInv
  <1>5. NewsInv
    BY <1>3 DEF NewsInv, NoCall
  <1>6. 1 \in 1..MaxId
    BY TabsFinite, FS_CardinalityType, IdsEnough
  <1>7. /\ jar \in [refresh : 0..MaxId, csrf : Tab \cup {NoTab}]
        /\ live \subseteq Id /\ excused \subseteq Id /\ jar.refresh \in live \cup {0}
    BY <1>1, <1>2, <1>6 DEF BrowserInit, Id
  <1>. QED BY <1>3, <1>4, <1>5, <1>7 DEF BrowserInv, BrowserTypes, CookieLive

LEMMA BrowserStep ==
  ASSUME BrowserInv, [BrowserNext]_browserVars
  PROVE  BrowserInv'
  <1>1. CASE UNCHANGED browserVars
    BY <1>1 DEF browserVars, BrowserInv, BrowserTypes, CookieLive, TabsInv, Remembers, CallsInv,
                CallShape, NewsInv, BringsNews, ClosedInv
  <1>2. ASSUME NEW t \in Tab, Answers(t) PROVE BrowserInv'
    BY <1>2, FetchCsrfInv, ServeInv, DeliverInv DEF Answers
  <1>3. ASSUME NEW t \in Tab, Acts(t) PROVE BrowserInv'
    BY <1>3, OpenInv, TimedRefreshInv, SubmitInv, SetAuthUserInv, SessionEndedInv DEF Acts
  <1>4. ASSUME NEW t \in Tab, Faults(t) PROVE BrowserInv'
    BY <1>4, CloseInv, LoseFetchInv, LoseInv DEF Faults
  <1>5. CASE CookieExpires \/ RevokeEverywhere
    BY <1>5, CookieExpiresInv, RevokeEverywhereInv
  <1>. QED BY <1>1, <1>2, <1>3, <1>4, <1>5 DEF BrowserNext

LEMMA BrowserInvariant == BrowserSpec => []BrowserInv
  <1>1. BrowserInit => BrowserInv
    BY BrowserInitInv
  <1>2. BrowserInv /\ [BrowserNext]_browserVars => BrowserInv'
    BY BrowserStep
  <1>. QED BY <1>1, <1>2, PTL DEF BrowserSpec

\* The cookie is never a revoked token, but while the answer that replaces it is under way
\* or when the browser was not told: for any number of tabs, calls and incidents
\* (auth.controller refresh and logout, httpClient).
THEOREM CookieStaysLive == BrowserSpec => []CookieLive
  <1>1. BrowserInv => CookieLive
    BY DEF BrowserInv
  <1>. QED BY <1>1, BrowserInvariant, PTL

\* A tab that is signed in has its next refresh armed or under way (AuthProvider's timer),
\* unless a profile has been put in the place of the session meanwhile.
THEOREM RefreshIsScheduled == BrowserSpec => []RefreshScheduled
  <1>1. BrowserInv => RefreshScheduled
    BY DEF BrowserInv, TabsInv, Remembers, RefreshScheduled, Authenticated
  <1>. QED BY <1>1, BrowserInvariant, PTL

\* The loading screen is shown only while a refresh that counts is under way.
THEOREM LoadingIsAwaited == BrowserSpec => []LoadingAwaits
  <1>1. BrowserInv => LoadingAwaits
    BY DEF BrowserInv, TabsInv, Remembers, LoadingAwaits
  <1>. QED BY <1>1, BrowserInvariant, PTL

-----------------------------------------------------------------------------
(* Nothing but a sign-in signs in                                          *)

\* No refresh under way counts for a tab that knows it is signed out.
Out(m) == m.open /\ ~m.loading /\ ~m.token /\ Remembers(m)

LEMMA SettledOut ==
  ASSUME NEW m \in TabRecord, Out(m), NEW o \in Endpoint, NEW ok \in BOOLEAN,
         Settled(m, o, ok).token
  PROVE  o = "login" /\ ok
  <1>1. m.boot # "current" /\ m.timed # "current"
    BY DEF Out, Remembers
  <1>2. ~Awaited(m).token /\ ~ClearAuthUser(m).token
    BY AwaitedIs, BumpedIs, SignedOutRemembers DEF Out, ClearAuthUser
  <1>3. CASE o = "refresh"
    BY <1>1, <1>2, <1>3 DEF Settled, Refreshed, RefreshFailed
  <1>4. CASE o = "logout"
    BY <1>2, <1>4 DEF Settled
  <1>5. CASE o = "login"
    BY <1>5 DEF Settled, Out
  <1>. QED BY <1>3, <1>4, <1>5 DEF Endpoint

\* A fetch that fails lets the calls that waited for it fail.
LEMMA SettledStaysOut ==
  ASSUME NEW m \in TabRecord, Out(m), NEW o \in {"refresh", "logout"}
  PROVE  Settled(m, o, FALSE) \in TabRecord /\ ~Settled(m, o, FALSE).token
         /\ Out(Settled(m, o, FALSE))
  <1>1. o \in Endpoint
    BY DEF Endpoint
  <1>2. PICK x \in TabRecord : x = Settled(m, o, FALSE) /\ Remembers(x) /\ x.open
    BY <1>1, SettledRemembers DEF Out
  <1>3. ~x.token
    BY <1>1, <1>2, SettledOut
  <1>4. ~x.loading
    <2>1. m.boot # "current" /\ m.timed # "current"
      BY DEF Out, Remembers
    <2>2. ~Awaited(m).loading /\ ~ClearAuthUser(m).loading
      BY AwaitedIs, BumpedIs DEF Out, ClearAuthUser, SignedOut, TabRecord
    <2>3. CASE o = "refresh"
      BY <1>2, <2>1, <2>2, <2>3 DEF Settled, RefreshFailed
    <2>4. CASE o = "logout"
      BY <1>2, <2>2, <2>4 DEF Settled
    <2>. QED BY <2>3, <2>4
  <1>. QED BY <1>2, <1>3, <1>4 DEF Out

\* A step of a tab changes no other tab.
LEMMA TabOf ==
  ASSUME NEW u \in Tab, Answers(u) \/ Acts(u) \/ Faults(u)
  PROVE  tab' = tab \/ \E m : tab' = [tab EXCEPT ![u] = m]
  <1>1. ASSUME NEW o \in Endpoint, Serve(u, o) \/ Deliver(u, o) \/ Lose(u, o)
        PROVE  tab' = tab \/ \E m : tab' = [tab EXCEPT ![u] = m]
    <2>1. CASE Serve(u, o)
      BY <2>1 DEF Serve
    <2>2. CASE Deliver(u, o)
      BY <2>2 DEF Deliver
    <2>3. CASE Lose(u, o)
      BY <2>3 DEF Lose
    <2>. QED BY <1>1, <2>1, <2>2, <2>3
  <1>2. CASE FetchCsrf(u) \/ Close(u) \/ SetAuthUser(u) \/ SessionEnded(u)
    BY <1>2 DEF FetchCsrf, Close, SetAuthUser, SessionEnded
  <1>3. CASE LoseFetch(u)
    BY <1>3 DEF LoseFetch
  <1>4. CASE Open(u) \/ TimedRefresh(u) \/ HandleLogout(u) \/ SubmitLogin(u)
    BY <1>4 DEF Open, TimedRefresh, HandleLogout, SubmitLogin, StartCall
  <1>. QED BY <1>1, <1>2, <1>3, <1>4 DEF Answers, Acts, Faults

LEMMA SignsIn ==
  ASSUME BrowserInv, BrowserNext, NEW t \in Tab, Out(tab[t]), tab'[t].token
  PROVE  call[t]["login"].answer = "ok" /\ call'[t]["login"] = NoCall
  <1>1. PICK m \in TabRecord : m = tab[t] /\ Out(m)
    BY DEF BrowserInv, BrowserTypes
  <1>2. /\ \A u \in Tab : u # t /\ (Answers(u) \/ Acts(u) \/ Faults(u)) => tab'[t] = tab[t]
        /\ CookieExpires \/ RevokeEverywhere => tab'[t] = tab[t]
        /\ \A o \in Endpoint : Serve(t, o) => tab'[t] = tab[t]
    BY TabOf DEF BrowserInv, BrowserTypes, CookieExpires, RevokeEverywhere, Serve
  <1>3. tab'[t] # tab[t]
    BY <1>1 DEF Out
  <1>4. ~FetchCsrf(t)
    <2>1. SUFFICES ASSUME FetchCsrf(t) PROVE FALSE
      OBVIOUS
    <2>2. tab'[t] = [m EXCEPT !.csrf = TRUE, !.fetch = FALSE]
      BY <1>1, <2>1 DEF FetchCsrf, BrowserInv, BrowserTypes
    <2>. QED BY <1>1, <2>2 DEF TabRecord, Out
  <1>5. ~Open(t)
    BY <1>1 DEF Open, Out
  <1>6. ~TimedRefresh(t)
    BY <1>1 DEF TimedRefresh, Out, Remembers
  <1>7. ~HandleLogout(t)
    BY <1>1 DEF HandleLogout, Authenticated, Out
  <1>8. ~SubmitLogin(t)
    <2>1. SUFFICES ASSUME SubmitLogin(t) PROVE FALSE
      OBVIOUS
    <2>2. tab'[t] = Fetching(m, Started(t, "login", m.csrf, FALSE))
      BY <1>1, <2>1 DEF SubmitLogin, StartCall, BrowserInv, BrowserTypes
    <2>3. ASSUME NEW c PROVE ~Fetching(m, c).token
      BY <1>1 DEF Fetching, TabRecord, Out
    <2>. QED BY <2>2, <2>3
  <1>9. ~SetAuthUser(t)
    <2>1. SUFFICES ASSUME SetAuthUser(t) PROVE FALSE
      OBVIOUS
    <2>2. tab'[t] = WithUser(m)
      BY <1>1, <2>1 DEF SetAuthUser, BrowserInv, BrowserTypes
    <2>. QED BY <1>1, <2>2, WithUserRemembers DEF Out
  <1>10. ~SessionEnded(t)
    BY <1>1 DEF SessionEnded, Authenticated, Out
  <1>11. ~Close(t)
    <2>1. SUFFICES ASSUME Close(t) PROVE FALSE
      OBVIOUS
    <2>2. tab'[t] = Closed
      BY <2>1 DEF Close, BrowserInv, BrowserTypes
    <2>. QED BY <2>2 DEF Closed
  <1>12. ~LoseFetch(t)
    <2>1. SUFFICES ASSUME LoseFetch(t) PROVE FALSE
      OBVIOUS
    <2>2. PICK waiting : waiting = {o \in Endpoint : call[t][o].stage = "csrf"}
      OBVIOUS
    <2>3. PICK k : k = [m EXCEPT !.fetch = FALSE]
      OBVIOUS
    <2>4. k \in TabRecord /\ Out(k)
      BY <1>1, <2>3 DEF TabRecord, Out, Remembers
    <2>5. PICK r : r = IF "refresh" \in waiting THEN Settled(k, "refresh", FALSE) ELSE k
      OBVIOUS
    <2>6. r \in TabRecord /\ Out(r)
      BY <2>4, <2>5, SettledStaysOut
    <2>7. PICK x : x = IF "logout" \in waiting THEN Settled(r, "logout", FALSE) ELSE r
      OBVIOUS
    <2>8. ~x.token
      BY <2>6, <2>7, SettledStaysOut DEF Out
    <2>9. tab' = [tab EXCEPT ![t] = x]
      BY <1>1, <2>1, <2>2, <2>3, <2>5, <2>7 DEF LoseFetch
    <2>. QED BY <2>8, <2>9 DEF BrowserInv, BrowserTypes
  <1>13. ASSUME NEW o \in Endpoint, Lose(t, o) PROVE FALSE
    <2>1. tab'[t] = Settled(m, o, FALSE)
      BY <1>1, <1>13 DEF Lose, BrowserInv, BrowserTypes
    <2>. QED BY <1>1, <2>1, SettledOut
  <1>14. ASSUME NEW o \in Endpoint, Deliver(t, o)
         PROVE  call[t]["login"].answer = "ok" /\ call'[t]["login"] = NoCall
    <2>1. PICK c : c = call[t][o]
      OBVIOUS
    <2>2. PICK retry \in BOOLEAN : retry = (c.answer = "csrf" /\ ~c.retried)
      OBVIOUS
    <2>3. PICK again : again = Started(t, o, FALSE, TRUE)
      OBVIOUS
    <2>4. tab'[t] = IF retry THEN Fetching([m EXCEPT !.csrf = FALSE], again)
                    ELSE Settled(m, o, c.answer = "ok")
      BY <1>1, <1>14, <2>1, <2>2, <2>3 DEF Deliver, BrowserInv, BrowserTypes
    <2>5. ~retry
      <3>1. PICK k : k = [m EXCEPT !.csrf = FALSE]
        OBVIOUS
      <3>2. k \in TabRecord /\ ~k.token
        BY <1>1, <3>1 DEF TabRecord, Out
      <3>3. ~Fetching(k, again).token
        BY <3>2 DEF Fetching, TabRecord
      <3>. QED BY <2>4, <3>1, <3>3
    <2>6. (c.answer = "ok") \in BOOLEAN
      OBVIOUS
    <2>7. o = "login" /\ c.answer = "ok"
      BY <1>1, <2>4, <2>5, <2>6, SettledOut
    <2>8. call'[t][o] = NoCall
      BY <1>14, <2>1, <2>2, <2>5 DEF Deliver, BrowserInv, BrowserTypes
    <2>. QED BY <2>1, <2>7, <2>8
  <1>15. Answers(t) \/ Acts(t) \/ Faults(t)
    BY <1>2, <1>3 DEF BrowserNext
  <1>. QED BY <1>2, <1>3, <1>4, <1>5, <1>6, <1>7, <1>8, <1>9, <1>10, <1>11, <1>12, <1>13, <1>14, <1>15
           DEF Answers, Acts, Faults

\* A tab that is signed out is signed in again by the sign-in submitted in it and by
\* nothing else: no answer to a refresh, and no profile, that was under way
\* (AuthProvider's sessionVersionRef).
THEOREM SignedOutStaysOut == BrowserSpec => StaysOut
  <1>1. BrowserInv /\ [BrowserNext]_browserVars =>
          [\A t \in Tab : (tab[t].open /\ ~tab[t].loading /\ ~Authenticated(t) /\ Authenticated(t)')
             => call[t]["login"].answer = "ok" /\ call'[t]["login"] = NoCall]_browserVars
    <2>1. SUFFICES ASSUME BrowserInv, BrowserNext, NEW t \in Tab,
                          tab[t].open, ~tab[t].loading, ~Authenticated(t), Authenticated(t)'
                   PROVE  call[t]["login"].answer = "ok" /\ call'[t]["login"] = NoCall
      BY DEF browserVars
    <2>2. Out(tab[t]) /\ tab'[t].token
      BY <2>1 DEF Authenticated, Out, BrowserInv, TabsInv, Remembers
    <2>. QED BY <2>1, <2>2, SignsIn
  <1>. QED BY <1>1, BrowserInvariant, PTL DEF BrowserSpec, StaysOut

-----------------------------------------------------------------------------
(* What a tab waits for                                                    *)

\* bootSessionRefreshPromise is set exactly while the call is under way that settles it,
\* and a call that waits for a CSRF token waits for a fetch.
Awaits(m, calls) ==
  /\ m.boot # "none" \/ m.timed # "none" <=> calls["refresh"].stage # "idle"
  /\ \A o \in Endpoint : calls[o].stage = "csrf" => m.fetch
WaitInv == \A t \in Tab : Awaits(tab[t], call[t])

LEMMA BumpedAwaits ==
  ASSUME NEW m \in TabRecord
  PROVE  /\ Bumped(m).boot = "none" <=> m.boot = "none"
         /\ Bumped(m).timed = "none" <=> m.timed = "none"
         /\ Bumped(m).fetch = m.fetch
  BY DEF Bumped, TabRecord

LEMMA SignedAwaits ==
  ASSUME NEW m \in TabRecord
  PROVE  /\ SignedIn(m).boot = m.boot /\ SignedIn(m).timed = m.timed /\ SignedIn(m).fetch = m.fetch
         /\ SignedOut(m).boot = m.boot /\ SignedOut(m).timed = m.timed
         /\ SignedOut(m).fetch = m.fetch
         /\ Awaited(m).boot = "none" /\ Awaited(m).timed = "none" /\ Awaited(m).fetch = m.fetch
         /\ SignedIn(m) \in TabRecord /\ SignedOut(m) \in TabRecord /\ Awaited(m) \in TabRecord
  BY DEF SignedIn, SignedOut, Awaited, TabRecord, Turn

\* The refresh ends what awaits it, and no other call does.
LEMMA SettledAwaits ==
  ASSUME NEW m \in TabRecord, NEW o \in Endpoint, NEW ok \in BOOLEAN
  PROVE  LET n == Settled(m, o, ok)
         IN  /\ n.fetch = m.fetch
             /\ o = "refresh" => n.boot = "none" /\ n.timed = "none"
             /\ o # "refresh" => /\ n.boot = "none" <=> m.boot = "none"
                                 /\ n.timed = "none" <=> m.timed = "none"
  <1>1. PICK b \in TabRecord : b = Bumped(m)
    BY BumpedIs
  <1>2. PICK n : n = Settled(m, o, ok)
    OBVIOUS
  <1>3. CASE o = "refresh"
    <2>1. PICK s \in TabRecord : s = SignedOut(b)
      BY SignedAwaits
    <2>2. PICK a \in TabRecord : a = Awaited(m)
      BY SignedAwaits
    <2>3. n \in {SignedIn(a), a, Awaited(s), SignedOut(a)}
      BY <1>1, <1>2, <1>3, <2>1, <2>2 DEF Settled, Refreshed, RefreshFailed, ClearAuthUser
    <2>4. s.fetch = m.fetch /\ a.fetch = m.fetch /\ a.boot = "none" /\ a.timed = "none"
      BY <1>1, <2>1, <2>2, BumpedAwaits, SignedAwaits
    <2>5. n.fetch = m.fetch /\ n.boot = "none" /\ n.timed = "none"
      BY <2>3, <2>4, SignedAwaits
    <2>. QED BY <1>2, <1>3, <2>5
  <1>4. CASE o # "refresh"
    <2>1. n \in {SignedOut(b), SignedIn(b), m}
      BY <1>1, <1>2, <1>4 DEF Settled, ClearAuthUser, SetAuthSession, Endpoint
    <2>. QED BY <1>1, <1>2, <1>4, <2>1, BumpedAwaits, SignedAwaits
  <1>. QED BY <1>3, <1>4

LEMMA OneWaits ==
  ASSUME WaitInv, NEW t \in Tab, Awaits(tab'[t], call'[t]),
         \A u \in Tab : u # t => tab'[u] = tab[u] /\ call'[u] = call[u]
  PROVE  WaitInv'
  BY DEF WaitInv, Awaits

LEMMA FetchingWaits ==
  ASSUME NEW m \in TabRecord, NEW c
  PROVE  /\ Fetching(m, c).boot = m.boot /\ Fetching(m, c).timed = m.timed
         /\ m.fetch \/ c.stage = "csrf" => Fetching(m, c).fetch
  <1>1. PICK x \in BOOLEAN : x = (m.fetch \/ c.stage = "csrf")
    OBVIOUS
  <1>2. PICK f : f = [m EXCEPT !.fetch = x]
    OBVIOUS
  <1>3. Fetching(m, c) = f
    BY <1>1, <1>2 DEF Fetching, TabRecord
  <1>4. f.boot = m.boot /\ f.timed = m.timed /\ f.fetch = x
    BY <1>2 DEF TabRecord
  <1>. QED BY <1>1, <1>3, <1>4

LEMMA StartWaits ==
  ASSUME BrowserInv, WaitInv, NEW t \in Tab, NEW o \in Endpoint, NEW m \in TabRecord,
         StartCall(t, m, o),
         \A p \in Endpoint : call[t][p].stage = "csrf" => m.fetch,
         IF o = "refresh" THEN m.boot # "none" \/ m.timed # "none"
         ELSE m.boot # "none" \/ m.timed # "none" <=> call[t]["refresh"].stage # "idle"
  PROVE  WaitInv'
  <1>1. PICK c : c = Started(t, o, m.csrf, FALSE)
    OBVIOUS
  <1>2. PICK f : f = Fetching(m, c)
    OBVIOUS
  <1>3. m.csrf \in BOOLEAN
    BY DEF TabRecord
  <1>4. /\ c.stage # "idle" /\ (c.stage = "csrf" => f.fetch)
        /\ f.boot = m.boot /\ f.timed = m.timed /\ (m.fetch => f.fetch)
    <2>1. c.stage # "idle"
      BY <1>1, <1>3, StartedIs DEF BrowserInv
    <2>. QED BY <1>2, <2>1, FetchingWaits
  <1>5. tab' = [tab EXCEPT ![t] = f] /\ call' = [call EXCEPT ![t][o] = c]
    BY <1>1, <1>2 DEF StartCall
  <1>6. /\ tab'[t] = f /\ call'[t][o] = c
        /\ \A p \in Endpoint : p # o => call'[t][p] = call[t][p]
        /\ \A u \in Tab : u # t => tab'[u] = tab[u] /\ call'[u] = call[u]
    BY <1>5 DEF BrowserInv, BrowserTypes
  <1>7. Awaits(f, call'[t])
    <2>1. f.boot # "none" \/ f.timed # "none" <=> call'[t]["refresh"].stage # "idle"
      BY <1>4, <1>6 DEF Endpoint
    <2>2. \A p \in Endpoint : call'[t][p].stage = "csrf" => f.fetch
      BY <1>4, <1>6
    <2>. QED BY <2>1, <2>2 DEF Awaits
  <1>. QED BY <1>6, <1>7, OneWaits

LEMMA ActsWait ==
  ASSUME BrowserInv, WaitInv, NEW t \in Tab, Acts(t)
  PROVE  WaitInv'
  <1>1. PICK k \in TabRecord : k = tab[t] /\ Awaits(k, call[t])
    BY DEF BrowserInv, BrowserTypes, WaitInv
  <1>2. "refresh" \in Endpoint /\ "logout" \in Endpoint /\ "login" \in Endpoint
    BY DEF Endpoint
  <1>3. CASE Open(t)
    <2>1. PICK m : m = [Closed EXCEPT !.open = TRUE, !.loading = TRUE, !.boot = "current"]
      OBVIOUS
    <2>2. m \in TabRecord /\ m.boot = "current"
      BY <2>1 DEF Closed, TabRecord, Turn
    <2>3. \A p \in Endpoint : call[t][p].stage = "idle"
      BY <1>3, OpenTab DEF Open
    <2>. QED BY <1>2, <1>3, <2>1, <2>2, <2>3, StartWaits DEF Open
  <1>4. CASE TimedRefresh(t)
    <2>1. PICK m : m = [k EXCEPT !.timer = FALSE, !.timed = "current"]
      OBVIOUS
    <2>2. m \in TabRecord /\ m.timed = "current" /\ m.fetch = k.fetch
      BY <1>1, <2>1 DEF TabRecord, Turn
    <2>3. CASE call[t]["refresh"].stage = "idle"
      <3>1. StartCall(t, m, "refresh")
        BY <1>1, <1>4, <2>1, <2>3 DEF TimedRefresh
      <3>. QED BY <1>1, <1>2, <2>2, <3>1, StartWaits DEF Awaits
    <2>4. CASE call[t]["refresh"].stage # "idle"
      <3>1. tab' = [tab EXCEPT ![t] = m] /\ UNCHANGED call
        BY <1>1, <1>4, <2>1, <2>4 DEF TimedRefresh
      <3>2. tab'[t] = m /\ \A u \in Tab : u # t => tab'[u] = tab[u]
        BY <3>1 DEF BrowserInv, BrowserTypes
      <3>3. Awaits(m, call'[t])
        BY <1>1, <2>2, <2>4, <3>1 DEF Awaits
      <3>. QED BY <3>1, <3>2, <3>3, OneWaits
    <2>. QED BY <2>3, <2>4
  <1>5. CASE HandleLogout(t)
    BY <1>1, <1>2, <1>5, StartWaits DEF HandleLogout, Awaits
  <1>6. CASE SubmitLogin(t)
    BY <1>1, <1>2, <1>6, StartWaits DEF SubmitLogin, Awaits
  <1>7. ASSUME NEW m, tab' = [tab EXCEPT ![t] = m], UNCHANGED call, m.fetch = k.fetch,
               m.boot = "none" <=> k.boot = "none", m.timed = "none" <=> k.timed = "none"
        PROVE  WaitInv'
    <2>1. tab'[t] = m /\ \A u \in Tab : u # t => tab'[u] = tab[u]
      BY <1>7 DEF BrowserInv, BrowserTypes
    <2>2. Awaits(m, call'[t])
      BY <1>1, <1>7 DEF Awaits
    <2>. QED BY <1>7, <2>1, <2>2, OneWaits
  <1>8. PICK b \in TabRecord : b = Bumped(k)
    BY BumpedIs
  <1>9. b.fetch = k.fetch /\ (b.boot = "none" <=> k.boot = "none")
        /\ (b.timed = "none" <=> k.timed = "none")
    BY <1>8, BumpedAwaits
  <1>10. CASE SetAuthUser(t)
    <2>1. PICK x : x = (b.touched \/ "current" \in {k.boot, k.timed})
      OBVIOUS
    <2>2. PICK m : m = [b EXCEPT !.user = TRUE, !.loading = FALSE, !.touched = x]
      OBVIOUS
    <2>3. m = WithUser(k)
      BY <1>8, <2>1, <2>2 DEF WithUser
    <2>4. m.fetch = b.fetch /\ m.boot = b.boot /\ m.timed = b.timed
      BY <2>2 DEF TabRecord
    <2>5. tab' = [tab EXCEPT ![t] = m] /\ UNCHANGED call
      BY <1>1, <1>10, <2>3 DEF SetAuthUser
    <2>. QED BY <1>7, <1>9, <2>4, <2>5
  <1>11. CASE SessionEnded(t)
    <2>1. PICK m : m = SignedOut(b)
      OBVIOUS
    <2>2. m.fetch = b.fetch /\ m.boot = b.boot /\ m.timed = b.timed
      BY <2>1, SignedAwaits
    <2>3. tab' = [tab EXCEPT ![t] = m] /\ UNCHANGED call
      BY <1>1, <1>8, <1>11, <2>1 DEF SessionEnded, ClearAuthUser, BrowserInv, BrowserTypes
    <2>. QED BY <1>7, <1>9, <2>2, <2>3
  <1>. QED BY <1>3, <1>4, <1>5, <1>6, <1>10, <1>11 DEF Acts

\* A call ends, and its promise settles.
LEMMA SettledWaits ==
  ASSUME BrowserInv, WaitInv, NEW t \in Tab, NEW o \in Endpoint, NEW ok \in BOOLEAN,
         tab' = [tab EXCEPT ![t] = Settled(tab[t], o, ok)], call' = [call EXCEPT ![t][o] = NoCall]
  PROVE  WaitInv'
  <1>1. PICK k \in TabRecord : k = tab[t] /\ Awaits(k, call[t])
    BY DEF BrowserInv, BrowserTypes, WaitInv
  <1>2. PICK m : m = Settled(k, o, ok)
    OBVIOUS
  <1>3. /\ m.fetch = k.fetch
        /\ o = "refresh" => m.boot = "none" /\ m.timed = "none"
        /\ o # "refresh" => /\ m.boot = "none" <=> k.boot = "none"
                            /\ m.timed = "none" <=> k.timed = "none"
    BY <1>2, SettledAwaits
  <1>4. /\ tab'[t] = m /\ call'[t][o] = NoCall
        /\ \A p \in Endpoint : p # o => call'[t][p] = call[t][p]
        /\ \A u \in Tab : u # t => tab'[u] = tab[u] /\ call'[u] = call[u]
    BY <1>1, <1>2 DEF BrowserInv, BrowserTypes
  <1>5. NoCall.stage = "idle"
    BY DEF NoCall
  <1>6. Awaits(m, call'[t])
    <2>1. m.boot # "none" \/ m.timed # "none" <=> call'[t]["refresh"].stage # "idle"
      BY <1>1, <1>3, <1>4, <1>5 DEF Awaits, Endpoint
    <2>2. \A p \in Endpoint : call'[t][p].stage = "csrf" => m.fetch
      BY <1>1, <1>3, <1>4, <1>5 DEF Awaits
    <2>. QED BY <2>1, <2>2 DEF Awaits
  <1>. QED BY <1>4, <1>6, OneWaits

LEMMA DeliverWaits ==
  ASSUME BrowserInv, WaitInv, NEW t \in Tab, NEW o \in Endpoint, Deliver(t, o)
  PROVE  WaitInv'
  <1>1. PICK k \in TabRecord : k = tab[t] /\ Awaits(k, call[t])
    BY DEF BrowserInv, BrowserTypes, WaitInv
  <1>2. PICK c : c = call[t][o] /\ c.stage = "answered"
    BY DEF Deliver
  <1>3. CASE c.answer = "csrf" /\ ~c.retried
    <2>1. PICK m : m = [k EXCEPT !.csrf = FALSE]
      OBVIOUS
    <2>2. m \in TabRecord /\ m.boot = k.boot /\ m.timed = k.timed /\ m.fetch = k.fetch
      BY <2>1 DEF TabRecord
    <2>3. PICK again : again = Started(t, o, FALSE, TRUE)
      OBVIOUS
    <2>4. PICK f : f = Fetching(m, again)
      OBVIOUS
    <2>5. /\ again.stage # "idle" /\ (again.stage = "csrf" => f.fetch)
          /\ f.boot = m.boot /\ f.timed = m.timed /\ (m.fetch => f.fetch)
      <3>1. again.stage # "idle"
        BY <2>3, StartedIs DEF BrowserInv
      <3>. QED BY <2>2, <2>4, <3>1, FetchingWaits
    <2>6. tab' = [tab EXCEPT ![t] = f] /\ call' = [call EXCEPT ![t][o] = again]
      BY <1>1, <1>2, <1>3, <2>1, <2>3, <2>4 DEF Deliver
    <2>7. /\ tab'[t] = f /\ call'[t][o] = again
          /\ \A p \in Endpoint : p # o => call'[t][p] = call[t][p]
          /\ \A u \in Tab : u # t => tab'[u] = tab[u] /\ call'[u] = call[u]
      BY <2>6 DEF BrowserInv, BrowserTypes
    <2>8. Awaits(f, call'[t])
      <3>1. f.boot # "none" \/ f.timed # "none" <=> call'[t]["refresh"].stage # "idle"
        BY <1>1, <1>2, <2>2, <2>5, <2>7 DEF Awaits, Endpoint
      <3>2. \A p \in Endpoint : call'[t][p].stage = "csrf" => f.fetch
        BY <1>1, <2>2, <2>5, <2>7 DEF Awaits
      <3>. QED BY <3>1, <3>2 DEF Awaits
    <2>. QED BY <2>7, <2>8, OneWaits
  <1>4. CASE ~(c.answer = "csrf" /\ ~c.retried)
    <2>1. (c.answer = "ok") \in BOOLEAN
      OBVIOUS
    <2>2. /\ tab' = [tab EXCEPT ![t] = Settled(tab[t], o, c.answer = "ok")]
          /\ call' = [call EXCEPT ![t][o] = NoCall]
      BY <1>2, <1>4 DEF Deliver
    <2>. QED BY <2>1, <2>2, SettledWaits
  <1>. QED BY <1>3, <1>4

\* The fetch ends, and every call that waited for it goes on or ends.
LEMMA FetchWaits ==
  ASSUME BrowserInv, WaitInv, NEW t \in Tab, FetchCsrf(t) \/ LoseFetch(t)
  PROVE  WaitInv'
  <1>1. PICK k \in TabRecord : k = tab[t] /\ Awaits(k, call[t])
    BY DEF BrowserInv, BrowserTypes, WaitInv
  <1>2. ASSUME NEW m, NEW g, tab' = [tab EXCEPT ![t] = m], call' = [call EXCEPT ![t] = g],
               Awaits(m, g)
        PROVE  WaitInv'
    <2>1. /\ tab'[t] = m /\ call'[t] = g
          /\ \A u \in Tab : u # t => tab'[u] = tab[u] /\ call'[u] = call[u]
      BY <1>2 DEF BrowserInv, BrowserTypes
    <2>. QED BY <1>2, <2>1, OneWaits
  <1>3. CASE FetchCsrf(t)
    <2>1. PICK m : m = [k EXCEPT !.csrf = TRUE, !.fetch = FALSE]
      OBVIOUS
    <2>2. m.boot = k.boot /\ m.timed = k.timed
      BY <2>1 DEF TabRecord
    <2>3. PICK g : g = [o \in Endpoint |-> IF call[t][o].stage = "csrf"
                                           THEN Sent(call[t][o], t, jar') ELSE call[t][o]]
      OBVIOUS
    <2>4. tab' = [tab EXCEPT ![t] = m] /\ call' = [call EXCEPT ![t] = g]
      BY <1>1, <1>3, <2>1, <2>3 DEF FetchCsrf, BrowserInv, BrowserTypes
    <2>5. ASSUME NEW o \in Endpoint
          PROVE  g[o].stage # "csrf" /\ (g[o].stage = "idle" <=> call[t][o].stage = "idle")
      <3>1. call[t][o] \in CallRecord
        BY DEF BrowserInv, BrowserTypes
      <3>2. Sent(call[t][o], t, jar').stage = "sent"
        BY <3>1 DEF Sent, CallRecord
      <3>. QED BY <2>3, <3>2
    <2>6. Awaits(m, g)
      BY <1>1, <2>2, <2>5 DEF Awaits, Endpoint
    <2>. QED BY <1>2, <2>4, <2>6
  <1>4. CASE LoseFetch(t)
    <2>1. PICK waiting : waiting = {o \in Endpoint : call[t][o].stage = "csrf"}
      OBVIOUS
    <2>2. PICK m : m = [k EXCEPT !.fetch = FALSE]
      OBVIOUS
    <2>3. m \in TabRecord /\ m.boot = k.boot /\ m.timed = k.timed
      BY <2>2 DEF TabRecord
    <2>4. PICK r : r = IF "refresh" \in waiting THEN Settled(m, "refresh", FALSE) ELSE m
      OBVIOUS
    <2>5. PICK x : x = IF "logout" \in waiting THEN Settled(r, "logout", FALSE) ELSE r
      OBVIOUS
    <2>6. PICK g : g = [o \in Endpoint |-> IF o \in waiting THEN NoCall ELSE call[t][o]]
      OBVIOUS
    <2>7. tab' = [tab EXCEPT ![t] = x] /\ call' = [call EXCEPT ![t] = g]
      BY <1>1, <1>4, <2>1, <2>2, <2>4, <2>5, <2>6 DEF LoseFetch
    <2>8. /\ r \in TabRecord
          /\ "refresh" \in waiting => r.boot = "none" /\ r.timed = "none"
          /\ "refresh" \notin waiting => r = m
      <3>1. Remembers(m)
        BY <1>1, <2>2 DEF BrowserInv, TabsInv, Remembers, TabRecord
      <3>. QED BY <2>3, <2>4, <3>1, SettledAwaits, SettledRemembers DEF Endpoint
    <2>9. (x.boot = "none" <=> r.boot = "none") /\ (x.timed = "none" <=> r.timed = "none")
      BY <2>5, <2>8, SettledAwaits DEF Endpoint
    <2>10. ASSUME NEW o \in Endpoint
           PROVE  /\ g[o].stage # "csrf"
                  /\ g[o].stage = "idle" <=> call[t][o].stage = "idle" \/ o \in waiting
      BY <2>1, <2>6 DEF NoCall
    <2>11. Awaits(x, g)
      BY <1>1, <2>3, <2>8, <2>9, <2>10 DEF Awaits, Endpoint
    <2>. QED BY <1>2, <2>7, <2>11
  <1>. QED BY <1>3, <1>4

LEMMA ServeWaits ==
  ASSUME BrowserInv, WaitInv, NEW t \in Tab, NEW o \in Endpoint, Serve(t, o)
  PROVE  WaitInv'
  <1>1. /\ call[t][o].stage = "sent" /\ UNCHANGED tab
        /\ \E a, s, n : Answer(t, o, a, s, n)
    BY DEF Serve, RefuseCsrf, Rotate, RefuseRefresh, AnswerLogout, AnswerLogin
  <1>2. PICK a, s, n : Answer(t, o, a, s, n)
    BY <1>1
  <1>3. /\ \A p \in Endpoint : p # o => call'[t][p] = call[t][p]
        /\ \A u \in Tab : u # t => call'[u] = call[u]
    BY <1>2 DEF Answer, BrowserInv, BrowserTypes
  <1>4. call'[t][o].stage = "answered"
    <2>1. call[t][o] \in CallRecord
      BY DEF BrowserInv, BrowserTypes
    <2>2. call'[t][o] = [call[t][o] EXCEPT !.stage = "answered", !.answer = a,
                                           !.set = s, !.issued = n]
      BY <1>2 DEF Answer, BrowserInv, BrowserTypes
    <2>. QED BY <2>1, <2>2 DEF CallRecord
  <1>5. Awaits(tab'[t], call'[t])
    BY <1>1, <1>3, <1>4 DEF WaitInv, Awaits, Endpoint
  <1>. QED BY <1>1, <1>3, <1>5, OneWaits

LEMMA WaitStep ==
  ASSUME BrowserInv, WaitInv, [BrowserNext]_browserVars
  PROVE  WaitInv'
  <1>1. CASE UNCHANGED <<tab, call>>
    BY <1>1 DEF WaitInv, Awaits
  <1>2. ASSUME NEW t \in Tab, Answers(t) PROVE WaitInv'
    BY <1>2, FetchWaits, ServeWaits, DeliverWaits DEF Answers
  <1>3. ASSUME NEW t \in Tab, Close(t) PROVE WaitInv'
    <2>1. /\ tab'[t] = Closed /\ \A o \in Endpoint : call'[t][o] = NoCall
          /\ \A u \in Tab : u # t => tab'[u] = tab[u] /\ call'[u] = call[u]
      BY <1>3 DEF Close, BrowserInv, BrowserTypes
    <2>2. Awaits(tab'[t], call'[t])
      BY <2>1 DEF Awaits, Closed, NoCall, Endpoint
    <2>. QED BY <2>1, <2>2, OneWaits
  <1>4. ASSUME NEW t \in Tab, NEW o \in Endpoint, Lose(t, o) PROVE WaitInv'
    BY <1>4, SettledWaits DEF Lose
  <1>5. ASSUME NEW t \in Tab, Faults(t) PROVE WaitInv'
    BY <1>3, <1>4, <1>5, FetchWaits DEF Faults
  <1>6. CASE CookieExpires \/ RevokeEverywhere \/ UNCHANGED browserVars
    BY <1>1, <1>6 DEF CookieExpires, RevokeEverywhere, browserVars
  <1>. QED BY <1>2, <1>5, <1>6, ActsWait DEF BrowserNext

-----------------------------------------------------------------------------
(* Which tokens the server still counts                                    *)

\* A token counts as live or as excused, never as both, and only while a cookie or a
\* message holds it.
TokensInv ==
  /\ live \cup excused \subseteq HeldTokens
  /\ live \cap excused = {}

\* No token is let go: the step only fills in what held none.
LEMMA HeldKept ==
  ASSUME jar'.refresh = jar.refresh,
         \A t \in Tab, o \in Endpoint :
           /\ call[t][o].cookie \in {0, call'[t][o].cookie}
           /\ call[t][o].issued \in {0, call'[t][o].issued}
  PROVE  HeldTokens \ {0} \subseteq HeldTokens'
  <1>1. SUFFICES ASSUME NEW n \in HeldTokens, n # 0 PROVE n \in HeldTokens'
    OBVIOUS
  <1>2. CASE n = jar.refresh
    BY <1>2, HoldsAll
  <1>3. CASE n # jar.refresh
    <2>1. PICK t \in Tab, o \in Endpoint : n \in {call[t][o].cookie, call[t][o].issued}
      BY <1>3 DEF HeldTokens
    <2>2. n \in {call'[t][o].cookie, call'[t][o].issued}
      BY <1>1, <2>1
    <2>. QED BY <2>2, HoldsAll
  <1>. QED BY <1>2, <1>3

LEMMA ForgotTokens ==
  ASSUME TokensInv, NEW D, D \cap live = {}, Forget(D)
  PROVE  TokensInv'
  BY DEF TokensInv, Forget

LEMMA KeptTokens ==
  ASSUME BrowserInv, TokensInv, HeldTokens \ {0} \subseteq HeldTokens', NEW N \in SUBSET HeldTokens',
         N \cap HeldTokens = {}, live' \cup excused' \subseteq live \cup excused \cup N,
         live' \cap excused' = {}
  PROVE  TokensInv'
  <1>1. 0 \notin live \cup excused
    BY IdsEnough DEF BrowserInv, BrowserTypes, Id
  <1>. QED BY <1>1 DEF TokensInv

\* One call changes, which held no tokens where it gets some.
LEMMA CallTokens ==
  ASSUME BrowserInv, TokensInv, NEW t \in Tab, NEW o \in Endpoint, NEW c,
         call' = [call EXCEPT ![t][o] = c], UNCHANGED jar,
         call[t][o].cookie \in {0, c.cookie}, call[t][o].issued \in {0, c.issued},
         NEW N, N \subseteq {c.issued}, N \cap HeldTokens = {},
         live' \cup excused' \subseteq live \cup excused \cup N,
         live' \cap excused' = {}
  PROVE  TokensInv'
  <1>1. /\ call'[t][o] = c
        /\ \A u \in Tab, p \in Endpoint : <<u, p>> # <<t, o>> => call'[u][p] = call[u][p]
    BY DEF BrowserInv, BrowserTypes
  <1>2. HeldTokens \ {0} \subseteq HeldTokens'
    BY <1>1, HeldKept
  <1>3. N \in SUBSET HeldTokens'
    BY <1>1, HoldsAll
  <1>. QED BY <1>2, <1>3, KeptTokens

LEMMA EmptyHanded ==
  ASSUME BrowserInv, NEW t \in Tab, NEW o \in Endpoint
  PROVE  /\ call[t][o].stage \in {"idle", "csrf"} => call[t][o].cookie = 0
         /\ call[t][o].stage # "answered" => call[t][o].issued = 0
  BY DEF BrowserInv, CallsInv, CallShape

LEMMA StartTokens ==
  ASSUME BrowserInv, TokensInv, NEW t \in Tab, NEW o \in Endpoint, NEW m,
         StartCall(t, m, o), call[t][o].stage = "idle", UNCHANGED <<jar, live, excused>>
  PROVE  TokensInv'
  <1>1. PICK c : c = Started(t, o, m.csrf, FALSE)
    OBVIOUS
  <1>2. call' = [call EXCEPT ![t][o] = c]
    BY <1>1 DEF StartCall
  <1>3. call[t][o].cookie = 0 /\ call[t][o].issued = 0
    BY EmptyHanded
  <1>4. live' \cap excused' = {} /\ live' \cup excused' \subseteq live \cup excused \cup {}
    BY DEF TokensInv
  <1>. QED BY <1>2, <1>3, <1>4, CallTokens

LEMMA ActsTokens ==
  ASSUME BrowserInv, TokensInv, NEW t \in Tab, Acts(t)
  PROVE  TokensInv'
  <1>1. "refresh" \in Endpoint /\ "logout" \in Endpoint /\ "login" \in Endpoint
    BY DEF Endpoint
  <1>2. CASE UNCHANGED <<jar, live, excused, call>>
    <2>1. HeldTokens' = HeldTokens
      BY <1>2 DEF HeldTokens
    <2>. QED BY <1>2, <2>1 DEF TokensInv
  <1>3. CASE Open(t)
    BY <1>1, <1>3, OpenTab, StartTokens DEF Open
  <1>4. CASE TimedRefresh(t)
    BY <1>1, <1>2, <1>4, StartTokens DEF TimedRefresh
  <1>5. CASE HandleLogout(t) \/ SubmitLogin(t)
    BY <1>1, <1>5, StartTokens DEF HandleLogout, SubmitLogin
  <1>6. CASE SetAuthUser(t) \/ SessionEnded(t)
    BY <1>2, <1>6 DEF SetAuthUser, SessionEnded
  <1>. QED BY <1>3, <1>4, <1>5, <1>6 DEF Acts

LEMMA ServeTokens ==
  ASSUME BrowserInv, TokensInv, NEW t \in Tab, NEW o \in Endpoint, Serve(t, o)
  PROVE  TokensInv'
  <1>1. call[t][o].stage = "sent" /\ UNCHANGED jar /\ call[t][o].issued = 0
        /\ call[t][o] \in CallRecord
    BY EmptyHanded DEF Serve, BrowserInv, BrowserTypes
  <1>2. ASSUME NEW a, NEW s, NEW n, Answer(t, o, a, s, n),
               NEW N, N \subseteq {n}, N \cap HeldTokens = {},
               live' \cup excused' \subseteq live \cup excused \cup N, live' \cap excused' = {}
        PROVE  TokensInv'
    <2>1. PICK c : c = [call[t][o] EXCEPT !.stage = "answered", !.answer = a,
                                          !.set = s, !.issued = n]
      OBVIOUS
    <2>2. call' = [call EXCEPT ![t][o] = c]
      BY <1>2, <2>1 DEF Answer, BrowserInv, BrowserTypes
    <2>3. c.cookie = call[t][o].cookie /\ c.issued = n
      BY <1>1, <2>1 DEF CallRecord
    <2>. QED BY <1>1, <1>2, <2>2, <2>3, CallTokens
  <1>3. ASSUME NEW a, NEW s, Answer(t, o, a, s, 0),
               live' \cup excused' \subseteq live \cup excused, live' \cap excused' = {}
        PROVE  TokensInv'
    <2>1. {} \subseteq {0} /\ {} \cap HeldTokens = {}
          /\ live' \cup excused' \subseteq live \cup excused \cup {}
      BY <1>3
    <2>. QED BY <1>2, <1>3, <2>1
  <1>4. live \cap excused = {}
    BY DEF TokensInv
  <1>5. CASE RefuseCsrf(t, o)
    BY <1>3, <1>4, <1>5 DEF RefuseCsrf
  <1>6. CASE o = "refresh" /\ RefuseRefresh(t)
    BY <1>3, <1>4, <1>6 DEF RefuseRefresh
  <1>7. CASE o = "logout" /\ AnswerLogout(t)
    BY <1>3, <1>4, <1>7 DEF AnswerLogout
  <1>8. PICK n : n = FreshToken /\ n \notin HeldTokens
    BY FreshTokenIs DEF BrowserInv
  <1>9. n \notin live \cup excused /\ {n} \cap HeldTokens = {} /\ {n} \subseteq {n}
    BY <1>8 DEF TokensInv
  <1>10. CASE o = "refresh" /\ Rotate(t)
    <2>1. /\ live' \subseteq live \cup {n} /\ excused' = excused
          /\ Answer(t, o, "ok", "new", n)
      BY <1>8, <1>10 DEF Rotate
    <2>2. live' \cup excused' \subseteq live \cup excused \cup {n} /\ live' \cap excused' = {}
      BY <1>4, <1>9, <2>1
    <2>. QED BY <1>2, <1>9, <2>1, <2>2
  <1>11. CASE o = "login" /\ AnswerLogin(t)
    <2>1. CASE Answer(t, o, "refused", "keep", 0) /\ UNCHANGED <<live, excused>>
      BY <1>3, <1>4, <2>1
    <2>2. CASE live' = live \cup {n} /\ excused' = excused /\ Answer(t, o, "ok", "new", n)
      <3>1. live' \cup excused' \subseteq live \cup excused \cup {n} /\ live' \cap excused' = {}
        BY <1>4, <1>9, <2>2
      <3>. QED BY <1>2, <1>9, <2>2, <3>1
    <2>. QED BY <1>8, <1>11, <2>1, <2>2 DEF AnswerLogin
  <1>. QED BY <1>5, <1>6, <1>7, <1>10, <1>11 DEF Serve

LEMMA FetchTokens ==
  ASSUME BrowserInv, TokensInv, NEW t \in Tab, FetchCsrf(t) \/ LoseFetch(t)
  PROVE  TokensInv'
  <1>1. UNCHANGED <<live, excused>> /\ jar'.refresh = jar.refresh
    BY DEF FetchCsrf, LoseFetch, BrowserInv, BrowserTypes
  <1>2. \A u \in Tab : u # t => call'[u] = call[u]
    BY DEF FetchCsrf, LoseFetch, BrowserInv, BrowserTypes
  <1>3. ASSUME NEW o \in Endpoint
        PROVE  /\ call[t][o].cookie \in {0, call'[t][o].cookie}
               /\ call[t][o].issued \in {0, call'[t][o].issued}
    <2>1. \/ call[t][o].stage = "csrf"
          \/ call'[t][o] = call[t][o]
      <3>1. CASE FetchCsrf(t)
        BY <3>1 DEF FetchCsrf, BrowserInv, BrowserTypes
      <3>2. CASE LoseFetch(t)
        <4>1. PICK waiting : waiting = {p \in Endpoint : call[t][p].stage = "csrf"}
          OBVIOUS
        <4>2. call' = [call EXCEPT ![t] = [p \in Endpoint |-> IF p \in waiting THEN NoCall
                                                               ELSE call[t][p]]]
          BY <3>2, <4>1 DEF LoseFetch, BrowserInv, BrowserTypes
        <4>3. call'[t][o] = IF o \in waiting THEN NoCall ELSE call[t][o]
          BY <4>2 DEF BrowserInv, BrowserTypes
        <4>. QED BY <4>1, <4>3
      <3>. QED BY <3>1, <3>2
    <2>. QED BY <2>1, EmptyHanded
  <1>4. HeldTokens \ {0} \subseteq HeldTokens'
    BY <1>1, <1>2, <1>3, HeldKept
  <1>5. live' \cap excused' = {} /\ live' \cup excused' \subseteq live \cup excused \cup {}
    BY <1>1 DEF TokensInv
  <1>. QED BY <1>4, <1>5, KeptTokens

LEMMA TokensStep ==
  ASSUME BrowserInv, TokensInv, [BrowserNext]_browserVars
  PROVE  TokensInv'
  <1>1. ASSUME NEW t \in Tab, NEW o \in Endpoint PROVE Unheard(call[t][o]) \cap live = {}
    BY DEF Unheard
  <1>2. ASSUME NEW t \in Tab, NEW o \in Endpoint, Deliver(t, o) \/ Lose(t, o) PROVE TokensInv'
    BY <1>1, <1>2, ForgotTokens DEF Deliver, Lose
  <1>3. ASSUME NEW t \in Tab, Close(t) PROVE TokensInv'
    <2>1. PICK D : D = UNION {Unheard(call[t][o]) : o \in Endpoint}
      OBVIOUS
    <2>2. D \cap live = {}
      BY <1>1, <2>1
    <2>. QED BY <1>3, <2>1, <2>2, ForgotTokens DEF Close
  <1>4. CASE CookieExpires
    BY <1>4, ForgotTokens DEF CookieExpires
  <1>5. CASE RevokeEverywhere
    <2>1. UNCHANGED <<jar, call>> /\ live' = {} /\ excused' = excused \cup live
      BY <1>5 DEF RevokeEverywhere
    <2>2. HeldTokens' = HeldTokens
      BY <2>1 DEF HeldTokens
    <2>. QED BY <2>1, <2>2 DEF TokensInv
  <1>6. ASSUME NEW t \in Tab, Answers(t) PROVE TokensInv'
    BY <1>2, <1>6, FetchTokens, ServeTokens DEF Answers
  <1>7. ASSUME NEW t \in Tab, Faults(t) PROVE TokensInv'
    BY <1>2, <1>3, <1>7, FetchTokens DEF Faults
  <1>8. CASE UNCHANGED browserVars
    BY <1>8 DEF browserVars, TokensInv, HeldTokens
  <1>. QED BY <1>4, <1>5, <1>6, <1>7, <1>8, ActsTokens DEF BrowserNext

\* No tab waits for an answer that no call brings or leaves a call to wait for a fetch that
\* nobody makes, and every token that counts is held by a cookie or a message (AuthProvider,
\* httpClient, auth.controller).
THEOREM BrowserTypeCorrect == BrowserSpec => []BrowserTypeOK
  <1>1. BrowserInit => WaitInv /\ TokensInv
    <2>1. SUFFICES ASSUME BrowserInit PROVE WaitInv /\ TokensInv
      OBVIOUS
    <2>2. WaitInv
      BY <2>1 DEF BrowserInit, WaitInv, Awaits, Closed, NoCall, Endpoint
    <2>3. live \subseteq {jar.refresh} /\ excused = {}
      BY <2>1 DEF BrowserInit
    <2>4. jar.refresh \in HeldTokens
      BY HoldsAll
    <2>. QED BY <2>2, <2>3, <2>4 DEF TokensInv
  <1>2. BrowserInv /\ WaitInv /\ TokensInv => BrowserTypeOK
    <2>1. SUFFICES ASSUME BrowserInv, WaitInv, TokensInv PROVE BrowserTypeOK
      OBVIOUS
    <2>2. 0 \notin live \cup excused
      BY <2>1, IdsEnough DEF BrowserInv, BrowserTypes, Id
    <2>3. ASSUME NEW t \in Tab
          PROVE  /\ tab[t].boot \in Turn /\ tab[t].timed \in Turn
                 /\ tab[t].timer => tab[t].token
                 /\ ~tab[t].open => tab[t] = Closed
                 /\ Awaits(tab[t], call[t])
      BY <2>1 DEF BrowserInv, BrowserTypes, TabRecord, TabsInv, Remembers, ClosedInv, WaitInv
    <2>. QED BY <2>1, <2>2, <2>3
             DEF BrowserTypeOK, TokensInv, BrowserInv, BrowserTypes, Turn, Awaits
  <1>3. BrowserInv /\ WaitInv /\ [BrowserNext]_browserVars => WaitInv'
    BY WaitStep
  <1>4. BrowserInv /\ TokensInv /\ [BrowserNext]_browserVars => TokensInv'
    BY TokensStep
  <1>. QED BY <1>1, <1>2, <1>3, <1>4, BrowserInvariant, PTL DEF BrowserSpec
=============================================================================
