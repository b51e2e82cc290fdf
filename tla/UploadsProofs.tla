---------------------------- MODULE UploadsProofs ----------------------------
(***************************************************************************)
(* Proofs about Uploads, for any requests and numbers of files.            *)
(***************************************************************************)
EXTENDS Uploads, TLAPS

Active(r) == req[r].pc \in {"validate", "store", "commit"}
Settled(r) == req[r].pc \in {"cleanup", "purge", "done"}

\* The files that a request knows are its own, and until it is settled they are
\* there; the row that it replaces images of is a listing's.
Request(r) ==
  /\ req[r].known \subseteq FilesOf(r)
  /\ Active(r) => /\ req[r].known \subseteq store
                  /\ req[r].on \in Req
                  /\ IF req[r].op = "replace"
                     THEN row[req[r].on].kind = "listing" /\ row[req[r].on].st # "none"
                     ELSE req[r].on = r
  /\ req[r].pc \in {"validate", "store"} => req[r].old = {}
  /\ req[r].pc = "commit" => /\ FilesOf(r) \subseteq req[r].known
                             /\ req[r].old \subseteq row[req[r].on].images

\* What is to be deleted belongs to settled requests, and no row shows it once
\* the transaction has committed.
Replaced(r) ==
  /\ req[r].pc \in {"commit", "purge"} => \A f \in req[r].old : Settled(f[1])
  /\ req[r].pc = "purge" =>
       \A d \in Req \ spoilt.rows : row[d].images \intersect req[r].old = {}

\* A row is written when its request settles.  It shows files of settled
\* requests, and of one that is about to delete its own only if a lost COMMIT
\* says so.
Row(d) ==
  /\ row[d].st # "none" => Settled(d)
  /\ row[d].kind # "listing" => row[d].st # "none"
  /\ \A f \in row[d].images :
       \/ req[f[1]].pc \in {"purge", "done"}
       \/ req[f[1]].pc = "cleanup" /\ d \in spoilt.rows

WritersApart ==
  \A q, r \in Req : q # r /\ req[q].pc = "commit" /\ req[r].pc = "commit"
                      => req[q].on # req[r].on

RowsApart == \A d, e \in Req : d # e => row[d].images \intersect row[e].images = {}

LinksAgree ==
  \A l \in link : l.file \in row[l.doc].images /\ row[l.doc].kind # "listing"

IInv ==
  /\ TypeOK /\ WritersApart /\ RowsApart /\ LinksAgree
  /\ \A r \in Req : Request(r) /\ Replaced(r) /\ Row(r)

-----------------------------------------------------------------------------
(* Types                                                                   *)

Record ==
  [op : Op, on : Req \union {None}, n : 0..MaxFiles, fine : BOOLEAN,
   pc : {"idle", "validate", "store", "commit", "purge", "cleanup", "done"},
   known : SUBSET File, old : SUBSET File]
RowRecord ==
  [kind : Kind, st : {"none", "active", "closed"}, images : SUBSET File]

LEMMA Typed ==
  ASSUME TypeOK
  PROVE  /\ req \in [Req -> Record] /\ row \in [Req -> RowRecord]
         /\ store \subseteq File /\ link \subseteq Links
         /\ spoilt \in [files : SUBSET File, rows : SUBSET Req]
  BY DEF TypeOK, Record, RowRecord

LEMMA DoneTyped == [Idle EXCEPT !.pc = "done"] \in Record /\ Idle \in Record
  <1>1. 0 \in 0..MaxFiles /\ {} \in SUBSET File /\ None \in Req \union {None} /\ "create" \in Op
    BY UploadBounds DEF Op
  <1>2. Idle \in Record
    BY <1>1 DEF Idle, Record
  <1>3. \A x \in Record : [x EXCEPT !.pc = "done"] \in Record
    BY DEF Record
  <1>. QED BY <1>2, <1>3

\* What a move of a request's pc leaves as it was.
LEMMA GotoIs ==
  ASSUME TypeOK, NEW r \in Req, NEW pc, Goto(r, pc)
  PROVE  /\ DOMAIN req' = Req
         /\ \A q \in Req \ {r} : req'[q] = req[q]
         /\ req'[r].pc = pc
         /\ req'[r].op = req[r].op /\ req'[r].on = req[r].on /\ req'[r].n = req[r].n
         /\ req'[r].known = req[r].known /\ req'[r].old = req[r].old
         /\ \A q \in Req : FilesOf(q)' = FilesOf(q)
  <1>1. req \in [Req -> Record] /\ req[r] \in Record
    BY Typed
  <1>2. req' = [req EXCEPT ![r] = [req[r] EXCEPT !.pc = pc]]
    BY DEF Goto
  <1>3. /\ DOMAIN req' = Req /\ \A q \in Req \ {r} : req'[q] = req[q]
        /\ req'[r] = [req[r] EXCEPT !.pc = pc]
    BY <1>1, <1>2
  <1>4. /\ req'[r].pc = pc
        /\ req'[r].op = req[r].op /\ req'[r].on = req[r].on /\ req'[r].n = req[r].n
        /\ req'[r].known = req[r].known /\ req'[r].old = req[r].old
    BY <1>1, <1>3 DEF Record
  <1>5. \A q \in Req : FilesOf(q)' = FilesOf(q)
    BY <1>3, <1>4 DEF FilesOf
  <1>. QED BY <1>3, <1>4, <1>5

LEMMA GotoTyped ==
  ASSUME TypeOK, NEW r \in Req, Goto(r, "store") \/ Goto(r, "cleanup") \/ Goto(r, "commit") \/ Goto(r, "purge")
  PROVE  req' \in [Req -> Record]
  BY Typed DEF Goto, Record

LEMMA FinishIs ==
  ASSUME TypeOK, NEW r \in Req, Finish(r)
  PROVE  /\ req' \in [Req -> Record]
         /\ \A q \in Req \ {r} : req'[q] = req[q] /\ FilesOf(q)' = FilesOf(q)
         /\ req'[r].pc = "done" /\ req'[r].known = {} /\ req'[r].old = {}
  <1>1. req \in [Req -> Record] /\ req' = [req EXCEPT ![r] = [Idle EXCEPT !.pc = "done"]]
    BY Typed DEF Finish
  <1>2. /\ req' \in [Req -> Record] /\ \A q \in Req \ {r} : req'[q] = req[q]
        /\ req'[r] = [Idle EXCEPT !.pc = "done"]
    BY <1>1, DoneTyped
  <1>. QED BY <1>2 DEF Idle, FilesOf

LEMMA DeleteTyped ==
  ASSUME TypeOK, NEW files, NEW left \in SUBSET files, Delete(files, left), files \subseteq File
  PROVE  /\ store' = store \ (files \ left)
         /\ store' \subseteq store
         /\ spoilt' \in [files : SUBSET File, rows : SUBSET Req]
         /\ spoilt'.rows = spoilt.rows
         /\ spoilt'.files = spoilt.files \union (left \intersect store)
         /\ faults' \in 0..MaxFaults
  <1>1. spoilt \in [files : SUBSET File, rows : SUBSET Req] /\ faults \in 0..MaxFaults
    BY DEF TypeOK
  <1>2. faults' \in 0..MaxFaults
    BY <1>1, UploadBounds DEF Delete, Fault
  <1>3. /\ store' = store \ (files \ left)
        /\ spoilt' = [spoilt EXCEPT !.files = spoilt.files \union (left \intersect store)]
    BY DEF Delete
  <1>. QED BY <1>1, <1>2, <1>3

LEMMA FaultTyped == ASSUME TypeOK, Fault PROVE faults' \in 0..MaxFaults
  BY UploadBounds DEF TypeOK, Fault

LEMMA OwnFiles == ASSUME TypeOK, NEW r \in Req PROVE FilesOf(r) \subseteq File
  <1>1. req[r].n \in 0..MaxFiles
    BY Typed DEF Record
  <1>. QED BY <1>1, UploadBounds DEF FilesOf, File

LEMMA KindOfOpTyped == \A op \in Op : KindOfOp[op] \in Kind
  BY DEF KindOfOp, Op, Kind

LEMMA WrittenTyped ==
  ASSUME IInv, NEW r \in Req, req[r].pc = "commit"
  PROVE  /\ req[r].on \in Req
         /\ Written(r) \in [Req -> RowRecord]
         /\ \A d \in Req \ {req[r].on} : Written(r)[d] = row[d]
         /\ Written(r)[req[r].on].st = "active"
         /\ Written(r)[req[r].on].kind = KindOfOp[req[r].op]
         /\ Written(r)[req[r].on].images =
              (row[req[r].on].images \ req[r].old) \union FilesOf(r)
  <1>1. req[r].on \in Req /\ req[r] \in Record /\ row \in [Req -> RowRecord]
    BY Typed DEF IInv, Request, Active
  <1>2. PICK d : d = req[r].on
    OBVIOUS
  <1>3. PICK new : new = [kind |-> KindOfOp[req[r].op], st |-> "active",
                          images |-> (row[d].images \ req[r].old) \union FilesOf(r)]
    OBVIOUS
  <1>4. row[d].images \subseteq File
    BY <1>1, <1>2 DEF RowRecord
  <1>5. new \in RowRecord
    BY <1>1, <1>3, <1>4, OwnFiles, KindOfOpTyped DEF RowRecord, IInv, Record
  <1>6. Written(r) = [row EXCEPT ![d] = new]
    BY <1>2, <1>3 DEF Written
  <1>. QED BY <1>1, <1>2, <1>3, <1>5, <1>6

-----------------------------------------------------------------------------
(* Steps of one request that write no row                                  *)

LEMMA OneRequest ==
  ASSUME IInv, TypeOK', NEW r \in Req,
         row' = row, link' = link, spoilt'.rows = spoilt.rows,
         \A q \in Req \ {r} : req'[q] = req[q],
         \A q \in Req \ {r} : Active(q) => req[q].known \subseteq store',
         Request(r)', Replaced(r)',
         req[r].pc \in {"purge", "done"} => req'[r].pc \in {"purge", "done"},
         req[r].pc = "cleanup" => req'[r].pc \in {"cleanup", "done"},
         req'[r].pc = "commit" => \A q \in Req \ {r} :
           req[q].pc = "commit" => req[q].on # req'[r].on
  PROVE  IInv'
  <1>1. ASSUME NEW q \in Req PROVE Request(q)'
    <2>1. CASE q = r
      BY <2>1
    <2>2. CASE q # r
      BY <2>2 DEF IInv, Request, Active, FilesOf
    <2>. QED BY <2>1, <2>2
  <1>2. \A q \in Req : Settled(q) => Settled(q)'
    BY DEF Settled
  <1>3. ASSUME NEW q \in Req PROVE Replaced(q)'
    <2>1. CASE q = r
      BY <2>1
    <2>2. CASE q # r
      <3>1. req'[q] = req[q] /\ Replaced(q)
        BY <2>2 DEF IInv
      <3>2. \A f \in req[q].old : f[1] \in Req
        BY Typed DEF IInv, Record, File
      <3>. QED BY <1>2, <3>1, <3>2 DEF Replaced
    <2>. QED BY <2>1, <2>2
  <1>4. ASSUME NEW d \in Req PROVE Row(d)'
    <2>1. \A f \in row[d].images : f[1] \in Req
      BY Typed DEF IInv, RowRecord, File
    <2>2. Row(d)
      BY DEF IInv
    <2>. QED BY <1>2, <2>1, <2>2 DEF Row
  <1>5. WritersApart'
    BY DEF IInv, WritersApart
  <1>6. RowsApart' /\ LinksAgree'
    BY DEF IInv, RowsApart, LinksAgree
  <1>. QED BY <1>1, <1>3, <1>4, <1>5, <1>6 DEF IInv

LEMMA ReceiveInv ==
  ASSUME IInv, NEW r \in Req, NEW op \in Op, NEW d \in Req, NEW n \in 0..MaxFiles,
         NEW fine \in BOOLEAN, Receive(r, op, d, n, fine)
  PROVE  IInv'
  <1>1. PICK files : files = IF provider = "local" THEN {<<r, i>> : i \in 1..n} ELSE {}
    OBVIOUS
  <1>2. PICK new : new = [op |-> op, pc |-> "validate", on |-> d, n |-> n,
                          fine |-> fine, known |-> files, old |-> {}]
    OBVIOUS
  <1>3. /\ req' = [req EXCEPT ![r] = new] /\ store' = store \union files
        /\ UNCHANGED <<provider, row, link, views, faults, spoilt>>
        /\ req[r].pc = "idle"
        /\ IF op = "replace" THEN row[d].kind = "listing" /\ row[d].st # "none" ELSE d = r
    BY <1>1, <1>2 DEF Receive, data
  <1>4. files \subseteq File /\ \A f \in files : f \in {<<r, i>> : i \in 1..n}
    BY <1>1, UploadBounds DEF File
  <1>5. new \in Record
    BY <1>2, <1>4 DEF Record
  <1>6. /\ req' \in [Req -> Record] /\ req'[r] = new
        /\ \A q \in Req \ {r} : req'[q] = req[q]
    BY <1>3, <1>5, Typed DEF IInv
  <1>7. TypeOK'
    BY <1>3, <1>4, <1>6 DEF IInv, TypeOK, Record
  <1>8. Request(r)'
    BY <1>2, <1>3, <1>4, <1>6 DEF Request, Active, FilesOf
  <1>9. Replaced(r)'
    BY <1>2, <1>6 DEF Replaced
  <1>10. \A q \in Req \ {r} : Active(q) => req[q].known \subseteq store'
    BY <1>3 DEF IInv, Request
  <1>. QED BY <1>2, <1>3, <1>6, <1>7, <1>8, <1>9, <1>10, OneRequest

\* Moves before the transaction, and a transaction that rolls back.
LEMMA MoveInv ==
  ASSUME IInv, NEW r \in Req, NEW pc \in {"store", "cleanup"}, Active(r), Goto(r, pc),
         req[r].pc = "validate" \/ pc = "cleanup",
         store \subseteq store', store' \subseteq File, row' = row, link' = link,
         UNCHANGED <<provider, views>>,
         spoilt' \in [files : SUBSET File, rows : SUBSET Req], spoilt'.rows = spoilt.rows,
         faults' \in 0..MaxFaults
  PROVE  IInv'
  <1>1. TypeOK
    BY DEF IInv
  <1>2. /\ \A q \in Req \ {r} : req'[q] = req[q]
        /\ req'[r].pc = pc
        /\ req'[r].op = req[r].op /\ req'[r].on = req[r].on
        /\ req'[r].known = req[r].known /\ req'[r].old = req[r].old
        /\ FilesOf(r)' = FilesOf(r)
    BY <1>1, GotoIs
  <1>3. TypeOK'
    BY <1>1, GotoTyped DEF TypeOK, Record
  <1>4. Request(r)'
    BY <1>2 DEF IInv, Request, Active
  <1>5. Replaced(r)'
    BY <1>2 DEF Replaced
  <1>6. \A q \in Req \ {r} : Active(q) => req[q].known \subseteq store'
    BY DEF IInv, Request
  <1>. QED BY <1>2, <1>3, <1>4, <1>5, <1>6, OneRequest DEF Active

LEMMA ValidateInv == ASSUME IInv, NEW r \in Req, Validate(r) PROVE IInv'
  <1>1. PICK pc \in {"store", "cleanup"} : Goto(r, pc)
    BY DEF Validate
  <1>2. /\ req[r].pc = "validate"
        /\ UNCHANGED <<provider, row, link, views, store, faults, spoilt>>
    BY DEF Validate, data
  <1>3. /\ spoilt \in [files : SUBSET File, rows : SUBSET Req] /\ faults \in 0..MaxFaults
        /\ store \subseteq File
    BY DEF IInv, TypeOK
  <1>. QED BY <1>1, <1>2, <1>3, MoveInv DEF Active

LEMMA RollBackInv == ASSUME IInv, NEW r \in Req, RollBack(r) PROVE IInv'
  <1>1. /\ req[r].pc = "commit" /\ Goto(r, "cleanup")
        /\ UNCHANGED <<provider, row, link, views, store, faults, spoilt>>
    BY DEF RollBack, data
  <1>2. /\ spoilt \in [files : SUBSET File, rows : SUBSET Req] /\ faults \in 0..MaxFaults
        /\ store \subseteq File
    BY DEF IInv, TypeOK
  <1>. QED BY <1>1, <1>2, MoveInv DEF Active

LEMMA StoreFileInv == ASSUME IInv, NEW r \in Req, StoreFile(r) PROVE IInv'
  <1>1. req[r].pc = "store" /\ UNCHANGED <<provider, row, link, views>> /\ TypeOK
    BY DEF StoreFile, data, IInv
  <1>2. PICK f \in FilesOf(r) \ req[r].known :
          \/ /\ req' = [req EXCEPT ![r].known = @ \union {f}]
             /\ store' = store \union {f}
             /\ UNCHANGED <<faults, spoilt>>
          \/ /\ Fault /\ Goto(r, "cleanup")
             /\ UNCHANGED <<store, spoilt>>
          \/ /\ Fault /\ Goto(r, "cleanup")
             /\ store' = store \union {f}
             /\ spoilt' = [spoilt EXCEPT !.files = @ \union {f}]
    BY DEF StoreFile
  <1>3. f \in File /\ store \subseteq File
        /\ spoilt \in [files : SUBSET File, rows : SUBSET Req] /\ faults \in 0..MaxFaults
    BY <1>1, OwnFiles DEF TypeOK
  <1>4. CASE /\ req' = [req EXCEPT ![r].known = @ \union {f}]
             /\ store' = store \union {f}
             /\ UNCHANGED <<faults, spoilt>>
    <2>1. PICK known : known = req[r].known \union {f}
      OBVIOUS
    <2>2. req \in [Req -> Record] /\ req[r] \in Record /\ req' = [req EXCEPT ![r] = [req[r] EXCEPT !.known = known]]
      BY <1>1, <1>4, <2>1, Typed
    <2>3. known \in SUBSET File
      BY <1>3, <2>1, <2>2 DEF Record
    <2>4. [req[r] EXCEPT !.known = known] \in Record
      BY <2>2, <2>3 DEF Record
    <2>5. /\ req' \in [Req -> Record] /\ \A q \in Req \ {r} : req'[q] = req[q]
          /\ req'[r] = [req[r] EXCEPT !.known = known]
      BY <2>2, <2>4
    <2>6. /\ req'[r].pc = "store" /\ req'[r].known = known /\ req'[r].on = req[r].on
          /\ req'[r].op = req[r].op /\ req'[r].old = req[r].old /\ req'[r].n = req[r].n
      BY <1>1, <2>2, <2>5 DEF Record
    <2>7. TypeOK'
      BY <1>1, <1>3, <1>4, <2>5 DEF TypeOK, Record
    <2>8. FilesOf(r)' = FilesOf(r)
      BY <2>6 DEF FilesOf
    <2>9. Request(r)'
      BY <1>1, <1>2, <1>4, <2>1, <2>6, <2>8 DEF IInv, Request, Active
    <2>10. Replaced(r)'
      BY <2>6 DEF Replaced
    <2>11. \A q \in Req \ {r} : Active(q) => req[q].known \subseteq store'
      BY <1>4 DEF IInv, Request
    <2>. QED BY <1>1, <1>4, <2>5, <2>6, <2>7, <2>9, <2>10, <2>11, OneRequest
  <1>5. CASE Fault /\ Goto(r, "cleanup") /\ UNCHANGED <<store, spoilt>>
    BY <1>1, <1>3, <1>5, FaultTyped, MoveInv DEF Active
  <1>6. CASE /\ Fault /\ Goto(r, "cleanup")
             /\ store' = store \union {f}
             /\ spoilt' = [spoilt EXCEPT !.files = @ \union {f}]
    <2>1. /\ spoilt' \in [files : SUBSET File, rows : SUBSET Req]
          /\ spoilt'.rows = spoilt.rows
      BY <1>3, <1>6
    <2>. QED BY <1>1, <1>3, <1>6, <2>1, FaultTyped, MoveInv DEF Active
  <1>. QED BY <1>2, <1>4, <1>5, <1>6

-----------------------------------------------------------------------------
(* The transaction                                                         *)

\* Who writes a row does so alone: one that creates it has settled before
\* another can replace its images.
LEMMA Alone ==
  ASSUME IInv, NEW r \in Req, req[r].pc = "store", Writers(r) = {},
         NEW q \in Req \ {r}, req[q].pc = "commit"
  PROVE  req[q].on # req[r].on
  <1>1. Request(q) /\ Request(r) /\ Active(q) /\ Active(r)
    BY DEF IInv, Active
  <1>2. SUFFICES ASSUME req[q].on = req[r].on PROVE FALSE
    OBVIOUS
  <1>3. \A d \in Req : row[d].st # "none" => ~Active(d)
    BY DEF IInv, Row, Settled, Active
  <1>4. CASE req[q].op = "replace" /\ req[r].op = "replace"
    BY <1>2, <1>4 DEF Writers
  <1>. QED BY <1>1, <1>2, <1>3, <1>4 DEF Request

LEMMA WriteInv == ASSUME IInv, NEW r \in Req, Write(r) PROVE IInv'
  <1>1. /\ req[r].pc = "store" /\ FilesOf(r) \subseteq req[r].known /\ Writers(r) = {}
        /\ UNCHANGED <<provider, row, link, views, store, faults, spoilt>>
        /\ TypeOK /\ Request(r) /\ req[r] \in Record /\ req \in [Req -> Record]
    BY Typed DEF Write, data, IInv
  <1>2. /\ spoilt \in [files : SUBSET File, rows : SUBSET Req] /\ faults \in 0..MaxFaults
        /\ store \subseteq File
    BY <1>1 DEF TypeOK
  <1>3. CASE Goto(r, "cleanup")
    BY <1>1, <1>2, <1>3, MoveInv DEF Active
  <1>4. ASSUME NEW old \in SUBSET File,
               req' = [req EXCEPT ![r] = [req[r] EXCEPT !.pc = "commit", !.old = old]],
               old # {} => old = row[req[r].on].images
        PROVE  IInv'
    <2>1. PICK new : new = [req[r] EXCEPT !.pc = "commit", !.old = old]
      OBVIOUS
    <2>2. new \in Record /\ req' = [req EXCEPT ![r] = new]
      BY <1>1, <1>4, <2>1 DEF Record
    <2>3. /\ req' \in [Req -> Record] /\ req'[r] = new
          /\ \A q \in Req \ {r} : req'[q] = req[q]
      BY <1>1, <2>2
    <2>4. /\ req'[r].pc = "commit" /\ req'[r].old = old /\ req'[r].op = req[r].op
          /\ req'[r].on = req[r].on /\ req'[r].known = req[r].known /\ req'[r].n = req[r].n
      BY <1>1, <2>1, <2>3 DEF Record
    <2>5. TypeOK'
      BY <1>1, <2>3 DEF TypeOK, Record
    <2>6. FilesOf(r)' = FilesOf(r)
      BY <2>4 DEF FilesOf
    <2>7. Request(r)'
      BY <1>1, <1>4, <2>4, <2>6 DEF Request, Active
    <2>8. \A f \in old : f[1] \in Req /\ Settled(f[1])
      <3>1. req[r].on \in Req
        BY <1>1 DEF Request, Active
      <3>2. Row(req[r].on) /\ \A f \in row[req[r].on].images : f[1] \in Req
        BY <1>1, <3>1, Typed DEF IInv, RowRecord, File
      <3>. QED BY <1>4, <3>2 DEF Row, Settled
    <2>9. \A f \in old : Settled(f[1])'
      BY <1>1, <2>3, <2>8 DEF Settled
    <2>10. Replaced(r)'
      BY <2>4, <2>9 DEF Replaced
    <2>11. \A q \in Req \ {r} : req[q].pc = "commit" => req[q].on # req'[r].on
      BY <1>1, <2>4, Alone
    <2>12. \A q \in Req \ {r} : Active(q) => req[q].known \subseteq store'
      BY <1>1 DEF IInv, Request
    <2>. QED BY <1>1, <2>3, <2>5, <2>7, <2>10, <2>11, <2>12, OneRequest
  <1>5. CASE Goto(r, "commit")
    <2>1. req[r].old = {}
      BY <1>1 DEF Request
    <2>2. req' = [req EXCEPT ![r] = [req[r] EXCEPT !.pc = "commit"]]
      BY <1>5 DEF Goto
    <2>3. [req[r] EXCEPT !.pc = "commit"] = [req[r] EXCEPT !.pc = "commit", !.old = {}]
      BY <1>1, <2>1 DEF Record
    <2>4. req' = [req EXCEPT ![r] = [req[r] EXCEPT !.pc = "commit", !.old = {}]]
      BY <2>2, <2>3
    <2>5. {} \in SUBSET File
      OBVIOUS
    <2>. QED BY <1>4, <2>4, <2>5
  <1>6. CASE WriteReplacement(r) /\ ~Goto(r, "cleanup")
    <2>1. PICK old :
            /\ old = IF req[r].n = 0 THEN {} ELSE row[req[r].on].images
            /\ req' = [req EXCEPT ![r] = [req[r] EXCEPT !.pc = "commit", !.old = old]]
      BY <1>6 DEF WriteReplacement
    <2>2. row[req[r].on].images \subseteq File
      BY <1>1, Typed DEF Request, Active, RowRecord
    <2>3. old \in SUBSET File /\ (old # {} => old = row[req[r].on].images)
      BY <2>1, <2>2
    <2>. QED BY <1>4, <2>1, <2>3
  <1>7. Goto(r, "cleanup") \/ Goto(r, "commit") \/ (WriteReplacement(r) /\ ~Goto(r, "cleanup"))
    BY DEF Write, WriteListing, WriteSubmission
  <1>. QED BY <1>3, <1>5, <1>6, <1>7

\* A COMMIT that took effect, whether or not the request knows.
LEMMA WrittenInv ==
  ASSUME IInv, TypeOK', NEW r \in Req, req[r].pc = "commit",
         row' = Written(r), link' = link, store' = store,
         \A q \in Req \ {r} : req'[q] = req[q],
         Settled(r)', req'[r].known \subseteq FilesOf(r)',
         req'[r].pc = "purge" => req'[r].old = req[r].old,
         spoilt.rows \subseteq spoilt'.rows,
         req'[r].pc = "cleanup" => req[r].on \in spoilt'.rows
  PROVE  IInv'
  <1>1. PICK d : d = req[r].on
    OBVIOUS
  <1>2. /\ d \in Req
        /\ \A e \in Req \ {d} : row'[e] = row[e]
        /\ row'[d].st = "active" /\ row'[d].kind = KindOfOp[req[r].op]
        /\ row'[d].images = (row[d].images \ req[r].old) \union FilesOf(r)
    BY <1>1, WrittenTyped
  <1>3. /\ Request(r) /\ Active(r) /\ Replaced(r)
        /\ \A f \in FilesOf(r) : f[1] = r
        /\ FilesOf(r) \subseteq store
    BY DEF IInv, Active, Request, FilesOf
  <1>4. \A e \in Req : \A f \in row[e].images : f[1] \in Req /\ f[1] # r /\ Settled(f[1])
    <2>1. \A e \in Req : \A f \in row[e].images : f[1] \in Req
      BY Typed DEF IInv, RowRecord, File
    <2>2. \A e \in Req : \A f \in row[e].images : Settled(f[1])
      BY DEF IInv, Row, Settled
    <2>. QED BY <1>3, <2>1, <2>2 DEF Active, Settled
  <1>5. \A q \in Req : Settled(q) => Settled(q)'
    BY DEF Settled
  <1>6. \A q \in Req \ {r} : req[q].pc = "commit" => req[q].on # d
    BY <1>1 DEF IInv, WritersApart
  <1>7. ASSUME NEW q \in Req PROVE Request(q)'
    <2>1. CASE q = r
      BY <2>1 DEF Settled, Request, Active
    <2>2. CASE q # r
      <3>1. /\ req'[q] = req[q] /\ FilesOf(q)' = FilesOf(q) /\ Request(q)
            /\ (Active(q)' <=> Active(q))
        BY <2>2 DEF IInv, FilesOf, Active
      <3>2. ASSUME Active(q), req[q].op = "replace"
            PROVE  row'[req[q].on].kind = "listing" /\ row'[req[q].on].st # "none"
        <4>1. req[q].on \in Req /\ row[req[q].on].kind = "listing" /\ row[req[q].on].st # "none"
          BY <3>1, <3>2 DEF Request
        <4>2. CASE req[q].on # d
          BY <1>2, <4>1, <4>2
        <4>3. CASE req[q].on = d
          <5>1. req[r].op = "replace"
            BY <1>1, <1>3, <4>1, <4>3 DEF IInv, Row, Settled, Request, Active
          <5>. QED BY <1>2, <4>3, <5>1 DEF KindOfOp
        <4>. QED BY <4>2, <4>3
      <3>3. req[q].pc = "commit" => req[q].on \in Req /\ row'[req[q].on] = row[req[q].on]
        BY <1>2, <1>6, <2>2, <3>1 DEF Request, Active
      <3>. QED BY <3>1, <3>2, <3>3 DEF Request
    <2>. QED BY <2>1, <2>2
  <1>8. ASSUME NEW q \in Req PROVE Replaced(q)'
    <2>1. /\ req'[q].pc \in {"commit", "purge"} => req'[q].old = req[q].old
          /\ req'[q].pc \in {"commit", "purge"} => req[q].pc \in {"commit", "purge"}
          /\ req'[q].pc = "purge" /\ q # r => req[q].pc = "purge"
      BY DEF Settled
    <2>2. /\ \A f \in req[q].old : f[1] \in Req
          /\ Replaced(q)
      BY Typed DEF IInv, Record, File
    <2>3. req'[q].pc \in {"commit", "purge"} => \A f \in req'[q].old : Settled(f[1])'
      BY <1>5, <2>1, <2>2 DEF Replaced
    <2>4. ASSUME req'[q].pc = "purge", NEW e \in Req \ spoilt'.rows, NEW f \in row'[e].images,
                 f \in req'[q].old
          PROVE  FALSE
      <3>1. f \in req[q].old /\ Settled(f[1]) /\ e \notin spoilt.rows
        BY <2>1, <2>2, <2>4 DEF Replaced
      <3>2. f \notin FilesOf(r)
        BY <1>3, <3>1 DEF Settled, Active
      <3>3. f \in row[e].images
        BY <1>2, <2>4, <3>2
      <3>4. q = r
        BY <2>1, <2>2, <2>4, <3>1, <3>3 DEF Replaced
      <3>5. e # d
        BY <1>2, <2>4, <3>1, <3>2, <3>4
      <3>6. f \in row[d].images
        BY <1>1, <1>3, <3>1, <3>4 DEF Request
      <3>. QED BY <1>2, <3>3, <3>5, <3>6 DEF IInv, RowsApart
    <2>. QED BY <2>3, <2>4 DEF Replaced
  <1>9. ASSUME NEW e \in Req PROVE Row(e)'
    <2>1. Row(e)
      BY DEF IInv
    <2>2. CASE e = d
      <3>1. Settled(d)'
        BY <1>1, <1>3, <1>5, <2>1, <2>2 DEF Request, Row
      <3>2. ASSUME NEW f \in row'[d].images
            PROVE  (\/ req[f[1]].pc \in {"purge", "done"}
                    \/ req[f[1]].pc = "cleanup" /\ d \in spoilt.rows)'
        <4>1. CASE f \in FilesOf(r)
          BY <1>1, <1>3, <4>1 DEF Settled
        <4>2. CASE f \in row[d].images
          BY <1>4, <2>1, <2>2, <4>2 DEF Row
        <4>. QED BY <1>2, <3>2, <4>1, <4>2
      <3>. QED BY <1>2, <2>2, <3>1, <3>2 DEF Row
    <2>3. CASE e # d
      BY <1>2, <1>4, <1>5, <2>1, <2>3 DEF Row
    <2>. QED BY <2>2, <2>3
  <1>10. WritersApart'
    BY DEF IInv, WritersApart, Settled
  <1>11. RowsApart'
    <2>1. SUFFICES ASSUME NEW a \in Req, NEW b \in Req, a # b, NEW f,
                          f \in row'[a].images, f \in row'[b].images
                   PROVE  FALSE
      BY DEF RowsApart
    <2>2. row[a].images \intersect row[b].images = {}
      BY <2>1 DEF IInv, RowsApart
    <2>. QED BY <1>2, <1>3, <1>4, <2>1, <2>2
  <1>12. LinksAgree'
    <2>1. SUFFICES ASSUME NEW l \in link
                   PROVE  l.file \in row'[l.doc].images /\ row'[l.doc].kind # "listing"
      BY DEF LinksAgree
    <2>2. l.doc \in Req /\ l.file \in row[l.doc].images /\ row[l.doc].kind # "listing"
      BY Typed DEF IInv, LinksAgree, Links
    <2>3. l.doc # d
      BY <1>1, <1>3, <2>2 DEF IInv, Row, Settled, Request, Active
    <2>. QED BY <1>2, <2>2, <2>3
  <1>. QED BY <1>7, <1>8, <1>9, <1>10, <1>11, <1>12 DEF IInv

LEMMA CommitInv == ASSUME IInv, NEW r \in Req, Commit(r) PROVE IInv'
  <1>1. /\ req[r].pc = "commit" /\ row' = Written(r) /\ TypeOK
        /\ UNCHANGED <<provider, store, link, views, faults, spoilt>>
    BY DEF Commit, IInv
  <1>2. row' \in [Req -> RowRecord]
    BY <1>1, WrittenTyped
  <1>3. req[r].known \subseteq FilesOf(r)
    BY DEF IInv, Request
  <1>4. CASE req[r].old = {}
    <2>1. /\ req' \in [Req -> Record] /\ \A q \in Req \ {r} : req'[q] = req[q]
          /\ req'[r].pc = "done" /\ req'[r].known = {}
      BY <1>1, <1>4, FinishIs DEF Commit
    <2>2. TypeOK'
      BY <1>1, <1>2, <2>1 DEF TypeOK, Record, RowRecord
    <2>. QED BY <1>1, <2>1, <2>2, WrittenInv DEF Settled
  <1>5. CASE req[r].old # {}
    <2>1. Goto(r, "purge")
      BY <1>5 DEF Commit
    <2>2. /\ req' \in [Req -> Record] /\ \A q \in Req \ {r} : req'[q] = req[q]
          /\ req'[r].pc = "purge" /\ req'[r].known = req[r].known /\ req'[r].old = req[r].old
          /\ FilesOf(r)' = FilesOf(r)
      BY <1>1, <2>1, GotoIs, GotoTyped
    <2>3. TypeOK'
      BY <1>1, <1>2, <2>2 DEF TypeOK, Record, RowRecord
    <2>. QED BY <1>1, <1>3, <2>2, <2>3, WrittenInv DEF Settled
  <1>. QED BY <1>4, <1>5

LEMMA LoseCommitInv == ASSUME IInv, NEW r \in Req, LoseCommit(r) PROVE IInv'
  <1>1. /\ req[r].pc = "commit" /\ row' = Written(r) /\ TypeOK /\ Fault /\ Goto(r, "cleanup")
        /\ spoilt' = [files |-> spoilt.files \union req[r].old,
                      rows |-> spoilt.rows \union {req[r].on}]
        /\ UNCHANGED <<provider, store, link, views>>
    BY DEF LoseCommit, IInv
  <1>2. /\ row' \in [Req -> RowRecord] /\ req[r].on \in Req /\ req[r].old \in SUBSET File
        /\ spoilt.files \in SUBSET File /\ spoilt.rows \in SUBSET Req
    BY <1>1, WrittenTyped, Typed DEF Record
  <1>3. /\ req' \in [Req -> Record] /\ \A q \in Req \ {r} : req'[q] = req[q]
        /\ req'[r].pc = "cleanup" /\ req'[r].known = req[r].known
        /\ FilesOf(r)' = FilesOf(r)
    BY <1>1, GotoIs, GotoTyped
  <1>4. /\ spoilt' \in [files : SUBSET File, rows : SUBSET Req]
        /\ spoilt.rows \subseteq spoilt'.rows /\ req[r].on \in spoilt'.rows
    BY <1>1, <1>2
  <1>5. TypeOK'
    BY <1>1, <1>2, <1>3, <1>4, FaultTyped DEF TypeOK, Record, RowRecord
  <1>6. req[r].known \subseteq FilesOf(r)
    BY DEF IInv, Request
  <1>. QED BY <1>1, <1>3, <1>4, <1>5, <1>6, WrittenInv DEF Settled

-----------------------------------------------------------------------------
(* Deletion                                                                *)

\* A request ends, and files that no active request knows are deleted.
LEMMA EndInv ==
  ASSUME IInv, NEW r \in Req, req[r].pc \in {"cleanup", "purge"}, Finish(r),
         NEW files \in SUBSET File, NEW left \in SUBSET files, Delete(files, left),
         \A f \in files : f[1] \in Req /\ Settled(f[1]),
         UNCHANGED <<provider, row, link, views>>
  PROVE  IInv'
  <1>1. TypeOK
    BY DEF IInv
  <1>2. /\ req' \in [Req -> Record] /\ \A q \in Req \ {r} : req'[q] = req[q]
        /\ req'[r].pc = "done" /\ req'[r].known = {}
    BY <1>1, FinishIs
  <1>3. /\ store' = store \ (files \ left) /\ store' \subseteq store
        /\ spoilt' \in [files : SUBSET File, rows : SUBSET Req]
        /\ spoilt'.rows = spoilt.rows /\ faults' \in 0..MaxFaults
    BY <1>1, DeleteTyped
  <1>4. TypeOK'
    BY <1>1, <1>2, <1>3 DEF TypeOK, Record
  <1>5. Request(r)' /\ Replaced(r)'
    BY <1>2 DEF Request, Active, Replaced
  <1>6. ASSUME NEW q \in Req \ {r}, Active(q) PROVE req[q].known \subseteq store'
    <2>1. req[q].known \subseteq store /\ \A f \in req[q].known : f[1] = q
      BY <1>6 DEF IInv, Request, FilesOf
    <2>. QED BY <1>3, <1>6, <2>1 DEF Active, Settled
  <1>. QED BY <1>2, <1>3, <1>4, <1>5, <1>6, OneRequest

LEMMA CleanupInv == ASSUME IInv, NEW r \in Req, Cleanup(r) PROVE IInv'
  <1>1. /\ req[r].pc = "cleanup" /\ Finish(r)
        /\ UNCHANGED <<provider, row, link, views>>
    BY DEF Cleanup, data
  <1>2. PICK left \in SUBSET req[r].known : Delete(req[r].known, left)
    BY DEF Cleanup, Named
  <1>3. req[r].known \in SUBSET File /\ \A f \in req[r].known : f[1] = r
    BY Typed DEF IInv, Record, Request, FilesOf
  <1>. QED BY <1>1, <1>2, <1>3, EndInv DEF Settled

LEMMA PurgeInv == ASSUME IInv, NEW r \in Req, Purge(r) PROVE IInv'
  <1>1. /\ req[r].pc = "purge" /\ Finish(r)
        /\ UNCHANGED <<provider, row, link, views>>
    BY DEF Purge, data
  <1>2. PICK left \in SUBSET req[r].old : Delete(req[r].old, left)
    BY DEF Purge
  <1>3. req[r].old \in SUBSET File /\ \A f \in req[r].old : f[1] \in Req /\ Settled(f[1])
    BY <1>1, Typed DEF IInv, Record, File, Replaced
  <1>. QED BY <1>1, <1>2, <1>3, EndInv

-----------------------------------------------------------------------------
(* Reviews, crashes and links                                              *)

LEMMA CloseInv == ASSUME IInv, NEW d \in Req, Close(d) PROVE IInv'
  <1>1. /\ row[d].st = "active" /\ row' = [row EXCEPT ![d].st = "closed"]
        /\ UNCHANGED <<provider, req, store, link, views, faults, spoilt>>
        /\ row \in [Req -> RowRecord] /\ row[d] \in RowRecord
    BY Typed DEF Close, IInv
  <1>2. [row[d] EXCEPT !.st = "closed"] \in RowRecord
    BY <1>1 DEF RowRecord
  <1>3. /\ row' \in [Req -> RowRecord] /\ \A e \in Req \ {d} : row'[e] = row[e]
        /\ row'[d].st = "closed" /\ row'[d].kind = row[d].kind /\ row'[d].images = row[d].images
    BY <1>1, <1>2 DEF RowRecord
  <1>4. \A e \in Req : /\ row'[e].kind = row[e].kind /\ row'[e].images = row[e].images
                       /\ row'[e].st = "none" <=> row[e].st = "none"
    BY <1>1, <1>3
  <1>5. TypeOK'
    BY <1>1, <1>3 DEF IInv, TypeOK, RowRecord
  <1>6. \A r \in Req : Request(r)' /\ Replaced(r)' /\ Row(r)'
    BY <1>1, <1>4 DEF IInv, Request, Replaced, Row, Active, Settled, FilesOf
  <1>7. WritersApart' /\ RowsApart'
    BY <1>1, <1>4 DEF IInv, WritersApart, RowsApart
  <1>8. LinksAgree'
    <2>1. \A l \in link : l.doc \in Req
      BY Typed DEF IInv, Links
    <2>. QED BY <1>1, <1>4, <2>1 DEF IInv, LinksAgree
  <1>. QED BY <1>5, <1>6, <1>7, <1>8 DEF IInv

LEMMA CrashInv == ASSUME IInv, Crash PROVE IInv'
  <1>1. /\ Fault /\ UNCHANGED <<provider, row, link, views, store>> /\ TypeOK
        /\ req' = [r \in Req |-> IF req[r].pc = "idle" THEN Idle ELSE [Idle EXCEPT !.pc = "done"]]
        /\ spoilt' = [spoilt EXCEPT !.files = spoilt.files \union (store \ Shown)]
    BY DEF Crash, data, IInv
  <1>2. req' \in [Req -> Record]
    BY <1>1, DoneTyped
  <1>3. /\ spoilt' \in [files : SUBSET File, rows : SUBSET Req] /\ spoilt'.rows = spoilt.rows
    BY <1>1 DEF TypeOK
  <1>4. TypeOK'
    BY <1>1, <1>2, <1>3, FaultTyped DEF TypeOK, Record
  <1>5. \A r \in Req : /\ req'[r].pc \in {"idle", "done"} /\ req'[r].known = {}
                       /\ req[r].pc # "idle" => req'[r].pc = "done"
    BY <1>1 DEF Idle
  <1>6. ASSUME NEW r \in Req PROVE Request(r)' /\ Replaced(r)' /\ Row(r)'
    <2>1. Request(r)' /\ Replaced(r)'
      BY <1>5 DEF Request, Replaced, Active
    <2>2. Row(r) /\ \A f \in row[r].images : f[1] \in Req
      BY Typed DEF IInv, RowRecord, File
    <2>. QED BY <1>1, <1>5, <2>1, <2>2 DEF Row, Settled
  <1>7. WritersApart' /\ RowsApart' /\ LinksAgree'
    BY <1>1, <1>5 DEF IInv, WritersApart, RowsApart, LinksAgree
  <1>. QED BY <1>4, <1>6, <1>7 DEF IInv

\* Steps that change only links, audited views and faults.
LEMMA LinkInv ==
  ASSUME IInv, UNCHANGED <<provider, req, row, store, spoilt>>, TypeOK', LinksAgree'
  PROVE  IInv'
  BY DEF IInv, Request, Replaced, Row, Active, Settled, FilesOf, WritersApart, RowsApart

LEMMA SignLinksInv ==
  ASSUME IInv, NEW d \in Req, NEW actor \in {"user", "admin"}, row[d].kind # "listing",
         SignLinks(d, actor)
  PROVE  IInv'
  <1>1. PICK l \in Signed(d, actor) : link' = link \union {l}
    BY DEF SignLinks
  <1>2. /\ UNCHANGED <<provider, req, row, store, views, faults, spoilt>>
        /\ row[d].images \subseteq File
    BY Typed DEF SignLinks, IInv, RowRecord
  <1>3. l.doc = d /\ l.file \in row[d].images /\ l \in Links
    BY <1>1, <1>2 DEF Signed, Links
  <1>4. TypeOK' /\ LinksAgree'
    BY <1>1, <1>2, <1>3 DEF IInv, TypeOK, LinksAgree
  <1>. QED BY <1>2, <1>4, LinkInv

LEMMA FetchInv == ASSUME IInv, NEW l \in link, FetchPrivateMedia(l) PROVE IInv'
  <1>1. UNCHANGED <<provider, req, row, store, link, spoilt>> /\ l.doc \in Req
    BY Typed DEF FetchPrivateMedia, IInv, Links
  <1>2. faults' \in 0..MaxFaults
    BY FaultTyped DEF FetchPrivateMedia, IInv, TypeOK
  <1>3. views' \in [audited : SUBSET Req, served : SUBSET Req]
    <2>1. PICK admins : admins = IF l.actor = "admin" THEN {l.doc} ELSE {}
      OBVIOUS
    <2>2. PICK found : found = IF Found(l) THEN admins ELSE {}
      OBVIOUS
    <2>3. admins \in SUBSET Req /\ found \in SUBSET Req
      BY <1>1, <2>1, <2>2
    <2>4. \/ views' = [audited |-> views.audited \union admins,
                       served |-> views.served \union found]
          \/ views' = views
      BY <2>1, <2>2 DEF FetchPrivateMedia
    <2>5. views.audited \in SUBSET Req /\ views.served \in SUBSET Req
          /\ views \in [audited : SUBSET Req, served : SUBSET Req]
      BY DEF IInv, TypeOK
    <2>. QED BY <2>3, <2>4, <2>5
  <1>4. TypeOK' /\ LinksAgree'
    BY <1>1, <1>2, <1>3 DEF IInv, TypeOK, LinksAgree
  <1>. QED BY <1>1, <1>4, LinkInv

LEMMA ExpireInv == ASSUME IInv, NEW l \in link, Expire(l) PROVE IInv'
  <1>1. link' = link \ {l} /\ UNCHANGED <<provider, req, row, store, views, faults, spoilt>>
    BY DEF Expire
  <1>2. TypeOK' /\ LinksAgree'
    BY <1>1 DEF IInv, TypeOK, LinksAgree
  <1>. QED BY <1>1, <1>2, LinkInv

-----------------------------------------------------------------------------
(* Theorems                                                                *)

LEMMA InitInv == Init => IInv
  <1>1. SUFFICES ASSUME Init PROVE IInv
    OBVIOUS
  <1>2. TypeOK
    <2>1. req \in [Req -> Record] /\ row \in [Req -> RowRecord] /\ faults \in 0..MaxFaults
      BY <1>1, DoneTyped, UploadBounds DEF Init, NoRow, RowRecord, Kind
    <2>. QED BY <1>1, <2>1 DEF Init, TypeOK, Record, RowRecord
  <1>3. \A r \in Req : Request(r) /\ Replaced(r) /\ Row(r)
    BY <1>1 DEF Init, Request, Replaced, Row, Active, Idle, NoRow
  <1>4. WritersApart /\ RowsApart /\ LinksAgree
    BY <1>1 DEF Init, WritersApart, RowsApart, LinksAgree, Idle, NoRow
  <1>. QED BY <1>2, <1>3, <1>4 DEF IInv

LEMMA NextInv == IInv /\ [Next]_vars => IInv'
  <1>1. SUFFICES ASSUME IInv, [Next]_vars PROVE IInv'
    OBVIOUS
  <1>2. CASE UNCHANGED vars
    BY <1>1, <1>2 DEF vars, data, IInv, TypeOK, Request, Replaced, Row, Active, Settled, FilesOf,
                      WritersApart, RowsApart, LinksAgree
  <1>3. ASSUME NEW r \in Req, NEW op \in Op, NEW d \in Req, NEW n \in 0..MaxFiles,
               NEW fine \in BOOLEAN, Receive(r, op, d, n, fine)
        PROVE  IInv'
    BY <1>1, <1>3, ReceiveInv
  <1>4. ASSUME NEW r \in Req, Step(r) \/ LoseCommit(r) PROVE IInv'
    BY <1>1, <1>4, ValidateInv, StoreFileInv, WriteInv, CommitInv, RollBackInv, CleanupInv,
       PurgeInv, LoseCommitInv DEF Step
  <1>5. ASSUME NEW d \in Req, NEW actor \in {"user", "admin"},
               SignKycLinks(d, actor) \/ SignBusinessLinks(d, actor)
        PROVE  IInv'
    BY <1>1, <1>5, SignLinksInv DEF SignKycLinks, SignBusinessLinks
  <1>6. ASSUME NEW l \in link, FetchPrivateMedia(l) \/ Expire(l) PROVE IInv'
    BY <1>1, <1>6, FetchInv, ExpireInv
  <1>. QED BY <1>1, <1>2, <1>3, <1>4, <1>5, <1>6, CloseInv, CrashInv DEF Next

\* The variables hold what they should, and the parts of the invariant hold.
THEOREM Invariant == Spec => []IInv
  <1>1. Init => IInv
    BY InitInv
  <1>2. IInv /\ [Next]_vars => IInv'
    BY NextInv
  <1>. QED BY <1>1, <1>2, PTL DEF Spec

-----------------------------------------------------------------------------
(* What is shown exists                                                    *)

RowsShown == \A d \in Req \ spoilt.rows : row[d].images \subseteq store

LEMMA ShownMeans == IInv /\ RowsShown => NothingMissing
  BY DEF IInv, LinksAgree, RowsShown, NothingMissing

\* Steps that take no file away and write no row.
LEMMA ShownGrows ==
  ASSUME RowsShown, row' = row, store \subseteq store', spoilt'.rows = spoilt.rows
  PROVE  RowsShown'
  BY DEF RowsShown

LEMMA ShownWritten ==
  ASSUME IInv, RowsShown, NEW r \in Req, req[r].pc = "commit", row' = Written(r),
         store' = store, spoilt.rows \subseteq spoilt'.rows
  PROVE  RowsShown'
  <1>1. FilesOf(r) \subseteq store
    BY DEF IInv, Request, Active
  <1>2. ASSUME NEW d \in Req \ spoilt'.rows PROVE row'[d].images \subseteq store
    BY <1>1, <1>2, WrittenTyped DEF RowsShown
  <1>. QED BY <1>2 DEF RowsShown

\* Deletions spare what rows show, but for the rows of a lost COMMIT.
LEMMA ShownSpared ==
  ASSUME IInv, RowsShown, NEW files \in SUBSET File, NEW left \in SUBSET files,
         Delete(files, left), row' = row,
         \A d \in Req \ spoilt.rows : row[d].images \intersect files = {}
  PROVE  RowsShown'
  <1>1. store' = store \ (files \ left) /\ spoilt'.rows = spoilt.rows
    BY DeleteTyped DEF IInv
  <1>. QED BY <1>1 DEF RowsShown

LEMMA ShownStep == IInv /\ RowsShown /\ [Next]_vars => RowsShown'
  <1>1. SUFFICES ASSUME IInv, RowsShown, [Next]_vars PROVE RowsShown'
    OBVIOUS
  <1>2. CASE UNCHANGED vars
    BY <1>1, <1>2, ShownGrows DEF vars, data
  <1>3. ASSUME NEW r \in Req, NEW op \in Op, NEW d \in Req, NEW n \in 0..MaxFiles,
               NEW fine \in BOOLEAN, Receive(r, op, d, n, fine)
        PROVE  RowsShown'
    BY <1>1, <1>3, ShownGrows DEF Receive, data
  <1>4. ASSUME NEW r \in Req, Validate(r) \/ Write(r) \/ RollBack(r) PROVE RowsShown'
    BY <1>1, <1>4, ShownGrows DEF Validate, Write, RollBack, data
  <1>5. ASSUME NEW r \in Req, StoreFile(r) PROVE RowsShown'
    <2>1. row' = row /\ store \subseteq store'
      BY <1>5 DEF StoreFile, data
    <2>2. PICK f : spoilt' = spoilt \/ spoilt' = [spoilt EXCEPT !.files = spoilt.files \union {f}]
      BY <1>5 DEF StoreFile
    <2>3. spoilt'.rows = spoilt.rows
      BY <1>1, <2>2 DEF IInv, TypeOK
    <2>. QED BY <1>1, <2>1, <2>3, ShownGrows
  <1>6. ASSUME NEW r \in Req, Commit(r) PROVE RowsShown'
    BY <1>1, <1>6, ShownWritten DEF Commit
  <1>7. ASSUME NEW r \in Req, LoseCommit(r) PROVE RowsShown'
    BY <1>1, <1>7, ShownWritten DEF LoseCommit
  <1>8. ASSUME NEW r \in Req, Cleanup(r) PROVE RowsShown'
    <2>1. req[r].pc = "cleanup" /\ row' = row
      BY <1>8 DEF Cleanup, data
    <2>2. PICK left \in SUBSET req[r].known : Delete(req[r].known, left)
      BY <1>8 DEF Cleanup, Named
    <2>3. req[r].known \in SUBSET File /\ \A f \in req[r].known : f[1] = r
      BY <1>1, Typed DEF IInv, Record, Request, FilesOf
    <2>4. \A d \in Req \ spoilt.rows : row[d].images \intersect req[r].known = {}
      BY <1>1, <2>1, <2>3 DEF IInv, Row
    <2>. QED BY <1>1, <2>1, <2>2, <2>3, <2>4, ShownSpared
  <1>9. ASSUME NEW r \in Req, Purge(r) PROVE RowsShown'
    <2>1. req[r].pc = "purge" /\ row' = row
      BY <1>9 DEF Purge, data
    <2>2. PICK left \in SUBSET req[r].old : Delete(req[r].old, left)
      BY <1>9 DEF Purge
    <2>3. /\ req[r].old \in SUBSET File
          /\ \A d \in Req \ spoilt.rows : row[d].images \intersect req[r].old = {}
      BY <1>1, <2>1, Typed DEF IInv, Record, Replaced
    <2>. QED BY <1>1, <2>1, <2>2, <2>3, ShownSpared
  <1>10. ASSUME NEW d \in Req, Close(d) PROVE RowsShown'
    <2>1. /\ row' = [row EXCEPT ![d].st = "closed"] /\ store' = store /\ spoilt' = spoilt
          /\ row \in [Req -> RowRecord]
      BY <1>1, <1>10, Typed DEF Close, IInv
    <2>2. \A e \in Req : row'[e].images = row[e].images
      BY <2>1 DEF RowRecord
    <2>. QED BY <1>1, <2>1, <2>2 DEF RowsShown
  <1>11. CASE Crash
    <2>1. /\ row' = row /\ store' = store
          /\ spoilt' = [spoilt EXCEPT !.files = spoilt.files \union (store \ Shown)]
      BY <1>11 DEF Crash, data
    <2>2. spoilt'.rows = spoilt.rows
      BY <1>1, <2>1 DEF IInv, TypeOK
    <2>. QED BY <1>1, <2>1, <2>2, ShownGrows
  <1>12. ASSUME NEW d \in Req, NEW actor \in {"user", "admin"},
                SignKycLinks(d, actor) \/ SignBusinessLinks(d, actor)
         PROVE  RowsShown'
    BY <1>1, <1>12, ShownGrows DEF SignKycLinks, SignBusinessLinks, SignLinks
  <1>13. ASSUME NEW l \in link, FetchPrivateMedia(l) \/ Expire(l) PROVE RowsShown'
    BY <1>1, <1>13, ShownGrows DEF FetchPrivateMedia, Expire
  <1>. QED BY <1>1, <1>2, <1>3, <1>4, <1>5, <1>6, <1>7, <1>8, <1>9, <1>10, <1>11, <1>12, <1>13
           DEF Next, Step

\* Whatever fails and in whatever order requests store, replace and delete, the
\* images of a row exist, and so do the files that unexpired links name; a row
\* whose COMMIT was taken for a failure is excepted.
THEOREM ImagesExist == Spec => []NothingMissing
  <1>1. Init => RowsShown
    BY DEF Init, RowsShown, NoRow
  <1>2. IInv /\ RowsShown /\ [Next]_vars => RowsShown'
    BY ShownStep
  <1>3. IInv /\ RowsShown => NothingMissing
    BY ShownMeans
  <1>. QED BY <1>1, <1>2, <1>3, Invariant, PTL DEF Spec

-----------------------------------------------------------------------------
(* What exists is shown, or will be seen to                                *)

\* The files that request r will show or delete.
Held(r) == IF req[r].pc = "purge" THEN req[r].old ELSE req[r].known
AtWork(r) == req[r].pc \notin {"idle", "done"}
Accounted(f) ==
  \/ \E d \in Req : f \in row[d].images
  \/ f \in spoilt.files
  \/ \E r \in Req : AtWork(r) /\ f \in Held(r)

LEMMA LeftMeans == NothingLeft <=> \A f \in store : Accounted(f)
  BY DEF Shown, NothingLeft, Accounted, Held, AtWork

LEMMA LeftMeansNext == NothingLeft' <=> \A f \in store' : Accounted(f)'
  BY DEF Shown, NothingLeft, Accounted, Held, AtWork

\* Steps that show what they showed and add at most accounted files.
LEMMA LeftGrows ==
  ASSUME NothingLeft,
         \A d \in Req : row'[d].images = row[d].images,
         spoilt.files \subseteq spoilt'.files,
         \A r \in Req : AtWork(r) => AtWork(r)' /\ Held(r) \subseteq Held(r)',
         \A f \in store' \ store : Accounted(f)'
  PROVE  NothingLeft'
  <1>1. ASSUME NEW f \in store' PROVE Accounted(f)'
    <2>1. CASE f \in store
      <3>1. Accounted(f)
        BY <2>1, LeftMeans
      <3>. QED BY <3>1 DEF Accounted
    <2>. QED BY <1>1, <2>1
  <1>. QED BY <1>1, LeftMeansNext

LEMMA LeftWritten ==
  ASSUME IInv, NothingLeft, NEW r \in Req, req[r].pc = "commit", row' = Written(r),
         store' = store, \A q \in Req \ {r} : req'[q] = req[q],
         spoilt.files \subseteq spoilt'.files,
         \/ req[r].old = {}
         \/ req'[r].pc = "purge" /\ req'[r].old = req[r].old
         \/ req[r].old \subseteq spoilt'.files
  PROVE  NothingLeft'
  <1>1. PICK d : d = req[r].on
    OBVIOUS
  <1>2. /\ d \in Req
        /\ \A e \in Req \ {d} : row'[e] = row[e]
        /\ row'[d].images = (row[d].images \ req[r].old) \union FilesOf(r)
    BY <1>1, WrittenTyped
  <1>3. req[r].known \subseteq FilesOf(r)
    BY DEF IInv, Request
  <1>4. ASSUME NEW f \in store PROVE Accounted(f)'
    <2>1. Accounted(f)
      BY LeftMeans
    <2>2. ASSUME NEW e \in Req, f \in row[e].images PROVE Accounted(f)'
      <3>1. f \in req[r].old => Accounted(f)'
        BY DEF Accounted, AtWork, Held
      <3>. QED BY <1>2, <2>2, <3>1 DEF Accounted
    <2>3. ASSUME NEW q \in Req, AtWork(q), f \in Held(q) PROVE Accounted(f)'
      <3>1. CASE q = r
        BY <1>2, <1>3, <2>3, <3>1 DEF Accounted, Held
      <3>2. CASE q # r
        BY <2>3, <3>2 DEF Accounted, AtWork, Held
      <3>. QED BY <3>1, <3>2
    <2>4. f \in spoilt.files => Accounted(f)'
      BY DEF Accounted
    <2>. QED BY <2>1, <2>2, <2>3, <2>4 DEF Accounted
  <1>. QED BY <1>4, LeftMeansNext

LEMMA LeftDeleted ==
  ASSUME IInv, NothingLeft, NEW r \in Req, Held(r) \in SUBSET File,
         NEW left \in SUBSET Held(r), Delete(Held(r), left), Finish(r), row' = row
  PROVE  NothingLeft'
  <1>1. /\ store' = store \ (Held(r) \ left)
        /\ spoilt'.files = spoilt.files \union (left \intersect store)
        /\ \A q \in Req \ {r} : req'[q] = req[q]
    BY DeleteTyped, FinishIs DEF IInv
  <1>2. ASSUME NEW f \in store' PROVE Accounted(f)'
    <2>1. f \in store /\ Accounted(f)
      BY <1>1, LeftMeans
    <2>2. CASE f \in Held(r)
      BY <1>1, <2>1, <2>2 DEF Accounted
    <2>3. CASE f \notin Held(r)
      <3>1. ASSUME NEW q \in Req, AtWork(q), f \in Held(q) PROVE Accounted(f)'
        <4>1. q # r
          BY <2>3, <3>1
        <4>. QED BY <1>1, <3>1, <4>1 DEF Accounted, AtWork, Held
      <3>. QED BY <1>1, <2>1, <3>1 DEF Accounted
    <2>. QED BY <2>2, <2>3
  <1>. QED BY <1>2, LeftMeansNext

\* One request keeps what it holds.
LEMMA LeftKept ==
  ASSUME NothingLeft, NEW r \in Req, row' = row, spoilt.files \subseteq spoilt'.files,
         \A q \in Req \ {r} : req'[q] = req[q],
         AtWork(r) => AtWork(r)' /\ Held(r) \subseteq Held(r)',
         \A f \in store' \ store : Accounted(f)'
  PROVE  NothingLeft'
  <1>1. \A q \in Req : AtWork(q) => AtWork(q)' /\ Held(q) \subseteq Held(q)'
    BY DEF AtWork, Held
  <1>. QED BY <1>1, LeftGrows

LEMMA LeftStep == IInv /\ NothingLeft /\ [Next]_vars => NothingLeft'
  <1>1. SUFFICES ASSUME IInv, NothingLeft, [Next]_vars PROVE NothingLeft'
    OBVIOUS
  <1>. DEFINE Same == row' = row /\ store' = store /\ spoilt' = spoilt /\ req' = req
  <1>2. CASE Same
    BY <1>1, <1>2, LeftGrows DEF AtWork, Held
  <1>3. ASSUME NEW r \in Req, NEW op \in Op, NEW d \in Req, NEW n \in 0..MaxFiles,
               NEW fine \in BOOLEAN, Receive(r, op, d, n, fine)
        PROVE  NothingLeft'
    <2>1. PICK files :
            /\ req' = [req EXCEPT ![r] =
                 [op |-> op, pc |-> "validate", on |-> d, n |-> n,
                  fine |-> fine, known |-> files, old |-> {}]]
            /\ store' = store \union files
      BY <1>3 DEF Receive
    <2>2. row' = row /\ spoilt' = spoilt /\ ~AtWork(r)
      BY <1>3 DEF Receive, data, AtWork
    <2>3. /\ \A q \in Req \ {r} : req'[q] = req[q]
          /\ req'[r].pc = "validate" /\ req'[r].known = files
      BY <1>1, <2>1, Typed DEF IInv
    <2>4. \A f \in store' \ store : Accounted(f)'
      BY <2>1, <2>3 DEF Accounted, AtWork, Held
    <2>. QED BY <1>1, <2>2, <2>3, <2>4, LeftKept
  <1>4. ASSUME NEW r \in Req, NEW pc \in {"store", "cleanup", "commit"}, Goto(r, pc),
               req[r].pc # "purge", row' = row, spoilt.files \subseteq spoilt'.files,
               \A f \in store' \ store : f \in spoilt'.files
        PROVE  NothingLeft'
    <2>1. \A q \in Req \ {r} : req'[q] = req[q]
      BY <1>1, <1>4, GotoIs DEF IInv
    <2>2. req'[r].pc = pc /\ req'[r].known = req[r].known
      BY <1>1, <1>4, GotoIs DEF IInv
    <2>3. AtWork(r)' /\ Held(r) \subseteq Held(r)'
      BY <1>4, <2>2 DEF AtWork, Held
    <2>. QED BY <1>1, <1>4, <2>1, <2>3, LeftKept DEF Accounted
  <1>5. ASSUME NEW r \in Req, Validate(r) \/ RollBack(r) PROVE NothingLeft'
    <2>1. row' = row /\ spoilt' = spoilt /\ store' = store /\ req[r].pc # "purge"
      BY <1>5 DEF Validate, RollBack, data
    <2>2. PICK pc \in {"store", "cleanup"} : Goto(r, pc)
      BY <1>5 DEF Validate, RollBack
    <2>. QED BY <1>4, <2>1, <2>2
  <1>6. ASSUME NEW r \in Req, Write(r) PROVE NothingLeft'
    <2>1. row' = row /\ spoilt' = spoilt /\ store' = store /\ req[r].pc = "store"
      BY <1>6 DEF Write, data
    <2>2. CASE Goto(r, "cleanup") \/ Goto(r, "commit")
      BY <1>4, <2>1, <2>2
    <2>3. CASE WriteReplacement(r) /\ ~Goto(r, "cleanup")
      <3>1. PICK old : req' = [req EXCEPT ![r] = [req[r] EXCEPT !.pc = "commit", !.old = old]]
        BY <2>3 DEF WriteReplacement
      <3>2. /\ \A q \in Req \ {r} : req'[q] = req[q]
            /\ req'[r].pc = "commit" /\ req'[r].known = req[r].known
        BY <1>1, <3>1, Typed DEF IInv, Record
      <3>3. AtWork(r)' /\ Held(r) \subseteq Held(r)'
        BY <2>1, <3>2 DEF AtWork, Held
      <3>. QED BY <1>1, <2>1, <3>2, <3>3, LeftKept
    <2>. QED BY <1>6, <2>2, <2>3 DEF Write, WriteListing, WriteSubmission
  <1>7. ASSUME NEW r \in Req, StoreFile(r) PROVE NothingLeft'
    <2>1. req[r].pc = "store" /\ row' = row
      BY <1>7 DEF StoreFile, data
    <2>2. PICK f \in FilesOf(r) \ req[r].known :
            \/ /\ req' = [req EXCEPT ![r].known = @ \union {f}]
               /\ store' = store \union {f}
               /\ UNCHANGED <<faults, spoilt>>
            \/ /\ Fault /\ Goto(r, "cleanup")
               /\ UNCHANGED <<store, spoilt>>
            \/ /\ Fault /\ Goto(r, "cleanup")
               /\ store' = store \union {f}
               /\ spoilt' = [spoilt EXCEPT !.files = @ \union {f}]
      BY <1>7 DEF StoreFile
    <2>3. CASE /\ req' = [req EXCEPT ![r].known = @ \union {f}]
               /\ store' = store \union {f} /\ UNCHANGED <<faults, spoilt>>
      <3>1. PICK known : known = req[r].known \union {f}
        OBVIOUS
      <3>2. req \in [Req -> Record] /\ req[r] \in Record
            /\ req' = [req EXCEPT ![r] = [req[r] EXCEPT !.known = known]]
        BY <1>1, <2>3, <3>1, Typed DEF IInv
      <3>3. /\ \A q \in Req \ {r} : req'[q] = req[q]
            /\ req'[r].pc = "store" /\ req'[r].known = known
        BY <2>1, <3>2 DEF Record
      <3>4. AtWork(r)' /\ Held(r) \subseteq Held(r)' /\ f \in Held(r)'
        BY <2>1, <3>1, <3>3 DEF AtWork, Held
      <3>5. \A g \in store' \ store : Accounted(g)'
        BY <2>3, <3>4 DEF Accounted
      <3>. QED BY <1>1, <2>1, <2>3, <3>3, <3>4, <3>5, LeftKept
    <2>4. CASE Goto(r, "cleanup") /\ UNCHANGED <<store, spoilt>>
      BY <1>4, <2>1, <2>4
    <2>5. CASE /\ Goto(r, "cleanup") /\ store' = store \union {f}
               /\ spoilt' = [spoilt EXCEPT !.files = @ \union {f}]
      <3>1. spoilt'.files = spoilt.files \union {f}
        BY <1>1, <2>5 DEF IInv, TypeOK
      <3>. QED BY <1>4, <2>1, <2>5, <3>1
    <2>. QED BY <2>2, <2>3, <2>4, <2>5
  <1>8. ASSUME NEW r \in Req, Commit(r) PROVE NothingLeft'
    <2>1. /\ req[r].pc = "commit" /\ row' = Written(r) /\ store' = store /\ spoilt' = spoilt
          /\ TypeOK
      BY <1>1, <1>8 DEF Commit, IInv
    <2>2. CASE req[r].old = {}
      BY <1>1, <1>8, <2>1, <2>2, FinishIs, LeftWritten DEF Commit
    <2>3. CASE req[r].old # {}
      <3>1. Goto(r, "purge")
        BY <1>8, <2>3 DEF Commit
      <3>2. /\ \A q \in Req \ {r} : req'[q] = req[q]
            /\ req'[r].pc = "purge" /\ req'[r].old = req[r].old
        BY <2>1, <3>1, GotoIs
      <3>. QED BY <1>1, <2>1, <3>2, LeftWritten
    <2>. QED BY <2>2, <2>3
  <1>9. ASSUME NEW r \in Req, LoseCommit(r) PROVE NothingLeft'
    <2>1. /\ req[r].pc = "commit" /\ row' = Written(r) /\ store' = store
          /\ spoilt'.files = spoilt.files \union req[r].old
          /\ TypeOK /\ Goto(r, "cleanup")
      BY <1>1, <1>9 DEF LoseCommit, IInv
    <2>2. \A q \in Req \ {r} : req'[q] = req[q]
      BY <2>1, GotoIs
    <2>. QED BY <1>1, <2>1, <2>2, LeftWritten
  <1>10. ASSUME NEW r \in Req, Cleanup(r) \/ Purge(r) PROVE NothingLeft'
    <2>1. PICK left \in SUBSET Held(r) : Delete(Held(r), left)
      BY <1>10 DEF Cleanup, Purge, Held, Named
    <2>2. Held(r) \in SUBSET File
      BY <1>1, Typed DEF IInv, Held, Record
    <2>3. Finish(r) /\ row' = row
      BY <1>10 DEF Cleanup, Purge, data
    <2>. QED BY <1>1, <2>1, <2>2, <2>3, LeftDeleted
  <1>11. ASSUME NEW d \in Req, Close(d) PROVE NothingLeft'
    <2>1. /\ row' = [row EXCEPT ![d].st = "closed"] /\ store' = store /\ spoilt' = spoilt
          /\ req' = req /\ row \in [Req -> RowRecord]
      BY <1>1, <1>11, Typed DEF Close, IInv
    <2>2. \A e \in Req : row'[e].images = row[e].images
      BY <2>1 DEF RowRecord
    <2>. QED BY <1>1, <2>1, <2>2, LeftGrows DEF AtWork, Held
  <1>12. CASE Crash
    <2>1. /\ row' = row /\ store' = store
          /\ spoilt' = [spoilt EXCEPT !.files = spoilt.files \union (store \ Shown)]
      BY <1>12 DEF Crash, data
    <2>2. spoilt'.files = spoilt.files \union (store \ Shown)
      BY <1>1, <2>1 DEF IInv, TypeOK
    <2>3. Shown' = Shown
      BY <2>1 DEF Shown
    <2>. QED BY <2>1, <2>2, <2>3 DEF NothingLeft
  <1>13. ASSUME NEW d \in Req, NEW actor \in {"user", "admin"},
                SignKycLinks(d, actor) \/ SignBusinessLinks(d, actor)
         PROVE  NothingLeft'
    BY <1>2, <1>13 DEF SignKycLinks, SignBusinessLinks, SignLinks
  <1>14. ASSUME NEW l \in link, FetchPrivateMedia(l) \/ Expire(l) PROVE NothingLeft'
    BY <1>2, <1>14 DEF FetchPrivateMedia, Expire
  <1>15. CASE UNCHANGED vars
    BY <1>2, <1>15 DEF vars, data
  <1>. QED BY <1>1, <1>3, <1>5, <1>6, <1>7, <1>8, <1>9, <1>10, <1>11, <1>12, <1>13, <1>14, <1>15
           DEF Next, Step

\* No refusal and no replacement leaves files behind: what is stored is shown,
\* or held by a request that will show or delete it, unless a fault left it.
THEOREM FilesAccounted == Spec => []NothingLeft
  <1>1. Init => NothingLeft
    BY DEF Init, NothingLeft
  <1>2. IInv /\ NothingLeft /\ [Next]_vars => NothingLeft'
    BY LeftStep
  <1>. QED BY <1>1, <1>2, Invariant, PTL DEF Spec

\* Every state is typed: links are for files that a row has shown, the faults within
\* their bound, and a request's files among those that were uploaded.
THEOREM TypeCorrect == Spec => []TypeOK
  <1>1. IInv => TypeOK
    BY DEF IInv
  <1>. QED BY <1>1, Invariant, PTL
=============================================================================
