------------------------------- MODULE Uploads -------------------------------
(***************************************************************************)
(* Images beside their rows.  A request with images is received by multer, *)
(* its files are validated and stored one by one, and then a transaction   *)
(* writes their URLs; an error anywhere deletes the files that the request *)
(* knows to be stored.  The images of a listing may be replaced, and the   *)
(* replaced files are deleted after the answer.  Files of KYC and business *)
(* submissions are private: they are fetched through signed links.         *)
(*                                                                         *)
(* One seller with listings, and one applicant for each kind of            *)
(* submission.  Files are stored on disk or by Cloudinary.                 *)
(***************************************************************************)
EXTENDS Naturals, FiniteSets

CONSTANTS Req,       \* requests with images
          MaxFiles,  \* bound on the files of a request (5, 3 and 1)
          MaxLinks,  \* bound on the signed links that have not expired
          MaxFaults, \* bound: stores, deletions, audits and COMMITs that fail, crashes
          None

ASSUME UploadBounds ==
  /\ MaxFiles \in Nat \ {0} /\ MaxLinks \in Nat /\ MaxFaults \in Nat
  /\ None \notin Req

VARIABLES
  provider,  \* UPLOAD_STORAGE_PROVIDER
  req,       \* what the process keeps of each request
  row,       \* listings and submissions, by the request that created them
  store,     \* the files that exist
  link,      \* signed links that have not expired
  views,     \* history: submissions whose files an admin's links were audited
             \* for, and served from
  faults,    \* bound: faults so far
  spoilt     \* history: files that a fault left behind, and rows whose COMMIT
             \* took effect although its answer was lost

vars == <<provider, req, row, store, link, views, faults, spoilt>>
data == <<row, link, views>>

Kind == {"listing", "kyc", "business"}
Op == {"create", "replace", "kyc", "business"}
KindOfOp == [create |-> "listing", replace |-> "listing", kyc |-> "kyc",
             business |-> "business"]

\* Names hold a random UUID, so a file belongs to one request for ever.
File == Req \X (1..MaxFiles)
FilesOf(r) == {<<r, i>> : i \in 1..req[r].n}

Idle ==
  [op |-> "create", pc |-> "idle", on |-> None, n |-> 0,
   fine |-> TRUE, known |-> {}, old |-> {}]
NoRow == [kind |-> "listing", st |-> "none", images |-> {}]

Shown == UNION {row[d].images : d \in Req}

Init ==
  /\ provider \in {"local", "cloudinary"}
  /\ req = [r \in Req |-> Idle]
  /\ row = [d \in Req |-> NoRow]
  /\ store = {} /\ link = {}
  /\ views = [audited |-> {}, served |-> {}]
  /\ faults = 0
  /\ spoilt = [files |-> {}, rows |-> {}]

Fault == faults < MaxFaults /\ faults' = faults + 1

Goto(r, pc) == req' = [req EXCEPT ![r].pc = pc]

Finish(r) == req' = [req EXCEPT ![r] = [Idle EXCEPT !.pc = "done"]]

-----------------------------------------------------------------------------
(* The request until its files are stored                                  *)

\* multer: the disk has the files before the controller runs, memoryStorage
\* keeps them in the request.
Receive(r, op, d, n, fine) ==
  /\ req[r].pc = "idle"
  /\ IF op = "replace" THEN row[d].kind = "listing" /\ row[d].st # "none" ELSE d = r
  /\ (op = "kyc" => n <= 1) /\ (n = 0 => fine)
  /\ LET files == IF provider = "local" THEN {<<r, i>> : i \in 1..n} ELSE {}
     IN  /\ req' = [req EXCEPT ![r] =
                      [op |-> op, pc |-> "validate", on |-> d, n |-> n,
                       fine |-> fine, known |-> files, old |-> {}]]
         /\ store' = store \union files
  /\ UNCHANGED <<provider, data, faults, spoilt>>

\* Types and magic bytes are those of images, and the required ones are there.
ListingImagesValid(r) == req[r].fine /\ (req[r].op = "create" => req[r].n > 0)
SelfieValid(r) == req[r].fine /\ req[r].n > 0
ShopImagesValid(r) == req[r].fine /\ req[r].n > 0

\* MUTANT: a request whose files are refused leaves them.
ValidateFirst(r) ==
  /\ req[r].pc = "validate"
  /\ LET valid == CASE req[r].op = "kyc" -> SelfieValid(r)
                    [] req[r].op = "business" -> ShopImagesValid(r)
                    [] OTHER -> ListingImagesValid(r)
     IN  IF valid THEN Goto(r, "store") ELSE Finish(r)
  /\ UNCHANGED <<provider, data, store, faults, spoilt>>

Validate(r) ==
  /\ req[r].pc = "validate"
  /\ LET valid == CASE req[r].op = "kyc" -> SelfieValid(r)
                    [] req[r].op = "business" -> ShopImagesValid(r)
                    [] OTHER -> ListingImagesValid(r)
     IN  Goto(r, IF valid THEN "store" ELSE "cleanup")
  /\ UNCHANGED <<provider, data, store, faults, spoilt>>

\* uploadFileToStorage, for one file after the other.  An upload that fails may
\* have been stored; the request does not know its public id then.
StoreFile(r) ==
  /\ req[r].pc = "store"
  /\ \E f \in FilesOf(r) \ req[r].known :
       /\ \A g \in FilesOf(r) \ req[r].known : f[2] <= g[2]
       /\ \/ /\ req' = [req EXCEPT ![r].known = @ \union {f}]
             /\ store' = store \union {f}
             /\ UNCHANGED <<faults, spoilt>>
          \/ /\ Fault /\ Goto(r, "cleanup")
             /\ UNCHANGED <<store, spoilt>>
          \/ /\ Fault /\ Goto(r, "cleanup")
             /\ store' = store \union {f}
             /\ spoilt' = [spoilt EXCEPT !.files = @ \union {f}]
  /\ UNCHANGED <<provider, data>>

-----------------------------------------------------------------------------
(* The transaction                                                         *)

\* Others whose transaction has written what r writes: r waits for them, for
\* the row of the listing or for the key of a pending submission.
Writers(r) ==
  {q \in Req \ {r} : /\ req[q].pc = "commit"
                     /\ KindOfOp[req[q].op] = KindOfOp[req[r].op]
                     /\ KindOfOp[req[r].op] = "listing" => req[q].on = req[r].on}

\* createSellerListing, with its images
WriteListing(r) == req[r].op = "create" /\ Goto(r, "commit")

\* submitKycForRole, submitJewellerBusinessVerification: refused while there is
\* a pending or an approved submission.
WriteSubmission(r) ==
  /\ req[r].op \in {"kyc", "business"}
  /\ Goto(r, IF \E d \in Req : row[d].kind = req[r].op /\ row[d].st = "active"
             THEN "cleanup" ELSE "commit")

\* updateSellerListing: the row is locked whatever the payload; without files
\* the images stay.
WriteReplacement(r) ==
  /\ req[r].op = "replace"
  /\ \/ /\ row[req[r].on].st = "active"
        /\ req' = [req EXCEPT ![r].pc = "commit",
                     ![r].old = IF req[r].n = 0 THEN {} ELSE row[req[r].on].images]
     \/ row[req[r].on].st # "active" /\ Goto(r, "cleanup")

Write(r) ==
  /\ req[r].pc = "store" /\ FilesOf(r) \subseteq req[r].known
  /\ Writers(r) = {}
  /\ WriteListing(r) \/ WriteSubmission(r) \/ WriteReplacement(r)
  /\ UNCHANGED <<provider, data, store, faults, spoilt>>

\* The row as the transaction of r leaves it.
Written(r) ==
  [row EXCEPT ![req[r].on] =
     [kind |-> KindOfOp[req[r].op], st |-> "active",
      images |-> (@.images \ req[r].old) \union FilesOf(r)]]

Commit(r) ==
  /\ req[r].pc = "commit"
  /\ row' = Written(r)
  /\ IF req[r].old = {} THEN Finish(r) ELSE Goto(r, "purge")
  /\ UNCHANGED <<provider, store, link, views, faults, spoilt>>

\* A statement fails, or COMMIT does.
RollBack(r) ==
  /\ req[r].pc = "commit"
  /\ Goto(r, "cleanup")
  /\ UNCHANGED <<provider, data, store, faults, spoilt>>

\* COMMIT takes effect and the connection breaks: withTransaction throws.
LoseCommit(r) ==
  /\ req[r].pc = "commit" /\ Fault
  /\ row' = Written(r)
  /\ spoilt' = [files |-> spoilt.files \union req[r].old,
                rows |-> spoilt.rows \union {req[r].on}]
  /\ Goto(r, "cleanup")
  /\ UNCHANGED <<provider, store, link, views>>

-----------------------------------------------------------------------------
(* Deletion                                                                *)

\* The files of a request that can be named: of an upload that did not answer
\* there is neither a public id nor a file name.
Named(r) == req[r].known

\* deleteStoredFiles: some of the deletions may fail, which is logged.
Delete(files, left) ==
  /\ store' = store \ (files \ left)
  /\ spoilt' = [spoilt EXCEPT !.files = @ \union (left \intersect store)]
  /\ IF left = {} THEN UNCHANGED faults ELSE Fault

\* MUTANT: the images to be replaced are deleted with the new ones.
CleanupBoth(r) ==
  LET files == Named(r) \union req[r].old
  IN  /\ req[r].pc = "cleanup"
      /\ \E left \in SUBSET files : Delete(files, left)
      /\ Finish(r)
      /\ UNCHANGED <<provider, data>>

\* cleanupUploadedFiles, and the error is answered.
Cleanup(r) ==
  /\ req[r].pc = "cleanup"
  /\ \E left \in SUBSET Named(r) : Delete(Named(r), left)
  /\ Finish(r)
  /\ UNCHANGED <<provider, data>>

\* updateListing deletes the replaced images after the transaction.
Purge(r) ==
  /\ req[r].pc = "purge"
  /\ \E left \in SUBSET req[r].old : Delete(req[r].old, left)
  /\ Finish(r)
  /\ UNCHANGED <<provider, data>>

-----------------------------------------------------------------------------
(* Reviews, cancellations and the process                                  *)

\* A listing is cancelled or sold, a submission rejected.
Close(d) ==
  /\ row[d].st = "active"
  /\ \A q \in Req : ~(req[q].pc = "commit" /\ req[q].on = d)
  /\ row' = [row EXCEPT ![d].st = "closed"]
  /\ UNCHANGED <<provider, req, store, link, views, faults, spoilt>>

\* The process dies: transactions roll back, and nobody deletes what is left.
Crash ==
  /\ Fault
  /\ req' = [r \in Req |-> IF req[r].pc = "idle" THEN Idle
                           ELSE [Idle EXCEPT !.pc = "done"]]
  /\ spoilt' = [spoilt EXCEPT !.files = @ \union (store \ Shown)]
  /\ UNCHANGED <<provider, data, store>>

-----------------------------------------------------------------------------
(* Private media                                                           *)

\* withPrivateMediaUrls
Signed(d, actor) == [doc : {d}, file : row[d].images, actor : {actor}]

\* Answers with a submission, to its user or to an admin, sign links to its files.
SignLinks(d, actor) ==
  /\ Cardinality(link) < MaxLinks
  /\ \E l \in Signed(d, actor) : link' = link \union {l}
  /\ UNCHANGED <<provider, req, row, store, views, faults, spoilt>>

SignKycLinks(d, actor) == row[d].kind = "kyc" /\ SignLinks(d, actor)

SignBusinessLinks(d, actor) == row[d].kind = "business" /\ SignLinks(d, actor)

\* resolvePrivateStoredMedia
Found(l) == l.file \in store

\* resolvePrivateMediaRequest: an admin's view is audited first, and the file
\* is not served when that fails.
FetchPrivateMedia(l) ==
  LET admins == IF l.actor = "admin" THEN {l.doc} ELSE {}
      found == IF Found(l) THEN admins ELSE {}
  IN  /\ l \in link
      /\ \/ /\ views' = [audited |-> views.audited \union admins,
                         served |-> views.served \union found]
            /\ UNCHANGED faults
         \/ l.actor = "admin" /\ Fault /\ UNCHANGED views
      /\ UNCHANGED <<provider, req, row, store, link, spoilt>>

Expire(l) ==
  /\ l \in link
  /\ link' = link \ {l}
  /\ UNCHANGED <<provider, req, row, store, views, faults, spoilt>>

-----------------------------------------------------------------------------
Step(r) ==
  \/ Validate(r) \/ StoreFile(r) \/ Write(r)
  \/ Commit(r) \/ RollBack(r) \/ Cleanup(r) \/ Purge(r)

Next ==
  \/ \E r \in Req :
       \/ \E op \in Op, d \in Req, n \in 0..MaxFiles, fine \in BOOLEAN :
            Receive(r, op, d, n, fine)
       \/ Step(r) \/ LoseCommit(r)
  \/ \E d \in Req : Close(d) \/ \E actor \in {"user", "admin"} :
                                  SignKycLinks(d, actor) \/ SignBusinessLinks(d, actor)
  \/ \E l \in link : FetchPrivateMedia(l) \/ Expire(l)
  \/ Crash

Spec == Init /\ [][Next]_vars

-----------------------------------------------------------------------------
Links == [doc : Req, file : File, actor : {"user", "admin"}]

TypeOK ==
  /\ provider \in {"local", "cloudinary"}
  /\ req \in [Req -> [op : Op, on : Req \union {None}, n : 0..MaxFiles, fine : BOOLEAN,
                      pc : {"idle", "validate", "store", "commit",
                            "purge", "cleanup", "done"},
                      known : SUBSET File, old : SUBSET File]]
  /\ row \in [Req -> [kind : Kind, st : {"none", "active", "closed"},
                      images : SUBSET File]]
  /\ store \subseteq File /\ link \subseteq Links
  /\ views \in [audited : SUBSET Req, served : SUBSET Req]
  /\ faults \in 0..MaxFaults
  /\ spoilt \in [files : SUBSET File, rows : SUBSET Req]

\* What a row shows exists, and what a link signs does: whatever fails, and in
\* whatever order requests replace, refuse and delete.  The one exception is a
\* row whose COMMIT was taken for a failure.
NothingMissing ==
  \A d \in Req \ spoilt.rows :
    /\ row[d].images \subseteq store
    /\ \A l \in link : l.doc = d => l.file \in store

\* A stored file is shown by a row, or a request is under way that will show or
\* delete it, unless a fault left it behind: no refusal leaves files.
NothingLeft ==
  store \subseteq Shown \union spoilt.files \union
    UNION {(IF req[r].pc = "purge" THEN req[r].old ELSE req[r].known) :
             r \in {q \in Req : req[q].pc \notin {"idle", "done"}}}

\* Every file that an admin's link has served is in the audit log.
ViewsAudited == views.served \subseteq views.audited
=============================================================================
