------------------------------ MODULE UploadsMC ------------------------------
(***************************************************************************)
(* Small instances of Uploads: requests are alike until they are received. *)
(***************************************************************************)
EXTENDS Uploads, TLC

Alike == Permutations(Req)
=============================================================================
