----------------------------- MODULE ObjectStore ----------------------------
(***************************************************************************)
(* The artifact store (morf/storage): which jobs' uploaded package still   *)
(* exists.  A storage key is a fresh UUID per upload, so one job owns one  *)
(* object.  The backend is the local one, whose Put writes a temporary     *)
(* file and renames it: an object is there completely or not at all, and a *)
(* failed Put is as if the upload had not come.  The jobs and the budget   *)
(* of I/O errors are those of JobQueue.                                    *)
(***************************************************************************)
EXTENDS JobQueue

VARIABLE uploads

StoreTypeOK == uploads \subseteq Jobs
StoreInit   == uploads = {}

Put(j) == Fine /\ uploads' = uploads \cup {j}

(* Deleting an absent key is not an error; a real error leaves the object. *)
Delete(j) == \/ Fine /\ uploads' = uploads \ {j}
             \/ Strikes("io") /\ UNCHANGED uploads

(* resolveAPKPath stats the file: a missing object fails the scan. *)
Available(j) == j \in uploads
=============================================================================
