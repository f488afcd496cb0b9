------------------------------- MODULE JobApi -------------------------------
(***************************************************************************)
(* The HTTP handlers that change jobs (morf/router/routers.go): /upload    *)
(* and each file of /bulk-upload, /jobs/:id/cancel, /dlq/:id/retry.  Every *)
(* upload mints a fresh job ID, so a member of Jobs is one uploaded file   *)
(* and request[j] is where the handler that uploads it is.  Validation and *)
(* the early depth probe reject before anything is written and are left    *)
(* out.                                                                    *)
(***************************************************************************)
EXTENDS ObjectStore

VARIABLES request,   \* the upload handler of each job
          retrying   \* DLQ retries between the LREM and the re-enqueue

apiVars == <<request, retrying>>

ApiTypeOK ==
  /\ request \in [Jobs -> {"new", "stored", "undo", "accepted", "rejected"}]
  /\ retrying \in [Jobs -> Nat]

ApiInit ==
  /\ request = [j \in Jobs |-> "new"]
  /\ retrying = [j \in Jobs |-> 0]

Reply(j, answer) == /\ request' = [request EXCEPT ![j] = answer]
                    /\ UNCHANGED retrying

(* store.Put. *)
UploadPut(j) ==
  /\ request[j] = "new" /\ Reply(j, "stored")
  /\ Put(j) /\ UNCHANGED redis

(* EnqueueJobAtomicWithLimit(job, threshold, 1); an error reply does not   *)
(* tell whether the script ran.                                            *)
UploadEnqueue(j) ==
  /\ request[j] = "stored"
  /\ \/ Fine /\ Admits(1) /\ EnqueueJobAtomic(j) /\ Reply(j, "accepted")
     \/ Fine /\ ~Admits(1) /\ UNCHANGED redis /\ Reply(j, "undo")
     \/ /\ Strikes("io") /\ Reply(j, "undo")
        /\ (Admits(1) /\ EnqueueJobAtomic(j)) \/ UNCHANGED redis
  /\ UNCHANGED uploads

(* store.Delete after a failed enqueue. *)
UploadUndo(j) ==
  /\ request[j] = "undo" /\ Reply(j, "rejected")
  /\ Delete(j) /\ UNCHANGED redis

(* The cancel handler only runs the script. *)
Cancel(j) ==
  /\ CancelJob(j)
  /\ Strikes("cancel") /\ UNCHANGED <<apiVars, uploads>>

(* RetryDLQJob: the script, then GetJob and EnqueueJobAtomic.  A script    *)
(* whose reply is lost leaves what a failed GetJob or enqueue leaves.      *)
RetryDLQRemove(j) ==
  /\ RemoveDLQ(j)
  /\ Strikes("dlqRetry") /\ retrying' = More(retrying, j)
  /\ UNCHANGED <<request, uploads>>

RetryDLQEnqueue(j) ==
  /\ retrying[j] > 0 /\ retrying' = Less(retrying, j)
  /\ \/ Fine /\ EnqueueJobAtomic(j)
     \/ Strikes("io") /\ UNCHANGED redis
  /\ UNCHANGED <<request, uploads>>

ApiNext(j) ==
  \/ UploadPut(j) \/ UploadEnqueue(j) \/ UploadUndo(j)
  \/ Cancel(j) \/ RetryDLQRemove(j) \/ RetryDLQEnqueue(j)
=============================================================================
