----------------------------- MODULE ScanWorker -----------------------------
(***************************************************************************)
(* A scan worker (morf/worker/worker.go): the Start loop, processJob,      *)
(* handleJobSuccess and handleJobFailure.  A member of Workers is one      *)
(* worker ID; Start draws a fresh one, so a restarted pod is another       *)
(* member.  Every step is one round trip to Redis or to the object store,  *)
(* and pc names the call the worker makes next.                            *)
(*                                                                         *)
(* Outside the model: what a scan computes, the webhook a handler sends    *)
(* last, and the back-off delays.                                          *)
(***************************************************************************)
EXTENDS ObjectStore

VARIABLES pc, cur, job   \* next call, current job ID, processJob's copy of it

workerVars == <<pc, cur, job>>

(* Calls a worker makes between PopJobReliable and its return to the loop. *)
Busy == {"load", "update", "lease", "precheck", "scan", "reread", "success",
         "failure", "push", "todlq", "clear", "discard", "ack"}
Gone == {"off", "stopped", "dead"}

NoJob == [status |-> "none", retry |-> 0]

WorkerTypeOK ==
  /\ pc \in [Workers -> Busy \cup Gone \cup {"idle"}]
  /\ cur \in [Workers -> Jobs \cup {NoOne}]
  /\ job \in [Workers -> ScanJob]

WorkerInit ==
  /\ pc = [w \in Workers |-> "off"]
  /\ cur = [w \in Workers |-> NoOne]
  /\ job = [w \in Workers |-> NoJob]

Alive(w) == pc[w] \notin Gone

Goto(w, label) == pc' = [pc EXCEPT ![w] = label]
Stay           == UNCHANGED <<cur, job>>
(* processJob returned, or the process died: its locals are gone. *)
Forget(w)      == /\ cur' = [cur EXCEPT ![w] = NoOne]
                  /\ job' = [job EXCEPT ![w] = NoJob]

-----------------------------------------------------------------------------
(* The Start loop. *)

(* RegisterWorker's error is ignored. *)
Start(w) ==
  /\ pc[w] = "off" /\ Goto(w, "idle") /\ Stay
  /\ \/ Fine /\ WriteRegistration(w, "fresh")
     \/ Strikes("io") /\ UNCHANGED redis
  /\ UNCHANGED uploads

(* ctx.Done, seen between two jobs: UnregisterWorker, error ignored. *)
Stop(w) ==
  /\ pc[w] = "idle" /\ Goto(w, "stopped") /\ Stay
  /\ Strikes("shutdown")
  /\ WriteRegistration(w, "none") \/ UNCHANGED redis
  /\ UNCHANGED uploads

(* The heartbeat ticker of the loop and the goroutine of processJob. *)
Heartbeat(w) ==
  /\ Alive(w) /\ registration[w] # "fresh"
  /\ WriteRegistration(w, "fresh")
  /\ Fine /\ UNCHANGED <<workerVars, uploads>>

Pop(w) ==
  /\ pc[w] = "idle"
  /\ PopJobReliable(w)
  /\ \/ /\ Fine /\ Goto(w, "load")
        /\ cur' = [cur EXCEPT ![w] = Head(jobQueue)] /\ UNCHANGED job
     \/ Strikes("io") /\ UNCHANGED workerVars   \* moved, but the reply is lost
  /\ UNCHANGED uploads

-----------------------------------------------------------------------------
(* processJob. *)

(* Mutant: the idempotency check also skips a job already processing. *)
LoadSkipsProcessing(w) ==
  LET j == cur[w] IN
  /\ pc[w] = "load" /\ Fine
  /\ \/ /\ hash[j].status # "queued"
        /\ Goto(w, "ack") /\ Stay
     \/ /\ hash[j].status = "queued"
        /\ Goto(w, "update")
        /\ job' = [job EXCEPT ![w] = [hash[j] EXCEPT !.status = "processing"]]
        /\ UNCHANGED cur
  /\ UNCHANGED <<redis, uploads>>

(* GetJob; a terminal job is acked unprocessed, and so is an unreadable one. *)
Load(w) ==
  LET j == cur[w] IN
  /\ pc[w] = "load"
  /\ \/ /\ Fine
        /\ hash[j].status \in {"completed", "failed"}
        /\ Goto(w, "ack") /\ Stay
     \/ /\ Fine
        /\ hash[j].status = "cancelled"
        /\ Goto(w, "discard") /\ Stay
     \/ /\ Fine
        /\ hash[j].status \in Pending
        /\ Goto(w, "update")
        /\ job' = [job EXCEPT ![w] = [hash[j] EXCEPT !.status = "processing"]]
        /\ UNCHANGED cur
     \/ Strikes("io") /\ Goto(w, "ack") /\ Stay
  /\ UNCHANGED <<redis, uploads>>

(* Mutant: a failed job is not moved to the DLQ. *)
AfterUpdateNoDLQ == [processing |-> "lease", completed |-> "clear",
                     queued |-> "push", failed |-> "discard"]

(* What follows UpdateJob(job) depends on which of its call sites this is. *)
AfterUpdate == [processing |-> "lease", completed |-> "clear",
                queued |-> "push", failed |-> "todlq"]

(* A failed UpdateJob may or may not have reached Redis.  At pickup the    *)
(* worker then acks; on the other paths ackJob is false, and processJob    *)
(* returns leaving the entry in the processing list.                       *)
Update(w) ==
  /\ pc[w] = "update"
  /\ \/ /\ Fine /\ UpdateJob(cur[w], job[w])
        /\ Goto(w, AfterUpdate[job[w].status]) /\ Stay
     \/ /\ Strikes("io")
        /\ UpdateJob(cur[w], job[w]) \/ UNCHANGED redis
        /\ IF job[w].status = "processing" THEN Goto(w, "ack") /\ Stay
                                           ELSE Goto(w, "idle") /\ Forget(w)
  /\ UNCHANGED uploads

(* SetJobLease, best effort. *)
Lease(w) ==
  /\ pc[w] = "lease" /\ Goto(w, "precheck") /\ Stay
  /\ \/ Fine /\ WriteLease(cur[w], w)
     \/ Strikes("io") /\ UNCHANGED redis
  /\ UNCHANGED uploads

(* CheckJobLease before the scan and before a terminal write: a superseded *)
(* worker acks and leaves; an unreadable lease counts as owned.            *)
Superseded(w) == /\ Fine /\ ~CheckJobLease(cur[w], w)
                 /\ Goto(w, "ack") /\ Stay
Owns(w) == (Fine /\ CheckJobLease(cur[w], w)) \/ Strikes("io")

PreCheck(w) ==
  /\ pc[w] = "precheck"
  /\ Superseded(w) \/ (Owns(w) /\ Goto(w, "scan") /\ Stay)
  /\ UNCHANGED <<redis, uploads>>

(* scanAPK or scanIPA: success needs the artifact; any scan may fail, time *)
(* out or be aborted ("reread"), or panic ("failure").                     *)
Scan(w) ==
  /\ pc[w] = "scan"
  /\ \/ Available(cur[w]) /\ Goto(w, "success")
     \/ Goto(w, "reread")
     \/ Goto(w, "failure")
  /\ Stay /\ Fine /\ UNCHANGED <<redis, uploads>>

(* GetJob after a failed scan: a cancelled job is not a failure. *)
Reread(w) ==
  /\ pc[w] = "reread" /\ Stay
  /\ \/ /\ Fine /\ hash[cur[w]].status = "cancelled" /\ Goto(w, "discard")
     \/ /\ Fine /\ hash[cur[w]].status # "cancelled" /\ Goto(w, "failure")
     \/ Strikes("io") /\ Goto(w, "failure")
  /\ UNCHANGED <<redis, uploads>>

-----------------------------------------------------------------------------
(* handleJobSuccess; a result that cannot be marshalled is a failure. *)
Success(w) ==
  /\ pc[w] = "success"
  /\ \/ Superseded(w)
     \/ /\ Owns(w) /\ Goto(w, "update")
        /\ job' = [job EXCEPT ![w].status = "completed"] /\ UNCHANGED cur
     \/ Owns(w) /\ Goto(w, "failure") /\ Stay
  /\ UNCHANGED <<redis, uploads>>

(* Mutants: no retry limit; a limit that is off by one. *)
AfterFailureUnlimited(job0, retryable) ==
  [status |-> IF retryable THEN "queued" ELSE "failed", retry |-> job0.retry + 1]
AfterFailureOneMore(job0, retryable) ==
  LET n == job0.retry + 1 IN
  [status |-> IF retryable /\ n <= MaxRetries THEN "queued" ELSE "failed",
   retry  |-> n]

(* handleJobFailure up to its UpdateJob; isRetryable's verdict on the      *)
(* error is free.                                                          *)
AfterFailure(job0, retryable) ==
  LET n == job0.retry + 1 IN
  [status |-> IF retryable /\ n < MaxRetries THEN "queued" ELSE "failed",
   retry  |-> n]

Failure(w) ==
  /\ pc[w] = "failure"
  /\ \/ Superseded(w)
     \/ /\ Owns(w) /\ Goto(w, "update")
        /\ \E retryable \in BOOLEAN :
             job' = [job EXCEPT ![w] = AfterFailure(@, retryable)]
        /\ UNCHANGED cur
  /\ UNCHANGED <<redis, uploads>>

(* Mutant: the retry path deletes the uploaded package as well. *)
PushAndDiscard(w) ==
  /\ pc[w] = "push" /\ Goto(w, "discard") /\ Stay
  /\ Fine /\ PushJob(cur[w]) /\ UNCHANGED uploads

(* The errors of PushJob, MoveToDLQ, ClearJobLease and Delete are ignored. *)
Push(w) ==
  /\ pc[w] = "push" /\ Goto(w, "ack") /\ Stay
  /\ \/ Fine /\ PushJob(cur[w])
     \/ Strikes("io") /\ UNCHANGED redis
  /\ UNCHANGED uploads

ToDLQ(w) ==
  /\ pc[w] = "todlq" /\ Goto(w, "discard") /\ Stay
  /\ \/ Fine /\ MoveToDLQ(cur[w])
     \/ Strikes("io") /\ UNCHANGED redis
  /\ UNCHANGED uploads

Clear(w) ==
  /\ pc[w] = "clear" /\ Goto(w, "discard") /\ Stay
  /\ \/ Fine /\ WriteLease(cur[w], NoOne)
     \/ Strikes("io") /\ UNCHANGED redis
  /\ UNCHANGED uploads

(* deleteUploadedArtifact. *)
Discard(w) ==
  /\ pc[w] = "discard" /\ Goto(w, "ack") /\ Stay
  /\ Delete(cur[w]) /\ UNCHANGED redis

(* The deferred AckJob; its error is ignored too. *)
Ack(w) ==
  /\ pc[w] = "ack" /\ Goto(w, "idle") /\ Forget(w)
  /\ \/ Fine /\ RemoveProcessing(w, cur[w])
     \/ Strikes("io") /\ UNCHANGED redis
  /\ UNCHANGED uploads

(* The process dies between any two calls. *)
Crash(w) ==
  /\ Alive(w) /\ Strikes("crash")
  /\ Goto(w, "dead") /\ Forget(w)
  /\ UNCHANGED <<redis, uploads>>

ProcessJob(w) ==
  \/ Load(w) \/ Update(w) \/ Lease(w) \/ PreCheck(w) \/ Scan(w) \/ Reread(w)
  \/ Success(w) \/ Failure(w) \/ Push(w) \/ ToDLQ(w) \/ Clear(w)
  \/ Discard(w) \/ Ack(w)

WorkerNext(w) ==
  Start(w) \/ Stop(w) \/ Heartbeat(w) \/ Pop(w) \/ ProcessJob(w) \/ Crash(w)
=============================================================================
