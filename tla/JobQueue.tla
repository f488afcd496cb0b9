------------------------------ MODULE JobQueue ------------------------------
(***************************************************************************)
(* The Redis side of the job queue (morf/queue/queue.go).                  *)
(*                                                                         *)
(* Redis executes one command, or one Lua script, at a time, so every      *)
(* operator below that stands for a command or a script is one atomic      *)
(* update; an operation of queue.go that issues several commands is        *)
(* several steps of the module that calls it.                              *)
(*                                                                         *)
(* Abstractions.  A job hash keeps the two fields control depends on       *)
(* (status and retry_count).  A processing list and the DLQ are bags,      *)
(* because every operation on them is by value or on the whole list; the   *)
(* main queue is a sequence.  The status index sets are never read by any  *)
(* operation here; StatusIndex models them.                                *)
(***************************************************************************)
EXTENDS RedisList

CONSTANTS Jobs, Workers, NoOne,
          MaxRetries,      \* MORF_WORKER_MAX_RETRIES
          QueueLimit,      \* the admission threshold; 0 means unlimited
          Budget           \* how often each kind of event may strike

Events == {"io", "crash", "falseReap", "reaperCrash", "shutdown",
           "cancel", "dlqRetry"}

ASSUME QueueAssumption ==
  /\ NoOne \notin Workers
  /\ NoOne \notin Jobs
  /\ MaxRetries \in Nat \ {0}
  /\ QueueLimit \in Nat
  /\ Budget \in [Events -> Nat]

VARIABLES
  hash,          \* morf:jobs:<id>; status "none" when the key is absent
  jobQueue,      \* morf:job_queue, head first
  processing,    \* morf:processing:<worker>
  dlq,           \* morf:dlq
  lease,         \* morf:jobs:lease:<id>, NoOne when absent
  registration,  \* morf:workers:<id>: absent, or how old its heartbeat is
  budget         \* what is left of Budget

redis == <<hash, jobQueue, processing, dlq, lease, registration>>

Pending  == {"queued", "processing"}
Terminal == {"completed", "failed", "cancelled"}
Status   == {"none"} \cup Pending \cup Terminal

ScanJob == [status: Status, retry: 0..MaxRetries]

RedisTypeOK ==
  /\ hash \in [Jobs -> ScanJob]
  /\ jobQueue \in Seq(Jobs)
  /\ processing \in [Workers -> [Jobs -> Nat]]
  /\ dlq \in [Jobs -> Nat]
  /\ lease \in [Jobs -> Workers \cup {NoOne}]
  /\ registration \in [Workers -> {"none", "fresh", "stale"}]

QueueTypeOK == RedisTypeOK /\ budget \in [Events -> Nat]

QueueInit ==
  /\ hash = [j \in Jobs |-> [status |-> "none", retry |-> 0]]
  /\ jobQueue = <<>>
  /\ processing = [w \in Workers |-> [j \in Jobs |-> 0]]
  /\ dlq = [j \in Jobs |-> 0]
  /\ lease = [j \in Jobs |-> NoOne]
  /\ registration = [w \in Workers |-> "none"]
  /\ budget = Budget

-----------------------------------------------------------------------------
(* An event strikes at most Budget[kind] times. *)
Strikes(kind) == /\ budget[kind] > 0
                 /\ budget' = [budget EXCEPT ![kind] = @ - 1]
Fine          == UNCHANGED budget

(* LREM list 1 j on a list kept as a bag. *)
Less(bag, j) == [bag EXCEPT ![j] = IF @ > 0 THEN @ - 1 ELSE 0]
More(bag, j) == [bag EXCEPT ![j] = @ + 1]

-----------------------------------------------------------------------------
(* The commands and scripts. *)

(* EnqueueJobAtomic: hash and queue entry appear together. *)
EnqueueJobAtomic(j) ==
  /\ hash' = [hash EXCEPT ![j] = [status |-> "queued", retry |-> 0]]
  /\ jobQueue' = Append(jobQueue, j)
  /\ UNCHANGED <<processing, dlq, lease, registration>>

(* EnqueueJobAtomicWithLimit(job, limit, count): LLEN and the enqueue are  *)
(* one script.                                                             *)
Admits(count) == QueueLimit = 0 \/ Len(jobQueue) + count <= QueueLimit

(* UpdateJob's HSET of the caller's whole copy of the job. *)
UpdateJob(j, job) ==
  /\ hash' = [hash EXCEPT ![j] = job]
  /\ UNCHANGED <<jobQueue, processing, dlq, lease, registration>>

PushJob(j) ==
  /\ jobQueue' = Append(jobQueue, j)
  /\ UNCHANGED <<hash, processing, dlq, lease, registration>>

(* Mutant: a destructive LPOP. *)
PopJob(w) ==
  /\ jobQueue # <<>>
  /\ jobQueue' = Tail(jobQueue)
  /\ UNCHANGED <<hash, processing, dlq, lease, registration>>

(* PopJobReliable: BLMOVE from the head of the queue to w's list. *)
PopJobReliable(w) ==
  /\ jobQueue # <<>>
  /\ jobQueue' = Tail(jobQueue)
  /\ processing' = [processing EXCEPT ![w] = More(@, Head(jobQueue))]
  /\ UNCHANGED <<hash, dlq, lease, registration>>

(* AckJob, and the first half of RequeueProcessing. *)
RemoveProcessing(w, j) ==
  /\ processing' = [processing EXCEPT ![w] = Less(@, j)]
  /\ UNCHANGED <<hash, jobQueue, dlq, lease, registration>>

MoveToDLQ(j) ==
  /\ dlq' = More(dlq, j)
  /\ UNCHANGED <<hash, jobQueue, processing, lease, registration>>

(* retryDLQRemoveScript. *)
RemoveDLQ(j) ==
  /\ dlq[j] > 0
  /\ dlq' = Less(dlq, j)
  /\ UNCHANGED <<hash, jobQueue, processing, lease, registration>>

(* cancelJobScript: the queue entry goes only if the job was queued. *)
CancelJob(j) ==
  /\ hash[j].status \in Pending
  /\ hash' = [hash EXCEPT ![j].status = "cancelled"]
  /\ jobQueue' = IF hash[j].status = "queued" THEN LRem(jobQueue, j)
                                              ELSE jobQueue
  /\ UNCHANGED <<processing, dlq, lease, registration>>

(* SetJobLease(j, w), and ClearJobLease(j) with NoOne. *)
WriteLease(j, owner) ==
  /\ lease' = [lease EXCEPT ![j] = owner]
  /\ UNCHANGED <<hash, jobQueue, processing, dlq, registration>>

(* CheckJobLease: an absent lease counts as owned. *)
CheckJobLease(j, w) == lease[j] \in {w, NoOne}

(* RegisterWorker, UpdateWorkerHeartbeat ("fresh": HSET also re-creates a  *)
(* deleted key) and UnregisterWorker ("none").                             *)
WriteRegistration(w, age) ==
  /\ registration' = [registration EXCEPT ![w] = age]
  /\ UNCHANGED <<hash, jobQueue, processing, dlq, lease>>

=============================================================================
