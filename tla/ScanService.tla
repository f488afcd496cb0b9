---------------------------- MODULE ScanService -----------------------------
(***************************************************************************)
(* API handlers, scan workers and reapers sharing one Redis and one        *)
(* artifact store.                                                         *)
(***************************************************************************)
EXTENDS ScanWorker, Reaper, JobApi, FiniteSets, Functions

ASSUME FleetAssumption == IsFiniteSet(Workers) /\ IsFiniteSet(Reapers)

vars == <<redis, budget, uploads, workerVars, reaperVars, apiVars>>

TypeOK == /\ QueueTypeOK /\ StoreTypeOK
          /\ WorkerTypeOK /\ ReaperTypeOK /\ ApiTypeOK

Init == /\ QueueInit /\ StoreInit
        /\ WorkerInit /\ ReaperInit /\ ApiInit

(* Two minutes pass without a heartbeat.  A live worker beats every 30     *)
(* seconds, so for it that is trouble: a long pause, or a partition.       *)
HeartbeatAges(w) ==
  /\ registration[w] = "fresh"
  /\ IF Alive(w) THEN Strikes("falseReap") ELSE Fine
  /\ WriteRegistration(w, "stale")

(* The lease's TTL (2 h) outlives any scan of its owner, not a failed one. *)
LeaseExpires(j) ==
  /\ lease[j] # NoOne /\ cur[lease[j]] # j
  /\ WriteLease(j, NoOne) /\ Fine

Worker(w) == WorkerNext(w) /\ UNCHANGED <<reaperVars, apiVars>>
Reap(r)   == ReaperNext(r) /\ UNCHANGED <<uploads, workerVars, apiVars>>
Api(j)    == ApiNext(j) /\ UNCHANGED <<workerVars, reaperVars>>
Clock     == /\ \/ \E w \in Workers : HeartbeatAges(w)
                \/ \E j \in Jobs : LeaseExpires(j)
             /\ UNCHANGED <<uploads, workerVars, reaperVars, apiVars>>

Next == \/ \E w \in Workers : Worker(w)
        \/ \E r \in Reapers : Reap(r)
        \/ \E j \in Jobs : Api(j)
        \/ Clock

Spec == Init /\ [][Next]_vars

(* What the code's scheduling guarantees: a pod that runs starts its       *)
(* workers, a worker that lives keeps popping and finishes what it popped  *)
(* (a scan ends at its timeout), every reaper sweeps periodically, and a   *)
(* dead worker's heartbeat gets old.  Nothing makes a worker crash, stop   *)
(* or stall, a user act, or an upload arrive.                              *)
Progress(w) == /\ Start(w) \/ Pop(w) \/ ProcessJob(w)
               /\ UNCHANGED <<reaperVars, apiVars>>
Sweep(r)    == Reap(r) /\ ~ReaperCrash(r)
Ages(w)     == /\ ~Alive(w) /\ HeartbeatAges(w)
               /\ UNCHANGED <<uploads, workerVars, reaperVars, apiVars>>

Fairness == /\ \A w \in Workers : WF_vars(Progress(w)) /\ WF_vars(Ages(w))
            /\ \A r \in Reapers : WF_vars(Sweep(r))

FairSpec == Spec /\ Fairness

-----------------------------------------------------------------------------
InQueue(j) == OnList(jobQueue, j)

(* Somebody will still see job j: it is queued, in the hand of a reaper,   *)
(* or in the processing list of a worker that lives or that the reapers    *)
(* can find.                                                               *)
Recoverable(j) ==
  \/ InQueue(j)
  \/ \E r \in Reapers : hand[r] = j
  \/ \E w \in Workers : processing[w][j] > 0
                        /\ (Alive(w) \/ registration[w] # "none")

(* No lost jobs: a job that is neither finished, failed nor cancelled can  *)
(* still be picked up (PopJobReliable, StartReaper).                       *)
NothingLost == \A j \in Jobs : hash[j].status \in Pending => Recoverable(j)

(* No I/O error, no live worker taken for dead, no reaper killed so far;   *)
(* workers may have crashed at any point.                                  *)
Unspent(kinds) == \A k \in kinds : budget[k] = Budget[k]
Reliable == Unspent({"io", "falseReap", "reaperCrash"})

(* No lost jobs, however many workers crash, wherever they are, and        *)
(* however many reapers race for what they leave (StartReaper).            *)
CrashesLoseNothing == Reliable => NothingLost

(* A job that is still pending has attempts left: RetryCount reaches       *)
(* MORF_WORKER_MAX_RETRIES only together with the failed status            *)
(* (handleJobFailure), also under stale copies and duplicate runs.         *)
RetriesBounded ==
  \A j \in Jobs : hash[j].status \in Pending => hash[j].retry < MaxRetries

(* One execution at a time: as long as nothing crashes and nothing fails,  *)
(* two workers never process the same job together, not even around a      *)
(* retry, which pushes the job before it is acked, or a DLQ retry, which   *)
(* may come before the failing worker has cleaned up (handleJobFailure).   *)
Working(w, j) == cur[w] = j /\ pc[w] \notin {"discard", "ack"}
OneExecution ==
  Reliable /\ Unspent({"crash"}) =>
    \A j \in Jobs : \A v, w \in Workers :
      Working(v, j) /\ Working(w, j) => v = w

(* The DLQ is exact: as long as nothing crashes and nothing fails, a       *)
(* failed job is on the DLQ exactly once, or with the one worker or the    *)
(* one retry request that moves it (handleJobFailure, RetryDLQJob).        *)
AtDLQDoor(j) == {w \in Workers : cur[w] = j /\ pc[w] = "todlq"}
FailedIsParked ==
  Reliable /\ Unspent({"crash"}) =>
    \A j \in Jobs :
      dlq[j] + retrying[j] + Cardinality(AtDLQDoor(j))
        = (IF hash[j].status = "failed" THEN 1 ELSE 0)

Listed(j) == [w \in Workers |-> processing[w][j]]
Copies(j) ==
  Cardinality({i \in 1..Len(jobQueue) : jobQueue[i] = j})
  + SumFunctionOnSet(Listed(j), Workers)
  + Cardinality({r \in Reapers : hand[r] = j})

(* Reapers never multiply a job: several may sweep the same worker, live   *)
(* or dead, and whatever fails, a requeue moves a copy it took itself      *)
(* (RequeueProcessing).                                                    *)
ReapersNeverDuplicate ==
  [][UNCHANGED <<workerVars, apiVars>> =>
       \A j \in Jobs : Copies(j)' <= Copies(j)]_vars

(* Every job settles: while some worker survives, a pending job is         *)
(* eventually completed, failed or cancelled, whatever crashed on the way  *)
(* (Start, StartReaper).                                                   *)
JobsSettle ==
  \A j \in Jobs : hash[j].status \in Pending ~> hash[j].status \in Terminal

(* Processing lists drain: what a worker popped leaves its processing list *)
(* sooner or later, by its own ack or through a reaper (processJob,        *)
(* StartReaper).                                                           *)
ListsDrain ==
  \A w \in Workers, j \in Jobs : processing[w][j] > 0 ~> processing[w][j] = 0

(* A job that will still be scanned has its package: what a worker or an   *)
(* operator queues again can be scanned again (deleteUploadedArtifact,     *)
(* RetryDLQJob).                                                           *)
HasPackage == \A j \in Jobs : hash[j].status \in Pending => j \in uploads

(* A package outlives its job: as long as nothing crashes, nothing fails   *)
(* and nothing is retried from the DLQ, whatever is retried, cancelled or  *)
(* shut down, no package is deleted too early (deleteUploadedArtifact).    *)
PackagesKept == Reliable /\ Unspent({"crash", "dlqRetry"}) => HasPackage

Keeps(j, status) == hash[j].status = status => UNCHANGED hash[j].status

(* A cancelled job stays cancelled (CancelJob, the state diagram of the    *)
(* queue design).                                                          *)
CancelledIsFinal == [][\A j \in Jobs : Keeps(j, "cancelled")]_vars

(* A completed job stays completed: the lease fence keeps a falsely reaped *)
(* worker from overwriting the result (SetJobLease, CheckJobLease).        *)
CompletedIsFinal == [][\A j \in Jobs : Keeps(j, "completed")]_vars
=============================================================================
