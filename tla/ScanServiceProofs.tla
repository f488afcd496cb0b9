------------------------- MODULE ScanServiceProofs --------------------------
(***************************************************************************)
(* Worker crashes lose no job, for every set of jobs, workers and reapers, *)
(* every retry limit, queue limit and budget of events; and reapers never  *)
(* add a copy of a job.                                                    *)
(***************************************************************************)
EXTENDS ScanWorkerProofs, SumLemmas

-----------------------------------------------------------------------------
(* A step that leaves workers, reapers' hands and leases alone answers for *)
(* a job as before, if the job stays queued and on its list.               *)
LEMMA StillAnswered ==
  ASSUME NEW k \in Jobs, Held(k) \/ Claimed(k), UNCHANGED <<pc, cur, job>>,
         lease'[k] \in {lease[k], NoOne}, InQueue(k) => Held(k)',
         \A r \in Reapers : hand[r] = k => Held(k)',
         \A w \in Workers : pc[w] = "dead" /\ processing[w][k] > 0 => Held(k)'
  PROVE  Held(k)' \/ Claimed(k)'
<1>1. ASSUME NEW v \in Workers, cur[v] = k, BeforeLease(v)
      PROVE  Held(k)'
  BY <1>1, Zenon DEF Held, BeforeLease
<1>2. ASSUME NEW v \in Workers, cur[v] = k, AfterLease(v), lease[k] \in {v, NoOne}
      PROVE  Claimed(k)'
  BY <1>2, Zenon DEF Claimed, AfterLease
<1> QED  BY <1>1, <1>2, Zenon DEF Held, Claimed

(* Every step of a reaper.                                                 *)
LEMMA ReaperSafe ==
  ASSUME TypeInv, ListsOK, Answered, ~Strikes("io"), ~Strikes("reaperCrash"),
         NEW r \in Reapers, ReaperNext(r), UNCHANGED workerVars
  PROVE  ListsOK' /\ Answered'
<1> USE QueueAssumption
<1>1. /\ \A q \in Reapers : ReaperOK(q) /\ ReaperSees(q)
      /\ \A w \in Workers : WorkerOK(w) /\ WorkerList(w)
      /\ pc \in [Workers -> Busy \cup Gone \cup {"idle"}]
      /\ registration \in [Workers -> {"none", "fresh", "stale"}]
      /\ processing \in [Workers -> [Jobs -> Nat]] /\ jobQueue \in Seq(Jobs)
      /\ rpc \in [Reapers -> {"idle", "range", "requeue", "repush"}]
      /\ target \in [Reapers -> Workers \cup {NoOne}]
      /\ todo \in [Reapers -> [Jobs -> Nat]] /\ hand \in [Reapers -> Jobs \cup {NoOne}]
  BY Zenon DEF TypeInv, TypeOK, QueueTypeOK, RedisTypeOK, WorkerTypeOK, ReaperTypeOK,
         ControlOK, ListsOK
<1>2. UNCHANGED <<pc, cur, job>>
  BY Zenon DEF workerVars
<1>3. UNCHANGED <<processing, registration>> => \A w \in Workers : WorkerList(w)'
  BY <1>1, <1>2 DEF WorkerList, Alive, Exact
<1>4. ASSUME UNCHANGED <<hash, lease, processing, jobQueue>>, hand[r] = NoOne,
             \A q \in Reapers : q # r => hand'[q] = hand[q]
      PROVE  Answered'
  <2>1. ASSUME NEW k \in Jobs, hash[k].status \in Pending
        PROVE  Held(k)' \/ Claimed(k)'
    <3>1. Held(k) \/ Claimed(k)
      BY <2>1, Zenon DEF Answered
    <3>2. InQueue(k) => Held(k)'
      BY <1>4, Zenon DEF InQueue, Held
    <3>3. \A q \in Reapers : hand[q] = k => Held(k)'
      BY <1>4, Zenon DEF Held
    <3>4. \A w \in Workers : pc[w] = "dead" /\ processing[w][k] > 0 => Held(k)'
      BY <1>2, <1>4, Zenon DEF Held
    <3> QED  BY <1>2, <1>4, <3>1, <3>2, <3>3, <3>4, StillAnswered, Zenon
  <2> QED  BY <1>4, <2>1, Zenon DEF Answered
<1>5. ASSUME NEW w \in Workers, ReapCheck(r, w)
      PROVE  ListsOK' /\ Answered'
  <2>1. pc[w] \in {"dead", "stopped"}
    BY <1>1, <1>5, Zenon DEF ReapCheck, WorkerList, Alive, Gone
  <2>2. \A q \in Reapers : ReaperSees(q)'
    BY <1>1, <1>2, <1>5, <2>1, Zenon DEF ReapCheck, ReaperSees, redis
  <2>3. hand[r] = NoOne
    BY <1>1, <1>5, Zenon DEF ReapCheck, ReaperOK
  <2> QED  BY <1>3, <1>4, <1>5, <2>2, <2>3, Zenon DEF ListsOK, ReapCheck, redis
<1>6. CASE ReapRange(r)
  <2>1. /\ rpc[r] = "range" /\ rpc' = [rpc EXCEPT ![r] = "requeue"]
        /\ todo' = [todo EXCEPT ![r] = processing[target[r]]]
        /\ UNCHANGED <<target, hand, hash, lease, processing, registration, jobQueue>>
    BY <1>6, Zenon DEF ReapRange, redis
  <2>2. target[r] \in Workers /\ hand[r] = NoOne
    BY <1>1, <2>1, Zenon DEF ReaperOK
  <2>3. ASSUME NEW q \in Reapers
        PROVE  ReaperSees(q)'
    <3>1. CASE q = r
      <4>1. \A j \in Jobs : processing[target[r]][j] <= processing[target[r]][j]
        BY <1>1, <2>2
      <4> QED  BY <1>1, <1>2, <2>1, <3>1, <4>1, Zenon DEF ReaperSees
    <3>2. CASE q # r
      BY <1>1, <1>2, <2>1, <3>2, Zenon DEF ReaperSees
    <3> QED  BY <3>1, <3>2, Zenon
  <2> QED  BY <1>3, <1>4, <2>1, <2>2, <2>3, Zenon DEF ListsOK
<1>7. ASSUME NEW j \in Jobs, ReapRemove(r, j)
      PROVE  ListsOK' /\ Answered'
  <2> DEFINE t == target[r]
  <2>1. /\ rpc[r] = "requeue" /\ todo[r][j] > 0 /\ t \in Workers /\ hand[r] = NoOne
        /\ todo' = [todo EXCEPT ![r] = Less(@, j)]
        /\ UNCHANGED <<target, hash, lease, registration, jobQueue>>
        /\ \A k \in Jobs : processing[t][k] <= todo[r][k]
        /\ pc[t] \in {"dead", "stopped"}
    BY <1>1, <1>7 DEF ReapRemove, ReaperOK, ReaperSees, RemoveProcessing, redis
  <2>2. CASE processing[t][j] = 0
    <3>1. UNCHANGED <<processing, rpc, hand>>
      <4>1. ~(processing[t][j] > 0)
        BY <2>2
      <4> QED  BY <1>7, <4>1, Zenon DEF ReapRemove, redis
    <3>2. ASSUME NEW q \in Reapers
          PROVE  ReaperSees(q)'
      <4>1. CASE q = r
        <5>1. \A k \in Jobs : processing[t][k] <= todo'[r][k]
          BY <1>1, <2>1, <2>2 DEF Less
        <5> QED  BY <1>2, <2>1, <3>1, <4>1, <5>1, Zenon DEF ReaperSees
      <4>2. CASE q # r
        BY <1>1, <1>2, <2>1, <3>1, <4>2, Zenon DEF ReaperSees
      <4> QED  BY <4>1, <4>2, Zenon
    <3> QED  BY <1>3, <1>4, <2>1, <3>1, <3>2, Zenon DEF ListsOK
  <2>3. CASE processing[t][j] # 0
    <3>1. /\ processing[t][j] > 0 /\ processing' = [processing EXCEPT ![t] = Less(@, j)]
          /\ rpc' = [rpc EXCEPT ![r] = "repush"] /\ hand' = [hand EXCEPT ![r] = j]
      BY <1>1, <1>7, <2>1, <2>3, Zenon DEF ReapRemove, RemoveProcessing
    <3>2. /\ \A w \in Workers, k \in Jobs :
               /\ processing'[w][k] <= processing[w][k]
               /\ w # t \/ k # j => processing'[w][k] = processing[w][k]
          /\ processing'[t][j] = processing[t][j] - 1
          /\ processing' \in [Workers -> [Jobs -> Nat]]
      BY <1>1, <2>1, <3>1 DEF Less
    <3>3. pc[t] = "dead"
      <4>1. ASSUME pc[t] = "stopped"
            PROVE  FALSE
        <5>1. cur[t] \notin Jobs
          BY <1>1, <2>1, <4>1, Zenon DEF WorkerOK, Busy
        <5>2. Exact(t)
          BY <1>1, <2>1, <4>1, Zenon DEF WorkerList
        <5>3. processing[t][j] = 0
          BY <5>1, <5>2, Zenon DEF Exact
        <5> QED  BY <3>1, <5>3
      <4> QED  BY <2>1, <4>1, Zenon
    <3>4. ASSUME NEW w \in Workers
          PROVE  WorkerList(w)'
      <4>1. CASE w = t
        BY <1>1, <1>2, <2>1, <3>2, <3>3, <4>1 DEF WorkerList, Alive, Gone
      <4>2. CASE w # t
        BY <1>1, <1>2, <2>1, <3>2, <4>2 DEF WorkerList, Alive, Exact
      <4> QED  BY <4>1, <4>2, Zenon
    <3>5. ASSUME NEW q \in Reapers
          PROVE  ReaperSees(q)'
      <4>1. CASE q = r
        <5>1. \A k \in Jobs : processing'[t][k] <= todo'[r][k]
          BY <1>1, <2>1, <3>2 DEF Less
        <5> QED  BY <1>2, <2>1, <4>1, <5>1, Zenon DEF ReaperSees
      <4>2. CASE q # r
        <5>1. rpc'[q] = rpc[q] /\ target'[q] = target[q] /\ todo'[q] = todo[q]
          BY <1>1, <2>1, <3>1, <4>2, Zenon
        <5>2. rpc[q] # "idle" =>
                \A k \in Jobs : /\ processing'[target[q]][k] <= processing[target[q]][k]
                                /\ processing'[target[q]][k] \in Nat
                                /\ processing[target[q]][k] \in Nat /\ todo[q][k] \in Nat
          BY <1>1, <3>2 DEF ReaperOK
        <5>3. ASSUME rpc[q] \in {"requeue", "repush"}, NEW k \in Jobs
              PROVE  processing'[target[q]][k] <= todo[q][k]
          <6>1. processing[target[q]][k] <= todo[q][k]
            BY <1>1, <5>3, Zenon DEF ReaperSees
          <6> QED  BY <5>2, <5>3, <6>1
        <5>4. rpc[q] # "idle" => pc[target[q]] \in {"dead", "stopped"}
          BY <1>1, Zenon DEF ReaperSees
        <5> QED  BY <1>2, <5>1, <5>3, <5>4, Zenon DEF ReaperSees
      <4> QED  BY <4>1, <4>2, Zenon
    <3>6. Held(j)'
      BY <1>1, <3>1, Zenon DEF Held
    <3>7. ASSUME NEW k \in Jobs, k # j, hash[k].status \in Pending
          PROVE  Held(k)' \/ Claimed(k)'
      <4>1. Held(k) \/ Claimed(k)
        BY <3>7, Zenon DEF Answered
      <4>2. InQueue(k) => Held(k)'
        BY <2>1, Zenon DEF InQueue, Held
      <4>3. \A q \in Reapers : hand[q] = k => Held(k)'
        BY <1>1, <2>1, <3>1, Zenon DEF Held
      <4>4. \A w \in Workers : pc[w] = "dead" /\ processing[w][k] > 0 => Held(k)'
        BY <1>2, <3>2, <3>7, Zenon DEF Held
      <4> QED  BY <1>2, <2>1, <4>1, <4>2, <4>3, <4>4, StillAnswered, Zenon
    <3> QED  BY <2>1, <3>4, <3>5, <3>6, <3>7, Zenon DEF ListsOK, Answered
  <2> QED  BY <2>2, <2>3, Zenon
<1>8. CASE ReapPush(r)
  <2> DEFINE h == hand[r]
  <2>1. /\ rpc[r] = "repush" /\ rpc' = [rpc EXCEPT ![r] = "requeue"] /\ h \in Jobs
        /\ hand' = [hand EXCEPT ![r] = NoOne] /\ jobQueue' = Append(jobQueue, h)
        /\ UNCHANGED <<target, todo, hash, lease, registration, processing>>
    BY <1>1, <1>8, Zenon DEF ReapPush, PushJob, ReaperOK
  <2>2. \A q \in Reapers : ReaperSees(q)'
    BY <1>1, <1>2, <2>1, Zenon DEF ReaperSees
  <2>3. \A k : InQueue(k) \/ k = h => Held(k)'
    BY <1>1, <2>1, AppendOnList DEF InQueue, Held
  <2>4. ASSUME NEW k \in Jobs, hash[k].status \in Pending
        PROVE  Held(k)' \/ Claimed(k)'
    <3>1. Held(k) \/ Claimed(k)
      BY <2>4, Zenon DEF Answered
    <3>2. \A q \in Reapers : hand[q] = k => Held(k)'
      BY <1>1, <2>1, <2>3, Zenon DEF Held
    <3>3. \A w \in Workers : pc[w] = "dead" /\ processing[w][k] > 0 => Held(k)'
      BY <1>2, <2>1, Zenon DEF Held
    <3> QED  BY <1>2, <2>1, <2>3, <3>1, <3>2, <3>3, StillAnswered, Zenon
  <2> QED  BY <1>3, <2>1, <2>2, <2>4, Zenon DEF ListsOK, Answered
<1>9. CASE ReapDelete(r)
  <2> DEFINE t == target[r]
  <2>1. /\ rpc[r] = "requeue" /\ todo[r] = Nothing /\ t \in Workers /\ hand[r] = NoOne
        /\ Done(r) /\ registration' = [registration EXCEPT ![t] = "none"]
        /\ UNCHANGED <<hash, jobQueue, processing, lease>>
        /\ pc[t] \in {"dead", "stopped"}
        /\ \A k \in Jobs : processing[t][k] <= todo[r][k]
    BY <1>1, <1>9 DEF ReapDelete, WriteRegistration, ReaperOK, ReaperSees
  <2>2. \A k \in Jobs : ~(processing[t][k] > 0)
    BY <1>1, <2>1 DEF Nothing
  <2>3. ASSUME NEW w \in Workers
        PROVE  WorkerList(w)'
    <3>1. CASE w = t
      BY <1>1, <1>2, <2>1, <2>2, <3>1, Zenon DEF WorkerList, Alive, Gone, Exact
    <3>2. CASE w # t
      <4>1. registration'[w] = registration[w] /\ processing'[w] = processing[w]
        BY <1>1, <2>1, <3>2, Zenon
      <4>2. WorkerList(w)
        BY <1>1, Zenon
      <4> QED  BY <1>2, <4>1, <4>2, Zenon DEF WorkerList, Alive, Exact
    <3> QED  BY <3>1, <3>2, Zenon
  <2>4. \A q \in Reapers : ReaperSees(q)'
    BY <1>1, <1>2, <2>1, Zenon DEF ReaperSees, Done
  <2>5. Answered'
    BY <1>1, <1>4, <2>1, Zenon DEF Done
  <2> QED  BY <2>3, <2>4, <2>5, Zenon DEF ListsOK
<1> QED  BY <1>5, <1>6, <1>7, <1>8, <1>9, Zenon DEF ReaperNext, ReaperCrash

(* Every step of an API handler (/upload, CancelJob, RetryDLQJob).         *)
LEMMA ApiSafe ==
  ASSUME TypeInv, ListsOK, Answered, NEW j \in Jobs, ApiNext(j),
         UNCHANGED <<workerVars, reaperVars>>
  PROVE  ListsOK' /\ Answered'
<1>1. /\ hash \in [Jobs -> ScanJob] /\ jobQueue \in Seq(Jobs)
      /\ UNCHANGED <<processing, lease, registration, pc, cur, job, rpc, target, todo, hand>>
  BY Zenon DEF TypeInv, TypeOK, QueueTypeOK, RedisTypeOK, workerVars, reaperVars, ApiNext,
         UploadPut, UploadEnqueue, UploadUndo, Cancel, RetryDLQRemove, RetryDLQEnqueue,
         EnqueueJobAtomic, CancelJob, RemoveDLQ, redis
<1>2. ListsOK'
  BY <1>1 DEF ListsOK, WorkerList, ReaperSees, Alive, Exact
<1>3. ASSUME NEW k \in Jobs, hash[k].status \in Pending, InQueue(k) => InQueue(k)'
      PROVE  Held(k)' \/ Claimed(k)'
  <2>1. Held(k) \/ Claimed(k)
    BY <1>3, Zenon DEF Answered
  <2> QED  BY <1>1, <1>3, <2>1, StillAnswered, Zenon DEF Held
<1>4. CASE EnqueueJobAtomic(j)
  <2>1. /\ InQueue(j)' /\ \A k : InQueue(k) => InQueue(k)'
        /\ \A k \in Jobs \ {j} : hash'[k] = hash[k]
    BY <1>1, <1>4, AppendOnList, Zenon DEF EnqueueJobAtomic, InQueue
  <2> QED  BY <1>2, <1>3, <2>1, Zenon DEF Answered, Held
<1>5. CASE CancelJob(j)
  <2>1. /\ hash'[j].status = "cancelled" /\ \A k \in Jobs \ {j} : hash'[k] = hash[k]
        /\ jobQueue' \in {jobQueue, LRem(jobQueue, j)}
    BY <1>1, <1>5, Zenon DEF CancelJob, ScanJob
  <2>2. \A k : k # j /\ InQueue(k) => InQueue(k)'
    BY <1>1, <2>1, LRemOnList DEF InQueue
  <2> QED  BY <1>2, <1>3, <2>1, <2>2, Zenon DEF Answered, Pending
<1>6. CASE UNCHANGED <<hash, jobQueue>>
  BY <1>2, <1>3, <1>6, Zenon DEF Answered, InQueue
<1> QED  BY <1>4, <1>5, <1>6, Zenon
         DEF ApiNext, UploadPut, UploadEnqueue, UploadUndo, Cancel, RetryDLQRemove,
             RetryDLQEnqueue, RemoveDLQ, redis

(* Ageing heartbeats and expiring leases (staleAfter, SetJobLease).        *)
LEMMA ClockSafe ==
  ASSUME TypeInv, ListsOK, Answered, ~Strikes("falseReap"), Clock
  PROVE  ListsOK' /\ Answered'
<1>1. /\ lease \in [Jobs -> Workers \cup {NoOne}]
      /\ registration \in [Workers -> {"none", "fresh", "stale"}]
      /\ UNCHANGED <<hash, processing, jobQueue, pc, cur, job, rpc, target, todo, hand>>
  BY Zenon DEF TypeInv, TypeOK, QueueTypeOK, RedisTypeOK, workerVars, reaperVars, Clock,
         HeartbeatAges, LeaseExpires, WriteRegistration, WriteLease
<1>2. \A r \in Reapers : ReaperSees(r)'
  BY <1>1, Zenon DEF ListsOK, ReaperSees
<1>3. ASSUME \A k \in Jobs : lease'[k] \in {lease[k], NoOne}
      PROVE  Answered'
  <2>1. ASSUME NEW k \in Jobs, hash[k].status \in Pending
        PROVE  Held(k)' \/ Claimed(k)'
    <3>1. Held(k) \/ Claimed(k)
      BY <2>1, Zenon DEF Answered
    <3> QED  BY <1>1, <1>3, <3>1, StillAnswered, Zenon DEF Held, InQueue
  <2> QED  BY <1>1, <2>1, Zenon DEF Answered
<1>4. ASSUME NEW w \in Workers, HeartbeatAges(w)
      PROVE  ListsOK' /\ Answered'
  <2>1. /\ ~Alive(w) /\ registration[w] = "fresh" /\ UNCHANGED lease
        /\ registration' = [registration EXCEPT ![w] = "stale"]
    BY <1>4, Zenon DEF HeartbeatAges, WriteRegistration
  <2>2. \A v \in Workers : WorkerList(v)'
    BY <1>1, <2>1 DEF ListsOK, WorkerList, Alive, Exact
  <2> QED  BY <1>2, <1>3, <2>1, <2>2, Zenon DEF ListsOK
<1>5. ASSUME NEW j \in Jobs, LeaseExpires(j)
      PROVE  ListsOK' /\ Answered'
  <2>1. UNCHANGED registration /\ \A k \in Jobs : lease'[k] \in {lease[k], NoOne}
    BY <1>1, <1>5, Zenon DEF LeaseExpires, WriteLease
  <2>2. \A v \in Workers : WorkerList(v)'
    BY <1>1, <2>1 DEF ListsOK, WorkerList, Alive, Exact
  <2> QED  BY <1>2, <1>3, <2>1, <2>2, Zenon DEF ListsOK
<1> QED  BY <1>4, <1>5, Zenon DEF Clock

(* Every step keeps the invariant, while no I/O error, false reap or       *)
(* reaper crash strikes (processJob, reapWorker, the API handlers).        *)
LEMMA SafeStep == IInv /\ [Next]_vars => IInv'
<1> SUFFICES ASSUME IInv, [Next]_vars
             PROVE  IInv'
  BY Zenon
<1>1. TypeInv /\ TypeInv'
  BY TypeStep, Zenon DEF IInv
<1> SUFFICES ASSUME Reliable'
             PROVE  ListsOK' /\ Answered'
  BY <1>1, Zenon DEF IInv
<1>2. ASSUME Fine \/ \E k \in Events : Strikes(k)
      PROVE  /\ ListsOK /\ Answered
             /\ ~Strikes("io") /\ ~Strikes("falseReap") /\ ~Strikes("reaperCrash")
  BY <1>1, <1>2, StaysReliable, Zenon DEF IInv
<1>3. ASSUME NEW w \in Workers, Worker(w)
      PROVE  ListsOK' /\ Answered'
  BY <1>1, <1>2, <1>3, WorkerKeys, WorkerSafe, Zenon DEF Worker
<1>4. ASSUME NEW r \in Reapers, Reap(r)
      PROVE  ListsOK' /\ Answered'
  BY <1>1, <1>2, <1>4, ReaperTypes, ReaperSafe, Zenon DEF Reap
<1>5. ASSUME NEW j \in Jobs, Api(j)
      PROVE  ListsOK' /\ Answered'
  BY <1>1, <1>2, <1>5, ApiTypes, ApiSafe, Zenon DEF Api
<1>6. CASE Clock
  <2>1. Fine \/ \E k \in Events : Strikes(k)
    BY <1>6, Zenon DEF Clock, HeartbeatAges, LeaseExpires, Events
  <2> QED  BY <1>1, <1>2, <1>6, <2>1, ClockSafe, Zenon
<1>7. CASE UNCHANGED vars
  <2>1. /\ UNCHANGED budget /\ UNCHANGED <<hash, jobQueue, processing, lease, registration>>
        /\ UNCHANGED <<pc, cur, job, rpc, target, todo, hand>>
    BY <1>7, Zenon DEF vars, redis, workerVars, reaperVars
  <2>2. ListsOK /\ Answered
    BY <1>2, <2>1, Zenon DEF Fine
  <2>3. ListsOK'
    BY <2>1, <2>2 DEF ListsOK, WorkerList, ReaperSees, Alive, Exact
  <2>4. Answered'
    BY <2>1, <2>2, Zenon DEF Answered, Held, Claimed, BeforeLease, AfterLease, InQueue
  <2> QED  BY <2>3, <2>4, Zenon
<1> QED  BY <1>3, <1>4, <1>5, <1>6, <1>7, Zenon DEF Next

(* Nothing is queued or running yet (NewJobQueue).                         *)
LEMMA SafeInit == Init => IInv
<1> SUFFICES ASSUME Init
             PROVE  IInv
  BY Zenon
<1>1. ListsOK
  BY QueueAssumption, Zenon DEF Init, QueueInit, WorkerInit, ReaperInit, ListsOK, WorkerList,
                         ReaperSees, Alive, Gone, Exact
<1>2. Answered
  BY Zenon DEF Init, QueueInit, Answered, Pending
<1> QED  BY <1>1, <1>2, TypeInit, Zenon DEF IInv

(* Who answers for a job can be found: the invariant implies that no job   *)
(* is lost.                                                                *)
LEMMA AnsweredIsRecoverable == IInv => CrashesLoseNothing
<1> SUFFICES ASSUME IInv, Reliable, NEW j \in Jobs, hash[j].status \in Pending
             PROVE  Recoverable(j)
  BY Zenon DEF CrashesLoseNothing, NothingLost
<1>1. /\ \A w \in Workers : WorkerList(w)
      /\ Held(j) \/ Claimed(j)
      /\ processing \in [Workers -> [Jobs -> Nat]]
  BY Zenon DEF IInv, ListsOK, Answered, TypeInv, TypeOK, QueueTypeOK, RedisTypeOK
<1>2. ASSUME NEW w \in Workers, cur[w] = j, BeforeLease(w) \/ AfterLease(w)
      PROVE  Recoverable(j)
  <2>1. Alive(w) /\ processing[w][j] = 1
    BY <1>1, <1>2, Zenon DEF WorkerList, Exact, BeforeLease, AfterLease, Alive, Gone
  <2> QED  BY <2>1 DEF Recoverable
<1>3. ASSUME NEW w \in Workers, pc[w] = "dead", processing[w][j] > 0
      PROVE  Recoverable(j)
  BY <1>1, <1>3, Zenon DEF WorkerList, Recoverable
<1> QED  BY <1>1, <1>2, <1>3, Zenon DEF Held, Claimed, Recoverable

(* However many workers crash, and wherever, no pending job is lost:       *)
(* PopJobReliable, the deferred AckJob, the lease fence and racing reapers *)
(* together, as long as no I/O error, false reap or reaper crash struck.   *)
THEOREM NoJobIsLost == Spec => []CrashesLoseNothing
BY SafeInit, SafeStep, AnsweredIsRecoverable, PTL DEF Spec

-----------------------------------------------------------------------------
(* The copies of a job are counted in three places: the queue, the lists   *)
(* and the hands of reapers.  Every step that leaves workers and handlers  *)
(* where they are takes a copy from one place before it adds it to         *)
(* another.                                                                *)

(* Where j is on the queue.                                                *)
PlacesOf(q, j) == {i \in 1..Len(q) : q[i] = j}

(* What reapers hold of j.                                                 *)
HandsOf(j) == {r \in Reapers : hand[r] = j}

(* A queue holds finitely many entries of a job (LLEN is a number).        *)
LEMMA PlacesFinite ==
  ASSUME NEW q \in Seq(Jobs), NEW j
  PROVE  IsFiniteSet(PlacesOf(q, j)) /\ Cardinality(PlacesOf(q, j)) \in Nat
<1>1. IsFiniteSet(1..Len(q))
  BY FS_Interval
<1>2. PlacesOf(q, j) \in SUBSET (1..Len(q))
  BY Zenon DEF PlacesOf
<1> QED  BY <1>1, <1>2, FS_Subset, FS_CardinalityType, Zenon

(* Finitely many reapers hold an entry between their LREM and their RPUSH. *)
LEMMA HandsFinite ==
  ASSUME NEW j
  PROVE  IsFiniteSet(HandsOf(j)) /\ Cardinality(HandsOf(j)) \in Nat
<1>1. HandsOf(j) \in SUBSET Reapers
  BY Zenon DEF HandsOf
<1> QED  BY <1>1, FleetAssumption, FS_Subset, FS_CardinalityType, Zenon

(* RPUSH adds one entry of the job it pushes, and none of another          *)
(* (PushJob).                                                              *)
LEMMA AppendPlaces ==
  ASSUME NEW q \in Seq(Jobs), NEW k \in Jobs, NEW j
  PROVE  Cardinality(PlacesOf(Append(q, k), j)) =
           Cardinality(PlacesOf(q, j)) + (IF j = k THEN 1 ELSE 0)
<1> DEFINE n == Len(q) + 1
<1>1. n \in Nat /\ n \notin PlacesOf(q, j) /\ Len(Append(q, k)) = n
  BY DEF PlacesOf
<1>2. Append(q, k)[n] = k /\ \A i \in 1..Len(q) : Append(q, k)[i] = q[i]
  OBVIOUS
<1>3. CASE j = k
  <2>1. PlacesOf(Append(q, k), j) = PlacesOf(q, j) \cup {n}
    BY <1>1, <1>2, <1>3 DEF PlacesOf
  <2>2. Cardinality(PlacesOf(q, j) \cup {n}) = Cardinality(PlacesOf(q, j)) + 1
    BY <1>1, PlacesFinite, FS_AddElement, Zenon
  <2> QED  BY <1>3, <2>1, <2>2, Zenon
<1>4. CASE j # k
  <2>1. PlacesOf(Append(q, k), j) = PlacesOf(q, j)
    BY <1>1, <1>2, <1>4 DEF PlacesOf
  <2> QED  BY <1>4, <2>1, PlacesFinite
<1> QED  BY <1>3, <1>4, Zenon

(* A one-to-one map of places into entries of a job bounds their number.   *)
LEMMA FewerPlaces ==
  ASSUME NEW q \in Seq(Jobs), NEW j, NEW T \in SUBSET PlacesOf(q, j),
         NEW S, NEW f \in [S -> T], \A x, y \in S : f[x] = f[y] => x = y
  PROVE  Cardinality(S) <= Cardinality(T)
<1>1. f \in Injection(S, T)
  BY Zenon DEF Injection, IsInjective
<1>2. IsFiniteSet(T)
  BY PlacesFinite, FS_Subset, Zenon
<1> QED  BY <1>1, <1>2, FS_Injection, Zenon

(* BLMOVE takes one entry of the job at the head off the queue             *)
(* (PopJobReliable).                                                       *)
LEMMA TailPlaces ==
  ASSUME NEW q \in Seq(Jobs), q # <<>>, NEW j
  PROVE  Cardinality(PlacesOf(Tail(q), j)) + (IF j = Head(q) THEN 1 ELSE 0) <= Cardinality(PlacesOf(q, j))
<1> DEFINE S == PlacesOf(Tail(q), j)
           T == PlacesOf(q, j) \ {1}
           f == [i \in S |-> i + 1]
<1>1. /\ Len(q) \in Nat \ {0} /\ Head(q) = q[1] /\ Tail(q) \in Seq(Jobs)
      /\ Len(Tail(q)) = Len(q) - 1 /\ \A i \in 1..(Len(q) - 1) : Tail(q)[i] = q[i + 1]
  OBVIOUS
<1>2. \A i \in S : i \in 1..(Len(q) - 1) /\ q[i + 1] = j
  BY <1>1, Zenon DEF PlacesOf
<1>3. \A i \in S : i + 1 \in 1..Len(q) /\ i + 1 # 1
  BY <1>1, <1>2
<1>4. f \in [S -> T]
  BY <1>2, <1>3, Zenon DEF PlacesOf
<1>5. \A x, y \in S : f[x] = f[y] => x = y
  BY <1>2
<1>6. Cardinality(S) <= Cardinality(T)
  <2> HIDE DEF f, S
  <2> QED  BY <1>4, <1>5, FewerPlaces, Zenon
<1>7. Cardinality(T) = IF 1 \in PlacesOf(q, j) THEN Cardinality(PlacesOf(q, j)) - 1
                                               ELSE Cardinality(PlacesOf(q, j))
  BY PlacesFinite, FS_RemoveElement, Zenon
<1>8. j = Head(q) => 1 \in PlacesOf(q, j)
  BY <1>1 DEF PlacesOf
<1>9. Cardinality(PlacesOf(q, j)) \in Nat /\ Cardinality(S) \in Nat
  BY <1>1, PlacesFinite, Zenon
<1> HIDE DEF S, T
<1>10. Cardinality(PlacesOf(Tail(q), j)) = Cardinality(S)
  BY Zenon DEF S
<1> QED  BY <1>6, <1>7, <1>8, <1>9, <1>10

(* LREM of the cancel script adds no entry of any job (CancelJob).         *)
LEMMA LRemPlaces ==
  ASSUME NEW q \in Seq(Jobs), NEW k, NEW j
  PROVE  Cardinality(PlacesOf(LRem(q, k), j)) <= Cardinality(PlacesOf(q, j))
<1>1. CASE ~OnList(q, k)
  <2>1. LRem(q, k) = q
    BY <1>1, Zenon DEF LRem, OnList
  <2> QED  BY <2>1, PlacesFinite
<1>2. CASE OnList(q, k)
  <2> DEFINE t == LRem(q, k)
  <2>1. t \in Seq(Jobs) /\ Without(t, q, k)
    BY <1>2, LRemShape, Zenon
  <2> HIDE DEF t
  <2>2. PICK g \in [1..Len(t) -> 1..Len(q)] :
          /\ \A i \in 1..Len(t) : t[i] = q[g[i]]
          /\ \A i, n \in 1..Len(t) : g[i] = g[n] => i = n
    BY <2>1, Zenon DEF Without
  <2> DEFINE S == PlacesOf(t, j)
             f == [i \in S |-> g[i]]
  <2>3. \A i \in S : i \in 1..Len(t) /\ f[i] \in PlacesOf(q, j)
    BY <2>2, Zenon DEF PlacesOf
  <2>4. \A x, y \in S : f[x] = f[y] => x = y
    BY <2>2, <2>3, Zenon
  <2>5. f \in [S -> PlacesOf(q, j)]
    BY <2>3, Zenon
  <2> HIDE DEF f, S
  <2>6. Cardinality(S) <= Cardinality(PlacesOf(q, j))
    BY <2>4, <2>5, FewerPlaces, Zenon
  <2> QED  BY <2>6, Zenon DEF S, t
<1> QED  BY <1>1, <1>2, Zenon

(* The hands that hold j, when reaper r holds h in place of what it held.   *)
HandMoved(j, r, h) ==
  Cardinality(HandsOf(j)') =
    Cardinality(HandsOf(j)) - (IF hand[r] = j THEN 1 ELSE 0) + (IF h = j THEN 1 ELSE 0)

(* When one reaper takes or drops an entry, the number of hands that hold  *)
(* a job changes by it (RequeueProcessing).                                *)
LEMMA OneHand ==
  ASSUME hand \in [Reapers -> Jobs \cup {NoOne}], NEW r \in Reapers, NEW h \in Jobs \cup {NoOne},
         hand' = [hand EXCEPT ![r] = h], NEW j \in Jobs
  PROVE  HandMoved(j, r, h)
<1> DEFINE A == HandsOf(j)
           B == HandsOf(j)'
<1>1. A \ {r} = B \ {r} /\ (r \in A <=> hand[r] = j) /\ (r \in B <=> h = j)
  BY Zenon DEF HandsOf
<1>2. IsFiniteSet(A) /\ Cardinality(A) \in Nat
  BY HandsFinite, Zenon
<1>3. IsFiniteSet(B) /\ Cardinality(B) \in Nat
  <2>1. B \in SUBSET Reapers
    BY Zenon DEF HandsOf
  <2> QED  BY <2>1, FleetAssumption, FS_Subset, FS_CardinalityType, Zenon
<1> HIDE DEF A, B
<1>4. /\ Cardinality(A \ {r}) = IF r \in A THEN Cardinality(A) - 1 ELSE Cardinality(A)
      /\ Cardinality(B \ {r}) = IF r \in B THEN Cardinality(B) - 1 ELSE Cardinality(B)
  BY <1>2, <1>3, FS_RemoveElement, Zenon
<1>5. Cardinality(B) = Cardinality(A) - (IF hand[r] = j THEN 1 ELSE 0) + (IF h = j THEN 1 ELSE 0)
  BY <1>1, <1>2, <1>3, <1>4
<1> QED  BY <1>5, Zenon DEF A, B, HandMoved

SumListed(j) == SumFunctionOnSet(Listed(j), Workers)

(* The processing lists together hold a number of entries of a job.        *)
LEMMA SumListedType ==
  ASSUME processing \in [Workers -> [Jobs -> Nat]], NEW j \in Jobs
  PROVE  SumListed(j) \in Nat
<1>1. \A w \in Workers : Listed(j)[w] \in Nat
  BY Zenon DEF Listed
<1> QED  BY <1>1, SumClosed, FleetAssumption, Zenon DEF SumListed

(* The entries of j on all lists, when worker w has bag in place of its own. *)
ListMoved(j, w, bag) == SumListed(j)' = SumListed(j) - processing[w][j] + bag[j]

(* When one processing list changes, the entries of a job on all lists     *)
(* change by as much (BLMOVE, LREM).                                       *)
LEMMA OneList ==
  ASSUME processing \in [Workers -> [Jobs -> Nat]], NEW w \in Workers, NEW bag \in [Jobs -> Nat],
         processing' = [processing EXCEPT ![w] = bag], NEW j \in Jobs
  PROVE  ListMoved(j, w, bag)
<1> DEFINE f == Listed(j)
           g == Listed(j)'
<1>1. f[w] = processing[w][j] /\ g[w] = bag[j]
  BY Zenon DEF Listed
<1>4. \A x \in Workers : f[x] \in Int /\ g[x] \in Int
  BY DEF Listed
<1>5. \A x \in Workers : x # w => f[x] = g[x]
  BY Zenon DEF Listed
<1>2. SumListed(j)' = SumFunctionOnSet(g, Workers) /\ SumListed(j) = SumFunctionOnSet(f, Workers)
  BY Zenon DEF SumListed
<1> HIDE DEF f, g
<1>3. SumFunctionOnSet(g, Workers) = SumFunctionOnSet(f, Workers) - f[w] + g[w]
  BY ONLY <1>4, <1>5, SumUpdate, FleetAssumption, w \in Workers
<1> QED  BY <1>1, <1>2, <1>3, Zenon DEF ListMoved


(* The copies of a job: on the queue, on the lists and in hands, before a  *)
(* step and after it.                                                      *)
LEMMA CopiesSplit ==
  ASSUME NEW j
  PROVE  /\ Copies(j) = Cardinality(PlacesOf(jobQueue, j)) + SumListed(j) + Cardinality(HandsOf(j))
         /\ Copies(j)' = Cardinality(PlacesOf(jobQueue', j)) + SumListed(j)' + Cardinality(HandsOf(j)')
BY Zenon DEF Copies, PlacesOf, SumListed, HandsOf

NoMore == \A j \in Jobs : Copies(j)' <= Copies(j)

(* The three counts are natural numbers.                                   *)
LEMMA CountTypes ==
  ASSUME TypeInv, NEW j \in Jobs
  PROVE  /\ Cardinality(PlacesOf(jobQueue, j)) \in Nat
         /\ SumListed(j) \in Nat
         /\ Cardinality(HandsOf(j)) \in Nat
BY PlacesFinite, SumListedType, HandsFinite, Zenon DEF TypeInv, TypeOK, QueueTypeOK, RedisTypeOK

(* Lists and hands unchanged, the queue not longer: no job has more copies *)
(* (CancelJob).                                                            *)
LEMMA SameCopies ==
  ASSUME TypeInv, UNCHANGED <<processing, hand>>,
         \A j \in Jobs : Cardinality(PlacesOf(jobQueue', j)) \in Nat
                         /\ Cardinality(PlacesOf(jobQueue', j)) <= Cardinality(PlacesOf(jobQueue, j))
  PROVE  NoMore
<1> SUFFICES ASSUME NEW j \in Jobs
             PROVE  Copies(j)' <= Copies(j)
  BY Zenon DEF NoMore
<1>1. SumListed(j)' = SumListed(j) /\ HandsOf(j)' = HandsOf(j)
  BY Zenon DEF SumListed, Listed, HandsOf
<1> QED  BY <1>1, CountTypes, CopiesSplit

(* A step that moves no entry adds no copy (heartbeats, leases,            *)
(* registrations).                                                         *)
LEMMA NothingMoves ==
  ASSUME TypeInv, UNCHANGED <<jobQueue, processing, hand>>
  PROVE  NoMore
BY SameCopies, CountTypes

(* LREM list 1 j takes one entry of j, if there is one.                    *)
LEMMA LessBag ==
  ASSUME NEW bag \in [Jobs -> Nat], NEW k \in Jobs
  PROVE  /\ Less(bag, k) \in [Jobs -> Nat]
         /\ \A j \in Jobs : Less(bag, k)[j] =
              bag[j] - (IF j = k /\ bag[k] > 0 THEN 1 ELSE 0)
BY DEF Less

(* BLMOVE onto a list adds one entry of the job.                           *)
LEMMA MoreBag ==
  ASSUME NEW bag \in [Jobs -> Nat], NEW k \in Jobs
  PROVE  /\ More(bag, k) \in [Jobs -> Nat]
         /\ \A j \in Jobs : More(bag, k)[j] = bag[j] + (IF j = k THEN 1 ELSE 0)
BY DEF More

(* A pop moves a copy from the queue to a list, also when its reply is     *)
(* lost (PopJobReliable).                                                  *)
LEMMA PopCopies ==
  ASSUME TypeInv, NEW w \in Workers, PopJobReliable(w), UNCHANGED hand
  PROVE  NoMore
<1> DEFINE k == Head(jobQueue)
           bag == More(processing[w], k)
<1>1. /\ jobQueue \in Seq(Jobs) /\ jobQueue # <<>> /\ processing \in [Workers -> [Jobs -> Nat]]
      /\ processing[w] \in [Jobs -> Nat] /\ jobQueue' = Tail(jobQueue)
      /\ processing' = [processing EXCEPT ![w] = bag]
  BY Zenon DEF TypeInv, TypeOK, QueueTypeOK, RedisTypeOK, PopJobReliable
<1>2. k \in Jobs /\ Tail(jobQueue) \in Seq(Jobs)
  BY <1>1, TailOnList, Zenon
<1>3. /\ bag \in [Jobs -> Nat]
      /\ \A j \in Jobs : bag[j] = processing[w][j] + (IF j = k THEN 1 ELSE 0)
  BY <1>1, <1>2, MoreBag, Zenon
<1> SUFFICES ASSUME NEW j \in Jobs
             PROVE  Copies(j)' <= Copies(j)
  BY Zenon DEF NoMore
<1>4. Cardinality(PlacesOf(Tail(jobQueue), j)) + (IF j = k THEN 1 ELSE 0)
        <= Cardinality(PlacesOf(jobQueue, j))
  BY <1>1, TailPlaces, Zenon
<1>5. Cardinality(PlacesOf(Tail(jobQueue), j)) \in Nat
  BY <1>2, PlacesFinite, Zenon
<1> HIDE DEF bag, k
<1>6. ListMoved(j, w, bag)
  BY <1>1, <1>3, OneList, Zenon
<1>7. HandsOf(j)' = HandsOf(j)
  BY Zenon DEF HandsOf
<1>8. processing[w][j] \in Nat
  BY <1>1, Zenon
<1>9. SumListed(j)' = SumListed(j) + (IF j = k THEN 1 ELSE 0)
  BY <1>3, <1>6, <1>8, CountTypes DEF ListMoved
<1>10. Copies(j)' = Cardinality(PlacesOf(Tail(jobQueue), j)) + SumListed(j)' + Cardinality(HandsOf(j))
  BY <1>1, <1>7, CopiesSplit, Zenon
<1>11. Copies(j) = Cardinality(PlacesOf(jobQueue, j)) + SumListed(j) + Cardinality(HandsOf(j))
  BY CopiesSplit, Zenon
<1> QED  BY <1>4, <1>5, <1>9, <1>10, <1>11, CountTypes

(* RequeueProcessing's LREM moves a copy from a list to the reaper's hand; *)
(* when its reply is lost, the copy is gone.                               *)
LEMMA TakeCopies ==
  ASSUME TypeInv, NEW r \in Reapers, NEW w \in Workers, NEW k \in Jobs,
         RemoveProcessing(w, k), hand[r] \notin Jobs,
         UNCHANGED hand \/ (processing[w][k] > 0 /\ hand' = [hand EXCEPT ![r] = k])
  PROVE  NoMore
<1> DEFINE bag == Less(processing[w], k)
<1>1. /\ processing \in [Workers -> [Jobs -> Nat]] /\ processing[w] \in [Jobs -> Nat]
      /\ hand \in [Reapers -> Jobs \cup {NoOne}] /\ jobQueue' = jobQueue
      /\ processing' = [processing EXCEPT ![w] = bag]
  BY Zenon DEF TypeInv, TypeOK, QueueTypeOK, RedisTypeOK, ReaperTypeOK, RemoveProcessing
<1>2. /\ bag \in [Jobs -> Nat]
      /\ \A j \in Jobs : bag[j] = processing[w][j] - (IF j = k /\ processing[w][k] > 0 THEN 1 ELSE 0)
  BY <1>1, LessBag, Zenon
<1> HIDE DEF bag
<1> SUFFICES ASSUME NEW j \in Jobs
             PROVE  Copies(j)' <= Copies(j)
  BY Zenon DEF NoMore
<1>3. SumListed(j)' = SumListed(j) - processing[w][j] + bag[j]
  <2>1. ListMoved(j, w, bag)
    BY <1>1, <1>2, OneList, Zenon
  <2> QED  BY <2>1, Zenon DEF ListMoved
<1>4. processing[w][j] \in Nat /\ bag[j] \in Nat
  BY <1>1, <1>2, Zenon
<1>5. CASE UNCHANGED hand
  <2>1. HandsOf(j)' = HandsOf(j)
    BY <1>5, Zenon DEF HandsOf
  <2>2. SumListed(j)' <= SumListed(j)
    BY <1>2, <1>3, <1>4, CountTypes
  <2>3. SumListed(j)' \in Int
    BY <1>3, <1>4, CountTypes
  <2> QED  BY <1>1, <2>1, <2>2, <2>3, CountTypes, CopiesSplit
<1>6. CASE processing[w][k] > 0 /\ hand' = [hand EXCEPT ![r] = k]
  <2>0. HandMoved(j, r, k)
    BY <1>1, <1>6, OneHand, Zenon
  <2>1. Cardinality(HandsOf(j)') =
          Cardinality(HandsOf(j)) - (IF hand[r] = j THEN 1 ELSE 0) + (IF k = j THEN 1 ELSE 0)
    BY <1>1, <1>6, <2>0, Zenon DEF HandMoved
  <2>2. Cardinality(HandsOf(j)') = Cardinality(HandsOf(j)) + (IF j = k THEN 1 ELSE 0)
    BY <2>1, CountTypes
  <2>3. SumListed(j)' = SumListed(j) - (IF j = k THEN 1 ELSE 0)
    BY <1>2, <1>3, <1>4, <1>6, CountTypes
  <2> QED  BY <1>1, <2>2, <2>3, CountTypes, CopiesSplit
<1> QED  BY <1>5, <1>6, Zenon

(* RequeueProcessing's RPUSH moves the copy in the hand to the queue, or   *)
(* loses it.                                                               *)
LEMMA GiveCopies ==
  ASSUME TypeInv, NEW r \in Reapers, hand[r] \in Jobs,
         hand' = [hand EXCEPT ![r] = NoOne], PushJob(hand[r]) \/ UNCHANGED redis
  PROVE  NoMore
<1> DEFINE k == hand[r]
<1>1. /\ jobQueue \in Seq(Jobs) /\ hand \in [Reapers -> Jobs \cup {NoOne}]
      /\ UNCHANGED processing /\ k \in Jobs
  BY Zenon DEF TypeInv, TypeOK, QueueTypeOK, RedisTypeOK, ReaperTypeOK, PushJob, redis
<1>2. jobQueue' = Append(jobQueue, k) \/ jobQueue' = jobQueue
  BY Zenon DEF PushJob, redis
<1> HIDE DEF k
<1> SUFFICES ASSUME NEW j \in Jobs
             PROVE  Copies(j)' <= Copies(j)
  BY Zenon DEF NoMore
<1>3. SumListed(j)' = SumListed(j)
  BY <1>1, Zenon DEF SumListed, Listed
<1>4. HandMoved(j, r, NoOne)
  BY <1>1, OneHand, Zenon
<1>5. Cardinality(HandsOf(j)') = Cardinality(HandsOf(j)) - (IF j = k THEN 1 ELSE 0)
  BY <1>4, CountTypes, QueueAssumption DEF k, HandMoved
<1>6. \/ Cardinality(PlacesOf(jobQueue', j)) = Cardinality(PlacesOf(jobQueue, j)) + (IF j = k THEN 1 ELSE 0)
      \/ Cardinality(PlacesOf(jobQueue', j)) = Cardinality(PlacesOf(jobQueue, j))
  <2>1. Cardinality(PlacesOf(Append(jobQueue, k), j)) =
          Cardinality(PlacesOf(jobQueue, j)) + (IF j = k THEN 1 ELSE 0)
    BY <1>1, AppendPlaces
  <2>2. CASE jobQueue' = Append(jobQueue, k)
    BY <2>1, <2>2, Zenon
  <2>3. CASE jobQueue' = jobQueue
    BY <2>3, Zenon
  <2> QED  BY <1>2, <2>2, <2>3, Zenon
<1> QED  BY <1>3, <1>5, <1>6, CountTypes, CopiesSplit

(* A reaper that returns or dies drops what it holds (reapWorker).         *)
LEMMA DropCopies ==
  ASSUME TypeInv, NEW r \in Reapers, hand' = [hand EXCEPT ![r] = NoOne],
         UNCHANGED <<jobQueue, processing>>
  PROVE  NoMore
<1>1. hand \in [Reapers -> Jobs \cup {NoOne}]
  BY Zenon DEF TypeInv, TypeOK, ReaperTypeOK
<1> SUFFICES ASSUME NEW j \in Jobs
             PROVE  Copies(j)' <= Copies(j)
  BY Zenon DEF NoMore
<1>2. SumListed(j)' = SumListed(j)
  BY Zenon DEF SumListed, Listed
<1>3. HandMoved(j, r, NoOne)
  BY <1>1, OneHand, Zenon
<1>4. Cardinality(HandsOf(j)') \in Int /\ Cardinality(HandsOf(j)') <= Cardinality(HandsOf(j))
  BY <1>3, CountTypes, QueueAssumption DEF HandMoved
<1> QED  BY <1>2, <1>4, CountTypes, CopiesSplit

(* No step of a reaper adds a copy of a job (reapWorker,                   *)
(* RequeueProcessing).                                                     *)
LEMMA ReaperCopies ==
  ASSUME TypeInv, NEW r \in Reapers, ReaperNext(r)
  PROVE  NoMore
<1>0. ReaperOK(r)
  BY Zenon DEF TypeInv, ControlOK
<1>1. CASE \E w \in Workers : ReapCheck(r, w)
  BY <1>1, NothingMoves, Zenon DEF ReapCheck, redis
<1>2. CASE ReapRange(r)
  BY <1>2, NothingMoves, DropCopies, Zenon DEF ReapRange, Done, redis
<1>3. CASE \E k \in Jobs : ReapRemove(r, k)
  <2>1. PICK k \in Jobs : ReapRemove(r, k)
    BY <1>3, Zenon
  <2>2. target[r] \in Workers /\ hand[r] \notin Jobs
    BY <1>0, <2>1, Zenon DEF ReapRemove, ReaperOK
  <2>3. \/ /\ RemoveProcessing(target[r], k)
           /\ UNCHANGED hand \/ (processing[target[r]][k] > 0 /\ hand' = [hand EXCEPT ![r] = k])
        \/ UNCHANGED <<redis, hand>>
    BY <2>1, Zenon DEF ReapRemove
  <2> QED  BY <2>2, <2>3, TakeCopies, NothingMoves, Zenon DEF redis
<1>4. CASE ReapPush(r)
  BY <1>0, <1>4, GiveCopies, Zenon DEF ReapPush, ReaperOK
<1>5. CASE ReapDelete(r)
  BY <1>5, DropCopies, Zenon DEF ReapDelete, Done, WriteRegistration, redis
<1>6. CASE ReaperCrash(r)
  BY <1>6, DropCopies, Zenon DEF ReaperCrash, Done, redis
<1> QED  BY <1>1, <1>2, <1>3, <1>4, <1>5, <1>6, Zenon DEF ReaperNext

(* Every step of a worker but a heartbeat and a pop with a lost reply      *)
(* moves its control (Start, processJob).                                  *)
LEMMA WorkerMoves ==
  ASSUME TypeInv, NEW w \in Workers, WorkerNext(w), UNCHANGED workerVars
  PROVE  Heartbeat(w) \/ PopJobReliable(w)
<1>1. pc \in [Workers -> Busy \cup Gone \cup {"idle"}] /\ pc' = pc /\ WorkerOK(w)
  BY Zenon DEF TypeInv, TypeOK, WorkerTypeOK, ControlOK, workerVars
<1>2. ASSUME NEW p, Goto(w, p)
      PROVE  pc[w] = p
  BY <1>1, <1>2, Zenon DEF Goto
<1>3. ~Start(w) /\ ~Stop(w) /\ ~Crash(w)
  BY <1>2, Zenon DEF Start, Stop, Crash, Alive, Gone
<1>4. ~Update(w)
  <2>1. pc[w] = "update" => AfterUpdate[job[w].status] # "update"
    BY <1>1 DEF AfterUpdate, WorkerOK
  <2> QED  BY <1>2, <2>1, Zenon DEF Update
<1>5. ~Load(w) /\ ~Lease(w) /\ ~PreCheck(w) /\ ~Scan(w) /\ ~Reread(w)
  BY <1>2, Zenon DEF Load, Lease, PreCheck, Superseded, Scan, Reread
<1>6. ~Success(w) /\ ~Failure(w) /\ ~Push(w) /\ ~ToDLQ(w) /\ ~Clear(w) /\ ~Discard(w) /\ ~Ack(w)
  BY <1>2, Zenon DEF Success, Superseded, Failure, Push, ToDLQ, Clear, Discard, Ack
<1> QED  BY <1>3, <1>4, <1>5, <1>6, Zenon DEF WorkerNext, ProcessJob, Pop

(* Every handler but the one that cancels moves its control (routers.go).  *)
LEMMA ApiMoves ==
  ASSUME TypeInv, NEW j \in Jobs, ApiNext(j), UNCHANGED apiVars
  PROVE  CancelJob(j)
<1>1. /\ request \in [Jobs -> {"new", "stored", "undo", "accepted", "rejected"}]
      /\ retrying \in [Jobs -> Nat] /\ UNCHANGED <<request, retrying>>
  BY Zenon DEF TypeInv, TypeOK, ApiTypeOK, apiVars
<1>2. ASSUME NEW a, Reply(j, a)
      PROVE  request[j] = a
  BY <1>1, <1>2, Zenon DEF Reply
<1>3. ~UploadPut(j) /\ ~UploadEnqueue(j) /\ ~UploadUndo(j)
  BY <1>2, Zenon DEF UploadPut, UploadEnqueue, UploadUndo
<1>4. ~RetryDLQRemove(j)
  BY <1>1 DEF RetryDLQRemove, More
<1>5. ~RetryDLQEnqueue(j)
  BY <1>1 DEF RetryDLQEnqueue, Less
<1> QED  BY <1>3, <1>4, <1>5, Zenon DEF ApiNext, Cancel

(* A cancel only takes an entry off the queue (cancelJobScript).           *)
LEMMA CancelCopies ==
  ASSUME TypeInv, NEW k \in Jobs, CancelJob(k), UNCHANGED hand
  PROVE  NoMore
<1>1. jobQueue \in Seq(Jobs)
  BY Zenon DEF TypeInv, TypeOK, QueueTypeOK, RedisTypeOK
<1>2. jobQueue' = jobQueue \/ jobQueue' = LRem(jobQueue, k)
  BY Zenon DEF CancelJob
<1>3. LRem(jobQueue, k) \in Seq(Jobs)
  BY <1>1, LRemOnList, Zenon
<1>4. ASSUME NEW j \in Jobs
      PROVE  /\ Cardinality(PlacesOf(jobQueue', j)) \in Nat
             /\ Cardinality(PlacesOf(jobQueue', j)) <= Cardinality(PlacesOf(jobQueue, j))
  BY <1>1, <1>2, <1>3, LRemPlaces, PlacesFinite
<1> QED  BY <1>4, SameCopies, Zenon DEF CancelJob

(* A step that leaves workers and handlers where they are adds no copy.    *)
LEMMA NoMoreStep ==
  ASSUME TypeInv, [Next]_vars, UNCHANGED <<workerVars, apiVars>>
  PROVE  NoMore
<1>1. CASE \E w \in Workers : Worker(w)
  <2>1. PICK w \in Workers : Worker(w)
    BY <1>1, Zenon
  <2>2. Heartbeat(w) \/ PopJobReliable(w)
    BY <2>1, WorkerMoves, Zenon DEF Worker
  <2>3. UNCHANGED hand
    BY <2>1, Zenon DEF Worker, reaperVars
  <2> QED  BY <2>2, <2>3, PopCopies, NothingMoves, Zenon DEF Heartbeat, WriteRegistration
<1>2. CASE \E r \in Reapers : Reap(r)
  BY <1>2, ReaperCopies, Zenon DEF Reap
<1>3. CASE \E j \in Jobs : Api(j)
  BY <1>3, ApiMoves, CancelCopies, Zenon DEF Api, reaperVars
<1>4. CASE Clock
  BY <1>4, NothingMoves, Zenon
  DEF Clock, HeartbeatAges, LeaseExpires, WriteRegistration, WriteLease, reaperVars
<1>5. CASE UNCHANGED vars
  BY <1>5, NothingMoves, Zenon DEF vars, redis, reaperVars
<1> QED  BY <1>1, <1>2, <1>3, <1>4, <1>5, Zenon DEF Next

(* Reapers, expiries, heartbeats, cancels and pops whose reply is lost     *)
(* never add a copy of a job, whatever fails and however many reapers      *)
(* visit one list: RequeueProcessing pushes only what its own LREM         *)
(* removed. For every fleet and every budget of events.                    *)
THEOREM ReapersAddNothing == Spec => ReapersNeverDuplicate
<1>1. TypeInv /\ [Next]_vars
        => [UNCHANGED <<workerVars, apiVars>> => \A j \in Jobs : Copies(j)' <= Copies(j)]_vars
  BY NoMoreStep, Zenon DEF NoMore
<1> QED  BY <1>1, TypeCorrect, PTL DEF Spec, ReapersNeverDuplicate
=============================================================================
