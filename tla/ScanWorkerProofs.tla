-------------------------- MODULE ScanWorkerProofs --------------------------
(***************************************************************************)
(* For every set of jobs, workers and reapers, every retry limit, queue    *)
(* limit and budget of events: types, control states and retry counts are  *)
(* right.  Before that, what the commands of the queue do to the elements  *)
(* of the main queue and to the types of all keys.  After it, the          *)
(* invariant behind "worker crashes lose no job", and that every step of a *)
(* worker keeps it; the invariant behind "a job is in one place only", and *)
(* what the calls of a worker do to the place of its job.                  *)
(***************************************************************************)
EXTENDS ScanService, TLAPS

-----------------------------------------------------------------------------
(* Lemmas about the queue. *)

(* RPUSH adds its element and keeps the others (PushJob).                  *)
LEMMA AppendOnList ==
  ASSUME NEW S, NEW s \in Seq(S), NEW x \in S
  PROVE  /\ Append(s, x) \in Seq(S)
         /\ OnList(Append(s, x), x)
         /\ \A y : OnList(s, y) => OnList(Append(s, x), y)
<1>1. Append(s, x) \in Seq(S) /\ Len(Append(s, x)) = Len(s) + 1
  OBVIOUS
<1>2. \A i \in 1..Len(s) : Append(s, x)[i] = s[i]
  OBVIOUS
<1>3. Append(s, x)[Len(s) + 1] = x
  OBVIOUS
<1> QED  BY <1>1, <1>2, <1>3 DEF OnList

(* BLMOVE takes the head and keeps the others (PopJobReliable).            *)
LEMMA TailOnList ==
  ASSUME NEW S, NEW s \in Seq(S), s # <<>>
  PROVE  /\ Tail(s) \in Seq(S) /\ Head(s) \in S
         /\ \A y : OnList(s, y) => y = Head(s) \/ OnList(Tail(s), y)
<1>1. Tail(s) \in Seq(S) /\ Len(Tail(s)) = Len(s) - 1 /\ Head(s) = s[1]
      /\ Len(s) \in Nat \ {0}
  OBVIOUS
<1>2. \A i \in 1..Len(Tail(s)) : Tail(s)[i] = s[i + 1]
  OBVIOUS
<1>3. ASSUME NEW y, NEW i \in 1..Len(s), s[i] = y, y # Head(s)
      PROVE  OnList(Tail(s), y)
  <2>1. i - 1 \in 1..Len(Tail(s)) /\ Tail(s)[i - 1] = y
    BY <1>1, <1>2, <1>3
  <2> QED  BY <2>1, Zenon DEF OnList
<1> QED  BY <1>1, <1>3 DEF OnList

(* List t is list s without one x: f tells where each entry of t was.      *)
Without(t, s, x) ==
  /\ Len(s) \in Nat /\ Len(t) = Len(s) - 1
  /\ \E f \in [1..Len(t) -> 1..Len(s)] :
       /\ \A i \in 1..Len(t) : t[i] = s[f[i]]
       /\ \A i, n \in 1..Len(t) : f[i] = f[n] => i = n
       /\ \A m \in 1..Len(s) : s[m] # x => \E i \in 1..Len(t) : f[i] = m

(* LREM takes one of the named elements off the list (cancelJobScript).    *)
LEMMA LRemShape ==
  ASSUME NEW S, NEW s \in Seq(S), NEW x, OnList(s, x)
  PROVE  LRem(s, x) \in Seq(S) /\ Without(LRem(s, x), s, x)
<1> DEFINE t == LRem(s, x)
           Before(i) == \A h \in 1..i : s[h] # x
           f == [i \in 1..(Len(s) - 1) |-> IF Before(i) THEN i ELSE i + 1]
<1>1. PICK k \in 1..Len(s) : s[k] = x
  BY Zenon DEF OnList
<1>2. Len(s) - 1 \in Nat
  BY <1>1
<1>3. t = [i \in 1..(Len(s) - 1) |-> IF Before(i) THEN s[i] ELSE s[i + 1]]
  BY Zenon DEF LRem
<1> HIDE DEF t
<1>4. t \in Seq(S) /\ Len(t) = Len(s) - 1
  BY <1>2, <1>3
<1>5. \A i, n \in 1..(Len(s) - 1) : i < n /\ Before(n) => Before(i)
  OBVIOUS
<1>6. ASSUME NEW m \in 1..Len(s), s[m] # x PROVE \E i \in 1..(Len(s) - 1) : f[i] = m
  <2>1. CASE Before(m)
    <3>1. m \in 1..(Len(s) - 1)
      BY <1>1, <2>1
    <3>2. f[m] = m
      BY <2>1, <3>1, Zenon
    <3> QED  BY <3>1, <3>2, Zenon
  <2>2. CASE ~Before(m)
    <3>1. PICK h \in 1..m : s[h] = x
      BY <2>2, Zenon
    <3>2. m - 1 \in 1..(Len(s) - 1) /\ h \in 1..(m - 1)
      BY <1>6, <3>1
    <3>3. ~Before(m - 1)
      BY <3>1, <3>2, Zenon
    <3>4. f[m - 1] = m
      BY <3>2, <3>3
    <3> QED  BY <3>2, <3>4, Zenon
  <2> QED  BY <2>1, <2>2, Zenon
<1>7. \A i \in 1..(Len(s) - 1) : /\ f[i] \in 1..Len(s) /\ f[i] = (IF Before(i) THEN i ELSE i + 1)
                                 /\ t[i] = s[f[i]]
  BY <1>3
<1> HIDE DEF Before
<1>8. \A i, n \in 1..(Len(s) - 1) : f[i] = f[n] => i = n
  BY <1>2, <1>5, <1>7
<1>9. f \in [1..(Len(s) - 1) -> 1..Len(s)]
  BY <1>7, Zenon
<1> HIDE DEF f
<1>10. /\ f \in [1..Len(t) -> 1..Len(s)]
       /\ \A i \in 1..Len(t) : t[i] = s[f[i]]
       /\ \A i, n \in 1..Len(t) : f[i] = f[n] => i = n
  BY <1>4, <1>7, <1>8, <1>9, Zenon
<1>11. \A m \in 1..Len(s) : s[m] # x => \E i \in 1..Len(t) : f[i] = m
  BY <1>4, <1>6, Zenon
<1>12. Len(s) \in Nat
  OBVIOUS
<1> QED  BY <1>4, <1>10, <1>11, <1>12, Zenon DEF t, Without

(* LREM removes at most the named element (cancelJobScript).               *)
LEMMA LRemOnList ==
  ASSUME NEW S, NEW s \in Seq(S), NEW x
  PROVE  /\ LRem(s, x) \in Seq(S)
         /\ \A y : y # x /\ OnList(s, y) => OnList(LRem(s, x), y)
<1>1. CASE ~OnList(s, x)
  BY <1>1, Zenon DEF LRem, OnList
<1>2. CASE OnList(s, x)
  <2> DEFINE t == LRem(s, x)
  <2>1. t \in Seq(S) /\ Without(t, s, x)
    BY <1>2, LRemShape, Zenon
  <2> HIDE DEF t
  <2>2. ASSUME NEW y, y # x, NEW m \in 1..Len(s), s[m] = y
        PROVE  \E n \in 1..Len(t) : t[n] = y
    <3>1. PICK f \in [1..Len(t) -> 1..Len(s)] :
            /\ \A i \in 1..Len(t) : t[i] = s[f[i]]
            /\ \A h \in 1..Len(s) : s[h] # x => \E i \in 1..Len(t) : f[i] = h
      BY <2>1, Zenon DEF Without
    <3>2. PICK n \in 1..Len(t) : f[n] = m
      BY <2>2, <3>1, Zenon
    <3>3. t[n] = y
      BY <2>2, <3>1, <3>2, Zenon
    <3> QED  BY <3>3, Zenon
  <2> QED  BY <2>1, <2>2, Zenon DEF OnList, t
<1> QED  BY <1>1, <1>2, Zenon

(* RPUSH of a job that is not queued leaves no duplicate in the queue, and *)
(* adds that job only (PushJob, EnqueueJobAtomic).                         *)
LEMMA AppendDistinct ==
  ASSUME NEW S, NEW s \in Seq(S), NEW x \in S, IsInjective(s), ~OnList(s, x)
  PROVE  /\ IsInjective(Append(s, x))
         /\ \A y : OnList(Append(s, x), y) <=> OnList(s, y) \/ y = x
<1>1. /\ Append(s, x) \in Seq(S) /\ Len(Append(s, x)) = Len(s) + 1
      /\ DOMAIN Append(s, x) = 1..(Len(s) + 1) /\ DOMAIN s = 1..Len(s) /\ Len(s) \in Nat
  OBVIOUS
<1>2. \A i \in 1..Len(s) : Append(s, x)[i] = s[i]
  OBVIOUS
<1>3. Append(s, x)[Len(s) + 1] = x
  OBVIOUS
<1>4. \A i \in 1..Len(s) : s[i] # x
  BY Zenon DEF OnList
<1>5. \A i \in 1..(Len(s) + 1) : i \in 1..Len(s) \/ i = Len(s) + 1
  BY <1>1
<1>6. IsInjective(Append(s, x))
  BY <1>1, <1>2, <1>3, <1>4, <1>5, Zenon DEF IsInjective
<1> QED  BY <1>1, <1>2, <1>3, <1>5, <1>6 DEF OnList

(* BLMOVE takes the one entry of its job from a queue without duplicates   *)
(* (PopJobReliable).                                                       *)
LEMMA TailDistinct ==
  ASSUME NEW S, NEW s \in Seq(S), s # <<>>, IsInjective(s)
  PROVE  /\ IsInjective(Tail(s)) /\ ~OnList(Tail(s), Head(s)) /\ OnList(s, Head(s))
         /\ \A y : OnList(Tail(s), y) => OnList(s, y)
<1>1. /\ Tail(s) \in Seq(S) /\ Len(Tail(s)) = Len(s) - 1 /\ Head(s) = s[1]
      /\ Len(s) \in Nat \ {0}
      /\ DOMAIN Tail(s) = 1..(Len(s) - 1) /\ DOMAIN s = 1..Len(s)
  OBVIOUS
<1>2. \A i \in 1..(Len(s) - 1) : Tail(s)[i] = s[i + 1] /\ i + 1 \in 1..Len(s)
  BY <1>1
<1>3. \A i, k \in 1..Len(s) : s[i] = s[k] => i = k
  BY <1>1, Zenon DEF IsInjective
<1>4. \A i \in 1..(Len(s) - 1) : i + 1 # 1 /\ 1 \in 1..Len(s)
  BY <1>1
<1>5. \A i, k \in 1..(Len(s) - 1) : Tail(s)[i] = Tail(s)[k] => i = k
  <2> TAKE i, k \in 1..(Len(s) - 1)
  <2>1. Tail(s)[i] = s[i + 1] /\ Tail(s)[k] = s[k + 1]
    BY <1>2, Zenon
  <2>2. i + 1 \in 1..Len(s) /\ k + 1 \in 1..Len(s)
    BY <1>2, Zenon
  <2>3. i + 1 = k + 1 => i = k
    BY <1>1
  <2> QED  BY <1>3, <2>1, <2>2, <2>3, Zenon
<1>6. \A i \in 1..(Len(s) - 1) : Tail(s)[i] # s[1]
  BY <1>2, <1>3, <1>4, Zenon
<1>7. 1 \in 1..Len(s)
  BY <1>1
<1> QED  BY <1>1, <1>2, <1>5, <1>6, <1>7 DEF IsInjective, OnList

(* LREM leaves no duplicate and adds nothing (cancelJobScript).            *)
LEMMA LRemDistinct ==
  ASSUME NEW S, NEW s \in Seq(S), NEW x, IsInjective(s)
  PROVE  /\ IsInjective(LRem(s, x))
         /\ \A y : OnList(LRem(s, x), y) => OnList(s, y)
<1>1. CASE ~OnList(s, x)
  BY <1>1, Zenon DEF LRem, OnList
<1>2. CASE OnList(s, x)
  <2> DEFINE t == LRem(s, x)
  <2>1. t \in Seq(S) /\ Without(t, s, x)
    BY <1>2, LRemShape, Zenon
  <2> HIDE DEF t
  <2>2. PICK f \in [1..Len(t) -> 1..Len(s)] :
          /\ \A i \in 1..Len(t) : t[i] = s[f[i]]
          /\ \A i, n \in 1..Len(t) : f[i] = f[n] => i = n
    BY <2>1, Zenon DEF Without
  <2>3. \A i \in 1..Len(t) : f[i] \in 1..Len(s)
    BY <2>2, Zenon
  <2>4. DOMAIN s = 1..Len(s) /\ DOMAIN t = 1..Len(t)
    BY <2>1
  <2>5. IsInjective(t)
    BY <2>2, <2>3, <2>4 DEF IsInjective
  <2>6. \A y : OnList(t, y) => OnList(s, y)
    BY <2>2, <2>3, Zenon DEF OnList
  <2> QED  BY <2>5, <2>6, Zenon DEF t
<1> QED  BY <1>1, <1>2, Zenon

-----------------------------------------------------------------------------
(* Every command of queue.go leaves well-typed keys.                       *)
LEMMA WorkerCommands ==
  ASSUME RedisTypeOK, NEW w \in Workers
  PROVE  /\ PopJobReliable(w) => RedisTypeOK' /\ Head(jobQueue) \in Jobs
         /\ \A a \in {"none", "fresh", "stale"} :
              WriteRegistration(w, a) => RedisTypeOK'
<1>1. ASSUME PopJobReliable(w)
      PROVE  RedisTypeOK' /\ Head(jobQueue) \in Jobs
  <2>1. Tail(jobQueue) \in Seq(Jobs) /\ Head(jobQueue) \in Jobs
    BY <1>1, TailOnList, Zenon DEF RedisTypeOK, PopJobReliable
  <2>2. More(processing[w], Head(jobQueue)) \in [Jobs -> Nat]
    BY <2>1 DEF RedisTypeOK, More
  <2> QED  BY <1>1, <2>1, <2>2, Zenon DEF RedisTypeOK, PopJobReliable
<1>2. \A a \in {"none", "fresh", "stale"} : WriteRegistration(w, a) => RedisTypeOK'
  BY Zenon DEF RedisTypeOK, WriteRegistration
<1> QED  BY <1>1, <1>2, Zenon

(* The same for the commands on a job                                      *)
(* (UpdateJob, PushJob, MoveToDLQ, cancelJobScript, SetJobLease).          *)
LEMMA JobCommands ==
  ASSUME RedisTypeOK, NEW j \in Jobs
  PROVE  /\ \A job0 \in ScanJob : UpdateJob(j, job0) => RedisTypeOK'
         /\ EnqueueJobAtomic(j) => RedisTypeOK'
         /\ PushJob(j) => RedisTypeOK'
         /\ \A w \in Workers : RemoveProcessing(w, j) => RedisTypeOK'
         /\ MoveToDLQ(j) => RedisTypeOK'
         /\ RemoveDLQ(j) => RedisTypeOK'
         /\ CancelJob(j) => RedisTypeOK'
         /\ \A o \in Workers \cup {NoOne} : WriteLease(j, o) => RedisTypeOK'
<1>1. \A job0 \in ScanJob : UpdateJob(j, job0) => RedisTypeOK'
  BY Zenon DEF RedisTypeOK, UpdateJob
<1>2. [status |-> "queued", retry |-> 0] \in ScanJob
  BY QueueAssumption DEF ScanJob, Status, Pending
<1>3. Append(jobQueue, j) \in Seq(Jobs)
  BY AppendOnList, Zenon DEF RedisTypeOK
<1>4. EnqueueJobAtomic(j) => RedisTypeOK'
  BY <1>2, <1>3, Zenon DEF RedisTypeOK, EnqueueJobAtomic
<1>5. PushJob(j) => RedisTypeOK'
  BY <1>3, Zenon DEF RedisTypeOK, PushJob
<1>6. ASSUME NEW w \in Workers, RemoveProcessing(w, j)
      PROVE  RedisTypeOK'
  <2>1. Less(processing[w], j) \in [Jobs -> Nat]
    BY DEF RedisTypeOK, Less
  <2> QED  BY <1>6, <2>1, Zenon DEF RedisTypeOK, RemoveProcessing
<1>7. MoveToDLQ(j) => RedisTypeOK'
  BY DEF RedisTypeOK, MoveToDLQ, More
<1>8. RemoveDLQ(j) => RedisTypeOK'
  BY DEF RedisTypeOK, RemoveDLQ, Less
<1>9. CancelJob(j) => RedisTypeOK'
  <2>1. LRem(jobQueue, j) \in Seq(Jobs)
    BY LRemOnList, Zenon DEF RedisTypeOK
  <2>2. [hash[j] EXCEPT !.status = "cancelled"] \in ScanJob
    BY Zenon DEF RedisTypeOK, ScanJob, Status, Terminal
  <2> QED  BY <2>1, <2>2, Zenon DEF RedisTypeOK, CancelJob
<1>10. \A o \in Workers \cup {NoOne} : WriteLease(j, o) => RedisTypeOK'
  BY Zenon DEF RedisTypeOK, WriteLease
<1> QED  BY <1>1, <1>4, <1>5, <1>6, <1>7, <1>8, <1>9, <1>10, Zenon

-----------------------------------------------------------------------------
(* The inductive invariant. *)

(* Control state and local variables of a worker agree, and no copy of a   *)
(* job that can still be run has used up its retries.                      *)
WorkerOK(w) ==
  /\ cur[w] \in Jobs <=> pc[w] \in Busy
  /\ pc[w] \in {"lease", "precheck", "scan", "reread", "success", "failure"}
       => job[w].status = "processing"
  /\ pc[w] = "update"
       => job[w].status \in {"processing", "completed", "queued", "failed"}
  /\ job[w].status # "failed" => job[w].retry < MaxRetries

ReaperOK(r) ==
  /\ hand[r] \in Jobs <=> rpc[r] = "repush"
  /\ target[r] \in Workers <=> rpc[r] # "idle"

ControlOK ==
  /\ \A w \in Workers : WorkerOK(w)
  /\ \A r \in Reapers : ReaperOK(r)
  /\ RetriesBounded

BudgetOK == \A k \in Events : budget[k] <= Budget[k]

TypeInv == TypeOK /\ ControlOK /\ BudgetOK

-----------------------------------------------------------------------------
(* Type correctness. *)

(* An empty Redis, workers not started, idle reapers (NewJobQueue).        *)
LEMMA TypeInit == Init => TypeInv
BY QueueAssumption
DEF Init, QueueInit, StoreInit, WorkerInit, ReaperInit, ApiInit, TypeInv, TypeOK,
    QueueTypeOK, RedisTypeOK, StoreTypeOK, WorkerTypeOK, ReaperTypeOK, ApiTypeOK, ScanJob,
    Status, Pending, Terminal, Busy, Gone, NoJob, Nothing, ControlOK, WorkerOK, ReaperOK,
    RetriesBounded, BudgetOK, Events

(* A step spends at most what is left (Strikes).                           *)
LEMMA BudgetTypes ==
  ASSUME TypeInv, Fine \/ \E k \in Events : Strikes(k)
  PROVE  budget' \in [Events -> Nat] /\ BudgetOK'
BY QueueAssumption
DEF TypeInv, TypeOK, QueueTypeOK, BudgetOK, Fine, Strikes

(* A step of worker w that moves it to p with locals c and b.              *)
LEMMA WorkerLocals ==
  ASSUME TypeInv, NEW w \in Workers, NEW p, NEW c, NEW b,
         pc' = [pc EXCEPT ![w] = p], p \in Busy \cup Gone \cup {"idle"},
         cur' = [cur EXCEPT ![w] = c], c \in Jobs \cup {NoOne},
         job' = [job EXCEPT ![w] = b], b \in ScanJob,
         c \in Jobs <=> p \in Busy,
         p \in {"lease", "precheck", "scan", "reread", "success", "failure"}
           => b.status = "processing",
         p = "update" => b.status \in {"processing", "completed", "queued", "failed"},
         b.status # "failed" => b.retry < MaxRetries
  PROVE  WorkerTypeOK' /\ \A v \in Workers : WorkerOK(v)'
<1>1. WorkerTypeOK'
  BY Zenon DEF TypeInv, TypeOK, WorkerTypeOK
<1>2. ASSUME NEW v \in Workers
      PROVE  WorkerOK(v)'
  <2>1. CASE v = w
    BY <2>1, Zenon DEF TypeInv, TypeOK, WorkerTypeOK, WorkerOK
  <2>2. CASE v # w
    BY <2>2, Zenon DEF TypeInv, TypeOK, WorkerTypeOK, ControlOK, WorkerOK
  <2> QED  BY <2>1, <2>2, Zenon
<1> QED  BY <1>1, <1>2, Zenon

(* processJob returned, or the process died.                               *)
LEMMA ForgetTypes ==
  ASSUME TypeInv, NEW w \in Workers, Forget(w), Goto(w, "idle") \/ Goto(w, "dead")
  PROVE  WorkerTypeOK' /\ \A v \in Workers : WorkerOK(v)'
<1>1. /\ NoJob \in ScanJob /\ NoJob.status = "none" /\ NoJob.retry < MaxRetries
      /\ NoOne \notin Jobs
  BY QueueAssumption DEF NoJob, ScanJob, Status
<1>2. PICK p \in {"idle", "dead"} : pc' = [pc EXCEPT ![w] = p]
  BY Zenon DEF Goto
<1>3. p \in Busy \cup Gone \cup {"idle"} /\ p \notin Busy
  BY Zenon DEF Busy, Gone
<1> HIDE DEF NoJob
<1> QED  BY <1>1, <1>2, <1>3, WorkerLocals, Zenon DEF Forget

(* Every step of a worker leaves it in a consistent control state.         *)
LEMMA WorkerTypes ==
  ASSUME TypeInv, NEW w \in Workers, WorkerNext(w)
  PROVE  WorkerTypeOK' /\ \A v \in Workers : WorkerOK(v)'
<1> USE QueueAssumption
    DEF TypeInv, TypeOK, WorkerTypeOK, ControlOK, WorkerOK, Busy, Gone, Goto, Stay,
        ScanJob
<1>1. CASE Start(w)
  BY <1>1, Zenon DEF Start
<1>2. CASE Stop(w)
  BY <1>2, Zenon DEF Stop
<1>3. CASE Heartbeat(w)
  BY <1>3, Zenon DEF Heartbeat, workerVars
<1>4. CASE Pop(w)
  <2>1. CASE UNCHANGED workerVars
    BY <2>1, Zenon DEF workerVars
  <2>2. CASE Goto(w, "load") /\ cur' = [cur EXCEPT ![w] = Head(jobQueue)] /\ UNCHANGED job
    <3>0. RedisTypeOK /\ job[w] \in ScanJob
      BY Zenon DEF QueueTypeOK
    <3>1. Head(jobQueue) \in Jobs /\ job[w] \in ScanJob
      BY <1>4, <3>0, WorkerCommands, Zenon DEF Pop
    <3>2. job' = [job EXCEPT ![w] = job[w]] /\ WorkerOK(w)
      BY <2>2, Zenon
    <3> HIDE DEF TypeInv, ScanJob
    <3> QED  BY <2>2, <3>1, <3>2, WorkerLocals, Zenon
  <2> QED  BY <1>4, <2>1, <2>2, Zenon DEF Pop
<1>5. CASE Load(w)
  <2> DEFINE b == [hash[cur[w]] EXCEPT !.status = "processing"]
  <2>1. CASE Stay /\ (Goto(w, "ack") \/ Goto(w, "discard"))
    BY <1>5, <2>1 DEF Load
  <2>2. CASE /\ hash[cur[w]].status \in Pending
             /\ Goto(w, "update") /\ job' = [job EXCEPT ![w] = b] /\ UNCHANGED cur
    <3>1. cur[w] \in Jobs
      BY <1>5, Zenon DEF Load
    <3>2. hash[cur[w]] \in ScanJob /\ hash[cur[w]].retry < MaxRetries
      BY <2>2, <3>1, Zenon DEF QueueTypeOK, RedisTypeOK, RetriesBounded
    <3>3. b \in ScanJob /\ b.status = "processing" /\ b.retry < MaxRetries
      BY <3>2, Zenon DEF Status, Pending
    <3>4. cur' = [cur EXCEPT ![w] = cur[w]]
      BY <2>2, Zenon
    <3> HIDE DEF TypeInv, ScanJob, b
    <3> QED  BY <2>2, <3>1, <3>3, <3>4, WorkerLocals, Zenon
  <2> QED  BY <1>5, <2>1, <2>2, Zenon DEF Load
<1>6. CASE Update(w)
  <2>1. cur[w] \in Jobs /\ job[w] \in ScanJob /\ WorkerOK(w)
    BY <1>6, Zenon DEF Update
  <2>2. CASE Goto(w, AfterUpdate[job[w].status]) /\ Stay
    <3>1. /\ AfterUpdate[job[w].status] \in {"lease", "clear", "push", "todlq"}
          /\ AfterUpdate[job[w].status] = "lease" => job[w].status = "processing"
      BY <1>6, <2>1 DEF Update, AfterUpdate
    <3>2. cur' = [cur EXCEPT ![w] = cur[w]] /\ job' = [job EXCEPT ![w] = job[w]]
      BY <2>2, Zenon
    <3> DEFINE p == AfterUpdate[job[w].status]
    <3>3. /\ pc' = [pc EXCEPT ![w] = p] /\ p \in Busy
          /\ p = "lease" => job[w].status = "processing"
          /\ p \notin {"precheck", "scan", "reread", "success", "failure", "update"}
      BY <2>2, <3>1, Zenon
    <3>4. TypeInv /\ (job[w].status # "failed" => job[w].retry < MaxRetries)
      BY <2>1, Zenon
    <3> HIDE DEF TypeInv, ScanJob, WorkerOK, Busy, Gone, p, WorkerTypeOK
    <3> QED  BY <2>1, <3>2, <3>3, <3>4, WorkerLocals, Zenon
  <2>3. CASE Goto(w, "ack") /\ Stay
    BY <1>6, <2>1, <2>3, Zenon DEF Update
  <2>4. CASE Goto(w, "idle") /\ Forget(w)
    BY <2>4, ForgetTypes, Zenon
  <2> QED  BY <1>6, <2>2, <2>3, <2>4, Zenon DEF Update
<1>7. CASE Lease(w)
  BY <1>7, Zenon DEF Lease
<1>8. CASE PreCheck(w)
  BY <1>8 DEF PreCheck, Superseded, Owns
<1>9. CASE Scan(w)
  <2>1. PICK p \in {"success", "reread", "failure"} :
          pc[w] = "scan" /\ pc' = [pc EXCEPT ![w] = p] /\ UNCHANGED <<cur, job>>
    BY <1>9, Zenon DEF Scan
  <2> QED  BY <2>1, Zenon
<1>10. CASE Reread(w)
  <2>1. PICK p \in {"discard", "failure"} :
          pc[w] = "reread" /\ pc' = [pc EXCEPT ![w] = p] /\ UNCHANGED <<cur, job>>
    BY <1>10, Zenon DEF Reread
  <2> QED  BY <2>1, Zenon
<1>11. CASE Success(w)
  <2>1. cur[w] \in Jobs /\ job[w] \in ScanJob /\ WorkerOK(w)
    BY <1>11, Zenon DEF Success
  <2>2. CASE Stay /\ (Goto(w, "ack") \/ Goto(w, "failure"))
    <3>1. PICK p \in {"ack", "failure"} :
            pc[w] = "success" /\ pc' = [pc EXCEPT ![w] = p] /\ UNCHANGED <<cur, job>>
      BY <1>11, <2>2, Zenon DEF Success
    <3> QED  BY <2>1, <3>1, Zenon
  <2>3. CASE /\ Goto(w, "update")
             /\ job' = [job EXCEPT ![w].status = "completed"] /\ UNCHANGED cur
    <3> DEFINE b == [job[w] EXCEPT !.status = "completed"]
    <3>1. /\ b \in ScanJob /\ b.status = "completed" /\ b.retry < MaxRetries
          /\ job' = [job EXCEPT ![w] = b]
      BY <1>11, <2>1, <2>3, Zenon DEF Success, Status, Terminal
    <3>2. cur' = [cur EXCEPT ![w] = cur[w]]
      BY <2>3, Zenon
    <3> HIDE DEF TypeInv, ScanJob, b
    <3> QED  BY <2>1, <2>3, <3>1, <3>2, WorkerLocals, Zenon
  <2> QED  BY <1>11, <2>2, <2>3, Zenon DEF Success, Superseded
<1>12. CASE Failure(w)
  <2>1. cur[w] \in Jobs /\ job[w] \in ScanJob /\ WorkerOK(w)
    BY <1>12, Zenon DEF Failure
  <2>2. CASE Stay /\ Goto(w, "ack")
    BY <1>12, <2>1, <2>2, Zenon DEF Failure
  <2>3. ASSUME NEW retryable \in BOOLEAN, Goto(w, "update"), UNCHANGED cur,
               job' = [job EXCEPT ![w] = AfterFailure(@, retryable)]
        PROVE  WorkerTypeOK' /\ \A v \in Workers : WorkerOK(v)'
    <3> DEFINE b == AfterFailure(job[w], retryable)
    <3>1. /\ b \in ScanJob /\ b.status \in {"queued", "failed"}
          /\ b.status # "failed" => b.retry < MaxRetries
      BY <1>12, <2>1 DEF Failure, AfterFailure, Status, Terminal, Pending
    <3>2. cur' = [cur EXCEPT ![w] = cur[w]] /\ job' = [job EXCEPT ![w] = b]
      BY <2>3, Zenon
    <3> HIDE DEF TypeInv, ScanJob, b
    <3> QED  BY <2>1, <2>3, <3>1, <3>2, WorkerLocals, Zenon
  <2> QED  BY <1>12, <2>2, <2>3, Zenon DEF Failure, Superseded
<1>13. CASE Push(w)
  BY <1>13, Zenon DEF Push
<1>14. CASE ToDLQ(w)
  BY <1>14, Zenon DEF ToDLQ
<1>15. CASE Clear(w)
  BY <1>15, Zenon DEF Clear
<1>16. CASE Discard(w)
  BY <1>16, Zenon DEF Discard
<1>17. CASE Ack(w)
  BY <1>17, ForgetTypes, Zenon DEF Ack
<1>18. CASE Crash(w)
  BY <1>18, ForgetTypes, Zenon DEF Crash
<1> QED  BY <1>1, <1>2, <1>3, <1>4, <1>5, <1>6, <1>7, <1>8, <1>9, <1>10, <1>11, <1>12,
             <1>13, <1>14, <1>15, <1>16, <1>17, <1>18, Zenon
          DEF WorkerNext, ProcessJob

(* Every step of a worker leaves well-typed keys, and a job it makes       *)
(* pending has attempts left.                                              *)
LEMMA WorkerKeys ==
  ASSUME TypeInv, NEW w \in Workers, WorkerNext(w)
  PROVE  /\ RedisTypeOK' /\ StoreTypeOK' /\ RetriesBounded'
         /\ Fine \/ \E k \in Events : Strikes(k)
<1> TypeOK /\ RedisTypeOK /\ StoreTypeOK /\ RetriesBounded /\ WorkerOK(w)
    /\ cur[w] \in Jobs \cup {NoOne} /\ job[w] \in ScanJob
  BY Zenon DEF TypeInv, TypeOK, QueueTypeOK, ControlOK, WorkerTypeOK
<1>1. Fine \/ \E k \in Events : Strikes(k)
  BY Zenon DEF WorkerNext, ProcessJob, Start, Stop, Heartbeat, Pop, Load, Update, Lease,
         PreCheck, Scan, Reread, Success, Failure, Superseded, Owns, Push, ToDLQ, Clear,
         Discard, Delete, Ack, Crash, Events
<1>2. StoreTypeOK'
  BY Zenon DEF WorkerNext, ProcessJob, Start, Stop, Heartbeat, Pop, Load, Update, Lease,
         PreCheck, Scan, Reread, Success, Failure, Push, ToDLQ, Clear, Discard, Delete,
         Ack, Crash, StoreTypeOK
<1>3. CASE UNCHANGED redis
  BY <1>1, <1>2, <1>3, Zenon DEF RedisTypeOK, RetriesBounded, redis
<1>4. CASE \E a \in {"none", "fresh"} : WriteRegistration(w, a)
  BY <1>1, <1>2, <1>4, WorkerCommands, Zenon DEF RetriesBounded, WriteRegistration
<1>5. CASE PopJobReliable(w)
  BY <1>1, <1>2, <1>5, WorkerCommands, Zenon DEF RetriesBounded, PopJobReliable
<1>6. CASE pc[w] = "update" /\ UpdateJob(cur[w], job[w])
  <2>1. cur[w] \in Jobs
    BY <1>6, Zenon DEF WorkerOK, Busy
  <2>2. RedisTypeOK'
    BY <1>6, <2>1, JobCommands, Zenon
  <2>3. RetriesBounded'
    BY <1>6, <2>1, Zenon DEF RetriesBounded, UpdateJob, WorkerOK, Pending, RedisTypeOK
  <2> QED  BY <1>1, <1>2, <2>2, <2>3, Zenon
<1>7. CASE /\ cur[w] \in Jobs
           /\ \/ PushJob(cur[w]) \/ MoveToDLQ(cur[w]) \/ RemoveProcessing(w, cur[w])
              \/ \E o \in {w, NoOne} : WriteLease(cur[w], o)
  <2>1. RedisTypeOK'
    BY <1>7, JobCommands, Zenon
  <2>2. RetriesBounded'
    BY <1>7, Zenon DEF RetriesBounded, PushJob, MoveToDLQ, RemoveProcessing, WriteLease
  <2> QED  BY <1>1, <1>2, <2>1, <2>2, Zenon
<1>8. pc[w] \in {"lease", "push", "todlq", "clear", "ack"} => cur[w] \in Jobs
  BY Zenon DEF WorkerOK, Busy
<1> QED  BY <1>3, <1>4, <1>5, <1>6, <1>7, <1>8, Zenon
         DEF WorkerNext, ProcessJob, Start, Stop, Heartbeat, Pop, Load, Update, Lease,
             PreCheck, Scan, Reread, Success, Failure, Push, ToDLQ, Clear, Discard, Ack,
             Crash

(* Every step of a reaper.                                                 *)
LEMMA ReaperTypes ==
  ASSUME TypeInv, NEW r \in Reapers, ReaperNext(r)
  PROVE  /\ RedisTypeOK' /\ ReaperTypeOK' /\ RetriesBounded'
         /\ \A q \in Reapers : ReaperOK(q)'
         /\ Fine \/ \E k \in Events : Strikes(k)
<1> USE QueueAssumption
<1> TypeOK /\ RedisTypeOK /\ ReaperTypeOK /\ RetriesBounded /\ ReaperOK(r)
    /\ \A q \in Reapers : ReaperOK(q)
  BY Zenon DEF TypeInv, TypeOK, QueueTypeOK, ControlOK
<1>1. Fine \/ \E k \in Events : Strikes(k)
  BY Zenon DEF ReaperNext, ReapCheck, ReapRange, ReapRemove, ReapPush, ReapDelete, ReaperCrash,
         Events
<1>2. UNCHANGED redis => RedisTypeOK' /\ RetriesBounded'
  BY Zenon DEF RedisTypeOK, RetriesBounded, redis
<1>3. Done(r) => ReaperTypeOK' /\ \A q \in Reapers : ReaperOK(q)'
  BY DEF Done, ReaperTypeOK, ReaperOK, Nothing
<1>4. CASE \E w \in Workers : ReapCheck(r, w)
  BY <1>1, <1>2, <1>4 DEF ReapCheck, ReaperTypeOK, ReaperOK
<1>5. CASE ReapRange(r)
  <2>1. CASE Done(r)
    BY <1>1, <1>2, <1>3, <1>5, <2>1, Zenon DEF ReapRange
  <2>2. CASE ~Done(r)
    <3>1. processing[target[r]] \in [Jobs -> Nat]
      BY <1>5, Zenon DEF ReapRange, ReaperOK, RedisTypeOK
    <3>2. ReaperTypeOK'
      BY <1>5, <2>2, <3>1, Zenon DEF ReapRange, ReaperTypeOK
    <3>3. \A q \in Reapers : ReaperOK(q)'
      BY <1>5, <2>2, Zenon DEF ReapRange, ReaperTypeOK, ReaperOK
    <3> QED  BY <1>1, <1>2, <1>5, <3>2, <3>3, Zenon DEF ReapRange
  <2> QED  BY <2>1, <2>2, Zenon
<1>6. ASSUME NEW j \in Jobs, ReapRemove(r, j)
      PROVE  /\ RedisTypeOK' /\ ReaperTypeOK' /\ RetriesBounded'
             /\ \A q \in Reapers : ReaperOK(q)'
  <2>1. Less(todo[r], j) \in [Jobs -> Nat]
    BY DEF Less, ReaperTypeOK
  <2>2. target[r] \in Workers
    BY <1>6, Zenon DEF ReapRemove, ReaperOK
  <2>3. RemoveProcessing(target[r], j) => RedisTypeOK' /\ RetriesBounded'
    BY <2>2, JobCommands, Zenon DEF RemoveProcessing, RetriesBounded
  <2>4. RedisTypeOK' /\ RetriesBounded'
    BY <1>2, <1>6, <2>3, Zenon DEF ReapRemove
  <2>5. ReaperTypeOK'
    <3>1. /\ todo' = [todo EXCEPT ![r] = Less(todo[r], j)] /\ UNCHANGED target
          /\ \/ rpc' = [rpc EXCEPT ![r] = "repush"] /\ hand' = [hand EXCEPT ![r] = j]
             \/ UNCHANGED <<rpc, hand>>
      BY <1>6, Zenon DEF ReapRemove
    <3>2. todo' \in [Reapers -> [Jobs -> Nat]]
      BY <2>1, <3>1, Zenon DEF ReaperTypeOK
    <3>3. rpc' \in [Reapers -> {"idle", "range", "requeue", "repush"}]
      BY <3>1, Zenon DEF ReaperTypeOK
    <3>4. hand' \in [Reapers -> Jobs \cup {NoOne}]
      BY <3>1, Zenon DEF ReaperTypeOK
    <3> QED  BY <3>1, <3>2, <3>3, <3>4, Zenon DEF ReaperTypeOK
  <2>6. \A q \in Reapers : ReaperOK(q)'
    <3>1. /\ rpc[r] = "requeue" /\ UNCHANGED target
          /\ \/ rpc' = [rpc EXCEPT ![r] = "repush"] /\ hand' = [hand EXCEPT ![r] = j]
             \/ UNCHANGED <<rpc, hand>>
      BY <1>6, Zenon DEF ReapRemove
    <3> QED  BY <3>1, Zenon DEF ReaperTypeOK, ReaperOK
  <2> QED  BY <2>4, <2>5, <2>6, Zenon
<1>7. CASE ReapPush(r)
  <2>1. hand[r] \in Jobs
    BY <1>7, Zenon DEF ReapPush, ReaperOK
  <2>2. PushJob(hand[r]) => RedisTypeOK' /\ RetriesBounded'
    BY <2>1, JobCommands, Zenon DEF PushJob, RetriesBounded
  <2>3. RedisTypeOK' /\ RetriesBounded'
    BY <1>2, <1>7, <2>2, Zenon DEF ReapPush
  <2>4. ReaperTypeOK' /\ \A q \in Reapers : ReaperOK(q)'
    BY <1>7, Zenon DEF ReapPush, ReaperTypeOK, ReaperOK
  <2> QED  BY <1>1, <2>3, <2>4, Zenon
<1>8. CASE ReapDelete(r)
  <2>1. target[r] \in Workers
    BY <1>8, Zenon DEF ReapDelete, ReaperOK
  <2>2. WriteRegistration(target[r], "none") => RedisTypeOK' /\ RetriesBounded'
    BY <2>1, WorkerCommands, Zenon DEF WriteRegistration, RetriesBounded
  <2> QED  BY <1>1, <1>2, <1>3, <1>8, <2>2, Zenon DEF ReapDelete
<1>9. CASE ReaperCrash(r)
  BY <1>1, <1>2, <1>3, <1>9, Zenon DEF ReaperCrash
<1> QED  BY <1>1, <1>4, <1>5, <1>6, <1>7, <1>8, <1>9, Zenon DEF ReaperNext

(* Every step of an API handler.                                           *)
LEMMA ApiTypes ==
  ASSUME TypeInv, NEW j \in Jobs, ApiNext(j)
  PROVE  /\ RedisTypeOK' /\ StoreTypeOK' /\ ApiTypeOK' /\ RetriesBounded'
         /\ Fine \/ \E k \in Events : Strikes(k)
<1> USE QueueAssumption
<1> TypeOK /\ RedisTypeOK /\ StoreTypeOK /\ ApiTypeOK /\ RetriesBounded
  BY Zenon DEF TypeInv, TypeOK, QueueTypeOK, ControlOK
<1>1. Fine \/ \E k \in Events : Strikes(k)
  BY Zenon DEF ApiNext, UploadPut, Put, UploadEnqueue, UploadUndo, Delete, Cancel,
         RetryDLQRemove, RetryDLQEnqueue, Events
<1>2. StoreTypeOK'
  BY Zenon DEF ApiNext, UploadPut, Put, UploadEnqueue, UploadUndo, Delete, Cancel,
         RetryDLQRemove, RetryDLQEnqueue, StoreTypeOK
<1>3. ApiTypeOK'
  BY DEF ApiNext, UploadPut, UploadEnqueue, UploadUndo, Cancel, RetryDLQRemove,
         RetryDLQEnqueue, ApiTypeOK, Reply, apiVars, More, Less
<1>4. UNCHANGED redis => RedisTypeOK' /\ RetriesBounded'
  BY Zenon DEF RedisTypeOK, RetriesBounded, redis
<1>5. EnqueueJobAtomic(j) => RedisTypeOK' /\ RetriesBounded'
  <2>1. EnqueueJobAtomic(j) => RedisTypeOK'
    BY JobCommands, Zenon
  <2>2. EnqueueJobAtomic(j) => RetriesBounded'
    BY DEF EnqueueJobAtomic, RetriesBounded, RedisTypeOK
  <2> QED  BY <2>1, <2>2, Zenon
<1>6. CancelJob(j) => RedisTypeOK' /\ RetriesBounded'
  <2>1. CancelJob(j) => RedisTypeOK'
    BY JobCommands, Zenon
  <2>2. CancelJob(j) => RetriesBounded'
    BY DEF CancelJob, RetriesBounded, RedisTypeOK, ScanJob, Pending
  <2> QED  BY <2>1, <2>2, Zenon
<1>7. RemoveDLQ(j) => RedisTypeOK' /\ RetriesBounded'
  BY JobCommands, Zenon DEF RemoveDLQ, RetriesBounded
<1> QED  BY <1>1, <1>2, <1>3, <1>4, <1>5, <1>6, <1>7, Zenon
         DEF ApiNext, UploadPut, UploadEnqueue, UploadUndo, Cancel, RetryDLQRemove,
             RetryDLQEnqueue

(* Every step of the service keeps types and control states (processJob,   *)
(* reapWorker, the upload, cancel and DLQ handlers).                       *)
LEMMA TypeStep == TypeInv /\ [Next]_vars => TypeInv'
<1> SUFFICES ASSUME TypeInv, [Next]_vars
             PROVE  TypeInv'
  BY Zenon
<1> USE DEF TypeInv, TypeOK, QueueTypeOK, ControlOK
<1>1. ASSUME NEW w \in Workers, Worker(w)
      PROVE  TypeInv'
  <2>1. ReaperTypeOK' /\ ApiTypeOK' /\ \A r \in Reapers : ReaperOK(r)'
    BY <1>1, Zenon DEF Worker, reaperVars, apiVars, ReaperTypeOK, ApiTypeOK, ReaperOK
  <2> QED  BY <1>1, <2>1, WorkerTypes, WorkerKeys, BudgetTypes, Zenon DEF Worker
<1>2. ASSUME NEW r \in Reapers, Reap(r)
      PROVE  TypeInv'
  <2>1. StoreTypeOK' /\ WorkerTypeOK' /\ ApiTypeOK' /\ \A w \in Workers : WorkerOK(w)'
    BY <1>2, Zenon DEF Reap, workerVars, apiVars, StoreTypeOK, WorkerTypeOK, ApiTypeOK, WorkerOK
  <2> QED  BY <1>2, <2>1, ReaperTypes, BudgetTypes, Zenon DEF Reap
<1>3. ASSUME NEW j \in Jobs, Api(j)
      PROVE  TypeInv'
  <2>1. WorkerTypeOK' /\ ReaperTypeOK' /\ (\A w \in Workers : WorkerOK(w)')
        /\ \A r \in Reapers : ReaperOK(r)'
    BY <1>3, Zenon DEF Api, workerVars, reaperVars, WorkerTypeOK, ReaperTypeOK, WorkerOK, ReaperOK
  <2> QED  BY <1>3, <2>1, ApiTypes, BudgetTypes, Zenon DEF Api
<1>4. CASE Clock
  <2>1. /\ StoreTypeOK' /\ WorkerTypeOK' /\ ReaperTypeOK' /\ ApiTypeOK'
        /\ (\A w \in Workers : WorkerOK(w)') /\ \A r \in Reapers : ReaperOK(r)'
    BY <1>4, Zenon DEF Clock, workerVars, reaperVars, apiVars, StoreTypeOK, WorkerTypeOK,
                ReaperTypeOK, ApiTypeOK, WorkerOK, ReaperOK
  <2>2. Fine \/ \E k \in Events : Strikes(k)
    BY <1>4, Zenon DEF Clock, HeartbeatAges, LeaseExpires, Events
  <2>3. RedisTypeOK'
    BY <1>4, WorkerCommands, JobCommands, Zenon DEF Clock, HeartbeatAges, LeaseExpires
  <2>4. RetriesBounded'
    BY <1>4, Zenon DEF Clock, HeartbeatAges, LeaseExpires, WriteRegistration, WriteLease,
                RetriesBounded
  <2> QED  BY <2>1, <2>2, <2>3, <2>4, BudgetTypes, Zenon
<1>5. CASE UNCHANGED vars
  BY <1>5, Zenon DEF vars, redis, workerVars, reaperVars, apiVars, RedisTypeOK, StoreTypeOK,
              WorkerTypeOK, ReaperTypeOK, ApiTypeOK, WorkerOK, ReaperOK, RetriesBounded,
              BudgetOK
<1> QED  BY <1>1, <1>2, <1>3, <1>4, <1>5, Zenon DEF Next

(* Types and control states are right for every instance: the Redis keys,  *)
(* the worker and reaper programs, and no pending job has used up its      *)
(* retries.                                                                *)
THEOREM TypeCorrect == Spec => []TypeInv
BY TypeInit, TypeStep, PTL DEF Spec

(* The same, for the type invariant the runs check.                        *)
THEOREM TypesAreCorrect == Spec => []TypeOK
<1>1. TypeInv => TypeOK
  BY Zenon DEF TypeInv
<1> QED  BY <1>1, TypeCorrect, PTL

(* A pending job always has attempts left (handleJobFailure).              *)
THEOREM RetriesAreBounded == Spec => []RetriesBounded
<1>1. TypeInv => RetriesBounded
  BY Zenon DEF TypeInv, ControlOK
<1> QED  BY <1>1, TypeCorrect, PTL

-----------------------------------------------------------------------------
(* The inductive invariant. *)

(* While Reliable: only the dead are taken for dead; a worker that is not  *)
(* dead has exactly its current job on its list; and a reaper that visits  *)
(* a worker will see every entry left there.                               *)
Exact(w) == \A j \in Jobs : processing[w][j] = IF cur[w] = j THEN 1 ELSE 0

WorkerList(w) ==
  /\ Alive(w) => registration[w] = "fresh"
  /\ pc[w] = "off" => registration[w] = "none"
  /\ pc[w] # "dead" => Exact(w)
  /\ \A j \in Jobs : pc[w] = "dead" /\ processing[w][j] > 0
                       => registration[w] # "none"

ReaperSees(r) ==
  /\ rpc[r] # "idle" => pc[target[r]] \in {"dead", "stopped"}
  /\ rpc[r] \in {"requeue", "repush"}
       => \A j \in Jobs : processing[target[r]][j] <= todo[r][j]

ListsOK == /\ \A w \in Workers : WorkerList(w)
           /\ \A r \in Reapers : ReaperSees(r)

(* Somebody answers for job j whatever its lease says: it is queued, in a  *)
(* reaper's hand, on a dead worker's list, or with a worker that has not   *)
(* claimed the lease yet or is about to push the job back.                 *)
BeforeLease(w) == \/ pc[w] \in {"load", "lease", "push"}
                  \/ pc[w] = "update" /\ job[w].status = "processing"
AfterLease(w)  == \/ pc[w] \in {"precheck", "scan", "reread", "success", "failure"}
                  \/ pc[w] = "update" /\ job[w].status # "processing"

Held(j) == \/ InQueue(j)
           \/ \E r \in Reapers : hand[r] = j
           \/ \E w \in Workers : pc[w] = "dead" /\ processing[w][j] > 0
           \/ \E w \in Workers : cur[w] = j /\ BeforeLease(w)

(* Otherwise it is with a worker that its next lease check will not send   *)
(* away.                                                                   *)
Claimed(j) == \E w \in Workers : /\ cur[w] = j /\ AfterLease(w)
                                 /\ lease[j] \in {w, NoOne}

Answered == \A j \in Jobs : hash[j].status \in Pending => Held(j) \/ Claimed(j)

IInv == TypeInv /\ (Reliable => ListsOK /\ Answered)

-----------------------------------------------------------------------------
(* Worker crashes lose nothing. *)

(* A step that leaves a system Reliable found it so, and no I/O error,     *)
(* false reap or reaper crash struck in it.                                *)
LEMMA StaysReliable ==
  ASSUME TypeInv, Reliable', Fine \/ \E k \in Events : Strikes(k)
  PROVE  /\ Reliable
         /\ ~Strikes("io") /\ ~Strikes("falseReap") /\ ~Strikes("reaperCrash")
<1> budget \in [Events -> Nat] /\ Budget \in [Events -> Nat]
    /\ \A k \in Events : budget[k] <= Budget[k]
  BY QueueAssumption, Zenon DEF TypeInv, TypeOK, QueueTypeOK, BudgetOK
<1>1. ASSUME NEW k \in {"io", "falseReap", "reaperCrash"}
      PROVE  ~Strikes(k) /\ budget[k] = Budget[k]
  <2>1. k \in Events /\ budget'[k] = Budget[k]
    BY Zenon DEF Reliable, Unspent, Events
  <2>2. ~Strikes(k)
    BY <2>1 DEF Strikes
  <2> QED  BY <2>1, <2>2, Zenon DEF Fine, Strikes
<1> QED  BY <1>1, Zenon DEF Reliable, Unspent

(* What a step of worker w may change.                                     *)
Only(w) ==
  /\ pc' = [pc EXCEPT ![w] = pc'[w]] /\ cur' = [cur EXCEPT ![w] = cur'[w]]
  /\ job' = [job EXCEPT ![w] = job'[w]]
  /\ processing' = [processing EXCEPT ![w] = processing'[w]]
  /\ registration' = [registration EXCEPT ![w] = registration'[w]]
  /\ UNCHANGED reaperVars

(* A worker step keeps ListsOK if it keeps it for the worker.              *)
LEMMA WorkerListsStep ==
  ASSUME TypeInv, ListsOK, NEW w \in Workers, Only(w),
         pc[w] \notin {"dead", "stopped"}, WorkerList(w)'
  PROVE  ListsOK'
<1> USE DEF TypeInv, TypeOK, QueueTypeOK, RedisTypeOK, WorkerTypeOK
<1>1. ASSUME NEW v \in Workers, v # w
      PROVE  WorkerList(v)'
  <2>1. pc'[v] = pc[v] /\ cur'[v] = cur[v] /\ processing'[v] = processing[v]
        /\ registration'[v] = registration[v]
    BY <1>1, Zenon DEF Only
  <2>2. WorkerList(v)
    BY Zenon DEF ListsOK
  <2> QED  BY <2>1, <2>2 DEF WorkerList, Alive, Exact
<1>2. ASSUME NEW r \in Reapers
      PROVE  ReaperSees(r)'
  <2>1. ReaperSees(r) /\ ReaperOK(r)
    BY Zenon DEF ListsOK, ControlOK
  <2>2. rpc'[r] = rpc[r] /\ target'[r] = target[r] /\ todo'[r] = todo[r]
    BY Zenon DEF Only, reaperVars
  <2>3. rpc[r] # "idle" => /\ target[r] # w /\ target[r] \in Workers
                           /\ pc'[target[r]] = pc[target[r]]
                           /\ processing'[target[r]] = processing[target[r]]
    BY <2>1 DEF Only, ReaperSees, ReaperOK
  <2> QED  BY <2>1, <2>2, <2>3, Zenon DEF ReaperSees
<1> QED  BY <1>1, <1>2, Zenon DEF ListsOK

(* A worker step leaves alone what other workers answer for.               *)
LEMMA OthersAnswer ==
  ASSUME TypeInv, NEW w \in Workers, Only(w), pc[w] # "dead",
         NEW k \in Jobs, Held(k) \/ Claimed(k), InQueue(k) => InQueue(k)',
         lease'[k] \in {lease[k], NoOne}
  PROVE  \/ Held(k)' \/ Claimed(k)'
         \/ /\ cur[w] = k
            /\ BeforeLease(w) \/ (AfterLease(w) /\ lease[k] \in {w, NoOne})
<1> USE DEF TypeInv, TypeOK, QueueTypeOK, RedisTypeOK, WorkerTypeOK
<1>1. \A v \in Workers : v # w =>
        /\ pc'[v] = pc[v] /\ cur'[v] = cur[v] /\ job'[v] = job[v]
        /\ processing'[v] = processing[v]
  BY DEF Only
<1>2. CASE InQueue(k)
  BY <1>2, Zenon DEF Held
<1>3. CASE \E r \in Reapers : hand[r] = k
  BY <1>3, Zenon DEF Held, Only, reaperVars
<1>4. ASSUME NEW v \in Workers, pc[v] = "dead", processing[v][k] > 0
      PROVE  Held(k)'
  BY <1>1, <1>4, Zenon DEF Held
<1>5. ASSUME NEW v \in Workers, v # w, cur[v] = k, BeforeLease(v)
      PROVE  Held(k)'
  BY <1>1, <1>5, Zenon DEF Held, BeforeLease
<1>6. ASSUME NEW v \in Workers, v # w, cur[v] = k, AfterLease(v), lease[k] \in {v, NoOne}
      PROVE  Claimed(k)'
  BY <1>1, <1>6, Zenon DEF Claimed, AfterLease
<1> QED  BY <1>2, <1>3, <1>4, <1>5, <1>6, Zenon DEF Held, Claimed

(* A step of processJob on job c: the lists stay as they are, other jobs   *)
(* are not touched, and c is finished, still w's to answer for, queued, or *)
(* left to whoever else answers for it.                                    *)
LEMMA ProcessStep ==
  ASSUME TypeInv, ListsOK, Answered, NEW w \in Workers, NEW c \in Jobs,
         cur[w] = c, pc[w] \in Busy, pc'[w] \in Busy,
         pc' = [pc EXCEPT ![w] = pc'[w]], job' = [job EXCEPT ![w] = job'[w]],
         UNCHANGED <<cur, processing, registration, reaperVars>>,
         \A k \in Jobs : InQueue(k) => InQueue(k)',
         \A k \in Jobs \ {c} : hash'[k] = hash[k] /\ lease'[k] = lease[k],
         \/ hash'[c].status \notin Pending
         \/ BeforeLease(w)'
         \/ AfterLease(w)' /\ lease'[c] \in {w, NoOne}
         \/ InQueue(c)'
         \/ /\ hash'[c] = hash[c] /\ lease'[c] \in {lease[c], NoOne}
            /\ ~BeforeLease(w)
            /\ AfterLease(w) /\ lease[c] \in {w, NoOne} => AfterLease(w)'
  PROVE  ListsOK' /\ Answered'
<1>1. Only(w) /\ pc[w] \notin Gone /\ pc'[w] \notin Gone
  BY Zenon DEF TypeInv, TypeOK, QueueTypeOK, RedisTypeOK, WorkerTypeOK, Only, Busy, Gone
<1>2. ListsOK'
  <2>1. WorkerList(w)
    BY Zenon DEF ListsOK
  <2>2. WorkerList(w)'
    BY <1>1, <2>1, Zenon DEF WorkerList, Alive, Exact, Gone
  <2> QED  BY <1>1, <2>2, WorkerListsStep, Zenon DEF Gone
<1>3. ASSUME NEW k \in Jobs, k # c, hash'[k].status \in Pending
      PROVE  Held(k)' \/ Claimed(k)'
  <2>1. Held(k) \/ Claimed(k)
    BY <1>3, Zenon DEF Answered
  <2> QED  BY <1>1, <1>3, <2>1, OthersAnswer, Zenon DEF Gone
<1>4. ASSUME hash'[c].status \in Pending
      PROVE  Held(c)' \/ Claimed(c)'
  <2>1. CASE BeforeLease(w)' \/ InQueue(c)' \/ (AfterLease(w)' /\ lease'[c] \in {w, NoOne})
    BY <2>1, Zenon DEF Held, Claimed
  <2>2. CASE /\ hash'[c] = hash[c] /\ lease'[c] \in {lease[c], NoOne}
             /\ ~BeforeLease(w)
             /\ AfterLease(w) /\ lease[c] \in {w, NoOne} => AfterLease(w)'
    <3>1. Held(c) \/ Claimed(c)
      BY <1>4, <2>2, Zenon DEF Answered
    <3>2. \/ Held(c)' \/ Claimed(c)'
          \/ AfterLease(w) /\ lease[c] \in {w, NoOne}
      BY <1>1, <2>2, <3>1, OthersAnswer, Zenon DEF Gone
    <3> QED  BY <2>1, <2>2, <3>2, Zenon
  <2> QED  BY <1>4, <2>1, <2>2, Zenon
<1> QED  BY <1>2, <1>3, <1>4, Zenon DEF Answered

(* Every step of processJob but the last, AckJob.                          *)
LEMMA ProcessSafe ==
  ASSUME TypeInv, ListsOK, Answered, ~Strikes("io"), NEW w \in Workers,
         ProcessJob(w), ~Ack(w), UNCHANGED reaperVars
  PROVE  ListsOK' /\ Answered'
<1> USE QueueAssumption
<1>0. pc[w] \in Busy /\ cur[w] \in Jobs /\ WorkerOK(w)
  BY Zenon DEF ProcessJob, Load, Update, Lease, PreCheck, Scan, Reread, Success, Failure, Push,
         ToDLQ, Clear, Discard, Ack, Busy, TypeInv, ControlOK, WorkerOK
<1>1. PICK c \in Jobs : pc[w] \in Busy /\ WorkerOK(w) /\ c = cur[w]
  BY <1>0, Zenon
<1>2. /\ pc \in [Workers -> Busy \cup Gone \cup {"idle"}] /\ job \in [Workers -> ScanJob]
      /\ lease \in [Jobs -> Workers \cup {NoOne}] /\ hash \in [Jobs -> ScanJob]
      /\ jobQueue \in Seq(Jobs)
  BY Zenon DEF TypeInv, TypeOK, QueueTypeOK, RedisTypeOK, WorkerTypeOK
<1>3. /\ pc' = [pc EXCEPT ![w] = pc'[w]] /\ job' = [job EXCEPT ![w] = job'[w]]
      /\ UNCHANGED <<cur, processing, registration>>
  <2>1. \A p : Goto(w, p) => pc' = [pc EXCEPT ![w] = pc'[w]]
    BY <1>2, Zenon DEF Goto
  <2>2. \A b : job' = [job EXCEPT ![w] = b] => job' = [job EXCEPT ![w] = job'[w]]
    BY <1>2, Zenon
  <2>3. Stay => job' = [job EXCEPT ![w] = job'[w]]
    BY <1>2, Zenon DEF Stay
  <2>4. pc' = [pc EXCEPT ![w] = pc'[w]]
    BY <2>1, Zenon DEF ProcessJob, Load, Update, Lease, PreCheck, Scan, Reread, Success, Failure,
                Superseded, Push, ToDLQ, Clear, Discard
  <2>5. Success(w) \/ Failure(w) \/ Load(w) => job' = [job EXCEPT ![w] = job'[w]]
    BY <1>2, Zenon DEF Success, Failure, Load, Superseded, Stay
  <2>6. job' = [job EXCEPT ![w] = job'[w]]
    BY <2>3, <2>5, Zenon DEF ProcessJob, Update, Lease, PreCheck, Scan, Reread,
                Superseded, Push, ToDLQ, Clear, Discard
  <2>7. UNCHANGED cur
    BY Zenon DEF ProcessJob, Load, Update, Lease, PreCheck, Scan, Reread, Success, Failure,
           Superseded, Push, ToDLQ, Clear, Discard, Stay
  <2>8. UNCHANGED <<processing, registration>>
    BY Zenon DEF ProcessJob, Load, Update, Lease, PreCheck, Scan, Reread, Success, Failure,
           Superseded, Push, ToDLQ, Clear, Discard, redis, UpdateJob, WriteLease, PushJob,
           MoveToDLQ
  <2> QED  BY <2>4, <2>6, <2>7, <2>8, Zenon
<1>4. ASSUME pc'[w] \in Busy, UNCHANGED <<jobQueue, hash, lease>>,
             \/ hash[c].status \notin Pending
             \/ BeforeLease(w)'
             \/ AfterLease(w)' /\ lease[c] \in {w, NoOne}
             \/ /\ ~BeforeLease(w)
                /\ AfterLease(w) /\ lease[c] \in {w, NoOne} => AfterLease(w)'
      PROVE  ListsOK' /\ Answered'
  BY <1>1, <1>3, <1>4, ProcessStep, Zenon DEF InQueue
<1>5. CASE Load(w)
  <2>1. \/ pc'[w] \in {"ack", "discard"} /\ hash[c].status \notin Pending
        \/ pc'[w] = "update" /\ job'[w].status = "processing"
    <3>1. [hash[cur[w]] EXCEPT !.status = "processing"].status = "processing"
      BY <1>1, <1>2 DEF ScanJob
    <3>2. CASE pc' = [pc EXCEPT ![w] = "update"]
      <4>1. job' = [job EXCEPT ![w] = [hash[cur[w]] EXCEPT !.status = "processing"]]
        BY <1>2, <1>5, <3>2, Zenon DEF Load, Goto
      <4> QED  BY <1>2, <3>1, <3>2, <4>1, Zenon
    <3>3. CASE pc' # [pc EXCEPT ![w] = "update"]
      BY <1>1, <1>2, <1>5, <3>3, Zenon DEF Load, Goto, Pending
    <3> QED  BY <3>2, <3>3, Zenon
  <2>2. pc'[w] \in Busy /\ (hash[c].status \notin Pending \/ BeforeLease(w)')
    BY <2>1, Zenon DEF BeforeLease, Busy
  <2> QED  BY <1>4, <1>5, <2>2, Zenon DEF Load, redis
<1>6. CASE Update(w)
  <2>1. /\ UpdateJob(c, job[w]) /\ Goto(w, AfterUpdate[job[w].status]) /\ Stay
        /\ job[w].status \in {"processing", "completed", "queued", "failed"}
    BY <1>1, <1>6, Zenon DEF Update, WorkerOK
  <2>2. /\ pc'[w] = AfterUpdate[job[w].status] /\ hash'[c] = job[w]
        /\ \A k \in Jobs \ {c} : hash'[k] = hash[k]
    BY <1>1, <1>2, <2>1, Zenon DEF Goto, UpdateJob
  <2>3. pc'[w] \in Busy
    BY <2>1, <2>2 DEF AfterUpdate, Busy
  <2>4. hash'[c].status \notin Pending \/ BeforeLease(w)'
    BY <2>1, <2>2 DEF AfterUpdate, BeforeLease, Pending
  <2>5. /\ \A k \in Jobs : InQueue(k) => InQueue(k)'
        /\ \A k \in Jobs \ {c} : lease'[k] = lease[k]
    BY <2>1, Zenon DEF UpdateJob, InQueue
  <2> QED  BY <1>1, <1>3, <2>2, <2>3, <2>4, <2>5, ProcessStep
<1>7. CASE Lease(w)
  <2>1. /\ pc'[w] = "precheck" /\ WriteLease(c, w)
    BY <1>1, <1>2, <1>7, Zenon DEF Lease, Goto
  <2>2. /\ pc'[w] \in Busy /\ AfterLease(w)' /\ lease'[c] = w
        /\ \A k \in Jobs \ {c} : lease'[k] = lease[k] /\ hash'[k] = hash[k]
        /\ \A k \in Jobs : InQueue(k) => InQueue(k)'
    BY <1>1, <1>2, <2>1, Zenon DEF AfterLease, WriteLease, Busy, InQueue
  <2> QED  BY <1>1, <1>3, <2>2, ProcessStep
<1>8. CASE Superseded(w) /\ UNCHANGED redis /\ pc[w] \in {"precheck", "success", "failure"}
  <2>1. pc'[w] \in Busy /\ lease[c] \notin {w, NoOne} /\ ~BeforeLease(w)
    BY <1>1, <1>2, <1>8, Zenon DEF Superseded, Goto, CheckJobLease, BeforeLease, Busy
  <2> QED  BY <1>4, <1>8, <2>1, Zenon DEF redis
<1>9. CASE PreCheck(w) /\ ~Superseded(w)
  <2>1. pc'[w] \in Busy /\ lease[c] \in {w, NoOne} /\ AfterLease(w)'
    BY <1>1, <1>2, <1>9, Zenon DEF PreCheck, Owns, Goto, CheckJobLease, AfterLease, Busy
  <2> QED  BY <1>4, <1>9, <2>1, Zenon DEF PreCheck, redis
<1>10. CASE Success(w) /\ ~Superseded(w)
  <2>1. lease[c] \in {w, NoOne} /\ UNCHANGED redis
    BY <1>1, <1>10, Zenon DEF Success, Owns, CheckJobLease
  <2>2. pc'[w] = "failure" \/ (pc'[w] = "update" /\ job'[w].status = "completed")
    <3>1. [job EXCEPT ![w].status = "completed"][w].status = "completed"
      BY <1>2 DEF ScanJob
    <3> QED  BY <1>2, <1>10, <3>1, Zenon DEF Success, Goto
  <2>3. AfterLease(w)' /\ pc'[w] \in Busy
    BY <2>2, Zenon DEF AfterLease, Busy
  <2> QED  BY <1>4, <2>1, <2>3, Zenon DEF redis
<1>11. CASE Failure(w) /\ ~Superseded(w)
  <2>1. lease[c] \in {w, NoOne} /\ UNCHANGED redis /\ pc'[w] = "update"
    BY <1>1, <1>2, <1>11, Zenon DEF Failure, Owns, CheckJobLease, Goto
  <2>2. job'[w].status # "processing"
    BY <1>2, <1>11 DEF Failure, AfterFailure
  <2>3. AfterLease(w)' /\ pc'[w] \in Busy
    BY <2>1, <2>2, Zenon DEF AfterLease, Busy
  <2> QED  BY <1>4, <2>1, <2>3, Zenon DEF redis
<1>12. CASE Scan(w)
  <2>1. pc'[w] \in {"success", "reread", "failure"}
    BY <1>2, <1>12, Zenon DEF Scan, Goto
  <2>2. pc'[w] \in Busy /\ ~BeforeLease(w) /\ AfterLease(w)'
    BY <1>12, <2>1, Zenon DEF Scan, BeforeLease, AfterLease, Busy
  <2> QED  BY <1>4, <1>12, <2>2, Zenon DEF Scan, redis
<1>13. CASE Reread(w)
  <2>1. \/ pc'[w] = "discard" /\ hash[c].status \notin Pending
        \/ pc'[w] = "failure"
    BY <1>1, <1>2, <1>13, Zenon DEF Reread, Goto, Pending
  <2>2. /\ pc'[w] \in Busy /\ ~BeforeLease(w)
        /\ hash[c].status \notin Pending \/ AfterLease(w)'
    BY <1>13, <2>1, Zenon DEF Reread, BeforeLease, AfterLease, Busy
  <2> QED  BY <1>4, <1>13, <2>2, Zenon DEF Reread, redis
<1>14. CASE Push(w)
  <2>1. pc'[w] \in Busy /\ PushJob(c)
    BY <1>1, <1>2, <1>14, Zenon DEF Push, Goto, Busy
  <2>2. jobQueue' = Append(jobQueue, c) /\ UNCHANGED <<hash, lease>>
    BY <2>1, Zenon DEF PushJob
  <2>3. InQueue(c)' /\ \A k \in Jobs : InQueue(k) => InQueue(k)'
    BY <1>1, <1>2, <2>2, AppendOnList, Zenon DEF InQueue
  <2>4. \A k \in Jobs \ {c} : hash'[k] = hash[k] /\ lease'[k] = lease[k]
    BY <2>2, Zenon
  <2>5. pc'[w] \in Busy
    BY <2>1, Zenon
  <2> QED  BY <1>1, <1>3, <2>3, <2>4, <2>5, ProcessStep, Zenon
<1>15. CASE ToDLQ(w) \/ Discard(w)
  <2>1. pc'[w] \in Busy /\ ~BeforeLease(w) /\ ~AfterLease(w)
    BY <1>2, <1>15, Zenon DEF ToDLQ, Discard, BeforeLease, AfterLease, Goto, Busy
  <2>2. UNCHANGED <<hash, jobQueue, lease>>
    BY <1>15, Zenon DEF ToDLQ, Discard, MoveToDLQ, redis
  <2> QED  BY <1>4, <2>1, <2>2, Zenon
<1>16. CASE Clear(w)
  <2>1. WriteLease(c, NoOne)
    BY <1>1, <1>16, Zenon DEF Clear
  <2>2. pc'[w] \in Busy /\ ~BeforeLease(w) /\ ~AfterLease(w)
    BY <1>2, <1>16, Zenon DEF Clear, BeforeLease, AfterLease, Goto, Busy
  <2>3. /\ lease'[c] = NoOne /\ hash'[c] = hash[c]
        /\ \A k \in Jobs \ {c} : hash'[k] = hash[k] /\ lease'[k] = lease[k]
        /\ \A k \in Jobs : InQueue(k) => InQueue(k)'
    BY <1>1, <1>2, <2>1, Zenon DEF WriteLease, InQueue
  <2> QED  BY <1>1, <1>3, <2>2, <2>3, ProcessStep, Zenon
<1> QED  BY <1>5, <1>6, <1>7, <1>8, <1>9, <1>10, <1>11, <1>12, <1>13, <1>14, <1>15, <1>16, Zenon
         DEF ProcessJob, PreCheck, Success, Failure

(* Every step of a worker.                                                 *)
LEMMA WorkerSafe ==
  ASSUME TypeInv, ListsOK, Answered, ~Strikes("io"), NEW w \in Workers,
         WorkerNext(w), UNCHANGED reaperVars
  PROVE  ListsOK' /\ Answered'
<1> USE QueueAssumption
<1>1. /\ WorkerOK(w) /\ WorkerList(w)
      /\ pc \in [Workers -> Busy \cup Gone \cup {"idle"}] /\ job \in [Workers -> ScanJob]
      /\ cur \in [Workers -> Jobs \cup {NoOne}] /\ jobQueue \in Seq(Jobs)
      /\ registration \in [Workers -> {"none", "fresh", "stale"}]
      /\ processing \in [Workers -> [Jobs -> Nat]]
  BY Zenon DEF TypeInv, TypeOK, QueueTypeOK, RedisTypeOK, WorkerTypeOK, ControlOK, ListsOK
<1>2. ASSUME Only(w), pc[w] \notin {"dead", "stopped"}, cur[w] \notin Jobs,
             UNCHANGED <<hash, lease, jobQueue>>
      PROVE  Answered'
  <2>1. ASSUME NEW k \in Jobs, hash[k].status \in Pending
        PROVE  Held(k)' \/ Claimed(k)'
    <3>1. Held(k) \/ Claimed(k)
      BY <2>1, Zenon DEF Answered
    <3>2. InQueue(k) => InQueue(k)'
      BY <1>2, Zenon DEF InQueue
    <3> QED  BY <1>2, <3>1, <3>2, OthersAnswer, Zenon
  <2> QED  BY <1>2, <2>1, Zenon DEF Answered
<1>3. CASE ProcessJob(w) /\ ~Ack(w)
  BY <1>3, ProcessSafe, Zenon
<1>4. CASE Start(w)
  <2>1. pc[w] = "off" /\ pc' = [pc EXCEPT ![w] = "idle"] /\ UNCHANGED <<cur, job>>
        /\ WriteRegistration(w, "fresh")
    BY <1>4, Zenon DEF Start, Goto, Stay
  <2>2. Only(w) /\ UNCHANGED <<hash, lease, jobQueue>>
    BY <1>1, <2>1, Zenon DEF Only, WriteRegistration
  <2>3. cur[w] \notin Jobs
    BY <1>1, <2>1, Zenon DEF WorkerOK, Busy
  <2>4. WorkerList(w)'
    BY <1>1, <2>1, Zenon DEF WorkerList, Exact, Alive, Gone, WriteRegistration
  <2> QED  BY <1>2, <2>1, <2>2, <2>3, <2>4, WorkerListsStep, Zenon
<1>5. CASE Stop(w)
  <2>1. /\ pc[w] = "idle" /\ pc' = [pc EXCEPT ![w] = "stopped"] /\ UNCHANGED <<cur, job>>
        /\ WriteRegistration(w, "none") \/ UNCHANGED redis
    BY <1>5, Zenon DEF Stop, Goto, Stay
  <2>2. Only(w) /\ UNCHANGED <<hash, lease, jobQueue, processing>>
    BY <1>1, <2>1, Zenon DEF Only, WriteRegistration, redis
  <2>3. cur[w] \notin Jobs
    BY <1>1, <2>1, Zenon DEF WorkerOK, Busy
  <2>4. WorkerList(w)'
    BY <1>1, <2>1, <2>2, Zenon DEF WorkerList, Exact, Alive, Gone
  <2> QED  BY <1>2, <2>1, <2>2, <2>3, <2>4, WorkerListsStep, Zenon
<1>6. CASE Heartbeat(w)
  BY <1>1, <1>6, Zenon DEF Heartbeat, WorkerList
<1>7. CASE Pop(w)
  <2>1. /\ pc[w] = "idle" /\ pc' = [pc EXCEPT ![w] = "load"]
        /\ cur' = [cur EXCEPT ![w] = Head(jobQueue)] /\ UNCHANGED job
        /\ jobQueue # <<>> /\ jobQueue' = Tail(jobQueue)
        /\ processing' = [processing EXCEPT ![w] = More(@, Head(jobQueue))]
        /\ UNCHANGED <<hash, lease, registration>>
    BY <1>7, Zenon DEF Pop, Goto, PopJobReliable
  <2>2. PICK h \in Jobs : /\ h = Head(jobQueue) /\ h # NoOne
                          /\ \A k \in Jobs : k # h /\ InQueue(k) => InQueue(k)'
    BY <1>1, <2>1, TailOnList DEF InQueue
  <2>3. /\ processing' = [processing EXCEPT ![w] = More(@, h)]
        /\ cur' = [cur EXCEPT ![w] = h]
        /\ UNCHANGED <<hash, lease, registration>>
    BY <2>1, <2>2, Zenon
  <2>4. Only(w)
    BY <1>1, <2>1, <2>3 DEF Only
  <2>5. cur[w] = NoOne
    BY <1>1, <2>1, Zenon DEF WorkerOK, Busy
  <2>6. Exact(w)'
    BY <1>1, <2>1, <2>2, <2>3, <2>5 DEF WorkerList, Exact, More
  <2>7. WorkerList(w)'
    BY <1>1, <2>1, <2>3, <2>6, Zenon DEF WorkerList, Alive, Gone
  <2>8. Held(h)'
    <3>1. cur'[w] = h /\ pc'[w] = "load"
      BY <1>1, <2>1, <2>3, Zenon
    <3> QED  BY <3>1, Zenon DEF Held, BeforeLease
  <2>9. ASSUME NEW k \in Jobs, k # h, hash[k].status \in Pending
        PROVE  Held(k)' \/ Claimed(k)'
    <3>1. Held(k) \/ Claimed(k)
      BY <2>9, Zenon DEF Answered
    <3> QED  BY <2>1, <2>2, <2>3, <2>4, <2>5, <2>9, <3>1, OthersAnswer
  <2>10. Answered'
    BY <2>3, <2>8, <2>9, Zenon DEF Answered
  <2> QED  BY <2>1, <2>4, <2>7, <2>10, WorkerListsStep, Zenon
<1>8. CASE Ack(w)
  <2> DEFINE c == cur[w]
  <2>1. /\ pc[w] = "ack" /\ pc' = [pc EXCEPT ![w] = "idle"]
        /\ cur' = [cur EXCEPT ![w] = NoOne] /\ job' = [job EXCEPT ![w] = NoJob]
        /\ processing' = [processing EXCEPT ![w] = Less(@, c)]
        /\ UNCHANGED <<hash, lease, registration, jobQueue>>
    BY <1>8, Zenon DEF Ack, Goto, Forget, RemoveProcessing
  <2>2. c = cur[w] /\ c \in Jobs
    BY <1>1, <2>1, Zenon DEF WorkerOK, Busy
  <2> HIDE DEF c
  <2>3. Only(w)
    BY <1>1, <2>1, Zenon DEF Only
  <2>4. Exact(w)'
    BY <1>1, <2>1, <2>2 DEF WorkerList, Exact, Less
  <2>5. WorkerList(w)'
    BY <1>1, <2>1, <2>4, Zenon DEF WorkerList, Alive, Gone
  <2>6. ~BeforeLease(w) /\ ~AfterLease(w)
    BY <2>1, Zenon DEF BeforeLease, AfterLease
  <2>7. ASSUME NEW k \in Jobs, hash[k].status \in Pending
        PROVE  Held(k)' \/ Claimed(k)'
    <3>1. Held(k) \/ Claimed(k)
      BY <2>7, Zenon DEF Answered
    <3>2. InQueue(k) => InQueue(k)'
      BY <2>1, Zenon DEF InQueue
    <3> QED  BY <2>1, <2>3, <2>6, <3>1, <3>2, OthersAnswer, Zenon
  <2> QED  BY <2>1, <2>3, <2>5, <2>7, WorkerListsStep, Zenon DEF Answered
<1>9. CASE Crash(w)
  <2>1. /\ Alive(w) /\ pc' = [pc EXCEPT ![w] = "dead"]
        /\ cur' = [cur EXCEPT ![w] = NoOne] /\ job' = [job EXCEPT ![w] = NoJob]
        /\ UNCHANGED <<hash, lease, registration, jobQueue, processing>>
    BY <1>9, Zenon DEF Crash, Goto, Forget, redis
  <2>2. Only(w) /\ pc[w] \notin {"dead", "stopped"} /\ registration[w] = "fresh"
    BY <1>1, <2>1, Zenon DEF Only, Alive, Gone, WorkerList
  <2>3. WorkerList(w)'
    BY <1>1, <2>1, <2>2, Zenon DEF WorkerList, Alive, Gone
  <2>4. ASSUME NEW k \in Jobs, hash[k].status \in Pending
        PROVE  Held(k)' \/ Claimed(k)'
    <3>1. Held(k) \/ Claimed(k)
      BY <2>4, Zenon DEF Answered
    <3>2. InQueue(k) => InQueue(k)'
      BY <2>1, Zenon DEF InQueue
    <3>3. CASE cur[w] = k
      <4>1. processing[w][k] = 1
        BY <1>1, <2>2, <3>3, Zenon DEF WorkerList, Exact
      <4> QED  BY <1>1, <2>1, <4>1 DEF Held
    <3> QED  BY <2>1, <2>2, <3>1, <3>2, <3>3, OthersAnswer, Zenon
  <2> QED  BY <2>1, <2>2, <2>3, <2>4, WorkerListsStep, Zenon DEF Answered
<1> QED  BY <1>3, <1>4, <1>5, <1>6, <1>7, <1>8, <1>9, Zenon DEF WorkerNext

-----------------------------------------------------------------------------
(* The inductive invariant behind "a job is in one place only". *)

(* While nothing crashes and nothing fails, a job is in one place: in the  *)
(* queue once, with one worker, on the DLQ or with one retry request; an   *)
(* upload that is not accepted is nowhere.                                 *)
Calm == Reliable /\ Unspent({"crash"})

Nowhere(j) == /\ hash[j].status = "none" /\ ~InQueue(j) /\ dlq[j] = 0 /\ retrying[j] = 0
              /\ \A w \in Workers : cur[w] # j

OnePlace(j) ==
  /\ \A v, w \in Workers : Working(v, j) /\ Working(w, j) => v = w
  /\ InQueue(j) => \A w \in Workers : ~Working(w, j)
  /\ InQueue(j) \/ (\E w \in Workers : Working(w, j)) => dlq[j] = 0 /\ retrying[j] = 0
  /\ dlq[j] + retrying[j] \in {0, 1}
  /\ hash[j].status = "failed" <=> \/ dlq[j] + retrying[j] = 1
                                   \/ \E w \in Workers : cur[w] = j /\ pc[w] = "todlq"
  /\ request[j] # "accepted" => Nowhere(j)

(* Until an operator retries from the DLQ, the package of a job that may   *)
(* still be scanned is there, and a worker that is about to delete one has *)
(* settled its job.                                                        *)
Needed(j) == \/ hash[j].status \in Pending \/ InQueue(j) \/ request[j] = "stored"
             \/ \E w \in Workers : Working(w, j)

Stored(j) ==
  /\ retrying[j] = 0
  /\ Needed(j) => j \in uploads
  /\ \A w \in Workers : cur[w] = j /\ pc[w] = "clear" => hash[j].status = "completed"
  /\ \A w \in Workers : cur[w] = j /\ pc[w] = "discard" => ~Needed(j)

AllStored == \A j \in Jobs : Stored(j)

Placed == /\ IsInjective(jobQueue) /\ \A r \in Reapers : hand[r] = NoOne
          /\ \A j \in Jobs : OnePlace(j)

NoneDead == \A w \in Workers : pc[w] # "dead"

PlaceInv == /\ IInv
            /\ Calm => Placed /\ NoneDead
            /\ Calm /\ Unspent({"dlqRetry"}) => AllStored

-----------------------------------------------------------------------------
(* What the calls of processJob do to the place of their job. *)

(* A step that does not touch job k. *)
LEMMA Untouched ==
  ASSUME NEW k \in Jobs, hash'[k] = hash[k], dlq'[k] = dlq[k],
         retrying'[k] = retrying[k], request'[k] = request[k], InQueue(k)' <=> InQueue(k),
         \A v \in Workers : (cur'[v] = k <=> cur[v] = k) /\ (cur[v] = k => pc'[v] = pc[v])
  PROVE  /\ OnePlace(k) => OnePlace(k)'
         /\ Stored(k) /\ (k \in uploads => k \in uploads') => Stored(k)'
<1>1. \A v \in Workers : Working(v, k)' <=> Working(v, k)
  BY Zenon DEF Working
<1>2. OnePlace(k) => OnePlace(k)'
  BY <1>1 DEF OnePlace, Nowhere
<1>3. Needed(k)' <=> Needed(k)
  BY <1>1, Zenon DEF Needed
<1> QED  BY <1>2, <1>3, Zenon DEF Stored

(* A step of processJob that reads only, or deletes the package or the     *)
(* lease: the worker keeps the job, or lets go of it.                      *)
LEMMA QuietStep ==
  ASSUME NEW w \in Workers, NEW c \in Jobs, NEW p,
         pc \in [Workers -> Busy \cup Gone \cup {"idle"}],
         cur[w] = c, pc' = [pc EXCEPT ![w] = p], UNCHANGED <<hash, jobQueue, dlq, cur, apiVars>>,
         OnePlace(c), pc[w] # "todlq", p # "todlq",
         pc[w] \in {"discard", "ack"} => p \in {"discard", "ack"}
  PROVE  /\ OnePlace(c)'
         /\ Stored(c) /\ p # "clear"
            /\ (p = "discard" => hash[c].status \in Terminal /\ Working(w, c))
            /\ (c \in uploads => c \in uploads' \/ pc[w] = "discard")
              => Stored(c)'
<1>1. \A v \in Workers : v # w => pc'[v] = pc[v]
  BY Zenon
<1>2. pc'[w] = p /\ (InQueue(c)' <=> InQueue(c)) /\ UNCHANGED <<request, retrying>>
  BY Zenon DEF InQueue, apiVars
<1>3. \A v \in Workers : Working(v, c)' => Working(v, c)
  BY <1>1, <1>2, Zenon DEF Working
<1>4. OnePlace(c)'
  BY <1>1, <1>2, <1>3 DEF OnePlace, Nowhere
<1>5. Needed(c)' => Needed(c)
  BY <1>2, <1>3, Zenon DEF Needed
<1>6. ASSUME p = "discard", hash[c].status \in Terminal, Working(w, c)
      PROVE  ~Needed(c)'
  <2>1. \A v \in Workers : ~Working(v, c)'
    BY <1>1, <1>2, <1>6, Zenon DEF OnePlace, Working
  <2>2. ~InQueue(c) /\ request[c] = "accepted"
    BY <1>6, Zenon DEF OnePlace, Nowhere
  <2> QED  BY <1>2, <1>6, <2>1, <2>2, Zenon DEF Needed, Pending, Terminal
<1>7. ASSUME Stored(c), p # "clear",
             p = "discard" => hash[c].status \in Terminal /\ Working(w, c),
             c \in uploads => c \in uploads' \/ pc[w] = "discard"
      PROVE  Stored(c)'
  <2>1. pc[w] = "discard" => ~Needed(c)
    BY <1>7, Zenon DEF Stored
  <2>2. Needed(c)' => c \in uploads'
    BY <1>5, <1>7, <2>1, Zenon DEF Stored
  <2>3. ASSUME NEW v \in Workers, cur'[v] = c, pc'[v] = "discard"
        PROVE  ~Needed(c)'
    BY <1>1, <1>2, <1>5, <1>6, <1>7, <2>3, Zenon DEF Stored
  <2>4. ASSUME NEW v \in Workers, cur'[v] = c, pc'[v] = "clear"
        PROVE  hash'[c].status = "completed"
    BY <1>1, <1>2, <1>7, <2>4, Zenon DEF Stored
  <2> QED  BY <1>2, <1>7, <2>2, <2>3, <2>4, Zenon DEF Stored
<1> QED  BY <1>4, <1>7, Zenon

(* UpdateJob: nobody else has the job, so only its status changes. *)
LEMMA UpdateStep ==
  ASSUME NEW w \in Workers, NEW c \in Jobs, NEW p,
         pc \in [Workers -> Busy \cup Gone \cup {"idle"}],
         cur[w] = c, pc[w] = "update", pc' = [pc EXCEPT ![w] = p],
         UNCHANGED <<jobQueue, dlq, cur, uploads, apiVars>>, OnePlace(c),
         p \in {"lease", "clear", "push", "todlq"},
         hash'[c].status = "failed" <=> p = "todlq",
         p = "clear" => hash'[c].status = "completed"
  PROVE  OnePlace(c)' /\ (Stored(c) => Stored(c)')
<1>1. \A v \in Workers : v # w => pc'[v] = pc[v]
  BY Zenon
<1>2. pc'[w] = p /\ (InQueue(c)' <=> InQueue(c)) /\ UNCHANGED <<request, retrying>>
  BY Zenon DEF InQueue, apiVars
<1>3. \A v \in Workers : Working(v, c)' <=> Working(v, c)
  BY <1>1, <1>2, Zenon DEF Working
<1>4. Working(w, c)
  BY Zenon DEF Working
<1>5. \A v \in Workers : cur[v] = c /\ pc[v] # "ack" /\ pc[v] # "discard" => v = w
  BY <1>4, Zenon DEF OnePlace, Working
<1>6. dlq[c] = 0 /\ retrying[c] = 0 /\ request[c] = "accepted"
  BY <1>4, Zenon DEF OnePlace, Nowhere
<1>7. OnePlace(c)'
  <2>1. hash'[c].status = "failed" <=> \/ dlq'[c] + retrying'[c] = 1
                                       \/ \E v \in Workers : cur'[v] = c /\ pc'[v] = "todlq"
    <3>1. dlq'[c] = 0 /\ retrying'[c] = 0 /\ cur'[w] = c
      BY <1>2, <1>6, Zenon
    <3>2. \A v \in Workers : v # w /\ cur'[v] = c => pc'[v] # "todlq"
      BY <1>1, <1>5, Zenon
    <3>3. (\E v \in Workers : cur'[v] = c /\ pc'[v] = "todlq") <=> p = "todlq"
      BY <1>2, <3>1, <3>2, Zenon
    <3>4. dlq'[c] + retrying'[c] # 1
      BY <3>1
    <3> QED  BY <3>3, <3>4, Zenon
  <2> QED  BY <1>2, <1>3, <1>6, <2>1, Zenon DEF OnePlace
<1>8. ASSUME Stored(c)
      PROVE  Stored(c)'
  <2>1. Needed(c)
    BY <1>4, Zenon DEF Needed
  <2>2. c \in uploads' /\ \A v \in Workers : cur[v] = c => pc[v] # "discard"
    BY <1>8, <2>1, Zenon DEF Stored
  <2> QED  BY <1>1, <1>2, <1>5, <1>6, <2>2, Zenon DEF Stored
<1> QED  BY <1>7, <1>8, Zenon

(* PushJob: the job goes from the worker to the queue. *)
LEMMA PushStep ==
  ASSUME NEW w \in Workers, NEW c \in Jobs,
         pc \in [Workers -> Busy \cup Gone \cup {"idle"}],
         cur[w] = c, pc[w] = "push", pc' = [pc EXCEPT ![w] = "ack"], InQueue(c)',
         UNCHANGED <<hash, dlq, cur, uploads, apiVars>>, OnePlace(c)
  PROVE  OnePlace(c)' /\ (Stored(c) => Stored(c)')
<1>1. pc'[w] = "ack" /\ \A v \in Workers : v # w => pc'[v] = pc[v]
  BY Zenon
<1>2. UNCHANGED <<request, retrying>>
  BY Zenon DEF apiVars
<1>3. Working(w, c)
  BY Zenon DEF Working
<1>4. \A v \in Workers : ~Working(v, c)'
  BY <1>1, <1>3, Zenon DEF OnePlace, Working
<1>5. dlq[c] = 0 /\ retrying[c] = 0 /\ request[c] = "accepted"
  BY <1>3, Zenon DEF OnePlace, Nowhere
<1>6. \A v \in Workers : pc'[v] = "todlq" <=> pc[v] = "todlq"
  BY <1>1, Zenon
<1>7. OnePlace(c)'
  BY <1>2, <1>4, <1>5, <1>6, Zenon DEF OnePlace
<1>8. ASSUME Stored(c)
      PROVE  Stored(c)'
  <2>1. Needed(c)
    BY <1>3, Zenon DEF Needed
  <2> QED  BY <1>1, <1>2, <1>8, <2>1, Zenon DEF Stored
<1> QED  BY <1>7, <1>8, Zenon

(* MoveToDLQ: the job goes from the worker to the DLQ. *)
LEMMA ToDLQStep ==
  ASSUME NEW w \in Workers, NEW c \in Jobs,
         pc \in [Workers -> Busy \cup Gone \cup {"idle"}],
         cur[w] = c, pc[w] = "todlq", pc' = [pc EXCEPT ![w] = "discard"],
         dlq'[c] = dlq[c] + 1, UNCHANGED <<hash, jobQueue, cur, uploads, apiVars>>, OnePlace(c)
  PROVE  OnePlace(c)' /\ (Stored(c) => Stored(c)')
<1>1. pc'[w] = "discard" /\ \A v \in Workers : v # w => pc'[v] = pc[v]
  BY Zenon
<1>2. UNCHANGED <<request, retrying>> /\ (InQueue(c)' <=> InQueue(c))
  BY Zenon DEF apiVars, InQueue
<1>3. Working(w, c)
  BY Zenon DEF Working
<1>4. \A v \in Workers : ~Working(v, c)'
  BY <1>1, <1>3, Zenon DEF OnePlace, Working
<1>5. /\ dlq[c] = 0 /\ retrying[c] = 0 /\ request[c] = "accepted" /\ ~InQueue(c)
      /\ hash[c].status = "failed"
  BY <1>3, Zenon DEF OnePlace, Nowhere
<1>6. dlq'[c] + retrying'[c] = 1
  BY <1>2, <1>5
<1>7. OnePlace(c)'
  BY <1>2, <1>4, <1>5, <1>6, Zenon DEF OnePlace
<1>8. ~Needed(c)'
  BY <1>2, <1>4, <1>5, Zenon DEF Needed, Pending
<1>9. ASSUME Stored(c)
      PROVE  Stored(c)'
  BY <1>1, <1>2, <1>8, <1>9, Zenon DEF Stored
<1> QED  BY <1>7, <1>9, Zenon

(* AckJob: the worker has let go of the job before. *)
LEMMA AckStep ==
  ASSUME NEW w \in Workers, NEW c \in Jobs,
         pc \in [Workers -> Busy \cup Gone \cup {"idle"}],
         cur \in [Workers -> Jobs \cup {NoOne}],
         cur[w] = c, pc[w] = "ack", pc' = [pc EXCEPT ![w] = "idle"],
         cur' = [cur EXCEPT ![w] = NoOne],
         UNCHANGED <<hash, jobQueue, dlq, uploads, apiVars>>, OnePlace(c)
  PROVE  OnePlace(c)' /\ (Stored(c) => Stored(c)')
<1>1. /\ cur'[w] = NoOne /\ NoOne # c
      /\ \A v \in Workers : v # w => pc'[v] = pc[v] /\ cur'[v] = cur[v]
  BY QueueAssumption, Zenon
<1>2. UNCHANGED <<request, retrying>> /\ (InQueue(c)' <=> InQueue(c))
  BY Zenon DEF apiVars, InQueue
<1>3. \A v \in Workers : Working(v, c)' <=> Working(v, c)
  BY <1>1, Zenon DEF Working
<1>4. request[c] = "accepted"
  BY Zenon DEF OnePlace, Nowhere
<1>5. \A v \in Workers, p \in {"todlq", "clear", "discard"} :
        cur'[v] = c /\ pc'[v] = p <=> cur[v] = c /\ pc[v] = p
  BY <1>1, Zenon
<1>6. OnePlace(c)'
  BY <1>2, <1>3, <1>4, <1>5, Zenon DEF OnePlace
<1>7. Needed(c)' <=> Needed(c)
  BY <1>2, <1>3, Zenon DEF Needed
<1>8. ASSUME Stored(c)
      PROVE  Stored(c)'
  BY <1>2, <1>5, <1>7, <1>8, Zenon DEF Stored
<1> QED  BY <1>6, <1>8, Zenon

(* PopJobReliable: the job goes from the queue to the worker. *)
LEMMA PopStep ==
  ASSUME NEW w \in Workers, NEW c \in Jobs,
         pc \in [Workers -> Busy \cup Gone \cup {"idle"}],
         cur \in [Workers -> Jobs \cup {NoOne}],
         cur[w] # c, pc' = [pc EXCEPT ![w] = "load"],
         cur' = [cur EXCEPT ![w] = c], InQueue(c), ~InQueue(c)',
         UNCHANGED <<hash, dlq, uploads, apiVars>>, OnePlace(c)
  PROVE  OnePlace(c)' /\ (Stored(c) => Stored(c)')
<1>1. /\ cur'[w] = c /\ pc'[w] = "load"
      /\ \A v \in Workers : v # w => pc'[v] = pc[v] /\ cur'[v] = cur[v]
  BY Zenon
<1>2. UNCHANGED <<request, retrying>>
  BY Zenon DEF apiVars
<1>3. dlq[c] = 0 /\ retrying[c] = 0 /\ request[c] = "accepted"
  BY Zenon DEF OnePlace, Nowhere
<1>4. \A v \in Workers : Working(v, c)' <=> v = w
  BY <1>1, Zenon DEF OnePlace, Working
<1>5. \A v \in Workers : cur'[v] = c => pc'[v] # "todlq"
  BY <1>1, <1>4, Zenon DEF Working
<1>6. \A v \in Workers : cur[v] = c => pc[v] # "todlq"
  BY Zenon DEF OnePlace, Working
<1>7. OnePlace(c)'
  BY <1>2, <1>3, <1>4, <1>5, <1>6, Zenon DEF OnePlace
<1>8. ASSUME Stored(c)
      PROVE  Stored(c)'
  <2>1. Needed(c)
    BY Zenon DEF Needed
  <2> QED  BY <1>1, <1>2, <1>8, <2>1, Zenon DEF Stored
<1> QED  BY <1>7, <1>8, Zenon
=============================================================================
