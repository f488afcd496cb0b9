--------------------------- MODULE OnePlaceProofs ---------------------------
(***************************************************************************)
(* A job is in one place only, for every set of jobs, workers and reapers, *)
(* every retry limit, queue limit and budget of events: two workers never  *)
(* process it together, the DLQ is exact, and no package goes too early.   *)
(***************************************************************************)
EXTENDS ScanServiceProofs, FiniteSetTheorems

-----------------------------------------------------------------------------
(* Steps of the workers. *)
(* A step of worker w on job c keeps every job in its place if it keeps c  *)
(* there: the other jobs are not touched (processJob).                     *)
LEMMA OneJobStep ==
  ASSUME Placed, NEW w \in Workers, NEW c \in Jobs, UNCHANGED <<hand, apiVars>>,
         cur[w] \notin Jobs \ {c}, cur'[w] \notin Jobs \ {c},
         \A v \in Workers \ {w} : cur'[v] = cur[v] /\ pc'[v] = pc[v],
         \A k \in Jobs \ {c} : hash'[k] = hash[k] /\ dlq'[k] = dlq[k]
                               /\ (InQueue(k)' <=> InQueue(k))
                               /\ (k \in uploads => k \in uploads'),
         IsInjective(jobQueue'), OnePlace(c)', AllStored => Stored(c)'
  PROVE  Placed' /\ (AllStored => AllStored')
<1>1. ASSUME NEW k \in Jobs \ {c}
      PROVE  OnePlace(k)' /\ (AllStored => Stored(k)')
  <2>1. /\ UNCHANGED <<retrying, request>> /\ OnePlace(k)
        /\ \A v \in Workers : (cur'[v] = k <=> cur[v] = k) /\ (cur[v] = k => pc'[v] = pc[v])
    BY <1>1, Zenon DEF Placed, apiVars
  <2> QED  BY <1>1, <2>1, Untouched, Zenon DEF AllStored
<1> QED  BY <1>1, Zenon DEF Placed, AllStored

(* Every call of processJob keeps its job in one place and its package, as *)
(* long as no I/O error strikes.                                           *)
LEMMA ProcessPlaced ==
  ASSUME TypeInv, Placed, ~Strikes("io"), NEW w \in Workers, ProcessJob(w),
         UNCHANGED <<reaperVars, apiVars>>
  PROVE  Placed' /\ (AllStored => AllStored')
<1> USE QueueAssumption
<1>0. pc[w] \in Busy /\ cur[w] \in Jobs /\ WorkerOK(w)
  BY Zenon DEF ProcessJob, Load, Update, Lease, PreCheck, Scan, Reread, Success, Failure, Push,
         ToDLQ, Clear, Discard, Ack, Busy, TypeInv, ControlOK, WorkerOK
<1>1. PICK c \in Jobs : WorkerOK(w) /\ c = cur[w] /\ OnePlace(c)
  BY <1>0, Zenon DEF Placed
<1>2. /\ pc \in [Workers -> Busy \cup Gone \cup {"idle"}]
      /\ cur \in [Workers -> Jobs \cup {NoOne}] /\ hash \in [Jobs -> ScanJob]
      /\ jobQueue \in Seq(Jobs) /\ dlq \in [Jobs -> Nat] /\ job[w] \in ScanJob
      /\ IsInjective(jobQueue) /\ UNCHANGED hand
  BY Zenon DEF TypeInv, TypeOK, QueueTypeOK, RedisTypeOK, WorkerTypeOK, Placed, reaperVars
<1>3. ASSUME NEW p, pc' = [pc EXCEPT ![w] = p], UNCHANGED <<hash, jobQueue, dlq, cur>>,
             pc[w] # "todlq", p \notin {"todlq", "clear"},
             pc[w] \in {"discard", "ack"} => p \in {"discard", "ack"},
             uploads' = uploads \/ (pc[w] = "discard" /\ uploads' = uploads \ {c}),
             AllStored /\ p = "discard" => hash[c].status \in Terminal /\ Working(w, c)
      PROVE  Placed' /\ (AllStored => AllStored')
  <2>1. OnePlace(c)' /\ (AllStored => Stored(c)')
    <3>1. c \in uploads => c \in uploads' \/ pc[w] = "discard"
      BY <1>3, Zenon
    <3> QED  BY <1>1, <1>2, <1>3, <3>1, QuietStep, Zenon DEF AllStored
  <2>2. \A k \in Jobs \ {c} : /\ hash'[k] = hash[k] /\ dlq'[k] = dlq[k]
                              /\ InQueue(k)' <=> InQueue(k)
                              /\ k \in uploads => k \in uploads'
    BY <1>3, Zenon DEF InQueue
  <2>3. \A v \in Workers \ {w} : cur'[v] = cur[v] /\ pc'[v] = pc[v]
    BY <1>2, <1>3, Zenon
  <2> QED  BY <1>1, <1>2, <1>3, <2>1, <2>2, <2>3, OneJobStep, Zenon
<1>4. CASE Load(w)
  <2>1. PICK p \in {"ack", "discard", "update"} :
          /\ pc' = [pc EXCEPT ![w] = p] /\ pc[w] = "load"
          /\ p = "discard" => hash[c].status = "cancelled"
    BY <1>1, <1>4, Zenon DEF Load, Goto
  <2>2. Working(w, c)
    BY <1>1, <2>1, Zenon DEF Working
  <2> QED  BY <1>3, <1>4, <2>1, <2>2, Zenon DEF Load, redis, Stay, Terminal
<1>5. CASE Update(w)
  <2> DEFINE p == AfterUpdate[job[w].status]
  <2>1. /\ UpdateJob(c, job[w]) /\ pc' = [pc EXCEPT ![w] = p] /\ UNCHANGED <<cur, uploads>>
        /\ job[w].status \in {"processing", "completed", "queued", "failed"}
        /\ pc[w] = "update"
    BY <1>1, <1>5, Zenon DEF Update, WorkerOK, Goto, Stay
  <2>2. /\ hash'[c] = job[w] /\ \A k \in Jobs \ {c} : hash'[k] = hash[k]
        /\ UNCHANGED <<jobQueue, dlq>>
    BY <1>2, <2>1, Zenon DEF UpdateJob
  <2>3. /\ p \in {"lease", "clear", "push", "todlq"}
        /\ job[w].status = "failed" <=> p = "todlq"
        /\ p = "clear" => job[w].status = "completed"
    BY <2>1 DEF AfterUpdate
  <2> HIDE DEF p
  <2>4. OnePlace(c)' /\ (Stored(c) => Stored(c)')
    BY <1>1, <1>2, <2>1, <2>2, <2>3, UpdateStep, Zenon
  <2>5. \A v \in Workers \ {w} : cur'[v] = cur[v] /\ pc'[v] = pc[v]
    BY <1>2, <2>1, Zenon
  <2> QED  BY <1>1, <1>2, <2>1, <2>2, <2>4, <2>5, OneJobStep, Zenon DEF InQueue, AllStored
<1>6. CASE Lease(w)
  <2>1. /\ pc[w] = "lease" /\ pc' = [pc EXCEPT ![w] = "precheck"]
        /\ UNCHANGED <<hash, jobQueue, dlq, cur, uploads>>
    BY <1>6, Zenon DEF Lease, Goto, Stay, WriteLease
  <2> DEFINE p == "precheck"
  <2>2. /\ pc[w] # "todlq" /\ p \notin {"todlq", "clear"} /\ uploads' = uploads
        /\ pc[w] \in {"discard", "ack"} => p \in {"discard", "ack"}
        /\ AllStored /\ p = "discard" => hash[c].status \in Terminal /\ Working(w, c)
    BY <2>1, Zenon
  <2>3. pc' = [pc EXCEPT ![w] = p] /\ UNCHANGED <<hash, jobQueue, dlq, cur>>
    BY <2>1, Zenon
  <2> HIDE DEF p
  <2> QED  BY <1>3, <2>2, <2>3, Zenon
<1>7. CASE PreCheck(w)
  BY <1>1, <1>3, <1>7, Zenon DEF PreCheck, Superseded, Goto, Stay, redis
<1>8. CASE Scan(w)
  BY <1>1, <1>3, <1>8, Zenon DEF Scan, Goto, Stay, redis
<1>9. CASE Reread(w)
  <2>1. PICK p \in {"discard", "failure"} :
          /\ pc' = [pc EXCEPT ![w] = p] /\ pc[w] = "reread"
          /\ p = "discard" => hash[c].status = "cancelled"
    BY <1>1, <1>9, Zenon DEF Reread, Goto
  <2>2. Working(w, c)
    BY <1>1, <2>1, Zenon DEF Working
  <2> QED  BY <1>3, <1>9, <2>1, <2>2, Zenon DEF Reread, redis, Stay, Terminal
<1>10. CASE Success(w)
  BY <1>1, <1>3, <1>10, Zenon DEF Success, Superseded, Goto, Stay, redis
<1>11. CASE Failure(w)
  BY <1>1, <1>3, <1>11, Zenon DEF Failure, Superseded, Goto, Stay, redis
<1>12. CASE Push(w)
  <2>1. /\ pc[w] = "push" /\ pc' = [pc EXCEPT ![w] = "ack"] /\ UNCHANGED <<cur, uploads>>
        /\ jobQueue' = Append(jobQueue, c) /\ UNCHANGED <<hash, dlq>>
    BY <1>1, <1>12, Zenon DEF Push, Goto, Stay, PushJob
  <2>2. ~InQueue(c)
    BY <1>1, <2>1, Zenon DEF OnePlace, Working
  <2>3. /\ IsInjective(jobQueue')
        /\ \A k : InQueue(k)' <=> InQueue(k) \/ k = c
    BY <1>2, <2>1, <2>2, AppendDistinct DEF InQueue
  <2>4. OnePlace(c)' /\ (Stored(c) => Stored(c)')
    BY <1>1, <1>2, <2>1, <2>3, PushStep, Zenon
  <2>5. \A v \in Workers \ {w} : cur'[v] = cur[v] /\ pc'[v] = pc[v]
    BY <1>2, <2>1, Zenon
  <2> QED  BY <1>1, <1>2, <2>1, <2>3, <2>4, <2>5, OneJobStep, Zenon DEF AllStored
<1>13. CASE ToDLQ(w)
  <2>1. /\ pc[w] = "todlq" /\ pc' = [pc EXCEPT ![w] = "discard"] /\ UNCHANGED <<cur, uploads>>
        /\ dlq'[c] = dlq[c] + 1 /\ UNCHANGED <<hash, jobQueue>>
        /\ \A k \in Jobs \ {c} : dlq'[k] = dlq[k]
    BY <1>1, <1>2, <1>13, Zenon DEF ToDLQ, Goto, Stay, MoveToDLQ, More
  <2>2. OnePlace(c)' /\ (Stored(c) => Stored(c)')
    BY <1>1, <1>2, <2>1, ToDLQStep, Zenon
  <2>3. \A v \in Workers \ {w} : cur'[v] = cur[v] /\ pc'[v] = pc[v]
    BY <1>2, <2>1, Zenon
  <2> QED  BY <1>1, <1>2, <2>1, <2>2, <2>3, OneJobStep, Zenon DEF AllStored, InQueue
<1>14. CASE Clear(w)
  <2>1. pc[w] = "clear" /\ (AllStored => hash[c].status = "completed")
    BY <1>1, <1>14, Zenon DEF Clear, AllStored, Stored
  <2>2. Working(w, c)
    BY <1>1, <2>1, Zenon DEF Working
  <2>3. /\ pc' = [pc EXCEPT ![w] = "discard"]
        /\ UNCHANGED <<hash, jobQueue, dlq, cur, uploads>>
    BY <1>14, Zenon DEF Clear, Goto, Stay, WriteLease
  <2>4. AllStored => hash[c].status \in Terminal
    BY <2>1, Zenon DEF Terminal
  <2> DEFINE p == "discard"
  <2>5. /\ pc[w] # "todlq" /\ p \notin {"todlq", "clear"} /\ uploads' = uploads
        /\ pc[w] \in {"discard", "ack"} => p \in {"discard", "ack"}
        /\ AllStored /\ p = "discard" => hash[c].status \in Terminal /\ Working(w, c)
    BY <2>1, <2>2, <2>3, <2>4, Zenon
  <2>6. pc' = [pc EXCEPT ![w] = p] /\ UNCHANGED <<hash, jobQueue, dlq, cur>>
    BY <2>3, Zenon
  <2> HIDE DEF p
  <2> QED  BY <1>3, <2>5, <2>6, Zenon
<1>15. CASE Discard(w)
  <2> DEFINE p == "ack"
  <2>1. /\ pc[w] = "discard" /\ (uploads' = uploads \/ uploads' = uploads \ {c})
        /\ pc' = [pc EXCEPT ![w] = p] /\ UNCHANGED <<hash, jobQueue, dlq, cur>>
    BY <1>1, <1>15, Zenon DEF Discard, Goto, Stay, Delete, redis
  <2>2. /\ pc[w] # "todlq" /\ p \notin {"todlq", "clear", "discard"}
        /\ p \in {"discard", "ack"}
        /\ uploads' = uploads \/ (pc[w] = "discard" /\ uploads' = uploads \ {c})
    BY <2>1, Zenon
  <2> HIDE DEF p
  <2> QED  BY <1>3, <2>1, <2>2, Zenon
<1>16. CASE Ack(w)
  <2>1. /\ pc[w] = "ack" /\ pc' = [pc EXCEPT ![w] = "idle"]
        /\ cur' = [cur EXCEPT ![w] = NoOne]
        /\ UNCHANGED <<hash, jobQueue, dlq, uploads>>
    BY <1>16, Zenon DEF Ack, Goto, Forget, RemoveProcessing
  <2>2. OnePlace(c)' /\ (Stored(c) => Stored(c)')
    BY <1>1, <1>2, <2>1, AckStep, Zenon
  <2>3. cur'[w] = NoOne /\ \A v \in Workers \ {w} : cur'[v] = cur[v] /\ pc'[v] = pc[v]
    BY <1>2, <2>1, Zenon
  <2> QED  BY <1>1, <1>2, <2>1, <2>2, <2>3, OneJobStep, Zenon DEF AllStored, InQueue
<1> QED  BY <1>4, <1>5, <1>6, <1>7, <1>8, <1>9, <1>10, <1>11, <1>12, <1>13, <1>14, <1>15,
             <1>16, Zenon DEF ProcessJob

(* A budget that is untouched after a step was so before, and no event of  *)
(* its kind struck in it.                                                  *)
LEMMA StaysUnspent ==
  ASSUME TypeInv, NEW k \in Events, budget'[k] = Budget[k],
         Fine \/ \E e \in Events : Strikes(e)
  PROVE  budget[k] = Budget[k] /\ ~Strikes(k)
<1> budget \in [Events -> Nat] /\ Budget \in [Events -> Nat]
    /\ \A e \in Events : budget[e] <= Budget[e]
  BY QueueAssumption, Zenon DEF TypeInv, TypeOK, QueueTypeOK, BudgetOK
<1>1. ~Strikes(k)
  BY DEF Strikes
<1> QED  BY <1>1, Zenon DEF Fine, Strikes

(* A step that moves no job: the loop of a worker, a heartbeat, a reaper   *)
(* that finds nothing, the clock.                                          *)
LEMMA NoJobStep ==
  ASSUME Placed, UNCHANGED <<hash, jobQueue, dlq, uploads, cur, apiVars>>,
         \A r \in Reapers : hand'[r] = NoOne,
         \A v \in Workers : cur[v] \in Jobs => pc'[v] = pc[v]
  PROVE  Placed' /\ (AllStored => AllStored')
<1>1. ASSUME NEW k \in Jobs
      PROVE  OnePlace(k)' /\ (AllStored => Stored(k)')
  <2>1. /\ UNCHANGED <<retrying, request>> /\ OnePlace(k) /\ (InQueue(k)' <=> InQueue(k))
        /\ \A v \in Workers : cur[v] = k => pc'[v] = pc[v]
    BY Zenon DEF Placed, apiVars, InQueue
  <2> QED  BY <2>1, Untouched, Zenon DEF AllStored
<1> QED  BY <1>1, Zenon DEF Placed, AllStored

(* Every step of a worker that does not crash keeps each job in one place  *)
(* (Start, PopJobReliable, processJob).                                    *)
LEMMA WorkerPlaced ==
  ASSUME TypeInv, Placed, ~Strikes("io"), ~Strikes("crash"), NEW w \in Workers, WorkerNext(w),
         UNCHANGED <<reaperVars, apiVars>>
  PROVE  Placed' /\ (AllStored => AllStored')
<1> USE QueueAssumption
<1>1. /\ pc \in [Workers -> Busy \cup Gone \cup {"idle"}]
      /\ cur \in [Workers -> Jobs \cup {NoOne}] /\ jobQueue \in Seq(Jobs)
      /\ IsInjective(jobQueue) /\ UNCHANGED hand /\ \A r \in Reapers : hand'[r] = NoOne
  BY Zenon DEF TypeInv, TypeOK, QueueTypeOK, RedisTypeOK, WorkerTypeOK, Placed, reaperVars
<1>2. pc[w] \in {"off", "idle"} => cur[w] \notin Jobs
  BY Zenon DEF TypeInv, ControlOK, WorkerOK, Busy
<1>3. CASE Start(w) \/ Stop(w) \/ Heartbeat(w)
  <2>1. /\ UNCHANGED <<hash, jobQueue, dlq, uploads, cur>>
        /\ pc[w] \in {"off", "idle"} \/ UNCHANGED pc
        /\ \A v \in Workers \ {w} : pc'[v] = pc[v]
    BY <1>1, <1>3, Zenon DEF Start, Stop, Heartbeat, Goto, Stay, WriteRegistration, redis, workerVars
  <2>2. \A v \in Workers : cur[v] \in Jobs => pc'[v] = pc[v]
    BY <1>2, <2>1, Zenon
  <2> QED  BY <1>1, <2>1, <2>2, NoJobStep, Zenon
<1>4. CASE Pop(w)
  <2>1. jobQueue # <<>> /\ Head(jobQueue) \in Jobs
    BY <1>1, <1>4, TailOnList, Zenon DEF Pop, PopJobReliable
  <2>2. PICK c \in Jobs : c = Head(jobQueue)
    BY <2>1, Zenon
  <2>3. /\ pc[w] = "idle" /\ jobQueue' = Tail(jobQueue)
        /\ pc' = [pc EXCEPT ![w] = "load"] /\ cur' = [cur EXCEPT ![w] = c]
        /\ UNCHANGED <<hash, dlq, uploads>>
    BY <1>4, <2>2, Zenon DEF Pop, PopJobReliable, Goto
  <2>4. /\ IsInjective(Tail(jobQueue)) /\ ~OnList(Tail(jobQueue), c) /\ OnList(jobQueue, c)
        /\ \A k : OnList(Tail(jobQueue), k) => OnList(jobQueue, k)
    BY <1>1, <2>1, <2>2, TailDistinct, Zenon
  <2>5. \A k : OnList(jobQueue, k) => k = c \/ OnList(Tail(jobQueue), k)
    BY <1>1, <2>1, <2>2, TailOnList, Zenon
  <2>6. /\ IsInjective(jobQueue') /\ InQueue(c) /\ ~InQueue(c)'
        /\ \A k : k # c => (InQueue(k)' <=> InQueue(k))
    BY <2>3, <2>4, <2>5, Zenon DEF InQueue
  <2>7. OnePlace(c) /\ cur[w] \notin Jobs
    BY <1>2, <2>3, <2>6, Zenon DEF Placed
  <2>8. cur[w] # c
    BY <2>6, <2>7, Zenon
  <2>9. OnePlace(c)' /\ (Stored(c) => Stored(c)')
    BY <1>1, <2>3, <2>6, <2>7, <2>8, PopStep, Zenon
  <2>10. /\ \A v \in Workers \ {w} : cur'[v] = cur[v] /\ pc'[v] = pc[v]
        /\ cur'[w] \notin Jobs \ {c} /\ cur[w] \notin Jobs \ {c}
    BY <1>1, <2>3, <2>7, Zenon
  <2>11. \A k \in Jobs \ {c} : hash'[k] = hash[k] /\ dlq'[k] = dlq[k]
                              /\ (InQueue(k)' <=> InQueue(k))
                              /\ (k \in uploads => k \in uploads')
    BY <2>3, <2>6, Zenon
  <2>12. AllStored => Stored(c)'
    BY <2>6, <2>9, Zenon DEF AllStored
  <2> QED  BY <1>1, <2>6, <2>9, <2>10, <2>11, <2>12, OneJobStep, Zenon
<1>5. CASE ProcessJob(w)
  BY <1>5, ProcessPlaced, Zenon
<1> QED  BY <1>3, <1>4, <1>5, Zenon DEF WorkerNext, Crash

(* No call of a worker ends its process: only a crash does (Start,         *)
(* processJob).                                                            *)
LEMMA WorkerLives ==
  ASSUME TypeInv, NoneDead, ~Strikes("crash"), NEW w \in Workers, WorkerNext(w)
  PROVE  NoneDead'
<1>1. pc \in [Workers -> Busy \cup Gone \cup {"idle"}] /\ WorkerOK(w)
  BY Zenon DEF TypeInv, TypeOK, WorkerTypeOK, ControlOK
<1>2. ASSUME NEW p, pc' = [pc EXCEPT ![w] = p], p # "dead"
      PROVE  NoneDead'
  BY <1>1, <1>2, Zenon DEF NoneDead
<1>3. CASE Start(w) \/ Stop(w) \/ Pop(w)
  BY <1>2, <1>3, Zenon DEF Start, Stop, Pop, Goto, NoneDead, workerVars
<1>4. CASE Heartbeat(w)
  BY <1>4, Zenon DEF Heartbeat, workerVars, NoneDead
<1>5. CASE Update(w)
  <2>1. AfterUpdate[job[w].status] # "dead"
    BY <1>1, <1>5 DEF WorkerOK, Update, AfterUpdate
  <2> QED  BY <1>2, <1>5, <2>1, Zenon DEF Update, Goto
<1>6. CASE ProcessJob(w) /\ ~Update(w)
  BY <1>2, <1>6, Zenon DEF ProcessJob, Load, Lease, PreCheck, Superseded, Scan, Reread, Success,
       Failure, Push, ToDLQ, Clear, Discard, Ack, Goto
<1> QED  BY <1>3, <1>4, <1>5, <1>6, Zenon DEF WorkerNext, Crash, ProcessJob

-----------------------------------------------------------------------------
(* Steps of the reapers and of the API handlers. *)

(* While no worker has crashed a reaper finds nothing to requeue: it       *)
(* visits stopped workers only, and their lists are empty (reapWorker).    *)
LEMMA ReaperPlaced ==
  ASSUME TypeInv, ListsOK, NoneDead, Placed, ~Strikes("io"), NEW r \in Reapers, ReaperNext(r),
         UNCHANGED <<uploads, workerVars, apiVars>>
  PROVE  Placed' /\ (AllStored => AllStored')
<1> USE QueueAssumption
<1>1. /\ ReaperOK(r) /\ ReaperSees(r) /\ hand[r] = NoOne
      /\ \A w \in Workers : WorkerOK(w) /\ WorkerList(w)
      /\ processing \in [Workers -> [Jobs -> Nat]]
      /\ hand \in [Reapers -> Jobs \cup {NoOne}] /\ \A q \in Reapers : hand[q] = NoOne
  BY Zenon DEF TypeInv, TypeOK, QueueTypeOK, RedisTypeOK, ReaperTypeOK, ControlOK, ListsOK, Placed
<1>2. rpc[r] # "repush"
  BY <1>1, Zenon DEF ReaperOK
<1>3. ASSUME NEW j \in Jobs, rpc[r] = "requeue"
      PROVE  ~(processing[target[r]][j] > 0)
  <2>1. target[r] \in Workers /\ pc[target[r]] = "stopped"
    BY <1>1, <1>3, Zenon DEF ReaperOK, ReaperSees, NoneDead
  <2>2. cur[target[r]] # j
    BY <1>1, <2>1, Zenon DEF WorkerOK, Busy
  <2>3. Exact(target[r])
    BY <1>1, <2>1, Zenon DEF WorkerList
  <2> QED  BY <2>1, <2>2, <2>3 DEF Exact
<1>4. ASSUME NEW j \in Jobs, ReapRemove(r, j)
      PROVE  UNCHANGED <<redis, hand>>
  BY <1>3, <1>4, Zenon DEF ReapRemove
<1>5. UNCHANGED <<hash, jobQueue, dlq>> /\ \A q \in Reapers : hand'[q] = NoOne
  BY <1>1, <1>2, <1>4, Zenon DEF ReaperNext, ReapCheck, ReapRange, ReapPush, ReapDelete, ReaperCrash,
       Done, redis, WriteRegistration
<1>6. UNCHANGED <<cur, pc>>
  BY Zenon DEF workerVars
<1> QED  BY <1>5, <1>6, NoJobStep, Zenon

(* A step of a handler on job j keeps every job in its place if it keeps j *)
(* there: the other jobs are not touched (/upload, /cancel, /retry).       *)
LEMMA OneRequestStep ==
  ASSUME Placed, NEW j \in Jobs, UNCHANGED <<pc, cur, hand>>,
         \A k \in Jobs \ {j} : /\ hash'[k] = hash[k] /\ dlq'[k] = dlq[k]
                               /\ retrying'[k] = retrying[k] /\ request'[k] = request[k]
                               /\ InQueue(k)' <=> InQueue(k)
                               /\ k \in uploads => k \in uploads',
         IsInjective(jobQueue'), OnePlace(j)'
  PROVE  Placed' /\ (AllStored /\ Stored(j)' => AllStored')
<1>1. ASSUME NEW k \in Jobs \ {j}
      PROVE  OnePlace(k)' /\ (AllStored => Stored(k)')
  <2>1. OnePlace(k)
    BY Zenon DEF Placed
  <2> QED  BY <1>1, <2>1, Untouched, Zenon DEF AllStored
<1> QED  BY <1>1, Zenon DEF Placed, AllStored

(* An upload that is not accepted is nowhere in Redis, and its package may *)
(* go (the upload handler before EnqueueJobAtomicWithLimit, and its undo). *)
LEMMA UploadStep ==
  ASSUME NEW j \in Jobs, OnePlace(j), request[j] # "accepted", request'[j] # "accepted",
         request'[j] # "stored" \/ j \in uploads',
         UNCHANGED <<hash, jobQueue, dlq, retrying, pc, cur>>
  PROVE  OnePlace(j)' /\ Stored(j)'
<1>1. Nowhere(j)
  BY Zenon DEF OnePlace
<1>2. Nowhere(j)'
  BY <1>1, Zenon DEF Nowhere, InQueue
<1>3. ~(\E w \in Workers : cur'[w] = j)
  BY <1>2, Zenon DEF Nowhere
<1>4. OnePlace(j)'
  BY <1>2, <1>3, Zenon DEF OnePlace, Nowhere, Working
<1>5. Stored(j)'
  BY <1>2, <1>3, Zenon DEF Stored, Needed, Nowhere, Working, Pending
<1> QED  BY <1>4, <1>5, Zenon

(* EnqueueJobAtomic, of a new upload or of a job that an operator retries: *)
(* the queue is then the one place of the job.                             *)
LEMMA EnqueueStep ==
  ASSUME NEW j \in Jobs, \A w \in Workers : ~Working(w, j), hash'[j].status = "queued",
         dlq'[j] = 0, retrying'[j] = 0, request'[j] = "accepted", UNCHANGED <<pc, cur>>
  PROVE  /\ OnePlace(j)'
         /\ (\A w \in Workers : cur[w] # j) /\ j \in uploads' => Stored(j)'
<1>1. \A w \in Workers : ~Working(w, j)' /\ ~(cur'[w] = j /\ pc'[w] = "todlq")
  BY Zenon DEF Working
<1>2. OnePlace(j)'
  BY <1>1 DEF OnePlace
<1>3. ASSUME \A w \in Workers : cur[w] # j, j \in uploads'
      PROVE  Stored(j)'
  BY <1>3, Zenon DEF Stored
<1> QED  BY <1>2, <1>3, Zenon

(* cancelJobScript takes no package away from a worker and leaves the job  *)
(* at most where it was.                                                   *)
LEMMA CancelStep ==
  ASSUME NEW j \in Jobs, OnePlace(j), hash[j].status \in Pending,
         hash'[j].status = "cancelled", InQueue(j)' => InQueue(j),
         UNCHANGED <<dlq, uploads, request, retrying, pc, cur>>
  PROVE  OnePlace(j)' /\ (Stored(j) => Stored(j)')
<1>1. request[j] = "accepted"
  BY Zenon DEF OnePlace, Nowhere, Pending
<1>2. \A w \in Workers : Working(w, j)' <=> Working(w, j)
  BY Zenon DEF Working
<1>3. /\ hash[j].status # "failed" /\ hash'[j].status # "failed"
      /\ hash[j].status # "completed"
  BY Zenon DEF Pending
<1>4. OnePlace(j)'
  BY <1>1, <1>2, <1>3, Zenon DEF OnePlace
<1>5. ASSUME Stored(j)
      PROVE  Stored(j)'
  <2>1. Needed(j) /\ j \in uploads
    BY <1>5, Zenon DEF Stored, Needed
  <2>2. \A w \in Workers : cur'[w] = j => pc'[w] \notin {"clear", "discard"}
    BY <1>3, <1>5, <2>1, Zenon DEF Stored
  <2> QED  BY <1>5, <2>1, <2>2, Zenon DEF Stored
<1> QED  BY <1>4, <1>5, Zenon

(* Every step of an API handler keeps each job in one place; only a retry  *)
(* from the DLQ may queue a job without its package (/upload, CancelJob,   *)
(* RetryDLQJob).                                                           *)
LEMMA ApiPlaced ==
  ASSUME TypeInv, Placed, ~Strikes("io"), NEW j \in Jobs, ApiNext(j),
         UNCHANGED <<workerVars, reaperVars>>
  PROVE  Placed' /\ (AllStored /\ ~Strikes("dlqRetry") => AllStored')
<1>1. /\ hash \in [Jobs -> ScanJob] /\ jobQueue \in Seq(Jobs) /\ dlq \in [Jobs -> Nat]
      /\ retrying \in [Jobs -> Nat]
      /\ request \in [Jobs -> {"new", "stored", "undo", "accepted", "rejected"}]
      /\ IsInjective(jobQueue) /\ OnePlace(j) /\ UNCHANGED <<pc, cur, hand>>
  BY Zenon DEF TypeInv, TypeOK, QueueTypeOK, RedisTypeOK, ApiTypeOK, Placed, workerVars, reaperVars
<1>2. ASSUME EnqueueJobAtomic(j), ~InQueue(j)
      PROVE  /\ IsInjective(jobQueue') /\ hash'[j].status = "queued" /\ UNCHANGED dlq
             /\ \A k \in Jobs \ {j} : hash'[k] = hash[k] /\ (InQueue(k)' <=> InQueue(k))
  <2>1. /\ jobQueue' = Append(jobQueue, j) /\ UNCHANGED dlq
        /\ hash' = [hash EXCEPT ![j] = [status |-> "queued", retry |-> 0]]
    BY <1>2, Zenon DEF EnqueueJobAtomic
  <2>2. /\ IsInjective(Append(jobQueue, j))
        /\ \A y : OnList(Append(jobQueue, j), y) <=> OnList(jobQueue, y) \/ y = j
    BY <1>1, <1>2, AppendDistinct, Zenon DEF InQueue
  <2>3. /\ hash'[j].status = "queued"
        /\ \A k \in Jobs \ {j} : hash'[k] = hash[k]
    BY <1>1, <2>1, Zenon
  <2> QED  BY <2>1, <2>2, <2>3, Zenon DEF InQueue
<1>3. ASSUME NEW a, Reply(j, a), UNCHANGED redis, a \notin {"accepted"},
             request[j] # "accepted", a # "stored" \/ j \in uploads',
             \A k \in Jobs \ {j} : k \in uploads => k \in uploads'
      PROVE  Placed' /\ (AllStored => AllStored')
  <2>1. /\ UNCHANGED <<hash, jobQueue, dlq, retrying>> /\ request'[j] = a
        /\ \A k \in Jobs \ {j} : request'[k] = request[k] /\ (InQueue(k)' <=> InQueue(k))
    BY <1>1, <1>3, Zenon DEF Reply, redis, InQueue
  <2>2. OnePlace(j)' /\ Stored(j)'
    BY <1>1, <1>3, <2>1, UploadStep, Zenon
  <2> QED  BY <1>1, <1>3, <2>1, <2>2, OneRequestStep, Zenon
<1>4. CASE UploadPut(j)
  <2> DEFINE a == "stored"
  <2>1. /\ Reply(j, a) /\ UNCHANGED redis /\ request[j] # "accepted" /\ j \in uploads'
        /\ \A k \in Jobs \ {j} : k \in uploads => k \in uploads'
    BY <1>4, Zenon DEF UploadPut, Put
  <2>2. a \notin {"accepted"}
    BY Zenon
  <2> HIDE DEF a
  <2> QED  BY <1>3, <2>1, <2>2, Zenon
<1>5. CASE UploadUndo(j)
  <2> DEFINE a == "rejected"
  <2>1. /\ Reply(j, a) /\ UNCHANGED redis /\ request[j] # "accepted"
        /\ \A k \in Jobs \ {j} : k \in uploads => k \in uploads'
    BY <1>5, Zenon DEF UploadUndo, Delete
  <2>2. a \notin {"accepted"} /\ a # "stored"
    BY Zenon
  <2> HIDE DEF a
  <2> QED  BY <1>3, <2>1, <2>2, Zenon
<1>6. CASE UploadEnqueue(j)
  <2>1. CASE Admits(1) /\ EnqueueJobAtomic(j) /\ Reply(j, "accepted")
    <3>1. /\ Nowhere(j) /\ request[j] = "stored" /\ UNCHANGED <<uploads, retrying>>
          /\ request'[j] = "accepted"
          /\ \A k \in Jobs \ {j} : request'[k] = request[k]
      BY <1>1, <1>6, <2>1, Zenon DEF UploadEnqueue, OnePlace, Reply
    <3>2. /\ ~InQueue(j) /\ dlq[j] = 0 /\ retrying[j] = 0 /\ \A w \in Workers : cur[w] # j
      BY <3>1, Zenon DEF Nowhere
    <3>3. /\ IsInjective(jobQueue') /\ hash'[j].status = "queued" /\ UNCHANGED dlq
          /\ \A k \in Jobs \ {j} : hash'[k] = hash[k] /\ (InQueue(k)' <=> InQueue(k))
      BY <1>2, <2>1, <3>2, Zenon
    <3>4. AllStored => j \in uploads'
      BY <3>1, Zenon DEF AllStored, Stored, Needed
    <3>5. OnePlace(j)' /\ (AllStored => Stored(j)')
      BY <1>1, <3>1, <3>2, <3>3, <3>4, EnqueueStep, Zenon DEF Working
    <3> QED  BY <1>1, <3>1, <3>3, <3>5, OneRequestStep, Zenon
  <2>2. CASE UNCHANGED redis /\ Reply(j, "undo")
    <3> DEFINE a == "undo"
    <3>1. Reply(j, a) /\ request[j] # "accepted" /\ UNCHANGED uploads
      BY <1>6, <2>2, Zenon DEF UploadEnqueue
    <3>2. a \notin {"accepted"} /\ a # "stored"
      BY Zenon
    <3> HIDE DEF a
    <3> QED  BY <1>3, <2>2, <3>1, <3>2, Zenon
  <2> QED  BY <1>6, <2>1, <2>2, Zenon DEF UploadEnqueue
<1>7. CASE Cancel(j)
  <2>1. /\ hash[j].status \in Pending /\ hash' = [hash EXCEPT ![j].status = "cancelled"]
        /\ jobQueue' \in {jobQueue, LRem(jobQueue, j)}
        /\ UNCHANGED <<dlq, uploads, request, retrying>>
    BY <1>7, Zenon DEF Cancel, CancelJob, apiVars
  <2>2. hash'[j].status = "cancelled" /\ \A k \in Jobs \ {j} : hash'[k] = hash[k]
    BY <1>1, <2>1, Zenon DEF ScanJob
  <2>3. /\ IsInjective(LRem(jobQueue, j))
        /\ \A y : OnList(LRem(jobQueue, j), y) => OnList(jobQueue, y)
    BY <1>1, LRemDistinct, Zenon
  <2>4. \A y : y # j /\ OnList(jobQueue, y) => OnList(LRem(jobQueue, j), y)
    BY <1>1, LRemOnList, Zenon
  <2>5. /\ IsInjective(jobQueue') /\ (InQueue(j)' => InQueue(j))
        /\ \A k \in Jobs \ {j} : InQueue(k)' <=> InQueue(k)
    BY <1>1, <2>1, <2>3, <2>4, Zenon DEF InQueue
  <2>6. OnePlace(j)' /\ (Stored(j) => Stored(j)')
    BY <1>1, <2>1, <2>2, <2>5, CancelStep, Zenon
  <2>7. AllStored => Stored(j)'
    BY <2>6, Zenon DEF AllStored
  <2> QED  BY <1>1, <2>1, <2>2, <2>5, <2>6, <2>7, OneRequestStep, Zenon
<1>8. CASE RetryDLQRemove(j)
  <2>1. /\ dlq[j] > 0 /\ Strikes("dlqRetry")
        /\ dlq'[j] = dlq[j] - 1 /\ retrying'[j] = retrying[j] + 1
        /\ \A k \in Jobs \ {j} : dlq'[k] = dlq[k] /\ retrying'[k] = retrying[k]
        /\ UNCHANGED <<hash, jobQueue, request, uploads>>
    BY <1>1, <1>8, Zenon DEF RetryDLQRemove, RemoveDLQ, Less, More
  <2>2. dlq[j] \in Nat /\ retrying[j] \in Nat
    BY <1>1, Zenon
  <2>3. /\ dlq'[j] + retrying'[j] = dlq[j] + retrying[j]
        /\ dlq[j] # 0
    BY <2>1, <2>2
  <2>4. /\ ~InQueue(j)' /\ request'[j] = "accepted"
        /\ \A w \in Workers : ~Working(w, j)' /\ ~Working(w, j)
    BY <1>1, <2>1, <2>3, Zenon DEF OnePlace, Nowhere, InQueue, Working
  <2>5. OnePlace(j)'
    BY <1>1, <2>1, <2>3, <2>4, Zenon DEF OnePlace
  <2>6. \A k \in Jobs \ {j} : InQueue(k)' <=> InQueue(k)
    BY <2>1, Zenon DEF InQueue
  <2> QED  BY <1>1, <2>1, <2>5, <2>6, OneRequestStep, Zenon
<1>9. CASE RetryDLQEnqueue(j)
  <2>1. /\ retrying[j] > 0 /\ retrying'[j] = retrying[j] - 1 /\ EnqueueJobAtomic(j)
        /\ \A k \in Jobs \ {j} : retrying'[k] = retrying[k]
        /\ UNCHANGED <<request, uploads>>
    BY <1>1, <1>9, Zenon DEF RetryDLQEnqueue, Less
  <2>2. dlq[j] \in Nat /\ retrying[j] \in Nat /\ dlq[j] + retrying[j] \in {0, 1}
    BY <1>1, Zenon DEF OnePlace
  <2>3. dlq[j] = 0 /\ retrying'[j] = 0 /\ retrying[j] # 0
    BY <2>1, <2>2
  <2>4. /\ ~InQueue(j) /\ request[j] = "accepted" /\ \A w \in Workers : ~Working(w, j)
    BY <1>1, <2>3, Zenon DEF OnePlace, Nowhere
  <2>5. /\ IsInjective(jobQueue') /\ hash'[j].status = "queued" /\ UNCHANGED dlq
        /\ \A k \in Jobs \ {j} : hash'[k] = hash[k] /\ (InQueue(k)' <=> InQueue(k))
    BY <1>2, <2>1, <2>4, Zenon
  <2>6. OnePlace(j)'
    BY <1>1, <2>1, <2>3, <2>4, <2>5, EnqueueStep, Zenon
  <2>7. ~AllStored
    BY <2>3, Zenon DEF AllStored, Stored
  <2> QED  BY <1>1, <2>1, <2>5, <2>6, <2>7, OneRequestStep, Zenon
<1> QED  BY <1>4, <1>5, <1>6, <1>7, <1>8, <1>9, Zenon DEF ApiNext

-----------------------------------------------------------------------------
(* A job is in one place only. *)

(* Nothing is uploaded yet (NewJobQueue).                                  *)
LEMMA PlaceInit == Init => PlaceInv
<1> SUFFICES ASSUME Init
             PROVE  PlaceInv
  BY Zenon
<1> USE QueueAssumption
<1>1. /\ jobQueue = <<>> /\ \A w \in Workers : cur[w] \notin Jobs /\ pc[w] = "off"
      /\ \A j \in Jobs : /\ hash[j].status = "none" /\ dlq[j] = 0 /\ retrying[j] = 0
                         /\ request[j] = "new"
      /\ \A r \in Reapers : hand[r] = NoOne
  BY Zenon DEF Init, QueueInit, WorkerInit, ReaperInit, ApiInit
<1>2. IsInjective(jobQueue) /\ \A j : ~InQueue(j)
  <2>1. Len(jobQueue) = 0 /\ DOMAIN jobQueue = {}
    <3>1. jobQueue = <<>>
      BY <1>1, Zenon
    <3>2. Len(<<>>) = 0 /\ DOMAIN <<>> = {}
      OBVIOUS
    <3> QED  BY <3>1, <3>2, Zenon
  <2>2. IsInjective(jobQueue)
    BY <2>1, Zenon DEF IsInjective
  <2>3. 1..Len(jobQueue) = {}
    BY <2>1
  <2> QED  BY <2>2, <2>3, Zenon DEF InQueue, OnList
<1>3. ASSUME NEW j \in Jobs
      PROVE  OnePlace(j) /\ Stored(j)
  <2>1. \A w \in Workers : cur[w] # j /\ ~Working(w, j)
    BY <1>1, Zenon DEF Working
  <2>2. Nowhere(j)
    BY <1>1, <1>2, <2>1, Zenon DEF Nowhere
  <2>3. ~Needed(j)
    BY <1>1, <1>2, <2>1, Zenon DEF Needed, Pending
  <2>4. dlq[j] + retrying[j] = 0 /\ hash[j].status # "failed"
    BY <1>1
  <2>5. OnePlace(j)
    BY <1>2, <2>1, <2>2, <2>4 DEF OnePlace
  <2>6. Stored(j)
    BY <1>1, <2>1, <2>3, Zenon DEF Stored
  <2> QED  BY <2>5, <2>6, Zenon
<1> QED  BY <1>1, <1>2, <1>3, SafeInit, Zenon DEF PlaceInv, Placed, AllStored, NoneDead

(* Every step keeps the invariant: processJob, reapWorker, the handlers    *)
(* and the clock.                                                          *)
LEMMA PlaceStep == PlaceInv /\ [Next]_vars => PlaceInv'
<1> SUFFICES ASSUME PlaceInv, [Next]_vars
             PROVE  PlaceInv'
  BY Zenon
<1>1. IInv' /\ TypeInv /\ (Reliable => ListsOK)
  BY SafeStep, Zenon DEF PlaceInv, IInv
<1> SUFFICES ASSUME Calm'
             PROVE  Placed' /\ NoneDead' /\ (Unspent({"dlqRetry"})' => AllStored')
  BY <1>1, Zenon DEF PlaceInv
<1>2. ASSUME Fine \/ \E k \in Events : Strikes(k)
      PROVE  /\ Placed /\ NoneDead /\ ListsOK /\ ~Strikes("io") /\ ~Strikes("crash")
             /\ Unspent({"dlqRetry"})' => AllStored /\ ~Strikes("dlqRetry")
  <2>1. Reliable /\ ~Strikes("io")
    BY <1>1, <1>2, StaysReliable, Zenon DEF Calm
  <2>2. budget'["crash"] = Budget["crash"] /\ "crash" \in Events /\ "dlqRetry" \in Events
    BY Zenon DEF Calm, Unspent, Events
  <2>3. budget["crash"] = Budget["crash"] /\ ~Strikes("crash")
    BY <1>1, <1>2, <2>2, StaysUnspent, Zenon
  <2>4. ASSUME Unspent({"dlqRetry"})'
        PROVE  Unspent({"dlqRetry"}) /\ ~Strikes("dlqRetry")
    BY <1>1, <1>2, <2>2, <2>4, StaysUnspent, Zenon DEF Unspent
  <2>5. Calm
    BY <2>1, <2>3, Zenon DEF Calm, Unspent
  <2> QED  BY <1>1, <2>1, <2>3, <2>4, <2>5, Zenon DEF PlaceInv
<1>3. ASSUME NEW w \in Workers, Worker(w)
      PROVE  Placed' /\ NoneDead' /\ (Unspent({"dlqRetry"})' => AllStored')
  <2>1. Fine \/ \E k \in Events : Strikes(k)
    BY <1>1, <1>3, WorkerKeys, Zenon DEF Worker
  <2> QED  BY <1>1, <1>2, <1>3, <2>1, WorkerPlaced, WorkerLives, Zenon DEF Worker
<1>4. ASSUME NEW r \in Reapers, Reap(r)
      PROVE  Placed' /\ NoneDead' /\ (Unspent({"dlqRetry"})' => AllStored')
  <2>1. Fine \/ \E k \in Events : Strikes(k)
    BY <1>1, <1>4, ReaperTypes, Zenon DEF Reap
  <2>2. NoneDead'
    BY <1>2, <1>4, <2>1, Zenon DEF Reap, workerVars, NoneDead
  <2> QED  BY <1>1, <1>2, <1>4, <2>1, <2>2, ReaperPlaced, Zenon DEF Reap
<1>5. ASSUME NEW j \in Jobs, Api(j)
      PROVE  Placed' /\ NoneDead' /\ (Unspent({"dlqRetry"})' => AllStored')
  <2>1. Fine \/ \E k \in Events : Strikes(k)
    BY <1>1, <1>5, ApiTypes, Zenon DEF Api
  <2>2. NoneDead'
    BY <1>2, <1>5, <2>1, Zenon DEF Api, workerVars, NoneDead
  <2> QED  BY <1>1, <1>2, <1>5, <2>1, <2>2, ApiPlaced, Zenon DEF Api
<1>6. CASE Clock \/ UNCHANGED vars
  <2>1. Fine \/ \E k \in Events : Strikes(k)
    BY <1>6, Zenon DEF Clock, HeartbeatAges, LeaseExpires, Events, vars, Fine
  <2>2. UNCHANGED <<hash, jobQueue, dlq, uploads, cur, apiVars, pc, hand>>
    BY <1>6, Zenon DEF Clock, HeartbeatAges, LeaseExpires, WriteRegistration, WriteLease, vars, redis,
           workerVars, reaperVars
  <2>3. \A r \in Reapers : hand'[r] = NoOne
    BY <1>2, <2>1, <2>2, Zenon DEF Placed
  <2>4. NoneDead'
    BY <1>2, <2>1, <2>2, Zenon DEF NoneDead
  <2> QED  BY <1>2, <2>1, <2>2, <2>3, <2>4, NoJobStep, Zenon
<1> QED  BY <1>3, <1>4, <1>5, <1>6, Zenon DEF Next

(* The invariant at every moment.                                          *)
THEOREM OnePlaceHolds == Spec => []PlaceInv
BY PlaceInit, PlaceStep, PTL DEF Spec

(* Two workers never process a job together, while nothing crashes and     *)
(* nothing fails (handleJobFailure's push before the ack, RetryDLQJob).    *)
THEOREM OneExecutionAtATime == Spec => []OneExecution
<1>1. PlaceInv => OneExecution
  BY Zenon DEF PlaceInv, Calm, Placed, OnePlace, OneExecution
<1> QED  BY <1>1, OnePlaceHolds, PTL

(* The DLQ holds every failed job once and no other, while nothing crashes *)
(* and nothing fails (MoveToDLQ, retryDLQRemoveScript).                    *)
THEOREM DLQIsExact == Spec => []FailedIsParked
<1>1. PlaceInv => FailedIsParked
  <2> SUFFICES ASSUME PlaceInv, Calm, NEW j \in Jobs
               PROVE  dlq[j] + retrying[j] + Cardinality(AtDLQDoor(j))
                        = (IF hash[j].status = "failed" THEN 1 ELSE 0)
    BY Zenon DEF FailedIsParked, Calm
  <2>1. OnePlace(j) /\ dlq[j] \in Nat /\ retrying[j] \in Nat
    BY Zenon DEF PlaceInv, Placed, IInv, TypeInv, TypeOK, QueueTypeOK, RedisTypeOK, ApiTypeOK
  <2>2. CASE AtDLQDoor(j) = {}
    <3>1. Cardinality(AtDLQDoor(j)) = 0
      BY <2>2, FS_EmptySet, Zenon
    <3>2. ~\E w \in Workers : cur[w] = j /\ pc[w] = "todlq"
      BY <2>2, Zenon DEF AtDLQDoor
    <3>3. /\ dlq[j] + retrying[j] \in {0, 1}
          /\ hash[j].status = "failed" <=> dlq[j] + retrying[j] = 1
      BY <2>1, <3>2, Zenon DEF OnePlace
    <3>4. PICK n : n = Cardinality(AtDLQDoor(j)) /\ n = 0
      BY <3>1, Zenon
    <3>5. dlq[j] + retrying[j] + n = (IF hash[j].status = "failed" THEN 1 ELSE 0)
      BY <2>1, <3>3, <3>4
    <3> QED  BY <3>4, <3>5, Zenon
  <2>3. CASE AtDLQDoor(j) # {}
    <3>1. PICK w \in Workers : cur[w] = j /\ pc[w] = "todlq"
      BY <2>3, Zenon DEF AtDLQDoor
    <3>2. AtDLQDoor(j) = {w}
      BY <2>1, <3>1, Zenon DEF AtDLQDoor, OnePlace, Working
    <3>3. Cardinality(AtDLQDoor(j)) = 1
      BY <3>2, FS_Singleton, Zenon
    <3>4. dlq[j] = 0 /\ retrying[j] = 0 /\ hash[j].status = "failed"
      BY <2>1, <3>1, Zenon DEF OnePlace, Working
    <3>5. PICK n : n = Cardinality(AtDLQDoor(j)) /\ n = 1
      BY <3>3, Zenon
    <3>6. dlq[j] + retrying[j] + n = (IF hash[j].status = "failed" THEN 1 ELSE 0)
      BY <3>4, <3>5
    <3> QED  BY <3>5, <3>6, Zenon
  <2> QED  BY <2>2, <2>3, Zenon
<1> QED  BY <1>1, OnePlaceHolds, PTL

(* A job that may still be scanned has its package, while nothing crashes, *)
(* fails or is retried from the DLQ (deleteUploadedArtifact).              *)
THEOREM PackagesAreKept == Spec => []PackagesKept
<1>1. PlaceInv => PackagesKept
  <2> SUFFICES ASSUME PlaceInv, Reliable, Unspent({"crash", "dlqRetry"}),
                      NEW j \in Jobs, hash[j].status \in Pending
               PROVE  j \in uploads
    BY Zenon DEF PackagesKept, HasPackage
  <2>1. Calm /\ Unspent({"dlqRetry"})
    BY Zenon DEF Calm, Unspent
  <2> QED  BY <2>1, Zenon DEF PlaceInv, AllStored, Stored, Needed
<1> QED  BY <1>1, OnePlaceHolds, PTL
=============================================================================
