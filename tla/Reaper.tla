------------------------------- MODULE Reaper -------------------------------
(***************************************************************************)
(* The dead-worker reaper (morf/queue/reaper.go).  Every pod runs one, so  *)
(* there are several.  A sweep visits the registered workers in SCAN       *)
(* order, which is arbitrary; each visit is a reapWorker call of several   *)
(* Redis round trips.                                                      *)
(***************************************************************************)
EXTENDS JobQueue

CONSTANT Reapers

VARIABLES rpc,      \* where reapWorker is
          target,   \* the worker it visits
          todo,     \* what is left of the LRANGE result
          hand      \* the job between LREM and RPUSH, or NoOne

reaperVars == <<rpc, target, todo, hand>>

Nothing == [j \in Jobs |-> 0]

ReaperTypeOK ==
  /\ rpc \in [Reapers -> {"idle", "range", "requeue", "repush"}]
  /\ target \in [Reapers -> Workers \cup {NoOne}]
  /\ todo \in [Reapers -> [Jobs -> Nat]]
  /\ hand \in [Reapers -> Jobs \cup {NoOne}]

ReaperInit ==
  /\ rpc = [r \in Reapers |-> "idle"]
  /\ target = [r \in Reapers |-> NoOne]
  /\ todo = [r \in Reapers |-> Nothing]
  /\ hand = [r \in Reapers |-> NoOne]

(* reapWorker returns, or its process dies. *)
Done(r) ==
  /\ rpc' = [rpc EXCEPT ![r] = "idle"]
  /\ target' = [target EXCEPT ![r] = NoOne]
  /\ todo' = [todo EXCEPT ![r] = Nothing]
  /\ hand' = [hand EXCEPT ![r] = NoOne]

(* Mutant: the age of the heartbeat is not looked at. *)
ReapCheckAny(r, w) ==
  /\ rpc[r] = "idle" /\ registration[w] # "none"
  /\ rpc' = [rpc EXCEPT ![r] = "range"]
  /\ target' = [target EXCEPT ![r] = w]
  /\ Fine /\ UNCHANGED <<todo, hand, redis>>

(* HGET last_heartbeat: a missing or recent one ends the visit. *)
ReapCheck(r, w) ==
  /\ rpc[r] = "idle" /\ registration[w] = "stale"
  /\ rpc' = [rpc EXCEPT ![r] = "range"]
  /\ target' = [target EXCEPT ![r] = w]
  /\ Fine /\ UNCHANGED <<todo, hand, redis>>

(* LRANGE of the processing list. *)
ReapRange(r) ==
  /\ rpc[r] = "range"
  /\ \/ /\ Fine
        /\ rpc' = [rpc EXCEPT ![r] = "requeue"]
        /\ todo' = [todo EXCEPT ![r] = processing[target[r]]]
        /\ UNCHANGED <<target, hand>>
     \/ Strikes("io") /\ Done(r)
  /\ UNCHANGED redis

(* Mutants: RequeueProcessing pushes whatever its LREM removed; it pushes  *)
(* after an LREM that failed.                                              *)
ReapRemoveAlways(r, j) ==
  /\ rpc[r] = "requeue" /\ todo[r][j] > 0
  /\ todo' = [todo EXCEPT ![r] = Less(@, j)]
  /\ Fine /\ RemoveProcessing(target[r], j)
  /\ rpc' = [rpc EXCEPT ![r] = "repush"]
  /\ hand' = [hand EXCEPT ![r] = j]
  /\ UNCHANGED target
ReapRemoveOnError(r, j) ==
  /\ rpc[r] = "requeue" /\ todo[r][j] > 0
  /\ todo' = [todo EXCEPT ![r] = Less(@, j)]
  /\ \/ Fine /\ processing[target[r]][j] > 0 /\ RemoveProcessing(target[r], j)
     \/ Strikes("io") /\ UNCHANGED redis
  /\ rpc' = [rpc EXCEPT ![r] = "repush"]
  /\ hand' = [hand EXCEPT ![r] = j]
  /\ UNCHANGED target

(* RequeueProcessing, first half: the LREM decides who requeues. *)
ReapRemove(r, j) ==
  /\ rpc[r] = "requeue" /\ todo[r][j] > 0
  /\ todo' = [todo EXCEPT ![r] = Less(@, j)]
  /\ \/ /\ Fine /\ processing[target[r]][j] > 0
        /\ RemoveProcessing(target[r], j)
        /\ rpc' = [rpc EXCEPT ![r] = "repush"]
        /\ hand' = [hand EXCEPT ![r] = j]
     \/ /\ Fine /\ processing[target[r]][j] = 0
        /\ UNCHANGED <<redis, rpc, hand>>
     \/ /\ Strikes("io")    \* the LREM may have been applied
        /\ RemoveProcessing(target[r], j) \/ UNCHANGED redis
        /\ UNCHANGED <<rpc, hand>>
  /\ UNCHANGED target

(* RequeueProcessing, second half: a failed RPUSH is logged and skipped. *)
ReapPush(r) ==
  /\ rpc[r] = "repush"
  /\ rpc' = [rpc EXCEPT ![r] = "requeue"]
  /\ hand' = [hand EXCEPT ![r] = NoOne]
  /\ \/ Fine /\ PushJob(hand[r])
     \/ Strikes("io") /\ UNCHANGED redis
  /\ UNCHANGED <<target, todo>>

(* Mutant: the registration goes before every entry is requeued. *)
ReapDeleteEarly(r) ==
  /\ rpc[r] = "requeue"
  /\ Fine /\ WriteRegistration(target[r], "none") /\ Done(r)

(* DEL of the registration, whatever became of the requeues. *)
ReapDelete(r) ==
  /\ rpc[r] = "requeue" /\ todo[r] = Nothing
  /\ \/ Fine /\ WriteRegistration(target[r], "none")
     \/ Strikes("io") /\ UNCHANGED redis
  /\ Done(r)

(* The reaper's pod dies; another pod's reaper carries on. *)
ReaperCrash(r) ==
  /\ rpc[r] # "idle" /\ Strikes("reaperCrash")
  /\ Done(r) /\ UNCHANGED redis

ReaperNext(r) ==
  \/ \E w \in Workers : ReapCheck(r, w)
  \/ ReapRange(r)
  \/ \E j \in Jobs : ReapRemove(r, j)
  \/ ReapPush(r) \/ ReapDelete(r) \/ ReaperCrash(r)
=============================================================================
