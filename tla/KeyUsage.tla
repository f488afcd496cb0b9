------------------------------ MODULE KeyUsage ------------------------------
(***************************************************************************)
(* The batched last_used updates of one API key (morf/auth/middleware.go   *)
(* recordKeyUsage, StartAPIKeyUsageFlusher, flushPendingUsage).  Time is   *)
(* the number of uses of the key so far.                                   *)
(***************************************************************************)
EXTENDS Integers

CONSTANTS Flushers,      \* goroutines that try to start the flusher
          MaxUses        \* uses of the key, at most

VARIABLES uses,       \* the time of the latest use
          pending,    \* pendingUsage: the lastSeen buffered, 0 for none
          flusher,    \* each flusher: whether it runs, and the batch it writes
          lastUsed    \* the last_used column

usageVars == <<uses, pending, flusher, lastUsed>>

UsageTypeOK ==
  /\ uses \in 0..MaxUses /\ pending \in 0..MaxUses /\ lastUsed \in 0..MaxUses
  /\ flusher \in [Flushers -> [runs : BOOLEAN, batch : 0..MaxUses]]

UsageInit ==
  /\ uses = 0 /\ pending = 0 /\ lastUsed = 0
  /\ flusher = [f \in Flushers |-> [runs |-> FALSE, batch |-> 0]]

Runs == \E f \in Flushers : flusher[f].runs

(* Mutant: without the sync.Once every call starts a flusher. *)
StartEveryFlusher(f) == flusher' = [flusher EXCEPT ![f].runs = TRUE]

(* flusherOnce: only the first call starts one. *)
FlusherOnce(f) == flusher' = IF Runs THEN flusher ELSE [flusher EXCEPT ![f].runs = TRUE]

(* recordKeyUsage: the use, under the lock, and the lazy start. *)
RecordKeyUsage ==
  /\ uses < MaxUses /\ uses' = uses + 1 /\ pending' = uses + 1
  /\ \E f \in Flushers : FlusherOnce(f)
  /\ UNCHANGED lastUsed

(* StartAPIKeyUsageFlusher, called by main. *)
StartAPIKeyUsageFlusher ==
  /\ \E f \in Flushers : FlusherOnce(f)
  /\ UNCHANGED <<uses, pending, lastUsed>>

(* flushPendingUsage: swap the map under the lock, then write the batch    *)
(* outside it; a failed UPDATE, or no database, drops it.                  *)
FlushSwap(f) ==
  /\ flusher[f].runs /\ flusher[f].batch = 0 /\ pending # 0
  /\ flusher' = [flusher EXCEPT ![f].batch = pending] /\ pending' = 0
  /\ UNCHANGED <<uses, lastUsed>>

FlushWrite(f) ==
  /\ flusher[f].batch # 0
  /\ flusher' = [flusher EXCEPT ![f].batch = 0]
  /\ lastUsed' \in {flusher[f].batch, lastUsed}
  /\ UNCHANGED <<uses, pending>>

UsageNext == \/ RecordKeyUsage \/ StartAPIKeyUsageFlusher
             \/ \E f \in Flushers : FlushSwap(f) \/ FlushWrite(f)

UsageSpec == UsageInit /\ [][UsageNext]_usageVars

-----------------------------------------------------------------------------
(* last_used never goes back, though batches are written outside the lock  *)
(* (flushPendingUsage, StartAPIKeyUsageFlusher).                           *)
LastUsedAdvances == [][lastUsed' >= lastUsed]_usageVars
=============================================================================
