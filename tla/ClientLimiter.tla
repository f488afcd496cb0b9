--------------------------- MODULE ClientLimiter ----------------------------
(***************************************************************************)
(* The per-IP token bucket of the API (morf/router/middleware.go).  One    *)
(* address: its shard's mutex makes the map look-up one step, and Allow    *)
(* comes after the unlock.  Between them the reaper may delete the entry.  *)
(* A tick is the time one token takes to come back.                        *)
(***************************************************************************)
EXTENDS Integers, Sequences, FiniteSetsExt, Functions

CONSTANTS Callers,     \* requests of the address in flight at a time
          Burst,       \* MORF_RATE_LIMIT_BURST
          IdleTTL,     \* MORF_RATE_LIMIT_IDLE in ticks
          Horizon      \* where time stops

(* NewRateLimiter's clamps. *)
BurstFloor == IF Burst < 1 THEN 10 ELSE Burst
IdleFloor  == IF IdleTTL <= 0 THEN 10 ELSE IdleTTL

(* The defaults refill a bucket (2 s) long before it is idle (10 min). *)
ASSUME LimiterAssumption == /\ Burst \in Int /\ IdleTTL \in Int /\ Horizon \in Nat
                            /\ IdleFloor >= BurstFloor

VARIABLES clock,
          bucket,     \* every limiter made: its tokens
          visitor,    \* the map's entry: which bucket, when it was last seen
          holds,      \* the bucket each request got from get, 0 before
          reaped,     \* when the reaper last ran
          allowed     \* how many requests were allowed in each tick

limiterVars == <<clock, bucket, visitor, holds, reaped, allowed>>

NoVisitor == [id |-> 0, seen |-> 0]

LimiterTypeOK ==
  /\ clock \in 0..Horizon /\ reaped \in 0..Horizon
  /\ bucket \in Seq(0..BurstFloor)
  /\ visitor.id \in 0..Len(bucket)
  /\ holds \in [Callers -> 0..Len(bucket)]
  /\ allowed \in [0..Horizon -> Nat]

LimiterInit ==
  /\ clock = 0 /\ reaped = 0 /\ bucket = <<>> /\ visitor = NoVisitor
  /\ holds = [c \in Callers |-> 0]
  /\ allowed = [t \in 0..Horizon |-> 0]

(* Mutant: the entry keeps the time it was made. *)
GetBucketStale(c) ==
  /\ holds[c] = 0
  /\ IF visitor.id = 0
     THEN /\ bucket' = Append(bucket, BurstFloor)
          /\ visitor' = [id |-> Len(bucket) + 1, seen |-> clock]
     ELSE UNCHANGED <<bucket, visitor>>
  /\ holds' = [holds EXCEPT ![c] = visitor'.id]
  /\ UNCHANGED <<clock, reaped, allowed>>

(* get, under the shard's lock: it always renews lastSeen. *)
GetBucket(c) ==
  /\ holds[c] = 0
  /\ IF visitor.id = 0
     THEN /\ bucket' = Append(bucket, BurstFloor)
          /\ visitor' = [id |-> Len(bucket) + 1, seen |-> clock]
     ELSE visitor' = [visitor EXCEPT !.seen = clock] /\ UNCHANGED bucket
  /\ holds' = [holds EXCEPT ![c] = visitor'.id]
  /\ UNCHANGED <<clock, reaped, allowed>>

(* Middleware: Allow, or 429. *)
TakeToken(c) ==
  /\ holds[c] # 0
  /\ IF bucket[holds[c]] > 0
     THEN /\ bucket' = [bucket EXCEPT ![holds[c]] = @ - 1]
          /\ allowed' = [allowed EXCEPT ![clock] = @ + 1]
     ELSE UNCHANGED <<bucket, allowed>>
  /\ holds' = [holds EXCEPT ![c] = 0]
  /\ UNCHANGED <<clock, visitor, reaped>>

(* reaper: every idle period, entries not seen since the cutoff go. *)
ReapVisitors ==
  /\ clock - reaped >= IdleFloor /\ reaped' = clock
  /\ visitor' = IF visitor.seen < clock - IdleFloor THEN NoVisitor ELSE visitor
  /\ UNCHANGED <<clock, bucket, holds, allowed>>

(* rate.Limiter refills every bucket up to its burst.  No request takes a  *)
(* tick from get to Allow.                                                 *)
LimiterTick ==
  /\ clock < Horizon /\ clock' = clock + 1
  /\ \A c \in Callers : holds[c] = 0
  /\ bucket' = [i \in 1..Len(bucket) |-> Min({BurstFloor, bucket[i] + 1})]
  /\ UNCHANGED <<visitor, holds, reaped, allowed>>

LimiterNext == (\E c \in Callers : GetBucket(c) \/ TakeToken(c)) \/ ReapVisitors \/ LimiterTick

LimiterSpec == LimiterInit /\ [][LimiterNext]_limiterVars

-----------------------------------------------------------------------------
AllowedIn(from, to) == SumFunctionOnSet(allowed, from..to)

(* The limit holds over every stretch of time: in n ticks an address gets  *)
(* at most its burst and n more, although the reaper forgets its bucket,   *)
(* also between a request's get and its Allow (Middleware, reaper).        *)
RateIsBounded ==
  \A from, to \in 0..Horizon :
    from <= to => AllowedIn(from, to) <= BurstFloor + (to - from)
=============================================================================
